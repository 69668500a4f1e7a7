------------------------------- MODULE TsTree -------------------------------
(***************************************************************************)
(* The trees of src/treestor.c: nodes that keep their children and their   *)
(* attributes in singly linked lists with a pointer to the last element,   *)
(* and lookups by dotted paths.                                            *)
(*                                                                         *)
(* Nodes and Attrs are blocks of memory, handed out by malloc and reused   *)
(* after free.  A freed block holds Junk in every pointer, and Dummy is    *)
(* the address of a local variable of ts_remove_child, which it leaves in  *)
(* child_tail when it removes an only child.                               *)
(*                                                                         *)
(* What the callers owe: nodes given to ts_add_child make no cycle, an     *)
(* attribute is added once, and only roots are freed.                      *)
(*                                                                         *)
(* A definition named Op_Slip is a faulty variant of Op, a slip that the   *)
(* properties are meant to catch; no action uses it.                       *)
(***************************************************************************)
EXTENDS Naturals, Sequences, FiniteSets, SequencesExt

CONSTANTS
  Nodes, Attrs,
  Names,
  NameOf,        \* the name a block is given when it is allocated
  Null, Dummy, Junk

ASSUME BlocksAssumption ==
  /\ IsFiniteSet(Nodes) /\ IsFiniteSet(Attrs)
  /\ NameOf \in [Nodes \cup Attrs -> Names]
  /\ {Null, Dummy, Junk} \cap (Nodes \cup Attrs) = {}

VARIABLES
  node,    \* struct ts_node of each block
  attr,    \* the next pointer of each struct ts_attr
  alive,   \* nodes allocated
  loose    \* attributes allocated and not added to a node

vars == <<node, attr, alive, loose>>

NodePtr == Nodes \cup {Null, Junk}
AttrPtr == Attrs \cup {Null, Junk}

TypeOK ==
  /\ node \in [Nodes -> [parent : NodePtr, next : NodePtr, child_list : NodePtr,
                         child_tail : NodePtr \cup {Dummy},
                         attr_list : AttrPtr, attr_tail : AttrPtr]]
  /\ attr \in [Attrs -> AttrPtr]
  /\ alive \subseteq Nodes /\ loose \subseteq Attrs

Freed == [parent |-> Junk, next |-> Junk, child_list |-> Junk, child_tail |-> Junk,
          attr_list |-> Junk, attr_tail |-> Junk]
Zeroed == [parent |-> Null, next |-> Null, child_list |-> Null, child_tail |-> Null,
           attr_list |-> Null, attr_tail |-> Null]

Init ==
  /\ node = [n \in Nodes |-> Freed] /\ attr = [a \in Attrs |-> Junk]
  /\ alive = {} /\ loose = {}

-----------------------------------------------------------------------------
(* The list that starts at a pointer.  A circular list is cut off when it   *)
(* is longer than there are blocks.                                         *)
Pointers == Nodes \cup Attrs \cup {Null, Dummy, Junk}
Walk(first, next, blocks) ==
  LET from[most \in 0..Cardinality(blocks)] ==
        [ptr \in Pointers |->
           IF ptr \in blocks /\ most > 0 THEN <<ptr>> \o from[most - 1][next[ptr]] ELSE <<>>]
  IN  from[Cardinality(blocks)][first]

nextNode == [m \in Nodes |-> node[m].next]
Children(n) == Walk(node[n].child_list, nextNode, Nodes)
Attributes(n) == Walk(node[n].attr_list, attr, Attrs)
Line(n) == Walk(n, [m \in Nodes |-> node[m].parent], Nodes)   \* n, its parent and so on

Members(seq) == {seq[i] : i \in DOMAIN seq}

(* What ts_free_tree reaches: the least set with n and all its children. *)
Reached(n) ==
  LET below == UNION {{m} \X Members(Children(m)) : m \in Nodes}
      closed == {S \in SUBSET Nodes : n \in S /\ \A e \in below : e[1] \in S => e[2] \in S}
  IN  {m \in Nodes : \A S \in closed : m \in S}

Roots == {n \in alive : node[n].parent = Null}

-----------------------------------------------------------------------------
ts_alloc_node(n) ==
  /\ n \notin alive
  /\ node' = [node EXCEPT ![n] = Zeroed] /\ alive' = alive \cup {n}
  /\ UNCHANGED <<attr, loose>>

OnSomeList(a) == \E n \in alive : a \in Members(Attributes(n))

ts_alloc_attr(a) ==
  /\ a \notin loose /\ ~OnSomeList(a)
  /\ attr' = [attr EXCEPT ![a] = Null] /\ loose' = loose \cup {a}
  /\ UNCHANGED <<node, alive>>

ts_free_attr(a) ==
  /\ a \in loose
  /\ attr' = [attr EXCEPT ![a] = Junk] /\ loose' = loose \ {a}
  /\ UNCHANGED <<node, alive>>

(* ts_add_attr: at the end of the list. *)
ts_add_attr(n, a) ==
  /\ n \in alive /\ a \in loose
  /\ loose' = loose \ {a}
  /\ IF node[n].attr_list = Null
       THEN /\ attr' = [attr EXCEPT ![a] = Null]
            /\ node' = [node EXCEPT ![n].attr_list = a, ![n].attr_tail = a]
       ELSE /\ attr' = [attr EXCEPT ![a] = Null, ![node[n].attr_tail] = a]
            /\ node' = [node EXCEPT ![n].attr_tail = a]
  /\ UNCHANGED alive

(* The struct ts_nodes after ts_remove_child(n, c).  c keeps its next.      *)
Unlinked_TailKept(n, c) ==
  LET list == Children(n)
      after == node[c].next
  IN  IF c \notin Members(list) THEN node
      ELSE IF list[1] = c
        THEN [node EXCEPT ![c].parent = Null, ![n].child_list = after]
        ELSE LET prev == list[(CHOOSE i \in DOMAIN list : list[i] = c) - 1] IN
             [node EXCEPT ![c].parent = Null, ![prev].next = after]
Unlinked_TailAlwaysSet(n, c) ==
  LET list == Children(n)
      after == node[c].next
  IN  IF c \notin Members(list) THEN node
      ELSE IF list[1] = c
        THEN [node EXCEPT ![c].parent = Null, ![n].child_list = after, ![n].child_tail = Dummy]
        ELSE LET prev == list[(CHOOSE i \in DOMAIN list : list[i] = c) - 1] IN
             [node EXCEPT ![c].parent = Null, ![prev].next = after, ![n].child_tail = prev]
Unlinked_ListAtDummy(n, c) ==
  IF c \notin Members(Children(n)) THEN node
  ELSE [node EXCEPT ![c].parent = Null, ![n].child_list = Dummy]
Unlinked(n, c) ==
  LET list == Children(n)
      after == node[c].next
  IN  IF c \notin Members(list) THEN node   \* returns -1
      ELSE IF list[1] = c
        THEN [node EXCEPT ![c].parent = Null, ![n].child_list = after,
                          ![n].child_tail = IF after = Null THEN Dummy ELSE @]
        ELSE LET prev == list[(CHOOSE i \in DOMAIN list : list[i] = c) - 1] IN
             [node EXCEPT ![c].parent = Null, ![prev].next = after,
                          ![n].child_tail = IF after = Null THEN prev ELSE @]

(* A node that is no child of n is looked for in vain: nothing changes.     *)
ts_remove_child(n, c) ==
  /\ {n, c} \subseteq alive /\ c \in Members(Children(n))
  /\ node' = Unlinked(n, c)
  /\ UNCHANGED <<attr, alive, loose>>

(* The second half of ts_add_child: c becomes the last child of n. *)
Linked(mem, n, c) ==
  IF mem[n].child_list = Null
    THEN [mem EXCEPT ![c].parent = n, ![c].next = Null,
                     ![n].child_list = c, ![n].child_tail = c]
    ELSE [mem EXCEPT ![c].parent = n, ![c].next = Null,
                     ![mem[n].child_tail].next = c, ![n].child_tail = c]

(* A child of another node is taken away from it first; a child of n stays  *)
(* where it is.                                                             *)
ts_add_child(n, c) ==
  /\ {n, c} \subseteq alive /\ c \notin Members(Line(n))
  /\ node' = IF node[c].parent = n THEN node
             ELSE Linked(IF node[c].parent = Null THEN node ELSE Unlinked(node[c].parent, c), n, c)
  /\ UNCHANGED <<attr, alive, loose>>

(* ts_free_tree, ts_free_node and ts_destroy_node, ts_free_attr of every    *)
(* node and attribute of the tree.                                          *)
ts_free_tree(n) ==
  /\ n \in Roots
  /\ LET gone == Reached(n) IN
       /\ alive' = alive \ gone
       /\ node' = [m \in Nodes |-> IF m \in gone THEN Freed ELSE node[m]]
       /\ attr' = [a \in Attrs |->
                     IF \E m \in gone : a \in Members(Attributes(m)) THEN Junk ELSE attr[a]]
  /\ UNCHANGED loose

-----------------------------------------------------------------------------
(* Lookups: the first child or attribute of that name. *)
FirstNamed_Last(seq, name) ==
  LET hits == {i \in DOMAIN seq : NameOf[seq[i]] = name}
  IN  IF hits = {} THEN Null ELSE seq[CHOOSE i \in hits : \A j \in hits : j <= i]
FirstNamed(seq, name) ==
  LET hits == {i \in DOMAIN seq : NameOf[seq[i]] = name}
  IN  IF hits = {} THEN Null ELSE seq[CHOOSE i \in hits : \A j \in hits : i <= j]

ts_get_child(n, name) == FirstNamed(Children(n), name)
ts_get_attr(n, name) == FirstNamed(Attributes(n), name)

(* path is split at its dots.  Its first name is the root's, the others     *)
(* lead downwards; a first namesake without the rest of the path ends the   *)
(* search.                                                                  *)
Descend(root, path) ==
  LET at[i \in 1..Len(path)] ==
        IF i = 1 THEN (IF NameOf[root] = path[1] THEN root ELSE Null)
        ELSE IF at[i - 1] = Null THEN Null ELSE ts_get_child(at[i - 1], path[i])
  IN  at[Len(path)]

(* A path without a dot finds nothing, not even the root. *)
ts_lookup_node(root, path) == IF Len(path) < 2 THEN Null ELSE Descend(root, path)

(* The last name is an attribute's. *)
ts_lookup(root, path) ==
  IF Len(path) < 2 THEN Null
  ELSE LET owner == Descend(root, Front(path)) IN
       IF owner = Null THEN Null ELSE ts_get_attr(owner, Last(path))

-----------------------------------------------------------------------------
Next ==
  \/ \E n \in Nodes : ts_alloc_node(n) \/ ts_free_tree(n)
  \/ \E a \in Attrs : ts_alloc_attr(a) \/ ts_free_attr(a)
  \/ \E n \in Nodes, a \in Attrs : ts_add_attr(n, a)
  \/ \E n, c \in Nodes : ts_add_child(n, c) \/ ts_remove_child(n, c)

Spec == Init /\ [][Next]_vars

-----------------------------------------------------------------------------
(* However children are added, moved between parents and removed, a node is *)
(* on the list of the parent it points to and on no other, list tails are   *)
(* last elements wherever they will be written through, and no list or      *)
(* parent pointer leads to a freed block.                                   *)
PointersAgree ==
  \A n \in alive :
    /\ node[n].parent \in alive \cup {Null}
    /\ \A c \in Nodes : c \in Members(Children(n)) <=> c \in alive /\ node[c].parent = n
    /\ LET list == Children(n) IN
         list # <<>> => node[n].child_tail = list[Len(list)] /\ node[list[Len(list)]].next = Null
    /\ LET list == Attributes(n) IN
         list # <<>> => node[n].attr_tail = list[Len(list)] /\ attr[list[Len(list)]] = Null

(* The pointers implement ordered trees. *)
AbstractForest ==
  INSTANCE Forest WITH
    exists <- alive,
    children <- [n \in Nodes |-> IF n \in alive THEN Children(n) ELSE <<>>],
    attrs <- [n \in Nodes |-> IF n \in alive THEN Attributes(n) ELSE <<>>]
ImplementsForest == AbstractForest!Spec

(* The dotted path of a node, read upwards along parent pointers, is one    *)
(* that ts_lookup_node finds it by from its root, and followed by the name  *)
(* of an attribute of the node one that ts_lookup finds the attribute by,   *)
(* exactly when no namesake stands before the attribute, the node or one of *)
(* its ancestors.                                                           *)
PathOf(n) == [i \in 1..Len(Line(n)) |-> NameOf[Reverse(Line(n))[i]]]

IsFirstNamed(seq, x) ==
  \E i \in DOMAIN seq : seq[i] = x /\ \A j \in 1..(i - 1) : NameOf[seq[j]] # NameOf[x]

InPlainSight(root, n) ==   \* no namesake before n or an ancestor of n
  \A m \in Members(Line(n)) \ {root} : IsFirstNamed(Children(node[m].parent), m)

LookupFindsPaths ==
  \A root \in Roots : \A n \in Reached(root) :
    /\ n # root => (ts_lookup_node(root, PathOf(n)) = n <=> InPlainSight(root, n))
    /\ \A a \in Members(Attributes(n)) :
         ts_lookup(root, Append(PathOf(n), NameOf[a])) = a
           <=> InPlainSight(root, n) /\ IsFirstNamed(Attributes(n), a)
=============================================================================
