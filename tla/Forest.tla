------------------------------- MODULE Forest -------------------------------
(***************************************************************************)
(* What treestor.h promises of trees: nodes with an ordered list of        *)
(* children and an ordered list of attributes.  A node has one parent at   *)
(* most, and no node is its own ancestor.                                  *)
(***************************************************************************)
EXTENDS Sequences, SequencesExt

CONSTANTS Nodes, Attrs

VARIABLES
  exists,   \* nodes that exist
  children, \* children[n], in order
  attrs,    \* attrs[n], in order
  loose     \* attributes that exist and belong to no node

vars == <<exists, children, attrs, loose>>

Members(seq) == {seq[i] : i \in DOMAIN seq}
Without(seq, x) ==
  IF x \in Members(seq) THEN RemoveAt(seq, CHOOSE i \in DOMAIN seq : seq[i] = x) ELSE seq

(* n and all nodes below it. *)
Subtree(n) ==
  LET below == UNION {{m} \X Members(children[m]) : m \in Nodes}
      closed == {S \in SUBSET Nodes : n \in S /\ \A e \in below : e[1] \in S => e[2] \in S}
  IN  {m \in Nodes : \A S \in closed : m \in S}

IsRoot(n) == n \in exists /\ \A m \in exists : n \notin Members(children[m])

Init == exists = {} /\ children = [n \in Nodes |-> <<>>] /\ attrs = children /\ loose = {}

NewNode(n) ==
  /\ n \notin exists /\ exists' = exists \cup {n}
  /\ UNCHANGED <<children, attrs, loose>>

NewAttr(a) ==
  /\ a \notin loose /\ loose' = loose \cup {a}
  /\ \A n \in exists : a \notin Members(attrs[n])
  /\ UNCHANGED <<exists, children, attrs>>

(* Another child, or another parent's, stays where it is while c leaves its *)
(* parent or becomes the last child of n.                                   *)
RemoveChild(c) ==
  /\ UNCHANGED <<exists, loose>> /\ c \in exists
  /\ \A m \in Nodes : children'[m] = Without(children[m], c)
  /\ UNCHANGED attrs

AddChild(n, c) ==
  /\ UNCHANGED <<exists, loose>>
  /\ {n, c} \subseteq exists /\ c \notin Members(children[n])
  /\ children'[n] = Append(children[n], c)
  /\ \A m \in Nodes \ {n} : children'[m] = Without(children[m], c)
  /\ n \notin Subtree(c)
  /\ UNCHANGED attrs

AddAttr(n, a) ==
  /\ n \in exists /\ a \in loose /\ loose' = loose \ {a}
  /\ attrs' = [attrs EXCEPT ![n] = Append(@, a)]
  /\ UNCHANGED <<exists, children>>

FreeTree(n) ==
  /\ n \in exists \ exists' /\ IsRoot(n)
  /\ LET gone == Subtree(n) IN
       /\ exists' = exists \ gone
       /\ children' = [m \in Nodes |-> IF m \in gone THEN <<>> ELSE children[m]]
       /\ attrs' = [m \in Nodes |-> IF m \in gone THEN <<>> ELSE attrs[m]]
  /\ UNCHANGED loose

FreeAttr(a) == a \in loose /\ loose' = loose \ {a} /\ UNCHANGED <<exists, children, attrs>>

Next ==
  \/ \E n \in Nodes : NewNode(n) \/ FreeTree(n)
  \/ \E c \in Nodes : RemoveChild(c) \/ \E n \in Nodes : AddChild(n, c)
  \/ \E a \in Attrs : NewAttr(a) \/ FreeAttr(a)
  \/ \E n \in Nodes, a \in Attrs : AddAttr(n, a)

Spec == Init /\ [][Next]_vars
=============================================================================
