------------------------------- MODULE Dynarr -------------------------------
(***************************************************************************)
(* src/dynarr.c and the string macros of src/dynarr.h: a growing array     *)
(* whose pushes double the buffer and whose pops halve it.  Every realloc  *)
(* may fail.  push and pop then return the array unchanged, and nothing    *)
(* tells the caller; resize and clear return NULL, which the macros store  *)
(* over the only pointer to the array.                                     *)
(*                                                                         *)
(* An array is used as a stack or, like the parser's token, as a           *)
(* zero-terminated string.  A macro is a list of calls, made one by one.   *)
(*                                                                         *)
(* A definition named Op_Slip is a faulty variant of Op, a slip that the   *)
(* properties are meant to catch; no action uses it.                       *)
(***************************************************************************)
EXTENDS Integers, Sequences

CONSTANTS
  Chars,     \* the characters pushed
  Zero,      \* the terminating zero
  Junk,      \* the value of a cell nothing was stored in
  MaxElem    \* bound: elements in an array

ASSUME CellsAssumption == Zero \notin Chars /\ Junk \notin Chars \cup {Zero} /\ MaxElem \in Nat

Cells == Chars \cup {Zero, Junk}

Call(op, c, n) == [op |-> op, c |-> c, n |-> n]
Calls ==
  [op : {"none", "alloc", "push", "grow", "pop", "resize", "free", "finalize"},
   c : Cells, n : 0..MaxElem]

VARIABLES
  da,         \* the caller's pointer is not NULL
  max_elem, nelem,
  buf,        \* the cells of the buffer, from 0
  todo,       \* calls to make, the first one next
  isString,   \* the array is used through the string macros
  failed,     \* a push or pop failed since the array was empty and new
  str         \* the characters the string should hold, unless failed

array == <<da, max_elem, nelem, buf>>
vars == <<array, todo, isString, failed, str>>

ArrayOK ==
  /\ max_elem \in Nat /\ nelem \in Nat
  /\ nelem <= max_elem   \* no element lies past the buffer
  /\ buf \in [0..(max_elem - 1) -> Cells]

TypeOK ==
  /\ ArrayOK
  /\ todo \in Seq(Calls)
  /\ da \in BOOLEAN /\ isString \in BOOLEAN /\ failed \in BOOLEAN
  /\ str \in Seq(Chars)

Empty == [i \in 0..(-1) |-> Junk]

Init ==
  /\ da = FALSE /\ max_elem = 0 /\ nelem = 0 /\ buf = Empty
  /\ todo = <<>> /\ isString \in BOOLEAN /\ str = <<>> /\ failed = FALSE

-----------------------------------------------------------------------------
(* The calls of dynarr.c. *)

Doing(op) == todo # <<>> /\ Head(todo).op = op /\ todo' = Tail(todo) /\ UNCHANGED isString

Fails == failed' = TRUE /\ str' = <<>> /\ UNCHANGED array

StartOver == failed' = FALSE /\ UNCHANGED str

(* realloc keeps the cells it can. *)
Moved(n) == [i \in 0..(n - 1) |-> IF i < max_elem THEN buf[i] ELSE Junk]

dynarr_alloc ==
  /\ Doing("alloc")
  /\ \/ LET n == Head(todo).n IN
          /\ da' = TRUE /\ max_elem' = n /\ nelem' = n
          /\ buf' = [i \in 0..(n - 1) |-> Junk]
     \/ UNCHANGED array
  /\ StartOver

Release == da' = FALSE /\ max_elem' = 0 /\ nelem' = 0 /\ buf' = Empty

(* dynarr_resize and dynarr_clear, through DYNARR_RESIZE and DYNARR_CLEAR:  *)
(* on failure the array is lost.                                            *)
dynarr_resize ==
  /\ Doing("resize")
  /\ \/ LET n == Head(todo).n IN
          max_elem' = n /\ nelem' = n /\ buf' = Moved(n) /\ UNCHANGED da
     \/ Release
  /\ StartOver

dynarr_free == Doing("free") /\ Release /\ StartOver

(* The block is the caller's from here on. *)
dynarr_finalize == Doing("finalize") /\ Release /\ StartOver

Grown_Fourfold == IF max_elem = 0 THEN 1 ELSE max_elem * 4
Grown == IF max_elem = 0 THEN 1 ELSE max_elem * 2

HasRoom_OffByOne == nelem <= max_elem
HasRoom == nelem < max_elem

(* dynarr_push of an item, and of NULL, which only makes room. *)
dynarr_push ==
  /\ Doing("push")
  /\ LET c == Head(todo).c IN
       IF HasRoom
         THEN /\ buf' = [buf EXCEPT ![nelem] = c]
              /\ nelem' = nelem + 1
              /\ UNCHANGED <<da, max_elem, str, failed>>
         ELSE \/ /\ max_elem' = Grown
                 /\ buf' = [Moved(Grown) EXCEPT ![nelem] = c]
                 /\ nelem' = nelem + 1
                 /\ UNCHANGED <<da, str, failed>>
              \/ Fails

dynarr_push_null ==
  /\ Doing("grow")
  /\ IF HasRoom
       THEN UNCHANGED <<array, str, failed>>
       ELSE \/ /\ max_elem' = Grown /\ buf' = Moved(Grown)
               /\ UNCHANGED <<da, nelem, str, failed>>
            \/ Fails

Shrunk == max_elem \div 2

(* dynarr_resize sets nelem to the new size; pop puts it back before it     *)
(* takes one off.                                                           *)
NelemAfterShrink_NotPutBack == Shrunk - 1
NelemAfterShrink == nelem - 1

dynarr_pop ==
  /\ Doing("pop")
  /\ IF nelem = 0
       THEN UNCHANGED <<array, str, failed>>
       ELSE IF nelem <= max_elem \div 3
         THEN \/ /\ max_elem' = Shrunk /\ buf' = Moved(Shrunk)
                 /\ nelem' = NelemAfterShrink
                 /\ UNCHANGED <<da, str, failed>>
              \/ Fails
         ELSE nelem' = nelem - 1 /\ UNCHANGED <<da, max_elem, buf, str, failed>>

-----------------------------------------------------------------------------
(* The callers.  Nothing is called on NULL but dynarr_alloc. *)

Begin(calls) == todo = <<>> /\ todo' = calls /\ UNCHANGED <<array, isString, failed>>

CallAlloc ==
  /\ ~da /\ UNCHANGED str
  /\ \E n \in 0..MaxElem : (isString => n = 0) /\ Begin(<<Call("alloc", Junk, n)>>)

CallStack ==
  /\ da /\ ~isString /\ UNCHANGED str
  /\ \/ \E c \in Chars : nelem < MaxElem /\ Begin(<<Call("push", c, 0)>>)
     \/ nelem < MaxElem /\ Begin(<<Call("grow", Junk, 0)>>)
     \/ Begin(<<Call("pop", Junk, 0)>>)
     \/ \E n \in 0..MaxElem : Begin(<<Call("resize", Junk, n)>>)

CallFree ==
  /\ da /\ str' = <<>>
  /\ \E op \in {"free", "finalize"} : Begin(<<Call(op, Junk, 0)>>)

CallClear == da /\ isString /\ Begin(<<Call("resize", Junk, 0)>>) /\ str' = <<>>

DYNARR_STRPUSH(c) ==
  /\ da /\ isString /\ nelem < MaxElem
  /\ Begin(<<Call("pop", Junk, 0), Call("push", c, 0), Call("push", Zero, 0)>>)
  /\ str' = IF failed THEN <<>> ELSE Append(str, c)

DYNARR_STRPOP_OnePop ==
  /\ da /\ isString /\ nelem < MaxElem
  /\ Begin(<<Call("pop", Junk, 0), Call("push", Zero, 0)>>)
  /\ str' = SubSeq(str, 1, Len(str) - 1)
DYNARR_STRPOP ==
  /\ da /\ isString /\ nelem < MaxElem
  /\ Begin(<<Call("pop", Junk, 0), Call("pop", Junk, 0), Call("push", Zero, 0)>>)
  /\ str' = SubSeq(str, 1, Len(str) - 1)

Next ==
  \/ dynarr_alloc \/ dynarr_resize \/ dynarr_free \/ dynarr_finalize
  \/ dynarr_push \/ dynarr_push_null \/ dynarr_pop
  \/ CallAlloc \/ CallStack \/ CallFree \/ CallClear
  \/ \E c \in Chars : DYNARR_STRPUSH(c)
  \/ DYNARR_STRPOP

Spec == Init /\ [][Next]_vars

-----------------------------------------------------------------------------
(* dynarr.c is a stack: no growing, shrinking or failing realloc changes,   *)
(* loses or adds an element but the one pushed or popped.                   *)
AbstractCall == IF todo = <<>> THEN Call("none", Junk, 0) ELSE Head(todo)
AbstractStack ==
  INSTANCE Stack WITH call <- AbstractCall, exists <- da, size <- nelem,
                      items <- [i \in 0..(nelem - 1) |-> buf[i]]
ImplementsStack == AbstractStack!Spec

(* Growing and shrinking do not chase each other: right after a push that   *)
(* grew the array no pop shrinks it, and right after a pop that shrank it   *)
(* no push grows it.                                                        *)
Paced ==
  /\ todo # <<>> /\ Head(todo).op = "push" /\ max_elem' > max_elem
       => nelem' > max_elem' \div 3
  /\ todo # <<>> /\ Head(todo).op = "pop" /\ max_elem' < max_elem
       => nelem' < max_elem'
NoThrashing == [][Paced]_vars

(* As long as no realloc failed, the macros leave exactly the characters    *)
(* pushed and not popped, and one zero at the end; an array no macro has    *)
(* touched since it was allocated or cleared may still be empty.            *)
StringIntact ==
  isString /\ da /\ todo = <<>> /\ ~failed =>
    \/ nelem = 0 /\ str = <<>>
    \/ /\ nelem = Len(str) + 1 /\ buf[nelem - 1] = Zero
       /\ \A i \in 1..Len(str) : buf[i - 1] = str[i]

(* dynarr.h:60 of the string macros: "assumes and maintains the invariant   *)
(* that the last element is always a zero".                                 *)
LastIsZero ==
  isString /\ da /\ todo = <<>> /\ nelem > 0 => buf[nelem - 1] = Zero
=============================================================================
