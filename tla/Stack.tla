------------------------------- MODULE Stack -------------------------------
(***************************************************************************)
(* What dynarr.h promises: a vector of cells with stack operations.  The   *)
(* operations are called one at a time; call is the one in progress.  An   *)
(* operation that runs out of memory does nothing, except that resize and  *)
(* clear lose the array.                                                   *)
(***************************************************************************)
EXTENDS Integers

CONSTANTS Cells, Calls   \* Calls: records [op, c, n], see Dynarr

VARIABLES call, exists, size, items

vars == <<call, exists, size, items>>

Vector(n) == [0..(n - 1) -> Cells]

Gone == exists' = FALSE /\ size' = 0 /\ items' \in Vector(0)
Same == UNCHANGED <<exists, size, items>>

Init == exists = FALSE /\ size = 0 /\ items \in Vector(0)

(* Between calls the array does not change. *)
Idle == call.op = "none" /\ Same

Alloc ==
  /\ call.op = "alloc"
  /\ \/ exists' = TRUE /\ size' = call.n /\ items' \in Vector(call.n)
     \/ Same

Push ==
  /\ call.op = "push"
  /\ \/ /\ exists' = exists /\ size' = size + 1
        /\ items' = [i \in 0..size |-> IF i < size THEN items[i] ELSE call.c]
     \/ Same

Pop ==
  /\ call.op = "pop"
  /\ \/ /\ size > 0 /\ exists' = exists /\ size' = size - 1
        /\ items' = [i \in 0..(size - 2) |-> items[i]]
     \/ Same

Resize ==
  /\ call.op = "resize"
  /\ \/ /\ exists' = exists /\ size' = call.n /\ items' \in Vector(call.n)
        /\ \A i \in 0..(call.n - 1) : i < size => items'[i] = items[i]
     \/ Gone

(* push(NULL) only makes room. *)
Grow == call.op = "grow" /\ Same

Free == call.op \in {"free", "finalize"} /\ Gone

Next ==
  call' \in Calls /\ (Idle \/ Alloc \/ Push \/ Grow \/ Pop \/ Resize \/ Free)

Spec == Init /\ [][Next]_vars
=============================================================================
