------------------------------ MODULE TsValue ------------------------------
(***************************************************************************)
(* The attribute values of src/treestor.c as memory: every pointer of a    *)
(* struct ts_value and the block behind it, through the setters, the deep  *)
(* copy and the destruction, when any allocations on the way may fail.     *)
(*                                                                         *)
(* A pointer is Null, Freed (it dangles), or the number of elements of its *)
(* block.  The program ends (wrong is not empty) when it would free a block *)
(* twice, follow a pointer that is not good, or read past a block.         *)
(*                                                                         *)
(* What the callers owe: a value whose last call returned -1 is destroyed  *)
(* before it is used again.                                                *)
(*                                                                         *)
(* A definition named Op_Slip is a faulty variant of Op, a slip that the   *)
(* properties are meant to catch; no action uses it.                       *)
(***************************************************************************)
EXTENDS Integers, Sequences, FiniteSets
LOCAL INSTANCE SequencesExt

CONSTANTS
  Values,      \* the values a caller has
  Counts,      \* bound: lengths of the arrays of numbers
  FailSets,    \* which allocations of a call fail, by their order
  MaxCalls     \* bound: calls made

Null == 0
Freed == -1

VARIABLES
  val,      \* struct ts_value of each
  live,     \* blocks allocated
  wrong,    \* what has gone wrong: "freed", "null", "overread"
  failed,   \* values whose last call returned -1
  reset,    \* a setter was called on a value that had content
  hurt,     \* an allocation failed where the code cannot recover, or one that returned -1 was destroyed
  calls

vars == <<val, live, wrong, failed, reset, hurt, calls>>

Empty == [type |-> "STRING", str |-> Null, vec |-> Null, vec_size |-> 0,
          array |-> Null, array_size |-> 0, elems |-> <<>>]

Init ==
  /\ val = [x \in Values |-> Empty] /\ live = 0 /\ wrong = {}
  /\ failed = {} /\ reset = FALSE /\ hurt = FALSE /\ calls = 0

-----------------------------------------------------------------------------
(* A call in progress: v is the value it works on, ok is FALSE once an     *)
(* allocation has failed and the call is about to return -1.               *)
Call(v, fail) == [v |-> v, ok |-> TRUE, fail |-> fail, count |-> 0,
                  live |-> live, wrong |-> {}]

Wrong(c, what) == [c EXCEPT !.wrong = @ \cup {what}]

Free(c, ptr) ==
  IF ptr = Null THEN c
  ELSE IF ptr = Freed THEN Wrong(c, "freed")
  ELSE [c EXCEPT !.live = @ - 1]

(* The next allocation of the call, stored in a pointer of c.v. *)
Malloc(c, ptr, size) ==
  LET n == c.count + 1
  IN  IF n \in c.fail THEN [c EXCEPT !.count = n, !.v[ptr] = Null, !.ok = FALSE]
      ELSE [c EXCEPT !.count = n, !.v[ptr] = size, !.live = @ + 1]

(* Go on unless the call has failed. *)
Then(c, next(_)) == IF c.ok /\ c.wrong = {} THEN next(c) ELSE c

(* ts_destroy_value: the pointers of v are left as they are. *)
RECURSIVE Destroy(_, _)
Destroy(c, v) ==
  LET c1 == Free(Free(c, v.str), v.vec)
      c2 == IF v.array_size > 0 /\ v.array \in {Null, Freed}
              THEN Wrong(c1, IF v.array = Null THEN "null" ELSE "freed")
              ELSE FoldLeft(Destroy, c1, v.elems)
  IN  Free(c2, v.array)

Dangling(v) ==
  LET left(ptr) == IF ptr = Null THEN Null ELSE Freed
  IN  [v EXCEPT !.str = left(@), !.vec = left(@), !.array = left(@), !.elems = <<>>]

(* ts_copy_value into c.v, whatever was there before. *)
RECURSIVE Copy(_, _)
Copy(c, src) ==
  LET start == [c EXCEPT !.v = [src EXCEPT !.str = Null, !.vec = Null, !.array = Null,
                                           !.elems = <<>>]]
      Str(d) == IF src.str = Null THEN d ELSE Malloc(d, "str", 1)
      Vec(d) ==
        IF src.vec = Null \/ src.vec_size = 0 THEN d
        ELSE Then(Malloc(d, "vec", src.vec_size), LAMBDA e :
               IF src.vec < src.vec_size THEN Wrong(e, "overread") ELSE e)
      Elem(d, elem) ==
        IF ~d.ok THEN [d EXCEPT !.v.elems = Append(@, Empty)]
        ELSE LET e == Copy(d, elem)
             IN  [e EXCEPT !.v = [d.v EXCEPT !.elems = Append(@, e.v)]]
      Array(d) ==
        IF src.array = Null \/ src.array_size = 0 THEN d
        ELSE Then(Malloc(d, "array", src.array_size), LAMBDA e : FoldLeft(Elem, e, src.elems))
      done == Then(Then(Str(start), Vec), Array)
      undone == IF done.v.array = Null THEN Free(Free(done, done.v.str), done.v.vec)
                ELSE Destroy(done, done.v)
  IN  IF done.ok THEN done ELSE [undone EXCEPT !.v = Dangling(@)]

-----------------------------------------------------------------------------
(* The setters. *)
set_value_str_NoInit(c) ==
  LET cleared == IF c.v.str = Null THEN c ELSE [Destroy(c, c.v) EXCEPT !.v = Dangling(@)]
  IN  Malloc([cleared EXCEPT !.v.type = "STRING"], "str", 1)
set_value_str(c) ==
  LET cleared == IF c.v.str = Null THEN c ELSE [Destroy(c, c.v) EXCEPT !.v = Empty]
  IN  Malloc([cleared EXCEPT !.v.type = "STRING"], "str", 1)

set_number(c) ==
  Then(Malloc(c, "str", 1), LAMBDA d : [d EXCEPT !.v.type = "NUMBER"])

(* ts_set_valuei_arr, ts_set_valuef_arr of more than one number.  Without  *)
(* memory for the array they go on; elements without it stay empty.        *)
set_numbers(c, count) ==
  LET Elem(d, i) == LET e == set_number([d EXCEPT !.v = Empty])
                    IN  [e EXCEPT !.ok = TRUE, !.v = [d.v EXCEPT !.elems = Append(@, e.v)]]
      Fill(d) == IF ~d.ok THEN Wrong(Free(d, d.v.vec), "null")
                 ELSE [FoldLeft(Elem, d, [i \in 1..count |-> i]) EXCEPT !.v.type = "VECTOR"]
      Array(d) == Fill(Malloc([d EXCEPT !.v.vec_size = count, !.v.array_size = count,
                                        !.v.elems = <<>>], "array", count))
  IN  Then(Malloc(c, "vec", count), Array)

(* ts_set_valuev: copies of srcs.  array_size outlives the array. *)
set_valuev_KeepElems(c, srcs) ==
  LET Elem(d, src) ==
        Then(d, LAMBDA e :
          LET f == Copy(e, src)
          IN  [f EXCEPT !.v = IF f.ok THEN [e.v EXCEPT !.elems = Append(@, f.v)] ELSE e.v])
      Array(d) == FoldLeft(Elem, [d EXCEPT !.v.array_size = Len(srcs)], srcs)
      done == Then(Malloc([c EXCEPT !.v.elems = <<>>], "array", Len(srcs)), Array)
  IN  IF done.ok THEN done
      ELSE [Free(done, done.v.array) EXCEPT !.v.array = Null, !.v.elems = <<>>]
set_valuev(c, srcs) ==
  LET Elem(d, src) ==
        Then(d, LAMBDA e :
          LET f == Copy(e, src)
          IN  [f EXCEPT !.v = IF f.ok THEN [e.v EXCEPT !.elems = Append(@, f.v)] ELSE e.v])
      Array(d) == FoldLeft(Elem, [d EXCEPT !.v.array_size = Len(srcs)], srcs)
      done == Then(Malloc([c EXCEPT !.v.elems = <<>>], "array", Len(srcs)), Array)
  IN  IF done.ok THEN done
      ELSE [Free(FoldLeft(Destroy, done, done.v.elems), done.v.array)
              EXCEPT !.v.array = Null, !.v.elems = <<>>]

(* vec_size is not set. *)
set_value_arr(c, srcs) ==
  LET allnum == \A i \in DOMAIN srcs : srcs[i].type = "NUMBER"
      Vec(d) == LET e == Malloc(d, "vec", Len(srcs))
                IN  IF e.ok THEN [e EXCEPT !.v.type = "VECTOR"]
                    ELSE [Destroy(e, e.v) EXCEPT !.v = Dangling(@)]
  IN  Then(set_valuev(c, srcs), LAMBDA d :
        IF allnum THEN Vec(d) ELSE [d EXCEPT !.v.type = "ARRAY"])

-----------------------------------------------------------------------------
Ready(x) == wrong = {} /\ calls < MaxCalls /\ x \notin failed

(* overwritten: the pointers the call assigns without a look at them.      *)
Return(x, c, overwritten, careless) ==
  /\ val' = [val EXCEPT ![x] = c.v]
  /\ live' = c.live /\ wrong' = c.wrong /\ calls' = calls + 1
  /\ reset' = (reset \/ \E ptr \in overwritten : val[x][ptr] # Null)
  /\ hurt' = (hurt \/ careless)

Simple(x, c, overwritten) == Return(x, c, overwritten, FALSE) /\ UNCHANGED failed
Compound(x, c, overwritten, careless) ==
  /\ Return(x, c, overwritten, careless)
  /\ failed' = IF c.ok THEN failed ELSE failed \cup {x}

Nested(v) == \E i \in DOMAIN v.elems : v.elems[i].array # Null

SetString(x) ==
  \E fail \in FailSets : Ready(x) /\ Simple(x, set_value_str(Call(val[x], fail)), {})
SetNumber(x) ==
  \E fail \in FailSets : Ready(x) /\ Simple(x, set_number(Call(val[x], fail)), {"str"})

(* The second allocation is the one that set_numbers cannot do without. *)
SetNumbers(x, count) ==
  \E fail \in FailSets :
    LET c == set_numbers(Call(val[x], fail), count)
    IN  Ready(x) /\ Compound(x, c, {"vec", "array"}, 1 \notin fail /\ 2 \in fail)

(* Bound: sources are not nested, so no value is more than two deep. *)
Sources(x) ==
  LET leaf(type) == [Empty EXCEPT !.type = type, !.str = 1]
      usable == {y \in Values \ (failed \cup {x}) : ~Nested(val[y])}
  IN  {<<val[y], leaf("NUMBER")>> : y \in usable}
        \cup {<<leaf("STRING"), leaf("NUMBER")>>, <<leaf("NUMBER"), leaf("NUMBER")>>}

SetArray(x) ==
  \E fail \in FailSets, srcs \in Sources(x) :
    Ready(x) /\ Compound(x, set_value_arr(Call(val[x], fail), srcs), {"vec", "array"}, FALSE)
SetList(x) ==
  \E fail \in FailSets, srcs \in Sources(x) :
    Ready(x) /\ Compound(x, set_valuev(Call(val[x], fail), srcs), {"array"}, FALSE)

CopyValue(x, y) ==
  \E fail \in FailSets :
    LET c == Copy(Call(val[x], fail), val[y])
    IN  /\ Ready(x) /\ Ready(y) /\ x # y
        /\ Compound(x, c, {"str", "vec", "array"}, ~c.ok /\ Nested(val[y]))

(* ts_destroy_value, with ts_init_value of a value to be used again. *)
Renew(x) ==
  /\ wrong = {} /\ calls < MaxCalls
  /\ Return(x, [Destroy(Call(val[x], {}), val[x]) EXCEPT !.v = Empty], {}, x \in failed)
  /\ failed' = failed \ {x}

Next ==
  \E x \in Values :
    \/ SetString(x) \/ SetNumber(x) \/ (\E count \in Counts : SetNumbers(x, count))
    \/ SetArray(x) \/ SetList(x)
    \/ (\E y \in Values : CopyValue(x, y))
    \/ Renew(x)

Spec == Init /\ [][Next]_vars

-----------------------------------------------------------------------------
RECURSIVE Owned(_)
Owned(v) ==
  LET one(ptr) == IF ptr \in {Null, Freed} THEN 0 ELSE 1
  IN  one(v.str) + one(v.vec) + one(v.array)
        + FoldLeft(LAMBDA n, elem : n + Owned(elem), 0, v.elems)

RECURSIVE Sound(_)
Sound(v) ==
  /\ v.str # Freed /\ v.vec # Freed /\ v.array = v.array_size
  /\ Len(v.elems) = v.array_size
  /\ \A i \in DOMAIN v.elems : Sound(v.elems[i])

(* A value can be destroyed, copied and set again, whichever allocations    *)
(* failed, unless its last call was a compound one and failed.  Memory is   *)
(* freed twice or used after it only when such a value is destroyed (what   *)
(* ts_copy_attr and the parser do), when an allocation fails in the copy of *)
(* an array inside an array, or when the array of a vector of numbers       *)
(* cannot be allocated; and read past its end only after a value was set    *)
(* over a vector, whose vec_size stays.                                     *)
SoundUnlessFailed ==
  /\ wrong = {} => \A x \in Values \ failed : Sound(val[x])
  /\ wrong \cap {"freed", "null"} # {} => hurt
  /\ "overread" \in wrong => reset

(* Failing calls give back all they have allocated, and leave what a value  *)
(* had: every block is some value's own, as long as no value was set over   *)
(* its content.                                                             *)
NothingLeaks ==
  wrong = {} /\ ~reset =>
    live = FoldLeft(LAMBDA n, x : n + Owned(val[x]), 0, SetToSeq(Values))
=============================================================================
