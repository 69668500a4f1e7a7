---------------------------- MODULE DynarrProofs ----------------------------
(***************************************************************************)
(* Proofs about Dynarr, for every set of characters and every MaxElem.     *)
(***************************************************************************)
EXTENDS Dynarr, SequenceTheorems, TLAPS

USE CellsAssumption DEF Cells

-----------------------------------------------------------------------------
(* What one call does to the array. *)
ArrayCall ==
  \/ dynarr_alloc \/ dynarr_resize \/ dynarr_free \/ dynarr_finalize
  \/ dynarr_push \/ dynarr_push_null \/ dynarr_pop

(* A step makes the next call of the list, or begins a list and leaves the  *)
(* array alone, or stutters.                                                *)
LEMMA StepCases ==
  ASSUME [Next]_vars
  PROVE  \/ ArrayCall
         \/ /\ UNCHANGED <<array, isString, failed>>
            /\ CallAlloc \/ CallStack \/ CallFree \/ CallClear
                 \/ (\E c \in Chars : DYNARR_STRPUSH(c)) \/ DYNARR_STRPOP
         \/ UNCHANGED vars
  BY DEF Next, ArrayCall, CallAlloc, CallStack, CallFree, CallClear, DYNARR_STRPUSH,
         DYNARR_STRPOP, Begin

(* The call made is the head of the list. *)
LEMMA HeadTyped ==
  ASSUME todo \in Seq(Calls), todo # <<>>
  PROVE  Head(todo).c \in Cells /\ Head(todo).n \in Nat /\ Tail(todo) \in Seq(Calls)
<1>1. Head(todo) \in Calls /\ Tail(todo) \in Seq(Calls)
  BY HeadTailProperties
<1> QED
  BY <1>1 DEF Calls

LEMMA EmptyTyped == Empty \in [0..(0 - 1) -> Cells]
  BY DEF Empty

LEMMA ReleasedOK ==
  ASSUME Release
  PROVE  ArrayOK'
<1>1. max_elem' = 0 /\ nelem' = 0 /\ buf' = Empty
  BY DEF Release
<1>2. buf' \in [0..(max_elem' - 1) -> Cells]
  BY <1>1 DEF Empty
<1> QED
  BY <1>1, <1>2 DEF ArrayOK

(* realloc gives a buffer of the size asked for. *)
LEMMA MovedTyped ==
  ASSUME ArrayOK, NEW n \in Nat
  PROVE  Moved(n) \in [0..(n - 1) -> Cells]
  BY DEF ArrayOK, Moved

-----------------------------------------------------------------------------
(* The array is well formed, and no element lies past the end of the buffer. *)
LEMMA ArrayStep ==
  ASSUME ArrayOK, todo \in Seq(Calls), [Next]_vars
  PROVE  ArrayOK'
<1> USE DEF ArrayOK
<1>1. CASE dynarr_alloc
  <2>1. Head(todo).n \in Nat
    BY <1>1, HeadTyped DEF dynarr_alloc, Doing
  <2>2. CASE UNCHANGED array
    BY <2>2 DEF array
  <2>3. CASE ~UNCHANGED array
    BY <1>1, <2>1, <2>3 DEF dynarr_alloc
  <2> QED
    BY <2>2, <2>3
<1>2. CASE dynarr_resize
  <2>1. Head(todo).n \in Nat
    BY <1>2, HeadTyped DEF dynarr_resize, Doing
  <2>2. CASE Release
    BY <2>2, ReleasedOK
  <2>3. CASE ~Release
    <3> DEFINE n == Head(todo).n
    <3>1. max_elem' = n /\ nelem' = n /\ buf' = Moved(n)
      BY <1>2, <2>3 DEF dynarr_resize
    <3>2. n \in Nat /\ Moved(n) \in [0..(n - 1) -> Cells]
      BY <2>1, MovedTyped
    <3> QED
      BY <3>1, <3>2
  <2> QED
    BY <2>2, <2>3
<1>3. CASE dynarr_free \/ dynarr_finalize
  BY <1>3, ReleasedOK DEF dynarr_free, dynarr_finalize
<1>4. CASE dynarr_push
  <2>1. Head(todo).c \in Cells
    BY <1>4, HeadTyped DEF dynarr_push, Doing
  <2>2. CASE HasRoom
    BY <1>4, <2>1, <2>2 DEF dynarr_push, HasRoom
  <2>3. CASE ~HasRoom /\ Fails
    BY <2>3 DEF Fails, array
  <2>4. CASE ~HasRoom /\ ~Fails
    <3>1. Grown \in Nat /\ nelem < Grown
      BY <2>4 DEF Grown, HasRoom
    <3>2. /\ max_elem' = Grown /\ buf' = [Moved(Grown) EXCEPT ![nelem] = Head(todo).c]
          /\ nelem' = nelem + 1
      BY <1>4, <2>4 DEF dynarr_push
    <3>3. Moved(Grown) \in [0..(Grown - 1) -> Cells]
      BY <3>1, MovedTyped
    <3> QED
      BY <2>1, <3>1, <3>2, <3>3
  <2> QED
    BY <2>2, <2>3, <2>4
<1>5. CASE dynarr_push_null
  <2>1. Grown \in Nat /\ max_elem <= Grown
    BY DEF Grown
  <2> QED
    BY <1>5, <2>1, MovedTyped DEF dynarr_push_null, Fails, array
<1>6. CASE dynarr_pop
  <2>1. Shrunk \in Nat /\ (nelem <= max_elem \div 3 => nelem <= Shrunk)
    BY DEF Shrunk
  <2>2. CASE UNCHANGED array
    BY <2>2 DEF array
  <2>3. CASE nelem # 0 /\ nelem <= max_elem \div 3 /\ ~Fails
    <3>1. max_elem' = Shrunk /\ buf' = Moved(Shrunk) /\ nelem' = nelem - 1
      BY <1>6, <2>3 DEF dynarr_pop, NelemAfterShrink
    <3>2. Moved(Shrunk) \in [0..(Shrunk - 1) -> Cells]
      BY <2>1, MovedTyped
    <3> QED
      BY <2>1, <2>3, <3>1, <3>2
  <2>4. CASE nelem # 0 /\ ~(nelem <= max_elem \div 3)
    BY <1>6, <2>4 DEF dynarr_pop
  <2> QED
    BY <1>6, <2>2, <2>3, <2>4 DEF dynarr_pop, Fails
<1>7. CASE UNCHANGED array
  BY <1>7 DEF array
<1> QED
  BY <1>1, <1>2, <1>3, <1>4, <1>5, <1>6, <1>7, StepCases DEF ArrayCall, vars

(* What is left to call stays a list of calls. *)
LEMMA TodoStep ==
  ASSUME todo \in Seq(Calls), [Next]_vars
  PROVE  todo' \in Seq(Calls)
<1>1. ASSUME NEW op \in {"alloc", "push", "grow", "pop", "resize", "free", "finalize"},
             NEW c \in Cells, NEW n \in 0..MaxElem
      PROVE  Call(op, c, n) \in Calls
  BY DEF Call, Calls
<1>2. Junk \in Cells /\ Zero \in Cells /\ Chars \subseteq Cells /\ 0 \in 0..MaxElem
  OBVIOUS
<1>3. CASE ArrayCall
  BY <1>3, HeadTyped DEF ArrayCall, dynarr_alloc, dynarr_resize, dynarr_free,
     dynarr_finalize, dynarr_push, dynarr_push_null, dynarr_pop, Doing
<1>4. CASE CallAlloc
  BY <1>1, <1>2, <1>4 DEF CallAlloc, Begin
<1>5. CASE CallStack
  <2>1. \/ \E c \in Chars : todo' = <<Call("push", c, 0)>>
        \/ todo' = <<Call("grow", Junk, 0)>> \/ todo' = <<Call("pop", Junk, 0)>>
        \/ \E n \in 0..MaxElem : todo' = <<Call("resize", Junk, n)>>
    BY <1>5 DEF CallStack, Begin
  <2>2. \E call \in Calls : todo' = <<call>>
    BY <1>1, <1>2, <2>1
  <2> QED
    BY <2>2
<1>6. CASE CallFree
  BY <1>1, <1>2, <1>6 DEF CallFree, Begin
<1>7. CASE CallClear
  BY <1>1, <1>2, <1>7 DEF CallClear, Begin
<1>8. CASE \E c \in Chars : DYNARR_STRPUSH(c)
  BY <1>1, <1>2, <1>8 DEF DYNARR_STRPUSH, Begin
<1>9. CASE DYNARR_STRPOP
  BY <1>1, <1>2, <1>9 DEF DYNARR_STRPOP, Begin
<1> QED
  BY <1>3, <1>4, <1>5, <1>6, <1>7, <1>8, <1>9, StepCases DEF vars

LEMMA StringStep ==
  ASSUME str \in Seq(Chars), [Next]_vars
  PROVE  str' \in Seq(Chars)
<1>1. CASE str' = str \/ str' = <<>>
  <2>1. <<>> \in Seq(Chars)
    OBVIOUS
  <2> QED
    BY <1>1, <2>1
<1>2. CASE \E c \in Chars : DYNARR_STRPUSH(c)
  BY <1>2, AppendProperties DEF DYNARR_STRPUSH
<1>3. CASE DYNARR_STRPOP
  <2>1. Len(str) \in Nat
    BY LenProperties
  <2>2. SubSeq(str, 1, Len(str) - 1) \in Seq(Chars)
    BY <2>1, SubSeqProperties
  <2> QED
    BY <1>3, <2>2 DEF DYNARR_STRPOP
<1>4. CASE ArrayCall
  BY <1>1, <1>4 DEF ArrayCall, dynarr_alloc, dynarr_resize, dynarr_free, dynarr_finalize,
     dynarr_push, dynarr_push_null, dynarr_pop, StartOver, Fails
<1>5. CASE CallAlloc \/ CallStack \/ CallFree \/ CallClear
  BY <1>1, <1>5 DEF CallAlloc, CallStack, CallFree, CallClear
<1> QED
  BY <1>1, <1>2, <1>3, <1>4, <1>5, StepCases DEF vars

LEMMA FlagsStep ==
  ASSUME da \in BOOLEAN, isString \in BOOLEAN, failed \in BOOLEAN, [Next]_vars
  PROVE  da' \in BOOLEAN /\ isString' \in BOOLEAN /\ failed' \in BOOLEAN
<1>1. CASE ArrayCall
  BY <1>1 DEF ArrayCall, dynarr_alloc, dynarr_resize, dynarr_free, dynarr_finalize,
     dynarr_push, dynarr_push_null, dynarr_pop, Doing, StartOver, Release, Fails, array
<1> QED
  BY <1>1, StepCases DEF vars, array

(* dynarr.c never keeps an element past its buffer. *)
THEOREM TypeCorrect == Spec => []TypeOK
<1>1. Init => TypeOK
  <2>1. Init => ArrayOK
    BY EmptyTyped DEF Init, ArrayOK
  <2>2. Init => todo \in Seq(Calls)
    BY DEF Init
  <2>3. Init => str \in Seq(Chars)
    BY DEF Init
  <2> QED
    BY <2>1, <2>2, <2>3 DEF Init, TypeOK
<1>2. TypeOK /\ [Next]_vars => TypeOK'
  BY ArrayStep, TodoStep, StringStep, FlagsStep DEF TypeOK
<1> QED
  BY <1>1, <1>2, PTL DEF Spec

-----------------------------------------------------------------------------
(* The calls that name their operation are the only ones that move the      *)
(* array, and each is made when its name is at the head of the list.        *)
LEMMA ResizingCalls ==
  ASSUME ArrayCall, max_elem' # max_elem
  PROVE  /\ Head(todo).op = "push" => dynarr_push
         /\ Head(todo).op = "pop" => dynarr_pop
  BY DEF ArrayCall, dynarr_alloc, dynarr_resize, dynarr_free, dynarr_finalize, dynarr_push,
     dynarr_push_null, dynarr_pop, Doing, array

(* Growing leaves the array too full to shrink, shrinking leaves room.      *)
LEMMA PacedStep ==
  ASSUME ArrayOK, [Next]_vars
  PROVE  Paced
<1> USE DEF ArrayOK
<1>1. CASE max_elem' = max_elem
  BY <1>1 DEF Paced
<1>2. CASE max_elem' # max_elem /\ dynarr_push /\ Head(todo).op = "push"
  <2>1. ~HasRoom /\ max_elem' = Grown /\ nelem' = nelem + 1
    BY <1>2 DEF dynarr_push, Fails, array
  <2>2. nelem' > max_elem' \div 3
    BY <2>1 DEF HasRoom, Grown
  <2> QED
    BY <1>2, <2>2 DEF Paced
<1>3. CASE max_elem' # max_elem /\ dynarr_pop /\ Head(todo).op = "pop"
  <2>1. /\ nelem # 0 /\ nelem <= max_elem \div 3
        /\ max_elem' = Shrunk /\ nelem' = nelem - 1
    BY <1>3 DEF dynarr_pop, Fails, array, NelemAfterShrink
  <2>2. nelem' < max_elem'
    BY <2>1 DEF Shrunk
  <2> QED
    BY <1>3, <2>2 DEF Paced
<1>4. CASE max_elem' # max_elem /\ Head(todo).op \notin {"push", "pop"}
  BY <1>4 DEF Paced
<1>5. max_elem' # max_elem => ArrayCall
  BY StepCases DEF vars, array
<1> QED
  BY <1>1, <1>2, <1>3, <1>4, <1>5, ResizingCalls

(* A push that grew the array is never undone by the next pop, nor a pop    *)
(* that shrank it by the next push.                                         *)
THEOREM PushesAndPopsArePaced == Spec => NoThrashing
<1>1. TypeOK /\ [Next]_vars => [Paced]_vars
  BY PacedStep DEF TypeOK
<1> QED
  BY <1>1, TypeCorrect, PTL DEF Spec, NoThrashing

-----------------------------------------------------------------------------
(* The refinement: the cells below nelem are the items of the stack.        *)
Items == [i \in 0..(nelem - 1) |-> buf[i]]

LEMMA AbstractCallTyped ==
  ASSUME NEW calls \in Seq(Calls)
  PROVE  (IF calls = <<>> THEN Call("none", Junk, 0) ELSE Head(calls)) \in Calls
<1>1. Call("none", Junk, 0) \in Calls
  BY DEF Call, Calls
<1>2. calls # <<>> => Head(calls) \in Calls
  BY HeadTailProperties
<1> QED
  BY <1>1, <1>2

LEMMA ItemsTyped ==
  ASSUME NEW m \in Nat, NEW n \in Nat, n <= m, NEW b \in [0..(m - 1) -> Cells]
  PROVE  [k \in 0..(n - 1) |-> b[k]] \in [0..(n - 1) -> Cells]
<1> HIDE DEF Cells
<1>1. \A k \in 0..(n - 1) : k \in 0..(m - 1)
  OBVIOUS
<1>2. \A k \in 0..(n - 1) : b[k] \in Cells
  BY <1>1
<1> QED
  BY <1>2

LEMMA MovedKeeps ==
  ASSUME ArrayOK, NEW n \in Nat, nelem <= n
  PROVE  \A k \in 0..(nelem - 1) : Moved(n)[k] = buf[k]
  BY DEF ArrayOK, Moved

(* Every call of dynarr.c is the operation of the stack it is named for. *)
LEMMA CallRefines ==
  ASSUME ArrayOK, ArrayOK', todo \in Seq(Calls), todo' \in Seq(Calls), ArrayCall
  PROVE  AbstractStack!Next
<1> USE DEF ArrayOK
<1>0. AbstractCall' \in Calls
  BY AbstractCallTyped DEF AbstractCall
<1> SUFFICES AbstractStack!Idle \/ AbstractStack!Alloc \/ AbstractStack!Push
               \/ AbstractStack!Grow \/ AbstractStack!Pop \/ AbstractStack!Resize
               \/ AbstractStack!Free
  BY <1>0 DEF AbstractStack!Next
<1>1. ASSUME UNCHANGED array PROVE AbstractStack!Same
  BY <1>1 DEF AbstractStack!Same, array
<1>2. ASSUME Release PROVE AbstractStack!Gone
  BY <1>2 DEF Release, AbstractStack!Gone, AbstractStack!Vector
<1>3. todo # <<>> /\ AbstractCall = Head(todo)
  BY DEF ArrayCall, dynarr_alloc, dynarr_resize, dynarr_free, dynarr_finalize,
     dynarr_push, dynarr_push_null, dynarr_pop, Doing, AbstractCall
<1>4. CASE dynarr_alloc
  <2>1. AbstractCall.op = "alloc" /\ AbstractCall.n \in Nat
    BY <1>3, <1>4, HeadTyped DEF dynarr_alloc, Doing
  <2>2. CASE UNCHANGED array
    BY <1>1, <2>1, <2>2 DEF AbstractStack!Alloc
  <2>3. CASE ~UNCHANGED array
    <3>1. da' = TRUE
      BY <1>4, <2>3 DEF dynarr_alloc
    <3>2. nelem' = AbstractCall.n
      BY <1>3, <1>4, <2>3 DEF dynarr_alloc
    <3>3. Items' \in AbstractStack!Vector(AbstractCall.n)
      <4>1. buf' \in [0..(max_elem' - 1) -> Cells] /\ nelem' <= max_elem'
              /\ nelem' \in Nat /\ max_elem' \in Nat
        OBVIOUS
      <4>2. Items' \in [0..(nelem' - 1) -> Cells]
        BY <4>1, ItemsTyped DEF Items
      <4> QED
        BY <3>2, <4>2 DEF AbstractStack!Vector
    <3> QED
      BY <2>1, <3>1, <3>2, <3>3 DEF AbstractStack!Alloc, Items
  <2> QED
    BY <2>2, <2>3
<1>5. CASE dynarr_resize
  <2>1. AbstractCall.op = "resize" /\ AbstractCall.n \in Nat
    BY <1>3, <1>5, HeadTyped DEF dynarr_resize, Doing
  <2>2. CASE Release
    BY <1>2, <2>1, <2>2 DEF AbstractStack!Resize
  <2>3. CASE ~Release
    <3>1. /\ da' = da /\ max_elem' = AbstractCall.n /\ nelem' = AbstractCall.n
          /\ buf' = Moved(AbstractCall.n)
      BY <1>3, <1>5, <2>3 DEF dynarr_resize
    <3>2. Items' \in AbstractStack!Vector(AbstractCall.n)
      BY <3>1 DEF Items, AbstractStack!Vector
    <3>3. \A k \in 0..(AbstractCall.n - 1) : k < nelem => Items'[k] = Items[k]
      BY <2>1, <3>1 DEF Items, Moved
    <3> QED
      BY <2>1, <3>1, <3>2, <3>3 DEF AbstractStack!Resize, Items
  <2> QED
    BY <2>2, <2>3
<1>6. CASE dynarr_free \/ dynarr_finalize
  BY <1>2, <1>3, <1>6 DEF dynarr_free, dynarr_finalize, Doing, AbstractStack!Free
<1>7. CASE dynarr_push
  <2>1. AbstractCall.op = "push"
    BY <1>3, <1>7 DEF dynarr_push, Doing
  <2>2. CASE Fails
    BY <1>1, <2>1, <2>2 DEF Fails, AbstractStack!Push
  <2>3. CASE ~Fails
    <3>1. da' = da /\ nelem' = nelem + 1
      BY <1>7, <2>3 DEF dynarr_push
    <3>2. Items' = [k \in 0..nelem |-> IF k < nelem THEN Items[k] ELSE AbstractCall.c]
      <4>1. \A k \in 0..nelem : buf'[k] = IF k < nelem THEN buf[k] ELSE AbstractCall.c
        <5>1. CASE HasRoom
          <6>1. buf' = [buf EXCEPT ![nelem] = AbstractCall.c]
            BY <1>3, <1>7, <5>1 DEF dynarr_push
          <6> QED
            BY <5>1, <6>1 DEF HasRoom
        <5>2. CASE ~HasRoom
          <6>1. buf' = [Moved(Grown) EXCEPT ![nelem] = AbstractCall.c]
            BY <1>3, <1>7, <2>3, <5>2 DEF dynarr_push
          <6>2. Grown \in Nat /\ nelem < Grown
            BY <5>2 DEF HasRoom, Grown
          <6>3. \A k \in 0..(nelem - 1) : Moved(Grown)[k] = buf[k]
            BY <6>2, MovedKeeps
          <6>4. Moved(Grown) \in [0..(Grown - 1) -> Cells]
            BY <6>2, MovedTyped
          <6>5. ASSUME NEW k \in 0..nelem
                PROVE  buf'[k] = IF k < nelem THEN buf[k] ELSE AbstractCall.c
            <7>1. k \in 0..(Grown - 1) /\ (k < nelem => k \in 0..(nelem - 1))
              BY <6>2
            <7>2. buf'[k] = IF k = nelem THEN AbstractCall.c ELSE Moved(Grown)[k]
              BY <6>1, <6>4, <7>1
            <7>3. k < nelem \/ k = nelem
              OBVIOUS
            <7> QED
              BY <6>3, <7>1, <7>2, <7>3
          <6> QED
            BY <6>5
        <5> QED
          BY <5>1, <5>2
      <4>2. nelem' - 1 = nelem
        BY <3>1
      <4>3. \A k \in 0..nelem : k < nelem => Items[k] = buf[k]
        BY DEF Items
      <4>4. Items' = [k \in 0..nelem |-> buf'[k]]
        BY <4>2 DEF Items
      <4> QED
        BY <4>1, <4>3, <4>4
    <3> QED
      BY <2>1, <3>1, <3>2 DEF AbstractStack!Push, Items
  <2> QED
    BY <2>2, <2>3
<1>8. CASE dynarr_push_null
  <2>1. AbstractCall.op = "grow"
    BY <1>3, <1>8 DEF dynarr_push_null, Doing
  <2>2. da' = da /\ nelem' = nelem
    BY <1>8 DEF dynarr_push_null, Fails, array
  <2>3. Items' = Items
    <3>1. \A k \in 0..(nelem - 1) : buf'[k] = buf[k]
      <4>1. CASE buf' = buf
        BY <4>1
      <4>2. CASE ~HasRoom /\ buf' = Moved(Grown)
        <5>1. Grown \in Nat /\ nelem < Grown
          BY <4>2 DEF HasRoom, Grown
        <5>2. \A k \in 0..(nelem - 1) : Moved(Grown)[k] = buf[k]
          BY <5>1, MovedKeeps
        <5> QED
          BY <4>2, <5>2
      <4> QED
        BY <1>8, <4>1, <4>2 DEF dynarr_push_null, Fails, array
    <3> QED
      BY <2>2, <3>1 DEF Items
  <2> QED
    BY <2>1, <2>2, <2>3 DEF AbstractStack!Grow, AbstractStack!Same, Items
<1>9. CASE dynarr_pop
  <2>1. AbstractCall.op = "pop"
    BY <1>3, <1>9 DEF dynarr_pop, Doing
  <2>2. CASE UNCHANGED array
    BY <1>1, <2>1, <2>2 DEF AbstractStack!Pop
  <2>3. CASE ~UNCHANGED array
    <3>1. da' = da /\ nelem > 0 /\ nelem' = nelem - 1
      BY <1>9, <2>3 DEF dynarr_pop, Fails, NelemAfterShrink, array
    <3>2. Items' = [k \in 0..(nelem - 2) |-> Items[k]]
      <4>1. \A k \in 0..(nelem - 2) : buf'[k] = buf[k]
        <5>1. CASE buf' = buf
          BY <5>1
        <5>2. CASE nelem <= max_elem \div 3 /\ buf' = Moved(Shrunk)
          <6>1. Shrunk \in Nat /\ nelem <= Shrunk
            BY <5>2 DEF Shrunk
          <6>2. \A k \in 0..(nelem - 1) : Moved(Shrunk)[k] = buf[k]
            BY <6>1, MovedKeeps
          <6>3. ASSUME NEW k \in 0..(nelem - 2) PROVE buf'[k] = buf[k]
            <7>1. k \in 0..(nelem - 1)
              OBVIOUS
            <7> QED
              BY <5>2, <6>2, <7>1
          <6> QED
            BY <6>3
        <5> QED
          BY <1>9, <2>3, <5>1, <5>2 DEF dynarr_pop, Fails, array
      <4>2. nelem' - 1 = nelem - 2
        BY <3>1
      <4>3. \A k \in 0..(nelem - 2) : Items[k] = buf[k]
        BY <3>1 DEF Items
      <4>4. Items' = [k \in 0..(nelem - 2) |-> buf'[k]]
        BY <4>2 DEF Items
      <4> QED
        BY <4>1, <4>3, <4>4
    <3> QED
      BY <2>1, <3>1, <3>2 DEF AbstractStack!Pop, Items
  <2> QED
    BY <2>2, <2>3
<1> QED
  BY <1>4, <1>5, <1>6, <1>7, <1>8, <1>9 DEF ArrayCall

(* Beginning a list of calls is invisible to the stack but for the call. *)
LEMMA BeginRefines ==
  ASSUME TypeOK', UNCHANGED array, todo = <<>>
  PROVE  AbstractStack!Next
<1>1. AbstractCall' \in Calls
  BY AbstractCallTyped DEF AbstractCall, TypeOK
<1>2. AbstractCall.op = "none"
  BY DEF AbstractCall, Call
<1>3. AbstractStack!Same
  BY DEF AbstractStack!Same, array
<1> QED
  BY <1>1, <1>2, <1>3 DEF AbstractStack!Next, AbstractStack!Idle

LEMMA InitRefines == Init => AbstractStack!Init
<1> SUFFICES ASSUME Init PROVE AbstractStack!Init
  OBVIOUS
<1>1. da = FALSE /\ nelem = 0
  BY DEF Init
<1>2. Items \in AbstractStack!Vector(0)
  BY <1>1 DEF Items, AbstractStack!Vector
<1> QED
  BY <1>1, <1>2 DEF AbstractStack!Init, Items

(* dynarr.c implements the stack: no growing, shrinking or failing realloc  *)
(* changes, loses or adds an element but the one pushed or popped.          *)
THEOREM DynarrImplementsStack == Spec => ImplementsStack
<1>1. TypeOK /\ TypeOK' /\ [Next]_vars => [AbstractStack!Next]_AbstractStack!vars
  <2> SUFFICES ASSUME TypeOK, TypeOK', [Next]_vars
               PROVE  [AbstractStack!Next]_AbstractStack!vars
    OBVIOUS
  <2>1. CASE ArrayCall
    BY <2>1, CallRefines DEF TypeOK
  <2>2. CASE UNCHANGED array /\ todo = <<>>
    BY <2>2, BeginRefines
  <2>3. CASE UNCHANGED vars
    BY <2>3 DEF vars, array, AbstractStack!vars, AbstractCall
  <2> QED
    BY <2>1, <2>2, <2>3, StepCases DEF CallAlloc, CallStack, CallFree, CallClear,
       DYNARR_STRPUSH, DYNARR_STRPOP, Begin
<1> QED
  BY <1>1, InitRefines, TypeCorrect, PTL DEF Spec, ImplementsStack, AbstractStack!Spec

-----------------------------------------------------------------------------
(* The string macros.  At every point of a macro, with the calls todo left, *)
(* it is known which characters are in the buffer and whether the zero is:  *)
(* Holds(n) says that the first n characters of str are.  When a realloc    *)
(* has failed nothing is known but what is left to call, and str is empty.  *)
PopCall == Call("pop", Junk, 0)
PushCall(c) == Call("push", c, 0)
Emptying == {<<Call(op, Junk, 0)>> : op \in {"alloc", "resize", "free", "finalize"}}

Holds(n) == \A i \in 1..n : buf[i - 1] = str[i]

WholeString ==
  \/ nelem = 0 /\ str = <<>>
  \/ nelem = Len(str) + 1 /\ buf[nelem - 1] = Zero /\ Holds(Len(str))

StringStage ==
  \/ todo = <<>> /\ (failed \/ WholeString)
  \/ todo \in Emptying /\ str = <<>>
  \/ \E c \in Chars :
       /\ todo = <<PopCall, PushCall(c), PushCall(Zero)>>
       /\ failed \/ /\ Len(str) > 0 /\ str[Len(str)] = c /\ Holds(Len(str) - 1)
                    /\ nelem = Len(str) \/ (nelem = 0 /\ Len(str) = 1)
  \/ \E c \in Chars :
       /\ todo = <<PushCall(c), PushCall(Zero)>>
       /\ failed \/ /\ Len(str) > 0 /\ str[Len(str)] = c /\ Holds(Len(str) - 1)
                    /\ nelem = Len(str) - 1
  \/ /\ todo = <<PopCall, PopCall, PushCall(Zero)>>
     /\ failed \/ (Holds(Len(str)) /\ nelem = Len(str) + 2) \/ (str = <<>> /\ nelem \in 0..1)
  \/ /\ todo = <<PopCall, PushCall(Zero)>>
     /\ failed \/ (Holds(Len(str)) /\ nelem = Len(str) + 1) \/ (str = <<>> /\ nelem = 0)
  \/ /\ todo = <<PushCall(Zero)>>
     /\ failed \/ (Holds(Len(str)) /\ nelem = Len(str))

AllocCall == <<Call("alloc", Junk, 0)>>

StringInv ==
  isString => /\ StringStage
              /\ failed => str = <<>>
              /\ ~da => nelem = 0 /\ str = <<>> /\ todo \in {<<>>, AllocCall}
              /\ todo = AllocCall => ~da

(* A call named at the head of the list is the one made. *)
LEMMA CallMade ==
  ASSUME ArrayCall
  PROVE  /\ todo # <<>> /\ todo' = Tail(todo) /\ isString' = isString
         /\ Head(todo).op = "push" => dynarr_push
         /\ Head(todo).op = "pop" => dynarr_pop
         /\ Head(todo).op \in {"alloc", "resize", "free", "finalize"} =>
              dynarr_alloc \/ dynarr_resize \/ dynarr_free \/ dynarr_finalize
BY DEF ArrayCall, dynarr_alloc, dynarr_resize, dynarr_free, dynarr_finalize, dynarr_push,
   dynarr_push_null, dynarr_pop, Doing

(* What a push and a pop leave of the buffer, wherever it has moved. *)
LEMMA PushKeeps ==
  ASSUME ArrayOK, dynarr_push, Head(todo).c \in Cells
  PROVE  \/ Fails
         \/ /\ nelem' = nelem + 1 /\ UNCHANGED <<da, str, failed>>
            /\ buf'[nelem] = Head(todo).c
            /\ \A k \in 0..(nelem - 1) : buf'[k] = buf[k]
<1> USE DEF ArrayOK
<1> HIDE DEF Cells
<1>1. CASE HasRoom
  <2>1. buf' = [buf EXCEPT ![nelem] = Head(todo).c] /\ nelem' = nelem + 1
          /\ UNCHANGED <<da, str, failed>>
    BY <1>1 DEF dynarr_push
  <2>2. nelem \in 0..(max_elem - 1)
    BY <1>1 DEF HasRoom
  <2>3. \A k \in 0..(nelem - 1) : k \in 0..(max_elem - 1) /\ k # nelem
    OBVIOUS
  <2> QED
    BY <2>1, <2>2, <2>3
<1>2. CASE ~HasRoom /\ ~Fails
  <2>1. buf' = [Moved(Grown) EXCEPT ![nelem] = Head(todo).c] /\ nelem' = nelem + 1
          /\ UNCHANGED <<da, str, failed>>
    BY <1>2 DEF dynarr_push
  <2>2. Grown \in Nat /\ nelem < Grown
    BY <1>2 DEF HasRoom, Grown
  <2>3. Moved(Grown) \in [0..(Grown - 1) -> Cells]
    BY <2>2, MovedTyped
  <2>4. \A k \in 0..(nelem - 1) : Moved(Grown)[k] = buf[k]
    BY <2>2, MovedKeeps
  <2>5. nelem \in 0..(Grown - 1) /\ \A k \in 0..(nelem - 1) : k \in 0..(Grown - 1) /\ k # nelem
    BY <2>2
  <2> QED
    BY <2>1, <2>3, <2>4, <2>5
<1> QED
  BY <1>1, <1>2

LEMMA PopKeeps ==
  ASSUME ArrayOK, dynarr_pop
  PROVE  \/ Fails
         \/ nelem = 0 /\ UNCHANGED <<array, str, failed>>
         \/ /\ nelem > 0 /\ nelem' = nelem - 1 /\ UNCHANGED <<da, str, failed>>
            /\ \A k \in 0..(nelem - 2) : buf'[k] = buf[k]
<1> USE DEF ArrayOK
<1>1. CASE nelem = 0
  BY <1>1 DEF dynarr_pop
<1>2. CASE nelem # 0 /\ ~Fails
  <2>1. nelem > 0 /\ nelem' = nelem - 1 /\ UNCHANGED <<da, str, failed>>
    BY <1>2 DEF dynarr_pop, NelemAfterShrink
  <2>2. buf' = buf \/ (nelem <= max_elem \div 3 /\ buf' = Moved(Shrunk))
    BY <1>2 DEF dynarr_pop
  <2>3. CASE nelem <= max_elem \div 3 /\ buf' = Moved(Shrunk)
    <3>1. Shrunk \in Nat /\ nelem <= Shrunk
      BY <2>3 DEF Shrunk
    <3>2. \A k \in 0..(nelem - 1) : Moved(Shrunk)[k] = buf[k]
      BY <3>1, MovedKeeps
    <3>3. \A k \in 0..(nelem - 2) : k \in 0..(nelem - 1)
      OBVIOUS
    <3> QED
      BY <2>1, <2>3, <3>2, <3>3
  <2> QED
    BY <2>1, <2>2, <2>3
<1> QED
  BY <1>1, <1>2

(* The characters below both ends survive. *)
LEMMA HoldsKept ==
  ASSUME NEW n \in Nat, NEW m \in Int, n <= m, Holds(n),
         \A k \in 0..(m - 1) : buf'[k] = buf[k]
  PROVE  \A i \in 1..n : buf'[i - 1] = str[i]
<1>1. \A i \in 1..n : i - 1 \in 0..(m - 1)
  OBVIOUS
<1> QED
  BY <1>1 DEF Holds


(* A call of a macro is made. *)
LEMMA StringCallStep ==
  ASSUME TypeOK, StringInv, isString, ArrayCall
  PROVE  StringInv'
<1> USE DEF TypeOK, ArrayOK
<1> HIDE DEF Cells
<1>1. todo # <<>> /\ todo' = Tail(todo) /\ isString'
  BY CallMade
<1>2. StringStage /\ (failed => str = <<>>) /\ Zero \in Cells /\ Chars \subseteq Cells
  BY DEF StringInv, Cells
<1>3. CASE todo \in Emptying /\ str = <<>>
  <2>1. PICK op \in {"alloc", "resize", "free", "finalize"} : todo = <<Call(op, Junk, 0)>>
    BY <1>3 DEF Emptying
  <2>2. Head(todo).op = op /\ Head(todo).n = 0 /\ Tail(todo) = <<>>
    BY <2>1 DEF Call
  <2>3. dynarr_alloc \/ dynarr_resize \/ dynarr_free \/ dynarr_finalize
    BY <2>2, CallMade
  <2>4. failed' = FALSE /\ str' = <<>>
    BY <1>3, <2>3 DEF dynarr_alloc, dynarr_resize, dynarr_free, dynarr_finalize, StartOver
  <2>5. nelem' = 0
    <3>1. CASE dynarr_alloc
      <4>1. op = "alloc"
        BY <2>2, <3>1 DEF dynarr_alloc, Doing
      <4>2. nelem = 0
        BY <2>1, <4>1 DEF StringInv, AllocCall
      <4> QED
        BY <2>2, <3>1, <4>2 DEF dynarr_alloc, array
    <3>2. CASE dynarr_resize \/ dynarr_free \/ dynarr_finalize
      BY <2>2, <3>2 DEF dynarr_resize, dynarr_free, dynarr_finalize, Release
    <3> QED
      BY <2>3, <3>1, <3>2
  <2>6. StringStage'
    BY <1>1, <2>2, <2>4, <2>5 DEF StringStage, WholeString
  <2>7. todo' = <<>>
    BY <1>1, <2>2
  <2>8. todo' # AllocCall
    BY <2>7 DEF AllocCall
  <2> QED
    BY <2>4, <2>5, <2>6, <2>7, <2>8 DEF StringInv
<1>4. ASSUME da, todo' # AllocCall, da' = da, StringStage', failed' => str' = <<>>
      PROVE  StringInv'
  BY <1>4 DEF StringInv
<1>5. Head(todo).op \in {"push", "pop"} => da
  BY <1>1 DEF StringInv, AllocCall, Call
<1>6. ASSUME NEW c \in Chars \cup {Zero}, Head(todo) = PushCall(c)
      PROVE  /\ da /\ da' /\ (failed' => str' = <<>>)
             /\ failed' \/ /\ nelem' = nelem + 1 /\ UNCHANGED <<str, failed>>
                           /\ buf'[nelem] = c /\ \A k \in 0..(nelem - 1) : buf'[k] = buf[k]
  <2>1. da /\ dynarr_push /\ Head(todo).c = c /\ c \in Cells
    BY <1>2, <1>5, <1>6, CallMade DEF PushCall, Call
  <2>2. CASE Fails
    BY <2>1, <2>2 DEF Fails, array
  <2>3. CASE /\ nelem' = nelem + 1 /\ UNCHANGED <<da, str, failed>>
             /\ buf'[nelem] = Head(todo).c
             /\ \A k \in 0..(nelem - 1) : buf'[k] = buf[k]
    BY <1>2, <2>1, <2>3
  <2> QED
    BY <2>1, <2>2, <2>3, PushKeeps
<1>7. ASSUME Head(todo) = PopCall
      PROVE  /\ da /\ da' /\ (failed' => str' = <<>>)
             /\ \/ failed'
                \/ nelem = 0 /\ UNCHANGED <<nelem, buf, str, failed>>
                \/ /\ nelem > 0 /\ nelem' = nelem - 1 /\ UNCHANGED <<str, failed>>
                   /\ \A k \in 0..(nelem - 2) : buf'[k] = buf[k]
  <2>1. da /\ dynarr_pop
    BY <1>5, <1>7, CallMade DEF PopCall, Call
  <2>2. CASE Fails
    BY <2>1, <2>2 DEF Fails, array
  <2>3. CASE nelem = 0 /\ UNCHANGED <<array, str, failed>>
    BY <1>2, <2>1, <2>3 DEF array
  <2>4. CASE /\ nelem > 0 /\ nelem' = nelem - 1 /\ UNCHANGED <<da, str, failed>>
             /\ \A k \in 0..(nelem - 2) : buf'[k] = buf[k]
    BY <1>2, <2>1, <2>4
  <2> QED
    BY <2>1, <2>2, <2>3, <2>4, PopKeeps
<1>8. Len(str) \in Nat
  BY LenProperties
<1>9. CASE \E c \in Chars :
             /\ todo = <<PopCall, PushCall(c), PushCall(Zero)>>
             /\ failed \/ /\ Len(str) > 0 /\ str[Len(str)] = c /\ Holds(Len(str) - 1)
                          /\ nelem = Len(str) \/ (nelem = 0 /\ Len(str) = 1)
  <2>1. PICK c \in Chars : /\ todo = <<PopCall, PushCall(c), PushCall(Zero)>>
                           /\ failed \/ /\ Len(str) > 0 /\ str[Len(str)] = c /\ Holds(Len(str) - 1)
                                        /\ nelem = Len(str) \/ (nelem = 0 /\ Len(str) = 1)
    BY <1>9
  <2>2. todo' = <<PushCall(c), PushCall(Zero)>> /\ Head(todo) = PopCall
    BY <1>1, <2>1
  <2>3. da /\ da' = da /\ (failed' => str' = <<>>)
    BY <1>7, <2>2
  <2>4. failed' \/ /\ Len(str') > 0 /\ str'[Len(str')] = c /\ Holds(Len(str) - 1)'
                   /\ str' = str /\ nelem' = Len(str') - 1
    <3> SUFFICES ASSUME ~failed' PROVE /\ Len(str) > 0 /\ str[Len(str)] = c /\ Holds(Len(str) - 1)'
                                       /\ str' = str /\ nelem' = Len(str) - 1
      OBVIOUS
    <3>1. ~failed /\ str' = str
      BY <1>7, <2>2
    <3>2. CASE nelem = 0
      BY <1>7, <1>8, <2>1, <2>2, <3>1, <3>2 DEF array, Holds
    <3>3. CASE nelem = Len(str)
      <4>1. nelem' = nelem - 1 /\ \A k \in 0..(nelem - 2) : buf'[k] = buf[k]
        BY <1>7, <2>1, <2>2, <3>1, <3>3
      <4>2. nelem - 2 = (Len(str) - 1) - 1 /\ Len(str) - 1 \in Nat
        BY <1>8, <2>1, <3>1, <3>3
      <4>3. Holds(Len(str) - 1)'
        BY <2>1, <3>1, <4>1, <4>2, HoldsKept DEF Holds
      <4> QED
        BY <2>1, <3>1, <3>3, <4>1, <4>3
    <3> QED
      BY <2>1, <3>1, <3>2, <3>3
  <2>5. StringStage'
    BY <2>2, <2>4 DEF StringStage
  <2>6. todo' # AllocCall
    BY <2>2 DEF AllocCall
  <2> QED
    BY <1>4, <2>3, <2>5, <2>6
<1>10. CASE \E c \in Chars :
              /\ todo = <<PushCall(c), PushCall(Zero)>>
              /\ failed \/ /\ Len(str) > 0 /\ str[Len(str)] = c /\ Holds(Len(str) - 1)
                           /\ nelem = Len(str) - 1
  <2>1. PICK c \in Chars : /\ todo = <<PushCall(c), PushCall(Zero)>>
                           /\ failed \/ /\ Len(str) > 0 /\ str[Len(str)] = c /\ Holds(Len(str) - 1)
                                        /\ nelem = Len(str) - 1
    BY <1>10
  <2>2. todo' = <<PushCall(Zero)>> /\ Head(todo) = PushCall(c)
    BY <1>1, <2>1
  <2>3. da /\ da' = da /\ (failed' => str' = <<>>)
    BY <1>6, <2>2
  <2>4. ASSUME ~failed' PROVE Holds(Len(str))' /\ str' = str /\ nelem' = Len(str)
    <3>1. /\ ~failed /\ str' = str /\ nelem' = nelem + 1 /\ buf'[nelem] = c
          /\ \A k \in 0..(nelem - 1) : buf'[k] = buf[k]
      BY <1>6, <2>2, <2>4
    <3>2. \A i \in 1..Len(str) : buf'[i - 1] = str[i]
      <4> SUFFICES ASSUME NEW i \in 1..Len(str) PROVE buf'[i - 1] = str[i]
        OBVIOUS
      <4>1. CASE i = Len(str)
        BY <2>1, <3>1, <4>1
      <4>2. CASE i < Len(str)
        <5>1. i \in 1..(Len(str) - 1) /\ i - 1 \in 0..(nelem - 1)
          BY <1>8, <2>1, <3>1, <4>2
        <5> QED
          BY <2>1, <3>1, <5>1 DEF Holds
      <4> QED
        BY <1>8, <4>1, <4>2
    <3> QED
      BY <1>8, <2>1, <3>1, <3>2 DEF Holds
  <2>5. StringStage'
    BY <2>2, <2>4 DEF StringStage
  <2>6. todo' # AllocCall
    BY <2>2 DEF AllocCall, PushCall, Call
  <2> QED
    BY <1>4, <2>3, <2>5, <2>6
<1>11. CASE /\ todo = <<PopCall, PopCall, PushCall(Zero)>>
            /\ failed \/ (Holds(Len(str)) /\ nelem = Len(str) + 2) \/ (str = <<>> /\ nelem \in 0..1)
  <2>1. todo' = <<PopCall, PushCall(Zero)>> /\ Head(todo) = PopCall
    BY <1>1, <1>11
  <2>2. da /\ da' = da /\ (failed' => str' = <<>>)
    BY <1>7, <2>1
  <2>3. ASSUME ~failed'
        PROVE  /\ str' = str
               /\ (Holds(Len(str))' /\ nelem' = Len(str) + 1) \/ (str = <<>> /\ nelem' = 0)
    <3>1. ~failed /\ str' = str
      BY <1>7, <2>1, <2>3
    <3>2. CASE str = <<>> /\ nelem \in 0..1
      BY <1>7, <2>1, <2>3, <3>1, <3>2 DEF array
    <3>3. CASE Holds(Len(str)) /\ nelem = Len(str) + 2
      <4>1. nelem' = nelem - 1 /\ \A k \in 0..(nelem - 2) : buf'[k] = buf[k]
        BY <1>7, <1>8, <2>1, <2>3, <3>3
      <4>2. Len(str) + 1 \in Nat /\ nelem - 2 = (Len(str) + 1) - 1 /\ Len(str) <= Len(str) + 1
        BY <1>8, <3>3
      <4>3. \A k \in 0..((Len(str) + 1) - 1) : buf'[k] = buf[k]
        BY <1>8, <3>3, <4>1
      <4>4. \A i \in 1..Len(str) : buf'[i - 1] = str[i]
        BY <1>8, <3>3, <4>2, <4>3, HoldsKept
      <4>5. Holds(Len(str))'
        BY <3>1, <4>4 DEF Holds
      <4> QED
        BY <1>8, <3>1, <3>3, <4>1, <4>5
    <3> QED
      BY <1>11, <3>1, <3>2, <3>3
  <2>4. StringStage'
    BY <2>1, <2>3 DEF StringStage
  <2>5. todo' # AllocCall
    BY <2>1 DEF AllocCall
  <2> QED
    BY <1>4, <2>2, <2>4, <2>5
<1>12. CASE /\ todo = <<PopCall, PushCall(Zero)>>
            /\ failed \/ (Holds(Len(str)) /\ nelem = Len(str) + 1) \/ (str = <<>> /\ nelem = 0)
  <2>1. todo' = <<PushCall(Zero)>> /\ Head(todo) = PopCall
    BY <1>1, <1>12
  <2>2. da /\ da' = da /\ (failed' => str' = <<>>)
    BY <1>7, <2>1
  <2>3. ASSUME ~failed' PROVE Holds(Len(str))' /\ str' = str /\ nelem' = Len(str)
    <3>1. ~failed /\ str' = str
      BY <1>7, <2>1, <2>3
    <3>2. CASE str = <<>> /\ nelem = 0
      BY <1>7, <2>1, <2>3, <3>1, <3>2 DEF array, Holds
    <3>3. CASE Holds(Len(str)) /\ nelem = Len(str) + 1
      <4>1. nelem' = nelem - 1 /\ \A k \in 0..(nelem - 2) : buf'[k] = buf[k]
        BY <1>7, <1>8, <2>1, <2>3, <3>3
      <4>2. \A k \in 0..(Len(str) - 1) : buf'[k] = buf[k]
        BY <1>8, <3>3, <4>1
      <4>3. Holds(Len(str))'
        BY <1>8, <3>1, <3>3, <4>2, HoldsKept DEF Holds
      <4> QED
        BY <1>8, <3>1, <3>3, <4>1, <4>3
    <3> QED
      BY <1>12, <3>1, <3>2, <3>3
  <2>4. StringStage'
    BY <2>1, <2>3 DEF StringStage
  <2>5. todo' # AllocCall
    BY <2>1 DEF AllocCall, PushCall, Call
  <2> QED
    BY <1>4, <2>2, <2>4, <2>5
<1>13. CASE /\ todo = <<PushCall(Zero)>>
            /\ failed \/ (Holds(Len(str)) /\ nelem = Len(str))
  <2>1. todo' = <<>> /\ Head(todo) = PushCall(Zero)
    BY <1>1, <1>13
  <2>2. da /\ da' = da /\ (failed' => str' = <<>>)
    BY <1>6, <2>1
  <2>3. ASSUME ~failed' PROVE WholeString'
    <3>1. /\ ~failed /\ str' = str /\ nelem' = nelem + 1 /\ buf'[nelem] = Zero
          /\ \A k \in 0..(nelem - 1) : buf'[k] = buf[k]
      BY <1>6, <2>1, <2>3
    <3>2. Holds(Len(str))'
      BY <1>8, <1>13, <3>1, HoldsKept DEF Holds
    <3> QED
      BY <1>8, <1>13, <3>1, <3>2 DEF WholeString
  <2>4. StringStage'
    BY <2>1, <2>3 DEF StringStage
  <2>5. todo' # AllocCall
    BY <2>1 DEF AllocCall
  <2> QED
    BY <1>4, <2>2, <2>4, <2>5
<1> QED
  BY <1>1, <1>2, <1>3, <1>9, <1>10, <1>11, <1>12, <1>13 DEF StringStage

(* A macro begins. *)
LEMMA MacroStep ==
  ASSUME TypeOK, StringInv, isString, UNCHANGED <<array, isString, failed>>,
         CallAlloc \/ CallStack \/ CallFree \/ CallClear
           \/ (\E c \in Chars : DYNARR_STRPUSH(c)) \/ DYNARR_STRPOP
  PROVE  StringInv'
<1> USE DEF TypeOK, ArrayOK, array
<1> HIDE DEF Cells
<1>1. todo = <<>> /\ (failed \/ WholeString) /\ (failed => str = <<>>)
        /\ (~da => nelem = 0 /\ str = <<>>)
  <2>1. todo = <<>>
    BY DEF CallAlloc, CallStack, CallFree, CallClear, DYNARR_STRPUSH, DYNARR_STRPOP, Begin
  <2>2. todo \notin Emptying
    BY <2>1 DEF Emptying
  <2> QED
    BY <2>1, <2>2 DEF StringInv, StringStage
<1>2. CASE CallAlloc
  <2>1. ~da /\ str' = str /\ todo' = AllocCall
    BY <1>2 DEF CallAlloc, Begin, AllocCall
  <2>2. todo' \in Emptying
    BY <2>1 DEF Emptying, AllocCall
  <2> QED
    BY <1>1, <2>1, <2>2 DEF StringInv, StringStage
<1>3. CASE CallFree \/ CallClear
  <2>1. da /\ str' = <<>> /\ todo' \in Emptying /\ todo' # AllocCall
    BY <1>3 DEF CallFree, CallClear, Begin, Emptying, AllocCall, Call
  <2> QED
    BY <2>1 DEF StringInv, StringStage
<1>4. CASE \E c \in Chars : DYNARR_STRPUSH(c)
  <2>1. PICK c \in Chars : DYNARR_STRPUSH(c)
    BY <1>4
  <2>2. da /\ todo' = <<PopCall, PushCall(c), PushCall(Zero)>>
          /\ str' = IF failed THEN <<>> ELSE Append(str, c)
    BY <2>1 DEF DYNARR_STRPUSH, Begin, PopCall, PushCall
  <2>3. ASSUME ~failed
        PROVE  /\ Len(str') > 0 /\ str'[Len(str')] = c /\ Holds(Len(str) - 1)'
               /\ nelem' = Len(str') \/ (nelem' = 0 /\ Len(str') = 1)
    <3>1. /\ str' \in Seq(Chars) /\ Len(str') = Len(str) + 1 /\ str'[Len(str) + 1] = c
          /\ \A i \in 1..Len(str) : str'[i] = str[i]
      BY <2>2, <2>3, AppendProperties
    <3>2. Len(str) \in Nat /\ Len(str') - 1 = Len(str)
      BY <3>1, LenProperties
    <3>3. \A i \in 1..Len(str) : buf[i - 1] = str'[i]
      BY <1>1, <2>3, <3>1, <3>2 DEF WholeString, Holds
    <3>4. Holds(Len(str) - 1)'
      <4>1. \A i \in 1..(Len(str') - 1) : buf'[i - 1] = str'[i]
        BY <3>2, <3>3
      <4> QED
        BY <4>1 DEF Holds
    <3> QED
      BY <1>1, <2>3, <3>1, <3>2, <3>4 DEF WholeString
  <2>4. failed' \/ /\ Len(str') > 0 /\ str'[Len(str')] = c /\ Holds(Len(str) - 1)'
                   /\ nelem' = Len(str') \/ (nelem' = 0 /\ Len(str') = 1)
    BY <2>3
  <2>5. StringStage'
    BY <2>2, <2>4 DEF StringStage
  <2>6. todo' # AllocCall
    BY <2>2 DEF AllocCall
  <2> QED
    BY <2>2, <2>5, <2>6 DEF StringInv
<1>5. CASE DYNARR_STRPOP
  <2>1. da /\ todo' = <<PopCall, PopCall, PushCall(Zero)>> /\ str' = SubSeq(str, 1, Len(str) - 1)
    BY <1>5 DEF DYNARR_STRPOP, Begin, PopCall, PushCall
  <2>2. Len(str) \in Nat
    BY LenProperties
  <2>3. str = <<>> => str' = <<>>
    BY <2>1
  <2>4. ASSUME ~failed
        PROVE  (Holds(Len(str))' /\ nelem' = Len(str') + 2) \/ (str' = <<>> /\ nelem' \in 0..1)
    <3>1. CASE str = <<>>
      BY <1>1, <2>3, <2>4, <3>1 DEF WholeString
    <3>2. CASE str # <<>>
      <4>1. Len(str) > 0 /\ nelem = Len(str) + 1 /\ Holds(Len(str))
        BY <1>1, <2>2, <2>4, <3>2, EmptySeq DEF WholeString
      <4>2. Len(str') = Len(str) - 1 /\ \A i \in 1..(Len(str) - 1) : str'[i] = str[i]
        <5>1. 1 \in 1..(Len(str) + 1) /\ Len(str) - 1 \in 0..Len(str)
          BY <2>2, <4>1
        <5>2. Len(SubSeq(str, 1, Len(str) - 1)) = Len(str) - 1
          BY <2>2, <4>1
        <5>3. \A i \in 1..(Len(str) - 1) : SubSeq(str, 1, Len(str) - 1)[i] = str[i]
          BY <2>2, <4>1
        <5> QED
          BY <2>1, <5>2, <5>3
      <4>3. Holds(Len(str))'
        <5>1. \A i \in 1..Len(str') : buf'[i - 1] = str'[i]
          BY <2>2, <4>1, <4>2 DEF Holds
        <5> QED
          BY <5>1 DEF Holds
      <4> QED
        BY <2>2, <4>1, <4>2, <4>3
    <3> QED
      BY <3>1, <3>2
  <2>5. StringStage'
    BY <2>1, <2>4 DEF StringStage
  <2>6. todo' # AllocCall
    BY <2>1 DEF AllocCall
  <2> QED
    BY <1>1, <2>1, <2>3, <2>5, <2>6 DEF StringInv
<1> QED
  BY <1>2, <1>3, <1>4, <1>5 DEF CallStack

(* As long as no realloc fails, a string holds exactly the characters       *)
(* pushed and not popped, and its zero.                                     *)
THEOREM StringsIntact == Spec => []StringIntact
<1>1. Init => StringInv
  BY DEF Init, StringInv, StringStage, WholeString, AllocCall
<1>2. TypeOK /\ StringInv /\ [Next]_vars => StringInv'
  <2> SUFFICES ASSUME TypeOK, StringInv, [Next]_vars PROVE StringInv'
    OBVIOUS
  <2>1. CASE UNCHANGED vars
    BY <2>1 DEF vars, array, StringInv, StringStage, WholeString, Holds
  <2>2. isString' = isString
    BY StepCases, CallMade DEF vars
  <2>3. CASE ~isString
    BY <2>2, <2>3 DEF StringInv
  <2> QED
    BY <2>1, <2>3, StepCases, StringCallStep, MacroStep
<1>3. StringInv => StringIntact
  <2> SUFFICES ASSUME StringInv, isString, da, todo = <<>>, ~failed PROVE StringIntact
    BY DEF StringIntact
  <2>1. todo \notin Emptying
    BY DEF Emptying
  <2>2. WholeString
    BY <2>1 DEF StringInv, StringStage
  <2> QED
    BY <2>2 DEF WholeString, Holds, StringIntact
<1> QED
  BY <1>1, <1>2, <1>3, TypeCorrect, PTL DEF Spec
=============================================================================
