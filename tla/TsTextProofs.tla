---------------------------- MODULE TsTextProofs ----------------------------
(***************************************************************************)
(* What ts_text.c keeps and achieves, for files of any length, any words,  *)
(* strings and numbers, and arrays and trees of any depth.                 *)
(*                                                                         *)
(* The first part says what the model's recursive functions are: they are  *)
(* defined on values by the depth of their arrays and on trees by theirs,  *)
(* and exist by LevelRecursion, from induction on that depth.  The second  *)
(* describes the calls in progress, and each step by what it does to them. *)
(* The third is the round trip: while a saved tree is loaded again, either *)
(* every call reads the part of the tree that it is called for, and the    *)
(* text that is left is the rest of those parts (Following), or some call  *)
(* has read something else, which stays so and reaches the result (Away).  *)
(***************************************************************************)
EXTENDS TsText, FiniteSetTheorems, SequenceTheorems, WellFoundedInduction, TLAPS

-----------------------------------------------------------------------------

(* Induction on the natural numbers, from the well-foundedness of strict    *)
(* inclusion: the intervals 0..k are ordered by it.                         *)
LEMMA Least ==
  ASSUME NEW T \in SUBSET Nat, T # {}
  PROVE  \E m \in T : \A k \in T : m <= k
<1>1. PICK t \in T : TRUE
  OBVIOUS
<1>2. IsFiniteSet(0..t)
  BY FS_Interval
<1> DEFINE Initial == {0..k : k \in {j \in T : j <= t}}
<1>3. Initial \subseteq SUBSET (0..t) /\ Initial # {}
  <2>1. 0..t \in Initial
    OBVIOUS
  <2>2. ASSUME NEW B \in Initial PROVE B \in SUBSET (0..t)
    OBVIOUS
  <2> QED
    BY <2>1, <2>2
<1>4. PICK B \in Initial : \A C \in Initial : ~(<<C, B>> \in StrictSubsetOrdering(0..t))
  <2> HIDE DEF Initial
  <2>1. IsWellFoundedOn(StrictSubsetOrdering(0..t), SUBSET (0..t))
    BY <1>2, FS_StrictSubsetOrderingWellFounded, FS_FiniteSubsetsOfFinite
  <2> QED
    BY <1>3, <2>1, WFMin
<1>5. PICK m \in T : m <= t /\ B = 0..m
  OBVIOUS
<1>6. ASSUME NEW k \in T PROVE m <= k
  <2>1. CASE k > t
    BY <2>1, <1>5
  <2>2. CASE k <= t
    <3>1. 0..k \in Initial
      BY <2>2
    <3>2. ~(0..k \subseteq 0..m) \/ 0..k = 0..m
      BY <3>1, <1>3, <1>4, <1>5 DEF StrictSubsetOrdering
    <3>3. k \in 0..k /\ m \in 0..m
      OBVIOUS
    <3> QED
      BY <3>2, <3>3
  <2> QED
    BY <2>1, <2>2
<1> QED
  BY <1>6

LEMMA Induct ==
  ASSUME NEW S, 0 \in S, \A n \in Nat : n \in S => n + 1 \in S
  PROVE  Nat \subseteq S
<1> DEFINE T == Nat \ S
<1>1. CASE T = {}
  BY <1>1
<1>2. CASE T # {}
  <2>1. PICK m \in T : \A k \in T : m <= k
    BY <1>2, Least
  <2>2. m - 1 \in Nat /\ m - 1 \notin T
    BY <2>1
  <2> QED
    BY <2>1, <2>2
<1> QED
  BY <1>1, <1>2

-----------------------------------------------------------------------------
(* Total adds from the left. *)
LEMMA MaxTop ==
  ASSUME NEW n \in Nat, NEW s \in SUBSET (1..n), n \in s
  PROVE  Max(s) = n
<1>1. \A y \in s : n >= y
  OBVIOUS
<1>2. \A x \in s : (\A y \in s : x >= y) => x = n
  BY <1>1
<1> QED
  BY <1>1, <1>2 DEF Max

Partial(seq) ==
  CHOOSE iter : iter = [s \in SUBSET (DOMAIN seq) |->
    IF s = {} THEN 0 ELSE LET x == Max(s) IN iter[s \ {x}] + seq[x]]

LEMMA PartialExists ==
  ASSUME NEW seq, NEW S, seq \in Seq(S)
  PROVE  \A s \in SUBSET (1..Len(seq)) :
           Partial(seq)[s] = IF s = {} THEN 0 ELSE Partial(seq)[s \ {Max(s)}] + seq[Max(s)]
<1> DEFINE Row(f, s) == IF s = {} THEN 0 ELSE f[s \ {Max(s)}] + seq[Max(s)]
           T == {n \in Nat : \E f : f = [s \in SUBSET (1..n) |-> Row(f, s)]}
<1>1. 0 \in T
  <2> DEFINE f == [s \in SUBSET (1..0) |-> 0]
  <2>1. f = [s \in SUBSET (1..0) |-> Row(f, s)]
    OBVIOUS
  <2> QED
    BY <2>1
<1>2. ASSUME NEW n \in Nat, n \in T PROVE n + 1 \in T
  <2>1. PICK f : f = [s \in SUBSET (1..n) |-> Row(f, s)]
    BY <1>2
  <2> DEFINE g == [s \in SUBSET (1..(n + 1)) |-> IF s \subseteq 1..n THEN f[s] ELSE Row(f, s)]
  <2>2. ASSUME NEW s \in SUBSET (1..(n + 1)) PROVE g[s] = Row(g, s)
    <3>1. g[s] = Row(f, s)
      <4> HIDE DEF Row
      <4> QED
        BY <2>1
    <3>2. CASE s = {}
      BY <3>1, <3>2
    <3>3. CASE s # {}
      <4>1. s \ {Max(s)} \subseteq 1..n
        <5>1. CASE n + 1 \in s
          <6>1. Max(s) = n + 1
            BY <5>1, MaxTop
          <6>2. \A x \in s : x # n + 1 => x \in 1..n
            OBVIOUS
          <6> QED
            BY <6>1, <6>2
        <5>2. CASE n + 1 \notin s
          <6>1. \A x \in s : x # n + 1 => x \in 1..n
            OBVIOUS
          <6> QED
            BY <5>2, <6>1
        <5> QED
          BY <5>1, <5>2
      <4>2. s \ {Max(s)} \in SUBSET (1..(n + 1))
        OBVIOUS
      <4>3. g[s \ {Max(s)}] = f[s \ {Max(s)}]
        BY <4>1, <4>2
      <4> HIDE DEF g
      <4> QED
        BY <3>1, <3>3, <4>3
    <3> QED
      BY <3>2, <3>3
  <2>3. g = [s \in SUBSET (1..(n + 1)) |-> Row(g, s)]
    <3> HIDE DEF Row
    <3> QED
      BY <2>2
  <2> HIDE DEF g, Row
  <2> QED
    BY <2>3
<1>3. Len(seq) \in T
  <2> HIDE DEF T
  <2> QED
    BY <1>1, <1>2, Induct
<1>4. DOMAIN seq = 1..Len(seq)
  OBVIOUS
<1>5. PICK f : f = [s \in SUBSET (1..Len(seq)) |-> Row(f, s)]
  BY <1>3
<1>6. Partial(seq) = [s \in SUBSET (1..Len(seq)) |-> Row(Partial(seq), s)]
  BY <1>4, <1>5 DEF Partial
<1> HIDE DEF Row
<1>7. \A s \in SUBSET (1..Len(seq)) : Partial(seq)[s] = Row(Partial(seq), s)
  BY <1>6
<1> QED
  BY <1>7 DEF Row

(* sums[i] is the total of the first i numbers of seq. *)
IsSums(sums, seq) ==
  /\ sums \in [0..Len(seq) -> Nat] /\ sums[0] = 0
  /\ \A i \in 1..Len(seq) : sums[i] = sums[i - 1] + seq[i]
LEMMA TotalSums ==
  ASSUME NEW seq \in Seq(Nat)
  PROVE  \E sums : IsSums(sums, seq) /\ Total(seq) = sums[Len(seq)]
<1> DEFINE P == Partial(seq)
           sums == [i \in 0..Len(seq) |-> P[1..i]]
           T == {n \in Nat : n <= Len(seq) => sums[n] \in Nat}
<1>1. sums[0] = 0
  <2>1. 1..0 = {}
    OBVIOUS
  <2>2. P[{}] = 0
    BY PartialExists
  <2> HIDE DEF P
  <2> QED
    BY <2>1, <2>2
<1>2. ASSUME NEW i \in 1..Len(seq) PROVE sums[i] = sums[i - 1] + seq[i]
  <2>1. Max(1..i) = i
    BY MaxTop
  <2>2. (1..i) \ {i} = 1..(i - 1)
    <3>1. \A j : j \in (1..i) \ {i} <=> j \in 1..(i - 1)
      OBVIOUS
    <3> QED
      BY <3>1
  <2>4. 1..i # {} /\ 1..i \in SUBSET (1..Len(seq))
    <3>1. i \in 1..i /\ Len(seq) \in Nat
      OBVIOUS
    <3>2. \A j \in 1..i : j \in 1..Len(seq)
      BY <3>1
    <3> QED
      BY <3>1, <3>2
  <2>3. P[1..i] = P[1..(i - 1)] + seq[i]
    BY <2>1, <2>2, <2>4, PartialExists
  <2> HIDE DEF P
  <2> QED
    BY <2>3
<1>3. sums[Len(seq)] = Total(seq)
  <2>1. Total(seq) = Partial(seq)[DOMAIN seq]
    BY DEF Total, FoldLeft, MapThenFoldSet, Partial
  <2> HIDE DEF P
  <2>2. Total(seq) = P[1..Len(seq)]
    BY <2>1 DEF P
  <2> QED
    BY <2>2
<1> HIDE DEF sums
<1>4. Nat \subseteq T
  <2>1. 0 \in T
    BY <1>1
  <2>2. ASSUME NEW n \in Nat, n \in T PROVE n + 1 \in T
    <3>1. n + 1 <= Len(seq) => sums[n + 1] = sums[n] + seq[n + 1] /\ seq[n + 1] \in Nat
      BY <1>2
    <3> QED
      BY <2>2, <3>1
  <2> HIDE DEF T
  <2> QED
    BY <2>1, <2>2, Induct
<1>5. sums \in [0..Len(seq) -> Nat]
  <2>1. \A n \in 0..Len(seq) : sums[n] \in Nat
    BY <1>4
  <2> QED
    BY <2>1 DEF sums
<1> QED
  BY <1>1, <1>2, <1>3, <1>5 DEF IsSums

LEMMA TotalType ==
  ASSUME NEW seq \in Seq(Nat)
  PROVE  Total(seq) \in Nat
BY TotalSums DEF IsSums

LEMMA TotalEmpty ==
  Total(<<>>) = 0
<1>1. <<>> \in Seq(Nat) /\ Len(<<>>) = 0
  OBVIOUS
<1> QED
  BY <1>1, TotalSums DEF IsSums

LEMMA TotalAppend ==
  ASSUME NEW seq \in Seq(Nat), NEW x \in Nat
  PROVE  Total(Append(seq, x)) = Total(seq) + x
<1> DEFINE more == Append(seq, x)
<1>1. more \in Seq(Nat) /\ Len(more) = Len(seq) + 1 /\ more[Len(seq) + 1] = x
        /\ \A i \in 1..Len(seq) : more[i] = seq[i]
  OBVIOUS
<1> HIDE DEF more
<1>2. PICK f : IsSums(f, seq) /\ Total(seq) = f[Len(seq)]
  BY TotalSums
<1>3. PICK g : IsSums(g, more) /\ Total(more) = g[Len(more)]
  BY <1>1, TotalSums
<1> DEFINE T == {n \in Nat : n <= Len(seq) => f[n] = g[n]}
<1>4. 0 \in T
  BY <1>2, <1>3 DEF IsSums
<1>5. ASSUME NEW n \in Nat, n \in T PROVE n + 1 \in T
  <2> SUFFICES ASSUME n + 1 <= Len(seq) PROVE f[n + 1] = g[n + 1]
    OBVIOUS
  <2>1. f[n] = g[n]
    BY <1>5
  <2>2. f[n + 1] = f[n] + seq[n + 1]
    BY <1>2 DEF IsSums
  <2>3. g[n + 1] = g[n] + more[n + 1]
    BY <1>1, <1>3 DEF IsSums
  <2> QED
    BY <1>1, <2>1, <2>2, <2>3
<1>6. Nat \subseteq T
  <2> HIDE DEF T
  <2> QED
    BY <1>4, <1>5, Induct
<1>7. f[Len(seq)] = g[Len(seq)]
  BY <1>6
<1>8. g[Len(seq) + 1] = g[Len(seq)] + x
  <2>1. Len(seq) + 1 \in 1..Len(more)
    BY <1>1
  <2> QED
    BY <1>1, <1>3, <2>1 DEF IsSums
<1> QED
  BY <1>1, <1>2, <1>3, <1>7, <1>8 DEF more

LEMMA TotalMonotonic ==
  ASSUME NEW s \in Seq(Nat), NEW t \in Seq(Nat), Len(s) = Len(t),
         \A i \in 1..Len(s) : s[i] <= t[i]
  PROVE  Total(s) <= Total(t)
<1>2. PICK f : IsSums(f, s) /\ Total(s) = f[Len(s)]
  BY TotalSums
<1>3. PICK g : IsSums(g, t) /\ Total(t) = g[Len(t)]
  BY TotalSums
<1> DEFINE T == {n \in Nat : n <= Len(s) => f[n] <= g[n]}
<1>4. 0 \in T
  BY <1>2, <1>3 DEF IsSums
<1>5. ASSUME NEW n \in Nat, n \in T PROVE n + 1 \in T
  <2> SUFFICES ASSUME n + 1 <= Len(s) PROVE f[n + 1] <= g[n + 1]
    OBVIOUS
  <2>1. f[n] <= g[n] /\ s[n + 1] <= t[n + 1] /\ s[n + 1] \in Nat /\ t[n + 1] \in Nat
    BY <1>5
  <2>2. f[n + 1] = f[n] + s[n + 1] /\ f[n] \in Nat
    BY <1>2 DEF IsSums
  <2>3. g[n + 1] = g[n] + t[n + 1] /\ g[n] \in Nat
    <3>1. n + 1 \in 1..Len(t) /\ n \in 0..Len(t) /\ (n + 1) - 1 = n
      OBVIOUS
    <3>2. g[n] \in Nat
      BY <1>3, <3>1 DEF IsSums
    <3>3. g[n + 1] = g[(n + 1) - 1] + t[n + 1]
      BY <1>3, <3>1 DEF IsSums
    <3> QED
      BY <3>1, <3>2, <3>3
  <2> QED
    BY <2>1, <2>2, <2>3
<1>6. Nat \subseteq T
  <2> HIDE DEF T
  <2> QED
    BY <1>4, <1>5, Induct
<1> QED
  BY <1>2, <1>3, <1>6

LEMMA FunctionIsSeq ==
  ASSUME NEW n \in Nat, NEW S, NEW f \in [1..n -> S]
  PROVE  f \in Seq(S) /\ Len(f) = n
BY SeqDef

LEMMA AppendIs ==
  ASSUME NEW S, NEW s \in Seq(S), NEW x \in S
  PROVE  /\ Append(s, x) \in Seq(S) /\ Len(Append(s, x)) = Len(s) + 1 /\ Len(s) \in Nat
         /\ DOMAIN Append(s, x) = 1..(Len(s) + 1)
         /\ \A i \in 1..Len(s) : Append(s, x)[i] = s[i]
         /\ Append(s, x)[Len(s) + 1] = x
OBVIOUS

LEMMA SeqInto ==
  ASSUME NEW S, NEW U, NEW s \in Seq(S), \A i \in DOMAIN s : s[i] \in U
  PROVE  s \in Seq(U)
<1>1. Len(s) \in Nat /\ DOMAIN s = 1..Len(s) /\ s = [i \in 1..Len(s) |-> s[i]]
  BY LenProperties
<1>2. s \in [1..Len(s) -> U]
  BY <1>1
<1> QED
  BY <1>1, <1>2, SeqDef

LEMMA EachAt ==
  ASSUME NEW f, NEW D, NEW s \in Seq(D)
  PROVE  /\ Len(Each(f, s)) = Len(s) /\ DOMAIN Each(f, s) = DOMAIN s
         /\ \A i \in DOMAIN s : Each(f, s)[i] = f[s[i]]
<1>1. Len(s) \in Nat /\ DOMAIN s = 1..Len(s)
  BY LenProperties
<1>2. Each(f, s) = [i \in 1..Len(s) |-> f[s[i]]]
  BY <1>1 DEF Each
<1>3. Len(Each(f, s)) = Len(s)
  BY <1>1, <1>2
<1> QED
  BY <1>1, <1>2, <1>3

LEMMA EachIs ==
  ASSUME NEW f, NEW D, NEW S, NEW s \in Seq(D), \A i \in DOMAIN s : f[s[i]] \in S
  PROVE  Each(f, s) \in Seq(S)
<1>1. Len(s) \in Nat /\ DOMAIN s = 1..Len(s)
  BY LenProperties
<1>2. Each(f, s) \in [1..Len(s) -> S]
  BY <1>1 DEF Each
<1> QED
  BY <1>1, <1>2, SeqDef

-----------------------------------------------------------------------------
(* Levels of a recursive type: what an element of level[d] is made of, in   *)
(* parts, belongs to the level below.                                       *)
IsLevels(N, level, parts) ==
  /\ \A d \in 0..N : level[d] \subseteq level[N]
  /\ \A d \in 1..N : level[d - 1] \subseteq level[d]
  /\ \A d \in 0..N : \A a \in level[d] : parts[a] \in Seq(IF d = 0 THEN {} ELSE level[d - 1])

LEMMA LevelInduct ==
  ASSUME NEW N \in Nat, NEW level, NEW parts, NEW P, IsLevels(N, level, parts),
         \A a \in level[N] : (\A i \in DOMAIN parts[a] : parts[a][i] \in P) => a \in P
  PROVE  level[N] \subseteq P
<1> DEFINE T == {d \in Nat : d <= N => level[d] \subseteq P}
<1>1. \A d \in 0..N : level[d] \subseteq level[N]
  BY DEF IsLevels
<1>2. 0 \in T
  <2>1. ASSUME NEW a \in level[0] PROVE \A i \in DOMAIN parts[a] : parts[a][i] \in P
    <3>1. parts[a] \in Seq({})
      BY DEF IsLevels
    <3> QED
      BY <3>1
  <2> QED
    BY <1>1, <2>1
<1>3. ASSUME NEW d \in Nat, d \in T PROVE d + 1 \in T
  <2> SUFFICES ASSUME d + 1 <= N PROVE level[d + 1] \subseteq P
    OBVIOUS
  <2>1. level[d] \subseteq P /\ d + 1 \in 0..N /\ (d + 1) - 1 = d
    BY <1>3
  <2>2. ASSUME NEW a \in level[d + 1], NEW i \in DOMAIN parts[a] PROVE parts[a][i] \in level[d]
    <3>1. parts[a] \in Seq(level[d])
      BY <2>1 DEF IsLevels
    <3> QED
      BY <3>1
  <2> QED
    BY <1>1, <2>1, <2>2
<1>4. N \in T
  <2> HIDE DEF T
  <2> QED
    BY <1>2, <1>3, Induct
<1> QED
  BY <1>4

(* A function that is defined at an element from what it is at the parts of *)
(* the element exists.                                                      *)
IsStep(step, A, S) == step \in [A \X Seq(S) -> S]
Recursive(f, step, A, parts, S) ==
  f \in [A -> S] /\ \A a \in A : f[a] = step[<<a, Each(f, parts[a])>>]

LEMMA LevelRecursion ==
  ASSUME NEW N \in Nat, NEW level, NEW parts, IsLevels(N, level, parts),
         NEW S, NEW step, IsStep(step, level[N], S)
  PROVE  \E f : Recursive(f, step, level[N], parts, S)
<1> USE DEF IsStep
<1> DEFINE Good(f, D) == f \in [D -> S] /\ \A a \in D : f[a] = step[<<a, Each(f, parts[a])>>]
           T == {d \in Nat : d <= N => \E f : Good(f, level[d])}
<1>1. \A d \in 0..N : level[d] \subseteq level[N]
  BY DEF IsLevels
<1>2. ASSUME NEW f, NEW D, NEW E, Good(f, D), E \subseteq level[N],
             \A a \in E : parts[a] \in Seq(D), D \subseteq E
      PROVE  \E g : Good(g, E)
  <2> DEFINE g == [a \in E |-> step[<<a, Each(f, parts[a])>>]]
  <2>1. ASSUME NEW a \in E PROVE Each(f, parts[a]) \in Seq(S)
    <3>1. parts[a] \in Seq(D) /\ f \in [D -> S]
      BY <1>2
    <3>2. \A i \in DOMAIN parts[a] : parts[a][i] \in D
      BY <3>1
    <3>3. \A i \in DOMAIN parts[a] : f[parts[a][i]] \in S
      BY <3>1, <3>2
    <3> QED
      BY <3>1, <3>3, EachIs
  <2>2. g \in [E -> S]
    BY <1>2, <2>1
  <2>3. ASSUME NEW a \in D PROVE g[a] = f[a]
    BY <1>2
  <2>4. ASSUME NEW a \in E PROVE Each(g, parts[a]) = Each(f, parts[a])
    <3>1. \A i \in DOMAIN parts[a] : parts[a][i] \in D
      BY <1>2
    <3> HIDE DEF g
    <3> QED
      BY <2>3, <3>1 DEF Each
  <2>5. ASSUME NEW a \in E PROVE g[a] = step[<<a, Each(g, parts[a])>>]
    BY <2>4
  <2> HIDE DEF g
  <2> QED
    BY <2>2, <2>5
<1>3. 0 \in T
  <2>1. \A a \in level[0] : parts[a] \in Seq({})
    BY DEF IsLevels
  <2>2. Good([a \in {} |-> a], {})
    OBVIOUS
  <2> HIDE DEF Good
  <2>3. PICK none, f : none = {} /\ Good(f, none)
    BY <2>2
  <2>4. none \subseteq level[0] /\ level[0] \subseteq level[N]
          /\ \A a \in level[0] : parts[a] \in Seq(none)
    BY <1>1, <2>1, <2>3
  <2>5. \E g : Good(g, level[0])
    BY <1>2, <2>3, <2>4
  <2> QED
    BY <2>5
<1>4. ASSUME NEW d \in Nat, d \in T PROVE d + 1 \in T
  <2> SUFFICES ASSUME d + 1 <= N PROVE \E g : Good(g, level[d + 1])
    OBVIOUS
  <2>1. PICK f : Good(f, level[d])
    BY <1>4
  <2>2. d + 1 \in 1..N /\ d + 1 \in 0..N /\ (d + 1) - 1 = d /\ d + 1 # 0
    OBVIOUS
  <2>3. level[d + 1] \subseteq level[N] /\ level[d] \subseteq level[d + 1]
    BY <2>2 DEF IsLevels
  <2>4. \A a \in level[d + 1] : parts[a] \in Seq(level[d])
    BY <2>2 DEF IsLevels
  <2> HIDE DEF Good
  <2> QED
    BY <1>2, <2>1, <2>3, <2>4
<1>5. N \in T
  <2> HIDE DEF T
  <2> QED
    BY <1>3, <1>4, Induct
<1> QED
  BY <1>5 DEF Recursive

LEMMA ValueOfExists ==
  \A d \in 0..MaxDepth :
    ValueOf[d] = Scalars \cup Compound(IF d = 0 THEN {} ELSE ValueOf[d - 1])
<1> DEFINE Row(f, d) == Scalars \cup Compound(IF d = 0 THEN {} ELSE f[d - 1])
           T == {n \in Nat : \E f : f = [d \in 0..n |-> Row(f, d)]}
<1>1. 0 \in T
  <2> DEFINE f == [d \in 0..0 |-> Scalars \cup Compound({})]
  <2>1. f = [d \in 0..0 |-> Row(f, d)]
    OBVIOUS
  <2> QED
    BY <2>1
<1>2. ASSUME NEW n \in Nat, n \in T PROVE n + 1 \in T
  <2>1. PICK f : f = [d \in 0..n |-> Row(f, d)]
    BY <1>2
  <2> DEFINE g == [d \in 0..(n + 1) |-> IF d <= n THEN f[d] ELSE Row(f, n + 1)]
  <2>2. ASSUME NEW d \in 0..(n + 1) PROVE g[d] = Row(g, d)
    <3>1. g[d] = Row(f, d)
      <4> HIDE DEF Row
      <4>1. CASE d <= n
        BY <2>1, <4>1
      <4>2. CASE d = n + 1
        BY <4>2
      <4> QED
        BY <4>1, <4>2
    <3>2. d > 0 => g[d - 1] = f[d - 1]
      OBVIOUS
    <3> HIDE DEF g
    <3> QED
      BY <3>1, <3>2
  <2>3. g = [d \in 0..(n + 1) |-> Row(g, d)]
    <3> HIDE DEF Row
    <3> QED
      BY <2>2
  <2> HIDE DEF g, Row
  <2> QED
    BY <2>3
<1>3. MaxDepth \in T
  <2> HIDE DEF T
  <2> QED
    BY <1>1, <1>2, Induct, TextAssumption
<1>4. PICK f : f = [d \in 0..MaxDepth |-> Row(f, d)]
  BY <1>3
<1>5. ValueOf = [d \in 0..MaxDepth |-> Row(ValueOf, d)]
  BY <1>4 DEF ValueOf
<1> HIDE DEF Row
<1>6. \A d \in 0..MaxDepth : ValueOf[d] = Row(ValueOf, d)
  BY <1>5
<1> QED
  BY <1>6 DEF Row

LEMMA ScalarFields ==
  ASSUME NEW v \in Scalars
  PROVE  /\ v.type \in {"TS_STRING", "TS_NUMBER"} /\ v.vec = <<>> /\ v.vec_size = 0 /\ v.array = <<>>
         /\ v.type = "TS_NUMBER" => v.text \in Numbers /\ v = ts_set_valuef(v.text)
         /\ v.type = "TS_STRING" => v.text \in Words \cup Strings \cup {Null} /\ v = ts_set_value_str(v.text)
<1>1. CASE v = Unset
  BY <1>1 DEF Unset, ts_set_value_str
<1>2. ASSUME NEW x \in Numbers, v = ts_set_valuef(x) PROVE 
    /\ v.type \in {"TS_STRING", "TS_NUMBER"} /\ v.vec = <<>> /\ v.vec_size = 0 /\ v.array = <<>>
    /\ v.type = "TS_NUMBER" => v.text \in Numbers /\ v = ts_set_valuef(v.text)
    /\ v.type = "TS_STRING" => v.text \in Words \cup Strings \cup {Null} /\ v = ts_set_value_str(v.text)
  BY <1>2 DEF Unset, ts_set_valuef
<1>3. ASSUME NEW s \in Words \cup Strings, v = ts_set_value_str(s) PROVE 
    /\ v.type \in {"TS_STRING", "TS_NUMBER"} /\ v.vec = <<>> /\ v.vec_size = 0 /\ v.array = <<>>
    /\ v.type = "TS_NUMBER" => v.text \in Numbers /\ v = ts_set_valuef(v.text)
    /\ v.type = "TS_STRING" => v.text \in Words \cup Strings \cup {Null} /\ v = ts_set_value_str(v.text)
  BY <1>3 DEF Unset, ts_set_value_str
<1> QED
  BY <1>1, <1>2, <1>3 DEF Scalars

LEMMA ListsGrow ==
  ASSUME NEW S, NEW U, S \subseteq U
  PROVE  Lists(S) \subseteq Lists(U) /\ Compound(S) \subseteq Compound(U)
<1>1. Lists(S) \subseteq Lists(U)
  BY SeqMonotonic DEF Lists
<1> QED
  BY <1>1 DEF Compound

LEMMA ListsOfNothing ==
  Lists({}) = {} /\ Compound({}) = {}
<1>1. ASSUME NEW seq \in Lists({}) PROVE FALSE
  <2>1. seq \in Seq({}) /\ Len(seq) \in 2..MaxStored /\ MaxStored \in Nat
    BY TextAssumption DEF Lists
  <2>2. 1 \in 1..Len(seq)
    BY <2>1
  <2>3. seq[1] \in {}
    BY <2>1, <2>2, ElementOfSeq
  <2> QED
    BY <2>3
<1> QED
  BY <1>1 DEF Compound

LEMMA ValueOfGrows ==
  ASSUME NEW d \in 0..MaxDepth, NEW e \in d..MaxDepth
  PROVE  ValueOf[d] \subseteq ValueOf[e]
<1> DEFINE T == {n \in Nat : n + 1 <= MaxDepth => ValueOf[n] \subseteq ValueOf[n + 1]}
           U == {n \in Nat : d + n <= MaxDepth => ValueOf[d] \subseteq ValueOf[d + n]}
<1>0. MaxDepth \in Nat
  BY TextAssumption
<1>1. 0 \in T
  <2>1. ValueOf[0] = Scalars
    BY <1>0, ValueOfExists, ListsOfNothing
  <2>2. 1 <= MaxDepth => Scalars \subseteq ValueOf[1]
    BY <1>0, ValueOfExists
  <2> QED
    BY <2>1, <2>2
<1>2. ASSUME NEW n \in Nat, n \in T PROVE n + 1 \in T
  <2> SUFFICES ASSUME n + 2 <= MaxDepth PROVE ValueOf[n + 1] \subseteq ValueOf[n + 2]
    OBVIOUS
  <2>1. ValueOf[n + 1] = Scalars \cup Compound(ValueOf[n])
    BY <1>0, ValueOfExists
  <2>2. ValueOf[n + 2] = Scalars \cup Compound(ValueOf[n + 1])
    BY <1>0, ValueOfExists
  <2>3. ValueOf[n] \subseteq ValueOf[n + 1]
    BY <1>0, <1>2
  <2> QED
    BY <2>1, <2>2, <2>3, ListsGrow
<1>3. Nat \subseteq T
  <2> HIDE DEF T
  <2> QED
    BY <1>1, <1>2, Induct
<1>4. 0 \in U
  OBVIOUS
<1>5. ASSUME NEW n \in Nat, n \in U PROVE n + 1 \in U
  <2>1. d + n \in T
    BY <1>3
  <2> QED
    BY <1>0, <1>5, <2>1
<1>6. Nat \subseteq U
  <2> HIDE DEF U
  <2> QED
    BY <1>4, <1>5, Induct
<1>7. e - d \in U
  BY <1>0, <1>6
<1> QED
  BY <1>0, <1>7

LEMMA ElementOfValue ==
  ASSUME NEW d \in 0..MaxDepth, NEW v \in ValueOf[d], NEW i \in DOMAIN v.array
  PROVE  d > 0 /\ v.array[i] \in ValueOf[d - 1]
<1>1. v \notin Scalars
  BY ScalarFields
<1>2. v \in Compound(IF d = 0 THEN {} ELSE ValueOf[d - 1])
  BY <1>1, ValueOfExists
<1>3. d > 0
  BY <1>2, ListsOfNothing, TextAssumption
<1>4. v.array \in Seq(ValueOf[d - 1])
  BY <1>2, <1>3 DEF Compound, Lists
<1> QED
  BY <1>3, <1>4

LEMMA ValueArray ==
  ASSUME NEW d \in 0..MaxDepth, NEW v \in ValueOf[d]
  PROVE  v.array \in Seq(ValueOf[d])
<1>1. CASE v \in Scalars
  <2>1. v.array = <<>>
    BY <1>1, ScalarFields
  <2> QED
    BY <2>1
<1>2. CASE v \notin Scalars
  <2>1. v \in Compound(IF d = 0 THEN {} ELSE ValueOf[d - 1])
    BY <1>2, ValueOfExists
  <2>2. d > 0
    BY <2>1, ListsOfNothing, TextAssumption
  <2>3. v.array \in Seq(ValueOf[d - 1])
    BY <2>1, <2>2 DEF Compound, Lists
  <2>4. ValueOf[d - 1] \subseteq ValueOf[d]
    BY <2>2, ValueOfGrows, TextAssumption
  <2> QED
    BY <2>3, <2>4, SeqMonotonic
<1> QED
  BY <1>1, <1>2

Elements == [v \in Value |-> v.array]

LEMMA ValueLevels ==
  IsLevels(MaxDepth, ValueOf, Elements) /\ \A d \in 0..MaxDepth : ValueOf[d] \subseteq Value
<1>0. MaxDepth \in Nat
  BY TextAssumption
<1>1. \A d \in 0..MaxDepth : ValueOf[d] \subseteq Value
  BY <1>0, ValueOfGrows DEF Value
<1>2. \A d \in 1..MaxDepth : ValueOf[d - 1] \subseteq ValueOf[d]
  BY <1>0, ValueOfGrows
<1>3. ASSUME NEW d \in 0..MaxDepth, NEW v \in ValueOf[d]
      PROVE  Elements[v] \in Seq(IF d = 0 THEN {} ELSE ValueOf[d - 1])
  <2>1. v.array \in Seq(ValueOf[d]) /\ Elements[v] = v.array
    BY <1>1, ValueArray DEF Elements
  <2>2. \A i \in DOMAIN v.array : v.array[i] \in (IF d = 0 THEN {} ELSE ValueOf[d - 1])
    BY ElementOfValue
  <2> QED
    BY <2>1, <2>2, SeqInto
<1> QED
  BY <1>1, <1>2, <1>3 DEF IsLevels, Value

LEMMA ValueInduct ==
  ASSUME NEW P, \A v \in Value : (\A i \in DOMAIN v.array : v.array[i] \in P) => v \in P
  PROVE  Value \subseteq P
<1>1. MaxDepth \in Nat
  BY TextAssumption
<1>2. \A v \in ValueOf[MaxDepth] : (\A i \in DOMAIN Elements[v] : Elements[v][i] \in P) => v \in P
  BY DEF Elements, Value
<1> QED
  BY <1>1, <1>2, ValueLevels, LevelInduct DEF Value

LEMMA ValueRecursion ==
  ASSUME NEW S, NEW step, IsStep(step, Value, S)
  PROVE  \E f : Recursive(f, step, Value, Elements, S)
<1>1. MaxDepth \in Nat
  BY TextAssumption
<1>2. IsLevels(MaxDepth, ValueOf, Elements) /\ IsStep(step, ValueOf[MaxDepth], S)
  BY ValueLevels DEF Value
<1>3. \E f : Recursive(f, step, ValueOf[MaxDepth], Elements, S)
  BY <1>1, <1>2, LevelRecursion
<1> QED
  BY <1>3 DEF Value

-----------------------------------------------------------------------------
(* Trees, by the depth of their children. *)
LEMMA TreeOfExists ==
  \A d \in 0..MaxDepth :
    TreeOf[d] = Nodes(IF d = 0 THEN {} ELSE TreeOf[d - 1])
<1> DEFINE Row(f, d) ==
      Nodes(IF d = 0 THEN {} ELSE f[d - 1])
           T == {n \in Nat : \E f : f = [d \in 0..n |-> Row(f, d)]}
<1>1. 0 \in T
  <2> DEFINE f == [d \in 0..0 |-> Nodes({})]
  <2>1. f = [d \in 0..0 |-> Row(f, d)]
    OBVIOUS
  <2> QED
    BY <2>1
<1>2. ASSUME NEW n \in Nat, n \in T PROVE n + 1 \in T
  <2>1. PICK f : f = [d \in 0..n |-> Row(f, d)]
    BY <1>2
  <2> DEFINE g == [d \in 0..(n + 1) |-> IF d <= n THEN f[d] ELSE Row(f, n + 1)]
  <2>2. ASSUME NEW d \in 0..(n + 1) PROVE g[d] = Row(g, d)
    <3>1. g[d] = Row(f, d)
      <4> HIDE DEF Row
      <4>1. CASE d <= n
        BY <2>1, <4>1
      <4>2. CASE d = n + 1
        BY <4>2
      <4> QED
        BY <4>1, <4>2
    <3>2. d > 0 => g[d - 1] = f[d - 1]
      OBVIOUS
    <3> HIDE DEF g
    <3> QED
      BY <3>1, <3>2
  <2>3. g = [d \in 0..(n + 1) |-> Row(g, d)]
    <3> HIDE DEF Row
    <3> QED
      BY <2>2
  <2> HIDE DEF g, Row
  <2> QED
    BY <2>3
<1>3. MaxDepth \in T
  <2> HIDE DEF T
  <2> QED
    BY <1>1, <1>2, Induct, TextAssumption
<1>4. PICK f : f = [d \in 0..MaxDepth |-> Row(f, d)]
  BY <1>3
<1>5. TreeOf = [d \in 0..MaxDepth |-> Row(TreeOf, d)]
  BY <1>4 DEF TreeOf
<1> HIDE DEF Row
<1>6. \A d \in 0..MaxDepth : TreeOf[d] = Row(TreeOf, d)
  BY <1>5
<1> QED
  BY <1>6 DEF Row

LEMMA TreeIs ==
  ASSUME NEW d \in 0..MaxDepth, NEW t \in TreeOf[d]
  PROVE  /\ t.name \in Words /\ t.attrs \in Seq(Attr)
         /\ t.kids \in Seq(IF d = 0 THEN {} ELSE TreeOf[d - 1])
         /\ t = [name |-> t.name, attrs |-> t.attrs, kids |-> t.kids]
<1>1. PICK S : S = IF d = 0 THEN {} ELSE TreeOf[d - 1]
  OBVIOUS
<1>2. t \in Nodes(S)
  BY <1>1, TreeOfExists
<1>3. /\ t.name \in Words /\ t.attrs \in Seq(Attr) /\ t.kids \in Seq(S)
      /\ t = [name |-> t.name, attrs |-> t.attrs, kids |-> t.kids]
  BY <1>2 DEF Nodes
<1> QED
  BY <1>1, <1>3

LEMMA TreeOfGrows ==
  ASSUME NEW d \in 0..MaxDepth, NEW e \in d..MaxDepth
  PROVE  TreeOf[d] \subseteq TreeOf[e]
<1> DEFINE T == {n \in Nat : n + 1 <= MaxDepth => TreeOf[n] \subseteq TreeOf[n + 1]}
           U == {n \in Nat : d + n <= MaxDepth => TreeOf[d] \subseteq TreeOf[d + n]}
<1>0. MaxDepth \in Nat
  BY TextAssumption
<1>1. ASSUME NEW S, NEW V, S \subseteq V
      PROVE  Nodes(S)
               \subseteq Nodes(V)
  <2>1. Seq(S) \subseteq Seq(V)
    BY <1>1, SeqMonotonic
  <2> QED
    BY <2>1 DEF Nodes
<1>2. 0 \in T
  <2>1. TreeOf[0] = Nodes({})
    BY <1>0, TreeOfExists
  <2>2. 1 <= MaxDepth => TreeOf[1] = Nodes(TreeOf[0])
    BY <1>0, TreeOfExists
  <2> QED
    BY <1>1, <2>1, <2>2
<1>3. ASSUME NEW n \in Nat, n \in T PROVE n + 1 \in T
  <2> SUFFICES ASSUME n + 2 <= MaxDepth PROVE TreeOf[n + 1] \subseteq TreeOf[n + 2]
    OBVIOUS
  <2>1. TreeOf[n + 1] = Nodes(TreeOf[n])
    BY <1>0, TreeOfExists
  <2>2. TreeOf[n + 2] = Nodes(TreeOf[n + 1])
    BY <1>0, TreeOfExists
  <2>3. TreeOf[n] \subseteq TreeOf[n + 1]
    BY <1>0, <1>3
  <2> QED
    BY <1>1, <2>1, <2>2, <2>3
<1>4. Nat \subseteq T
  <2> HIDE DEF T
  <2> QED
    BY <1>2, <1>3, Induct
<1>5. 0 \in U
  OBVIOUS
<1>6. ASSUME NEW n \in Nat, n \in U PROVE n + 1 \in U
  <2>1. d + n \in T
    BY <1>4
  <2> QED
    BY <1>0, <1>6, <2>1
<1>7. Nat \subseteq U
  <2> HIDE DEF U
  <2> QED
    BY <1>5, <1>6, Induct
<1>8. e - d \in U
  BY <1>0, <1>7
<1> QED
  BY <1>0, <1>8

Kids == [t \in Tree |-> t.kids]

LEMMA TreeLevels ==
  IsLevels(MaxDepth, TreeOf, Kids) /\ \A d \in 0..MaxDepth : TreeOf[d] \subseteq Tree
<1>0. MaxDepth \in Nat
  BY TextAssumption
<1>1. \A d \in 0..MaxDepth : TreeOf[d] \subseteq Tree
  BY <1>0, TreeOfGrows DEF Tree
<1>2. \A d \in 1..MaxDepth : TreeOf[d - 1] \subseteq TreeOf[d]
  BY <1>0, TreeOfGrows
<1>3. ASSUME NEW d \in 0..MaxDepth, NEW t \in TreeOf[d]
      PROVE  Kids[t] \in Seq(IF d = 0 THEN {} ELSE TreeOf[d - 1])
  BY <1>1, TreeIs DEF Kids
<1> QED
  BY <1>1, <1>2, <1>3 DEF IsLevels, Tree

LEMMA TreeFields ==
  ASSUME NEW t \in Tree
  PROVE  /\ t.name \in Words /\ t.attrs \in Seq(Attr) /\ t.kids \in Seq(Tree)
         /\ t = [name |-> t.name, attrs |-> t.attrs, kids |-> t.kids]
<1>0. MaxDepth \in Nat \ {0} /\ MaxDepth \in 0..MaxDepth /\ MaxDepth - 1 \in 0..MaxDepth
  BY TextAssumption
<1>1. t \in TreeOf[MaxDepth]
  BY DEF Tree
<1>2. t.kids \in Seq(TreeOf[MaxDepth - 1])
  BY <1>0, <1>1, TreeIs
<1>3. TreeOf[MaxDepth - 1] \subseteq Tree
  BY <1>0, TreeLevels
<1>4. t.kids \in Seq(Tree)
  BY <1>2, <1>3, SeqMonotonic
<1> QED
  BY <1>0, <1>1, <1>4, TreeIs

LEMMA TreeInduct ==
  ASSUME NEW P, \A t \in Tree : (\A i \in DOMAIN t.kids : t.kids[i] \in P) => t \in P
  PROVE  Tree \subseteq P
<1>1. MaxDepth \in Nat
  BY TextAssumption
<1>2. \A t \in TreeOf[MaxDepth] : (\A i \in DOMAIN Kids[t] : Kids[t][i] \in P) => t \in P
  BY DEF Kids, Tree
<1> QED
  BY <1>1, <1>2, TreeLevels, LevelInduct DEF Tree

LEMMA TreeRecursion ==
  ASSUME NEW S, NEW step, IsStep(step, Tree, S)
  PROVE  \E f : Recursive(f, step, Tree, Kids, S)
<1>1. MaxDepth \in Nat
  BY TextAssumption
<1>2. IsLevels(MaxDepth, TreeOf, Kids) /\ IsStep(step, TreeOf[MaxDepth], S)
  BY TreeLevels DEF Tree
<1>3. \E f : Recursive(f, step, TreeOf[MaxDepth], Kids, S)
  BY <1>1, <1>2, LevelRecursion
<1> QED
  BY <1>3 DEF Tree

-----------------------------------------------------------------------------
LEMMA ValueArrayType ==
  ASSUME NEW v \in Value
  PROVE  v.array \in Seq(Value)
BY ValueArray, TextAssumption DEF Value

LEMMA CompoundFields ==
  ASSUME NEW v \in Value, v \notin Scalars
  PROVE  /\ v.type \in {"TS_VECTOR", "TS_ARRAY"} /\ v.text = Null /\ v.vec \in Seq(Numbers)
         /\ v.vec_size = 0 /\ v.array \in Seq(Value) /\ Len(v.array) \in 2..MaxStored
         /\ v.type = "TS_VECTOR" <=> AllNumbers(v.array)
         /\ v.type = "TS_ARRAY" => v.vec = <<>>
<1>1. MaxDepth \in 0..MaxDepth
  BY TextAssumption
<1>2. \E d : v \in Compound(IF d = 0 THEN {} ELSE ValueOf[d - 1])
  BY <1>1, ValueOfExists DEF Value
<1>3. PICK S : v \in Compound(S)
  BY <1>2
<1> QED
  BY <1>3, ValueArrayType DEF Compound, Lists

LEMMA ValueFields ==
  ASSUME NEW v \in Value
  PROVE  /\ v.type \in {"TS_STRING", "TS_NUMBER", "TS_VECTOR", "TS_ARRAY"}
         /\ v.vec \in Seq(Numbers) /\ v.vec_size = 0 /\ v.array \in Seq(Value)
         /\ v.type = "TS_NUMBER" => v.text \in Numbers
         /\ v.type = "TS_STRING" => v.text \in Words \cup Strings \cup {Null}
         /\ v.type \in {"TS_VECTOR", "TS_ARRAY"} => v.text = Null
<1>1. v.array \in Seq(Value)
  BY ValueArrayType
<1>2. CASE v \in Scalars
  <2>1. /\ v.type \in {"TS_STRING", "TS_NUMBER"} /\ v.vec = <<>> /\ v.vec_size = 0
        /\ v.type = "TS_NUMBER" => v.text \in Numbers
        /\ v.type = "TS_STRING" => v.text \in Words \cup Strings \cup {Null}
    BY <1>2, ScalarFields
  <2>2. <<>> \in Seq(Numbers)
    BY EmptySeq
  <2> QED
    BY <1>1, <2>1, <2>2
<1>3. CASE v \notin Scalars
  BY <1>1, <1>3, CompoundFields
<1> QED
  BY <1>2, <1>3

LEMMA ScalarsAreValues ==
  /\ \A d \in 0..MaxDepth : Scalars \subseteq ValueOf[d]
  /\ Scalars \subseteq Value /\ Unset \in Scalars
  /\ \A x \in Numbers : ts_set_valuef(x) \in Scalars
  /\ \A s \in Words \cup Strings : ts_set_value_str(s) \in Scalars
<1>1. \A d \in 0..MaxDepth : Scalars \subseteq ValueOf[d]
  BY ValueOfExists
<1> QED
  BY <1>1, TextAssumption DEF Value, Scalars

-----------------------------------------------------------------------------
(* ts_copy_value exists, and a copy has the type and the depth of what was  *)
(* copied.                                                                  *)
CopyOf(f, v) ==
  [v EXCEPT !.vec = IF v.vec_size > 0 THEN @ ELSE <<>>, !.array = Each(f, @)]
SameShape(c, v) ==
  c.type = v.type /\ \A d \in 0..MaxDepth : v \in ValueOf[d] => c \in ValueOf[d]

LEMMA CopyOfIs ==
  ASSUME NEW f, NEW v \in Value, \A i \in DOMAIN v.array : SameShape(f[v.array[i]], v.array[i])
  PROVE  /\ SameShape(CopyOf(f, v), v) /\ CopyOf(f, v) \in Value
         /\ v.vec = <<>> /\ Each(f, v.array) = v.array => CopyOf(f, v) = v
         /\ CopyOf(f, v).vec = <<>> /\ CopyOf(f, v).array = Each(f, v.array)
<1> DEFINE c == CopyOf(f, v)
<1>0. v.array \in Seq(Value) /\ v.vec_size = 0
  BY ValueFields
<1>1. \E k : v \in Compound(k) \/ v \in Scalars
  BY ValueOfExists, TextAssumption DEF Value
<1>2. CASE v \in Scalars
  <2>1. v.array = <<>> /\ v.vec = <<>>
    BY <1>2, ScalarFields
  <2>2. Each(f, v.array) = <<>>
    BY <2>1 DEF Each
  <2>3. v = [type |-> v.type, text |-> v.text, vec |-> v.vec, vec_size |-> v.vec_size, array |-> v.array]
    BY <1>2 DEF Scalars, Unset, ts_set_valuef, ts_set_value_str
  <2>4. c = v
    BY <1>0, <2>1, <2>2, <2>3 DEF CopyOf
  <2> QED
    BY <2>1, <2>2, <2>4 DEF SameShape
<1>3. CASE v \notin Scalars
  <2>1. PICK k : v \in Compound(k)
    BY <1>1, <1>3
  <2>2. v = [type |-> v.type, text |-> Null, vec |-> v.vec, vec_size |-> 0, array |-> v.array]
          /\ v.vec \in Seq(Numbers) /\ v.type \in {"TS_VECTOR", "TS_ARRAY"}
          /\ (v.type = "TS_VECTOR" <=> AllNumbers(v.array))
    BY <2>1 DEF Compound
  <2> HIDE DEF CopyOf
  <2>3. c = [type |-> v.type, text |-> Null, vec |-> <<>>, vec_size |-> 0, array |-> Each(f, v.array)]
    <3>1. PICK ty, ve, ar : v = [type |-> ty, text |-> Null, vec |-> ve, vec_size |-> 0, array |-> ar]
      BY <2>2
    <3>2. PICK ca : ca = Each(f, v.array)
      OBVIOUS
    <3>3. CopyOf(f, v) = [v EXCEPT !.vec = <<>>, !.array = ca]
      BY <1>0, <3>2 DEF CopyOf
    <3>4. [v EXCEPT !.vec = <<>>, !.array = ca] = [type |-> ty, text |-> Null, vec |-> <<>>, vec_size |-> 0, array |-> ca]
      <4>1. PICK w : w = [v EXCEPT !.vec = <<>>]
        OBVIOUS
      <4>2. w = [type |-> ty, text |-> Null, vec |-> <<>>, vec_size |-> 0, array |-> ar]
        BY <3>1, <4>1
      <4>3. [w EXCEPT !.array = ca] = [type |-> ty, text |-> Null, vec |-> <<>>, vec_size |-> 0, array |-> ca]
        BY <4>2
      <4>4. [v EXCEPT !.vec = <<>>, !.array = ca] = [w EXCEPT !.array = ca]
        BY <4>1
      <4> QED
        BY <4>3, <4>4
    <3>5. v.type = ty
      BY <3>1
    <3> QED
      BY <3>2, <3>3, <3>4, <3>5
  <2>4. ASSUME NEW d \in 0..MaxDepth, v \in ValueOf[d] PROVE c \in ValueOf[d]
    <3>1. v \in Compound(IF d = 0 THEN {} ELSE ValueOf[d - 1])
      BY <1>3, <2>4, ValueOfExists
    <3>2. d > 0
      BY <3>1, ListsOfNothing
    <3>3. d - 1 \in 0..MaxDepth /\ v.array \in Seq(ValueOf[d - 1]) /\ Len(v.array) \in 2..MaxStored
      <4>1. v \in Compound(ValueOf[d - 1]) /\ d - 1 \in 0..MaxDepth
        BY <3>1, <3>2, TextAssumption
      <4>2. v.array \in Lists(ValueOf[d - 1])
        BY <4>1 DEF Compound
      <4> QED
        BY <4>1, <4>2 DEF Lists
    <3>4. \A i \in DOMAIN v.array : f[v.array[i]] \in ValueOf[d - 1]
      BY <3>3 DEF SameShape
    <3>5. /\ Each(f, v.array) \in Lists(ValueOf[d - 1]) /\ DOMAIN Each(f, v.array) = DOMAIN v.array
          /\ \A i \in DOMAIN v.array : Each(f, v.array)[i] = f[v.array[i]]
      <4>1. /\ Each(f, v.array) \in Seq(ValueOf[d - 1]) /\ Len(Each(f, v.array)) = Len(v.array)
            /\ DOMAIN Each(f, v.array) = DOMAIN v.array
            /\ \A i \in DOMAIN v.array : Each(f, v.array)[i] = f[v.array[i]]
        BY <3>3, <3>4, EachIs, EachAt
      <4> QED
        BY <3>3, <4>1 DEF Lists
    <3>6. AllNumbers(Each(f, v.array)) <=> AllNumbers(v.array)
      BY <3>5 DEF AllNumbers, SameShape
    <3>7. <<>> \in Seq(Numbers)
      BY EmptySeq
    <3>8. c \in Compound(ValueOf[d - 1])
      BY <2>2, <2>3, <3>5, <3>6, <3>7 DEF Compound
    <3> QED
      BY <3>2, <3>8, ValueOfExists
  <2>5. c \in Value
    BY <2>4, TextAssumption DEF Value
  <2> QED
    BY <2>2, <2>3, <2>4, <2>5 DEF SameShape
<1> QED
  BY <1>2, <1>3

LEMMA CopyExists ==
  \A v \in Value : ts_copy_value[v] = CopyOf(ts_copy_value, v)
<1> DEFINE step == [p \in Value \X Seq(Value) |->
      LET c == [p[1] EXCEPT !.vec = IF p[1].vec_size > 0 THEN @ ELSE <<>>, !.array = p[2]]
      IN  IF c \in Value THEN c ELSE Unset]
<1>1. IsStep(step, Value, Value)
  BY ScalarsAreValues DEF IsStep
<1>2. PICK f : Recursive(f, step, Value, Elements, Value)
  <2> HIDE DEF step
  <2> QED
    BY <1>1, ValueRecursion
<1> DEFINE P == {v \in Value : f[v] = CopyOf(f, v) /\ SameShape(f[v], v)}
<1>3. ASSUME NEW v \in Value, \A i \in DOMAIN v.array : v.array[i] \in P
      PROVE  v \in P
  <2>1. /\ CopyOf(f, v) \in Value /\ SameShape(CopyOf(f, v), v)
    BY <1>3, CopyOfIs
  <2>2. v.array \in Seq(Value)
    BY ValueArrayType
  <2>3. Each(f, v.array) \in Seq(Value)
    <3>1. \A i \in DOMAIN v.array : f[v.array[i]] \in Value
      <4>1. \A i \in DOMAIN v.array : v.array[i] \in Value
        BY <2>2
      <4>2. f \in [Value -> Value]
        BY <1>2 DEF Recursive
      <4> QED
        BY <4>1, <4>2
    <3> QED
      BY <2>2, <3>1, EachIs
  <2>4. f[v] = step[<<v, Each(f, v.array)>>]
    <3> HIDE DEF step
    <3> QED
      BY <1>2 DEF Recursive, Elements
  <2>5. f[v] = CopyOf(f, v)
    BY <2>1, <2>3, <2>4 DEF CopyOf
  <2> QED
    BY <2>1, <2>5
<1>4. Value \subseteq P
  <2> HIDE DEF P
  <2> QED
    BY <1>3, ValueInduct
<1>5. f = [v \in Value |-> CopyOf(f, v)]
  BY <1>2, <1>4 DEF Recursive
<1>6. ts_copy_value = [v \in Value |-> CopyOf(ts_copy_value, v)]
  BY <1>5 DEF ts_copy_value, CopyOf
<1> QED
  BY <1>6

LEMMA CopyIs ==
  ASSUME NEW v \in Value
  PROVE  /\ SameShape(ts_copy_value[v], v) /\ ts_copy_value[v] \in Value
         /\ ts_copy_value[v].vec = <<>> /\ ts_copy_value[v].array = Each(ts_copy_value, v.array)
         /\ v.vec = <<>> /\ Each(ts_copy_value, v.array) = v.array => ts_copy_value[v] = v
<1> DEFINE P == {w \in Value : SameShape(ts_copy_value[w], w)}
<1>1. ASSUME NEW w \in Value, \A i \in DOMAIN w.array : w.array[i] \in P
      PROVE  w \in P
  BY <1>1, CopyExists, CopyOfIs
<1>2. Value \subseteq P
  <2> HIDE DEF P
  <2> QED
    BY <1>1, ValueInduct
<1>3. \A i \in DOMAIN v.array : SameShape(ts_copy_value[v.array[i]], v.array[i])
  BY <1>2, ValueArrayType
<1> QED
  BY <1>3, CopyExists, CopyOfIs

LEMMA EachCopy ==
  ASSUME NEW d \in 0..MaxDepth, NEW s \in Seq(ValueOf[d])
  PROVE  /\ Each(ts_copy_value, s) \in Seq(ValueOf[d]) /\ Len(Each(ts_copy_value, s)) = Len(s)
         /\ DOMAIN Each(ts_copy_value, s) = DOMAIN s
         /\ \A i \in DOMAIN s : Each(ts_copy_value, s)[i] = ts_copy_value[s[i]]
         /\ AllNumbers(Each(ts_copy_value, s)) <=> AllNumbers(s)
<1>1. \A i \in DOMAIN s : s[i] \in ValueOf[d] /\ s[i] \in Value
  BY ValueLevels
<1>2. \A i \in DOMAIN s : ts_copy_value[s[i]] \in ValueOf[d] /\ ts_copy_value[s[i]].type = s[i].type
  BY <1>1, CopyIs DEF SameShape
<1>3. /\ Each(ts_copy_value, s) \in Seq(ValueOf[d]) /\ Len(Each(ts_copy_value, s)) = Len(s)
      /\ DOMAIN Each(ts_copy_value, s) = DOMAIN s
      /\ \A i \in DOMAIN s : Each(ts_copy_value, s)[i] = ts_copy_value[s[i]]
  <2>1. \A i \in DOMAIN s : ts_copy_value[s[i]] \in ValueOf[d]
    BY <1>2
  <2> QED
    BY <2>1, EachIs, EachAt
<1> QED
  BY <1>2, <1>3 DEF AllNumbers

(* What read_array makes of the values it has read. *)
LEMMA SetArrayIs ==
  ASSUME NEW d \in 0..MaxDepth, d + 1 \in 0..MaxDepth, NEW s \in Lists(ValueOf[d])
  PROVE  /\ ts_set_value_arr(s) \in ValueOf[d + 1] /\ ts_set_value_arr(s) \notin Scalars
         /\ ts_set_value_arr(s).array = Each(ts_copy_value, s)
         /\ ts_set_value_arr(s).text = Null
         /\ ts_set_value_arr(s).type = IF AllNumbers(s) THEN "TS_VECTOR" ELSE "TS_ARRAY"
         /\ ts_set_value_arr(s).vec # <<>> <=> AllNumbers(s)
<1> DEFINE copies == Each(ts_copy_value, s)
           v == ts_set_value_arr(s)
<1>1. s \in Seq(ValueOf[d]) /\ Len(s) \in 2..MaxStored /\ MaxStored \in Nat /\ Len(s) \in Nat
  BY TextAssumption DEF Lists
<1>2. /\ copies \in Lists(ValueOf[d]) /\ Len(copies) = Len(s) /\ DOMAIN copies = 1..Len(s)
      /\ AllNumbers(copies) <=> AllNumbers(s)
  <2>1. /\ copies \in Seq(ValueOf[d]) /\ Len(copies) = Len(s) /\ DOMAIN copies = DOMAIN s
        /\ AllNumbers(copies) <=> AllNumbers(s)
    BY <1>1, EachCopy
  <2> QED
    BY <1>1, <2>1 DEF Lists
<1>3. \A i \in DOMAIN copies : copies[i] \in Value
  BY <1>2, ValueLevels DEF Lists
<1> HIDE DEF copies
<1>4. CASE AllNumbers(s)
  <2> DEFINE vec == [i \in DOMAIN copies |-> copies[i].text]
  <2>1. vec \in Seq(Numbers) /\ Len(vec) = Len(s)
    <3>1. \A i \in 1..Len(s) : copies[i].text \in Numbers
      BY <1>2, <1>3, <1>4, ValueFields DEF AllNumbers
    <3>2. vec \in [1..Len(s) -> Numbers]
      BY <1>2, <3>1
    <3> HIDE DEF vec
    <3>3. vec \in Seq(Numbers)
      BY <1>1, <3>2, SeqDef
    <3> QED
      BY <1>1, <3>2, <3>3
  <2>2. v = [type |-> "TS_VECTOR", text |-> Null, vec |-> vec, vec_size |-> 0, array |-> copies]
    BY <1>4 DEF ts_set_value_arr, Unset, copies
  <2> HIDE DEF vec
  <2>3. vec # <<>>
    BY <1>1, <2>1
  <2>4. v \in Compound(ValueOf[d])
    BY <1>2, <1>4, <2>1, <2>2 DEF Compound
  <2>5. v \in ValueOf[d + 1]
    BY <2>4, ValueOfExists
  <2>6. v \notin Scalars
    BY <2>2, ScalarFields
  <2> HIDE DEF v
  <2> QED
    BY <1>4, <2>2, <2>3, <2>5, <2>6 DEF v, copies
<1>5. CASE ~AllNumbers(s)
  <2>2. v = [type |-> "TS_ARRAY", text |-> Null, vec |-> <<>>, vec_size |-> 0, array |-> copies]
    BY <1>5 DEF ts_set_value_arr, Unset, copies
  <2>3. <<>> \in Seq(Numbers)
    BY EmptySeq
  <2>4. v \in Compound(ValueOf[d])
    BY <1>2, <1>5, <2>2, <2>3 DEF Compound
  <2>5. v \in ValueOf[d + 1]
    BY <2>4, ValueOfExists
  <2>6. v \notin Scalars
    BY <2>2, ScalarFields
  <2> HIDE DEF v
  <2> QED
    BY <1>5, <2>2, <2>5, <2>6 DEF v, copies
<1> QED
  BY <1>4, <1>5

-----------------------------------------------------------------------------
(* The blocks of values, attributes and trees. *)
LEMMA ValueBlocksIs ==
  /\ ValueBlocks \in [Value -> Nat]
  /\ \A v \in Value :
       ValueBlocks[v] = One(v.text # Null) + One(v.vec # <<>>) + One(v.array # <<>>)
                          + Total(Each(ValueBlocks, v.array))
<1> DEFINE Row(f, v) == One(v.text # Null) + One(v.vec # <<>>) + One(v.array # <<>>)
                          + Total(Each(f, v.array))
           step == [p \in Value \X Seq(Nat) |->
                      One(p[1].text # Null) + One(p[1].vec # <<>>) + One(p[1].array # <<>>)
                        + Total(p[2])]
<1>1. IsStep(step, Value, Nat)
  BY TotalType DEF IsStep, One
<1>2. PICK f : Recursive(f, step, Value, Elements, Nat)
  <2> HIDE DEF step
  <2> QED
    BY <1>1, ValueRecursion
<1>3. ASSUME NEW v \in Value PROVE f[v] = Row(f, v)
  <2>1. f[v] = step[<<v, Each(f, v.array)>>]
    <3> HIDE DEF step
    <3> QED
      BY <1>2 DEF Recursive, Elements
  <2>2. v.array \in Seq(Value)
    BY ValueArrayType
  <2>3. \A i \in DOMAIN v.array : v.array[i] \in Value
    BY <2>2
  <2>4. \A i \in DOMAIN v.array : f[v.array[i]] \in Nat
    BY <1>2, <2>3 DEF Recursive
  <2>5. Each(f, v.array) \in Seq(Nat)
    BY <2>2, <2>4, EachIs
  <2> QED
    BY <2>1, <2>5
<1> HIDE DEF Row, step
<1>4. f = [v \in Value |-> Row(f, v)]
  BY <1>2, <1>3 DEF Recursive
<1>5. ValueBlocks = [v \in Value |-> Row(ValueBlocks, v)]
  BY <1>4 DEF ValueBlocks, Row
<1> DEFINE P == {v \in Value : ValueBlocks[v] \in Nat}
<1>6. ASSUME NEW v \in Value, \A i \in DOMAIN v.array : v.array[i] \in P PROVE v \in P
  <2>1. Each(ValueBlocks, v.array) \in Seq(Nat)
    BY <1>6, ValueArrayType, EachIs
  <2>2. Total(Each(ValueBlocks, v.array)) \in Nat
    BY <2>1, TotalType
  <2>3. ValueBlocks[v] = Row(ValueBlocks, v)
    BY <1>5
  <2> QED
    BY <2>2, <2>3 DEF Row, One
<1>7. Value \subseteq P
  <2> HIDE DEF P
  <2> QED
    BY <1>6, ValueInduct
<1>8. \A v \in Value : ValueBlocks[v] = Row(ValueBlocks, v) /\ ValueBlocks[v] \in Nat
  BY <1>5, <1>7
<1>9. ValueBlocks \in [Value -> Nat]
  BY <1>5, <1>8
<1> QED
  BY <1>8, <1>9 DEF Row

LEMMA AttrBlocksIs ==
  /\ AttrBlocks \in [Attr -> Nat]
  /\ \A a \in Attr : AttrBlocks[a] = 2 + ValueBlocks[a.val]
BY ValueBlocksIs DEF AttrBlocks, Attr

LEMMA EachBlocks ==
  /\ \A s \in Seq(Value) : Each(ValueBlocks, s) \in Seq(Nat) /\ Total(Each(ValueBlocks, s)) \in Nat
  /\ \A s \in Seq(Attr) : Each(AttrBlocks, s) \in Seq(Nat) /\ Total(Each(AttrBlocks, s)) \in Nat
<1>1. ASSUME NEW s \in Seq(Value)
      PROVE  Each(ValueBlocks, s) \in Seq(Nat) /\ Total(Each(ValueBlocks, s)) \in Nat
  <2>1. \A i \in DOMAIN s : ValueBlocks[s[i]] \in Nat
    BY ValueBlocksIs
  <2>2. Each(ValueBlocks, s) \in Seq(Nat)
    BY <2>1, EachIs
  <2> QED
    BY <2>2, TotalType
<1>2. ASSUME NEW s \in Seq(Attr)
      PROVE  Each(AttrBlocks, s) \in Seq(Nat) /\ Total(Each(AttrBlocks, s)) \in Nat
  <2>1. \A i \in DOMAIN s : AttrBlocks[s[i]] \in Nat
    BY AttrBlocksIs
  <2>2. Each(AttrBlocks, s) \in Seq(Nat)
    BY <2>1, EachIs
  <2> QED
    BY <2>2, TotalType
<1> QED
  BY <1>1, <1>2

LEMMA TreeBlocksIs ==
  /\ TreeBlocks \in [Tree -> Nat]
  /\ \A t \in Tree :
       TreeBlocks[t] = 2 + Total(Each(AttrBlocks, t.attrs)) + Total(Each(TreeBlocks, t.kids))
<1> DEFINE Row(f, t) == 2 + Total(Each(AttrBlocks, t.attrs)) + Total(Each(f, t.kids))
           step == [p \in Tree \X Seq(Nat) |-> 2 + Total(Each(AttrBlocks, p[1].attrs)) + Total(p[2])]
<1>0. \A t \in Tree : Total(Each(AttrBlocks, t.attrs)) \in Nat
  BY TreeFields, EachBlocks
<1>1. IsStep(step, Tree, Nat)
  BY <1>0, TotalType DEF IsStep
<1>2. PICK f : Recursive(f, step, Tree, Kids, Nat)
  <2> HIDE DEF step
  <2> QED
    BY <1>1, TreeRecursion
<1>3. ASSUME NEW t \in Tree PROVE f[t] = Row(f, t)
  <2>1. f[t] = step[<<t, Each(f, t.kids)>>]
    <3> HIDE DEF step
    <3> QED
      BY <1>2 DEF Recursive, Kids
  <2>2. t.kids \in Seq(Tree)
    BY TreeFields
  <2>3. \A i \in DOMAIN t.kids : t.kids[i] \in Tree
    BY <2>2
  <2>4. \A i \in DOMAIN t.kids : f[t.kids[i]] \in Nat
    BY <1>2, <2>3 DEF Recursive
  <2>5. Each(f, t.kids) \in Seq(Nat)
    BY <2>2, <2>4, EachIs
  <2> QED
    BY <2>1, <2>5
<1> HIDE DEF Row, step
<1>4. f = [t \in Tree |-> Row(f, t)]
  BY <1>2, <1>3 DEF Recursive
<1>5. TreeBlocks = [t \in Tree |-> Row(TreeBlocks, t)]
  BY <1>4 DEF TreeBlocks, Row
<1> DEFINE P == {t \in Tree : TreeBlocks[t] \in Nat}
<1>6. ASSUME NEW t \in Tree, \A i \in DOMAIN t.kids : t.kids[i] \in P PROVE t \in P
  <2>1. Each(TreeBlocks, t.kids) \in Seq(Nat)
    BY <1>6, TreeFields, EachIs
  <2>2. Total(Each(TreeBlocks, t.kids)) \in Nat
    BY <2>1, TotalType
  <2>3. TreeBlocks[t] = Row(TreeBlocks, t)
    BY <1>5
  <2> QED
    BY <1>0, <2>2, <2>3 DEF Row
<1>7. Tree \subseteq P
  <2> HIDE DEF P
  <2> QED
    BY <1>6, TreeInduct
<1>8. \A t \in Tree : TreeBlocks[t] = Row(TreeBlocks, t) /\ TreeBlocks[t] \in Nat
  BY <1>5, <1>7
<1>9. TreeBlocks \in [Tree -> Nat]
  BY <1>5, <1>8
<1> QED
  BY <1>8, <1>9 DEF Row

LEMMA EachTreeBlocks ==
  ASSUME NEW s \in Seq(Tree)
  PROVE  Each(TreeBlocks, s) \in Seq(Nat) /\ Total(Each(TreeBlocks, s)) \in Nat
<1>1. \A i \in DOMAIN s : TreeBlocks[s[i]] \in Nat
  BY TreeBlocksIs
<1>2. Each(TreeBlocks, s) \in Seq(Nat)
  BY <1>1, EachIs
<1> QED
  BY <1>2, TotalType

LEMMA EachAppend ==
  ASSUME NEW f, NEW D, NEW s \in Seq(D), NEW x \in D
  PROVE  Each(f, Append(s, x)) = Append(Each(f, s), f[x])
<1> DEFINE S == {f[s[i]] : i \in DOMAIN s} \cup {f[x]}
<1>1. Each(f, s) \in Seq(S)
  <2>1. \A i \in DOMAIN s : f[s[i]] \in S
    OBVIOUS
  <2> HIDE DEF S
  <2> QED
    BY <2>1, EachIs
<1>2. f[x] \in S
  OBVIOUS
<1>3. Append(s, x) \in Seq(D) /\ Len(Append(s, x)) = Len(s) + 1
        /\ \A i \in 1..(Len(s) + 1) : Append(s, x)[i] = IF i <= Len(s) THEN s[i] ELSE x
  OBVIOUS
<1>4. /\ Len(Each(f, Append(s, x))) = Len(s) + 1
      /\ \A i \in 1..(Len(s) + 1) : Each(f, Append(s, x))[i] = f[Append(s, x)[i]]
  <2>1. PICK t : t = Append(s, x)
    OBVIOUS
  <2>2. t \in Seq(D) /\ Len(t) = Len(s) + 1 /\ DOMAIN t = 1..(Len(s) + 1)
    BY <1>3, <2>1
  <2>3. Len(Each(f, t)) = Len(t) /\ \A i \in DOMAIN t : Each(f, t)[i] = f[t[i]]
    BY <2>2, EachAt
  <2> QED
    BY <2>1, <2>2, <2>3
<1>5. Len(Each(f, s)) = Len(s) /\ \A i \in 1..Len(s) : Each(f, s)[i] = f[s[i]]
  BY EachAt
<1> HIDE DEF S
<1>6. /\ Append(Each(f, s), f[x]) \in Seq(S) /\ Len(Append(Each(f, s), f[x])) = Len(s) + 1
      /\ \A i \in 1..(Len(s) + 1) :
           Append(Each(f, s), f[x])[i] = IF i <= Len(s) THEN f[s[i]] ELSE f[x]
  BY <1>1, <1>2, <1>5
<1>7. \A i \in 1..(Len(s) + 1) : Each(f, Append(s, x))[i] = Append(Each(f, s), f[x])[i]
  BY <1>3, <1>4, <1>6
<1>8. \A i \in DOMAIN Append(s, x) : f[Append(s, x)[i]] \in S
  BY <1>3, <1>2 DEF S
<1>9. Each(f, Append(s, x)) \in Seq(S)
  BY <1>3, <1>8, EachIs
<1> QED
  BY <1>4, <1>6, <1>7, <1>9, SeqEqual

LEMMA BlocksAppend ==
  /\ \A s \in Seq(Value), v \in Value :
       Total(Each(ValueBlocks, Append(s, v))) = Total(Each(ValueBlocks, s)) + ValueBlocks[v]
  /\ \A s \in Seq(Attr), a \in Attr :
       Total(Each(AttrBlocks, Append(s, a))) = Total(Each(AttrBlocks, s)) + AttrBlocks[a]
  /\ \A s \in Seq(Tree), t \in Tree :
       Total(Each(TreeBlocks, Append(s, t))) = Total(Each(TreeBlocks, s)) + TreeBlocks[t]
<1>1. ASSUME NEW s \in Seq(Value), NEW v \in Value
      PROVE  Total(Each(ValueBlocks, Append(s, v))) = Total(Each(ValueBlocks, s)) + ValueBlocks[v]
  <2>1. Each(ValueBlocks, s) \in Seq(Nat) /\ ValueBlocks[v] \in Nat
    BY EachBlocks, ValueBlocksIs
  <2>2. Each(ValueBlocks, Append(s, v)) = Append(Each(ValueBlocks, s), ValueBlocks[v])
    BY EachAppend
  <2> QED
    BY <2>1, <2>2, TotalAppend
<1>2. ASSUME NEW s \in Seq(Attr), NEW a \in Attr
      PROVE  Total(Each(AttrBlocks, Append(s, a))) = Total(Each(AttrBlocks, s)) + AttrBlocks[a]
  <2>1. Each(AttrBlocks, s) \in Seq(Nat) /\ AttrBlocks[a] \in Nat
    BY EachBlocks, AttrBlocksIs
  <2>2. Each(AttrBlocks, Append(s, a)) = Append(Each(AttrBlocks, s), AttrBlocks[a])
    BY EachAppend
  <2> QED
    BY <2>1, <2>2, TotalAppend
<1>3. ASSUME NEW s \in Seq(Tree), NEW t \in Tree
      PROVE  Total(Each(TreeBlocks, Append(s, t))) = Total(Each(TreeBlocks, s)) + TreeBlocks[t]
  <2>1. Each(TreeBlocks, s) \in Seq(Nat) /\ TreeBlocks[t] \in Nat
    BY EachTreeBlocks, TreeBlocksIs
  <2>2. Each(TreeBlocks, Append(s, t)) = Append(Each(TreeBlocks, s), TreeBlocks[t])
    BY EachAppend
  <2> QED
    BY <2>1, <2>2, TotalAppend
<1> QED
  BY <1>1, <1>2, <1>3

-----------------------------------------------------------------------------
(* FlattenSeq concatenates from the left, and also from the right. *)
Flattened(seqs) ==
  CHOOSE flatten : flatten = [i \in 1..Len(seqs) |->
    IF i = 1 THEN seqs[i] ELSE flatten[i - 1] \o seqs[i]]

LEMMA FlattenedExists ==
  ASSUME NEW seqs, Len(seqs) \in Nat
  PROVE  \A i \in 1..Len(seqs) :
           Flattened(seqs)[i] = IF i = 1 THEN seqs[i] ELSE Flattened(seqs)[i - 1] \o seqs[i]
<1> DEFINE Row(f, i) == IF i = 1 THEN seqs[i] ELSE f[i - 1] \o seqs[i]
           T == {n \in Nat : \E f : f = [i \in 1..n |-> Row(f, i)]}
<1>1. 0 \in T
  <2> DEFINE f == [i \in 1..0 |-> 0]
  <2> HIDE DEF Row
  <2>1. f = [i \in 1..0 |-> Row(f, i)]
    OBVIOUS
  <2> QED
    BY <2>1
<1>2. ASSUME NEW n \in Nat, n \in T PROVE n + 1 \in T
  <2>1. PICK f : f = [i \in 1..n |-> Row(f, i)]
    BY <1>2
  <2> DEFINE g == [i \in 1..(n + 1) |-> IF i <= n THEN f[i] ELSE Row(f, n + 1)]
  <2>2. ASSUME NEW i \in 1..(n + 1) PROVE g[i] = Row(g, i)
    <3>1. g[i] = Row(f, i)
      <4> HIDE DEF Row
      <4>1. CASE i <= n
        BY <2>1, <4>1
      <4>2. CASE i = n + 1
        BY <4>2
      <4> QED
        BY <4>1, <4>2
    <3>2. i > 1 => g[i - 1] = f[i - 1]
      OBVIOUS
    <3> HIDE DEF g
    <3> QED
      BY <3>1, <3>2
  <2>3. g = [i \in 1..(n + 1) |-> Row(g, i)]
    <3> HIDE DEF Row
    <3> QED
      BY <2>2
  <2> HIDE DEF g, Row
  <2> QED
    BY <2>3
<1>3. Len(seqs) \in T
  <2> HIDE DEF T
  <2> QED
    BY <1>1, <1>2, Induct
<1>4. PICK f : f = [i \in 1..Len(seqs) |-> Row(f, i)]
  BY <1>3
<1>5. Flattened(seqs) = [i \in 1..Len(seqs) |-> Row(Flattened(seqs), i)]
  BY <1>4 DEF Flattened
<1> HIDE DEF Row
<1>6. \A i \in 1..Len(seqs) : Flattened(seqs)[i] = Row(Flattened(seqs), i)
  BY <1>5
<1> QED
  BY <1>6 DEF Row

(* flat[i] concatenates the first i sequences. *)
IsFlat(flat, seqs, S) ==
  /\ flat \in [0..Len(seqs) -> Seq(S)] /\ flat[0] = <<>>
  /\ \A i \in 1..Len(seqs) : flat[i] = flat[i - 1] \o seqs[i]

LEMMA FlattenIs ==
  ASSUME NEW S, NEW seqs \in Seq(Seq(S))
  PROVE  \E flat : IsFlat(flat, seqs, S) /\ FlattenSeq(seqs) = flat[Len(seqs)]
<1> DEFINE flat == [i \in 0..Len(seqs) |-> IF i = 0 THEN <<>> ELSE Flattened(seqs)[i]]
           T == {n \in Nat : n <= Len(seqs) => flat[n] \in Seq(S)}
<1>0. Len(seqs) \in Nat /\ \A i \in 1..Len(seqs) : seqs[i] \in Seq(S)
  OBVIOUS
<1>1. flat[0] = <<>>
  BY <1>0
<1>2. ASSUME NEW i \in 1..Len(seqs) PROVE flat[i] = flat[i - 1] \o seqs[i]
  <2>1. Flattened(seqs)[i] = IF i = 1 THEN seqs[i] ELSE Flattened(seqs)[i - 1] \o seqs[i]
    BY <1>0, FlattenedExists
  <2>2. flat[i] = Flattened(seqs)[i]
    BY <1>0
  <2>3. CASE i = 1
    <3>1. flat[i - 1] = <<>>
      BY <1>1, <2>3
    <3>2. <<>> \o seqs[i] = seqs[i]
      BY <1>0, ConcatEmptySeq
    <3> HIDE DEF flat
    <3> QED
      BY <2>1, <2>2, <2>3, <3>1, <3>2
  <2>4. CASE i # 1
    <3>1. flat[i - 1] = Flattened(seqs)[i - 1]
      BY <1>0, <2>4
    <3> HIDE DEF flat
    <3> QED
      BY <2>1, <2>2, <2>4, <3>1
  <2> QED
    BY <2>3, <2>4
<1>3. FlattenSeq(seqs) = flat[Len(seqs)]
  <2>1. CASE Len(seqs) = 0
    <3>1. seqs = <<>>
      BY <2>1
    <3> HIDE DEF flat
    <3> QED
      BY <1>1, <2>1, <3>1 DEF FlattenSeq
  <2>2. CASE Len(seqs) # 0
    <3>1. FlattenSeq(seqs) = Flattened(seqs)[Len(seqs)]
      BY <2>2 DEF FlattenSeq, Flattened
    <3>2. flat[Len(seqs)] = Flattened(seqs)[Len(seqs)]
      BY <1>0, <2>2
    <3> HIDE DEF flat
    <3> QED
      BY <3>1, <3>2
  <2> QED
    BY <2>1, <2>2
<1> HIDE DEF flat
<1>4. Nat \subseteq T
  <2>1. 0 \in T
    BY <1>1, EmptySeq
  <2>2. ASSUME NEW n \in Nat, n \in T PROVE n + 1 \in T
    <3> SUFFICES ASSUME n + 1 <= Len(seqs) PROVE flat[n + 1] \in Seq(S)
      OBVIOUS
    <3>1. n + 1 \in 1..Len(seqs) /\ (n + 1) - 1 = n
      BY <1>0
    <3>2. flat[n + 1] = flat[n] \o seqs[n + 1]
      BY <1>2, <3>1
    <3>3. seqs[n + 1] \in Seq(S) /\ flat[n] \in Seq(S)
      BY <1>0, <2>2, <3>1
    <3> QED
      BY <3>2, <3>3, ConcatProperties
  <2> HIDE DEF T
  <2> QED
    BY <2>1, <2>2, Induct
<1>5. flat \in [0..Len(seqs) -> Seq(S)]
  <2>1. \A n \in 0..Len(seqs) : flat[n] \in Seq(S)
    BY <1>0, <1>4
  <2> QED
    BY <2>1 DEF flat
<1> QED
  BY <1>1, <1>2, <1>3, <1>5 DEF IsFlat

LEMMA FlattenType ==
  ASSUME NEW S, NEW seqs \in Seq(Seq(S))
  PROVE  FlattenSeq(seqs) \in Seq(S)
<1>1. PICK flat : IsFlat(flat, seqs, S) /\ FlattenSeq(seqs) = flat[Len(seqs)]
  BY FlattenIs
<1>2. Len(seqs) \in 0..Len(seqs)
  OBVIOUS
<1> QED
  BY <1>1, <1>2 DEF IsFlat

LEMMA FlattenEmpty ==
  FlattenSeq(<<>>) = <<>>
BY DEF FlattenSeq

LEMMA Assoc ==
  ASSUME NEW S, NEW a \in Seq(S), NEW b \in Seq(S), NEW c \in Seq(S)
  PROVE  (a \o b) \o c = a \o (b \o c)
BY ConcatAssociative

(* Without the built-in meaning of \o. *)
Cat(a, b) == a \o b
Texts == Seq(Tokens)

LEMMA CatAssoc ==
  ASSUME NEW S
  PROVE  \A a \in Seq(S), b \in Seq(S), c \in Seq(S) : Cat(Cat(a, b), c) = Cat(a, Cat(b, c))
<1>1. ASSUME NEW a \in Seq(S), NEW b \in Seq(S), NEW c \in Seq(S)
      PROVE  Cat(Cat(a, b), c) = Cat(a, Cat(b, c))
  <2>1. (a \o b) \o c = a \o (b \o c)
    BY Assoc
  <2> QED
    BY <2>1 DEF Cat
<1> QED
  BY <1>1, Zenon

LEMMA CatIs ==
  /\ \A a, b \in Texts : Cat(a, b) \in Texts
  /\ \A a, b, c \in Texts : Cat(Cat(a, b), c) = Cat(a, Cat(b, c))
<1>1. ASSUME NEW a \in Seq(Tokens), NEW b \in Seq(Tokens) PROVE Cat(a, b) \in Seq(Tokens)
  BY DEF Cat
<1>2. \A a \in Seq(Tokens), b \in Seq(Tokens), c \in Seq(Tokens) :
        Cat(Cat(a, b), c) = Cat(a, Cat(b, c))
  BY CatAssoc
<1> QED
  BY <1>1, <1>2, Zenon DEF Texts

LEMMA CatFive ==
  ASSUME NEW a \in Texts, NEW b \in Texts, NEW c \in Texts, NEW d \in Texts, NEW e \in Texts
  PROVE  Cat(Cat(Cat(Cat(a, b), c), d), e) = Cat(a, Cat(b, Cat(c, Cat(d, e))))
<1>1. /\ Cat(a, b) \in Texts /\ Cat(Cat(a, b), c) \in Texts
      /\ Cat(d, e) \in Texts /\ Cat(c, Cat(d, e)) \in Texts
  BY CatIs
<1> QED
  BY <1>1, CatIs

LEMMA FlattenHead ==
  ASSUME NEW S, NEW seqs \in Seq(Seq(S)), seqs # <<>>
  PROVE  FlattenSeq(seqs) = seqs[1] \o FlattenSeq(Tail(seqs))
<1>10. PICK rest : rest = Tail(seqs)
  OBVIOUS
<1>11. PICK m : m = Len(rest)
  OBVIOUS
<1>0. /\ m \in Nat /\ Len(seqs) = m + 1 /\ rest \in Seq(Seq(S)) /\ Len(rest) = m
      /\ \A i \in 1..m : rest[i] = seqs[i + 1]
      /\ \A i \in 1..(m + 1) : seqs[i] \in Seq(S)
  <2>1. /\ Tail(seqs) \in Seq(Seq(S)) /\ Len(Tail(seqs)) = Len(seqs) - 1
        /\ \A i \in 1..Len(Tail(seqs)) : Tail(seqs)[i] = seqs[i + 1]
    BY HeadTailProperties
  <2>2. /\ Len(rest) \in Nat /\ Len(seqs) \in Nat
        /\ \A i \in 1..Len(seqs) : seqs[i] \in Seq(S)
    BY <1>10, <2>1, LenProperties
  <2> QED
    BY <1>10, <1>11, <2>1, <2>2
<1>1. PICK f : IsFlat(f, seqs, S) /\ FlattenSeq(seqs) = f[m + 1]
  BY <1>0, FlattenIs
<1>2. PICK g : IsFlat(g, rest, S) /\ FlattenSeq(rest) = g[m]
  BY <1>0, FlattenIs
<1> DEFINE Same(n) == f[n + 1] = seqs[1] \o g[n]
           T == {n \in Nat : n <= m => Same(n)}
<1>3. 0 \in T
  <2>1. f[1] = f[0] \o seqs[1] /\ f[0] = <<>> /\ g[0] = <<>>
    <3>1. 1 \in 1..(m + 1) /\ 1 - 1 = 0
      BY <1>0
    <3> QED
      BY <1>0, <1>1, <1>2, <3>1 DEF IsFlat
  <2>2. <<>> \o seqs[1] = seqs[1] /\ seqs[1] \o <<>> = seqs[1]
    BY <1>0, ConcatEmptySeq
  <2>3. Same(0)
    BY <2>1, <2>2
  <2> HIDE DEF Same
  <2> QED
    BY <2>3
<1>4. ASSUME NEW n \in Nat, n \in T PROVE n + 1 \in T
  <2> SUFFICES ASSUME n + 1 <= m PROVE Same(n + 1)
    <3> HIDE DEF Same
    <3> QED
      OBVIOUS
  <2>1. f[n + 1] = seqs[1] \o g[n]
    <3>1. n <= m
      BY <1>0
    <3> HIDE DEF Same
    <3>2. Same(n)
      BY <1>4, <3>1
    <3> QED
      BY <3>2 DEF Same
  <2>2. n + 1 + 1 \in 1..(m + 1) /\ (n + 1 + 1) - 1 = n + 1 /\ n + 1 \in 1..m
          /\ (n + 1) - 1 = n /\ n \in 0..m
    BY <1>0
  <2>3. f[n + 1 + 1] = f[n + 1] \o seqs[n + 1 + 1]
    BY <1>0, <1>1, <2>2 DEF IsFlat
  <2>4. g[n + 1] = g[n] \o rest[n + 1] /\ g[n] \in Seq(S)
    BY <1>0, <1>2, <2>2 DEF IsFlat
  <2>5. rest[n + 1] = seqs[n + 1 + 1] /\ rest[n + 1] \in Seq(S) /\ seqs[1] \in Seq(S)
    BY <1>0, <2>2
  <2> QED
    <3>1. (seqs[1] \o g[n]) \o rest[n + 1] = seqs[1] \o (g[n] \o rest[n + 1])
      <4>1. PICK a, b, c : a = seqs[1] /\ b = g[n] /\ c = rest[n + 1]
        OBVIOUS
      <4>2. a \in Seq(S) /\ b \in Seq(S) /\ c \in Seq(S)
        BY <2>4, <2>5, <4>1
      <4>3. Cat(Cat(a, b), c) = Cat(a, Cat(b, c))
        BY <4>2, CatAssoc
      <4>4. (a \o b) \o c = a \o (b \o c)
        BY <4>3 DEF Cat
      <4> QED
        BY <4>1, <4>4
    <3>2. f[n + 1 + 1] = (seqs[1] \o g[n]) \o rest[n + 1]
      BY <2>1, <2>3, <2>5
    <3> QED
      BY <2>4, <3>1, <3>2
<1>5. Nat \subseteq T
  <2> HIDE DEF T
  <2> QED
    BY <1>3, <1>4, Induct
<1>6. f[m + 1] = seqs[1] \o g[m]
  <2> HIDE DEF Same
  <2>1. Same(m)
    BY <1>0, <1>5
  <2> QED
    BY <2>1 DEF Same
<1> QED
  BY <1>0, <1>1, <1>2, <1>6, <1>10

(* What is left of a concatenation after k of the sequences. *)
After(seqs, k) == FlattenSeq(SubSeq(seqs, k + 1, Len(seqs)))

LEMMA AfterIs ==
  ASSUME NEW S, NEW seqs \in Seq(Seq(S)), NEW k \in 0..Len(seqs)
  PROVE  /\ After(seqs, k) \in Seq(S)
         /\ k = 0 => After(seqs, k) = FlattenSeq(seqs)
         /\ k = Len(seqs) => After(seqs, k) = <<>>
         /\ k < Len(seqs) => After(seqs, k) = seqs[k + 1] \o After(seqs, k + 1)
<1>0. Len(seqs) \in Nat /\ \A i \in (k + 1)..Len(seqs) : seqs[i] \in Seq(S)
  OBVIOUS
<1>1. SubSeq(seqs, k + 1, Len(seqs)) \in Seq(Seq(S))
  BY <1>0, SubSeqProperties
<1>2. After(seqs, k) \in Seq(S)
  BY <1>1, FlattenType DEF After
<1>3. k = 0 => SubSeq(seqs, k + 1, Len(seqs)) = seqs
  BY SubSeqFull
<1>4. k = Len(seqs) => SubSeq(seqs, k + 1, Len(seqs)) = <<>>
  BY <1>0, SubSeqEmpty
<1>5. ASSUME k < Len(seqs) PROVE After(seqs, k) = seqs[k + 1] \o After(seqs, k + 1)
  <2> DEFINE part == SubSeq(seqs, k + 1, Len(seqs))
  <2>1. Len(part) = Len(seqs) - k /\ part[1] = seqs[k + 1]
    BY <1>0, <1>5
  <2>2. Tail(part) = SubSeq(seqs, k + 1 + 1, Len(seqs))
    BY <1>0, <1>5, HeadTailOfSubSeq
  <2> HIDE DEF part
  <2>3. part \in Seq(Seq(S)) /\ part # <<>>
    <3>1. Len(<<>>) = 0
      OBVIOUS
    <3>2. part \in Seq(Seq(S))
      BY <1>1 DEF part
    <3>3. Len(part) # 0
      BY <1>0, <1>5, <2>1
    <3> QED
      BY <3>1, <3>2, <3>3
  <2>4. FlattenSeq(part) = part[1] \o FlattenSeq(Tail(part))
    BY <2>3, FlattenHead
  <2> QED
    BY <2>1, <2>2, <2>4 DEF After, part
<1> QED
  BY <1>2, <1>3, <1>4, <1>5, FlattenEmpty DEF After

-----------------------------------------------------------------------------
(* What ts_text_save prints. *)
Commas(items) == [i \in DOMAIN items |-> (IF i > 1 THEN <<Sym(",")>> ELSE <<>>) \o items[i]]

LEMMA Symbols ==
  /\ \A c \in {"=", "{", "}", "[", "]", ",", ";"} : Sym(c) \in Tokens /\ <<Sym(c)>> \in Seq(Tokens)
  /\ \A w \in Words : Id(w) \in Tokens
  /\ \A s \in Words \cup Strings : Str(s) \in Tokens /\ <<Str(s)>> \in Seq(Tokens)
  /\ \A w \in Words : <<Id(w), Sym("=")>> \in Seq(Tokens) /\ <<Id(w), Sym("{")>> \in Seq(Tokens)
<1>1. \A c \in {"=", "{", "}", "[", "]", ",", ";"} : Sym(c) \in Tokens
  BY DEF Tokens
<1>2. \A w \in Words : Id(w) \in Tokens
  BY DEF Tokens
<1>3. \A s \in Words \cup Strings : Str(s) \in Tokens
  BY DEF Tokens
<1>4. \A t \in Tokens : <<t>> \in Seq(Tokens)
  OBVIOUS
<1>5. \A t, u \in Tokens : <<t, u>> \in Seq(Tokens)
  OBVIOUS
<1>6. \A w \in Words : <<Id(w), Sym("=")>> \in Seq(Tokens) /\ <<Id(w), Sym("{")>> \in Seq(Tokens)
  BY <1>1, <1>2, <1>5
<1> HIDE DEF Tokens
<1> QED
  BY <1>1, <1>2, <1>3, <1>4, <1>6

LEMMA CommasIs ==
  ASSUME NEW items \in Seq(Seq(Tokens))
  PROVE  /\ Commas(items) \in Seq(Seq(Tokens)) /\ Len(Commas(items)) = Len(items)
         /\ \A i \in 1..Len(items) :
              Commas(items)[i] = (IF i > 1 THEN <<Sym(",")>> ELSE <<>>) \o items[i]
<1>1. Len(items) \in Nat /\ DOMAIN items = 1..Len(items)
        /\ \A i \in 1..Len(items) : items[i] \in Seq(Tokens)
  OBVIOUS
<1>2. <<Sym(",")>> \in Seq(Tokens) /\ <<>> \in Seq(Tokens)
  BY Symbols, EmptySeq
<1>3. \A i \in 1..Len(items) : (IF i > 1 THEN <<Sym(",")>> ELSE <<>>) \o items[i] \in Seq(Tokens)
  <2>1. \A s, t \in Seq(Tokens) : s \o t \in Seq(Tokens)
    BY ConcatProperties
  <2> QED
    BY <1>1, <1>2, <2>1
<1>4. Commas(items) \in [1..Len(items) -> Seq(Tokens)]
  BY <1>1, <1>3 DEF Commas
<1>5. Commas(items) \in Seq(Seq(Tokens)) /\ Len(Commas(items)) = Len(items)
  BY <1>1, <1>4, FunctionIsSeq
<1> QED
  BY <1>1, <1>5 DEF Commas

LEMMA Concat3 ==
  ASSUME NEW S, NEW a \in Seq(S), NEW b \in Seq(S), NEW c \in Seq(S)
  PROVE  a \o b \o c \in Seq(S)
BY ConcatProperties

LEMMA ListedIs ==
  ASSUME NEW items \in Seq(Seq(Tokens))
  PROVE  /\ Listed(items) = <<Sym("[")>> \o FlattenSeq(Commas(items)) \o <<Sym("]")>>
         /\ Listed(items) \in Seq(Tokens)
<1>1. Listed(items) = <<Sym("[")>> \o FlattenSeq(Commas(items)) \o <<Sym("]")>>
  BY DEF Listed, Commas
<1>2. FlattenSeq(Commas(items)) \in Seq(Tokens)
  BY CommasIs, FlattenType
<1>3. <<Sym("[")>> \in Seq(Tokens) /\ <<Sym("]")>> \in Seq(Tokens)
  BY Symbols
<1>4. <<Sym("[")>> \o FlattenSeq(Commas(items)) \o <<Sym("]")>> \in Seq(Tokens)
  BY <1>2, <1>3, Concat3
<1> QED
  BY <1>1, <1>4

Quoted(text) == <<Str(IF text = Null THEN "(null)" ELSE text)>>
PrintOf(v, elements) ==
  CASE v.type = "TS_NUMBER" -> Printed[v.text]
    [] v.type = "TS_VECTOR" -> Listed([i \in 1..v.vec_size |-> Printed[v.vec[i]]])
    [] v.type = "TS_ARRAY"  -> Listed(elements)
    [] v.type = "TS_STRING" -> Quoted(v.text)

LEMMA PrintOfIs ==
  ASSUME NEW v \in Value, NEW elements \in Seq(Seq(Tokens))
  PROVE  /\ PrintOf(v, elements) \in Seq(Tokens)
         /\ v.type = "TS_NUMBER" => PrintOf(v, elements) = Printed[v.text]
         /\ v.type = "TS_VECTOR" => PrintOf(v, elements) = Listed(<<>>)
         /\ v.type = "TS_ARRAY" => PrintOf(v, elements) = Listed(elements)
         /\ v.type = "TS_STRING" => PrintOf(v, elements) = Quoted(v.text)
<1>1. v.type \in {"TS_STRING", "TS_NUMBER", "TS_VECTOR", "TS_ARRAY"}
  BY ValueFields
<1>2. CASE v.type = "TS_NUMBER"
  <2>1. PrintOf(v, elements) = Printed[v.text]
    BY <1>2 DEF PrintOf
  <2> QED
    BY <1>2, <2>1, ValueFields, TextAssumption
<1>3. CASE v.type = "TS_VECTOR"
  <2>1. v.vec_size = 0
    BY ValueFields
  <2>2. [i \in 1..0 |-> Printed[v.vec[i]]] = <<>>
    OBVIOUS
  <2>3. PrintOf(v, elements) = Listed([i \in 1..0 |-> Printed[v.vec[i]]])
    BY <1>3, <2>1 DEF PrintOf
  <2>4. PrintOf(v, elements) = Listed(<<>>)
    BY <2>2, <2>3
  <2>5. Listed(<<>>) \in Seq(Tokens)
    BY EmptySeq, ListedIs
  <2> QED
    BY <1>3, <2>4, <2>5
<1>4. CASE v.type = "TS_ARRAY"
  <2>1. PrintOf(v, elements) = Listed(elements)
    BY <1>4 DEF PrintOf
  <2> QED
    BY <1>4, <2>1, ListedIs
<1>5. CASE v.type = "TS_STRING"
  <2>1. PrintOf(v, elements) = Quoted(v.text)
    BY <1>5 DEF PrintOf
  <2>2. Quoted(v.text) \in Seq(Tokens)
    BY <1>5, ValueFields, Symbols, TextAssumption DEF Quoted
  <2> QED
    BY <1>5, <2>1, <2>2
<1> QED
  BY <1>1, <1>2, <1>3, <1>4, <1>5

LEMMA PrintExists ==
  /\ print_value \in [Value -> Seq(Tokens)]
  /\ \A v \in Value : print_value[v] = PrintOf(v, Each(print_value, v.array))
<1> DEFINE step == [p \in Value \X Seq(Seq(Tokens)) |-> PrintOf(p[1], p[2])]
<1>1. IsStep(step, Value, Seq(Tokens))
  BY PrintOfIs DEF IsStep
<1>2. PICK f : Recursive(f, step, Value, Elements, Seq(Tokens))
  <2> HIDE DEF step
  <2> QED
    BY <1>1, ValueRecursion
<1>3. ASSUME NEW v \in Value PROVE f[v] = PrintOf(v, Each(f, v.array))
  <2>1. f[v] = step[<<v, Each(f, v.array)>>]
    <3> HIDE DEF step
    <3> QED
      BY <1>2 DEF Recursive, Elements
  <2>2. v.array \in Seq(Value)
    BY ValueArrayType
  <2>3. \A i \in DOMAIN v.array : v.array[i] \in Value
    BY <2>2
  <2>4. \A i \in DOMAIN v.array : f[v.array[i]] \in Seq(Tokens)
    BY <1>2, <2>3 DEF Recursive
  <2>5. Each(f, v.array) \in Seq(Seq(Tokens))
    BY <2>2, <2>4, EachIs
  <2> QED
    BY <2>1, <2>5
<1> HIDE DEF step
<1>4. f = [v \in Value |-> PrintOf(v, Each(f, v.array))]
  BY <1>2, <1>3 DEF Recursive
<1>5. print_value = [v \in Value |-> PrintOf(v, Each(print_value, v.array))]
  BY <1>4 DEF print_value, PrintOf, Quoted
<1> DEFINE P == {v \in Value : print_value[v] \in Seq(Tokens)}
<1>6. ASSUME NEW v \in Value, \A i \in DOMAIN v.array : v.array[i] \in P PROVE v \in P
  <2>1. Each(print_value, v.array) \in Seq(Seq(Tokens))
    BY <1>6, ValueArrayType, EachIs
  <2>2. print_value[v] = PrintOf(v, Each(print_value, v.array))
    BY <1>5
  <2> QED
    BY <2>1, <2>2, PrintOfIs
<1>7. Value \subseteq P
  <2> HIDE DEF P
  <2> QED
    BY <1>6, ValueInduct
<1>8. \A v \in Value : print_value[v] = PrintOf(v, Each(print_value, v.array))
                         /\ print_value[v] \in Seq(Tokens)
  BY <1>5, <1>7
<1>9. print_value \in [Value -> Seq(Tokens)]
  BY <1>5, <1>8
<1> QED
  BY <1>8, <1>9

LEMMA EachPrinted ==
  ASSUME NEW s \in Seq(Value)
  PROVE  /\ Each(print_value, s) \in Seq(Seq(Tokens)) /\ Len(Each(print_value, s)) = Len(s)
         /\ DOMAIN Each(print_value, s) = DOMAIN s
         /\ \A i \in DOMAIN s : Each(print_value, s)[i] = print_value[s[i]]
<1>1. \A i \in DOMAIN s : print_value[s[i]] \in Seq(Tokens)
  BY PrintExists
<1>2. Each(print_value, s) \in Seq(Seq(Tokens))
  BY <1>1, EachIs
<1> QED
  BY <1>2, EachAt

LEMMA PrintIs ==
  ASSUME NEW v \in Value
  PROVE  /\ print_value[v] \in Seq(Tokens)
         /\ v.type = "TS_NUMBER" => print_value[v] = Printed[v.text]
         /\ v.type = "TS_VECTOR" => print_value[v] = Listed(<<>>)
         /\ v.type = "TS_ARRAY" => print_value[v] = Listed(Each(print_value, v.array))
         /\ v.type = "TS_STRING" => print_value[v] = Quoted(v.text)
<1>1. Each(print_value, v.array) \in Seq(Seq(Tokens))
  BY EachPrinted, ValueArrayType
<1> QED
  BY <1>1, PrintExists, PrintOfIs

LEMMA PrintAttrIs ==
  /\ print_attr \in [Attr -> Seq(Tokens)]
  /\ \A a \in Attr : print_attr[a] = <<Id(a.name), Sym("=")>> \o print_value[a.val]
<1>1. ASSUME NEW a \in Attr PROVE <<Id(a.name), Sym("=")>> \o print_value[a.val] \in Seq(Tokens)
  <2>1. a.name \in Words /\ a.val \in Value
    BY DEF Attr
  <2>2. <<Id(a.name), Sym("=")>> \in Seq(Tokens) /\ print_value[a.val] \in Seq(Tokens)
    BY <2>1, Symbols, PrintIs
  <2> QED
    BY <2>2, ConcatProperties
<1> QED
  BY <1>1 DEF print_attr

LEMMA EachAttrPrinted ==
  ASSUME NEW s \in Seq(Attr)
  PROVE  /\ Each(print_attr, s) \in Seq(Seq(Tokens)) /\ Len(Each(print_attr, s)) = Len(s)
         /\ DOMAIN Each(print_attr, s) = DOMAIN s
         /\ \A i \in DOMAIN s : Each(print_attr, s)[i] = print_attr[s[i]]
<1>1. \A i \in DOMAIN s : print_attr[s[i]] \in Seq(Tokens)
  BY PrintAttrIs
<1>2. Each(print_attr, s) \in Seq(Seq(Tokens))
  BY <1>1, EachIs
<1> QED
  BY <1>2, EachAt

SaveOf(t, kids) ==
  <<Id(t.name), Sym("{")>> \o FlattenSeq(Each(print_attr, t.attrs)) \o FlattenSeq(kids) \o <<Sym("}")>>

LEMMA SaveOfType ==
  ASSUME NEW t \in Tree, NEW kids \in Seq(Seq(Tokens))
  PROVE  SaveOf(t, kids) \in Seq(Tokens)
<1>1. <<Id(t.name), Sym("{")>> \in Seq(Tokens) /\ <<Sym("}")>> \in Seq(Tokens)
  BY TreeFields, Symbols
<1>2. FlattenSeq(Each(print_attr, t.attrs)) \in Seq(Tokens)
  BY TreeFields, EachAttrPrinted, FlattenType
<1>3. FlattenSeq(kids) \in Seq(Tokens)
  BY FlattenType
<1>4. \A a, b, c, d \in Seq(Tokens) : a \o b \o c \o d \in Seq(Tokens)
  BY ConcatProperties
<1> QED
  BY <1>1, <1>2, <1>3, <1>4 DEF SaveOf

LEMMA SaveIs ==
  /\ ts_text_save \in [Tree -> Seq(Tokens)]
  /\ \A t \in Tree : ts_text_save[t] = SaveOf(t, Each(ts_text_save, t.kids))
<1> DEFINE step == [p \in Tree \X Seq(Seq(Tokens)) |-> SaveOf(p[1], p[2])]
<1>1. IsStep(step, Tree, Seq(Tokens))
  BY SaveOfType DEF IsStep
<1>2. PICK f : Recursive(f, step, Tree, Kids, Seq(Tokens))
  <2> HIDE DEF step
  <2> QED
    BY <1>1, TreeRecursion
<1>3. ASSUME NEW t \in Tree PROVE f[t] = SaveOf(t, Each(f, t.kids))
  <2>1. f[t] = step[<<t, Each(f, t.kids)>>]
    <3> HIDE DEF step
    <3> QED
      BY <1>2 DEF Recursive, Kids
  <2>2. t.kids \in Seq(Tree)
    BY TreeFields
  <2>3. \A i \in DOMAIN t.kids : t.kids[i] \in Tree
    BY <2>2
  <2>4. \A i \in DOMAIN t.kids : f[t.kids[i]] \in Seq(Tokens)
    BY <1>2, <2>3 DEF Recursive
  <2>5. Each(f, t.kids) \in Seq(Seq(Tokens))
    BY <2>2, <2>4, EachIs
  <2> QED
    BY <2>1, <2>5
<1> HIDE DEF step
<1>4. f = [t \in Tree |-> SaveOf(t, Each(f, t.kids))]
  BY <1>2, <1>3 DEF Recursive
<1>5. ts_text_save = [t \in Tree |-> SaveOf(t, Each(ts_text_save, t.kids))]
  BY <1>4 DEF ts_text_save, SaveOf
<1> DEFINE P == {t \in Tree : ts_text_save[t] \in Seq(Tokens)}
<1>6. ASSUME NEW t \in Tree, \A i \in DOMAIN t.kids : t.kids[i] \in P PROVE t \in P
  <2>1. Each(ts_text_save, t.kids) \in Seq(Seq(Tokens))
    BY <1>6, TreeFields, EachIs
  <2>2. ts_text_save[t] = SaveOf(t, Each(ts_text_save, t.kids))
    BY <1>5
  <2> QED
    BY <2>1, <2>2, SaveOfType
<1>7. Tree \subseteq P
  <2> HIDE DEF P
  <2> QED
    BY <1>6, TreeInduct
<1>8. \A t \in Tree : ts_text_save[t] = SaveOf(t, Each(ts_text_save, t.kids))
                        /\ ts_text_save[t] \in Seq(Tokens)
  BY <1>5, <1>7
<1>9. ts_text_save \in [Tree -> Seq(Tokens)]
  BY <1>5, <1>8
<1> QED
  BY <1>8, <1>9

LEMMA EachSaved ==
  ASSUME NEW s \in Seq(Tree)
  PROVE  /\ Each(ts_text_save, s) \in Seq(Seq(Tokens)) /\ Len(Each(ts_text_save, s)) = Len(s)
         /\ DOMAIN Each(ts_text_save, s) = DOMAIN s
         /\ \A i \in DOMAIN s : Each(ts_text_save, s)[i] = ts_text_save[s[i]]
<1>1. \A i \in DOMAIN s : ts_text_save[s[i]] \in Seq(Tokens)
  BY SaveIs
<1>2. Each(ts_text_save, s) \in Seq(Seq(Tokens))
  BY <1>1, EachIs
<1> QED
  BY <1>2, EachAt

-----------------------------------------------------------------------------
(* The calls in progress. *)
Loads == {LoadFrame(w) : w \in Words}
NodeAt(d) ==
  [fn : {"read_node"}, id : Words \cup {Null}, attr_allocated : BOOLEAN,
   attrs : Seq(Attr), kids : Seq(TreeOf[d])]
ArrayAt(d) ==
  [fn : {"read_array"}, endsym : {"]", "}"},
   values : {seq \in Seq(ValueOf[d]) : Len(seq) <= MaxStored}]
Frames == Loads \cup UNION {FrameOf(d) : d \in 0..MaxDepth}

(* g may be a call that f is waiting for. *)
Calls(f, g) ==
  IF g.fn = "read_array"
    THEN f.fn = "read_array" \/ (f.fn = "read_node" /\ f.id # Null /\ f.attr_allocated)
    ELSE f.fn = "ts_text_load" \/ (f.fn = "read_node" /\ f.id # Null /\ ~f.attr_allocated)

Stack(fr) ==
  /\ fr \in Seq(Frames) /\ Len(fr) <= MaxDepth
  /\ Len(fr) > 0 => fr[1] \in Loads
  /\ \A i \in 2..Len(fr) : fr[i] \in FrameOf(MaxDepth - i)
  /\ \A i \in 2..Len(fr) : Calls(fr[i - 1], fr[i])

OwnedBy(fr) == [i \in DOMAIN fr |-> Owned(fr[i])]

LEMMA FrameIs ==
  ASSUME NEW d \in 0..MaxDepth, NEW f \in FrameOf(d)
  PROVE  /\ f.fn \in {"read_node", "read_array"}
         /\ f.fn = "read_node" => f \in NodeAt(d)
         /\ f.fn = "read_array" => f \in ArrayAt(d)
<1>1. f \in NodeAt(d) \/ f \in ArrayAt(d)
  BY DEF FrameOf, NodeAt, ArrayAt
<1>2. f \in NodeAt(d) => f.fn = "read_node"
  BY DEF NodeAt
<1>3. f \in ArrayAt(d) => f.fn = "read_array"
  BY DEF ArrayAt
<1> QED
  BY <1>1, <1>2, <1>3

LEMMA NodesAreFrames ==
  ASSUME NEW d \in 0..MaxDepth
  PROVE  NodeAt(d) \subseteq FrameOf(d) /\ ArrayAt(d) \subseteq FrameOf(d) /\ FrameOf(d) \subseteq Frames
BY DEF FrameOf, NodeAt, ArrayAt, Frames

LEMMA LoadIs ==
  ASSUME NEW f \in Loads
  PROVE  f.fn = "ts_text_load" /\ f.id \in Words /\ Owned(f) = 1 /\ FreedOnError(f) = 0
BY DEF Loads, LoadFrame, Owned, FreedOnError

LEMMA NodeFields ==
  ASSUME NEW d \in 0..MaxDepth, NEW f \in NodeAt(d)
  PROVE  /\ f.fn = "read_node" /\ f.id \in Words \cup {Null} /\ f.attr_allocated \in BOOLEAN
         /\ f.attrs \in Seq(Attr) /\ f.kids \in Seq(TreeOf[d]) /\ f.kids \in Seq(Tree)
<1>1. /\ f.fn = "read_node" /\ f.id \in Words \cup {Null} /\ f.attr_allocated \in BOOLEAN
      /\ f.attrs \in Seq(Attr) /\ f.kids \in Seq(TreeOf[d])
  BY DEF NodeAt
<1>2. f.kids \in Seq(Tree)
  BY <1>1, TreeLevels, SeqMonotonic
<1> QED
  BY <1>1, <1>2

LEMMA ArrayFields ==
  ASSUME NEW d \in 0..MaxDepth, NEW f \in ArrayAt(d)
  PROVE  /\ f.fn = "read_array" /\ f.endsym \in {"]", "}"}
         /\ f.values \in Seq(ValueOf[d]) /\ f.values \in Seq(Value) /\ Len(f.values) <= MaxStored
<1>1. /\ f.fn = "read_array" /\ f.endsym \in {"]", "}"}
      /\ f.values \in Seq(ValueOf[d]) /\ Len(f.values) <= MaxStored
  BY DEF ArrayAt
<1>2. f.values \in Seq(Value)
  BY <1>1, ValueLevels, SeqMonotonic
<1> QED
  BY <1>1, <1>2

LEMMA OwnedNode ==
  ASSUME NEW d \in 0..MaxDepth, NEW f \in NodeAt(d)
  PROVE  /\ Owned(f) = 1 + One(f.id # Null) + One(f.attr_allocated)
                         + Total(Each(AttrBlocks, f.attrs)) + Total(Each(TreeBlocks, f.kids))
         /\ Owned(f) \in Nat /\ FreedOnError(f) \in Nat /\ FreedOnError(f) <= Owned(f)
<1>1. f.fn = "read_node" /\ Total(Each(AttrBlocks, f.attrs)) \in Nat
        /\ Total(Each(TreeBlocks, f.kids)) \in Nat
  BY NodeFields, EachBlocks, EachTreeBlocks
<1>2. Owned(f) = 1 + One(f.id # Null) + One(f.attr_allocated)
                   + Total(Each(AttrBlocks, f.attrs)) + Total(Each(TreeBlocks, f.kids))
  BY <1>1 DEF Owned
<1>3. FreedOnError(f) = 1 + One(f.attr_allocated) + Total(Each(AttrBlocks, f.attrs))
  BY <1>1 DEF FreedOnError
<1>4. One(f.id # Null) \in Nat /\ One(f.attr_allocated) \in Nat
  BY DEF One
<1> QED
  BY <1>1, <1>2, <1>3, <1>4

LEMMA OwnedArray ==
  ASSUME NEW d \in 0..MaxDepth, NEW f \in ArrayAt(d)
  PROVE  /\ Owned(f) = Total(Each(ValueBlocks, f.values))
         /\ Owned(f) \in Nat /\ FreedOnError(f) = 0
<1>1. f.fn = "read_array" /\ Total(Each(ValueBlocks, f.values)) \in Nat
  BY ArrayFields, EachBlocks
<1> QED
  BY <1>1 DEF Owned, FreedOnError

LEMMA OwnedType ==
  ASSUME NEW f \in Frames
  PROVE  Owned(f) \in Nat /\ FreedOnError(f) \in Nat /\ FreedOnError(f) <= Owned(f)
<1>1. CASE f \in Loads
  BY <1>1, LoadIs
<1>2. ASSUME NEW d \in 0..MaxDepth, f \in FrameOf(d)
      PROVE  Owned(f) \in Nat /\ FreedOnError(f) \in Nat /\ FreedOnError(f) <= Owned(f)
  <2>1. f \in NodeAt(d) \/ f \in ArrayAt(d)
    BY <1>2, FrameIs
  <2> QED
    BY <2>1, OwnedNode, OwnedArray
<1> QED
  BY <1>1, <1>2 DEF Frames

LEMMA OwnedByType ==
  ASSUME NEW fr \in Seq(Frames)
  PROVE  OwnedBy(fr) \in Seq(Nat) /\ Total(OwnedBy(fr)) \in Nat
<1>1. Len(fr) \in Nat /\ DOMAIN fr = 1..Len(fr) /\ \A i \in 1..Len(fr) : fr[i] \in Frames
  OBVIOUS
<1>2. OwnedBy(fr) \in [1..Len(fr) -> Nat]
  BY <1>1, OwnedType DEF OwnedBy
<1>3. OwnedBy(fr) \in Seq(Nat)
  BY <1>1, <1>2, FunctionIsSeq
<1> QED
  BY <1>3, TotalType

LEMMA OwnedAppend ==
  ASSUME NEW fr \in Seq(Frames), NEW f \in Frames
  PROVE  Total(OwnedBy(Append(fr, f))) = Total(OwnedBy(fr)) + Owned(f)
<1>1. /\ Append(fr, f) \in Seq(Frames) /\ Len(Append(fr, f)) = Len(fr) + 1 /\ Len(fr) \in Nat
      /\ \A i \in 1..(Len(fr) + 1) : Append(fr, f)[i] = IF i <= Len(fr) THEN fr[i] ELSE f
  OBVIOUS
<1>2. OwnedBy(fr) \in Seq(Nat) /\ OwnedBy(Append(fr, f)) \in Seq(Nat) /\ Owned(f) \in Nat
  BY <1>1, OwnedByType, OwnedType
<1>3. DOMAIN Append(fr, f) = 1..(Len(fr) + 1) /\ DOMAIN fr = 1..Len(fr)
  BY <1>1, LenProperties
<1>4. Len(OwnedBy(fr)) = Len(fr) /\ Len(OwnedBy(Append(fr, f))) = Len(fr) + 1
  BY <1>1, <1>2, <1>3 DEF OwnedBy
<1>5. Append(OwnedBy(fr), Owned(f)) \in Seq(Nat) /\ Len(Append(OwnedBy(fr), Owned(f))) = Len(fr) + 1
        /\ \A i \in 1..(Len(fr) + 1) :
             Append(OwnedBy(fr), Owned(f))[i] = IF i <= Len(fr) THEN OwnedBy(fr)[i] ELSE Owned(f)
  BY <1>1, <1>2, <1>4
<1>6. \A i \in 1..(Len(fr) + 1) : OwnedBy(Append(fr, f))[i] = Append(OwnedBy(fr), Owned(f))[i]
  BY <1>1, <1>3, <1>5 DEF OwnedBy
<1>7. OwnedBy(Append(fr, f)) = Append(OwnedBy(fr), Owned(f))
  BY <1>2, <1>4, <1>5, <1>6, SeqEqual
<1> QED
  BY <1>2, <1>7, TotalAppend

LEMMA OwnedEmpty ==
  Total(OwnedBy(<<>>)) = 0
<1>1. OwnedBy(<<>>) = <<>>
  BY DEF OwnedBy
<1> QED
  BY <1>1, TotalEmpty

LEMMA FrontIs ==
  ASSUME NEW S, NEW s \in Seq(S), Len(s) > 0
  PROVE  /\ Front(s) \in Seq(S) /\ Len(Front(s)) = Len(s) - 1
         /\ \A i \in 1..(Len(s) - 1) : Front(s)[i] = s[i]
         /\ s = Append(Front(s), s[Len(s)])
         /\ \A x \in S : OnTop(s, x) = Append(Front(s), x)
<1>1. Len(s) \in Nat /\ 1 \in Int /\ Len(s) - 1 \in Int /\ \A i \in 1..(Len(s) - 1) : s[i] \in S
  OBVIOUS
<1>2. /\ Front(s) \in Seq(S) /\ Len(Front(s)) = Len(s) - 1
      /\ \A i \in 1..(Len(s) - 1) : Front(s)[i] = s[i]
  <2>1. PICK n : n = Len(s) - 1
    OBVIOUS
  <2>2. n \in Nat /\ \A i \in 1..n : s[i] \in S
    BY <1>1, <2>1
  <2>3. /\ SubSeq(s, 1, n) \in Seq(S) /\ Len(SubSeq(s, 1, n)) = n
        /\ \A i \in 1..n : SubSeq(s, 1, n)[i] = s[i]
    BY <2>2
  <2> QED
    BY <2>1, <2>3 DEF Front
<1> HIDE DEF Front
<1>3. ASSUME NEW x \in S
      PROVE  /\ Append(Front(s), x) \in Seq(S) /\ Len(Append(Front(s), x)) = Len(s)
             /\ \A i \in 1..Len(s) : Append(Front(s), x)[i] = IF i = Len(s) THEN x ELSE s[i]
  BY <1>1, <1>2
<1>4. s = Append(Front(s), s[Len(s)])
  <2>1. s[Len(s)] \in S
    BY <1>1
  <2>2. \A i \in 1..Len(s) : Append(Front(s), s[Len(s)])[i] = s[i]
    BY <1>3, <2>1
  <2> QED
    BY <1>3, <2>1, <2>2, SeqEqual
<1>5. ASSUME NEW x \in S PROVE OnTop(s, x) = Append(Front(s), x)
  <2>1. Len(s) \in 1..Len(s)
    BY <1>1
  <2>2. /\ OnTop(s, x) \in Seq(S) /\ Len(OnTop(s, x)) = Len(s)
        /\ \A i \in 1..Len(s) : OnTop(s, x)[i] = IF i = Len(s) THEN x ELSE s[i]
    BY <2>1, ExceptSeq DEF OnTop
  <2>3. \A i \in 1..Len(s) : OnTop(s, x)[i] = Append(Front(s), x)[i]
    BY <1>3, <2>2
  <2> QED
    BY <1>3, <2>2, <2>3, SeqEqual
<1> QED
  BY <1>2, <1>4, <1>5

LEMMA StackPop ==
  ASSUME NEW fr, Stack(fr), Len(fr) > 0
  PROVE  /\ Stack(Front(fr)) /\ Len(Front(fr)) = Len(fr) - 1 /\ Len(fr) \in Nat
         /\ \A i \in 1..(Len(fr) - 1) : Front(fr)[i] = fr[i]
         /\ Total(OwnedBy(fr)) = Total(OwnedBy(Front(fr))) + Owned(fr[Len(fr)])
         /\ Total(OwnedBy(Front(fr))) \in Nat /\ fr[Len(fr)] \in Frames
         /\ Owned(fr[Len(fr)]) \in Nat
<1>1. fr \in Seq(Frames) /\ Len(fr) \in Nat /\ Len(fr) <= MaxDepth /\ MaxDepth \in Nat
  BY TextAssumption DEF Stack
<1>2. /\ Front(fr) \in Seq(Frames) /\ Len(Front(fr)) = Len(fr) - 1
      /\ \A i \in 1..(Len(fr) - 1) : Front(fr)[i] = fr[i]
      /\ fr = Append(Front(fr), fr[Len(fr)]) /\ fr[Len(fr)] \in Frames
  BY <1>1, FrontIs
<1>3. Stack(Front(fr))
  BY <1>1, <1>2 DEF Stack
<1>4. Total(OwnedBy(fr)) = Total(OwnedBy(Front(fr))) + Owned(fr[Len(fr)])
  BY <1>2, OwnedAppend
<1> QED
  BY <1>1, <1>2, <1>3, <1>4, OwnedByType, OwnedType

LEMMA StackPush ==
  ASSUME NEW fr, Stack(fr), Len(fr) > 0, Len(fr) < MaxDepth,
         NEW f \in FrameOf(MaxDepth - (Len(fr) + 1)), Calls(fr[Len(fr)], f)
  PROVE  /\ Stack(Append(fr, f)) /\ Len(Append(fr, f)) = Len(fr) + 1 /\ Len(fr) \in Nat
         /\ \A i \in 1..Len(fr) : Append(fr, f)[i] = fr[i]
         /\ Append(fr, f)[Len(fr) + 1] = f
         /\ Total(OwnedBy(Append(fr, f))) = Total(OwnedBy(fr)) + Owned(f)
<1>1. fr \in Seq(Frames) /\ Len(fr) \in Nat /\ Len(fr) <= MaxDepth /\ MaxDepth \in Nat
  BY TextAssumption DEF Stack
<1>2. f \in Frames
  BY <1>1, NodesAreFrames
<1>3. /\ Append(fr, f) \in Seq(Frames) /\ Len(Append(fr, f)) = Len(fr) + 1
      /\ \A i \in 1..Len(fr) : Append(fr, f)[i] = fr[i]
      /\ Append(fr, f)[Len(fr) + 1] = f
  BY <1>1, <1>2
<1>4. \A i \in 2..(Len(fr) + 1) : Append(fr, f)[i] \in FrameOf(MaxDepth - i)
  <2>1. \A i \in 2..Len(fr) : Append(fr, f)[i] \in FrameOf(MaxDepth - i)
    BY <1>1, <1>3 DEF Stack
  <2>2. \A i \in 2..(Len(fr) + 1) : i \in 2..Len(fr) \/ i = Len(fr) + 1
    BY <1>1
  <2> QED
    BY <1>3, <2>1, <2>2
<1>5. ASSUME NEW i \in 2..(Len(fr) + 1) PROVE Calls(Append(fr, f)[i - 1], Append(fr, f)[i])
  <2>1. CASE i = Len(fr) + 1
    BY <1>1, <1>3, <2>1
  <2>2. CASE i # Len(fr) + 1
    <3>1. i \in 2..Len(fr) /\ i - 1 \in 1..Len(fr) /\ i \in 1..Len(fr)
      BY <1>1, <2>2
    <3> QED
      BY <1>3, <3>1 DEF Stack
  <2> QED
    BY <2>1, <2>2
<1>6. Append(fr, f)[1] \in Loads
  BY <1>1, <1>3 DEF Stack
<1>7. Total(OwnedBy(Append(fr, f))) = Total(OwnedBy(fr)) + Owned(f)
  BY <1>1, <1>2, OwnedAppend
<1>8. Stack(Append(fr, f))
  BY <1>1, <1>3, <1>4, <1>5, <1>6 DEF Stack
<1> QED
  BY <1>1, <1>3, <1>7, <1>8

LEMMA StackTop ==
  ASSUME NEW fr, Stack(fr), Len(fr) > 1,
         NEW f \in FrameOf(MaxDepth - Len(fr)), f.fn = fr[Len(fr)].fn
  PROVE  /\ Stack(OnTop(fr, f)) /\ Len(OnTop(fr, f)) = Len(fr) /\ Len(fr) \in Nat
         /\ \A i \in 1..(Len(fr) - 1) : OnTop(fr, f)[i] = fr[i]
         /\ OnTop(fr, f)[Len(fr)] = f
         /\ Total(OwnedBy(OnTop(fr, f))) = Total(OwnedBy(fr)) - Owned(fr[Len(fr)]) + Owned(f)
<1> DEFINE below == Front(fr)
<1>0. fr \in Seq(Frames) /\ Len(fr) \in Nat /\ Len(fr) <= MaxDepth /\ MaxDepth \in Nat
  BY TextAssumption DEF Stack
<1>1. /\ Stack(below) /\ Len(below) = Len(fr) - 1
      /\ \A i \in 1..(Len(fr) - 1) : below[i] = fr[i]
      /\ Total(OwnedBy(fr)) = Total(OwnedBy(below)) + Owned(fr[Len(fr)])
      /\ Total(OwnedBy(below)) \in Nat /\ Owned(fr[Len(fr)]) \in Nat
  BY StackPop
<1>2. f \in Frames
  BY <1>0, NodesAreFrames
<1>3. OnTop(fr, f) = Append(below, f)
  BY <1>0, <1>2, FrontIs
<1> HIDE DEF below
<1>4. Calls(fr[Len(fr) - 1], f)
  <2>1. Calls(fr[Len(fr) - 1], fr[Len(fr)])
    BY <1>0 DEF Stack
  <2> QED
    BY <2>1 DEF Calls
<1>5. below[Len(below)] = fr[Len(fr) - 1] /\ Len(below) + 1 = Len(fr) /\ Len(below) > 0
        /\ Len(below) < MaxDepth
  BY <1>0, <1>1
<1>6. /\ Stack(Append(below, f)) /\ Len(Append(below, f)) = Len(below) + 1
      /\ \A i \in 1..Len(below) : Append(below, f)[i] = below[i]
      /\ Append(below, f)[Len(below) + 1] = f
      /\ Total(OwnedBy(Append(below, f))) = Total(OwnedBy(below)) + Owned(f)
  BY <1>1, <1>4, <1>5, StackPush
<1>7. Owned(f) \in Nat
  BY <1>2, OwnedType
<1>8. Total(OwnedBy(OnTop(fr, f))) = Total(OwnedBy(fr)) - Owned(fr[Len(fr)]) + Owned(f)
  BY <1>1, <1>3, <1>6, <1>7
<1>9. \A i \in 1..(Len(fr) - 1) : OnTop(fr, f)[i] = fr[i]
  BY <1>0, <1>1, <1>3, <1>5, <1>6
<1> QED
  BY <1>0, <1>1, <1>3, <1>5, <1>6, <1>8, <1>9

-----------------------------------------------------------------------------
(* What the calls do to their variables. *)
LEMMA NodeNamed ==
  ASSUME NEW d \in 0..MaxDepth, NEW f \in NodeAt(d), NEW w \in Words \cup {Null}
  PROVE  LET g == [f EXCEPT !.id = w]
         IN  g \in NodeAt(d) /\ g.id = w /\ g.attr_allocated = f.attr_allocated
               /\ g.attrs = f.attrs /\ g.kids = f.kids
BY DEF NodeAt

LEMMA NodeAllocates ==
  ASSUME NEW d \in 0..MaxDepth, NEW f \in NodeAt(d), NEW b \in BOOLEAN
  PROVE  LET g == [f EXCEPT !.attr_allocated = b]
         IN  g \in NodeAt(d) /\ g.id = f.id /\ g.attr_allocated = b
               /\ g.attrs = f.attrs /\ g.kids = f.kids
BY DEF NodeAt

LEMMA NodeGrows ==
  ASSUME NEW d \in 0..MaxDepth, NEW f \in NodeAt(d), NEW kids \in Seq(TreeOf[d])
  PROVE  LET g == [f EXCEPT !.kids = kids]
         IN  g \in NodeAt(d) /\ g.id = f.id /\ g.attr_allocated = f.attr_allocated
               /\ g.attrs = f.attrs /\ g.kids = kids
BY DEF NodeAt

LEMMA NodeAttrs ==
  ASSUME NEW d \in 0..MaxDepth, NEW f \in NodeAt(d), NEW attrs \in Seq(Attr)
  PROVE  LET g == [f EXCEPT !.attrs = attrs]
         IN  g \in NodeAt(d) /\ g.id = f.id /\ g.attr_allocated = f.attr_allocated
               /\ g.attrs = attrs /\ g.kids = f.kids
BY DEF NodeAt

WithAttr(f, attr) == [f EXCEPT !.id = Null, !.attr_allocated = FALSE, !.attrs = Append(@, attr)]
WithKid(f, kid) == [f EXCEPT !.id = Null, !.kids = Append(@, kid)]
WithValue(f, v) == [f EXCEPT !.values = IF Stored(@) THEN Append(@, v) ELSE @]

LEMMA NodeGetsAttr ==
  ASSUME NEW d \in 0..MaxDepth, NEW f \in NodeAt(d), NEW attr \in Attr
  PROVE  LET g == WithAttr(f, attr)
         IN  g \in NodeAt(d) /\ g.id = Null /\ g.attr_allocated = FALSE
               /\ g.attrs = Append(f.attrs, attr) /\ g.kids = f.kids
<1>1. PICK f1 : f1 = [f EXCEPT !.id = Null]
  OBVIOUS
<1>2. f1 \in NodeAt(d) /\ f1.id = Null /\ f1.attrs = f.attrs /\ f1.kids = f.kids
  BY <1>1, NodeNamed
<1>3. PICK f2 : f2 = [f1 EXCEPT !.attr_allocated = FALSE]
  OBVIOUS
<1>4. f2 \in NodeAt(d) /\ f2.id = Null /\ f2.attr_allocated = FALSE /\ f2.attrs = f.attrs
        /\ f2.kids = f.kids
  BY <1>2, <1>3, NodeAllocates
<1>5. PICK more : more = Append(f.attrs, attr)
  OBVIOUS
<1>6. more \in Seq(Attr)
  BY <1>5, NodeFields
<1>7. PICK f3 : f3 = [f2 EXCEPT !.attrs = more]
  OBVIOUS
<1>8. f3 \in NodeAt(d) /\ f3.id = Null /\ f3.attr_allocated = FALSE /\ f3.attrs = more
        /\ f3.kids = f.kids
  BY <1>4, <1>6, <1>7, NodeAttrs
<1>9. f3 = WithAttr(f, attr)
  BY <1>1, <1>3, <1>5, <1>7 DEF WithAttr
<1> QED
  BY <1>5, <1>8, <1>9

LEMMA NodeGetsKid ==
  ASSUME NEW d \in 0..MaxDepth, NEW f \in NodeAt(d), NEW kid \in TreeOf[d]
  PROVE  LET g == WithKid(f, kid)
         IN  g \in NodeAt(d) /\ g.id = Null /\ g.attr_allocated = f.attr_allocated
               /\ g.attrs = f.attrs /\ g.kids = Append(f.kids, kid)
<1>1. PICK f1 : f1 = [f EXCEPT !.id = Null]
  OBVIOUS
<1>2. f1 \in NodeAt(d) /\ f1.id = Null /\ f1.attr_allocated = f.attr_allocated
        /\ f1.attrs = f.attrs /\ f1.kids = f.kids
  BY <1>1, NodeNamed
<1>3. PICK more : more = Append(f.kids, kid)
  OBVIOUS
<1>4. more \in Seq(TreeOf[d])
  <2>1. f.kids \in Seq(TreeOf[d])
    BY NodeFields
  <2> QED
    BY <1>3, <2>1, AppendIs
<1>5. PICK f2 : f2 = [f1 EXCEPT !.kids = more]
  OBVIOUS
<1>6. f2 \in NodeAt(d) /\ f2.id = Null /\ f2.attr_allocated = f.attr_allocated
        /\ f2.attrs = f.attrs /\ f2.kids = more
  BY <1>2, <1>4, <1>5, NodeGrows
<1>7. f2 = WithKid(f, kid)
  BY <1>1, <1>3, <1>5 DEF WithKid
<1> QED
  BY <1>3, <1>6, <1>7

LEMMA ArrayGets ==
  ASSUME NEW d \in 0..MaxDepth, NEW f \in ArrayAt(d), NEW v \in ValueOf[d]
  PROVE  LET g == WithValue(f, v)
         IN  g \in ArrayAt(d) /\ g.endsym = f.endsym
               /\ g.values = IF Stored(f.values) THEN Append(f.values, v) ELSE f.values
<1>1. PICK more : more = IF Stored(f.values) THEN Append(f.values, v) ELSE f.values
  OBVIOUS
<1>2. more \in Seq(ValueOf[d]) /\ Len(more) <= MaxStored
  <2>1. f.values \in Seq(ValueOf[d]) /\ Len(f.values) <= MaxStored /\ MaxStored \in Nat
          /\ Len(f.values) \in Nat
    <3>1. f.values \in Seq(ValueOf[d]) /\ Len(f.values) <= MaxStored
      BY ArrayFields
    <3>2. MaxStored \in Nat
      BY TextAssumption
    <3> QED
      BY <3>1, <3>2, LenProperties
  <2>2. PICK s : s = f.values
    OBVIOUS
  <2>3. s \in Seq(ValueOf[d]) /\ Append(s, v) \in Seq(ValueOf[d])
          /\ Len(Append(s, v)) = Len(s) + 1
    <3>1. s \in Seq(ValueOf[d])
      BY <2>1, <2>2
    <3> QED
      BY <3>1, AppendIs, Zenon
  <2> QED
    BY <1>1, <2>1, <2>2, <2>3 DEF Stored
<1>3. PICK g : g = [f EXCEPT !.values = more]
  OBVIOUS
<1>4. g \in ArrayAt(d) /\ g.endsym = f.endsym /\ g.values = more
  BY <1>2, <1>3 DEF ArrayAt
<1>5. g = WithValue(f, v)
  BY <1>1, <1>3 DEF WithValue
<1> QED
  BY <1>1, <1>4, <1>5

LEMMA NewFrames ==
  ASSUME NEW d \in 0..MaxDepth
  PROVE  /\ NodeFrame \in NodeAt(d) /\ Owned(NodeFrame) = 1
         /\ NodeFrame.id = Null /\ NodeFrame.attr_allocated = FALSE /\ NodeFrame.fn = "read_node"
         /\ NodeFrame.attrs = <<>> /\ NodeFrame.kids = <<>>
         /\ \A c \in {"]", "}"} : ArrayFrame(c) \in ArrayAt(d) /\ Owned(ArrayFrame(c)) = 0
                                    /\ ArrayFrame(c).fn = "read_array"
                                    /\ ArrayFrame(c).values = <<>> /\ ArrayFrame(c).endsym = c
<1>1. Each(AttrBlocks, <<>>) = <<>> /\ Each(TreeBlocks, <<>>) = <<>> /\ Each(ValueBlocks, <<>>) = <<>>
  BY DEF Each
<1>2. NodeFrame \in NodeAt(d) /\ NodeFrame.id = Null /\ NodeFrame.attr_allocated = FALSE
        /\ NodeFrame.fn = "read_node" /\ NodeFrame.attrs = <<>> /\ NodeFrame.kids = <<>>
  BY EmptySeq DEF NodeFrame, NodeAt
<1>3. Owned(NodeFrame) = 1
  BY <1>1, <1>2, OwnedNode, TotalEmpty DEF One
<1>5. <<>> \in Seq(ValueOf[d]) /\ Len(<<>>) <= MaxStored
  <2>1. MaxStored \in Nat
    BY TextAssumption
  <2>2. 0 <= MaxStored
    BY <2>1
  <2> QED
    BY <2>2, EmptySeq
<1>4. ASSUME NEW c \in {"]", "}"}
      PROVE  ArrayFrame(c) \in ArrayAt(d) /\ Owned(ArrayFrame(c)) = 0
               /\ ArrayFrame(c).fn = "read_array" /\ ArrayFrame(c).values = <<>>
               /\ ArrayFrame(c).endsym = c
  <2>2. ArrayFrame(c) \in ArrayAt(d) /\ ArrayFrame(c).values = <<>>
          /\ ArrayFrame(c).fn = "read_array" /\ ArrayFrame(c).endsym = c
    BY <1>5 DEF ArrayFrame, ArrayAt
  <2> QED
    BY <1>1, <2>2, OwnedArray, TotalEmpty
<1> QED
  BY <1>2, <1>3, <1>4

-----------------------------------------------------------------------------
(* Where the innermost call is, and that every block is accounted for. *)
Place(p, fr) ==
  /\ p \in {"root", "loaded", "failed"} => fr = <<>>
  /\ p = "root_brace" => Len(fr) = 1
  /\ p \in {"item", "name", "value"} =>
       /\ Len(fr) > 1 /\ fr[Len(fr)].fn = "read_node"
       /\ fr[Len(fr)].id = Null <=> p = "item"
       /\ fr[Len(fr)].attr_allocated = (p = "value")
  /\ p \in {"element", "separator"} => Len(fr) > 1 /\ fr[Len(fr)].fn = "read_array"

Places ==
  {"root", "root_brace", "item", "name", "value", "element", "separator", "loaded", "failed"}

Sound(p, fr, h, r) ==
  /\ p \in Places /\ Stack(fr) /\ Place(p, fr) /\ h \in Nat
  /\ r \in Tree \cup {Null} /\ (p = "loaded" => r \in Tree /\ h = TreeBlocks[r])
  /\ p \notin {"loaded", "failed"} => h = 1 + Total(OwnedBy(fr))

IInv ==
  /\ Sound(pc, frames, heap, result)
  /\ left \in 0..MaxTokens /\ file \in Seq(Tokens) /\ original \in Tree \cup {Null}

TokenKind(tok) ==
         /\ tok.type \in {"TOK_ID", "TOK_NUM", "TOK_STR", "TOK_SYM", "EOF"}
         /\ tok.type = "TOK_ID" => tok.text \in Words /\ tok = Id(tok.text)
         /\ tok.type = "TOK_NUM" => tok.text \in Numbers /\ tok = Num(tok.text)
         /\ tok.type = "TOK_STR" => tok.text \in Words \cup Strings /\ tok = Str(tok.text)
         /\ tok.type = "EOF" <=> tok = EOF
         /\ \A c : tok = Sym(c) => tok.type = "TOK_SYM"

LEMMA TokenIs ==
  ASSUME NEW tok \in Tokens \cup {EOF}
  PROVE  TokenKind(tok)
<1>1. CASE tok = EOF
  BY <1>1 DEF TokenKind, Id, Num, Str, EOF, Sym
<1>2. ASSUME NEW w \in Words, tok = Id(w) PROVE TokenKind(tok)
  BY <1>2 DEF TokenKind, Id, Num, Str, EOF, Sym
<1>3. ASSUME NEW x \in Numbers, tok = Num(x) PROVE TokenKind(tok)
  BY <1>3 DEF TokenKind, Id, Num, Str, EOF, Sym
<1>4. ASSUME NEW s \in Words \cup Strings, tok = Str(s) PROVE TokenKind(tok)
  BY <1>4 DEF TokenKind, Id, Num, Str, EOF, Sym
<1>5. ASSUME NEW c \in {"=", "{", "}", "[", "]", ",", ";"}, tok = Sym(c) PROVE TokenKind(tok)
  BY <1>5 DEF TokenKind, Id, Num, Str, EOF, Sym
<1> QED
  BY <1>1, <1>2, <1>3, <1>4, <1>5 DEF Tokens

LEMMA FreedLess ==
  ASSUME NEW fr \in Seq(Frames)
  PROVE  /\ Total([i \in DOMAIN fr |-> FreedOnError(fr[i])]) \in Nat
         /\ Total([i \in DOMAIN fr |-> FreedOnError(fr[i])]) <= Total(OwnedBy(fr))
<1> DEFINE freed == [i \in DOMAIN fr |-> FreedOnError(fr[i])]
<1>1. Len(fr) \in Nat /\ DOMAIN fr = 1..Len(fr) /\ \A i \in 1..Len(fr) : fr[i] \in Frames
  OBVIOUS
<1>2. \A i \in 1..Len(fr) : FreedOnError(fr[i]) \in Nat /\ Owned(fr[i]) \in Nat
                              /\ FreedOnError(fr[i]) <= Owned(fr[i])
  BY <1>1, OwnedType
<1>3. freed \in [1..Len(fr) -> Nat] /\ OwnedBy(fr) \in [1..Len(fr) -> Nat]
  BY <1>1, <1>2 DEF OwnedBy
<1>4. \A i \in 1..Len(fr) : freed[i] <= OwnedBy(fr)[i]
  BY <1>1, <1>2 DEF OwnedBy
<1> HIDE DEF freed
<1>5. freed \in Seq(Nat) /\ Len(freed) = Len(fr) /\ OwnedBy(fr) \in Seq(Nat)
        /\ Len(OwnedBy(fr)) = Len(fr)
  BY <1>1, <1>3, FunctionIsSeq
<1>6. Total(freed) \in Nat /\ Total(freed) <= Total(OwnedBy(fr))
  BY <1>4, <1>5, TotalType, TotalMonotonic
<1> QED
  BY <1>6 DEF freed

LEMMA FreedBelow ==
  ASSUME NEW fr \in Seq(Frames), Len(fr) > 0, FreedOnError(fr[Len(fr)]) = 0
  PROVE  Total([i \in DOMAIN fr |-> FreedOnError(fr[i])]) <= Total(OwnedBy(Front(fr)))
<1> DEFINE Freed(s) == [i \in DOMAIN s |-> FreedOnError(s[i])]
           below == Front(fr)
<1>1. /\ below \in Seq(Frames) /\ Len(below) = Len(fr) - 1 /\ Len(fr) \in Nat
      /\ \A i \in 1..(Len(fr) - 1) : below[i] = fr[i]
  BY FrontIs
<1>2. DOMAIN fr = 1..Len(fr) /\ DOMAIN below = 1..(Len(fr) - 1)
  BY <1>1, LenProperties
<1>3. \A i \in 1..Len(fr) : FreedOnError(fr[i]) \in Nat
  BY OwnedType
<1> HIDE DEF below
<1>4. Freed(fr) \in Seq(Nat) /\ Len(Freed(fr)) = Len(fr)
  <2>1. Freed(fr) \in [1..Len(fr) -> Nat]
    BY <1>2, <1>3
  <2> QED
    BY <1>1, <2>1, FunctionIsSeq
<1>5. Freed(below) \in Seq(Nat) /\ Len(Freed(below)) = Len(fr) - 1
  <2>1. Freed(below) \in [1..(Len(fr) - 1) -> Nat]
    BY <1>1, <1>2, <1>3
  <2> QED
    BY <1>1, <2>1, FunctionIsSeq
<1>6. \A i \in 1..(Len(fr) - 1) : Freed(below)[i] = Freed(fr)[i]
  BY <1>1, <1>2
<1>7. Freed(fr)[Len(fr)] = 0
  BY <1>1, <1>2
<1> HIDE DEF Freed
<1>8. Freed(fr) = Append(Freed(below), 0)
  <2>1. /\ Append(Freed(below), 0) \in Seq(Nat) /\ Len(Append(Freed(below), 0)) = Len(fr)
        /\ \A i \in 1..Len(fr) : Append(Freed(below), 0)[i] = IF i = Len(fr) THEN 0 ELSE Freed(below)[i]
    BY <1>1, <1>5
  <2>2. \A i \in 1..Len(fr) : Freed(fr)[i] = Append(Freed(below), 0)[i]
    BY <1>6, <1>7, <2>1
  <2> QED
    BY <1>4, <2>1, <2>2, SeqEqual
<1>9. Total(Freed(fr)) = Total(Freed(below)) + 0 /\ Total(Freed(below)) \in Nat
  BY <1>5, <1>8, TotalAppend, TotalType
<1>10. Total(Freed(below)) <= Total(OwnedBy(below))
  BY <1>1, FreedLess DEF Freed
<1> QED
  BY <1>9, <1>10 DEF Freed, below

LEMMA FailSound ==
  ASSUME Sound(pc, frames, heap, result), pc \notin {"loaded", "failed"}, NEW freed \in Nat,
         freed = 0 \/ (/\ Len(frames) > 0 /\ freed = Owned(frames[Len(frames)])
                       /\ FreedOnError(frames[Len(frames)]) = 0),
         Fail(freed)
  PROVE  Sound(pc', frames', heap', result') /\ pc' = "failed" /\ result' = Null
<1> DEFINE lost == Total([i \in DOMAIN frames |-> FreedOnError(frames[i])])
<1>1. pc' = "failed" /\ frames' = <<>> /\ result' = Null /\ heap' = heap - 1 - freed - lost
  BY DEF Fail
<1>2. heap = 1 + Total(OwnedBy(frames)) /\ Stack(frames) /\ frames \in Seq(Frames)
  BY DEF Sound, Stack
<1>3. lost \in Nat /\ Total(OwnedBy(frames)) \in Nat /\ freed + lost <= Total(OwnedBy(frames))
  <2>1. lost \in Nat /\ lost <= Total(OwnedBy(frames)) /\ Total(OwnedBy(frames)) \in Nat
    BY <1>2, FreedLess, OwnedByType
  <2>2. CASE freed = 0
    BY <2>1, <2>2
  <2>3. CASE freed # 0
    <3>1. lost <= Total(OwnedBy(Front(frames)))
      BY <1>2, <2>3, FreedBelow
    <3>2. Total(OwnedBy(frames)) = Total(OwnedBy(Front(frames))) + freed
            /\ Total(OwnedBy(Front(frames))) \in Nat
      BY <1>2, <2>3, StackPop
    <3> HIDE DEF lost
    <3> QED
      BY <2>1, <3>1, <3>2
  <2> QED
    BY <2>2, <2>3
<1> HIDE DEF lost
<1>4. heap' \in Nat
  BY <1>1, <1>2, <1>3
<1>5. Stack(<<>>)
  <2>1. Len(<<>>) = 0 /\ <<>> \in Seq(Frames)
    BY EmptySeq
  <2>2. MaxDepth \in Nat
    BY TextAssumption
  <2> QED
    BY <2>1, <2>2 DEF Stack
<1> QED
  BY <1>1, <1>4, <1>5 DEF Sound, Place, Places

-----------------------------------------------------------------------------
(* The steps, one lemma each. *)
LEMMA ReadingIsSound ==
  ASSUME NEW p \in Places \ {"loaded", "failed"}, NEW fr, Stack(fr), Place(p, fr),
         NEW r \in Tree \cup {Null}, NEW h, h = 1 + Total(OwnedBy(fr))
  PROVE  Sound(p, fr, h, r)
<1>1. Total(OwnedBy(fr)) \in Nat
  BY OwnedByType DEF Stack
<1>2. h \in Nat
  BY <1>1
<1> QED
  BY <1>2 DEF Sound

LEMMA TopIs ==
  ASSUME NEW fr, Stack(fr), Len(fr) > 1
  PROVE  /\ Len(fr) \in Nat /\ MaxDepth - Len(fr) \in 0..MaxDepth /\ MaxDepth \in Nat
         /\ fr[Len(fr)] \in FrameOf(MaxDepth - Len(fr))
         /\ fr[Len(fr)].fn = "read_node" => fr[Len(fr)] \in NodeAt(MaxDepth - Len(fr))
         /\ fr[Len(fr)].fn = "read_array" => fr[Len(fr)] \in ArrayAt(MaxDepth - Len(fr))
         /\ fr[Len(fr)].fn \in {"read_node", "read_array"}
         /\ Calls(fr[Len(fr) - 1], fr[Len(fr)])
<1>1. fr \in Seq(Frames) /\ Len(fr) \in Nat /\ Len(fr) <= MaxDepth /\ MaxDepth \in Nat
  BY TextAssumption DEF Stack
<1>2. MaxDepth - Len(fr) \in 0..MaxDepth /\ Len(fr) \in 2..Len(fr)
  BY <1>1
<1>3. fr[Len(fr)] \in FrameOf(MaxDepth - Len(fr)) /\ Calls(fr[Len(fr) - 1], fr[Len(fr)])
  BY <1>2 DEF Stack
<1> QED
  BY <1>1, <1>2, <1>3, FrameIs

LEMMA RootNameSound ==
  ASSUME Sound(pc, frames, heap, result), NEW tok \in Tokens \cup {EOF}, RootName(tok)
  PROVE  Sound(pc', frames', heap', result')
<1>1. pc = "root" /\ frames = <<>> /\ heap = 1 + Total(OwnedBy(frames)) /\ result \in Tree \cup {Null}
  BY DEF RootName, Sound, Place
<1>2. CASE tok.type = "TOK_ID"
  <2>1. /\ pc' = "root_brace" /\ frames' = <<LoadFrame(tok.text)>> /\ heap' = heap + 1
        /\ result' = result
    BY <1>2 DEF RootName
  <2>2. PICK f : f = LoadFrame(tok.text)
    OBVIOUS
  <2>3. f \in Loads /\ f \in Frames /\ Owned(f) = 1
    <3>1. tok.text \in Words
      BY <1>2, TokenIs DEF TokenKind
    <3>2. f \in Loads
      BY <2>2, <3>1 DEF Loads
    <3> QED
      BY <3>2, LoadIs DEF Frames
  <2>4. <<>> \in Seq(Frames) /\ Append(<<>>, f) = <<f>> /\ <<f>> \in Seq(Frames) /\ Len(<<f>>) = 1
          /\ <<f>>[1] = f
    BY <2>3
  <2>5. Total(OwnedBy(<<f>>)) = 1
    <3>1. Total(OwnedBy(Append(<<>>, f))) = Total(OwnedBy(<<>>)) + Owned(f)
      BY <2>3, <2>4, OwnedAppend
    <3> QED
      BY <2>3, <2>4, <3>1, OwnedEmpty
  <2>6. Stack(<<f>>)
    <3>1. 1 <= MaxDepth
      BY TextAssumption
    <3> QED
      BY <2>3, <2>4, <3>1 DEF Stack
  <2>7. heap' = 1 + Total(OwnedBy(<<f>>))
    BY <1>1, <2>1, <2>5, OwnedEmpty
  <2>8. Place("root_brace", <<f>>) /\ "root_brace" \in Places \ {"loaded", "failed"}
    BY <2>4 DEF Place, Places
  <2> QED
    BY <1>1, <2>1, <2>2, <2>6, <2>7, <2>8, ReadingIsSound
<1>3. CASE tok.type # "TOK_ID"
  BY <1>1, <1>3, FailSound DEF RootName
<1> QED
  BY <1>2, <1>3

LEMMA CallReadNodeSound ==
  ASSUME Sound(pc, frames, heap, result), pc \in {"root_brace", "name"}, CallReadNode
  PROVE  Sound(pc', frames', heap', result')
<1>1. /\ Len(frames) < MaxDepth /\ pc' = "item" /\ frames' = Append(frames, NodeFrame)
      /\ heap' = heap + 1 /\ result' = result
  BY DEF CallReadNode
<1>2. Stack(frames) /\ Place(pc, frames) /\ heap = 1 + Total(OwnedBy(frames))
        /\ result \in Tree \cup {Null}
  BY DEF Sound
<1>3. frames \in Seq(Frames) /\ Len(frames) \in Nat /\ MaxDepth \in Nat
  BY <1>2, TextAssumption DEF Stack
<1>4. Len(frames) > 0 /\ Calls(frames[Len(frames)], NodeFrame)
  <2>1. CASE pc = "root_brace"
    <3>1. Len(frames) = 1
      BY <1>2, <2>1 DEF Place
    <3>2. frames[1] \in Loads
      BY <1>2, <3>1 DEF Stack
    <3> QED
      BY <3>1, <3>2, LoadIs DEF Calls, NodeFrame
  <2>2. CASE pc = "name"
    <3>1. Len(frames) > 1 /\ frames[Len(frames)].fn = "read_node"
            /\ frames[Len(frames)].id # Null /\ frames[Len(frames)].attr_allocated = FALSE
      BY <1>2, <2>2 DEF Place
    <3> QED
      BY <1>3, <3>1 DEF Calls, NodeFrame
  <2> QED
    BY <2>1, <2>2
<1>5. MaxDepth - (Len(frames) + 1) \in 0..MaxDepth
  BY <1>1, <1>3
<1>6. NodeFrame \in FrameOf(MaxDepth - (Len(frames) + 1)) /\ Owned(NodeFrame) = 1
        /\ NodeFrame.fn = "read_node" /\ NodeFrame.id = Null /\ NodeFrame.attr_allocated = FALSE
  BY <1>5, NewFrames, NodesAreFrames
<1>7. /\ Stack(frames') /\ Len(frames') = Len(frames) + 1 /\ frames'[Len(frames')] = NodeFrame
      /\ Total(OwnedBy(frames')) = Total(OwnedBy(frames)) + 1
  BY <1>1, <1>2, <1>4, <1>6, StackPush
<1>8. heap' = 1 + Total(OwnedBy(frames'))
  <2>1. Total(OwnedBy(frames)) \in Nat
    BY <1>3, OwnedByType
  <2> QED
    BY <1>1, <1>2, <1>7, <2>1
<1>9. Place("item", frames') /\ "item" \in Places \ {"loaded", "failed"}
  <2>1. PICK fr : fr = frames'
    OBVIOUS
  <2>2. Len(fr) > 1 /\ fr[Len(fr)].fn = "read_node" /\ fr[Len(fr)].id = Null
          /\ fr[Len(fr)].attr_allocated = FALSE
    BY <1>3, <1>4, <1>6, <1>7, <2>1
  <2> QED
    BY <2>1, <2>2 DEF Place, Places
<1> QED
  BY <1>1, <1>2, <1>7, <1>8, <1>9, ReadingIsSound

LEMMA RootBraceSound ==
  ASSUME Sound(pc, frames, heap, result), NEW tok \in Tokens \cup {EOF}, RootBrace(tok)
  PROVE  Sound(pc', frames', heap', result')
<1>1. pc = "root_brace"
  BY DEF RootBrace
<1>2. CASE tok = Sym("{")
  BY <1>1, <1>2, CallReadNodeSound DEF RootBrace
<1>3. CASE tok # Sym("{")
  BY <1>1, <1>3, FailSound DEF RootBrace
<1> QED
  BY <1>2, <1>3

(* The node that read_node returns has room for what is below it. *)
NodeRead(f, name) == [name |-> name, attrs |-> f.attrs, kids |-> f.kids]

LEMMA NodeReadIs ==
  ASSUME NEW d \in 0..MaxDepth, d + 1 \in 0..MaxDepth, NEW f \in NodeAt(d), f.id = Null,
         f.attr_allocated = FALSE, NEW w \in Words
  PROVE  /\ NodeRead(f, w) \in TreeOf[d + 1] /\ NodeRead(f, w) \in Tree
         /\ TreeBlocks[NodeRead(f, w)] = Owned(f) + 1 /\ TreeBlocks[NodeRead(f, w)] \in Nat
<1>1. PICK t : t = NodeRead(f, w)
  OBVIOUS
<1>2. f.attrs \in Seq(Attr) /\ f.kids \in Seq(TreeOf[d])
  BY NodeFields
<1>3. t \in TreeOf[d + 1] /\ t.attrs = f.attrs /\ t.kids = f.kids
  <2>1. TreeOf[d + 1] = Nodes(TreeOf[d])
    <3>1. TreeOf[d + 1] = Nodes(IF d + 1 = 0 THEN {} ELSE TreeOf[(d + 1) - 1])
      BY TreeOfExists
    <3>2. d + 1 # 0 /\ (d + 1) - 1 = d
      OBVIOUS
    <3> QED
      BY <3>1, <3>2
  <2>2. PICK S : S = TreeOf[d]
    OBVIOUS
  <2>3. t \in Nodes(S) /\ t.attrs = f.attrs /\ t.kids = f.kids
    BY <1>1, <1>2, <2>2 DEF NodeRead, Nodes
  <2> QED
    BY <2>1, <2>2, <2>3
<1>4. t \in Tree
  BY <1>3, TreeLevels
<1>5. TreeBlocks[t] = 2 + Total(Each(AttrBlocks, f.attrs)) + Total(Each(TreeBlocks, f.kids))
        /\ TreeBlocks[t] \in Nat
  BY <1>3, <1>4, TreeBlocksIs
<1>6. Owned(f) = 1 + Total(Each(AttrBlocks, f.attrs)) + Total(Each(TreeBlocks, f.kids))
  <2>1. Owned(f) = 1 + One(f.id # Null) + One(f.attr_allocated)
                     + Total(Each(AttrBlocks, f.attrs)) + Total(Each(TreeBlocks, f.kids))
    BY OwnedNode
  <2>2. One(f.id # Null) = 0 /\ One(f.attr_allocated) = 0
    BY DEF One
  <2>3. Total(Each(AttrBlocks, f.attrs)) \in Nat /\ Total(Each(TreeBlocks, f.kids)) \in Nat
    BY NodeFields, EachBlocks, EachTreeBlocks
  <2> QED
    BY <2>1, <2>2, <2>3
<1>7. Total(Each(AttrBlocks, f.attrs)) \in Nat /\ Total(Each(TreeBlocks, f.kids)) \in Nat
  BY NodeFields, EachBlocks, EachTreeBlocks
<1> QED
  BY <1>1, <1>3, <1>4, <1>5, <1>6, <1>7

LEMMA ReturnNodeSound ==
  ASSUME Sound(pc, frames, heap, result), pc = "item", ReturnNode
  PROVE  Sound(pc', frames', heap', result')
<1> DEFINE n == Len(frames)
           caller == frames[n - 1]
           node == NodeRead(frames[n], caller.id)
           below == Front(frames)
<1>1. Stack(frames) /\ Place(pc, frames) /\ heap = 1 + Total(OwnedBy(frames))
        /\ result \in Tree \cup {Null} /\ heap \in Nat
  BY DEF Sound
<1>2. /\ frames \in Seq(Frames) /\ n \in Nat /\ n > 1 /\ MaxDepth \in Nat
      /\ MaxDepth - n \in 0..MaxDepth /\ (MaxDepth - n) + 1 \in 0..MaxDepth
      /\ (MaxDepth - n) + 1 = MaxDepth - (n - 1)
  <2>1. n > 1
    BY <1>1 DEF Place
  <2>2. frames \in Seq(Frames) /\ n \in Nat /\ MaxDepth \in Nat /\ n <= MaxDepth
    BY <1>1, TextAssumption DEF Stack
  <2> QED
    BY <2>1, <2>2
<1>3. /\ frames[n] \in NodeAt(MaxDepth - n) /\ Calls(caller, frames[n])
      /\ frames[n].id = Null /\ frames[n].attr_allocated = FALSE
  <2>1. frames[n].fn = "read_node" /\ frames[n].id = Null /\ frames[n].attr_allocated = FALSE
    BY <1>1 DEF Place
  <2> QED
    BY <1>1, <1>2, <2>1, TopIs
<1>4. /\ Stack(below) /\ Len(below) = n - 1 /\ below[Len(below)] = caller
      /\ Total(OwnedBy(frames)) = Total(OwnedBy(below)) + Owned(frames[n])
      /\ Total(OwnedBy(below)) \in Nat /\ Owned(frames[n]) \in Nat
  <2>1. /\ Stack(below) /\ Len(below) = n - 1
        /\ \A i \in 1..(n - 1) : below[i] = frames[i]
        /\ Total(OwnedBy(frames)) = Total(OwnedBy(below)) + Owned(frames[n])
        /\ Total(OwnedBy(below)) \in Nat /\ Owned(frames[n]) \in Nat
    BY <1>1, <1>2, StackPop
  <2>2. n - 1 \in 1..(n - 1)
    BY <1>2
  <2> QED
    BY <2>1, <2>2
<1>5. caller.fn # "read_array" /\ (caller.fn = "ts_text_load"
        \/ (caller.fn = "read_node" /\ caller.id # Null /\ ~caller.attr_allocated))
  <2>1. frames[n].fn = "read_node"
    BY <1>2, <1>3, NodeFields
  <2> QED
    BY <1>3, <2>1 DEF Calls
<1>6. n - 1 = 1 => caller \in Loads
  <2>1. frames[1] \in Loads
    BY <1>1, <1>2 DEF Stack
  <2> QED
    BY <2>1
<1> HIDE DEF n
<1>7. n - 1 > 1 => caller \in NodeAt(MaxDepth - (n - 1)) /\ caller.fn = "read_node"
  <2>1. ASSUME n - 1 > 1
        PROVE  below[Len(below)] \in NodeAt(MaxDepth - (n - 1)) /\ caller.fn = "read_node"
    <3>1. below[Len(below)].fn \in {"read_node", "read_array"} /\
            (below[Len(below)].fn = "read_node" => below[Len(below)] \in NodeAt(MaxDepth - Len(below)))
      BY <1>4, <2>1, TopIs
    <3> QED
      BY <1>4, <1>5, <3>1
  <2> QED
    BY <1>4, <2>1
<1>8. caller.id \in Words
  <2>1. n - 1 = 1 \/ n - 1 > 1
    <3>1. n \in Nat /\ n > 1
      BY <1>2
    <3> QED
      BY <3>1
  <2>2. CASE n - 1 > 1
    <3>1. caller.id \in Words \cup {Null} /\ caller.id # Null
      BY <1>2, <1>5, <1>7, <2>2, NodeFields
    <3> QED
      BY <3>1
  <2> QED
    BY <1>6, <2>1, <2>2, LoadIs
<1>9. /\ node \in TreeOf[MaxDepth - (n - 1)] /\ node \in Tree
      /\ TreeBlocks[node] = Owned(frames[n]) + 1 /\ TreeBlocks[node] \in Nat
  BY <1>2, <1>3, <1>8, NodeReadIs
<1>10. IF caller.fn = "ts_text_load"
         THEN /\ pc' = "loaded" /\ frames' = <<>> /\ result' = node /\ heap' = heap - 1
         ELSE /\ frames' = OnTop(below, WithKid(caller, node))
              /\ pc' = pc /\ result' = result /\ heap' = heap
  BY <1>4 DEF ReturnNode, NodeRead, Top, Below, WithKid, n
<1> HIDE DEF below, node, caller
<1>11. CASE n - 1 = 1
  <2>1. caller.fn = "ts_text_load" /\ Owned(caller) = 1
    BY <1>6, <1>11, LoadIs
  <2>2. Total(OwnedBy(below)) = 1
    <3>1. Total(OwnedBy(below)) = Total(OwnedBy(Front(below))) + Owned(below[Len(below)])
            /\ Len(Front(below)) = Len(below) - 1 /\ Stack(Front(below))
            /\ Total(OwnedBy(Front(below))) \in Nat
      <4>1. Stack(below) /\ Len(below) > 0
        BY <1>4, <1>11
      <4> QED
        BY <4>1, StackPop
    <3>2. Front(below) = <<>>
      <4>1. Len(Front(below)) = 0
        BY <1>4, <1>11, <3>1
      <4> QED
        BY <3>1, <4>1, EmptySeq DEF Stack
    <3>3. Owned(below[Len(below)]) = 1
      BY <1>4, <2>1
    <3> QED
      BY <3>1, <3>2, <3>3, OwnedEmpty
  <2>3. pc' = "loaded" /\ frames' = <<>> /\ result' = node /\ heap' = TreeBlocks[node]
    BY <1>1, <1>4, <1>9, <1>10, <2>1, <2>2 DEF n
  <2>4. Stack(<<>>)
    <3>1. Len(<<>>) = 0 /\ <<>> \in Seq(Frames)
      BY EmptySeq
    <3> QED
      BY <1>2, <3>1 DEF Stack
  <2> QED
    BY <1>9, <2>3, <2>4 DEF Sound, Place, Places
<1>12. CASE n - 1 # 1
  <2>1. n - 1 > 1 /\ caller \in NodeAt(MaxDepth - (n - 1)) /\ caller.fn = "read_node"
    BY <1>2, <1>7, <1>12
  <2>2. PICK g : g = WithKid(caller, node)
    OBVIOUS
  <2>3. PICK d : d = MaxDepth - (n - 1)
    OBVIOUS
  <2>4. d \in 0..MaxDepth /\ caller \in NodeAt(d) /\ node \in TreeOf[d]
    BY <1>2, <1>9, <2>1, <2>3
  <2>5. g \in NodeAt(d) /\ g.id = Null /\ g.attr_allocated = caller.attr_allocated
          /\ g.attrs = caller.attrs /\ g.kids = Append(caller.kids, node)
    BY <2>2, <2>4, NodeGetsKid
  <2>6. g.attr_allocated = FALSE
    <3>1. caller.attr_allocated \in BOOLEAN
      BY <2>4, NodeFields
    <3> QED
      BY <1>5, <2>1, <2>5, <3>1
  <2>7. Owned(g) = Owned(caller) - 1 + TreeBlocks[node]
    <3>1. Owned(g) = 1 + One(g.id # Null) + One(g.attr_allocated)
                       + Total(Each(AttrBlocks, g.attrs)) + Total(Each(TreeBlocks, g.kids))
      BY <2>4, <2>5, OwnedNode
    <3>2. Owned(caller) = 1 + One(caller.id # Null) + One(caller.attr_allocated)
             + Total(Each(AttrBlocks, caller.attrs)) + Total(Each(TreeBlocks, caller.kids))
      BY <2>4, OwnedNode
    <3>3. One(g.id # Null) = 0 /\ One(caller.id # Null) = 1
      BY <1>5, <2>1, <2>5 DEF One
    <3>4. caller.attrs \in Seq(Attr) /\ caller.kids \in Seq(Tree)
      BY <2>4, NodeFields
    <3>5. Total(Each(TreeBlocks, g.kids)) = Total(Each(TreeBlocks, caller.kids)) + TreeBlocks[node]
      BY <1>9, <2>5, <3>4, BlocksAppend
    <3>6. Total(Each(TreeBlocks, caller.kids)) \in Nat /\ Total(Each(AttrBlocks, caller.attrs)) \in Nat
      BY <3>4, EachBlocks, EachTreeBlocks
    <3>7. One(g.attr_allocated) = One(caller.attr_allocated) /\ One(caller.attr_allocated) \in Nat
      BY <2>5 DEF One
    <3> QED
      BY <1>9, <2>5, <3>1, <3>2, <3>3, <3>5, <3>6, <3>7
  <2>8. Owned(caller) \in Nat
    BY <2>4, OwnedNode
  <2>9. g \in FrameOf(MaxDepth - Len(below)) /\ g.fn = "read_node" /\ Len(below) > 1
          /\ caller.fn = "read_node"
    BY <1>4, <2>1, <2>3, <2>4, <2>5, NodesAreFrames, NodeFields
  <2>10. /\ Stack(OnTop(below, g)) /\ Len(OnTop(below, g)) = Len(below)
         /\ OnTop(below, g)[Len(below)] = g
         /\ Total(OwnedBy(OnTop(below, g))) = Total(OwnedBy(below)) - Owned(caller) + Owned(g)
    <3>1. g.fn = below[Len(below)].fn
      BY <1>4, <2>9
    <3> QED
      BY <1>4, <2>9, <3>1, StackTop
  <2>11. frames' = OnTop(below, g) /\ pc' = "item" /\ result' = result /\ heap' = heap
    BY <1>10, <2>2, <2>9
  <2>12. heap = 1 + Total(OwnedBy(OnTop(below, g)))
    BY <1>1, <1>4, <1>9, <2>7, <2>8, <2>10 DEF n
  <2>13. PICK fr : fr = OnTop(below, g)
    OBVIOUS
  <2>14. Place("item", fr) /\ "item" \in Places \ {"loaded", "failed"}
    <3>1. Len(fr) > 1 /\ fr[Len(fr)] = g
      BY <2>9, <2>10, <2>13
    <3> QED
      BY <2>5, <2>6, <2>9, <3>1 DEF Place, Places
  <2> QED
    BY <1>1, <2>10, <2>11, <2>12, <2>13, <2>14, ReadingIsSound
<1> QED
  BY <1>11, <1>12

LEMMA ItemSound ==
  ASSUME Sound(pc, frames, heap, result), NEW tok \in Tokens \cup {EOF}, Item(tok)
  PROVE  Sound(pc', frames', heap', result')
<1>1. pc = "item"
  BY DEF Item
<1>2. CASE tok.type = "TOK_ID"
  <2>1. /\ pc' = "name" /\ frames' = OnTop(frames, [Top EXCEPT !.id = tok.text])
        /\ heap' = heap + 1 /\ result' = result
    BY <1>2 DEF Item
  <2>2. Stack(frames) /\ Place(pc, frames) /\ heap = 1 + Total(OwnedBy(frames))
          /\ result \in Tree \cup {Null} /\ heap \in Nat
    BY <1>1 DEF Sound
  <2>3. Len(frames) > 1 /\ Top.fn = "read_node" /\ Top.id = Null /\ Top.attr_allocated = FALSE
    BY <1>1, <2>2 DEF Place, Top
  <2>4. PICK d : d = MaxDepth - Len(frames)
    OBVIOUS
  <2>5. d \in 0..MaxDepth /\ Top \in NodeAt(d) /\ Len(frames) \in Nat
    BY <2>2, <2>3, <2>4, TopIs DEF Top
  <2>6. tok.text \in Words /\ tok.text # Null
    BY <1>2, TokenIs, TextAssumption DEF TokenKind
  <2>7. PICK g : g = [Top EXCEPT !.id = tok.text]
    OBVIOUS
  <2>8. g \in NodeAt(d) /\ g.id = tok.text /\ g.attr_allocated = Top.attr_allocated
          /\ g.attrs = Top.attrs /\ g.kids = Top.kids
    BY <2>5, <2>6, <2>7, NodeNamed
  <2>9. g.fn = "read_node" /\ g \in FrameOf(MaxDepth - Len(frames))
    BY <2>4, <2>5, <2>8, NodeFields, NodesAreFrames
  <2>10. Owned(g) = Owned(Top) + 1 /\ Owned(Top) \in Nat
    <3>1. Owned(g) = 1 + One(g.id # Null) + One(g.attr_allocated)
                       + Total(Each(AttrBlocks, g.attrs)) + Total(Each(TreeBlocks, g.kids))
      BY <2>5, <2>8, OwnedNode
    <3>2. Owned(Top) = 1 + One(Top.id # Null) + One(Top.attr_allocated)
             + Total(Each(AttrBlocks, Top.attrs)) + Total(Each(TreeBlocks, Top.kids))
             /\ Owned(Top) \in Nat
      BY <2>5, OwnedNode
    <3>3. One(g.id # Null) = 1 /\ One(Top.id # Null) = 0
      BY <2>3, <2>6, <2>8 DEF One
    <3>4. Total(Each(TreeBlocks, Top.kids)) \in Nat /\ Total(Each(AttrBlocks, Top.attrs)) \in Nat
            /\ One(Top.attr_allocated) \in Nat
      BY <2>5, NodeFields, EachBlocks, EachTreeBlocks DEF One
    <3> QED
      BY <2>8, <3>1, <3>2, <3>3, <3>4
  <2>11. /\ Stack(OnTop(frames, g)) /\ Len(OnTop(frames, g)) = Len(frames)
         /\ OnTop(frames, g)[Len(frames)] = g
         /\ Total(OwnedBy(OnTop(frames, g))) = Total(OwnedBy(frames)) - Owned(Top) + Owned(g)
    <3>1. g.fn = frames[Len(frames)].fn
      BY <2>3, <2>9 DEF Top
    <3> QED
      BY <2>2, <2>3, <2>9, <3>1, StackTop DEF Top
  <2>12. heap' = 1 + Total(OwnedBy(OnTop(frames, g)))
    <3>1. Total(OwnedBy(frames)) \in Nat
      BY <2>2, OwnedByType DEF Stack
    <3> QED
      BY <2>1, <2>2, <2>10, <2>11, <3>1
  <2>13. PICK fr : fr = OnTop(frames, g)
    OBVIOUS
  <2>14. Place("name", fr) /\ "name" \in Places \ {"loaded", "failed"}
    <3>1. Len(fr) > 1 /\ fr[Len(fr)] = g
      BY <2>3, <2>11, <2>13
    <3> QED
      BY <2>3, <2>6, <2>8, <2>9, <3>1 DEF Place, Places
  <2> QED
    BY <2>1, <2>2, <2>7, <2>11, <2>12, <2>13, <2>14, ReadingIsSound
<1>3. CASE tok.type # "TOK_ID" /\ tok = Sym("}")
  BY <1>1, <1>3, ReturnNodeSound DEF Item
<1>4. CASE tok.type # "TOK_ID" /\ tok # Sym("}")
  BY <1>1, <1>4, FailSound DEF Item
<1> QED
  BY <1>2, <1>3, <1>4

LEMMA AfterNameSound ==
  ASSUME Sound(pc, frames, heap, result), NEW tok \in Tokens \cup {EOF}, AfterName(tok)
  PROVE  Sound(pc', frames', heap', result')
<1>1. pc = "name"
  BY DEF AfterName
<1>2. CASE tok = Sym("=")
  <2>1. /\ pc' = "value" /\ frames' = OnTop(frames, [Top EXCEPT !.attr_allocated = TRUE])
        /\ heap' = heap + 1 /\ result' = result
    BY <1>2 DEF AfterName
  <2>2. Stack(frames) /\ Place(pc, frames) /\ heap = 1 + Total(OwnedBy(frames))
          /\ result \in Tree \cup {Null} /\ heap \in Nat
    BY <1>1 DEF Sound
  <2>3. Len(frames) > 1 /\ Top.fn = "read_node" /\ Top.id # Null /\ Top.attr_allocated = FALSE
    BY <1>1, <2>2 DEF Place, Top
  <2>4. PICK d : d = MaxDepth - Len(frames)
    OBVIOUS
  <2>5. d \in 0..MaxDepth /\ Top \in NodeAt(d) /\ Len(frames) \in Nat
    BY <2>2, <2>3, <2>4, TopIs DEF Top
  <2>7. PICK g : g = [Top EXCEPT !.attr_allocated = TRUE]
    OBVIOUS
  <2>8. g \in NodeAt(d) /\ g.id = Top.id /\ g.attr_allocated = TRUE
          /\ g.attrs = Top.attrs /\ g.kids = Top.kids
    BY <2>5, <2>7, NodeAllocates
  <2>9. g.fn = "read_node" /\ g \in FrameOf(MaxDepth - Len(frames))
    BY <2>4, <2>5, <2>8, NodeFields, NodesAreFrames
  <2>10. Owned(g) = Owned(Top) + 1 /\ Owned(Top) \in Nat
    <3>1. Owned(g) = 1 + One(g.id # Null) + One(g.attr_allocated)
                       + Total(Each(AttrBlocks, g.attrs)) + Total(Each(TreeBlocks, g.kids))
      BY <2>5, <2>8, OwnedNode
    <3>2. Owned(Top) = 1 + One(Top.id # Null) + One(Top.attr_allocated)
             + Total(Each(AttrBlocks, Top.attrs)) + Total(Each(TreeBlocks, Top.kids))
             /\ Owned(Top) \in Nat
      BY <2>5, OwnedNode
    <3>3. One(g.attr_allocated) = 1 /\ One(Top.attr_allocated) = 0
            /\ One(Top.id # Null) \in Nat /\ One(g.id # Null) = One(Top.id # Null)
      BY <2>3, <2>8 DEF One
    <3>4. Total(Each(TreeBlocks, Top.kids)) \in Nat /\ Total(Each(AttrBlocks, Top.attrs)) \in Nat
      BY <2>5, NodeFields, EachBlocks, EachTreeBlocks
    <3> QED
      BY <2>8, <3>1, <3>2, <3>3, <3>4
  <2>11. /\ Stack(OnTop(frames, g)) /\ Len(OnTop(frames, g)) = Len(frames)
         /\ OnTop(frames, g)[Len(frames)] = g
         /\ Total(OwnedBy(OnTop(frames, g))) = Total(OwnedBy(frames)) - Owned(Top) + Owned(g)
    <3>1. g.fn = frames[Len(frames)].fn
      BY <2>3, <2>9 DEF Top
    <3> QED
      BY <2>2, <2>3, <2>9, <3>1, StackTop DEF Top
  <2>12. heap' = 1 + Total(OwnedBy(OnTop(frames, g)))
    <3>1. Total(OwnedBy(frames)) \in Nat
      BY <2>2, OwnedByType DEF Stack
    <3> QED
      BY <2>1, <2>2, <2>10, <2>11, <3>1
  <2>13. PICK fr : fr = OnTop(frames, g)
    OBVIOUS
  <2>14. Place("value", fr) /\ "value" \in Places \ {"loaded", "failed"}
    <3>1. Len(fr) > 1 /\ fr[Len(fr)] = g
      BY <2>3, <2>11, <2>13
    <3> QED
      BY <2>3, <2>8, <2>9, <3>1 DEF Place, Places
  <2> QED
    BY <2>1, <2>2, <2>7, <2>11, <2>12, <2>13, <2>14, ReadingIsSound
<1>3. CASE tok # Sym("=") /\ tok = Sym("{")
  BY <1>1, <1>3, CallReadNodeSound DEF AfterName
<1>4. CASE tok # Sym("=") /\ tok # Sym("{")
  BY <1>1, <1>4, FailSound DEF AfterName
<1> QED
  BY <1>2, <1>3, <1>4

LEMMA DeliverIs ==
  ASSUME NEW stack, Stack(stack), Len(stack) > 1, NEW v \in ValueOf[MaxDepth - Len(stack)],
         stack[Len(stack)].fn = "read_node" =>
           stack[Len(stack)].id # Null /\ stack[Len(stack)].attr_allocated = TRUE,
         Deliver(stack, v)
  PROVE  /\ pc' \in {"item", "separator"} /\ Stack(frames') /\ Place(pc', frames')
         /\ result' = result
         /\ Total(OwnedBy(frames')) = Total(OwnedBy(stack)) + Kept(stack, v)
         /\ Kept(stack, v) \in Nat /\ Total(OwnedBy(stack)) \in Nat
<1> DEFINE reader == stack[Len(stack)]
<1>1. PICK d : d = MaxDepth - Len(stack)
  OBVIOUS
<1>2. /\ d \in 0..MaxDepth /\ Len(stack) \in Nat /\ v \in ValueOf[d] /\ reader \in FrameOf(d)
      /\ reader.fn = "read_node" => reader \in NodeAt(d)
      /\ reader.fn = "read_array" => reader \in ArrayAt(d)
      /\ reader.fn \in {"read_node", "read_array"}
  BY <1>1, TopIs
<1>3. v \in Value /\ ValueBlocks[v] \in Nat
  BY <1>2, ValueLevels, ValueBlocksIs
<1>4. result' = result
  BY DEF Deliver
<1>5. Total(OwnedBy(stack)) \in Nat
  BY OwnedByType DEF Stack
<1>6. CASE reader.fn = "read_node"
  <2>1. PICK attr : attr = [name |-> reader.id, val |-> v]
    OBVIOUS
  <2>2. PICK g : g = WithAttr(reader, attr)
    OBVIOUS
  <2>3. pc' = "item" /\ frames' = OnTop(stack, g)
    BY <1>6, <2>1, <2>2 DEF Deliver, WithAttr
  <2>4. reader \in NodeAt(d) /\ reader.id # Null /\ reader.attr_allocated = TRUE
    BY <1>2, <1>6
  <2>5. reader.id \in Words /\ attr \in Attr /\ attr.val = v
    <3>1. reader.id \in Words \cup {Null}
      BY <1>2, <2>4, NodeFields
    <3> QED
      BY <1>3, <2>1, <2>4, <3>1 DEF Attr
  <2>6. g \in NodeAt(d) /\ g.id = Null /\ g.attr_allocated = FALSE
          /\ g.attrs = Append(reader.attrs, attr) /\ g.kids = reader.kids
    <3>1. PICK f : f = reader
      OBVIOUS
    <3>2. f \in NodeAt(d) /\ g = WithAttr(f, attr)
      BY <2>2, <2>4, <3>1
    <3>3. g \in NodeAt(d) /\ g.id = Null /\ g.attr_allocated = FALSE
            /\ g.attrs = Append(f.attrs, attr) /\ g.kids = f.kids
      BY <1>2, <2>5, <3>2, NodeGetsAttr
    <3> QED
      BY <3>1, <3>3
  <2>7. Owned(g) = Owned(reader) + ValueBlocks[v] /\ Owned(reader) \in Nat
    <3>1. Owned(g) = 1 + One(g.id # Null) + One(g.attr_allocated)
                       + Total(Each(AttrBlocks, g.attrs)) + Total(Each(TreeBlocks, g.kids))
      BY <1>2, <2>6, OwnedNode
    <3>2. Owned(reader) = 1 + One(reader.id # Null) + One(reader.attr_allocated)
             + Total(Each(AttrBlocks, reader.attrs)) + Total(Each(TreeBlocks, reader.kids))
             /\ Owned(reader) \in Nat
      BY <1>2, <2>4, OwnedNode
    <3>3. One(g.id # Null) = 0 /\ One(reader.id # Null) = 1 /\ One(g.attr_allocated) = 0
            /\ One(reader.attr_allocated) = 1
      BY <2>4, <2>6 DEF One
    <3>4. reader.attrs \in Seq(Attr) /\ reader.kids \in Seq(Tree)
      BY <1>2, <2>4, NodeFields
    <3>5. Total(Each(AttrBlocks, g.attrs)) = Total(Each(AttrBlocks, reader.attrs)) + AttrBlocks[attr]
      BY <2>5, <2>6, <3>4, BlocksAppend
    <3>6. AttrBlocks[attr] = 2 + ValueBlocks[v]
      BY <2>5, AttrBlocksIs
    <3>7. Total(Each(TreeBlocks, reader.kids)) \in Nat /\ Total(Each(AttrBlocks, reader.attrs)) \in Nat
      BY <3>4, EachBlocks, EachTreeBlocks
    <3> HIDE DEF reader
    <3> QED
      BY <1>3, <2>6, <3>1, <3>2, <3>3, <3>5, <3>6, <3>7
  <2>8. g.fn = "read_node" /\ g \in FrameOf(MaxDepth - Len(stack))
    BY <1>1, <1>2, <2>6, NodeFields, NodesAreFrames
  <2>9. /\ Stack(OnTop(stack, g)) /\ Len(OnTop(stack, g)) = Len(stack)
        /\ OnTop(stack, g)[Len(stack)] = g
        /\ Total(OwnedBy(OnTop(stack, g))) = Total(OwnedBy(stack)) - Owned(reader) + Owned(g)
    BY <1>6, <2>8, StackTop
  <2>10. Kept(stack, v) = ValueBlocks[v]
    BY <1>6 DEF Kept
  <2>11. PICK fr : fr = OnTop(stack, g)
    OBVIOUS
  <2>12. Place("item", fr)
    <3>1. Len(fr) > 1 /\ fr[Len(fr)] = g
      BY <2>9, <2>11
    <3> QED
      BY <2>6, <2>8, <3>1 DEF Place
  <2> HIDE DEF reader
  <2> QED
    BY <1>3, <1>4, <1>5, <2>3, <2>7, <2>9, <2>10, <2>11, <2>12
<1>7. CASE reader.fn = "read_array"
  <2>1. PICK g : g = WithValue(reader, v)
    OBVIOUS
  <2>2. pc' = "separator" /\ frames' = OnTop(stack, g)
    BY <1>7, <2>1 DEF Deliver, WithValue
  <2>3. reader \in ArrayAt(d)
    BY <1>2, <1>7
  <2>4. g \in ArrayAt(d) /\ g.values = IF Stored(reader.values) THEN Append(reader.values, v)
                                       ELSE reader.values
    BY <1>2, <2>1, <2>3, ArrayGets
  <2>5. Owned(g) = Owned(reader) + Kept(stack, v) /\ Kept(stack, v) \in Nat /\ Owned(reader) \in Nat
    <3>1. Owned(g) = Total(Each(ValueBlocks, g.values))
            /\ Owned(reader) = Total(Each(ValueBlocks, reader.values)) /\ Owned(reader) \in Nat
      BY <1>2, <2>3, <2>4, OwnedArray
    <3>2. reader.values \in Seq(Value)
      BY <1>2, <2>3, ArrayFields
    <3>3. Total(Each(ValueBlocks, Append(reader.values, v)))
            = Total(Each(ValueBlocks, reader.values)) + ValueBlocks[v]
      BY <1>3, <3>2, BlocksAppend
    <3>4. Kept(stack, v) = IF Stored(reader.values) THEN ValueBlocks[v] ELSE 0
      BY <1>7 DEF Kept
    <3> HIDE DEF reader
    <3>5. CASE Stored(reader.values)
      BY <1>3, <2>4, <3>1, <3>3, <3>4, <3>5
    <3>6. CASE ~Stored(reader.values)
      BY <1>3, <2>4, <3>1, <3>4, <3>6
    <3> QED
      BY <3>5, <3>6
  <2>6. g.fn = "read_array" /\ g \in FrameOf(MaxDepth - Len(stack))
    BY <1>1, <1>2, <2>4, ArrayFields, NodesAreFrames
  <2>7. /\ Stack(OnTop(stack, g)) /\ Len(OnTop(stack, g)) = Len(stack)
        /\ OnTop(stack, g)[Len(stack)] = g
        /\ Total(OwnedBy(OnTop(stack, g))) = Total(OwnedBy(stack)) - Owned(reader) + Owned(g)
    BY <1>7, <2>6, StackTop
  <2>8. PICK fr : fr = OnTop(stack, g)
    OBVIOUS
  <2>9. Place("separator", fr)
    <3>1. Len(fr) > 1 /\ fr[Len(fr)] = g
      BY <2>7, <2>8
    <3> QED
      BY <2>6, <3>1 DEF Place
  <2> HIDE DEF reader
  <2> QED
    BY <1>4, <1>5, <2>2, <2>5, <2>7, <2>8, <2>9
<1> QED
  BY <1>2, <1>6, <1>7

LEMMA ReadValueSound ==
  ASSUME Sound(pc, frames, heap, result), pc \in {"value", "element"},
         NEW tok \in Tokens \cup {EOF}, tok # EOF, read_value(tok)
  PROVE  Sound(pc', frames', heap', result')
<1>1. Stack(frames) /\ Place(pc, frames) /\ heap = 1 + Total(OwnedBy(frames))
        /\ result \in Tree \cup {Null}
  BY DEF Sound
<1>2. /\ Len(frames) > 1 /\ Len(frames) \in Nat /\ MaxDepth \in Nat
      /\ MaxDepth - Len(frames) \in 0..MaxDepth
      /\ frames[Len(frames)].fn \in {"read_node", "read_array"}
      /\ frames[Len(frames)].fn = "read_node" =>
           frames[Len(frames)].id # Null /\ frames[Len(frames)].attr_allocated = TRUE
  <2>1. /\ Len(frames) > 1
        /\ frames[Len(frames)].fn = "read_node" =>
             frames[Len(frames)].id # Null /\ frames[Len(frames)].attr_allocated = TRUE
    BY <1>1 DEF Place
  <2> QED
    BY <1>1, <2>1, TopIs
<1>3. CASE tok \in {Sym("["), Sym("{")}
  <2>1. PICK c : c = IF tok = Sym("[") THEN "]" ELSE "}"
    OBVIOUS
  <2>2. c \in {"]", "}"}
    BY <2>1
  <2>3. PICK f : f = ArrayFrame(c)
    OBVIOUS
  <2>4. /\ Len(frames) < MaxDepth /\ pc' = "element" /\ frames' = Append(frames, f)
        /\ heap' = heap /\ result' = result
    BY <1>3, <2>1, <2>3 DEF read_value
  <2>5. MaxDepth - (Len(frames) + 1) \in 0..MaxDepth
    BY <1>2, <2>4
  <2>6. f \in FrameOf(MaxDepth - (Len(frames) + 1)) /\ Owned(f) = 0 /\ f.fn = "read_array"
    BY <2>2, <2>3, <2>5, NewFrames, NodesAreFrames
  <2>7. Calls(frames[Len(frames)], f)
    BY <1>2, <2>6 DEF Calls
  <2>8. /\ Stack(Append(frames, f)) /\ Len(Append(frames, f)) = Len(frames) + 1
        /\ Append(frames, f)[Len(frames) + 1] = f
        /\ Total(OwnedBy(Append(frames, f))) = Total(OwnedBy(frames)) + Owned(f)
    BY <1>1, <1>2, <2>4, <2>6, <2>7, StackPush
  <2>9. heap' = 1 + Total(OwnedBy(Append(frames, f)))
    <3>1. Total(OwnedBy(frames)) \in Nat
      BY <1>1, OwnedByType DEF Stack
    <3> QED
      BY <1>1, <2>4, <2>6, <2>8, <3>1
  <2>10. PICK fr : fr = Append(frames, f)
    OBVIOUS
  <2>11. Place("element", fr) /\ "element" \in Places \ {"loaded", "failed"}
    <3>1. Len(fr) > 1 /\ fr[Len(fr)] = f
      BY <1>2, <2>8, <2>10
    <3> QED
      BY <2>6, <3>1 DEF Place, Places
  <2> QED
    BY <1>1, <2>4, <2>8, <2>9, <2>10, <2>11, ReadingIsSound
<1>4. CASE tok \notin {Sym("["), Sym("{")}
  <2>1. PICK v : v = CASE tok.type = "TOK_NUM" -> ts_set_valuef(tok.text)
                       [] tok.type = "TOK_SYM" -> Unset
                       [] OTHER -> ts_set_value_str(tok.text)
    OBVIOUS
  <2>2. Deliver(frames, v) /\ heap' = heap + Kept(frames, v)
    BY <1>4, <2>1 DEF read_value
  <2>3. v \in Scalars
    <3>1. tok.type = "TOK_NUM" => tok.text \in Numbers
      BY TokenIs DEF TokenKind
    <3>2. tok.type \notin {"TOK_NUM", "TOK_SYM"} => tok.text \in Words \cup Strings
      BY TokenIs DEF TokenKind
    <3>3. CASE tok.type = "TOK_NUM"
      BY <2>1, <3>1, <3>3, ScalarsAreValues
    <3>4. CASE tok.type = "TOK_SYM"
      BY <2>1, <3>4, ScalarsAreValues
    <3>5. CASE tok.type \notin {"TOK_NUM", "TOK_SYM"}
      <4>1. v = ts_set_value_str(tok.text)
        BY <2>1, <3>5
      <4> QED
        BY <3>2, <3>5, <4>1, ScalarsAreValues
    <3> QED
      BY <3>3, <3>4, <3>5
  <2>4. v \in ValueOf[MaxDepth - Len(frames)]
    BY <1>2, <2>3, ScalarsAreValues
  <2>5. /\ pc' \in {"item", "separator"} /\ Stack(frames') /\ Place(pc', frames')
        /\ result' = result
        /\ Total(OwnedBy(frames')) = Total(OwnedBy(frames)) + Kept(frames, v)
        /\ Kept(frames, v) \in Nat /\ Total(OwnedBy(frames)) \in Nat
    BY <1>1, <1>2, <2>2, <2>4, DeliverIs
  <2>6. heap' = 1 + Total(OwnedBy(frames'))
    BY <1>1, <2>2, <2>5
  <2>7. pc' \in Places \ {"loaded", "failed"}
    BY <2>5 DEF Places
  <2> QED
    BY <1>1, <2>5, <2>6, <2>7, ReadingIsSound
<1> QED
  BY <1>3, <1>4

LEMMA ReturnArraySound ==
  ASSUME Sound(pc, frames, heap, result), pc \in {"element", "separator"}, ReturnArray
  PROVE  Sound(pc', frames', heap', result')
<1> DEFINE values == Top.values
           held == Total(Each(ValueBlocks, values))
           below == Front(frames)
<1>1. Stack(frames) /\ Place(pc, frames) /\ heap = 1 + Total(OwnedBy(frames))
        /\ result \in Tree \cup {Null}
  BY DEF Sound
<1>2. Len(frames) > 1 /\ Top.fn = "read_array" /\ Top = frames[Len(frames)]
  BY <1>1 DEF Place, Top
<1>3. PICK d : d = MaxDepth - Len(frames)
  OBVIOUS
<1>4. /\ d \in 0..MaxDepth /\ Len(frames) \in Nat /\ MaxDepth \in Nat /\ Top \in ArrayAt(d)
      /\ d + 1 = MaxDepth - (Len(frames) - 1) /\ d + 1 \in 0..MaxDepth
      /\ Calls(frames[Len(frames) - 1], Top)
  <2>1. d \in 0..MaxDepth /\ Len(frames) \in Nat /\ MaxDepth \in Nat /\ Top \in ArrayAt(d)
          /\ Calls(frames[Len(frames) - 1], Top)
    BY <1>1, <1>2, <1>3, TopIs
  <2> QED
    BY <1>2, <1>3, <2>1
<1>5. values \in Seq(ValueOf[d]) /\ Len(values) <= MaxStored /\ Len(values) \in Nat
  <2>1. values \in Seq(ValueOf[d]) /\ Len(values) <= MaxStored
    BY <1>4, ArrayFields
  <2> QED
    BY <2>1, LenProperties
<1>6. held = Owned(Top) /\ Owned(Top) \in Nat /\ FreedOnError(Top) = 0
  BY <1>4, OwnedArray
<1>7. CASE Len(values) < 2
  <2>1. Fail(held)
    BY <1>7 DEF ReturnArray
  <2>2. held \in Nat /\ Len(frames) > 0 /\ held = Owned(frames[Len(frames)])
          /\ FreedOnError(frames[Len(frames)]) = 0
    BY <1>2, <1>4, <1>6
  <2>3. pc \notin {"loaded", "failed"}
    OBVIOUS
  <2> HIDE DEF held
  <2> QED
    BY <2>1, <2>2, <2>3, FailSound
<1>8. CASE ~(Len(values) < 2)
  <2>1. PICK v : v = ts_set_value_arr(values)
    OBVIOUS
  <2>2. Deliver(below, v) /\ heap' = heap - held + Kept(below, v)
    BY <1>8, <2>1 DEF ReturnArray, Below
  <2>3. v \in ValueOf[d + 1]
    <3>1. PICK s : s = values
      OBVIOUS
    <3>2. s \in Lists(ValueOf[d])
      <4>1. MaxStored \in Nat
        BY TextAssumption
      <4>2. Len(s) \in 2..MaxStored
        BY <1>5, <1>8, <3>1, <4>1
      <4> QED
        BY <1>5, <3>1, <4>2 DEF Lists
    <3> QED
      BY <1>4, <2>1, <3>1, <3>2, SetArrayIs
  <2>4. /\ Stack(below) /\ Len(below) = Len(frames) - 1
        /\ \A i \in 1..(Len(frames) - 1) : below[i] = frames[i]
        /\ Total(OwnedBy(frames)) = Total(OwnedBy(below)) + Owned(Top)
        /\ Total(OwnedBy(below)) \in Nat
    BY <1>1, <1>2, <1>4, StackPop
  <2>5. PICK reader : reader = frames[Len(frames) - 1]
    OBVIOUS
  <2>6. below[Len(below)] = reader
    BY <1>2, <1>4, <2>4, <2>5
  <2>7. reader.fn = "read_array"
          \/ (reader.fn = "read_node" /\ reader.id # Null /\ reader.attr_allocated)
    BY <1>2, <1>4, <2>5 DEF Calls
  <2>8. Len(below) > 1 /\ v \in ValueOf[MaxDepth - Len(below)]
    <3>1. Len(frames) # 2
      <4>1. ASSUME Len(frames) = 2 PROVE reader.fn = "ts_text_load"
        <5>1. reader \in Loads
          BY <1>1, <2>5, <4>1 DEF Stack
        <5> QED
          BY <5>1, LoadIs
      <4> QED
        BY <2>7, <4>1
    <3>2. Len(below) > 1 /\ MaxDepth - Len(below) = d + 1
      BY <1>2, <1>4, <2>4, <3>1
    <3> QED
      BY <2>3, <3>2
  <2>9. reader.fn = "read_node" => reader.id # Null /\ reader.attr_allocated = TRUE
    <3>1. ASSUME reader.fn = "read_node" PROVE reader.attr_allocated \in BOOLEAN
      <4>1. below[Len(below)].fn = "read_node" =>
              below[Len(below)] \in NodeAt(MaxDepth - Len(below))
        BY <2>4, <2>8, TopIs
      <4>2. reader \in NodeAt(MaxDepth - Len(below)) /\ MaxDepth - Len(below) \in 0..MaxDepth
        BY <2>4, <2>6, <2>8, <3>1, <4>1, TopIs
      <4> QED
        BY <4>2, NodeFields
    <3> QED
      BY <2>7, <3>1
  <2> HIDE DEF below, held
  <2>10. /\ pc' \in {"item", "separator"} /\ Stack(frames') /\ Place(pc', frames')
         /\ result' = result
         /\ Total(OwnedBy(frames')) = Total(OwnedBy(below)) + Kept(below, v)
         /\ Kept(below, v) \in Nat
    BY <2>2, <2>4, <2>6, <2>8, <2>9, DeliverIs
  <2>11. heap' = 1 + Total(OwnedBy(frames'))
    BY <1>1, <1>6, <2>2, <2>4, <2>10
  <2>12. pc' \in Places \ {"loaded", "failed"}
    BY <2>10 DEF Places
  <2> QED
    BY <1>1, <2>10, <2>11, <2>12, ReadingIsSound
<1> QED
  BY <1>7, <1>8

LEMMA SeparatorSound ==
  ASSUME Sound(pc, frames, heap, result), NEW tok \in Tokens \cup {EOF}, Separator(tok)
  PROVE  Sound(pc', frames', heap', result')
<1>1. pc = "separator"
  BY DEF Separator
<1>2. CASE tok = Sym(Top.endsym)
  BY <1>1, <1>2, ReturnArraySound DEF Separator
<1>3. CASE tok # Sym(Top.endsym) /\ tok = Sym(",")
  <2>1. pc' = "element" /\ frames' = frames /\ heap' = heap /\ result' = result
    BY <1>3 DEF Separator
  <2>2. Place("element", frames)
    BY <1>1 DEF Sound, Place
  <2> QED
    BY <1>1, <2>1, <2>2 DEF Sound, Places
<1>4. CASE tok # Sym(Top.endsym) /\ tok # Sym(",")
  BY <1>1, <1>4, FailSound DEF Separator
<1> QED
  BY <1>2, <1>3, <1>4

LEMMA ValueSound ==
  ASSUME Sound(pc, frames, heap, result), NEW tok \in Tokens \cup {EOF},
         AttrValue(tok) \/ Element(tok)
  PROVE  Sound(pc', frames', heap', result')
<1>1. CASE AttrValue(tok)
  <2>1. pc = "value"
    BY <1>1 DEF AttrValue
  <2>2. CASE tok = EOF
    BY <1>1, <2>1, <2>2, FailSound DEF AttrValue
  <2>3. CASE tok # EOF
    BY <1>1, <2>1, <2>3, ReadValueSound DEF AttrValue
  <2> QED
    BY <2>2, <2>3
<1>2. CASE Element(tok)
  <2>1. pc = "element"
    BY <1>2 DEF Element
  <2>2. CASE tok = EOF
    BY <1>2, <2>1, <2>2, ReturnArraySound DEF Element
  <2>3. CASE tok # EOF
    BY <1>2, <2>1, <2>3, ReadValueSound DEF Element
  <2> QED
    BY <2>2, <2>3
<1> QED
  BY <1>1, <1>2

-----------------------------------------------------------------------------
LEMMA EmptyIsSound ==
  Stack(<<>>) /\ Place("root", <<>>) /\ Sound("root", <<>>, 1, Null)
<1>1. Stack(<<>>)
  <2>1. Len(<<>>) = 0 /\ <<>> \in Seq(Frames)
    BY EmptySeq
  <2>2. 0 <= MaxDepth
    BY TextAssumption
  <2> QED
    BY <2>1, <2>2 DEF Stack
<1>2. Place("root", <<>>) /\ "root" \in Places \ {"loaded", "failed"}
  BY DEF Place, Places
<1>3. 1 = 1 + Total(OwnedBy(<<>>))
  BY OwnedEmpty
<1> QED
  BY <1>1, <1>2, <1>3, ReadingIsSound

(* ts_text_load begins with no call in progress and one block, the token.  *)
LEMMA InitInv == Init => IInv
<1> SUFFICES ASSUME Init PROVE IInv
  OBVIOUS
<1>1. Sound(pc, frames, heap, result)
  BY EmptyIsSound DEF Init
<1>2. MaxTokens \in 0..MaxTokens /\ <<>> \in Seq(Tokens)
  BY TextAssumption, EmptySeq
<1> QED
  BY <1>1, <1>2 DEF Init, IInv

(* Every token read, and saving and loading again, keeps the invariant.     *)
LEMMA StepInv == IInv /\ [Next]_vars => IInv'
<1> SUFFICES ASSUME IInv, [Next]_vars PROVE IInv'
  OBVIOUS
<1>1. /\ Sound(pc, frames, heap, result)
      /\ left \in 0..MaxTokens /\ file \in Seq(Tokens) /\ original \in Tree \cup {Null}
  BY DEF IInv
<1>2. MaxTokens \in Nat
  BY TextAssumption
<1>3. ASSUME NEW tok \in Tokens \cup {EOF}, next_token(tok), UNCHANGED original,
             \/ RootName(tok) \/ RootBrace(tok) \/ Item(tok) \/ AfterName(tok)
             \/ AttrValue(tok) \/ Element(tok) \/ Separator(tok)
      PROVE  IInv'
  <2>1. Sound(pc', frames', heap', result')
    <3>1. CASE RootName(tok)
      BY <1>1, <3>1, RootNameSound
    <3>2. CASE RootBrace(tok)
      BY <1>1, <3>2, RootBraceSound
    <3>3. CASE Item(tok)
      BY <1>1, <3>3, ItemSound
    <3>4. CASE AfterName(tok)
      BY <1>1, <3>4, AfterNameSound
    <3>5. CASE AttrValue(tok) \/ Element(tok)
      BY <1>1, <3>5, ValueSound
    <3>6. CASE Separator(tok)
      BY <1>1, <3>6, SeparatorSound
    <3> QED
      BY <1>3, <3>1, <3>2, <3>3, <3>4, <3>5, <3>6
  <2>2. left' \in 0..MaxTokens
    BY <1>1, <1>2, <1>3 DEF next_token
  <2>3. file' \in Seq(Tokens)
    <3>1. file # <<>> => Tail(file) \in Seq(Tokens)
      BY <1>1
    <3> QED
      BY <1>1, <1>3, <3>1 DEF next_token
  <2> QED
    BY <1>1, <1>3, <2>1, <2>2, <2>3 DEF IInv
<1>4. CASE SaveAndReload
  <2>1. /\ pc = "loaded" /\ original' = result /\ file' = ts_text_save[result] /\ left' = 0
        /\ result' = Null /\ pc' = "root" /\ frames' = <<>>
        /\ heap' = heap - TreeBlocks[result] + 1
    BY <1>4 DEF SaveAndReload
  <2>2. result \in Tree /\ heap = TreeBlocks[result] /\ heap \in Nat
    BY <1>1, <2>1 DEF Sound
  <2>3. heap' = 1
    BY <2>1, <2>2
  <2>4. file' \in Seq(Tokens)
    BY <2>1, <2>2, SaveIs
  <2>5. Sound(pc', frames', heap', result')
    BY <2>1, <2>3, EmptyIsSound
  <2> QED
    BY <1>2, <2>1, <2>2, <2>4, <2>5 DEF IInv
<1>5. CASE UNCHANGED vars
  BY <1>1, <1>5 DEF IInv, vars
<1> QED
  BY <1>3, <1>4, <1>5 DEF Next

(* The calls in progress fit together and account for every block.         *)
THEOREM TextIsSound == Spec => []IInv
BY InitInv, StepInv, PTL DEF Spec

LEMMA SoundTypes ==
  IInv => TypeOK
<1> SUFFICES ASSUME IInv PROVE TypeOK
  OBVIOUS
<1>1. pc \in Places /\ Stack(frames) /\ heap \in Nat /\ result \in Tree \cup {Null}
        /\ left \in 0..MaxTokens /\ file \in Seq(Tokens) /\ original \in Tree \cup {Null}
  BY DEF IInv, Sound
<1>2. Len(frames) <= MaxDepth
  BY <1>1 DEF Stack
<1>3. ASSUME NEW i \in DOMAIN frames
      PROVE  IF i = 1 THEN frames[i] \in {LoadFrame(w) : w \in Words}
             ELSE frames[i] \in FrameOf(MaxDepth - i)
  <2>1. i \in 1..Len(frames) /\ Len(frames) \in Nat
    BY <1>1 DEF Stack
  <2>2. CASE i = 1
    BY <1>1, <2>1, <2>2 DEF Stack, Loads
  <2>3. CASE i # 1
    <3>1. i \in 2..Len(frames)
      BY <2>1, <2>3
    <3> QED
      BY <1>1, <2>3, <3>1 DEF Stack
  <2> QED
    BY <2>2, <2>3
<1>4. {result, original} \subseteq Tree \cup {Null}
  BY <1>1
<1> QED
  BY <1>1, <1>2, <1>3, <1>4 DEF TypeOK, Places

(* Whatever the file, each call of the recursive descent holds well-formed  *)
(* values and trees, no array has more elements than values[] has room for, *)
(* and what is loaded is a tree.                                           *)
THEOREM TypeCorrect == Spec => []TypeOK
BY TextIsSound, SoundTypes, PTL

LEMMA SoundLosesNothing ==
  IInv => NothingLost
BY DEF IInv, Sound, NothingLost, OwnedBy

(* Until an error, no block is lost or freed twice: a loaded tree is all    *)
(* that is allocated, and ts_free_tree frees all of it.                     *)
THEOREM LoadingLosesNothing == Spec => []NothingLost
BY TextIsSound, SoundLosesNothing, PTL

-----------------------------------------------------------------------------
(* The round trip.  Printable and AllPrintable are functions, too. *)
PrintableOf(v, elements) ==
  CASE v.type = "TS_STRING" -> v.text # Null
    [] v.type = "TS_NUMBER" -> Printed[v.text] = <<Num(v.text)>>
    [] v.type = "TS_VECTOR" -> FALSE
    [] v.type = "TS_ARRAY" -> \A i \in DOMAIN elements : elements[i] = TRUE

LEMMA PrintableOfIs ==
  ASSUME NEW v \in Value, NEW elements
  PROVE  PrintableOf(v, elements) \in BOOLEAN
<1>1. v.type \in {"TS_STRING", "TS_NUMBER", "TS_VECTOR", "TS_ARRAY"}
  BY ValueFields
<1> QED
  BY <1>1 DEF PrintableOf

(* The equation that defines Printable. *)
PrintableBy(f, v) ==
  CASE v.type = "TS_STRING" -> v.text # Null
    [] v.type = "TS_NUMBER" -> Printed[v.text] = <<Num(v.text)>>
    [] v.type = "TS_VECTOR" -> FALSE
    [] v.type = "TS_ARRAY" -> \A i \in DOMAIN v.array : f[v.array[i]]

LEMMA PrintableExists ==
  /\ Printable \in [Value -> BOOLEAN]
  /\ \A v \in Value : Printable[v] = PrintableBy(Printable, v)
<1> DEFINE step == [p \in Value \X Seq(BOOLEAN) |-> PrintableOf(p[1], p[2])]
<1>1. IsStep(step, Value, BOOLEAN)
  BY PrintableOfIs DEF IsStep
<1>2. PICK f : Recursive(f, step, Value, Elements, BOOLEAN)
  <2> HIDE DEF step
  <2> QED
    BY <1>1, ValueRecursion
<1>3. ASSUME NEW v \in Value PROVE f[v] = PrintableBy(f, v)
  <2>1. f[v] = step[<<v, Each(f, v.array)>>]
    <3> HIDE DEF step
    <3> QED
      BY <1>2 DEF Recursive, Elements
  <2>2. v.array \in Seq(Value)
    BY ValueArrayType
  <2>3. \A i \in DOMAIN v.array : v.array[i] \in Value
    BY <2>2
  <2>4. \A i \in DOMAIN v.array : f[v.array[i]] \in BOOLEAN
    BY <1>2, <2>3 DEF Recursive
  <2>5. Each(f, v.array) \in Seq(BOOLEAN)
    BY <2>2, <2>4, EachIs
  <2>6. f[v] = PrintableOf(v, Each(f, v.array))
    BY <2>1, <2>5
  <2>7. DOMAIN Each(f, v.array) = DOMAIN v.array
          /\ \A i \in DOMAIN v.array : Each(f, v.array)[i] = f[v.array[i]]
    BY <2>2, EachAt
  <2>8. (\A i \in DOMAIN v.array : f[v.array[i]])
          = (\A i \in DOMAIN v.array : f[v.array[i]] = TRUE)
    BY <2>4, Zenon
  <2>9. v.type \in {"TS_STRING", "TS_NUMBER", "TS_VECTOR", "TS_ARRAY"}
    BY ValueFields
  <2>10. CASE v.type = "TS_ARRAY"
    <3>1. PrintableOf(v, Each(f, v.array)) = (\A i \in DOMAIN v.array : f[v.array[i]] = TRUE)
      BY <2>7, <2>10 DEF PrintableOf
    <3>2. PrintableBy(f, v) = (\A i \in DOMAIN v.array : f[v.array[i]])
      BY <2>10 DEF PrintableBy
    <3> QED
      BY <2>6, <2>8, <3>1, <3>2, Zenon
  <2>11. CASE v.type # "TS_ARRAY"
    BY <2>6, <2>9, <2>11 DEF PrintableOf, PrintableBy
  <2> QED
    BY <2>10, <2>11
<1> HIDE DEF step
<1>4. f \in [Value -> BOOLEAN]
  BY <1>2 DEF Recursive
<1>5. f = [v \in Value |-> PrintableBy(f, v)]
  BY <1>3, <1>4
<1>6. Printable = [v \in Value |-> PrintableBy(Printable, v)]
  BY <1>5 DEF Printable, PrintableBy
<1>7. \A v \in Value : Printable[v] = PrintableBy(Printable, v)
  BY <1>6
<1> DEFINE P == {v \in Value : Printable[v] \in BOOLEAN}
<1>8. ASSUME NEW v \in Value PROVE PrintableBy(Printable, v) \in BOOLEAN
  <2>1. v.type \in {"TS_STRING", "TS_NUMBER", "TS_VECTOR", "TS_ARRAY"}
    BY ValueFields
  <2> QED
    BY <2>1 DEF PrintableBy
<1>9. Printable \in [Value -> BOOLEAN]
  BY <1>6, <1>8
<1> QED
  BY <1>7, <1>9

LEMMA PrintableIs ==
  ASSUME NEW v \in Value
  PROVE  /\ Printable[v] \in BOOLEAN
         /\ v.type = "TS_STRING" => (Printable[v] <=> v.text # Null)
         /\ v.type = "TS_NUMBER" => (Printable[v] <=> Printed[v.text] = <<Num(v.text)>>)
         /\ v.type = "TS_VECTOR" => ~Printable[v]
         /\ v.type = "TS_ARRAY" => (Printable[v] <=> \A i \in DOMAIN v.array : Printable[v.array[i]])
<1>1. Printable[v] \in BOOLEAN /\ Printable[v] = PrintableBy(Printable, v)
  BY PrintableExists
<1>2. v.type = "TS_STRING" => PrintableBy(Printable, v) = (v.text # Null)
  BY DEF PrintableBy
<1>3. v.type = "TS_NUMBER" => PrintableBy(Printable, v) = (Printed[v.text] = <<Num(v.text)>>)
  BY DEF PrintableBy
<1>4. v.type = "TS_VECTOR" => PrintableBy(Printable, v) = FALSE
  BY DEF PrintableBy
<1>5. v.type = "TS_ARRAY" =>
        PrintableBy(Printable, v) = (\A i \in DOMAIN v.array : Printable[v.array[i]])
  BY DEF PrintableBy
<1> QED
  BY <1>1, <1>2, <1>3, <1>4, <1>5, Zenon

AttrsPrintable(t) == \A i \in DOMAIN t.attrs : Printable[t.attrs[i].val]

AllPrintableOf(t, kids) == AttrsPrintable(t) /\ \A i \in DOMAIN kids : kids[i] = TRUE

AllPrintableBy(f, t) ==
  /\ \A i \in DOMAIN t.attrs : Printable[t.attrs[i].val]
  /\ \A i \in DOMAIN t.kids : f[t.kids[i]]

LEMMA AllPrintableExists ==
  /\ AllPrintable \in [Tree -> BOOLEAN]
  /\ \A t \in Tree : AllPrintable[t] = AllPrintableBy(AllPrintable, t)
<1> DEFINE step == [p \in Tree \X Seq(BOOLEAN) |-> AllPrintableOf(p[1], p[2])]
<1>1. IsStep(step, Tree, BOOLEAN)
  BY DEF IsStep, AllPrintableOf
<1>2. PICK f : Recursive(f, step, Tree, Kids, BOOLEAN)
  <2> HIDE DEF step
  <2> QED
    BY <1>1, TreeRecursion
<1>3. ASSUME NEW t \in Tree PROVE f[t] = AllPrintableBy(f, t)
  <2>1. f[t] = step[<<t, Each(f, t.kids)>>]
    <3> HIDE DEF step
    <3> QED
      BY <1>2 DEF Recursive, Kids
  <2>2. t.kids \in Seq(Tree)
    BY TreeFields
  <2>3. \A i \in DOMAIN t.kids : t.kids[i] \in Tree
    BY <2>2
  <2>4. \A i \in DOMAIN t.kids : f[t.kids[i]] \in BOOLEAN
    BY <1>2, <2>3 DEF Recursive
  <2>5. Each(f, t.kids) \in Seq(BOOLEAN)
    BY <2>2, <2>4, EachIs
  <2>6. f[t] = AllPrintableOf(t, Each(f, t.kids))
    BY <2>1, <2>5
  <2>7. DOMAIN Each(f, t.kids) = DOMAIN t.kids
          /\ \A i \in DOMAIN t.kids : Each(f, t.kids)[i] = f[t.kids[i]]
    BY <2>2, EachAt
  <2>8. (\A i \in DOMAIN t.kids : f[t.kids[i]])
          = (\A i \in DOMAIN t.kids : f[t.kids[i]] = TRUE)
    BY <2>4, Zenon
  <2>9. AllPrintableOf(t, Each(f, t.kids))
          = (AttrsPrintable(t) /\ (\A i \in DOMAIN t.kids : f[t.kids[i]] = TRUE))
    BY <2>7 DEF AllPrintableOf
  <2>10. AllPrintableBy(f, t) = (AttrsPrintable(t) /\ (\A i \in DOMAIN t.kids : f[t.kids[i]]))
    BY DEF AllPrintableBy, AttrsPrintable
  <2> QED
    BY <2>6, <2>8, <2>9, <2>10, Zenon
<1> HIDE DEF step
<1>4. f \in [Tree -> BOOLEAN]
  BY <1>2 DEF Recursive
<1>5. f = [t \in Tree |-> AllPrintableBy(f, t)]
  BY <1>3, <1>4
<1>6. AllPrintable = [t \in Tree |-> AllPrintableBy(AllPrintable, t)]
  BY <1>5 DEF AllPrintable, AllPrintableBy
<1>7. \A t \in Tree : AllPrintable[t] = AllPrintableBy(AllPrintable, t)
  BY <1>6
<1>8. ASSUME NEW t \in Tree PROVE AllPrintableBy(AllPrintable, t) \in BOOLEAN
  BY DEF AllPrintableBy
<1>9. AllPrintable \in [Tree -> BOOLEAN]
  BY <1>6, <1>8
<1> QED
  BY <1>7, <1>9

LEMMA AllPrintableIs ==
  ASSUME NEW t \in Tree
  PROVE  /\ AllPrintable[t] \in BOOLEAN
         /\ AllPrintable[t] <=> /\ \A i \in DOMAIN t.attrs : Printable[t.attrs[i].val]
                                /\ \A i \in DOMAIN t.kids : AllPrintable[t.kids[i]]
<1>1. AllPrintable[t] \in BOOLEAN /\ AllPrintable[t] = AllPrintableBy(AllPrintable, t)
  BY AllPrintableExists
<1>2. AllPrintableBy(AllPrintable, t) = (/\ \A i \in DOMAIN t.attrs : Printable[t.attrs[i].val]
                                         /\ \A i \in DOMAIN t.kids : AllPrintable[t.kids[i]])
  BY DEF AllPrintableBy
<1> QED
  BY <1>1, <1>2, Zenon

(* What a copy is: a scalar is itself, of an array each element is copied.  *)
LEMMA CopyOfScalar ==
  ASSUME NEW v \in Scalars
  PROVE  ts_copy_value[v] = v
<1>1. v \in Value /\ v.vec = <<>> /\ v.array = <<>>
  BY ScalarsAreValues, ScalarFields
<1>2. Each(ts_copy_value, v.array) = v.array
  BY <1>1 DEF Each
<1> QED
  BY <1>1, <1>2, CopyIs

LEMMA EachItself ==
  ASSUME NEW f, NEW D, NEW s \in Seq(D), \A i \in DOMAIN s : f[s[i]] = s[i]
  PROVE  Each(f, s) = s
<1>1. DOMAIN s = 1..Len(s) /\ s = [i \in 1..Len(s) |-> s[i]]
  OBVIOUS
<1>2. Each(f, s) = [i \in 1..Len(s) |-> f[s[i]]]
  BY <1>1 DEF Each
<1> QED
  BY <1>1, <1>2

LEMMA CopyTwice ==
  ASSUME NEW v \in Value
  PROVE  ts_copy_value[ts_copy_value[v]] = ts_copy_value[v]
<1> DEFINE P == {x \in Value : ts_copy_value[ts_copy_value[x]] = ts_copy_value[x]}
<1>1. ASSUME NEW x \in Value, \A i \in DOMAIN x.array : x.array[i] \in P
      PROVE  x \in P
  <2>1. PICK c : c = ts_copy_value[x]
    OBVIOUS
  <2>2. c \in Value /\ c.vec = <<>> /\ c.array = Each(ts_copy_value, x.array)
    BY <2>1, CopyIs
  <2>3. x.array \in Seq(Value) /\ c.array \in Seq(Value)
    BY <2>2, ValueArrayType
  <2>4. DOMAIN c.array = DOMAIN x.array
          /\ \A i \in DOMAIN x.array : c.array[i] = ts_copy_value[x.array[i]]
    BY <2>2, <2>3, EachAt
  <2>5. \A i \in DOMAIN x.array : ts_copy_value[ts_copy_value[x.array[i]]] = ts_copy_value[x.array[i]]
    BY <1>1
  <2>6. \A i \in DOMAIN c.array : ts_copy_value[c.array[i]] = c.array[i]
    BY <2>4, <2>5
  <2>7. Each(ts_copy_value, c.array) = c.array
    BY <2>3, <2>6, EachItself
  <2>8. ts_copy_value[c] = c
    BY <2>2, <2>7, CopyIs
  <2> QED
    BY <2>1, <2>8
<1>2. Value \subseteq P
  <2> HIDE DEF P
  <2> QED
    BY <1>1, ValueInduct
<1> QED
  BY <1>2

LEMMA ValueKind ==
  ASSUME NEW v \in Value
  PROVE  v \in Scalars \/ (v \notin Scalars /\ v.type \in {"TS_VECTOR", "TS_ARRAY"})
BY CompoundFields

LEMMA PrintableCopies ==
  ASSUME NEW v \in Value, Printable[v]
  PROVE  ts_copy_value[v] = v
<1> DEFINE P == {x \in Value : Printable[x] => ts_copy_value[x] = x}
<1>1. ASSUME NEW x \in Value, \A i \in DOMAIN x.array : x.array[i] \in P
      PROVE  x \in P
  <2>1. CASE x \in Scalars
    BY <2>1, CopyOfScalar
  <2>2. CASE x \notin Scalars /\ Printable[x]
    <3>1. x.type = "TS_ARRAY" /\ x.vec = <<>>
      BY <2>2, CompoundFields, PrintableIs
    <3>2. \A i \in DOMAIN x.array : Printable[x.array[i]]
      BY <2>2, <3>1, PrintableIs
    <3>3. \A i \in DOMAIN x.array : ts_copy_value[x.array[i]] = x.array[i]
      BY <1>1, <3>2
    <3>4. x.array \in Seq(Value)
      BY ValueArrayType
    <3>5. Each(ts_copy_value, x.array) = x.array
      BY <3>3, <3>4, EachItself
    <3>6. ts_copy_value[x] = x
      BY <3>1, <3>5, CopyIs
    <3> QED
      BY <3>6
  <2>3. CASE ~Printable[x]
    BY <2>3
  <2> QED
    BY <2>1, <2>2, <2>3
<1>2. Value \subseteq P
  <2> HIDE DEF P
  <2> QED
    BY <1>1, ValueInduct
<1> QED
  BY <1>2

(* An array that is read as it was printed is the one that was saved. *)
LEMMA SetArrayBack ==
  ASSUME NEW v \in Value, v.type = "TS_ARRAY", Printable[v]
  PROVE  ts_set_value_arr(v.array) = v
<1>1. v \notin Scalars
  BY ScalarFields
<1>2. PICK d \in 0..MaxDepth : v \in Compound(IF d = 0 THEN {} ELSE ValueOf[d - 1])
  <2>1. MaxDepth \in 0..MaxDepth
    BY TextAssumption
  <2> QED
    BY <1>1, <2>1, ValueOfExists DEF Value
<1>3. /\ v = [type |-> v.type, text |-> v.text, vec |-> v.vec, vec_size |-> v.vec_size, array |-> v.array]
      /\ v.text = Null /\ v.vec = <<>> /\ v.vec_size = 0
  <2>1. PICK S : S = IF d = 0 THEN {} ELSE ValueOf[d - 1]
    OBVIOUS
  <2>2. v \in Compound(S)
    BY <1>2, <2>1
  <2> QED
    BY <2>2 DEF Compound
<1>4. ~AllNumbers(v.array)
  BY <1>1, CompoundFields
<1>5. Each(ts_copy_value, v.array) = v.array
  <2>1. \A i \in DOMAIN v.array : Printable[v.array[i]]
    BY PrintableIs
  <2>2. v.array \in Seq(Value) /\ \A i \in DOMAIN v.array : v.array[i] \in Value
    BY ValueArrayType
  <2>3. \A i \in DOMAIN v.array : ts_copy_value[v.array[i]] = v.array[i]
    BY <2>1, <2>2, PrintableCopies
  <2> QED
    BY <2>2, <2>3, EachItself
<1>6. PICK a : a = v.array
  OBVIOUS
<1>7. ts_set_value_arr(a) = [type |-> "TS_ARRAY", text |-> Null, vec |-> <<>>, vec_size |-> 0, array |-> a]
  BY <1>4, <1>5, <1>6 DEF ts_set_value_arr, Unset
<1> QED
  BY <1>3, <1>6, <1>7

-----------------------------------------------------------------------------
(* A call that reads a tree or value t again expects e next; fn is the call *)
(* that will return it.  Filled is the frame once something is returned.    *)
Goal(f) == IF f.fn = "read_node" THEN Tree ELSE Value

Expects(f, fn, t, e) ==
  IF fn = "read_node"
    THEN f.fn = "read_node" /\ Len(f.kids) + 1 \in DOMAIN t.kids /\ e = t.kids[Len(f.kids) + 1]
    ELSE IF f.fn = "read_node"
           THEN Len(f.attrs) + 1 \in DOMAIN t.attrs /\ e = t.attrs[Len(f.attrs) + 1].val
           ELSE Len(f.values) + 1 \in DOMAIN t.array /\ e = t.array[Len(f.values) + 1]

Filled(f, fn, x) ==
  IF fn = "read_node" THEN WithKid(f, x)
  ELSE IF f.fn = "read_node" THEN WithAttr(f, [name |-> f.id, val |-> x])
       ELSE WithValue(f, x)

(* What a call has read differs from t, and so will what it returns. *)
NodeDiffers(f, t) ==
  \/ \E i \in DOMAIN f.attrs : i \in DOMAIN t.attrs /\ f.attrs[i] # t.attrs[i]
  \/ \E i \in DOMAIN f.kids : i \in DOMAIN t.kids /\ f.kids[i] # t.kids[i]
ArrayDiffers(f, t) ==
  \E i \in DOMAIN f.values : i \in DOMAIN t.array /\ ts_copy_value[f.values[i]] # t.array[i]
Differs(f, t) == IF f.fn = "read_node" THEN NodeDiffers(f, t) ELSE ArrayDiffers(f, t)

(* g has read what f has. *)
Prefix(s, u) == DOMAIN s \subseteq DOMAIN u /\ \A i \in DOMAIN s : u[i] = s[i]
Grown(f, g) ==
  /\ g.fn = f.fn
  /\ IF f.fn = "read_node" THEN Prefix(f.attrs, g.attrs) /\ Prefix(f.kids, g.kids)
     ELSE Prefix(f.values, g.values)

LEMMA GrownDiffers ==
  ASSUME NEW f, NEW g, Grown(f, g), NEW t, Differs(f, t)
  PROVE  Differs(g, t) /\ Goal(g) = Goal(f)
<1>1. g.fn = f.fn
  BY DEF Grown
<1>2. CASE f.fn = "read_node"
  BY <1>1, <1>2 DEF Grown, Prefix, Differs, NodeDiffers, Goal
<1>3. CASE f.fn # "read_node"
  BY <1>1, <1>3 DEF Grown, Prefix, Differs, ArrayDiffers, Goal
<1> QED
  BY <1>2, <1>3

LEMMA PrefixAppend ==
  ASSUME NEW S, NEW s \in Seq(S), NEW x \in S
  PROVE  Prefix(s, Append(s, x)) /\ Prefix(s, s)
<1>1. DOMAIN s = 1..Len(s) /\ Len(s) \in Nat
  OBVIOUS
<1> QED
  BY <1>1, AppendIs DEF Prefix

(* An item that a call of depth d may return to a call below it. *)
Fits(f, d, fn, x) ==
  IF fn = "read_node" THEN f \in NodeAt(d) /\ x \in TreeOf[d]
  ELSE x \in ValueOf[d] /\ (f \in ArrayAt(d) \/ (f \in NodeAt(d) /\ f.id \in Words))

FilledAs(f, fn, x, g) ==
  /\ g.fn = f.fn /\ Grown(f, g)
  /\ fn = "read_node" =>
       f.fn = "read_node" /\ g.attrs = f.attrs /\ g.kids = Append(f.kids, x)
  /\ fn # "read_node" /\ f.fn = "read_node" =>
       g.kids = f.kids /\ g.attrs = Append(f.attrs, [name |-> f.id, val |-> x])
  /\ fn # "read_node" /\ f.fn # "read_node" =>
       g.values = IF Stored(f.values) THEN Append(f.values, x) ELSE f.values

LEMMA FilledIs ==
  ASSUME NEW d \in 0..MaxDepth, NEW f, NEW fn, NEW x, Fits(f, d, fn, x)
  PROVE  FilledAs(f, fn, x, Filled(f, fn, x))
<1>1. PICK g : g = Filled(f, fn, x)
  OBVIOUS
<1>2. CASE fn = "read_node"
  <2>1. f \in NodeAt(d) /\ x \in TreeOf[d] /\ g = WithKid(f, x)
    BY <1>1, <1>2 DEF Fits, Filled
  <2>2. g \in NodeAt(d) /\ g.attrs = f.attrs /\ g.kids = Append(f.kids, x)
    BY <2>1, NodeGetsKid
  <2>3. f.fn = "read_node" /\ g.fn = "read_node" /\ f.kids \in Seq(TreeOf[d]) /\ f.attrs \in Seq(Attr)
    BY <2>1, <2>2, NodeFields
  <2>4. Prefix(f.kids, g.kids) /\ Prefix(f.attrs, g.attrs)
    <3>1. Prefix(f.kids, g.kids)
      BY <2>1, <2>2, <2>3, PrefixAppend
    <3> QED
      BY <2>2, <3>1 DEF Prefix
  <2> QED
    BY <1>1, <1>2, <2>2, <2>3, <2>4 DEF Grown, FilledAs
<1>3. CASE fn # "read_node" /\ f.fn = "read_node"
  <2>1. f \in NodeAt(d) /\ f.id \in Words /\ x \in ValueOf[d]
    BY <1>3, ArrayFields DEF Fits
  <2>2. PICK attr : attr = [name |-> f.id, val |-> x]
    OBVIOUS
  <2>3. attr \in Attr
    BY <2>1, <2>2, ValueLevels DEF Attr
  <2>4. g = WithAttr(f, attr)
    BY <1>1, <1>3, <2>2 DEF Filled
  <2>5. g \in NodeAt(d) /\ g.attrs = Append(f.attrs, attr) /\ g.kids = f.kids
    BY <2>1, <2>3, <2>4, NodeGetsAttr
  <2>6. g.fn = "read_node" /\ f.attrs \in Seq(Attr)
    BY <2>1, <2>5, NodeFields
  <2>7. Prefix(f.attrs, g.attrs) /\ Prefix(f.kids, g.kids)
    <3>1. Prefix(f.attrs, g.attrs)
      BY <2>3, <2>5, <2>6, PrefixAppend
    <3> QED
      BY <2>5, <3>1 DEF Prefix
  <2> QED
    BY <1>1, <1>3, <2>2, <2>5, <2>6, <2>7 DEF Grown, FilledAs
<1>4. CASE fn # "read_node" /\ f.fn # "read_node"
  <2>1. f \in ArrayAt(d) /\ x \in ValueOf[d]
    BY <1>4, NodeFields DEF Fits
  <2>2. g = WithValue(f, x)
    BY <1>1, <1>4 DEF Filled
  <2>3. g \in ArrayAt(d) /\ g.values = IF Stored(f.values) THEN Append(f.values, x) ELSE f.values
    BY <2>1, <2>2, ArrayGets
  <2>4. f.fn = "read_array" /\ g.fn = "read_array" /\ f.values \in Seq(ValueOf[d])
    BY <2>1, <2>3, ArrayFields
  <2>5. Prefix(f.values, g.values)
    <3>1. Prefix(f.values, Append(f.values, x)) /\ Prefix(f.values, f.values)
      BY <2>1, <2>4, PrefixAppend
    <3> QED
      BY <2>3, <3>1
  <2> QED
    BY <1>1, <1>4, <2>3, <2>4, <2>5 DEF Grown, FilledAs
<1> QED
  BY <1>2, <1>3, <1>4

(* What is expected is not what is read: the frame differs. *)
LEMMA FilledDiffers ==
  ASSUME NEW d \in 0..MaxDepth, NEW f, NEW fn, NEW x, Fits(f, d, fn, x),
         NEW t \in Goal(f), NEW e, Expects(f, fn, t, e), x # e,
         fn # "read_node" => ts_copy_value[x] # e
  PROVE  Differs(Filled(f, fn, x), t)
<1>1. PICK g : g = Filled(f, fn, x)
  OBVIOUS
<1>0. FilledAs(f, fn, x, g)
  BY <1>1, FilledIs
<1>2. CASE fn = "read_node"
  <2>1. f.fn = "read_node" /\ g.fn = "read_node" /\ g.kids = Append(f.kids, x)
    BY <1>0, <1>2 DEF FilledAs
  <2>2. f.kids \in Seq(TreeOf[d]) /\ x \in TreeOf[d]
    BY <1>2, NodeFields DEF Fits
  <2>3. PICK k : k = Len(f.kids) + 1
    OBVIOUS
  <2>4. k \in DOMAIN g.kids /\ g.kids[k] = x
    BY <2>1, <2>2, <2>3, AppendIs
  <2>5. k \in DOMAIN t.kids /\ t.kids[k] # x
    BY <1>2, <2>3 DEF Expects
  <2> QED
    BY <1>1, <2>1, <2>4, <2>5 DEF Differs, NodeDiffers
<1>3. CASE fn # "read_node" /\ f.fn = "read_node"
  <2>1. PICK attr : attr = [name |-> f.id, val |-> x]
    OBVIOUS
  <2>2. g.fn = "read_node" /\ g.attrs = Append(f.attrs, attr)
    BY <1>0, <1>3, <2>1 DEF FilledAs
  <2>3. f.attrs \in Seq(Attr) /\ attr \in Attr
    BY <1>3, <2>1, NodeFields, ArrayFields, ValueLevels DEF Fits, Attr
  <2>4. PICK k : k = Len(f.attrs) + 1
    OBVIOUS
  <2>5. k \in DOMAIN g.attrs /\ g.attrs[k] = attr
    BY <2>2, <2>3, <2>4, AppendIs
  <2>6. k \in DOMAIN t.attrs /\ t.attrs[k].val # x
    BY <1>3, <2>4 DEF Expects
  <2>7. attr.val = x
    BY <2>1
  <2>8. g.attrs[k] # t.attrs[k]
    BY <2>5, <2>6, <2>7
  <2> QED
    BY <1>1, <2>2, <2>5, <2>6, <2>8 DEF Differs, NodeDiffers
<1>4. CASE fn # "read_node" /\ f.fn # "read_node"
  <2>1. PICK k : k = Len(f.values) + 1
    OBVIOUS
  <2>2. k \in DOMAIN t.array /\ t.array[k] = e
    BY <1>4, <2>1 DEF Expects
  <2>3. f \in ArrayAt(d) /\ x \in ValueOf[d]
    BY <1>4, NodeFields DEF Fits
  <2>4. f.values \in Seq(ValueOf[d]) /\ Len(f.values) \in Nat
    BY <2>3, ArrayFields, LenProperties
  <2>5. Stored(f.values)
    <3>1. t \in Value
      BY <1>4 DEF Goal
    <3>2. t \notin Scalars
      BY <2>2, ScalarFields
    <3>3. t.array \in Seq(Value) /\ Len(t.array) <= MaxStored /\ Len(t.array) \in Nat /\ MaxStored \in Nat
      BY <3>1, <3>2, CompoundFields, TextAssumption, LenProperties
    <3>4. k <= Len(t.array)
      BY <2>2, <3>3
    <3> QED
      BY <2>1, <2>4, <3>3, <3>4 DEF Stored
  <2>6. g.fn # "read_node" /\ g.values = Append(f.values, x)
    BY <1>0, <1>4, <2>5 DEF FilledAs
  <2>7. k \in DOMAIN g.values /\ g.values[k] = x
    BY <2>1, <2>3, <2>4, <2>6, AppendIs
  <2> QED
    BY <1>1, <1>4, <2>2, <2>6, <2>7 DEF Differs, ArrayDiffers
<1> QED
  BY <1>2, <1>3, <1>4

LEMMA ReturnDiffers ==
  ASSUME NEW d \in 0..MaxDepth, NEW t
  PROVE  /\ \A f \in NodeAt(d), w \in Words : Differs(f, t) => NodeRead(f, w) # t
         /\ \A f \in ArrayAt(d) :
              Differs(f, t) /\ d + 1 \in 0..MaxDepth /\ f.values \in Lists(ValueOf[d]) =>
                ts_set_value_arr(f.values) # t /\ ts_copy_value[ts_set_value_arr(f.values)] # t
<1>1. ASSUME NEW f \in NodeAt(d), NEW w \in Words, Differs(f, t) PROVE NodeRead(f, w) # t
  <2>1. NodeDiffers(f, t)
    BY <1>1, NodeFields DEF Differs
  <2>2. PICK r : r = NodeRead(f, w)
    OBVIOUS
  <2>3. r.attrs = f.attrs /\ r.kids = f.kids
    BY <2>2 DEF NodeRead
  <2> QED
    BY <2>1, <2>2, <2>3 DEF NodeDiffers
<1>2. ASSUME NEW f \in ArrayAt(d), Differs(f, t), d + 1 \in 0..MaxDepth, f.values \in Lists(ValueOf[d])
      PROVE  ts_set_value_arr(f.values) # t /\ ts_copy_value[ts_set_value_arr(f.values)] # t
  <2>1. PICK i \in DOMAIN f.values : i \in DOMAIN t.array /\ ts_copy_value[f.values[i]] # t.array[i]
    BY <1>2, ArrayFields DEF Differs, ArrayDiffers
  <2>2. PICK v : v = ts_set_value_arr(f.values)
    OBVIOUS
  <2>3. v \in Value /\ v.array = Each(ts_copy_value, f.values)
    <3>1. v \in ValueOf[d + 1] /\ v.array = Each(ts_copy_value, f.values)
      BY <1>2, <2>2, SetArrayIs
    <3> QED
      BY <1>2, <3>1, ValueLevels
  <2>4. f.values \in Seq(Value)
    BY <1>2, ArrayFields
  <2>5. v.array[i] = ts_copy_value[f.values[i]] /\ i \in DOMAIN v.array
    BY <2>1, <2>3, <2>4, EachAt
  <2>6. v.array \in Seq(Value)
    BY <2>3, ValueArrayType
  <2>7. ts_copy_value[v].array[i] = ts_copy_value[v.array[i]]
    BY <2>3, <2>5, <2>6, CopyIs, EachAt
  <2>8. ts_copy_value[v.array[i]] = ts_copy_value[f.values[i]]
    BY <2>4, <2>5, CopyTwice
  <2> QED
    BY <2>1, <2>2, <2>5, <2>7, <2>8
<1> QED
  BY <1>1, <1>2

-----------------------------------------------------------------------------
(* What is left of a saved tree after its first a attributes and k          *)
(* children, and of an array after its first m elements.                    *)
AttrsRest(t, a) == After(Each(print_attr, t.attrs), a)
KidsRest(t, k) == After(Each(ts_text_save, t.kids), k) \o <<Sym("}")>>
NodeRest(t, a, k) == AttrsRest(t, a) \o KidsRest(t, k)
ArrayRest(v, m) == After(Commas(Each(print_value, v.array)), m) \o <<Sym("]")>>

LEMMA Joined ==
  ASSUME NEW a \in Seq(Tokens), NEW b \in Seq(Tokens)
  PROVE  a \o b \in Seq(Tokens)
OBVIOUS

LEMMA Grouped ==
  \A a \in Seq(Tokens), b \in Seq(Tokens), c \in Seq(Tokens) :
    (a \o b) \o c = a \o (b \o c)
<1>1. ASSUME NEW a \in Seq(Tokens), NEW b \in Seq(Tokens), NEW c \in Seq(Tokens)
      PROVE  (a \o b) \o c = a \o (b \o c)
  BY Assoc
<1> QED
  BY <1>1, Zenon

LEMMA TwoTokens ==
  ASSUME NEW S, NEW x \in S, NEW y \in S
  PROVE  <<x, y>> = <<x>> \o <<y>>
<1>1. <<x>> \in Seq(S) /\ <<y>> \in Seq(S)
  OBVIOUS
<1>2. PICK s : s = <<x>> \o <<y>>
  OBVIOUS
<1>3. s \in Seq(S) /\ Len(s) = 2 /\ s[1] = x /\ s[2] = y
  BY <1>1, <1>2
<1>4. s = <<s[1], s[2]>>
  BY <1>3
<1> QED
  BY <1>2, <1>3, <1>4

LEMMA NothingJoined ==
  ASSUME NEW a \in Seq(Tokens)
  PROVE  <<>> \o a = a /\ a \o <<>> = a
OBVIOUS

LEMMA OneSymbol ==
  /\ \A c \in {"=", "{", "}", "[", "]", ",", ";"} : <<Sym(c)>> \in Seq(Tokens)
  /\ \A w \in Words : <<Id(w)>> \in Seq(Tokens)
<1>1. \A tok \in Tokens : <<tok>> \in Seq(Tokens)
  OBVIOUS
<1> QED
  BY <1>1, Symbols

LEMMA KidsRestIs ==
  ASSUME NEW t \in Tree, NEW k \in 0..Len(t.kids)
  PROVE  /\ KidsRest(t, k) \in Seq(Tokens)
         /\ k = Len(t.kids) => KidsRest(t, k) = <<Sym("}")>>
         /\ k < Len(t.kids) => KidsRest(t, k) = ts_text_save[t.kids[k + 1]] \o KidsRest(t, k + 1)
<1> DEFINE seqs == Each(ts_text_save, t.kids)
<1>1. t.kids \in Seq(Tree)
  BY TreeFields
<1>2. seqs \in Seq(Seq(Tokens)) /\ Len(seqs) = Len(t.kids) /\ DOMAIN seqs = DOMAIN t.kids
       /\ \A i \in DOMAIN t.kids : seqs[i] = ts_text_save[t.kids[i]]
  BY <1>1, EachSaved
<1>3. <<Sym("}")>> \in Seq(Tokens)
  BY OneSymbol
<1>4. Len(t.kids) \in Nat /\ DOMAIN t.kids = 1..Len(t.kids)
  BY <1>1
<1> HIDE DEF seqs
<1>5. /\ After(seqs, k) \in Seq(Tokens)
      /\ k = Len(seqs) => After(seqs, k) = <<>>
      /\ k < Len(seqs) => After(seqs, k) = seqs[k + 1] \o After(seqs, k + 1)
  BY <1>2, AfterIs
<1>6. KidsRest(t, k) = After(seqs, k) \o <<Sym("}")>>
  BY DEF KidsRest, seqs
<1>7. ASSUME k < Len(t.kids)
      PROVE  KidsRest(t, k) = ts_text_save[t.kids[k + 1]] \o KidsRest(t, k + 1)
  <2>1. k + 1 \in 0..Len(seqs) /\ k + 1 \in DOMAIN t.kids
    BY <1>2, <1>4, <1>7
  <2>2. After(seqs, k + 1) \in Seq(Tokens)
    BY <1>2, <2>1, AfterIs
  <2>3. seqs[k + 1] = ts_text_save[t.kids[k + 1]] /\ seqs[k + 1] \in Seq(Tokens)
    BY <1>2, <2>1
  <2>4. KidsRest(t, k + 1) = After(seqs, k + 1) \o <<Sym("}")>>
    BY DEF KidsRest, seqs
  <2>5. After(seqs, k) = seqs[k + 1] \o After(seqs, k + 1)
    BY <1>2, <1>5, <1>7
  <2>6. PICK q, x, e : q = seqs[k + 1] /\ x = After(seqs, k + 1) /\ e = <<Sym("}")>>
    OBVIOUS
  <2>7. (q \o x) \o e = q \o (x \o e)
    BY <1>3, <2>2, <2>3, <2>6, Grouped, Zenon
  <2> QED
    BY <1>6, <2>3, <2>4, <2>5, <2>6, <2>7
<1>8. k = Len(t.kids) => KidsRest(t, k) = <<Sym("}")>>
  BY <1>2, <1>3, <1>5, <1>6, NothingJoined
<1>9. KidsRest(t, k) \in Seq(Tokens)
  BY <1>3, <1>5, <1>6, Joined
<1> QED
  BY <1>7, <1>8, <1>9

LEMMA AttrsRestIs ==
  ASSUME NEW t \in Tree, NEW a \in 0..Len(t.attrs)
  PROVE  /\ AttrsRest(t, a) \in Seq(Tokens)
         /\ a = Len(t.attrs) => AttrsRest(t, a) = <<>>
         /\ a < Len(t.attrs) => AttrsRest(t, a) = print_attr[t.attrs[a + 1]] \o AttrsRest(t, a + 1)
<1> DEFINE seqs == Each(print_attr, t.attrs)
<1>1. t.attrs \in Seq(Attr)
  BY TreeFields
<1>2. seqs \in Seq(Seq(Tokens)) /\ Len(seqs) = Len(t.attrs) /\ DOMAIN seqs = DOMAIN t.attrs
       /\ \A i \in DOMAIN t.attrs : seqs[i] = print_attr[t.attrs[i]]
  BY <1>1, EachAttrPrinted
<1>4. Len(t.attrs) \in Nat /\ DOMAIN t.attrs = 1..Len(t.attrs)
  BY <1>1
<1> HIDE DEF seqs
<1>5. /\ After(seqs, a) \in Seq(Tokens)
      /\ a = Len(seqs) => After(seqs, a) = <<>>
      /\ a < Len(seqs) => After(seqs, a) = seqs[a + 1] \o After(seqs, a + 1)
  BY <1>2, AfterIs
<1>6. AttrsRest(t, a) = After(seqs, a) /\ AttrsRest(t, a + 1) = After(seqs, a + 1)
  BY DEF AttrsRest, seqs
<1>7. a < Len(t.attrs) => seqs[a + 1] = print_attr[t.attrs[a + 1]]
  BY <1>2, <1>4
<1> QED
  BY <1>2, <1>5, <1>6, <1>7

LEMMA NodeRestType ==
  ASSUME NEW t \in Tree, NEW a \in 0..Len(t.attrs), NEW k \in 0..Len(t.kids)
  PROVE  NodeRest(t, a, k) \in Seq(Tokens)
BY AttrsRestIs, KidsRestIs, Joined DEF NodeRest

(* A saved tree begins with its name and a brace. *)
LEMMA SaveBegins ==
  ASSUME NEW t \in Tree, NEW s \in Seq(Tokens)
  PROVE  /\ ts_text_save[t] = <<Id(t.name)>> \o (<<Sym("{")>> \o NodeRest(t, 0, 0))
         /\ ts_text_save[t] \o s = <<Id(t.name)>> \o (<<Sym("{")>> \o (NodeRest(t, 0, 0) \o s))
<1>1. t.attrs \in Seq(Attr) /\ t.kids \in Seq(Tree) /\ t.name \in Words
  BY TreeFields
<1>2. Each(print_attr, t.attrs) \in Seq(Seq(Tokens)) /\ Each(ts_text_save, t.kids) \in Seq(Seq(Tokens))
  BY <1>1, EachSaved, EachAttrPrinted
<1>3. PICK A, K : A = FlattenSeq(Each(print_attr, t.attrs)) /\ K = FlattenSeq(Each(ts_text_save, t.kids))
  OBVIOUS
<1>4. A \in Seq(Tokens) /\ K \in Seq(Tokens)
  BY <1>2, <1>3, FlattenType
<1>5. A = AttrsRest(t, 0) /\ KidsRest(t, 0) = K \o <<Sym("}")>>
  <2>1. 0 \in 0..Len(Each(print_attr, t.attrs)) /\ 0 \in 0..Len(Each(ts_text_save, t.kids))
    BY <1>2
  <2> QED
    BY <1>2, <1>3, <2>1, AfterIs DEF AttrsRest, KidsRest
<1>6. PICK b, i, c : b = <<Sym("{")>> /\ i = <<Id(t.name)>> /\ c = <<Sym("}")>>
  OBVIOUS
<1>7. b \in Seq(Tokens) /\ i \in Seq(Tokens) /\ c \in Seq(Tokens)
  BY <1>1, <1>6, OneSymbol
<1>8. ts_text_save[t] = (((i \o b) \o A) \o K) \o c
  <2>1. ts_text_save[t] = <<Id(t.name), Sym("{")>> \o A \o K \o <<Sym("}")>>
    BY <1>3, SaveIs DEF SaveOf
  <2>2. <<Id(t.name), Sym("{")>> = i \o b
    <3>1. Id(t.name) \in Tokens /\ Sym("{") \in Tokens
      BY <1>1, Symbols
    <3> QED
      BY <1>6, <3>1, TwoTokens
  <2> QED
    BY <1>6, <2>1, <2>2
<1>9. NodeRest(t, 0, 0) = A \o (K \o c)
  BY <1>5, <1>6 DEF NodeRest
<1>10. ts_text_save[t] = i \o (b \o NodeRest(t, 0, 0))
  <2>1. (((i \o b) \o A) \o K) \o c = i \o (b \o (A \o (K \o c)))
    <3>1. Cat(Cat(Cat(Cat(i, b), A), K), c) = Cat(i, Cat(b, Cat(A, Cat(K, c))))
      BY <1>4, <1>7, CatFive DEF Texts
    <3> QED
      BY <3>1 DEF Cat
  <2> QED
    BY <1>8, <1>9, <2>1
<1>11. NodeRest(t, 0, 0) \in Seq(Tokens) /\ b \o NodeRest(t, 0, 0) \in Seq(Tokens)
  BY <1>4, <1>7, <1>9, Joined
<1>12. (i \o (b \o NodeRest(t, 0, 0))) \o s = i \o ((b \o NodeRest(t, 0, 0)) \o s)
  BY <1>7, <1>11, Grouped, Zenon
<1>13. (b \o NodeRest(t, 0, 0)) \o s = b \o (NodeRest(t, 0, 0) \o s)
  <2>1. Cat(Cat(b, NodeRest(t, 0, 0)), s) = Cat(b, Cat(NodeRest(t, 0, 0), s))
    <3>1. b \in Texts /\ NodeRest(t, 0, 0) \in Texts /\ s \in Texts
      BY <1>7, <1>11 DEF Texts
    <3> QED
      BY <3>1, CatIs
  <2> QED
    BY <2>1 DEF Cat
<1> QED
  BY <1>6, <1>10, <1>12, <1>13

(* What is left of a node, by what comes next. *)
LEMMA NodeRestIs ==
  ASSUME NEW t \in Tree, NEW a \in 0..Len(t.attrs), NEW k \in 0..Len(t.kids), NEW r \in Seq(Tokens)
  PROVE  /\ a < Len(t.attrs) =>
              NodeRest(t, a, k) \o r =
                <<Id(t.attrs[a + 1].name)>> \o (<<Sym("=")>> \o
                  (print_value[t.attrs[a + 1].val] \o (NodeRest(t, a + 1, k) \o r)))
         /\ a = Len(t.attrs) /\ k < Len(t.kids) =>
              NodeRest(t, a, k) \o r =
                <<Id(t.kids[k + 1].name)>> \o (<<Sym("{")>> \o
                  (NodeRest(t.kids[k + 1], 0, 0) \o (NodeRest(t, a, k + 1) \o r)))
         /\ a = Len(t.attrs) /\ k = Len(t.kids) => NodeRest(t, a, k) \o r = <<Sym("}")>> \o r
<1>1. t.attrs \in Seq(Attr) /\ t.kids \in Seq(Tree)
  BY TreeFields
<1>2. Len(t.attrs) \in Nat /\ Len(t.kids) \in Nat /\ KidsRest(t, k) \in Seq(Tokens)
  <2>1. Len(t.attrs) \in Nat /\ Len(t.kids) \in Nat
    BY <1>1, LenProperties
  <2> QED
    BY <2>1, KidsRestIs
<1>3. ASSUME a < Len(t.attrs)
      PROVE  NodeRest(t, a, k) \o r =
               <<Id(t.attrs[a + 1].name)>> \o (<<Sym("=")>> \o
                 (print_value[t.attrs[a + 1].val] \o (NodeRest(t, a + 1, k) \o r)))
  <2>1. a + 1 \in 0..Len(t.attrs) /\ a + 1 \in DOMAIN t.attrs
    BY <1>1, <1>2, <1>3
  <2>2. PICK attr : attr = t.attrs[a + 1]
    OBVIOUS
  <2>3. attr \in Attr /\ attr.name \in Words /\ attr.val \in Value
    <3>1. attr \in Attr
      BY <1>1, <2>1, <2>2
    <3> QED
      BY <3>1 DEF Attr
  <2>4. PICK i, q, p : i = <<Id(attr.name)>> /\ q = <<Sym("=")>> /\ p = print_value[attr.val]
    OBVIOUS
  <2>5. i \in Seq(Tokens) /\ q \in Seq(Tokens) /\ p \in Seq(Tokens)
    BY <2>3, <2>4, OneSymbol, PrintIs
  <2>6. print_attr[attr] = (i \o q) \o p
    <3>1. <<Id(attr.name), Sym("=")>> = i \o q
      <4>1. Id(attr.name) \in Tokens /\ Sym("=") \in Tokens
        BY <2>3, Symbols
      <4> QED
        BY <2>4, <4>1, TwoTokens
    <3> QED
      BY <2>3, <2>4, <3>1, PrintAttrIs
  <2>7. PICK R : R = AttrsRest(t, a + 1)
    OBVIOUS
  <2>8. R \in Seq(Tokens) /\ AttrsRest(t, a) = ((i \o q) \o p) \o R
    BY <1>3, <2>1, <2>2, <2>6, <2>7, AttrsRestIs
  <2>9. PICK K : K = KidsRest(t, k)
    OBVIOUS
  <2>10. NodeRest(t, a, k) = (((i \o q) \o p) \o R) \o K /\ NodeRest(t, a + 1, k) = R \o K
    BY <2>7, <2>8, <2>9 DEF NodeRest
  <2>11. K \in Seq(Tokens) /\ R \o K \in Seq(Tokens)
    BY <1>2, <2>8, <2>9, Joined
  <2>12. PICK x, y : x = R \o K /\ y = (i \o q) \o p
    OBVIOUS
  <2>13. x \in Seq(Tokens) /\ y \in Seq(Tokens)
    BY <2>5, <2>11, <2>12, Joined
  <2>14. (y \o R) \o K = y \o (R \o K)
    <3>1. Cat(Cat(y, R), K) = Cat(y, Cat(R, K))
      <4>1. y \in Texts /\ R \in Texts /\ K \in Texts
        BY <2>8, <2>11, <2>13 DEF Texts
      <4> QED
        BY <4>1, CatIs
    <3> QED
      BY <3>1 DEF Cat
  <2>15. (((i \o q) \o p) \o x) \o r = i \o (q \o (p \o (x \o r)))
    <3>1. Cat(Cat(Cat(Cat(i, q), p), x), r) = Cat(i, Cat(q, Cat(p, Cat(x, r))))
      BY <2>5, <2>13, CatFive DEF Texts
    <3> QED
      BY <3>1 DEF Cat
  <2>17. NodeRest(t, a, k) \o r = i \o (q \o (p \o (NodeRest(t, a + 1, k) \o r)))
    BY <2>10, <2>12, <2>14, <2>15
  <2> QED
    BY <2>2, <2>4, <2>17
<1>4. ASSUME a = Len(t.attrs)
      PROVE  NodeRest(t, a, k) = KidsRest(t, k)
  <2>1. AttrsRest(t, a) = <<>>
    BY <1>4, AttrsRestIs
  <2> QED
    BY <1>2, <2>1, NothingJoined DEF NodeRest
<1>5. ASSUME a = Len(t.attrs), k < Len(t.kids)
      PROVE  NodeRest(t, a, k) \o r =
               <<Id(t.kids[k + 1].name)>> \o (<<Sym("{")>> \o
                 (NodeRest(t.kids[k + 1], 0, 0) \o (NodeRest(t, a, k + 1) \o r)))
  <2>1. k + 1 \in 0..Len(t.kids) /\ k + 1 \in DOMAIN t.kids
    BY <1>1, <1>2, <1>5
  <2>2. PICK kid : kid = t.kids[k + 1]
    OBVIOUS
  <2>3. kid \in Tree /\ ts_text_save[kid] \in Seq(Tokens)
    BY <1>1, <2>1, <2>2, SaveIs
  <2>4. PICK K : K = KidsRest(t, k + 1)
    OBVIOUS
  <2>5. K \in Seq(Tokens) /\ KidsRest(t, k) = ts_text_save[kid] \o K
    BY <1>5, <2>1, <2>2, <2>4, KidsRestIs
  <2>6. NodeRest(t, a, k + 1) = K
    <3>1. a = Len(t.attrs) /\ AttrsRest(t, a) = <<>>
      BY <1>5, AttrsRestIs
    <3> QED
      BY <2>4, <2>5, <3>1 DEF NodeRest
  <2>7. (ts_text_save[kid] \o K) \o r = ts_text_save[kid] \o (K \o r) /\ K \o r \in Seq(Tokens)
    BY <2>3, <2>5, Grouped, Joined
  <2>8. ts_text_save[kid] \o (K \o r) = <<Id(kid.name)>> \o (<<Sym("{")>> \o (NodeRest(kid, 0, 0) \o (K \o r)))
    BY <2>3, <2>7, SaveBegins
  <2> QED
    BY <1>4, <1>5, <2>2, <2>5, <2>6, <2>7, <2>8
<1>6. ASSUME a = Len(t.attrs), k = Len(t.kids) PROVE NodeRest(t, a, k) \o r = <<Sym("}")>> \o r
  BY <1>4, <1>6, KidsRestIs
<1> QED
  BY <1>3, <1>5, <1>6

(* What is left of an array. *)
LEMMA ArrayRestIs ==
  ASSUME NEW v \in Value, NEW m \in 0..Len(v.array), NEW r \in Seq(Tokens)
  PROVE  /\ ArrayRest(v, m) \in Seq(Tokens)
         /\ m = Len(v.array) => ArrayRest(v, m) \o r = <<Sym("]")>> \o r
         /\ m = 0 /\ m < Len(v.array) =>
              ArrayRest(v, m) \o r = print_value[v.array[m + 1]] \o (ArrayRest(v, m + 1) \o r)
         /\ m > 0 /\ m < Len(v.array) =>
              ArrayRest(v, m) \o r =
                <<Sym(",")>> \o (print_value[v.array[m + 1]] \o (ArrayRest(v, m + 1) \o r))
<1> DEFINE items == Each(print_value, v.array)
           seqs == Commas(items)
<1>1. v.array \in Seq(Value)
  BY ValueArrayType
<1>2. items \in Seq(Seq(Tokens)) /\ Len(items) = Len(v.array) /\ DOMAIN items = DOMAIN v.array
       /\ \A i \in DOMAIN v.array : items[i] = print_value[v.array[i]]
  BY <1>1, EachPrinted
<1>3. Len(v.array) \in Nat /\ DOMAIN v.array = 1..Len(v.array)
  BY <1>1
<1> HIDE DEF items
<1>4. seqs \in Seq(Seq(Tokens)) /\ Len(seqs) = Len(items)
       /\ \A i \in 1..Len(items) : seqs[i] = (IF i > 1 THEN <<Sym(",")>> ELSE <<>>) \o items[i]
  BY <1>2, CommasIs
<1>5. ArrayRest(v, m) = After(seqs, m) \o <<Sym("]")>> /\ ArrayRest(v, m + 1) = After(seqs, m + 1) \o <<Sym("]")>>
  BY DEF ArrayRest, items
<1> HIDE DEF seqs
<1>6. /\ After(seqs, m) \in Seq(Tokens)
      /\ m = Len(seqs) => After(seqs, m) = <<>>
      /\ m < Len(seqs) => After(seqs, m) = seqs[m + 1] \o After(seqs, m + 1)
  BY <1>2, <1>4, AfterIs
<1>7. PICK e : e = <<Sym("]")>>
  OBVIOUS
<1>8. e \in Seq(Tokens) /\ <<Sym(",")>> \in Seq(Tokens)
  BY <1>7, OneSymbol
<1>9. m = Len(v.array) => ArrayRest(v, m) \o r = <<Sym("]")>> \o r
  BY <1>2, <1>4, <1>5, <1>6, <1>7, <1>8, NothingJoined
<1>10. ArrayRest(v, m) \in Seq(Tokens)
  BY <1>5, <1>6, <1>7, <1>8, Joined
<1>11. ASSUME m < Len(v.array)
       PROVE  /\ m = 0 => ArrayRest(v, m) \o r = print_value[v.array[m + 1]] \o (ArrayRest(v, m + 1) \o r)
              /\ m > 0 => ArrayRest(v, m) \o r =
                            <<Sym(",")>> \o (print_value[v.array[m + 1]] \o (ArrayRest(v, m + 1) \o r))
  <2>1. m + 1 \in 0..Len(seqs) /\ m + 1 \in 1..Len(items) /\ m + 1 \in DOMAIN v.array
    <3>1. Len(seqs) = Len(v.array) /\ Len(items) = Len(v.array)
      BY <1>2, <1>4
    <3> QED
      BY <1>3, <1>11, <3>1
  <2>2. PICK R : R = After(seqs, m + 1)
    OBVIOUS
  <2>3. R \in Seq(Tokens) /\ R \o e \in Seq(Tokens) /\ (R \o e) \o r \in Seq(Tokens)
    BY <1>4, <1>8, <2>1, <2>2, AfterIs, Joined
  <2>4. PICK p : p = print_value[v.array[m + 1]]
    OBVIOUS
  <2>5. p \in Seq(Tokens) /\ p = items[m + 1]
    BY <1>1, <1>2, <2>1, <2>4, PrintIs
  <2>6. PICK q : q = seqs[m + 1]
    OBVIOUS
  <2>7. q \in Seq(Tokens) /\ q = (IF m + 1 > 1 THEN <<Sym(",")>> ELSE <<>>) \o p
    <3>1. DOMAIN seqs = 1..Len(seqs)
      BY <1>4, LenProperties
    <3>2. seqs[m + 1] \in Seq(Tokens)
      BY <1>4, <2>1, ElementOfSeq
    <3> QED
      BY <1>4, <2>1, <2>5, <2>6, <3>2
  <2>8. ArrayRest(v, m) \o r = q \o ((R \o e) \o r)
    <3>1. ArrayRest(v, m) = (q \o R) \o e
      BY <1>2, <1>4, <1>5, <1>6, <1>7, <1>11, <2>2, <2>6
    <3>2. (q \o R) \o e = q \o (R \o e)
      BY <1>8, <2>3, <2>7, Grouped, Zenon
    <3>3. (q \o (R \o e)) \o r = q \o ((R \o e) \o r)
      BY <2>3, <2>7, Grouped, Zenon
    <3> QED
      BY <3>1, <3>2, <3>3
  <2>9. ArrayRest(v, m + 1) = R \o e
    BY <1>5, <1>7, <2>2
  <2>10. ASSUME m = 0 PROVE q = p
    <3>1. q = <<>> \o p
      BY <2>7, <2>10
    <3> QED
      BY <2>5, <3>1, NothingJoined
  <2>11. ASSUME m > 0 PROVE q \o ((R \o e) \o r) = <<Sym(",")>> \o (p \o ((R \o e) \o r))
    <3>1. PICK c, x : c = <<Sym(",")>> /\ x = (R \o e) \o r
      OBVIOUS
    <3>2. m + 1 > 1
      BY <2>11
    <3>3. q = c \o p
      BY <2>7, <3>1, <3>2
    <3>4. (c \o p) \o x = c \o (p \o x)
      <4>1. Cat(Cat(c, p), x) = Cat(c, Cat(p, x))
        <5>1. c \in Texts /\ p \in Texts /\ x \in Texts
          BY <1>8, <2>3, <2>5, <3>1 DEF Texts
        <5> QED
          BY <5>1, CatIs
      <4> QED
        BY <4>1 DEF Cat
    <3> QED
      BY <3>1, <3>3, <3>4
  <2> QED
    BY <2>4, <2>8, <2>9, <2>10, <2>11
<1> QED
  BY <1>9, <1>10, <1>11

(* The first token of a text. *)
LEMMA Peel ==
  ASSUME NEW S, NEW tok \in S, NEW s \in Seq(S)
  PROVE  /\ <<tok>> \o s # <<>> /\ Head(<<tok>> \o s) = tok /\ Tail(<<tok>> \o s) = s
         /\ <<tok>> \o s \in Seq(S)
OBVIOUS

(* A saved value, by its type. *)
LEMMA PrintedIs ==
  ASSUME NEW v \in Value, NEW s \in Seq(Tokens)
  PROVE  /\ v.type = "TS_STRING" => print_value[v] \o s = Quoted(v.text) \o s
         /\ v.type = "TS_NUMBER" =>
              IF Printed[v.text] = <<Num(v.text)>> THEN print_value[v] \o s = <<Num(v.text)>> \o s
              ELSE LET tok == Head(print_value[v] \o s)
                   IN  /\ print_value[v] \o s # <<>> /\ tok # Num(v.text)
                       /\ tok.type \in {"TOK_NUM", "TOK_ID"}
         /\ v.type = "TS_ARRAY" => print_value[v] \o s = <<Sym("[")>> \o (ArrayRest(v, 0) \o s)
         /\ v.type = "TS_VECTOR" => print_value[v] \o s = <<Sym("[")>> \o (<<Sym("]")>> \o s)
<1>1. ASSUME v.type = "TS_NUMBER", Printed[v.text] # <<Num(v.text)>>
      PROVE  LET tok == Head(print_value[v] \o s)
             IN  /\ print_value[v] \o s # <<>> /\ tok # Num(v.text)
                 /\ tok.type \in {"TOK_NUM", "TOK_ID"}
  <2>1. v.text \in Numbers
    BY <1>1, ValueFields
  <2>2. PICK p : p = Printed[v.text]
    OBVIOUS
  <2>3. p \in Seq(Tokens) /\ Len(p) > 0 /\ p[1] # Num(v.text) /\ p[1].type \in {"TOK_NUM", "TOK_ID"}
    BY <1>1, <2>1, <2>2, TextAssumption
  <2>4. p \o s # <<>> /\ Head(p \o s) = p[1]
    BY <2>3
  <2> QED
    BY <1>1, <2>2, <2>3, <2>4, PrintIs
<1>2. ASSUME v.type = "TS_ARRAY"
      PROVE  print_value[v] \o s = <<Sym("[")>> \o (ArrayRest(v, 0) \o s)
  <2>1. v.array \in Seq(Value) /\ Len(v.array) \in Nat
    BY ValueArrayType, LenProperties
  <2>2. PICK items : items = Each(print_value, v.array)
    OBVIOUS
  <2>3. items \in Seq(Seq(Tokens)) /\ Commas(items) \in Seq(Seq(Tokens)) /\ 0 \in 0..Len(Commas(items))
    <3>1. items \in Seq(Seq(Tokens)) /\ Len(items) = Len(v.array)
      BY <2>1, <2>2, EachPrinted
    <3>2. Commas(items) \in Seq(Seq(Tokens)) /\ Len(Commas(items)) = Len(items)
      BY <3>1, CommasIs
    <3> QED
      BY <2>1, <3>1, <3>2
  <2>4. PICK b, e, C : b = <<Sym("[")>> /\ e = <<Sym("]")>> /\ C = FlattenSeq(Commas(items))
    OBVIOUS
  <2>5. b \in Seq(Tokens) /\ e \in Seq(Tokens) /\ C \in Seq(Tokens)
    BY <2>3, <2>4, OneSymbol, FlattenType
  <2>6. print_value[v] = (b \o C) \o e
    BY <1>2, <2>2, <2>3, <2>4, PrintIs, ListedIs
  <2>7. ArrayRest(v, 0) = C \o e
    BY <2>2, <2>3, <2>4, AfterIs DEF ArrayRest
  <2>8. (b \o C) \o e = b \o (C \o e) /\ C \o e \in Seq(Tokens)
    BY <2>5, Grouped, Joined
  <2>9. (b \o (C \o e)) \o s = b \o ((C \o e) \o s)
    BY <2>5, <2>8, Grouped, Zenon
  <2> QED
    BY <2>4, <2>6, <2>7, <2>8, <2>9
<1>3. ASSUME v.type = "TS_VECTOR"
      PROVE  print_value[v] \o s = <<Sym("[")>> \o (<<Sym("]")>> \o s)
  <2>1. <<>> \in Seq(Seq(Tokens)) /\ Commas(<<>>) = <<>>
    BY DEF Commas
  <2>2. print_value[v] = <<Sym("[")>> \o FlattenSeq(Commas(<<>>)) \o <<Sym("]")>>
    BY <1>3, <2>1, PrintIs, ListedIs
  <2>3. FlattenSeq(Commas(<<>>)) = <<>>
    BY <2>1, FlattenEmpty
  <2>4. PICK b, e : b = <<Sym("[")>> /\ e = <<Sym("]")>>
    OBVIOUS
  <2>5. b \in Seq(Tokens) /\ e \in Seq(Tokens)
    BY <2>4, OneSymbol
  <2>6. print_value[v] = b \o e
    BY <2>2, <2>3, <2>4, <2>5
  <2>7. (b \o e) \o s = b \o (e \o s)
    BY <2>5, Grouped, Zenon
  <2> QED
    BY <2>4, <2>6, <2>7
<1>4. v.type = "TS_STRING" => print_value[v] \o s = Quoted(v.text) \o s
  BY PrintIs
<1>5. v.type = "TS_NUMBER" /\ Printed[v.text] = <<Num(v.text)>> => print_value[v] \o s = <<Num(v.text)>> \o s
  BY PrintIs
<1> QED
  BY <1>1, <1>2, <1>3, <1>4, <1>5

-----------------------------------------------------------------------------
(* What a step does to the calls in progress. *)
Delivered(stack, v) ==
  /\ frames' = OnTop(stack, Filled(stack[Len(stack)], "read_array", v))
  /\ pc' = IF stack[Len(stack)].fn = "read_node" THEN "item" ELSE "separator"
  /\ result' = result

LEMMA DeliverFills ==
  ASSUME NEW stack, NEW v, Deliver(stack, v)
  PROVE  Delivered(stack, v)
<1>1. CASE stack[Len(stack)].fn = "read_node"
  BY <1>1 DEF Deliver, Delivered, Filled, WithAttr
<1>2. CASE stack[Len(stack)].fn # "read_node"
  BY <1>2 DEF Deliver, Delivered, Filled, WithValue
<1> QED
  BY <1>1, <1>2

(* A call that is waiting for another one, and what it is waiting for. *)
LEMMA CallerIs ==
  ASSUME NEW fr, Stack(fr), Len(fr) > 1
  PROVE  LET n == Len(fr) IN
         /\ n \in Nat /\ MaxDepth \in Nat /\ n <= MaxDepth
         /\ MaxDepth - n \in 0..MaxDepth /\ MaxDepth - (n - 1) \in 0..MaxDepth
         /\ MaxDepth - (n - 1) = (MaxDepth - n) + 1
         /\ fr[n].fn = "read_node" => fr[n] \in NodeAt(MaxDepth - n) /\ fr[n - 1].id \in Words
         /\ fr[n].fn # "read_node" => fr[n] \in ArrayAt(MaxDepth - n) /\ n > 2
         /\ n = 2 => fr[n - 1] \in Loads
         /\ n > 2 /\ fr[n].fn = "read_node" => fr[n - 1] \in NodeAt(MaxDepth - (n - 1))
         /\ n > 2 /\ fr[n].fn # "read_node" =>
              \/ fr[n - 1] \in ArrayAt(MaxDepth - (n - 1))
              \/ fr[n - 1] \in NodeAt(MaxDepth - (n - 1)) /\ fr[n - 1].id \in Words
<1> DEFINE n == Len(fr)
<1>1. /\ n \in Nat /\ n > 1 /\ MaxDepth \in Nat /\ MaxDepth - n \in 0..MaxDepth
      /\ fr[n].fn = "read_node" => fr[n] \in NodeAt(MaxDepth - n)
      /\ fr[n].fn = "read_array" => fr[n] \in ArrayAt(MaxDepth - n)
      /\ fr[n].fn \in {"read_node", "read_array"}
      /\ Calls(fr[n - 1], fr[n])
  BY TopIs
<1>2. n <= MaxDepth /\ MaxDepth - (n - 1) \in 0..MaxDepth /\ MaxDepth - (n - 1) = (MaxDepth - n) + 1
  <2>1. n <= MaxDepth
    BY DEF Stack
  <2> QED
    BY <1>1, <2>1
<1> HIDE DEF n
<1>3. PICK g, c : g = fr[n] /\ c = fr[n - 1]
  OBVIOUS
<1>4. PICK d : d = MaxDepth - (n - 1)
  OBVIOUS
<1>5. ASSUME n = 2 PROVE c \in Loads
  BY <1>3, <1>5 DEF Stack, n
<1>6. ASSUME n > 2 PROVE c \in FrameOf(d)
  <2>1. n - 1 \in 2..n
    BY <1>1, <1>6
  <2>2. \A i \in 2..n : fr[i] \in FrameOf(MaxDepth - i)
    BY DEF Stack, n
  <2> QED
    BY <1>3, <1>4, <2>1, <2>2
<1>7. n = 2 \/ n > 2
  BY <1>1
<1>8. Calls(c, g)
  BY <1>1, <1>3
<1>9. ASSUME n > 2
      PROVE  /\ c.fn = "read_node" => c \in NodeAt(d) /\ c.id \in Words \cup {Null}
             /\ c.fn = "read_array" => c \in ArrayAt(d)
             /\ c.fn \in {"read_node", "read_array"}
  <2>1. /\ c.fn = "read_node" => c \in NodeAt(d)
        /\ c.fn = "read_array" => c \in ArrayAt(d)
        /\ c.fn \in {"read_node", "read_array"}
    BY <1>2, <1>4, <1>6, <1>9, FrameIs
  <2> QED
    BY <1>2, <1>4, <2>1, NodeFields
<1>10. ASSUME n = 2 PROVE c.fn = "ts_text_load" /\ c.id \in Words
  BY <1>5, <1>10, LoadIs
<1>11. ASSUME g.fn = "read_node" PROVE c.id \in Words /\ (n > 2 => c \in NodeAt(d))
  <2>1. c.fn = "ts_text_load" \/ (c.fn = "read_node" /\ c.id # Null)
    BY <1>8, <1>11 DEF Calls
  <2> QED
    BY <1>7, <1>9, <1>10, <2>1
<1>12. ASSUME g.fn # "read_node"
       PROVE  n > 2 /\ (c \in ArrayAt(d) \/ (c \in NodeAt(d) /\ c.id \in Words))
  <2>1. c.fn = "read_array" \/ (c.fn = "read_node" /\ c.id # Null)
    BY <1>1, <1>3, <1>8, <1>12 DEF Calls
  <2> QED
    BY <1>7, <1>9, <1>10, <2>1
<1>13. g.fn # "read_node" => g \in ArrayAt(MaxDepth - n)
  BY <1>1, <1>3
<1>14. g.fn = "read_node" => g \in NodeAt(MaxDepth - n)
  BY <1>1, <1>3
<1> QED
  BY <1>1, <1>2, <1>3, <1>4, <1>5, <1>11, <1>12, <1>13, <1>14 DEF n

LEMMA NodeReturns ==
  ASSUME Sound(pc, frames, heap, result), pc = "item", ReturnNode,
         NEW n, n = Len(frames), NEW x, x = NodeRead(frames[n], frames[n - 1].id)
  PROVE  /\ n > 1 /\ frames[n].fn = "read_node" /\ frames[n] \in NodeAt(MaxDepth - n)
         /\ x \in Tree /\ frames[n - 1].id \in Words
         /\ n = 2 => pc' = "loaded" /\ result' = x
         /\ n > 2 => /\ pc' = "item" /\ result' = result
                     /\ frames' = OnTop(Front(frames), Filled(frames[n - 1], "read_node", x))
                     /\ Fits(frames[n - 1], MaxDepth - (n - 1), "read_node", x)
<1>1. Stack(frames) /\ n > 1 /\ frames[n].fn = "read_node" /\ frames[n].id = Null
        /\ frames[n].attr_allocated = FALSE
  BY DEF Sound, Place
<1>2. PICK d, f, c : d = MaxDepth - n /\ f = frames[n] /\ c = frames[n - 1]
  OBVIOUS
<1>3. /\ n \in Nat /\ d \in 0..MaxDepth /\ d + 1 \in 0..MaxDepth /\ MaxDepth - (n - 1) = d + 1
      /\ f \in NodeAt(d) /\ c.id \in Words /\ (n > 2 => c \in NodeAt(d + 1))
      /\ (n = 2 => c \in Loads)
  <2>1. /\ n \in Nat /\ MaxDepth - n \in 0..MaxDepth /\ MaxDepth - (n - 1) \in 0..MaxDepth
        /\ MaxDepth - (n - 1) = (MaxDepth - n) + 1
        /\ frames[n] \in NodeAt(MaxDepth - n) /\ frames[n - 1].id \in Words
        /\ (n > 2 => frames[n - 1] \in NodeAt(MaxDepth - (n - 1)))
        /\ (n = 2 => frames[n - 1] \in Loads)
    BY <1>1, CallerIs
  <2> QED
    BY <1>2, <2>1
<1>4. x \in TreeOf[d + 1] /\ x \in Tree
  <2>1. f.id = Null /\ f.attr_allocated = FALSE /\ x = NodeRead(f, c.id)
    BY <1>1, <1>2
  <2> QED
    BY <1>3, <2>1, NodeReadIs
<1>5. Front(frames)[Len(Front(frames))] = c
  <2>1. Len(Front(frames)) = n - 1 /\ \A i \in 1..(n - 1) : Front(frames)[i] = frames[i]
    BY <1>1, StackPop
  <2>2. n - 1 \in 1..(n - 1)
    BY <1>1, <1>3
  <2> QED
    BY <1>2, <2>1, <2>2
<1>6. IF c.fn = "ts_text_load"
        THEN pc' = "loaded" /\ frames' = <<>> /\ result' = x
        ELSE /\ frames' = OnTop(Front(frames), [c EXCEPT !.id = Null, !.kids = Append(@, x)])
             /\ pc' = pc /\ result' = result
  BY <1>2, <1>5 DEF ReturnNode, Top, Below, NodeRead
<1>7. n = 2 => pc' = "loaded" /\ result' = x
  BY <1>3, <1>6, LoadIs
<1>8. ASSUME n > 2
      PROVE  /\ pc' = "item" /\ result' = result
             /\ frames' = OnTop(Front(frames), Filled(c, "read_node", x))
             /\ Fits(c, d + 1, "read_node", x)
  <2>1. c.fn = "read_node" /\ c \in NodeAt(d + 1)
    BY <1>3, <1>8, NodeFields
  <2>2. frames' = OnTop(Front(frames), [c EXCEPT !.id = Null, !.kids = Append(@, x)])
          /\ pc' = "item" /\ result' = result
    BY <1>6, <2>1
  <2>3. Filled(c, "read_node", x) = [c EXCEPT !.id = Null, !.kids = Append(@, x)]
    BY DEF Filled, WithKid
  <2> QED
    BY <1>4, <2>1, <2>2, <2>3 DEF Fits
<1> QED
  BY <1>1, <1>2, <1>3, <1>4, <1>7, <1>8

LEMMA ArrayReturns ==
  ASSUME Sound(pc, frames, heap, result), pc \in {"element", "separator"}, ReturnArray,
         NEW n, n = Len(frames), NEW v, v = ts_set_value_arr(frames[n].values)
  PROVE  /\ n > 2 /\ frames[n] \in ArrayAt(MaxDepth - n) /\ frames[n].fn = "read_array"
         /\ Len(frames[n].values) \in Nat
         /\ Len(frames[n].values) < 2 => pc' = "failed" /\ result' = Null
         /\ Len(frames[n].values) >= 2 =>
              /\ frames[n].values \in Lists(ValueOf[MaxDepth - n])
              /\ pc' = (IF frames[n - 1].fn = "read_node" THEN "item" ELSE "separator")
              /\ result' = result
              /\ frames' = OnTop(Front(frames), Filled(frames[n - 1], "read_array", v))
              /\ Fits(frames[n - 1], MaxDepth - (n - 1), "read_array", v)
<1>1. Stack(frames) /\ n > 1 /\ frames[n].fn = "read_array"
  BY DEF Sound, Place
<1>2. PICK d, f, c : d = MaxDepth - n /\ f = frames[n] /\ c = frames[n - 1]
  OBVIOUS
<1>3. /\ n \in Nat /\ d \in 0..MaxDepth /\ d + 1 \in 0..MaxDepth /\ MaxDepth - (n - 1) = d + 1
      /\ f \in ArrayAt(d) /\ n > 2
      /\ (c \in ArrayAt(d + 1) \/ (c \in NodeAt(d + 1) /\ c.id \in Words))
  <2>1. /\ n \in Nat /\ MaxDepth - n \in 0..MaxDepth /\ MaxDepth - (n - 1) \in 0..MaxDepth
        /\ MaxDepth - (n - 1) = (MaxDepth - n) + 1
        /\ frames[n] \in ArrayAt(MaxDepth - n) /\ n > 2
        /\ \/ frames[n - 1] \in ArrayAt(MaxDepth - (n - 1))
           \/ frames[n - 1] \in NodeAt(MaxDepth - (n - 1)) /\ frames[n - 1].id \in Words
    BY <1>1, CallerIs
  <2> QED
    BY <1>2, <2>1
<1>4. f.values \in Seq(ValueOf[d]) /\ Len(f.values) <= MaxStored /\ Len(f.values) \in Nat
  <2>1. f.values \in Seq(ValueOf[d]) /\ Len(f.values) <= MaxStored
    BY <1>3, ArrayFields
  <2> QED
    BY <2>1, LenProperties
<1>5. Front(frames)[Len(Front(frames))] = c
  <2>1. Len(Front(frames)) = n - 1 /\ \A i \in 1..(n - 1) : Front(frames)[i] = frames[i]
    BY <1>1, StackPop
  <2>2. n - 1 \in 1..(n - 1)
    BY <1>1, <1>3
  <2> QED
    BY <1>2, <2>1, <2>2
<1>6. ASSUME Len(f.values) < 2 PROVE pc' = "failed" /\ result' = Null
  BY <1>2, <1>6 DEF ReturnArray, Fail, Top
<1>7. ASSUME Len(f.values) >= 2
      PROVE  /\ f.values \in Lists(ValueOf[d])
             /\ Delivered(Front(frames), v)
             /\ Fits(c, d + 1, "read_array", v)
  <2>1. f.values \in Lists(ValueOf[d])
    <3>1. PICK s : s = f.values
      OBVIOUS
    <3>2. Len(s) \in 2..MaxStored
      BY <1>4, <1>7, <3>1, TextAssumption
    <3> QED
      BY <1>4, <3>1, <3>2 DEF Lists
  <2>2. Deliver(Front(frames), v)
    <3>1. ~(Len(f.values) < 2)
      BY <1>4, <1>7
    <3> QED
      BY <1>2, <3>1 DEF ReturnArray, Top, Below
  <2>3. v \in ValueOf[d + 1]
    BY <1>2, <1>3, <2>1, SetArrayIs
  <2> QED
    BY <1>3, <2>1, <2>2, <2>3, DeliverFills DEF Fits
<1>8. Len(f.values) >= 2 => /\ pc' = (IF c.fn = "read_node" THEN "item" ELSE "separator")
                            /\ result' = result
                            /\ frames' = OnTop(Front(frames), Filled(c, "read_array", v))
  BY <1>5, <1>7 DEF Delivered
<1> QED
  BY <1>1, <1>2, <1>3, <1>4, <1>6, <1>7, <1>8

(* What read_value makes of a token that starts no array. *)
ScalarOf(tok) ==
  CASE tok.type = "TOK_NUM" -> ts_set_valuef(tok.text)
    [] tok.type = "TOK_SYM" -> Unset
    [] OTHER -> ts_set_value_str(tok.text)

LEMMA ValueRead ==
  ASSUME Sound(pc, frames, heap, result), pc \in {"value", "element"},
         NEW tok \in Tokens \cup {EOF}, tok # EOF, read_value(tok), NEW n, n = Len(frames),
         NEW c, c = IF tok = Sym("[") THEN "]" ELSE "}"
  PROVE  /\ n > 1
         /\ tok \in {Sym("["), Sym("{")} =>
              /\ frames' = Append(frames, ArrayFrame(c))
              /\ pc' = "element" /\ result' = result
         /\ tok \notin {Sym("["), Sym("{")} =>
              /\ ScalarOf(tok) \in Scalars
              /\ Delivered(frames, ScalarOf(tok))
              /\ Fits(frames[n], MaxDepth - n, "read_array", ScalarOf(tok))
<1>1. Stack(frames) /\ n > 1
      /\ (frames[n].fn = "read_node" => frames[n].id # Null)
  BY DEF Sound, Place
<1>2. /\ n \in Nat /\ MaxDepth \in Nat /\ MaxDepth - n \in 0..MaxDepth
      /\ frames[n].fn = "read_node" => frames[n] \in NodeAt(MaxDepth - n)
      /\ frames[n].fn = "read_array" => frames[n] \in ArrayAt(MaxDepth - n)
      /\ frames[n].fn \in {"read_node", "read_array"}
  BY <1>1, TopIs
<1>3. ASSUME tok \in {Sym("["), Sym("{")}
      PROVE  frames' = Append(frames, ArrayFrame(c)) /\ pc' = "element" /\ result' = result
  BY <1>3 DEF read_value
<1>4. ASSUME tok \notin {Sym("["), Sym("{")}
      PROVE  ScalarOf(tok) \in Scalars /\ Delivered(frames, ScalarOf(tok))
  <2>1. Deliver(frames, ScalarOf(tok))
    BY <1>4 DEF read_value, ScalarOf
  <2>2. PICK v : v = ScalarOf(tok)
    OBVIOUS
  <2>3. tok.type = "TOK_NUM" => tok.text \in Numbers
    BY TokenIs DEF TokenKind
  <2>4. tok.type \notin {"TOK_NUM", "TOK_SYM"} => tok.text \in Words \cup Strings
    BY TokenIs DEF TokenKind
  <2>5. CASE tok.type = "TOK_NUM"
    BY <2>1, <2>2, <2>3, <2>5, ScalarsAreValues, DeliverFills DEF ScalarOf
  <2>6. CASE tok.type = "TOK_SYM"
    BY <2>1, <2>2, <2>6, ScalarsAreValues, DeliverFills DEF ScalarOf
  <2>7. CASE tok.type \notin {"TOK_NUM", "TOK_SYM"}
    <3>1. v = ts_set_value_str(tok.text)
      BY <2>2, <2>7 DEF ScalarOf
    <3> QED
      BY <2>1, <2>2, <2>4, <2>7, <3>1, ScalarsAreValues, DeliverFills
  <2> QED
    BY <2>5, <2>6, <2>7
<1>5. ASSUME tok \notin {Sym("["), Sym("{")}
      PROVE  Fits(frames[n], MaxDepth - n, "read_array", ScalarOf(tok))
  <2>1. PICK f, d, v : f = frames[n] /\ d = MaxDepth - n /\ v = ScalarOf(tok)
    OBVIOUS
  <2>2. v \in ValueOf[d]
    BY <1>2, <1>4, <1>5, <2>1, ScalarsAreValues
  <2>3. f \in ArrayAt(d) \/ (f \in NodeAt(d) /\ f.id \in Words)
    <3>1. f \in NodeAt(d) => f.id \in Words \cup {Null} /\ f.fn = "read_node"
      BY <1>2, <2>1, NodeFields
    <3> QED
      BY <1>1, <1>2, <2>1, <3>1
  <2> QED
    BY <2>1, <2>2, <2>3 DEF Fits
<1> QED
  BY <1>1, <1>3, <1>4, <1>5

-----------------------------------------------------------------------------
(* Once a call has read what differs from the saved tree T, so will the     *)
(* calls that it returns to: goal gives what each call reads again, k is a  *)
(* call whose content differs.                                              *)
DivergedAt(fr, goal, k, T) ==
  /\ k \in 2..Len(fr) /\ goal[2] = T
  /\ \A i \in 2..k : goal[i] \in Goal(fr[i])
  /\ \A i \in 2..(k - 1) : Expects(fr[i], fr[i + 1].fn, goal[i], goal[i + 1])
  /\ Differs(fr[k], goal[k])
Diverged(fr, T) == \E goal, k : DivergedAt(fr, goal, k, T)

LEMMA DivergedStays ==
  ASSUME NEW fr, NEW goal, NEW k, NEW T, DivergedAt(fr, goal, k, T), Len(fr) \in Nat,
         NEW fs, Len(fs) \in Nat, k <= Len(fs), \A i \in 1..(k - 1) : fs[i] = fr[i],
         fs[k] = fr[k] \/ Grown(fr[k], fs[k])
  PROVE  Diverged(fs, T)
<1>1. k \in 2..Len(fr) /\ k \in Nat /\ goal[2] = T
  BY DEF DivergedAt
<1>2. Differs(fs[k], goal[k]) /\ Goal(fs[k]) = Goal(fr[k]) /\ fs[k].fn = fr[k].fn
  <2>1. Differs(fr[k], goal[k])
    BY DEF DivergedAt
  <2> QED
    BY <2>1, GrownDiffers DEF Grown
<1>3. ASSUME NEW i \in 2..k PROVE goal[i] \in Goal(fs[i])
  <2>1. goal[i] \in Goal(fr[i])
    BY <1>3 DEF DivergedAt
  <2>2. i = k \/ i \in 1..(k - 1)
    BY <1>1
  <2> QED
    BY <1>2, <2>1, <2>2
<1>4. ASSUME NEW i \in 2..(k - 1) PROVE Expects(fs[i], fs[i + 1].fn, goal[i], goal[i + 1])
  <2>1. Expects(fr[i], fr[i + 1].fn, goal[i], goal[i + 1])
    BY DEF DivergedAt
  <2>2. i \in 1..(k - 1) /\ (i + 1 = k \/ i + 1 \in 1..(k - 1))
    BY <1>1
  <2>3. fs[i] = fr[i] /\ fs[i + 1].fn = fr[i + 1].fn
    BY <1>2, <2>2
  <2> QED
    BY <2>1, <2>3
<1>5. k \in 2..Len(fs)
  BY <1>1
<1>6. DivergedAt(fs, goal, k, T)
  BY <1>1, <1>2, <1>3, <1>4, <1>5 DEF DivergedAt
<1> QED
  BY <1>6 DEF Diverged

(* The call on top returns x to the call below it. *)
LEMMA OnTopIs ==
  ASSUME NEW S, NEW s \in Seq(S), Len(s) > 0, NEW g
  PROVE  /\ Len(OnTop(s, g)) = Len(s) /\ Len(s) \in Nat
         /\ \A i \in 1..(Len(s) - 1) : OnTop(s, g)[i] = s[i]
         /\ OnTop(s, g)[Len(s)] = g
<1>1. PICK n : n = Len(s)
  OBVIOUS
<1>2. n \in Nat /\ n > 0 /\ DOMAIN s = 1..n
  BY <1>1
<1>3. PICK t : t = OnTop(s, g)
  OBVIOUS
<1>4. DOMAIN t = 1..n /\ t[n] = g /\ \A i \in 1..(n - 1) : t[i] = s[i]
  BY <1>1, <1>2, <1>3 DEF OnTop
<1>5. t = [i \in 1..n |-> t[i]]
  BY <1>1, <1>2, <1>3, <1>4 DEF OnTop
<1>6. t \in [1..n -> {t[i] : i \in 1..n}]
  BY <1>5
<1>7. Len(t) = n
  BY <1>2, <1>6, FunctionIsSeq
<1> QED
  BY <1>1, <1>2, <1>3, <1>4, <1>7

LEMMA FrontTopIs ==
  ASSUME NEW fr, Stack(fr), NEW n, n = Len(fr), n > 1, NEW g,
         NEW fs, fs = OnTop(Front(fr), g)
  PROVE  /\ n \in Nat /\ Len(fs) = n - 1 /\ Len(fs) \in Nat
         /\ \A i \in 1..(n - 2) : fs[i] = fr[i]
         /\ fs[n - 1] = g
<1>1. PICK s : s = Front(fr)
  OBVIOUS
<1>2. Stack(s) /\ Len(s) = n - 1 /\ n \in Nat /\ \A i \in 1..(n - 1) : s[i] = fr[i]
  BY <1>1, StackPop
<1>3. s \in Seq(Frames) /\ Len(s) > 0
  BY <1>2 DEF Stack
<1>4. fs = OnTop(s, g)
  BY <1>1
<1>5. /\ Len(fs) = Len(s) /\ Len(s) \in Nat
      /\ \A i \in 1..(Len(s) - 1) : fs[i] = s[i]
      /\ fs[Len(s)] = g
  BY <1>3, <1>4, OnTopIs
<1>6. \A i \in 1..(n - 2) : i \in 1..(Len(s) - 1) /\ i \in 1..(n - 1)
  BY <1>2
<1>7. \A i \in 1..(n - 2) : fs[i] = fr[i]
  BY <1>2, <1>5, <1>6
<1> QED
  BY <1>1, <1>2, <1>4, <1>5, <1>7

LEMMA DivergedReturns ==
  ASSUME NEW fr, Stack(fr), NEW n, n = Len(fr), n > 2,
         NEW goal, NEW k, NEW T, DivergedAt(fr, goal, k, T),
         NEW d \in 0..MaxDepth, NEW fn, fn = "read_node" <=> fr[n].fn = "read_node",
         NEW x, Fits(fr[n - 1], d, fn, x),
         Differs(fr[n], goal[n]) => x # goal[n] /\ (fn # "read_node" => ts_copy_value[x] # goal[n])
  PROVE  Diverged(OnTop(Front(fr), Filled(fr[n - 1], fn, x)), T)
<1>1. PICK c, g : c = fr[n - 1] /\ g = Filled(c, fn, x)
  OBVIOUS
<1>2. PICK fs : fs = OnTop(Front(fr), g)
  OBVIOUS
<1>3. n \in Nat /\ Len(fs) = n - 1 /\ Len(fs) \in Nat /\ (\A i \in 1..(n - 2) : fs[i] = fr[i])
       /\ fs[n - 1] = g
  <2>1. fr \in Seq(Frames)
    BY DEF Stack
  <2>2. n \in Nat
    BY <2>1, LenProperties
  <2>3. n > 1
    BY <2>2
  <2> QED
    BY <1>2, <2>3, FrontTopIs
<1>4. FilledAs(c, fn, x, g)
  BY <1>1, FilledIs
<1>5. Grown(c, g) /\ g.fn = c.fn
  BY <1>4 DEF FilledAs
<1>6. k \in 2..n /\ k \in Nat /\ goal[2] = T /\ (\A i \in 2..k : goal[i] \in Goal(fr[i]))
       /\ (\A i \in 2..(k - 1) : Expects(fr[i], fr[i + 1].fn, goal[i], goal[i + 1]))
       /\ Differs(fr[k], goal[k])
  BY DEF DivergedAt
<1>7. CASE k < n
  <2>1. k <= Len(fs) /\ \A i \in 1..(k - 1) : fs[i] = fr[i]
    BY <1>3, <1>6, <1>7
  <2>2. fs[k] = fr[k] \/ Grown(fr[k], fs[k])
    <3>1. k = n - 1 \/ k \in 1..(n - 2)
      BY <1>3, <1>6, <1>7
    <3> QED
      BY <1>1, <1>3, <1>5, <3>1
  <2>3. Diverged(fs, T)
    BY <1>3, <2>1, <2>2, DivergedStays
  <2> QED
    BY <1>1, <1>2, <2>3
<1>8. CASE k = n
  <2>1. PICK j : j = n - 1
    OBVIOUS
  <2>2. j \in 2..n /\ j \in 2..k /\ j \in 2..(k - 1) /\ j + 1 = n /\ j \in Nat
    BY <1>3, <1>6, <1>8, <2>1
  <2>3. goal[j] \in Goal(c) /\ Expects(c, fr[n].fn, goal[j], goal[n])
    BY <1>1, <1>6, <2>1, <2>2
  <2>4. Expects(c, fn, goal[j], goal[n])
    BY <2>3 DEF Expects
  <2>5. x # goal[n] /\ (fn # "read_node" => ts_copy_value[x] # goal[n])
    BY <1>6, <1>8
  <2>6. Differs(g, goal[j])
    BY <1>1, <2>3, <2>4, <2>5, FilledDiffers
  <2>7. ASSUME NEW i \in 2..j PROVE goal[i] \in Goal(fs[i])
    <3>1. i \in 2..k /\ (i = j \/ i \in 1..(n - 2))
      BY <1>3, <1>8, <2>1, <2>2
    <3>2. goal[i] \in Goal(fr[i])
      BY <1>6, <3>1
    <3>3. Goal(g) = Goal(c)
      BY <1>5 DEF Goal
    <3> QED
      BY <1>1, <1>3, <2>1, <3>1, <3>2, <3>3
  <2>8. ASSUME NEW i \in 2..(j - 1) PROVE Expects(fs[i], fs[i + 1].fn, goal[i], goal[i + 1])
    <3>1. i \in 2..(k - 1) /\ i \in 1..(n - 2) /\ (i + 1 = j \/ i + 1 \in 1..(n - 2))
      BY <1>3, <1>8, <2>1, <2>2
    <3>2. Expects(fr[i], fr[i + 1].fn, goal[i], goal[i + 1])
      BY <1>6, <3>1
    <3>3. fs[i] = fr[i] /\ fs[i + 1].fn = fr[i + 1].fn
      BY <1>1, <1>3, <1>5, <2>1, <3>1
    <3> QED
      BY <3>2, <3>3
  <2>9. j \in 2..Len(fs) /\ Differs(fs[j], goal[j])
    BY <1>3, <2>1, <2>2, <2>6
  <2>10. DivergedAt(fs, goal, j, T)
    BY <1>6, <2>7, <2>8, <2>9 DEF DivergedAt
  <2> QED
    BY <1>1, <1>2, <2>10 DEF Diverged
<1> QED
  BY <1>3, <1>6, <1>7, <1>8

(* Loading again has gone another way than the tree T that was saved. *)
Away(p, fr, r, T) ==
  CASE p = "failed" -> r = Null
    [] p = "loaded" -> r # T
    [] OTHER -> Diverged(fr, T) /\ p \notin {"root", "root_brace"}

LEMMA AwayTop ==
  ASSUME NEW fr, Stack(fr), NEW n, n = Len(fr), n > 1, NEW T, Diverged(fr, T),
         NEW g, Grown(fr[n], g)
  PROVE  Diverged(OnTop(fr, g), T)
<1>1. PICK goal, k : DivergedAt(fr, goal, k, T)
  BY DEF Diverged
<1>2. PICK fs : fs = OnTop(fr, g)
  OBVIOUS
<1>3. n \in Nat /\ Len(fs) = n /\ (\A i \in 1..(n - 1) : fs[i] = fr[i]) /\ fs[n] = g
  <2>1. fr \in Seq(Frames)
    BY DEF Stack
  <2> QED
    BY <1>2, <2>1, OnTopIs
<1>4. k \in 2..n /\ k \in Nat
  BY <1>1 DEF DivergedAt
<1>5. k <= Len(fs) /\ (\A i \in 1..(k - 1) : fs[i] = fr[i]) /\ (k = n \/ k \in 1..(n - 1))
  BY <1>3, <1>4
<1>6. fs[k] = fr[k] \/ Grown(fr[k], fs[k])
  BY <1>3, <1>5
<1>7. Diverged(fs, T)
  BY <1>1, <1>3, <1>5, <1>6, DivergedStays
<1> QED
  BY <1>2, <1>7

LEMMA AwayPush ==
  ASSUME NEW fr, Stack(fr), NEW T, Diverged(fr, T), NEW g
  PROVE  Diverged(Append(fr, g), T)
<1>1. PICK goal, k : DivergedAt(fr, goal, k, T)
  BY DEF Diverged
<1>2. PICK fs, n : fs = Append(fr, g) /\ n = Len(fr)
  OBVIOUS
<1>3. n \in Nat /\ Len(fs) = n + 1 /\ \A i \in 1..n : fs[i] = fr[i]
  <2>1. fr \in Seq(Frames \cup {g})
    <3>1. fr \in Seq(Frames)
      BY DEF Stack
    <3> QED
      BY <3>1, SeqMonotonic
  <2>2. g \in Frames \cup {g}
    OBVIOUS
  <2> QED
    BY <1>2, <2>1, <2>2, AppendIs
<1>4. k \in 2..n /\ k \in Nat
  BY <1>1, <1>2 DEF DivergedAt
<1>5. k <= Len(fs) /\ (\A i \in 1..(k - 1) : fs[i] = fr[i]) /\ k \in 1..n
  BY <1>3, <1>4
<1>6. fs[k] = fr[k] /\ Len(fs) \in Nat
  BY <1>3, <1>5
<1>7. Diverged(fs, T)
  BY <1>1, <1>2, <1>3, <1>5, <1>6, DivergedStays
<1> QED
  BY <1>2, <1>7

-----------------------------------------------------------------------------
LEMMA PrefixItself ==
  ASSUME NEW s
  PROVE  Prefix(s, s)
BY DEF Prefix

LEMMA ItemAway ==
  ASSUME Sound(pc, frames, heap, result), NEW tok \in Tokens \cup {EOF},
         NEW T, Diverged(frames, T), Item(tok)
  PROVE  Away(pc', frames', result', T)
<1>1. pc = "item"
  BY DEF Item
<1>2. PICK n : n = Len(frames)
  OBVIOUS
<1>3. Stack(frames) /\ n > 1 /\ frames[n].fn = "read_node" /\ Top = frames[n]
  BY <1>1, <1>2 DEF Sound, Place, Top
<1>4. n \in Nat /\ MaxDepth - n \in 0..MaxDepth /\ frames[n] \in NodeAt(MaxDepth - n)
  BY <1>2, <1>3, TopIs
<1>5. CASE tok.type = "TOK_ID"
  <2>1. PICK f, g, d : f = frames[n] /\ g = [f EXCEPT !.id = tok.text] /\ d = MaxDepth - n
    OBVIOUS
  <2>2. tok.text \in Words \cup {Null}
    BY <1>5, TokenIs DEF TokenKind
  <2>3. g \in NodeAt(d) /\ g.attrs = f.attrs /\ g.kids = f.kids
    BY <1>4, <2>1, <2>2, NodeNamed
  <2>4. g.fn = "read_node" /\ f.fn = "read_node"
    BY <1>3, <1>4, <2>1, <2>3, NodeFields
  <2>5. Grown(f, g)
    BY <2>3, <2>4, PrefixItself DEF Grown
  <2>6. frames' = OnTop(frames, g) /\ pc' = "name"
    BY <1>1, <1>3, <1>5, <2>1 DEF Item
  <2>7. Diverged(OnTop(frames, g), T)
    BY <1>2, <1>3, <2>1, <2>5, AwayTop
  <2> QED
    BY <2>6, <2>7 DEF Away
<1>6. CASE tok.type # "TOK_ID" /\ tok = Sym("}")
  <2>1. ReturnNode
    BY <1>6 DEF Item
  <2>2. PICK x : x = NodeRead(frames[n], frames[n - 1].id)
    OBVIOUS
  <2>3. /\ x \in Tree /\ frames[n - 1].id \in Words
        /\ n = 2 => pc' = "loaded" /\ result' = x
        /\ n > 2 => /\ pc' = "item" /\ result' = result
                    /\ frames' = OnTop(Front(frames), Filled(frames[n - 1], "read_node", x))
                    /\ Fits(frames[n - 1], MaxDepth - (n - 1), "read_node", x)
    BY <1>1, <1>2, <2>1, <2>2, NodeReturns
  <2>4. PICK goal, k : DivergedAt(frames, goal, k, T)
    BY DEF Diverged
  <2>5. Differs(frames[n], goal[n]) => x # goal[n]
    BY <1>4, <2>2, <2>3, ReturnDiffers
  <2>6. CASE n = 2
    <3>1. k \in 2..n /\ goal[2] = T /\ Differs(frames[k], goal[k])
      BY <1>2, <2>4 DEF DivergedAt
    <3>2. k = 2
      BY <2>6, <3>1
    <3> QED
      BY <2>3, <2>5, <2>6, <3>1, <3>2 DEF Away
  <2>7. CASE n > 2
    <3>1. PICK d, c : d = MaxDepth - (n - 1) /\ c = frames[n - 1]
      OBVIOUS
    <3>2. d \in 0..MaxDepth
      BY <1>2, <1>3, <3>1, CallerIs
    <3>3. Diverged(OnTop(Front(frames), Filled(c, "read_node", x)), T)
      BY <1>2, <1>3, <2>3, <2>4, <2>5, <2>7, <3>1, <3>2, DivergedReturns
    <3> QED
      BY <2>3, <2>7, <3>1, <3>3 DEF Away
  <2> QED
    BY <1>3, <1>4, <2>6, <2>7
<1>7. CASE tok.type # "TOK_ID" /\ tok # Sym("}")
  BY <1>7 DEF Item, Fail, Away
<1> QED
  BY <1>5, <1>6, <1>7

LEMMA AfterNameAway ==
  ASSUME Sound(pc, frames, heap, result), NEW tok \in Tokens \cup {EOF},
         NEW T, Diverged(frames, T), AfterName(tok)
  PROVE  Away(pc', frames', result', T)
<1>1. pc = "name"
  BY DEF AfterName
<1>2. PICK n : n = Len(frames)
  OBVIOUS
<1>3. Stack(frames) /\ n > 1 /\ frames[n].fn = "read_node" /\ Top = frames[n]
  BY <1>1, <1>2 DEF Sound, Place, Top
<1>4. n \in Nat /\ MaxDepth - n \in 0..MaxDepth /\ frames[n] \in NodeAt(MaxDepth - n)
  BY <1>2, <1>3, TopIs
<1>5. CASE tok = Sym("=")
  <2>1. PICK f, g, d : f = frames[n] /\ g = [f EXCEPT !.attr_allocated = TRUE] /\ d = MaxDepth - n
    OBVIOUS
  <2>2. g \in NodeAt(d) /\ g.attrs = f.attrs /\ g.kids = f.kids
    BY <1>4, <2>1, NodeAllocates
  <2>3. g.fn = "read_node" /\ f.fn = "read_node"
    BY <1>3, <1>4, <2>1, <2>2, NodeFields
  <2>4. Grown(f, g)
    BY <2>2, <2>3, PrefixItself DEF Grown
  <2>5. frames' = OnTop(frames, g) /\ pc' = "value"
    BY <1>1, <1>3, <1>5, <2>1 DEF AfterName
  <2>6. Diverged(OnTop(frames, g), T)
    BY <1>2, <1>3, <2>1, <2>4, AwayTop
  <2> QED
    BY <2>5, <2>6 DEF Away
<1>6. CASE tok # Sym("=") /\ tok = Sym("{")
  <2>1. pc' = "item" /\ frames' = Append(frames, NodeFrame)
    BY <1>6 DEF AfterName, CallReadNode
  <2>2. Diverged(Append(frames, NodeFrame), T)
    BY <1>3, AwayPush
  <2> QED
    BY <2>1, <2>2 DEF Away
<1>7. CASE tok # Sym("=") /\ tok # Sym("{")
  BY <1>7 DEF AfterName, Fail, Away
<1> QED
  BY <1>5, <1>6, <1>7

LEMMA ReturnArrayAway ==
  ASSUME Sound(pc, frames, heap, result), pc \in {"element", "separator"},
         NEW T, Diverged(frames, T), ReturnArray
  PROVE  Away(pc', frames', result', T)
<1>1. PICK n, v, d, c : /\ n = Len(frames) /\ v = ts_set_value_arr(frames[n].values)
                        /\ d = MaxDepth - n /\ c = frames[n - 1]
  OBVIOUS
<1>2. /\ n > 2 /\ frames[n] \in ArrayAt(d) /\ frames[n].fn = "read_array"
      /\ Len(frames[n].values) \in Nat
      /\ Len(frames[n].values) < 2 => pc' = "failed" /\ result' = Null
      /\ Len(frames[n].values) >= 2 =>
           /\ frames[n].values \in Lists(ValueOf[d])
           /\ pc' = (IF c.fn = "read_node" THEN "item" ELSE "separator")
           /\ frames' = OnTop(Front(frames), Filled(c, "read_array", v))
           /\ Fits(c, MaxDepth - (n - 1), "read_array", v)
  BY <1>1, ArrayReturns
<1>3. CASE Len(frames[n].values) < 2
  BY <1>2, <1>3 DEF Away
<1>4. CASE Len(frames[n].values) >= 2
  <2>1. PICK goal, k : DivergedAt(frames, goal, k, T)
    BY DEF Diverged
  <2>2. Stack(frames)
    BY DEF Sound
  <2>3. n \in Nat /\ d \in 0..MaxDepth /\ MaxDepth - (n - 1) \in 0..MaxDepth /\ MaxDepth - (n - 1) = d + 1
    <3>1. Len(frames) > 1
      <4>1. Len(frames) \in Nat
        BY <2>2, LenProperties DEF Stack
      <4> QED
        BY <1>1, <1>2, <4>1
    <3> QED
      BY <1>1, <2>2, <3>1, CallerIs
  <2>4. Differs(frames[n], goal[n]) => v # goal[n] /\ ts_copy_value[v] # goal[n]
    BY <1>1, <1>2, <1>4, <2>3, ReturnDiffers
  <2>5. PICK e : e = d + 1
    OBVIOUS
  <2>6. Fits(c, e, "read_array", v) /\ e \in 0..MaxDepth
    BY <1>2, <1>4, <2>3, <2>5
  <2>7. Diverged(OnTop(Front(frames), Filled(c, "read_array", v)), T)
    BY <1>1, <1>2, <2>1, <2>2, <2>4, <2>6, DivergedReturns
  <2> QED
    BY <1>2, <1>4, <2>7 DEF Away
<1> QED
  BY <1>2, <1>3, <1>4

LEMMA ReadValueAway ==
  ASSUME Sound(pc, frames, heap, result), pc \in {"value", "element"},
         NEW tok \in Tokens \cup {EOF}, tok # EOF, NEW T, Diverged(frames, T), read_value(tok)
  PROVE  Away(pc', frames', result', T)
<1>1. PICK n, c, v, d : /\ n = Len(frames) /\ c = (IF tok = Sym("[") THEN "]" ELSE "}")
                        /\ v = ScalarOf(tok) /\ d = MaxDepth - n
  OBVIOUS
<1>2. /\ n > 1
      /\ tok \in {Sym("["), Sym("{")} =>
           frames' = Append(frames, ArrayFrame(c)) /\ pc' = "element"
      /\ tok \notin {Sym("["), Sym("{")} =>
           Delivered(frames, v) /\ Fits(frames[n], d, "read_array", v)
  BY <1>1, ValueRead
<1>3. Stack(frames)
  BY DEF Sound
<1>4. CASE tok \in {Sym("["), Sym("{")}
  <2>1. Diverged(Append(frames, ArrayFrame(c)), T)
    BY <1>3, AwayPush
  <2> QED
    BY <1>2, <1>4, <2>1 DEF Away
<1>5. CASE tok \notin {Sym("["), Sym("{")}
  <2>1. PICK f, g : f = frames[n] /\ g = Filled(f, "read_array", v)
    OBVIOUS
  <2>2. d \in 0..MaxDepth
    BY <1>1, <1>2, <1>3, TopIs
  <2>3. FilledAs(f, "read_array", v, g)
    BY <1>2, <1>5, <2>1, <2>2, FilledIs
  <2>4. Diverged(OnTop(frames, g), T)
    BY <1>1, <1>2, <1>3, <2>1, <2>3, AwayTop DEF FilledAs
  <2>5. frames' = OnTop(frames, g) /\ pc' \in {"item", "separator"}
    BY <1>1, <1>2, <1>5, <2>1 DEF Delivered
  <2> QED
    BY <2>4, <2>5 DEF Away
<1> QED
  BY <1>4, <1>5

LEMMA AwayStays ==
  ASSUME Sound(pc, frames, heap, result), NEW tok \in Tokens \cup {EOF},
         NEW T, Away(pc, frames, result, T),
         \/ RootName(tok) \/ RootBrace(tok) \/ Item(tok) \/ AfterName(tok)
         \/ AttrValue(tok) \/ Element(tok) \/ Separator(tok)
  PROVE  Away(pc', frames', result', T)
<1>1. pc \notin {"failed", "loaded"}
  BY DEF RootName, RootBrace, Item, AfterName, AttrValue, Element, Separator
<1>2. Diverged(frames, T) /\ pc \notin {"root", "root_brace"}
  BY <1>1 DEF Away
<1>3. CASE Item(tok)
  BY <1>2, <1>3, ItemAway
<1>4. CASE AfterName(tok)
  BY <1>2, <1>4, AfterNameAway
<1>5. CASE AttrValue(tok)
  <2>1. pc = "value"
    BY <1>5 DEF AttrValue
  <2>2. CASE tok = EOF
    BY <1>5, <2>2 DEF AttrValue, Fail, Away
  <2>3. CASE tok # EOF
    BY <1>2, <1>5, <2>1, <2>3, ReadValueAway DEF AttrValue
  <2> QED
    BY <2>2, <2>3
<1>6. CASE Element(tok)
  <2>1. pc = "element"
    BY <1>6 DEF Element
  <2>2. CASE tok = EOF
    BY <1>2, <1>6, <2>1, <2>2, ReturnArrayAway DEF Element
  <2>3. CASE tok # EOF
    BY <1>2, <1>6, <2>1, <2>3, ReadValueAway DEF Element
  <2> QED
    BY <2>2, <2>3
<1>7. CASE Separator(tok)
  <2>1. pc = "separator"
    BY <1>7 DEF Separator
  <2>2. CASE tok = Sym(Top.endsym)
    BY <1>2, <1>7, <2>1, <2>2, ReturnArrayAway DEF Separator
  <2>3. CASE tok # Sym(Top.endsym) /\ tok = Sym(",")
    BY <1>2, <1>7, <2>3 DEF Separator, Away
  <2>4. CASE tok # Sym(Top.endsym) /\ tok # Sym(",")
    BY <1>7, <2>4 DEF Separator, Fail, Away
  <2> QED
    BY <2>2, <2>3, <2>4
<1> QED
  BY <1>2, <1>3, <1>4, <1>5, <1>6, <1>7 DEF RootName, RootBrace

-----------------------------------------------------------------------------
(* Following the saved tree: what a call f that reads t again has read is   *)
(* the beginning of t, all of it printable.                                 *)
NodeReads(f, t) ==
  /\ Prefix(f.attrs, t.attrs) /\ \A i \in DOMAIN f.attrs : Printable[t.attrs[i].val]
  /\ Prefix(f.kids, t.kids) /\ \A i \in DOMAIN f.kids : AllPrintable[t.kids[i]]
  /\ f.kids # <<>> => Len(f.attrs) = Len(t.attrs)
ArrayReads(f, t) ==
  /\ t.type = "TS_ARRAY" /\ f.endsym = "]"
  /\ Prefix(f.values, t.array) /\ \A i \in DOMAIN f.values : Printable[t.array[i]]
Reads(f, t) == IF f.fn = "read_node" THEN NodeReads(f, t) ELSE ArrayReads(f, t)

(* f waits for a call fn (or a token) that reads e, the next part of t. *)
Named(f, fn, t, e) ==
  IF fn = "read_node" THEN f.id = e.name /\ Len(f.attrs) = Len(t.attrs)
  ELSE f.fn = "read_node" => f.id = t.attrs[Len(f.attrs) + 1].name
Awaits(f, fn, t, e) == Reads(f, t) /\ Expects(f, fn, t, e) /\ Named(f, fn, t, e)

(* The text of t that f has left, and that it will have left after e. *)
Left(f, t) ==
  IF f.fn = "read_node" THEN NodeRest(t, Len(f.attrs), Len(f.kids))
  ELSE ArrayRest(t, Len(f.values))
Beyond(f, fn, t) ==
  IF fn = "read_node" THEN NodeRest(t, Len(f.attrs), Len(f.kids) + 1)
  ELSE IF f.fn = "read_node" THEN NodeRest(t, Len(f.attrs) + 1, Len(f.kids))
       ELSE ArrayRest(t, Len(f.values) + 1)

Readable(fn, e) == IF fn = "read_node" THEN AllPrintable[e] ELSE Printable[e]
Kind(fn) == IF fn = "read_node" THEN Tree ELSE Value

LEMMA PrefixLength ==
  ASSUME NEW S, NEW s \in Seq(S), NEW u \in Seq(S), Prefix(s, u)
  PROVE  /\ Len(s) \in Nat /\ Len(u) \in Nat /\ Len(s) <= Len(u) /\ Len(s) \in 0..Len(u)
         /\ DOMAIN s = 1..Len(s) /\ DOMAIN u = 1..Len(u)
         /\ Len(s) = Len(u) => s = u
         /\ Len(s) < Len(u) => Len(s) + 1 \in DOMAIN u /\ Len(s) + 1 \in 0..Len(u)
         /\ Len(s) + 1 \in DOMAIN u => Len(s) < Len(u)
<1>1. PICK m, n : m = Len(s) /\ n = Len(u)
  OBVIOUS
<1>2. m \in Nat /\ n \in Nat /\ DOMAIN s = 1..m /\ DOMAIN u = 1..n
  BY <1>1, LenProperties
<1>3. 1..m \subseteq 1..n
  BY <1>2 DEF Prefix
<1>4. m <= n
  <2>1. m = 0 \/ m \in 1..m
    BY <1>2
  <2> QED
    BY <1>2, <1>3, <2>1
<1>5. ASSUME m = n PROVE s = u
  <2>1. \A i \in 1..Len(s) : s[i] = u[i]
    BY <1>1, <1>2 DEF Prefix
  <2> QED
    BY <1>1, <1>5, <2>1, SeqEqual
<1> QED
  BY <1>1, <1>2, <1>4, <1>5

LEMMA PrefixGrows ==
  ASSUME NEW S, NEW s \in Seq(S), NEW u \in Seq(S), Prefix(s, u), NEW x \in S,
         Len(s) + 1 \in DOMAIN u, u[Len(s) + 1] = x
  PROVE  /\ Prefix(Append(s, x), u) /\ Len(Append(s, x)) = Len(s) + 1
         /\ \A i \in DOMAIN Append(s, x) : i \in DOMAIN s \/ i = Len(s) + 1
         /\ Append(s, x) # <<>>
<1>1. PICK m, a : m = Len(s) /\ a = Append(s, x)
  OBVIOUS
<1>2. /\ a \in Seq(S) /\ Len(a) = m + 1 /\ m \in Nat /\ DOMAIN a = 1..(m + 1)
      /\ \A i \in 1..m : a[i] = s[i]
      /\ a[m + 1] = x
  BY <1>1, AppendIs
<1>3. DOMAIN s = 1..m
  BY <1>1, LenProperties
<1>4. \A i \in DOMAIN a : i \in DOMAIN s \/ i = m + 1
  BY <1>2, <1>3
<1>5. Prefix(a, u)
  BY <1>1, <1>2, <1>3, <1>4 DEF Prefix
<1>6. a # <<>>
  BY <1>2
<1> QED
  BY <1>1, <1>2, <1>4, <1>5, <1>6

(* The part awaited is a tree or value, and what it makes unprintable is    *)
(* the whole.                                                               *)
LEMMA AwaitedIs ==
  ASSUME NEW f, NEW t \in Goal(f), NEW fn, NEW e, Awaits(f, fn, t, e),
         fn = "read_node" => f.fn = "read_node"
  PROVE  /\ e \in Kind(fn)
         /\ ~Readable(fn, e) => IF f.fn = "read_node" THEN ~AllPrintable[t] ELSE ~Printable[t]
<1>1. CASE fn = "read_node"
  <2>1. t \in Tree /\ e = t.kids[Len(f.kids) + 1] /\ Len(f.kids) + 1 \in DOMAIN t.kids /\ f.fn = "read_node"
    BY <1>1 DEF Awaits, Expects, Goal
  <2>2. e \in Tree
    <3>1. t.kids \in Seq(Tree)
      BY <2>1, TreeFields
    <3> QED
      BY <2>1, <3>1
  <2>3. ~AllPrintable[e] => ~AllPrintable[t]
    BY <2>1, AllPrintableIs
  <2> QED
    BY <1>1, <2>1, <2>2, <2>3 DEF Kind, Readable
<1>2. CASE fn # "read_node" /\ f.fn = "read_node"
  <2>1. PICK k : k = Len(f.attrs) + 1
    OBVIOUS
  <2>2. t \in Tree /\ e = t.attrs[k].val /\ k \in DOMAIN t.attrs
    BY <1>2, <2>1 DEF Awaits, Expects, Goal
  <2>3. e \in Value
    <3>1. t.attrs \in Seq(Attr)
      BY <2>2, TreeFields
    <3>2. t.attrs[k] \in Attr
      BY <2>2, <3>1
    <3> QED
      BY <2>2, <3>2 DEF Attr
  <2>4. ~Printable[e] => ~AllPrintable[t]
    BY <2>2, AllPrintableIs
  <2> QED
    BY <1>2, <2>3, <2>4 DEF Kind, Readable
<1>3. CASE fn # "read_node" /\ f.fn # "read_node"
  <2>1. PICK k : k = Len(f.values) + 1
    OBVIOUS
  <2>2. t \in Value /\ e = t.array[k] /\ k \in DOMAIN t.array /\ t.type = "TS_ARRAY"
    BY <1>3, <2>1 DEF Awaits, Expects, Goal, Reads, ArrayReads
  <2>3. e \in Value
    <3>1. t.array \in Seq(Value)
      BY <2>2, ValueArrayType
    <3> QED
      BY <2>2, <3>1
  <2>4. ~Printable[e] => ~Printable[t]
    BY <2>2, PrintableIs
  <2> QED
    BY <1>3, <2>3, <2>4 DEF Kind, Readable
<1> QED
  BY <1>1, <1>2, <1>3

(* When what was awaited is returned, the caller has read it. *)
LEMMA FilledReads ==
  ASSUME NEW d \in 0..MaxDepth, NEW f, NEW t \in Goal(f), NEW fn, NEW e,
         Fits(f, d, fn, e), Awaits(f, fn, t, e), Readable(fn, e),
         NEW g, g = Filled(f, fn, e)
  PROVE  /\ g.fn = f.fn /\ Reads(g, t) /\ Left(g, t) = Beyond(f, fn, t)
         /\ f.fn # "read_node" => Len(g.values) \in Nat /\ Len(g.values) > 0
<1>0. FilledAs(f, fn, e, g)
  BY FilledIs
<1>1. CASE fn = "read_node"
  <2>1. f.fn = "read_node" /\ g.fn = "read_node" /\ g.attrs = f.attrs /\ g.kids = Append(f.kids, e)
    BY <1>0, <1>1 DEF FilledAs
  <2>2. NodeReads(f, t) /\ t \in Tree /\ e = t.kids[Len(f.kids) + 1] /\ Len(f.kids) + 1 \in DOMAIN t.kids
         /\ Len(f.attrs) = Len(t.attrs) /\ AllPrintable[e]
    BY <1>1, <2>1 DEF Awaits, Reads, Expects, Goal, Named, Readable
  <2>3. f.kids \in Seq(Tree) /\ t.kids \in Seq(Tree) /\ e \in Tree
    <3>1. f.kids \in Seq(Tree)
      BY <1>1, NodeFields DEF Fits
    <3>2. t.kids \in Seq(Tree)
      BY <2>2, TreeFields
    <3> QED
      BY <2>2, <3>1, <3>2
  <2>4. /\ Prefix(g.kids, t.kids) /\ Len(g.kids) = Len(f.kids) + 1
        /\ \A i \in DOMAIN g.kids : i \in DOMAIN f.kids \/ i = Len(f.kids) + 1
    BY <2>1, <2>2, <2>3, PrefixGrows DEF NodeReads
  <2>5. NodeReads(g, t)
    BY <2>1, <2>2, <2>4 DEF NodeReads
  <2> QED
    BY <1>1, <2>1, <2>4, <2>5 DEF Reads, Left, Beyond
<1>2. CASE fn # "read_node" /\ f.fn = "read_node"
  <2>1. PICK attr, k : attr = [name |-> f.id, val |-> e] /\ k = Len(f.attrs) + 1
    OBVIOUS
  <2>2. g.fn = "read_node" /\ g.kids = f.kids /\ g.attrs = Append(f.attrs, attr)
    BY <1>0, <1>2, <2>1 DEF FilledAs
  <2>3. NodeReads(f, t) /\ t \in Tree /\ k \in DOMAIN t.attrs /\ e = t.attrs[k].val
         /\ f.id = t.attrs[k].name /\ Printable[e]
    BY <1>2, <2>1 DEF Awaits, Reads, Expects, Goal, Named, Readable
  <2>4. f.attrs \in Seq(Attr) /\ t.attrs \in Seq(Attr)
    <3>1. f.attrs \in Seq(Attr)
      BY <1>2, NodeFields, ArrayFields DEF Fits
    <3> QED
      BY <2>3, <3>1, TreeFields
  <2>5. t.attrs[k] = attr /\ attr \in Attr
    <3>1. t.attrs[k] \in Attr
      BY <2>3, <2>4
    <3> QED
      BY <2>1, <2>3, <3>1 DEF Attr
  <2>6. /\ Prefix(g.attrs, t.attrs) /\ Len(g.attrs) = k
        /\ \A i \in DOMAIN g.attrs : i \in DOMAIN f.attrs \/ i = k
    <3>1. PICK s, u : s = f.attrs /\ u = t.attrs
      OBVIOUS
    <3>2. s \in Seq(Attr) /\ u \in Seq(Attr) /\ Prefix(s, u) /\ Len(s) + 1 \in DOMAIN u
           /\ u[Len(s) + 1] = attr /\ attr \in Attr
      BY <2>1, <2>3, <2>4, <2>5, <3>1 DEF NodeReads
    <3> QED
      BY <2>1, <2>2, <3>1, <3>2, PrefixGrows
  <2>7. f.kids = <<>>
    <3>1. Len(f.attrs) # Len(t.attrs)
      BY <2>1, <2>3, <2>4, PrefixLength DEF NodeReads
    <3> QED
      BY <2>3, <3>1 DEF NodeReads
  <2>8. NodeReads(g, t)
    BY <2>2, <2>3, <2>6, <2>7 DEF NodeReads
  <2> QED
    BY <1>2, <2>1, <2>2, <2>6, <2>8 DEF Reads, Left, Beyond
<1>3. CASE fn # "read_node" /\ f.fn # "read_node"
  <2>1. PICK k : k = Len(f.values) + 1
    OBVIOUS
  <2>2. g.fn = f.fn /\ g.values = IF Stored(f.values) THEN Append(f.values, e) ELSE f.values
    BY <1>0, <1>3 DEF FilledAs
  <2>3. ArrayReads(f, t) /\ t \in Value /\ k \in DOMAIN t.array /\ e = t.array[k] /\ Printable[e]
    BY <1>3, <2>1 DEF Awaits, Reads, Expects, Goal, Readable
  <2>4. f \in ArrayAt(d)
    BY <1>3, NodeFields DEF Fits
  <2>5. f.values \in Seq(Value) /\ t.array \in Seq(Value)
    BY <2>3, <2>4, ArrayFields, ValueArrayType
  <2>6. e \in Value
    BY <2>3, <2>5
  <2>7. Stored(f.values)
    <3>1. t \notin Scalars
      BY <2>3, ScalarFields DEF ArrayReads
    <3>2. Len(t.array) \in 2..MaxStored
      BY <2>3, <3>1, CompoundFields
    <3>3. Len(f.values) < Len(t.array) /\ Len(f.values) \in Nat
      BY <2>1, <2>3, <2>5, PrefixLength DEF ArrayReads
    <3>4. MaxStored \in Nat
      BY TextAssumption
    <3> QED
      BY <3>2, <3>3, <3>4 DEF Stored
  <2>8. g.values = Append(f.values, e)
    BY <2>2, <2>7
  <2>9. /\ Prefix(g.values, t.array) /\ Len(g.values) = k
        /\ \A i \in DOMAIN g.values : i \in DOMAIN f.values \/ i = k
    <3>1. PICK s, u : s = f.values /\ u = t.array
      OBVIOUS
    <3>2. s \in Seq(Value) /\ u \in Seq(Value) /\ Prefix(s, u) /\ Len(s) + 1 \in DOMAIN u
           /\ u[Len(s) + 1] = e /\ e \in Value
      BY <2>1, <2>3, <2>5, <2>6, <3>1 DEF ArrayReads
    <3>3. /\ Prefix(Append(s, e), u) /\ Len(Append(s, e)) = Len(s) + 1
          /\ \A i \in DOMAIN Append(s, e) : i \in DOMAIN s \/ i = Len(s) + 1
      BY <3>2, PrefixGrows, SMTT(30)
    <3> QED
      BY <2>1, <2>8, <3>1, <3>3
  <2>10. g.endsym = f.endsym
    <3>1. e \in ValueOf[d] /\ g = WithValue(f, e)
      BY <1>3 DEF Fits, Filled
    <3> QED
      BY <2>4, <3>1, ArrayGets
  <2>11. ArrayReads(g, t)
    BY <2>3, <2>9, <2>10 DEF ArrayReads
  <2>12. k \in Nat /\ k > 0
    BY <2>1, <2>5, LenProperties
  <2> QED
    BY <1>3, <2>1, <2>2, <2>9, <2>11, <2>12 DEF Reads, Left, Beyond
<1> QED
  BY <1>1, <1>2, <1>3

(* The texts that are left. *)
LEMMA BeyondType ==
  ASSUME NEW d \in 0..MaxDepth, NEW f \in NodeAt(d) \cup ArrayAt(d), NEW t \in Goal(f), NEW fn, NEW e,
         Awaits(f, fn, t, e), fn = "read_node" => f.fn = "read_node"
  PROVE  Beyond(f, fn, t) \in Seq(Tokens)
<1>1. CASE f.fn = "read_node"
  <2>1. NodeReads(f, t) /\ t \in Tree
    BY <1>1 DEF Awaits, Reads, Goal
  <2>2. f.attrs \in Seq(Attr) /\ f.kids \in Seq(Tree) /\ t.attrs \in Seq(Attr) /\ t.kids \in Seq(Tree)
    BY <1>1, <2>1, NodeFields, ArrayFields, TreeFields
  <2>3. /\ Len(f.attrs) \in 0..Len(t.attrs)
        /\ Len(f.attrs) + 1 \in DOMAIN t.attrs => Len(f.attrs) + 1 \in 0..Len(t.attrs)
    BY <2>1, <2>2, PrefixLength DEF NodeReads
  <2>4. /\ Len(f.kids) \in 0..Len(t.kids)
        /\ Len(f.kids) + 1 \in DOMAIN t.kids => Len(f.kids) + 1 \in 0..Len(t.kids)
    BY <2>1, <2>2, PrefixLength DEF NodeReads
  <2>5. CASE fn = "read_node"
    BY <2>1, <2>3, <2>4, <2>5, NodeRestType DEF Beyond, Awaits, Expects
  <2>6. CASE fn # "read_node"
    BY <1>1, <2>1, <2>3, <2>4, <2>6, NodeRestType DEF Beyond, Awaits, Expects
  <2> QED
    BY <2>5, <2>6
<1>2. CASE f.fn # "read_node"
  <2>1. ArrayReads(f, t) /\ t \in Value /\ fn # "read_node" /\ Len(f.values) + 1 \in DOMAIN t.array
    BY <1>2 DEF Awaits, Reads, Expects, Goal
  <2>2. f.values \in Seq(Value) /\ t.array \in Seq(Value)
    BY <1>2, <2>1, NodeFields, ArrayFields, ValueArrayType
  <2>3. Len(f.values) + 1 \in 0..Len(t.array)
    BY <2>1, <2>2, PrefixLength DEF ArrayReads
  <2>4. <<>> \in Seq(Tokens)
    OBVIOUS
  <2> QED
    BY <1>2, <2>1, <2>3, <2>4, ArrayRestIs DEF Beyond
<1> QED
  BY <1>1, <1>2

-----------------------------------------------------------------------------
(* Every call is reading a part of the saved tree T again: goal[i] is what  *)
(* call i reads, rest[i] the text that follows it.                          *)
Level(f, t, r, T) ==
  /\ t \in Goal(f) /\ r \in Seq(Tokens)
  /\ ~Readable(f.fn, t) => ~AllPrintable[T]
Linked(f, fn, t, e, r, s) == Awaits(f, fn, t, e) /\ s = Beyond(f, fn, t) \o r
Chain(fr, goal, rest, T) ==
  /\ fr[1].id = T.name /\ goal[2] = T /\ rest[2] = <<>>
  /\ \A i \in 2..Len(fr) : Level(fr[i], goal[i], rest[i], T)
  /\ \A i \in 2..(Len(fr) - 1) :
       Linked(fr[i], fr[i + 1].fn, goal[i], goal[i + 1], rest[i], rest[i + 1])

LEMMA LevelOf ==
  ASSUME NEW f, NEW g, g.fn = f.fn, NEW t, NEW r, NEW T, Level(f, t, r, T)
  PROVE  Level(g, t, r, T)
BY DEF Level, Goal

(* The top changes, or a call returns. *)
LEMMA ChainKept ==
  ASSUME NEW fr, NEW goal, NEW rest, NEW T, Chain(fr, goal, rest, T), Len(fr) \in Nat,
         NEW fs, NEW m, m = Len(fs), m \in 2..Len(fr), \A i \in 1..(m - 1) : fs[i] = fr[i],
         fs[m].fn = fr[m].fn
  PROVE  Chain(fs, goal, rest, T)
<1>1. m \in Nat /\ 1 \in 1..(m - 1)
  OBVIOUS
<1>2. fs[1].id = T.name /\ goal[2] = T /\ rest[2] = <<>>
  BY <1>1 DEF Chain
<1>3. ASSUME NEW i \in 2..m PROVE Level(fs[i], goal[i], rest[i], T) /\ fs[i].fn = fr[i].fn
  <2>1. i \in 2..Len(fr) /\ (i = m \/ i \in 1..(m - 1))
    BY <1>1
  <2>2. fs[i].fn = fr[i].fn
    BY <2>1
  <2>3. Level(fr[i], goal[i], rest[i], T)
    BY <2>1 DEF Chain
  <2> QED
    BY <2>2, <2>3, LevelOf
<1>4. ASSUME NEW i \in 2..(m - 1)
      PROVE  Linked(fs[i], fs[i + 1].fn, goal[i], goal[i + 1], rest[i], rest[i + 1])
  <2>1. i \in 2..(Len(fr) - 1) /\ i \in 1..(m - 1) /\ i + 1 \in 2..m
    BY <1>1
  <2>2. fs[i] = fr[i] /\ fs[i + 1].fn = fr[i + 1].fn
    BY <1>3, <2>1
  <2>3. Linked(fr[i], fr[i + 1].fn, goal[i], goal[i + 1], rest[i], rest[i + 1])
    BY <2>1 DEF Chain
  <2> QED
    BY <2>2, <2>3
<1> QED
  BY <1>2, <1>3, <1>4 DEF Chain

(* A call g is made, for the next part e. *)
Called(fr, goal, rest, T, n, g, e, s, fs) ==
  /\ Chain(fr, goal, rest, T) /\ n = Len(fr) /\ n \in Nat /\ n > 1
  /\ Linked(fr[n], g.fn, goal[n], e, rest[n], s) /\ Level(g, e, s, T)
  /\ Len(fs) = n + 1 /\ (\A i \in 1..n : fs[i] = fr[i]) /\ fs[n + 1] = g

LEMMA ChainGrows ==
  ASSUME NEW fr, NEW goal, NEW rest, NEW T, NEW n, NEW g, NEW e, NEW s, NEW fs,
         Called(fr, goal, rest, T, n, g, e, s, fs)
  PROVE  \E goals, rests : Chain(fs, goals, rests, T) /\ goals[Len(fs)] = e /\ rests[Len(fs)] = s
<1>0. /\ Chain(fr, goal, rest, T) /\ n = Len(fr) /\ n \in Nat /\ n > 1
      /\ Linked(fr[n], g.fn, goal[n], e, rest[n], s) /\ Level(g, e, s, T)
      /\ Len(fs) = n + 1 /\ (\A i \in 1..n : fs[i] = fr[i]) /\ fs[n + 1] = g
  BY DEF Called
<1>1. PICK m : m = n + 1
  OBVIOUS
<1>2. PICK goals, rests : /\ goals = [i \in Nat |-> IF i = m THEN e ELSE goal[i]]
                          /\ rests = [i \in Nat |-> IF i = m THEN s ELSE rest[i]]
  OBVIOUS
<1>3. /\ goals[m] = e /\ rests[m] = s
      /\ \A i \in 1..n : goals[i] = goal[i] /\ rests[i] = rest[i]
  <2>1. m \in Nat /\ \A i \in 1..n : i \in Nat /\ i # m
    BY <1>0, <1>1
  <2> QED
    BY <1>2, <2>1
<1>4. fs[1].id = T.name /\ goals[2] = T /\ rests[2] = <<>>
  <2>1. 1 \in 1..n /\ 2 \in 1..n
    BY <1>0
  <2> QED
    BY <1>0, <1>3, <2>1 DEF Chain
<1>5. ASSUME NEW i \in 2..m PROVE Level(fs[i], goals[i], rests[i], T)
  <2>1. i = m \/ (i \in 1..n /\ i \in 2..n)
    BY <1>0, <1>1
  <2>2. i \in 2..n => Level(fr[i], goal[i], rest[i], T)
    BY <1>0 DEF Chain
  <2>3. CASE i = m
    BY <1>0, <1>1, <1>3, <2>3
  <2>4. CASE i \in 1..n /\ i \in 2..n
    BY <1>0, <1>3, <2>2, <2>4
  <2> QED
    BY <2>1, <2>3, <2>4
<1>6. ASSUME NEW i \in 2..(m - 1)
      PROVE  Linked(fs[i], fs[i + 1].fn, goals[i], goals[i + 1], rests[i], rests[i + 1])
  <2>1. i \in 1..n /\ (i = n \/ (i \in 2..(n - 1) /\ i + 1 \in 1..n))
    BY <1>0, <1>1
  <2>2. i \in 2..(n - 1) => Linked(fr[i], fr[i + 1].fn, goal[i], goal[i + 1], rest[i], rest[i + 1])
    BY <1>0 DEF Chain
  <2>3. CASE i = n
    BY <1>0, <1>1, <1>3, <2>1, <2>3
  <2>4. CASE i \in 2..(n - 1) /\ i + 1 \in 1..n
    BY <1>0, <1>3, <2>1, <2>2, <2>4
  <2> QED
    BY <2>1, <2>3, <2>4
<1>7. Chain(fs, goals, rests, T)
  BY <1>0, <1>1, <1>4, <1>5, <1>6 DEF Chain
<1>8. goals[Len(fs)] = e /\ rests[Len(fs)] = s
  BY <1>0, <1>1, <1>3
<1> QED
  BY <1>7, <1>8

LEMMA ChainDiverges ==
  ASSUME NEW fr, NEW goal, NEW rest, NEW T, Chain(fr, goal, rest, T), NEW n, n = Len(fr),
         n \in Nat, n > 1, Differs(fr[n], goal[n])
  PROVE  Diverged(fr, T)
<1>1. \A i \in 2..n : goal[i] \in Goal(fr[i])
  BY DEF Chain, Level
<1>2. \A i \in 2..(n - 1) : Expects(fr[i], fr[i + 1].fn, goal[i], goal[i + 1])
  BY DEF Chain, Linked, Awaits
<1>3. n \in 2..n /\ goal[2] = T
  BY DEF Chain
<1>4. DivergedAt(fr, goal, n, T)
  BY <1>1, <1>2, <1>3 DEF DivergedAt
<1> QED
  BY <1>4 DEF Diverged

(* The text fi that is left, by what the call on top reads next. *)
ValueNext(f, t, r, fi) ==
  \E e : /\ Awaits(f, "read_array", t, e)
         /\ fi = print_value[e] \o (Beyond(f, "read_array", t) \o r)
NameNext(f, t, r, fi) ==
  \/ \E e : /\ Awaits(f, "read_array", t, e)
            /\ fi = <<Sym("=")>> \o (print_value[e] \o (Beyond(f, "read_array", t) \o r))
  \/ \E e : /\ Awaits(f, "read_node", t, e)
            /\ fi = <<Sym("{")>> \o (NodeRest(e, 0, 0) \o (Beyond(f, "read_node", t) \o r))
NothingNext(f, t, r, fi) ==
  t.type = "TS_VECTOR" /\ f.values = <<>> /\ fi = <<Sym("]")>> \o r

AtTop(p, f, t, r, fi) ==
  /\ p = "item" => Reads(f, t) /\ fi = Left(f, t) \o r
  /\ p = "separator" => Reads(f, t) /\ fi = Left(f, t) \o r /\ Len(f.values) > 0
  /\ p = "name" => NameNext(f, t, r, fi)
  /\ p = "value" => ValueNext(f, t, r, fi)
  /\ p = "element" => ValueNext(f, t, r, fi) \/ NothingNext(f, t, r, fi)

InTree(p, fr, fi, T) ==
  \E goal, rest : Chain(fr, goal, rest, T) /\ AtTop(p, fr[Len(fr)], goal[Len(fr)], rest[Len(fr)], fi)

Following(p, fr, fi, T) ==
  /\ p \notin {"loaded", "failed"}
  /\ p = "root" => fi = ts_text_save[T]
  /\ p = "root_brace" => fr[1].id = T.name /\ fi = <<Sym("{")>> \o NodeRest(T, 0, 0)
  /\ p \notin {"root", "root_brace"} => InTree(p, fr, fi, T)

(* Loading T again follows it as long as what is read can be printed, and   *)
(* goes another way only where it cannot.                                   *)
Reloads(p, fr, r, fi, T) ==
  \/ Following(p, fr, fi, T)
  \/ Away(p, fr, r, T) /\ ~AllPrintable[T]
  \/ p = "loaded" /\ r = T /\ AllPrintable[T]

(* A value or tree x is returned to the call on top of stack, which awaits  *)
(* e.                                                                       *)
Returned(stack, fn, x, p, fs) ==
  /\ fs = OnTop(stack, Filled(stack[Len(stack)], fn, x))
  /\ p = IF stack[Len(stack)].fn = "read_node" THEN "item" ELSE "separator"

LEMMA ReturnedFollows ==
  ASSUME NEW stack, Stack(stack), NEW m, m = Len(stack), m > 1,
         NEW goal, NEW rest, NEW T, Chain(stack, goal, rest, T),
         NEW d \in 0..MaxDepth, NEW fn, NEW x, Fits(stack[m], d, fn, x),
         Awaits(stack[m], fn, goal[m], x), Readable(fn, x),
         NEW p, NEW fs, Returned(stack, fn, x, p, fs),
         NEW fi, fi = Beyond(stack[m], fn, goal[m]) \o rest[m]
  PROVE  Following(p, fs, fi, T)
<1>1. PICK f, t, g : f = stack[m] /\ t = goal[m] /\ g = Filled(f, fn, x)
  OBVIOUS
<1>2. stack \in Seq(Frames) /\ m \in Nat
  BY LenProperties DEF Stack
<1>3. fs = OnTop(stack, g) /\ p = (IF f.fn = "read_node" THEN "item" ELSE "separator")
  BY <1>1 DEF Returned
<1>4. Len(fs) = m /\ (\A i \in 1..(m - 1) : fs[i] = stack[i]) /\ fs[m] = g
  BY <1>2, <1>3, OnTopIs
<1>5. t \in Goal(f)
  <2>1. m \in 2..m
    BY <1>2
  <2> QED
    BY <1>1, <2>1 DEF Chain, Level
<1>6. /\ g.fn = f.fn /\ Reads(g, t) /\ Left(g, t) = Beyond(f, fn, t)
      /\ f.fn # "read_node" => Len(g.values) > 0
  BY <1>1, <1>5, FilledReads
<1>7. Chain(fs, goal, rest, T)
  BY <1>1, <1>2, <1>4, <1>6, ChainKept
<1>8. AtTop(p, g, t, rest[m], fi)
  BY <1>1, <1>3, <1>6 DEF AtTop
<1>9. InTree(p, fs, fi, T)
  BY <1>1, <1>4, <1>7, <1>8 DEF InTree
<1> QED
  BY <1>3, <1>9 DEF Following

LEMMA ReturnedStrays ==
  ASSUME NEW stack, Stack(stack), NEW m, m = Len(stack), m > 1,
         NEW goal, NEW rest, NEW T, Chain(stack, goal, rest, T),
         NEW d \in 0..MaxDepth, NEW fn, NEW x, Fits(stack[m], d, fn, x),
         NEW e, Expects(stack[m], fn, goal[m], e), x # e, fn # "read_node" => ts_copy_value[x] # e,
         NEW p, NEW fs, Returned(stack, fn, x, p, fs)
  PROVE  p \in {"item", "separator"} /\ Diverged(fs, T)
<1>1. PICK f, t, g : f = stack[m] /\ t = goal[m] /\ g = Filled(f, fn, x)
  OBVIOUS
<1>2. stack \in Seq(Frames) /\ m \in Nat
  BY LenProperties DEF Stack
<1>3. fs = OnTop(stack, g) /\ p \in {"item", "separator"}
  BY <1>1 DEF Returned
<1>4. Len(fs) = m /\ (\A i \in 1..(m - 1) : fs[i] = stack[i]) /\ fs[m] = g
  BY <1>2, <1>3, OnTopIs
<1>5. t \in Goal(f)
  <2>1. m \in 2..m
    BY <1>2
  <2> QED
    BY <1>1, <2>1 DEF Chain, Level
<1>6. Expects(f, fn, t, e)
  BY <1>1
<1>7. Differs(g, t)
  BY <1>1, <1>5, <1>6, FilledDiffers
<1>8. g.fn = f.fn
  <2>1. FilledAs(f, fn, x, g)
    BY <1>1, FilledIs
  <2> QED
    BY <2>1 DEF FilledAs
<1>9. Chain(fs, goal, rest, T)
  BY <1>1, <1>2, <1>4, <1>8, ChainKept
<1>10. Diverged(fs, T)
  BY <1>1, <1>2, <1>4, <1>7, <1>9, ChainDiverges
<1> QED
  BY <1>3, <1>10

-----------------------------------------------------------------------------
(* Each step while the tree is followed.  The next token is the next one of *)
(* the saved text.                                                          *)
LEMMA TokenRead ==
  ASSUME NEW tok, next_token(tok), left = 0, NEW x \in Tokens, NEW s \in Seq(Tokens),
         file = <<x>> \o s
  PROVE  tok = x /\ file' = s /\ left' = 0
<1>1. file # <<>> /\ Head(file) = x /\ Tail(file) = s
  BY Peel
<1>2. tok = Head(file) /\ file' = Tail(file) /\ left' = left
  BY <1>1 DEF next_token
<1> QED
  BY <1>1, <1>2

(* What is awaited and cannot be read makes the tree unreadable. *)
LEMMA Blame ==
  ASSUME NEW f, NEW t, NEW r, NEW T, Level(f, t, r, T), f.fn \in {"read_node", "read_array"},
         NEW fn, NEW e, Awaits(f, fn, t, e), fn = "read_node" => f.fn = "read_node",
         ~Readable(fn, e)
  PROVE  ~AllPrintable[T]
<1>1. t \in Goal(f) /\ (~Readable(f.fn, t) => ~AllPrintable[T])
  BY DEF Level
<1>2. IF f.fn = "read_node" THEN ~AllPrintable[t] ELSE ~Printable[t]
  BY <1>1, AwaitedIs
<1> QED
  BY <1>1, <1>2 DEF Readable

(* The call on top of those that follow T. *)
LEMMA FollowingTop ==
  ASSUME NEW fr, Stack(fr), NEW n, n = Len(fr), n > 1,
         NEW goal, NEW rest, NEW T, Chain(fr, goal, rest, T)
  PROVE  /\ n \in Nat /\ Level(fr[n], goal[n], rest[n], T) /\ rest[n] \in Seq(Tokens)
         /\ fr[n].fn = "read_node" => goal[n] \in Tree /\ fr[n] \in NodeAt(MaxDepth - n)
         /\ fr[n].fn # "read_node" =>
              goal[n] \in Value /\ fr[n].fn = "read_array" /\ fr[n] \in ArrayAt(MaxDepth - n)
<1>1. n \in Nat /\ n \in 2..n
  BY TopIs
<1>2. Level(fr[n], goal[n], rest[n], T)
  BY <1>1 DEF Chain
<1>3. goal[n] \in Goal(fr[n]) /\ rest[n] \in Seq(Tokens)
  BY <1>2 DEF Level
<1> QED
  BY <1>1, <1>2, <1>3, TopIs DEF Goal

LEMMA NoneRead ==
  ASSUME NEW t \in Tree
  PROVE  0 \in 0..Len(t.attrs) /\ 0 \in 0..Len(t.kids) /\ <<>> \in Seq(Tokens)
<1>1. t.attrs \in Seq(Attr) /\ t.kids \in Seq(Tree)
  BY TreeFields
<1>2. Len(t.attrs) \in Nat /\ Len(t.kids) \in Nat
  BY <1>1, LenProperties
<1> QED
  BY <1>2

(* A call is made. *)
LEMMA Pushed ==
  ASSUME NEW fr, Stack(fr), NEW n, n = Len(fr), NEW g, g \in {NodeFrame, ArrayFrame("]")},
         NEW fs, fs = Append(fr, g)
  PROVE  /\ n \in Nat /\ Len(fs) = n + 1 /\ (\A i \in 1..n : fs[i] = fr[i]) /\ fs[n + 1] = g
<1>1. 0 \in 0..MaxDepth
  BY TextAssumption
<1>2. g \in Frames
  <2>1. NodeFrame \in NodeAt(0) /\ ArrayFrame("]") \in ArrayAt(0)
    BY <1>1, NewFrames
  <2>2. NodeAt(0) \subseteq Frames /\ ArrayAt(0) \subseteq Frames
    BY <1>1, NodesAreFrames
  <2> QED
    BY <2>1, <2>2
<1>3. fr \in Seq(Frames)
  BY DEF Stack
<1> QED
  BY <1>2, <1>3, AppendIs

LEMMA RootNameFollows ==
  ASSUME NEW T \in Tree, NEW tok \in Tokens \cup {EOF}, next_token(tok), left = 0,
         file = ts_text_save[T], RootName(tok)
  PROVE  Following(pc', frames', file', T) /\ left' = 0
<1>1. <<>> \in Seq(Tokens) /\ 0 \in 0..Len(T.attrs) /\ 0 \in 0..Len(T.kids)
  BY NoneRead
<1>2. NodeRest(T, 0, 0) \in Seq(Tokens)
  BY <1>1, NodeRestType
<1>3. PICK s : s = <<Sym("{")>> \o NodeRest(T, 0, 0)
  OBVIOUS
<1>4. s \in Seq(Tokens)
  BY <1>2, <1>3, OneSymbol, Joined
<1>5. file = <<Id(T.name)>> \o s /\ Id(T.name) \in Tokens
  BY <1>1, <1>3, SaveBegins, TreeFields, Symbols
<1>6. tok = Id(T.name) /\ file' = s /\ left' = 0
  BY <1>4, <1>5, TokenRead
<1>7. pc' = "root_brace" /\ frames' = <<LoadFrame(T.name)>>
  BY <1>6 DEF RootName, Id
<1>8. frames'[1].id = T.name
  BY <1>7 DEF LoadFrame
<1> QED
  BY <1>3, <1>6, <1>7, <1>8 DEF Following

(* A call of read_node starts to read e. *)
LEMMA NodeBegins ==
  ASSUME NEW e \in Tree, NEW s \in Seq(Tokens)
  PROVE  /\ NodeFrame.fn = "read_node" /\ Reads(NodeFrame, e)
         /\ AtTop("item", NodeFrame, e, s, NodeRest(e, 0, 0) \o s)
<1>1. NodeFrame.fn = "read_node" /\ NodeFrame.attrs = <<>> /\ NodeFrame.kids = <<>>
  BY DEF NodeFrame
<1>2. NodeReads(NodeFrame, e)
  BY <1>1 DEF NodeReads, Prefix
<1>3. Left(NodeFrame, e) = NodeRest(e, 0, 0)
  BY <1>1 DEF Left
<1> QED
  BY <1>1, <1>2, <1>3 DEF AtTop, Reads

LEMMA SecondPushed ==
  ASSUME NEW fr, Stack(fr), NEW fs, fs = Append(fr, NodeFrame)
  PROVE  Len(fr) = 1 => Len(fs) = 2 /\ fs[1] = fr[1] /\ fs[2] = NodeFrame
<1>1. PICK n, g : n = Len(fr) /\ g = NodeFrame
  OBVIOUS
<1>2. Len(fs) = n + 1 /\ (\A i \in 1..n : fs[i] = fr[i]) /\ fs[n + 1] = g
  <2>1. g \in {NodeFrame, ArrayFrame("]")} /\ fs = Append(fr, g)
    BY <1>1
  <2> QED
    BY <1>1, <2>1, Pushed
<1>3. n = 1 => Len(fs) = 2 /\ fs[1] = fr[1] /\ fs[2] = g
  BY <1>2
<1> QED
  BY <1>1, <1>3

LEMMA RootChain ==
  ASSUME NEW T \in Tree, NEW fs, Len(fs) = 2, fs[1].id = T.name, fs[2] = NodeFrame
  PROVE  \E goal, rest : Chain(fs, goal, rest, T) /\ goal[2] = T /\ rest[2] = <<>>
<1>3. PICK goal, rest : goal = [i \in Nat |-> T] /\ rest = [i \in Nat |-> <<>>]
  OBVIOUS
<1>4. goal[2] = T /\ rest[2] = <<>>
  BY <1>3
<1>5. <<>> \in Seq(Tokens)
  BY NoneRead
<1>6. Level(NodeFrame, T, <<>>, T)
  BY <1>5, NodeBegins DEF Level, Goal, Readable
<1>7. ASSUME NEW i \in 2..Len(fs) PROVE Level(fs[i], goal[i], rest[i], T)
  <2>1. i = 2
    OBVIOUS
  <2> QED
    BY <1>4, <1>6, <2>1
<1>8. 2..(Len(fs) - 1) = {}
  OBVIOUS
<1>9. Chain(fs, goal, rest, T)
  BY <1>4, <1>7, <1>8 DEF Chain
<1> QED
  BY <1>4, <1>9

LEMMA RootBraceFollows ==
  ASSUME Sound(pc, frames, heap, result), NEW T \in Tree, NEW tok \in Tokens \cup {EOF},
         next_token(tok), left = 0, pc = "root_brace", frames[1].id = T.name,
         file = <<Sym("{")>> \o NodeRest(T, 0, 0), RootBrace(tok)
  PROVE  Following(pc', frames', file', T) /\ left' = 0
<1>1. 0 \in 0..Len(T.attrs) /\ 0 \in 0..Len(T.kids) /\ <<>> \in Seq(Tokens)
  BY NoneRead
<1>2. NodeRest(T, 0, 0) \in Seq(Tokens) /\ Sym("{") \in Tokens
  BY <1>1, NodeRestType, Symbols
<1>3. tok = Sym("{") /\ file' = NodeRest(T, 0, 0) /\ left' = 0
  BY <1>2, TokenRead
<1>4. pc' = "item" /\ frames' = Append(frames, NodeFrame)
  BY <1>3 DEF RootBrace, CallReadNode
<1>5. Stack(frames) /\ Len(frames) = 1
  BY DEF Sound, Place
<1>6. Len(frames') = 2 /\ frames'[1] = frames[1] /\ frames'[2] = NodeFrame
  BY <1>4, <1>5, SecondPushed
<1>6a. PICK goal, rest : Chain(frames', goal, rest, T) /\ goal[2] = T /\ rest[2] = <<>>
  <2>1. frames'[1].id = T.name
    BY <1>6
  <2> QED
    BY <1>6, <2>1, RootChain
<1>7. AtTop("item", NodeFrame, T, <<>>, file')
  <2>1. file' = NodeRest(T, 0, 0) \o <<>>
    BY <1>2, <1>3, NothingJoined
  <2> QED
    BY <1>1, <2>1, NodeBegins
<1>8. InTree(pc', frames', file', T)
  BY <1>4, <1>6, <1>6a, <1>7 DEF InTree
<1> QED
  BY <1>3, <1>4, <1>8 DEF Following

-----------------------------------------------------------------------------
(* The three ways to go on: in the same call, in a new one, and in the      *)
(* caller when a call returns what it had to read.                          *)
LEMMA TopFollows ==
  ASSUME NEW fr, Stack(fr), NEW n, n = Len(fr), n > 1,
         NEW goal, NEW rest, NEW T, Chain(fr, goal, rest, T), NEW g, g.fn = fr[n].fn,
         NEW p, p \in {"item", "name", "value", "element", "separator"},
         NEW fi, AtTop(p, g, goal[n], rest[n], fi), NEW fs, fs = OnTop(fr, g)
  PROVE  Following(p, fs, fi, T)
<1>1. fr \in Seq(Frames) /\ n \in Nat /\ n \in 2..n
  <2>1. n \in Nat
    BY FollowingTop
  <2> QED
    BY <2>1 DEF Stack
<1>2. Len(fs) = n /\ (\A i \in 1..(n - 1) : fs[i] = fr[i]) /\ fs[n] = g
  BY <1>1, OnTopIs
<1>3. Chain(fs, goal, rest, T)
  BY <1>1, <1>2, ChainKept
<1>4. InTree(p, fs, fi, T)
  BY <1>2, <1>3 DEF InTree
<1> QED
  BY <1>4 DEF Following

LEMMA CalledFollows ==
  ASSUME NEW fr, NEW goal, NEW rest, NEW T, NEW n, NEW g, NEW e, NEW s, NEW fs,
         Called(fr, goal, rest, T, n, g, e, s, fs),
         NEW p, p \in {"item", "name", "value", "element", "separator"},
         NEW fi, AtTop(p, g, e, s, fi)
  PROVE  Following(p, fs, fi, T)
<1>1. PICK goals, rests : Chain(fs, goals, rests, T) /\ goals[Len(fs)] = e /\ rests[Len(fs)] = s
  BY ChainGrows
<1>2. fs[Len(fs)] = g
  BY DEF Called
<1>3. InTree(p, fs, fi, T)
  BY <1>1, <1>2 DEF InTree
<1> QED
  BY <1>3 DEF Following

LEMMA PushFollows ==
  ASSUME NEW fr, Stack(fr), NEW n, n = Len(fr), n > 1,
         NEW goal, NEW rest, NEW T, Chain(fr, goal, rest, T),
         NEW g, g \in {NodeFrame, ArrayFrame("]")}, g.fn = "read_node" => fr[n].fn = "read_node",
         NEW e, Awaits(fr[n], g.fn, goal[n], e),
         NEW s, s = Beyond(fr[n], g.fn, goal[n]) \o rest[n],
         NEW p, p \in {"item", "name", "value", "element", "separator"},
         NEW fi, s \in Seq(Tokens) => AtTop(p, g, e, s, fi), NEW fs, fs = Append(fr, g)
  PROVE  Following(p, fs, fi, T)
<1>1. /\ n \in Nat /\ Level(fr[n], goal[n], rest[n], T) /\ rest[n] \in Seq(Tokens)
      /\ goal[n] \in Goal(fr[n]) /\ fr[n] \in NodeAt(MaxDepth - n) \cup ArrayAt(MaxDepth - n)
      /\ MaxDepth - n \in 0..MaxDepth /\ fr[n].fn \in {"read_node", "read_array"}
  <2>1. /\ n \in Nat /\ Level(fr[n], goal[n], rest[n], T) /\ rest[n] \in Seq(Tokens)
        /\ fr[n].fn = "read_node" => fr[n] \in NodeAt(MaxDepth - n)
        /\ fr[n].fn # "read_node" => fr[n].fn = "read_array" /\ fr[n] \in ArrayAt(MaxDepth - n)
    BY FollowingTop
  <2>2. MaxDepth - n \in 0..MaxDepth
    BY TopIs
  <2> QED
    BY <2>1, <2>2 DEF Level
<1>2. s \in Seq(Tokens)
  <2>1. Beyond(fr[n], g.fn, goal[n]) \in Seq(Tokens)
    BY <1>1, BeyondType
  <2> QED
    BY <1>1, <2>1, Joined
<1>3. g.fn \in {"read_node", "read_array"}
  BY DEF NodeFrame, ArrayFrame
<1>4. Level(g, e, s, T)
  <2>1. e \in Kind(g.fn)
    BY <1>1, AwaitedIs
  <2>2. ~Readable(g.fn, e) => ~AllPrintable[T]
    BY <1>1, Blame
  <2> QED
    BY <1>2, <1>3, <2>1, <2>2 DEF Level, Kind, Goal
<1>5. Len(fs) = n + 1 /\ (\A i \in 1..n : fs[i] = fr[i]) /\ fs[n + 1] = g
  BY Pushed
<1>6. Linked(fr[n], g.fn, goal[n], e, rest[n], s)
  BY DEF Linked
<1>7. Called(fr, goal, rest, T, n, g, e, s, fs)
  BY <1>1, <1>4, <1>5, <1>6 DEF Called
<1>8. AtTop(p, g, e, s, fi)
  BY <1>2
<1> QED
  BY <1>7, <1>8, CalledFollows

LEMMA ReturnFollows ==
  ASSUME NEW fr, Stack(fr), NEW n, n = Len(fr), n > 2,
         NEW goal, NEW rest, NEW T, Chain(fr, goal, rest, T),
         NEW fn, fn = fr[n].fn, NEW x, x = goal[n], Readable(fn, x),
         NEW d \in 0..MaxDepth, Fits(fr[n - 1], d, fn, x),
         NEW fs, fs = OnTop(Front(fr), Filled(fr[n - 1], fn, x)),
         NEW p, p = (IF fr[n - 1].fn = "read_node" THEN "item" ELSE "separator"),
         NEW fi, fi = rest[n]
  PROVE  Following(p, fs, fi, T)
<1>1. PICK st, m : st = Front(fr) /\ m = n - 1
  OBVIOUS
<1>2. /\ Stack(st) /\ Len(st) = m /\ n \in Nat /\ m \in Nat /\ m > 1
      /\ \A i \in 1..m : st[i] = fr[i]
  <2>1. n \in Nat /\ n > 0
    <3>1. fr \in Seq(Frames)
      BY DEF Stack
    <3>2. n \in Nat
      BY <3>1, LenProperties
    <3> QED
      BY <3>2
  <2>2. Stack(Front(fr)) /\ Len(Front(fr)) = n - 1 /\ \A i \in 1..(n - 1) : Front(fr)[i] = fr[i]
    BY <2>1, StackPop
  <2> QED
    BY <1>1, <2>1, <2>2
<1>3. m \in 1..m /\ m \in 2..n /\ m \in 2..(n - 1) /\ m + 1 = n /\ st[m] = fr[m]
  BY <1>1, <1>2
<1>4. Chain(st, goal, rest, T)
  <2>1. \A i \in 1..(m - 1) : st[i] = fr[i]
    BY <1>2
  <2>2. st[m].fn = fr[m].fn
    BY <1>3
  <2> QED
    BY <1>2, <1>3, <2>1, <2>2, ChainKept
<1>5. Awaits(st[m], fn, goal[m], x) /\ fi = Beyond(st[m], fn, goal[m]) \o rest[m]
  <2>1. Linked(fr[m], fr[m + 1].fn, goal[m], goal[m + 1], rest[m], rest[m + 1])
    BY <1>3 DEF Chain
  <2>2. Linked(st[m], fn, goal[m], x, rest[m], fi)
    BY <1>3, <2>1
  <2> QED
    BY <2>2 DEF Linked
<1>6. Returned(st, fn, x, p, fs) /\ Fits(st[m], d, fn, x)
  BY <1>1, <1>2, <1>3 DEF Returned
<1> QED
  BY <1>2, <1>4, <1>5, <1>6, ReturnedFollows

-----------------------------------------------------------------------------
(* What the text of a node t goes on with, after what f has read of it.     *)
NameComes(f, t, r, fi) ==
  \E w \in Words, s \in Seq(Tokens) :
    /\ fi = <<Id(w)>> \o s
    /\ \A g : g.fn = "read_node" /\ g.id = w /\ g.attrs = f.attrs /\ g.kids = f.kids =>
                NameNext(g, t, r, s)

LEMMA NodeGoesOn ==
  ASSUME NEW d \in 0..MaxDepth, NEW f \in NodeAt(d), NEW t \in Tree, NodeReads(f, t),
         NEW r \in Seq(Tokens), NEW fi, fi = Left(f, t) \o r
  PROVE  \/ NameComes(f, t, r, fi)
         \/ f.attrs = t.attrs /\ f.kids = t.kids /\ fi = <<Sym("}")>> \o r
<1>1. /\ f.fn = "read_node" /\ f.attrs \in Seq(Attr) /\ f.kids \in Seq(Tree)
      /\ t.attrs \in Seq(Attr) /\ t.kids \in Seq(Tree)
  BY NodeFields, TreeFields
<1>2. PICK a, k : a = Len(f.attrs) /\ k = Len(f.kids)
  OBVIOUS
<1>3. /\ a \in 0..Len(t.attrs) /\ a \in Nat /\ Len(t.attrs) \in Nat
      /\ a = Len(t.attrs) => f.attrs = t.attrs
      /\ a < Len(t.attrs) => a + 1 \in DOMAIN t.attrs /\ a + 1 \in 0..Len(t.attrs)
  BY <1>1, <1>2, PrefixLength DEF NodeReads
<1>4. /\ k \in 0..Len(t.kids) /\ k \in Nat /\ Len(t.kids) \in Nat
      /\ k = Len(t.kids) => f.kids = t.kids
      /\ k < Len(t.kids) => k + 1 \in DOMAIN t.kids /\ k + 1 \in 0..Len(t.kids)
  BY <1>1, <1>2, PrefixLength DEF NodeReads
<1>5. fi = NodeRest(t, a, k) \o r
  BY <1>1, <1>2 DEF Left
<1>6. CASE a < Len(t.attrs)
  <2>1. PICK e, w, rr, s1, s : /\ e = t.attrs[a + 1].val /\ w = t.attrs[a + 1].name
                               /\ rr = NodeRest(t, a + 1, k) \o r
                               /\ s1 = print_value[e] \o rr /\ s = <<Sym("=")>> \o s1
    OBVIOUS
  <2>2. e \in Value /\ w \in Words
    <3>1. t.attrs[a + 1] \in Attr
      BY <1>1, <1>3, <1>6
    <3> QED
      BY <2>1, <3>1 DEF Attr
  <2>3. s \in Seq(Tokens)
    <3>1. NodeRest(t, a + 1, k) \in Seq(Tokens)
      BY <1>3, <1>4, <1>6, NodeRestType
    <3>2. rr \in Seq(Tokens)
      BY <2>1, <3>1, Joined
    <3>3. s1 \in Seq(Tokens)
      BY <2>1, <2>2, <3>2, PrintIs, Joined
    <3> QED
      BY <2>1, <3>3, OneSymbol, Joined
  <2>4. fi = <<Id(w)>> \o s
    BY <1>3, <1>4, <1>5, <1>6, <2>1, NodeRestIs
  <2>5. ASSUME NEW g, g.fn = "read_node", g.id = w, g.attrs = f.attrs, g.kids = f.kids
        PROVE  NameNext(g, t, r, s)
    <3>1. Reads(g, t)
      BY <1>1, <2>5 DEF Reads, NodeReads
    <3>2. Expects(g, "read_array", t, e) /\ Named(g, "read_array", t, e)
      BY <1>2, <1>3, <1>6, <2>1, <2>5 DEF Expects, Named
    <3>3. Beyond(g, "read_array", t) = NodeRest(t, a + 1, k)
      BY <1>2, <2>5 DEF Beyond
    <3> QED
      BY <2>1, <3>1, <3>2, <3>3 DEF NameNext, Awaits
  <2> QED
    BY <2>2, <2>3, <2>4, <2>5 DEF NameComes
<1>7. CASE a = Len(t.attrs) /\ k < Len(t.kids)
  <2>1. PICK e, w, rr, s1, s : /\ e = t.kids[k + 1] /\ w = t.kids[k + 1].name
                               /\ rr = NodeRest(t, a, k + 1) \o r
                               /\ s1 = NodeRest(e, 0, 0) \o rr /\ s = <<Sym("{")>> \o s1
    OBVIOUS
  <2>2. e \in Tree /\ w \in Words
    <3>1. t.kids[k + 1] \in Tree
      BY <1>1, <1>4, <1>7
    <3> QED
      BY <2>1, <3>1, TreeFields
  <2>3. s \in Seq(Tokens)
    <3>1. NodeRest(t, a, k + 1) \in Seq(Tokens)
      BY <1>3, <1>4, <1>7, NodeRestType
    <3>2. rr \in Seq(Tokens)
      BY <2>1, <3>1, Joined
    <3>3. NodeRest(e, 0, 0) \in Seq(Tokens)
      BY <2>2, NoneRead, NodeRestType
    <3>4. s1 \in Seq(Tokens)
      BY <2>1, <3>2, <3>3, Joined
    <3> QED
      BY <2>1, <3>4, OneSymbol, Joined
  <2>4. fi = <<Id(w)>> \o s
    BY <1>3, <1>4, <1>5, <1>7, <2>1, NodeRestIs
  <2>5. ASSUME NEW g, g.fn = "read_node", g.id = w, g.attrs = f.attrs, g.kids = f.kids
        PROVE  NameNext(g, t, r, s)
    <3>1. Reads(g, t)
      BY <1>1, <2>5 DEF Reads, NodeReads
    <3>2. Expects(g, "read_node", t, e) /\ Named(g, "read_node", t, e)
      BY <1>2, <1>3, <1>4, <1>7, <2>1, <2>5 DEF Expects, Named
    <3>3. Beyond(g, "read_node", t) = NodeRest(t, a, k + 1)
      BY <1>2, <2>5 DEF Beyond
    <3> QED
      BY <2>1, <3>1, <3>2, <3>3 DEF NameNext, Awaits
  <2> QED
    BY <2>2, <2>3, <2>4, <2>5 DEF NameComes
<1>8. CASE a = Len(t.attrs) /\ k = Len(t.kids)
  BY <1>3, <1>4, <1>5, <1>8, NodeRestIs
<1>9. a < Len(t.attrs) \/ a = Len(t.attrs)
  BY <1>3
<1>10. k < Len(t.kids) \/ k = Len(t.kids)
  BY <1>4
<1> QED
  BY <1>6, <1>7, <1>8, <1>9, <1>10

(* A node that has been read to its end is the node that was saved. *)
LEMMA NodeIsBack ==
  ASSUME NEW t \in Tree, NEW f, f.fn = "read_node", NodeReads(f, t), f.attrs = t.attrs, f.kids = t.kids
  PROVE  NodeRead(f, t.name) = t /\ AllPrintable[t]
<1>1. NodeRead(f, t.name) = t
  BY TreeFields DEF NodeRead
<1>2. AllPrintable[t]
  BY AllPrintableIs DEF NodeReads
<1> QED
  BY <1>1, <1>2

-----------------------------------------------------------------------------
(* A token is read while every call follows T. *)
Reading(tok, n, goal, rest, T) ==
  /\ Sound(pc, frames, heap, result) /\ left = 0 /\ T \in Tree
  /\ tok \in Tokens \cup {EOF} /\ next_token(tok)
  /\ n = Len(frames) /\ n > 1 /\ Chain(frames, goal, rest, T)

LEMMA ReadingIs ==
  ASSUME NEW tok, NEW n, NEW goal, NEW rest, NEW T, Reading(tok, n, goal, rest, T)
  PROVE  /\ Stack(frames) /\ n \in Nat /\ MaxDepth - n \in 0..MaxDepth
         /\ Level(frames[n], goal[n], rest[n], T) /\ rest[n] \in Seq(Tokens)
         /\ frames[n].fn \in {"read_node", "read_array"}
         /\ frames[n].fn = "read_node" => goal[n] \in Tree /\ frames[n] \in NodeAt(MaxDepth - n)
         /\ frames[n].fn # "read_node" => goal[n] \in Value /\ frames[n] \in ArrayAt(MaxDepth - n)
<1>1. Stack(frames) /\ n = Len(frames) /\ n > 1 /\ Chain(frames, goal, rest, T)
  BY DEF Reading, Sound
<1>2. MaxDepth - n \in 0..MaxDepth
  BY <1>1, TopIs
<1> QED
  BY <1>1, <1>2, FollowingTop

LEMMA ItemNamed ==
  ASSUME NEW tok, NEW n, NEW goal, NEW rest, NEW T, Reading(tok, n, goal, rest, T),
         pc = "item", Item(tok), frames[n].fn = "read_node",
         NameComes(frames[n], goal[n], rest[n], file)
  PROVE  Following(pc', frames', file', T) /\ left' = 0
<1>1. PICK w \in Words, s \in Seq(Tokens) :
        /\ file = <<Id(w)>> \o s
        /\ \A g : g.fn = "read_node" /\ g.id = w /\ g.attrs = frames[n].attrs /\ g.kids = frames[n].kids =>
                    NameNext(g, goal[n], rest[n], s)
  BY DEF NameComes
<1>2. tok = Id(w) /\ file' = s /\ left' = 0
  BY <1>1, Symbols, TokenRead DEF Reading
<1>3. PICK g : g = [frames[n] EXCEPT !.id = w]
  OBVIOUS
<1>4. /\ frames[n] \in NodeAt(MaxDepth - n) /\ MaxDepth - n \in 0..MaxDepth
      /\ Stack(frames) /\ n = Len(frames) /\ n > 1 /\ Chain(frames, goal, rest, T)
  BY ReadingIs DEF Reading
<1>5. g.fn = "read_node" /\ g.id = w /\ g.attrs = frames[n].attrs /\ g.kids = frames[n].kids
  <2>1. g \in NodeAt(MaxDepth - n) /\ g.id = w /\ g.attrs = frames[n].attrs /\ g.kids = frames[n].kids
    BY <1>3, <1>4, NodeNamed
  <2> QED
    BY <1>4, <2>1, NodeFields
<1>6. NameNext(g, goal[n], rest[n], s)
  BY <1>1, <1>5
<1>7. pc' = "name" /\ frames' = OnTop(frames, g)
  <2>1. tok.type = "TOK_ID" /\ tok.text = w
    BY <1>2 DEF Id
  <2> QED
    BY <1>3, <1>4, <2>1 DEF Item, Top
<1>8. AtTop(pc', g, goal[n], rest[n], file')
  BY <1>2, <1>6, <1>7 DEF AtTop
<1>9. pc' \in {"item", "name", "value", "element", "separator"} /\ g.fn = frames[n].fn
  BY <1>5, <1>7
<1> QED
  BY <1>2, <1>4, <1>7, <1>8, <1>9, TopFollows

(* The name with which a node is returned is that of the tree it had to     *)
(* read.                                                                    *)
LEMMA CallerNames ==
  ASSUME NEW fr, NEW n, n = Len(fr), n \in Nat, n > 1, NEW goal, NEW rest, NEW T,
         Chain(fr, goal, rest, T), fr[n].fn = "read_node"
  PROVE  fr[n - 1].id = goal[n].name
<1>1. CASE n = 2
  BY <1>1 DEF Chain
<1>2. CASE n > 2
  <2>1. PICK m : m = n - 1
    OBVIOUS
  <2>2. m \in 2..(n - 1) /\ m + 1 = n
    BY <1>2, <2>1
  <2>3. Linked(fr[m], fr[m + 1].fn, goal[m], goal[m + 1], rest[m], rest[m + 1])
    BY <2>2 DEF Chain
  <2>4. Named(fr[m], "read_node", goal[m], goal[n])
    BY <2>2, <2>3 DEF Linked, Awaits
  <2> QED
    BY <2>1, <2>4 DEF Named
<1> QED
  BY <1>1, <1>2

LEMMA CallerOrRoot ==
  ASSUME NEW n \in Nat, n > 1
  PROVE  n = 2 \/ n > 2
OBVIOUS

LEMMA ItemReturns ==
  ASSUME NEW tok, NEW n, NEW goal, NEW rest, NEW T, Reading(tok, n, goal, rest, T),
         pc = "item", Item(tok), frames[n].fn = "read_node", Reads(frames[n], goal[n]),
         frames[n].attrs = goal[n].attrs, frames[n].kids = goal[n].kids,
         file = <<Sym("}")>> \o rest[n]
  PROVE  Reloads(pc', frames', result', file', T) /\ left' = 0
<1>1. PICK x : x = NodeRead(frames[n], frames[n - 1].id)
  OBVIOUS
<1>2. /\ goal[n] \in Tree /\ rest[n] \in Seq(Tokens) /\ n \in Nat /\ n > 1
      /\ n = Len(frames) /\ Stack(frames) /\ Chain(frames, goal, rest, T)
  BY ReadingIs DEF Reading
<1>3. tok = Sym("}") /\ file' = rest[n] /\ left' = 0
  BY <1>2, Symbols, TokenRead DEF Reading
<1>4. ReturnNode
  <2>1. tok.type = "TOK_SYM"
    BY <1>3 DEF Sym
  <2> QED
    BY <1>3, <2>1 DEF Item
<1>5. x = goal[n] /\ AllPrintable[x]
  <2>1. frames[n - 1].id = goal[n].name
    BY <1>2, CallerNames
  <2>2. NodeReads(frames[n], goal[n])
    BY DEF Reads
  <2>3. NodeRead(frames[n], goal[n].name) = goal[n] /\ AllPrintable[goal[n]]
    BY <1>2, <2>2, NodeIsBack
  <2> QED
    BY <1>1, <2>1, <2>3
<1>6. /\ n = 2 => pc' = "loaded" /\ result' = x
      /\ n > 2 => /\ pc' = "item" /\ result' = result
                  /\ frames' = OnTop(Front(frames), Filled(frames[n - 1], "read_node", x))
                  /\ Fits(frames[n - 1], MaxDepth - (n - 1), "read_node", x)
  <2>1. Sound(pc, frames, heap, result)
    BY DEF Reading
  <2> QED
    BY <1>1, <1>2, <1>4, <2>1, NodeReturns
<1>7. CASE n = 2
  <2>1. goal[n] = T
    BY <1>2, <1>7 DEF Chain
  <2> QED
    BY <1>3, <1>5, <1>6, <1>7, <2>1 DEF Reloads
<1>8. CASE n > 2
  <2>1. MaxDepth - (n - 1) \in 0..MaxDepth
    BY <1>2, CallerIs
  <2>2. frames[n - 1].fn = "read_node"
    BY <1>6, <1>8, <2>1, NodeFields DEF Fits
  <2>3. Readable("read_node", x)
    BY <1>5 DEF Readable
  <2>4. pc' = IF frames[n - 1].fn = "read_node" THEN "item" ELSE "separator"
    BY <1>6, <1>8, <2>2
  <2>5. Following(pc', frames', file', T)
    <3>1. PICK fs, p, fi, d : fs = frames' /\ p = pc' /\ fi = file' /\ d = MaxDepth - (n - 1)
      OBVIOUS
    <3>2. /\ d \in 0..MaxDepth /\ Fits(frames[n - 1], d, "read_node", x)
          /\ fs = OnTop(Front(frames), Filled(frames[n - 1], "read_node", x))
          /\ p = (IF frames[n - 1].fn = "read_node" THEN "item" ELSE "separator") /\ fi = rest[n]
      BY <1>3, <1>6, <1>8, <2>1, <2>4, <3>1
    <3>3. Following(p, fs, fi, T)
      BY <1>2, <1>5, <1>8, <2>3, <3>2, ReturnFollows
    <3> QED
      BY <3>1, <3>3
  <2> QED
    BY <1>3, <2>5 DEF Reloads
<1>9. n = 2 \/ n > 2
  <2>1. n \in Nat /\ n > 1
    BY <1>2
  <2> QED
    BY <2>1, CallerOrRoot
<1> QED
  BY <1>7, <1>8, <1>9

LEMMA ItemFollows ==
  ASSUME NEW tok, NEW n, NEW goal, NEW rest, NEW T, Reading(tok, n, goal, rest, T),
         pc = "item", Item(tok), AtTop("item", frames[n], goal[n], rest[n], file)
  PROVE  Reloads(pc', frames', result', file', T) /\ left' = 0
<1>1. Reads(frames[n], goal[n]) /\ file = Left(frames[n], goal[n]) \o rest[n]
  BY DEF AtTop
<1>2. frames[n].fn = "read_node"
  BY DEF Reading, Sound, Place
<1>3. frames[n] \in NodeAt(MaxDepth - n) /\ MaxDepth - n \in 0..MaxDepth /\ goal[n] \in Tree
      /\ rest[n] \in Seq(Tokens)
  BY <1>2, ReadingIs
<1>4. NodeReads(frames[n], goal[n])
  BY <1>1, <1>2 DEF Reads
<1>5. \/ NameComes(frames[n], goal[n], rest[n], file)
      \/ /\ frames[n].attrs = goal[n].attrs /\ frames[n].kids = goal[n].kids
         /\ file = <<Sym("}")>> \o rest[n]
  <2>1. PICK f, t, r, d : f = frames[n] /\ t = goal[n] /\ r = rest[n] /\ d = MaxDepth - n
    OBVIOUS
  <2>2. /\ d \in 0..MaxDepth /\ f \in NodeAt(d) /\ t \in Tree /\ NodeReads(f, t)
        /\ r \in Seq(Tokens) /\ file = Left(f, t) \o r
    BY <1>1, <1>3, <1>4, <2>1
  <2>3. NameComes(f, t, r, file) \/ (f.attrs = t.attrs /\ f.kids = t.kids /\ file = <<Sym("}")>> \o r)
    BY <2>2, NodeGoesOn
  <2> QED
    BY <2>1, <2>3
<1>6. CASE NameComes(frames[n], goal[n], rest[n], file)
  <2>1. Following(pc', frames', file', T) /\ left' = 0
    BY <1>2, <1>6, ItemNamed
  <2> QED
    BY <2>1 DEF Reloads
<1>7. CASE /\ frames[n].attrs = goal[n].attrs /\ frames[n].kids = goal[n].kids
           /\ file = <<Sym("}")>> \o rest[n]
  BY <1>1, <1>2, <1>7, ItemReturns
<1> QED
  BY <1>5, <1>6, <1>7

LEMMA AttrFollows ==
  ASSUME NEW tok, NEW n, NEW goal, NEW rest, NEW T, Reading(tok, n, goal, rest, T),
         pc = "name", AfterName(tok), frames[n].fn = "read_node",
         NEW e, Awaits(frames[n], "read_array", goal[n], e), NEW s \in Seq(Tokens),
         s = print_value[e] \o (Beyond(frames[n], "read_array", goal[n]) \o rest[n]),
         file = <<Sym("=")>> \o s
  PROVE  Following(pc', frames', file', T) /\ left' = 0
<1>1. tok = Sym("=") /\ file' = s /\ left' = 0
  BY Symbols, TokenRead DEF Reading
<1>2. PICK f, g, t : f = frames[n] /\ g = [f EXCEPT !.attr_allocated = TRUE] /\ t = goal[n]
  OBVIOUS
<1>3. /\ f \in NodeAt(MaxDepth - n) /\ MaxDepth - n \in 0..MaxDepth
      /\ Stack(frames) /\ n = Len(frames) /\ n > 1 /\ Chain(frames, goal, rest, T)
  BY <1>2, ReadingIs DEF Reading
<1>4. g.fn = "read_node" /\ g.id = f.id /\ g.attrs = f.attrs /\ g.kids = f.kids
  <2>1. g \in NodeAt(MaxDepth - n) /\ g.id = f.id /\ g.attrs = f.attrs /\ g.kids = f.kids
    BY <1>2, <1>3, NodeAllocates
  <2> QED
    BY <1>3, <2>1, NodeFields
<1>5. pc' = "value" /\ frames' = OnTop(frames, g)
  BY <1>1, <1>2, <1>3 DEF AfterName, Top
<1>6. Awaits(g, "read_array", t, e) /\ Beyond(g, "read_array", t) = Beyond(f, "read_array", t)
  <2>1. Awaits(f, "read_array", t, e) /\ f.fn = "read_node"
    BY <1>2
  <2>2. Reads(g, t) /\ Expects(g, "read_array", t, e) /\ Named(g, "read_array", t, e)
    BY <1>4, <2>1 DEF Awaits, Reads, NodeReads, Expects, Named
  <2>3. Beyond(g, "read_array", t) = Beyond(f, "read_array", t)
    BY <1>4, <2>1 DEF Beyond
  <2> QED
    BY <2>2, <2>3 DEF Awaits
<1>7. AtTop(pc', g, t, rest[n], file')
  <2>1. file' = print_value[e] \o (Beyond(g, "read_array", t) \o rest[n])
    BY <1>1, <1>2, <1>6
  <2>2. ValueNext(g, t, rest[n], file')
    BY <1>6, <2>1 DEF ValueNext
  <2> QED
    BY <1>5, <2>2 DEF AtTop
<1>8. pc' \in {"item", "name", "value", "element", "separator"} /\ g.fn = frames[n].fn
  BY <1>2, <1>4, <1>5
<1> QED
  BY <1>1, <1>2, <1>3, <1>5, <1>7, <1>8, TopFollows

LEMMA KidFollows ==
  ASSUME NEW tok, NEW n, NEW goal, NEW rest, NEW T, Reading(tok, n, goal, rest, T),
         pc = "name", AfterName(tok), frames[n].fn = "read_node",
         NEW e, Awaits(frames[n], "read_node", goal[n], e), e \in Tree,
         NEW s \in Seq(Tokens), s = Beyond(frames[n], "read_node", goal[n]) \o rest[n],
         NEW s1 \in Seq(Tokens), s1 = NodeRest(e, 0, 0) \o s, file = <<Sym("{")>> \o s1
  PROVE  Following(pc', frames', file', T) /\ left' = 0
<1>1. tok = Sym("{") /\ file' = s1 /\ left' = 0
  BY Symbols, TokenRead DEF Reading
<1>2. Stack(frames) /\ n = Len(frames) /\ n > 1 /\ Chain(frames, goal, rest, T)
  BY ReadingIs DEF Reading
<1>3. pc' = "item" /\ frames' = Append(frames, NodeFrame)
  BY <1>1 DEF AfterName, CallReadNode, Sym
<1>4. NodeFrame.fn = "read_node" /\ AtTop("item", NodeFrame, e, s, file')
  BY <1>1, NodeBegins
<1>5. PICK g, fs, p, fi : g = NodeFrame /\ fs = frames' /\ p = pc' /\ fi = file'
  OBVIOUS
<1>6. /\ g \in {NodeFrame, ArrayFrame("]")} /\ fs = Append(frames, g)
      /\ g.fn = "read_node" /\ Awaits(frames[n], g.fn, goal[n], e)
      /\ s = Beyond(frames[n], g.fn, goal[n]) \o rest[n]
      /\ AtTop(p, g, e, s, fi) /\ p \in {"item", "name", "value", "element", "separator"}
  BY <1>3, <1>4, <1>5
<1>7. Following(p, fs, fi, T)
  BY <1>2, <1>6, PushFollows
<1> QED
  BY <1>1, <1>5, <1>7

LEMMA AfterNameFollows ==
  ASSUME NEW tok, NEW n, NEW goal, NEW rest, NEW T, Reading(tok, n, goal, rest, T),
         pc = "name", AfterName(tok), AtTop("name", frames[n], goal[n], rest[n], file)
  PROVE  Reloads(pc', frames', result', file', T) /\ left' = 0
<1>1. NameNext(frames[n], goal[n], rest[n], file)
  BY DEF AtTop
<1>2. frames[n].fn = "read_node"
  BY DEF Reading, Sound, Place
<1>3. PICK f, t, r, d : f = frames[n] /\ t = goal[n] /\ r = rest[n] /\ d = MaxDepth - n
  OBVIOUS
<1>4. /\ f \in NodeAt(d) /\ d \in 0..MaxDepth /\ f.fn = "read_node" /\ t \in Goal(f)
      /\ r \in Seq(Tokens)
  BY <1>2, <1>3, ReadingIs DEF Goal
<1>5. ASSUME NEW e, NEW fn \in {"read_array", "read_node"}, Awaits(f, fn, t, e)
      PROVE  e \in Kind(fn) /\ Beyond(f, fn, t) \o r \in Seq(Tokens)
  <2>1. Beyond(f, fn, t) \in Seq(Tokens)
    BY <1>4, <1>5, BeyondType
  <2> QED
    BY <1>4, <1>5, <2>1, AwaitedIs, Joined
<1>6. CASE \E e : /\ Awaits(f, "read_array", t, e)
                  /\ file = <<Sym("=")>> \o (print_value[e] \o (Beyond(f, "read_array", t) \o r))
  <2>1. PICK e : /\ Awaits(f, "read_array", t, e)
                 /\ file = <<Sym("=")>> \o (print_value[e] \o (Beyond(f, "read_array", t) \o r))
    BY <1>6
  <2>2. PICK rr, s : rr = Beyond(f, "read_array", t) \o r /\ s = print_value[e] \o rr
    OBVIOUS
  <2>3. s \in Seq(Tokens)
    <3>1. e \in Value /\ rr \in Seq(Tokens)
      BY <1>5, <2>1, <2>2 DEF Kind
    <3> QED
      BY <2>2, <3>1, PrintIs, Joined
  <2>4. /\ file = <<Sym("=")>> \o s /\ s = print_value[e] \o (Beyond(frames[n], "read_array", goal[n]) \o rest[n])
        /\ Awaits(frames[n], "read_array", goal[n], e)
    BY <1>3, <2>1, <2>2
  <2>5. Following(pc', frames', file', T) /\ left' = 0
    BY <1>2, <2>3, <2>4, AttrFollows
  <2> QED
    BY <2>5 DEF Reloads
<1>7. CASE \E e : /\ Awaits(f, "read_node", t, e)
                  /\ file = <<Sym("{")>> \o (NodeRest(e, 0, 0) \o (Beyond(f, "read_node", t) \o r))
  <2>1. PICK e : /\ Awaits(f, "read_node", t, e)
                 /\ file = <<Sym("{")>> \o (NodeRest(e, 0, 0) \o (Beyond(f, "read_node", t) \o r))
    BY <1>7
  <2>2. PICK s, s1 : s = Beyond(f, "read_node", t) \o r /\ s1 = NodeRest(e, 0, 0) \o s
    OBVIOUS
  <2>3. e \in Tree /\ s \in Seq(Tokens)
    BY <1>5, <2>1, <2>2 DEF Kind
  <2>4. s1 \in Seq(Tokens)
    <3>1. NodeRest(e, 0, 0) \in Seq(Tokens)
      BY <2>3, NoneRead, NodeRestType
    <3> QED
      BY <2>2, <2>3, <3>1, Joined
  <2>5. /\ file = <<Sym("{")>> \o s1 /\ s = Beyond(frames[n], "read_node", goal[n]) \o rest[n]
        /\ Awaits(frames[n], "read_node", goal[n], e)
    BY <1>3, <2>1, <2>2
  <2>6. Following(pc', frames', file', T) /\ left' = 0
    BY <1>2, <2>2, <2>3, <2>4, <2>5, KidFollows
  <2> QED
    BY <2>6 DEF Reloads
<1> QED
  BY <1>1, <1>3, <1>6, <1>7 DEF NameNext

-----------------------------------------------------------------------------
(* A value is read where e is awaited. *)
ReadingValue(tok, n, goal, rest, T, e, s) ==
  /\ Reading(tok, n, goal, rest, T) /\ pc \in {"value", "element"}
  /\ tok # EOF => read_value(tok)
  /\ Awaits(frames[n], "read_array", goal[n], e) /\ e \in Value /\ s \in Seq(Tokens)
  /\ s = Beyond(frames[n], "read_array", goal[n]) \o rest[n]

(* A token that stands for the scalar x. *)
LEMMA ScalarReturns ==
  ASSUME NEW tok, NEW n, NEW goal, NEW rest, NEW T, NEW e, NEW s,
         ReadingValue(tok, n, goal, rest, T, e, s), tok # EOF, tok \notin {Sym("["), Sym("{")},
         NEW x, x = ScalarOf(tok)
  PROVE  /\ x = e /\ Printable[e] /\ file' = s => Following(pc', frames', file', T)
         /\ x # e /\ ~Printable[e] => Reloads(pc', frames', result', file', T)
<1>1. /\ Reading(tok, n, goal, rest, T) /\ read_value(tok) /\ pc \in {"value", "element"}
      /\ Awaits(frames[n], "read_array", goal[n], e)
      /\ s = Beyond(frames[n], "read_array", goal[n]) \o rest[n]
  BY DEF ReadingValue
<1>2. /\ Sound(pc, frames, heap, result) /\ tok \in Tokens \cup {EOF} /\ Stack(frames)
      /\ n = Len(frames) /\ n > 1 /\ Chain(frames, goal, rest, T)
      /\ MaxDepth - n \in 0..MaxDepth /\ Level(frames[n], goal[n], rest[n], T)
      /\ frames[n].fn \in {"read_node", "read_array"}
  BY <1>1, ReadingIs DEF Reading
<1>3. /\ x \in Scalars /\ Delivered(frames, x)
      /\ Fits(frames[n], MaxDepth - n, "read_array", x)
  <2>1. PICK c : c = IF tok = Sym("[") THEN "]" ELSE "}"
    OBVIOUS
  <2> QED
    BY <1>1, <1>2, <2>1, ValueRead
<1>4. Returned(frames, "read_array", x, pc', frames')
  BY <1>3 DEF Delivered, Returned
<1>5. PICK fr, fs, p, fi, d : fr = frames /\ fs = frames' /\ p = pc' /\ fi = file' /\ d = MaxDepth - n
  OBVIOUS
<1>6. /\ Stack(fr) /\ n = Len(fr) /\ n > 1 /\ Chain(fr, goal, rest, T) /\ d \in 0..MaxDepth
      /\ Fits(fr[n], d, "read_array", x) /\ Awaits(fr[n], "read_array", goal[n], e)
      /\ Returned(fr, "read_array", x, p, fs)
  BY <1>1, <1>2, <1>3, <1>4, <1>5
<1>7. ASSUME x = e, Printable[e], fi = s PROVE Following(p, fs, fi, T)
  <2>1. Readable("read_array", x) /\ Awaits(fr[n], "read_array", goal[n], x)
    BY <1>6, <1>7 DEF Readable
  <2>2. fi = Beyond(fr[n], "read_array", goal[n]) \o rest[n]
    BY <1>1, <1>5, <1>7
  <2> QED
    BY <1>6, <2>1, <2>2, ReturnedFollows
<1>8. ASSUME x # e, ~Printable[e] PROVE Reloads(p, fs, result', fi, T)
  <2>1. ts_copy_value[x] # e /\ Expects(fr[n], "read_array", goal[n], e)
    BY <1>3, <1>6, <1>8, CopyOfScalar DEF Awaits
  <2>2. p \in {"item", "separator"} /\ Diverged(fs, T)
    BY <1>6, <1>8, <2>1, ReturnedStrays
  <2>3. ~AllPrintable[T]
    <3>1. ~Readable("read_array", e)
      BY <1>8 DEF Readable
    <3> QED
      BY <1>1, <1>2, <3>1, Blame
  <2> QED
    BY <2>2, <2>3 DEF Reloads, Away
<1> QED
  BY <1>5, <1>7, <1>8

LEMMA StringFollows ==
  ASSUME NEW tok, NEW n, NEW goal, NEW rest, NEW T, NEW e, NEW s,
         ReadingValue(tok, n, goal, rest, T, e, s), e.type = "TS_STRING",
         file = print_value[e] \o s
  PROVE  Reloads(pc', frames', result', file', T) /\ left' = 0
<1>1. e \in Value /\ s \in Seq(Tokens) /\ Reading(tok, n, goal, rest, T)
  BY DEF ReadingValue
<1>2. PICK c : c = IF e.text = Null THEN "(null)" ELSE e.text
  OBVIOUS
<1>3. c \in Words \cup Strings /\ c # Null /\ e.text \in Words \cup Strings \cup {Null}
  <2>1. e.text \in Words \cup Strings \cup {Null}
    BY <1>1, ValueFields
  <2>2. "(null)" \in Strings /\ Null \notin Words \cup Numbers \cup Strings
    BY TextAssumption
  <2> QED
    BY <1>2, <2>1, <2>2
<1>4. file = <<Str(c)>> \o s
  BY <1>1, <1>2, PrintedIs DEF Quoted
<1>5. tok = Str(c) /\ file' = s /\ left' = 0
  BY <1>1, <1>3, <1>4, Symbols, TokenRead DEF Reading
<1>6. PICK x : x = ScalarOf(tok)
  OBVIOUS
<1>7. tok # EOF /\ tok \notin {Sym("["), Sym("{")} /\ x = ts_set_value_str(c) /\ x.text = c
  BY <1>5, <1>6 DEF Str, EOF, Sym, ScalarOf, ts_set_value_str, Unset
<1>8. Printable[e] <=> e.text # Null
  BY <1>1, PrintableIs
<1>9. e.text # Null => x = e
  <2>1. e \in Scalars
    BY <1>1, ValueKind
  <2>2. e = ts_set_value_str(e.text)
    BY <2>1, ScalarFields
  <2> QED
    BY <1>2, <1>7, <2>2
<1>10. e.text = Null => x # e
  BY <1>3, <1>7
<1>11. /\ x = e /\ Printable[e] /\ file' = s => Following(pc', frames', file', T)
       /\ x # e /\ ~Printable[e] => Reloads(pc', frames', result', file', T)
  BY <1>6, <1>7, ScalarReturns
<1> QED
  BY <1>5, <1>8, <1>9, <1>10, <1>11 DEF Reloads

LEMMA NumberFollows ==
  ASSUME NEW tok, NEW n, NEW goal, NEW rest, NEW T, NEW e, NEW s,
         ReadingValue(tok, n, goal, rest, T, e, s), e.type = "TS_NUMBER",
         file = print_value[e] \o s
  PROVE  Reloads(pc', frames', result', file', T) /\ left' = 0
<1>1. e \in Value /\ s \in Seq(Tokens) /\ Reading(tok, n, goal, rest, T)
  BY DEF ReadingValue
<1>2. e.text \in Numbers
  BY <1>1, ValueFields
<1>3. e = ts_set_valuef(e.text)
  <2>1. e \in Scalars
    BY <1>1, ValueKind
  <2> QED
    BY <2>1, ScalarFields
<1>4. PICK x : x = ScalarOf(tok)
  OBVIOUS
<1>5. tok # EOF /\ tok \notin {Sym("["), Sym("{")} =>
        /\ x = e /\ Printable[e] /\ file' = s => Following(pc', frames', file', T)
        /\ x # e /\ ~Printable[e] => Reloads(pc', frames', result', file', T)
  BY <1>4, ScalarReturns
<1>6. Printable[e] <=> Printed[e.text] = <<Num(e.text)>>
  BY <1>1, PrintableIs
<1>7. CASE Printed[e.text] = <<Num(e.text)>>
  <2>1. file = <<Num(e.text)>> \o s
    BY <1>1, <1>7, PrintedIs
  <2>2. Num(e.text) \in Tokens
    BY <1>2 DEF Tokens
  <2>3. tok = Num(e.text) /\ file' = s /\ left' = 0
    BY <1>1, <2>1, <2>2, TokenRead DEF Reading
  <2>4. tok # EOF /\ tok \notin {Sym("["), Sym("{")} /\ x = ts_set_valuef(e.text)
    BY <1>4, <2>3 DEF Num, EOF, Sym, ScalarOf
  <2> QED
    BY <1>3, <1>5, <1>6, <1>7, <2>3, <2>4 DEF Reloads
<1>8. CASE Printed[e.text] # <<Num(e.text)>>
  <2>1. /\ file # <<>> /\ Head(file) # Num(e.text) /\ Head(file).type \in {"TOK_NUM", "TOK_ID"}
    BY <1>1, <1>8, PrintedIs
  <2>2. next_token(tok) /\ left = 0 /\ tok \in Tokens \cup {EOF}
    BY <1>1 DEF Reading
  <2>3. tok = Head(file) /\ left' = left
    BY <2>1, <2>2 DEF next_token
  <2>4. tok # EOF /\ tok \notin {Sym("["), Sym("{")}
    <3>1. tok.type \in {"TOK_NUM", "TOK_ID"}
      BY <2>1, <2>3
    <3> QED
      BY <2>2, <3>1, TokenIs DEF TokenKind
  <2>5. x # e
    <3>1. CASE tok.type = "TOK_NUM"
      <4>1. tok = Num(tok.text) /\ tok.text # e.text
        BY <2>1, <2>2, <2>3, <3>1, TokenIs DEF TokenKind
      <4>2. x.text = tok.text
        BY <1>4, <3>1 DEF ScalarOf, ts_set_valuef, Unset
      <4> QED
        BY <4>1, <4>2
    <3>2. CASE tok.type = "TOK_ID"
      <4>1. x.type = "TS_STRING"
        BY <1>4, <3>2 DEF ScalarOf, ts_set_value_str, Unset
      <4> QED
        BY <4>1
    <3> QED
      BY <2>1, <2>3, <3>1, <3>2
  <2> QED
    BY <1>5, <1>6, <1>8, <2>2, <2>3, <2>4, <2>5
<1> QED
  BY <1>7, <1>8

(* A call of read_array starts to read e. *)
LEMMA ArrayBegins ==
  ASSUME NEW e \in Value, NEW s \in Seq(Tokens), NEW g, g = ArrayFrame("]")
  PROVE  /\ e.type = "TS_ARRAY" => AtTop("element", g, e, s, ArrayRest(e, 0) \o s)
         /\ e.type = "TS_VECTOR" => AtTop("element", g, e, s, <<Sym("]")>> \o s)
<1>1. g.fn = "read_array" /\ g.endsym = "]" /\ g.values = <<>>
  BY DEF ArrayFrame
<1>2. CASE e.type = "TS_ARRAY"
  <2>1. e.array \in Seq(Value) /\ Len(e.array) \in Nat /\ Len(e.array) > 0
    <3>1. e \notin Scalars
      BY <1>2, ScalarFields
    <3>2. e.array \in Seq(Value) /\ Len(e.array) \in 2..MaxStored
      BY <3>1, CompoundFields
    <3> QED
      BY <3>2, TextAssumption
  <2>2. 0 \in 0..Len(e.array) /\ 1 \in DOMAIN e.array
    BY <2>1
  <2>3. ArrayRest(e, 0) \o s = print_value[e.array[1]] \o (ArrayRest(e, 1) \o s)
    <3>1. PICK m : m = 0
      OBVIOUS
    <3>2. m \in 0..Len(e.array) /\ m < Len(e.array)
      BY <2>1, <3>1
    <3>3. ArrayRest(e, m) \o s = print_value[e.array[m + 1]] \o (ArrayRest(e, m + 1) \o s)
      BY <3>1, <3>2, ArrayRestIs
    <3>4. m + 1 = 1
      BY <3>1
    <3> QED
      BY <3>1, <3>3, <3>4
  <2>4. Reads(g, e)
    BY <1>1, <1>2 DEF Reads, ArrayReads, Prefix
  <2>5. Awaits(g, "read_array", e, e.array[1]) /\ Beyond(g, "read_array", e) = ArrayRest(e, 1)
    <3>1. Len(g.values) + 1 = 1
      BY <1>1
    <3>2. Expects(g, "read_array", e, e.array[1]) /\ Named(g, "read_array", e, e.array[1])
      BY <1>1, <2>2, <3>1 DEF Expects, Named
    <3>3. Beyond(g, "read_array", e) = ArrayRest(e, 1)
      BY <1>1, <3>1 DEF Beyond
    <3> QED
      BY <2>4, <3>2, <3>3 DEF Awaits
  <2>6. ValueNext(g, e, s, ArrayRest(e, 0) \o s)
    BY <2>3, <2>5 DEF ValueNext
  <2> QED
    BY <1>2, <2>6 DEF AtTop
<1>3. CASE e.type = "TS_VECTOR"
  <2>1. NothingNext(g, e, s, <<Sym("]")>> \o s)
    BY <1>1, <1>3 DEF NothingNext
  <2> QED
    BY <1>3, <2>1 DEF AtTop
<1> QED
  BY <1>2, <1>3

LEMMA ArrayFollows ==
  ASSUME NEW tok, NEW n, NEW goal, NEW rest, NEW T, NEW e, NEW s,
         ReadingValue(tok, n, goal, rest, T, e, s), e.type \in {"TS_ARRAY", "TS_VECTOR"},
         file = print_value[e] \o s
  PROVE  Reloads(pc', frames', result', file', T) /\ left' = 0
<1>1. /\ e \in Value /\ s \in Seq(Tokens) /\ Reading(tok, n, goal, rest, T)
      /\ pc \in {"value", "element"} /\ Awaits(frames[n], "read_array", goal[n], e)
      /\ s = Beyond(frames[n], "read_array", goal[n]) \o rest[n]
  BY DEF ReadingValue
<1>2. PICK g : g = ArrayFrame("]")
  OBVIOUS
<1>3. PICK s1 \in Seq(Tokens) : file = <<Sym("[")>> \o s1 /\ AtTop("element", g, e, s, s1)
  <2>1. CASE e.type = "TS_ARRAY"
    <3>1. PICK s1 : s1 = ArrayRest(e, 0) \o s
      OBVIOUS
    <3>2. s1 \in Seq(Tokens)
      <4>1. 0 \in 0..Len(e.array)
        BY <1>1, ValueArrayType, LenProperties
      <4>2. ArrayRest(e, 0) \in Seq(Tokens)
        BY <1>1, <4>1, ArrayRestIs
      <4> QED
        BY <1>1, <3>1, <4>2, Joined
    <3>3. file = <<Sym("[")>> \o s1
      BY <1>1, <2>1, <3>1, PrintedIs
    <3>4. AtTop("element", g, e, s, s1)
      BY <1>1, <1>2, <2>1, <3>1, ArrayBegins
    <3> QED
      BY <3>2, <3>3, <3>4
  <2>2. CASE e.type = "TS_VECTOR"
    <3>1. PICK s1 : s1 = <<Sym("]")>> \o s
      OBVIOUS
    <3>2. s1 \in Seq(Tokens)
      BY <1>1, <3>1, OneSymbol, Joined
    <3>3. file = <<Sym("[")>> \o s1
      BY <1>1, <2>2, <3>1, PrintedIs
    <3>4. AtTop("element", g, e, s, s1)
      BY <1>1, <1>2, <2>2, <3>1, ArrayBegins
    <3> QED
      BY <3>2, <3>3, <3>4
  <2> QED
    BY <2>1, <2>2
<1>4. tok = Sym("[") /\ file' = s1 /\ left' = 0
  BY <1>1, <1>3, Symbols, TokenRead DEF Reading
<1>5. /\ Stack(frames) /\ n = Len(frames) /\ n > 1 /\ Chain(frames, goal, rest, T)
      /\ Sound(pc, frames, heap, result) /\ tok \in Tokens \cup {EOF}
  BY <1>1, ReadingIs DEF Reading
<1>6. tok # EOF /\ read_value(tok)
  <2>1. tok # EOF
    BY <1>4 DEF Sym, EOF
  <2> QED
    BY <2>1 DEF ReadingValue
<1>7. pc' = "element" /\ frames' = Append(frames, g)
  BY <1>2, <1>4, <1>6 DEF read_value
<1>8. g.fn = "read_array"
  BY <1>2 DEF ArrayFrame
<1>9. PICK fs, p, fi : fs = frames' /\ p = pc' /\ fi = file'
  OBVIOUS
<1>10. /\ g \in {NodeFrame, ArrayFrame("]")} /\ fs = Append(frames, g)
       /\ g.fn # "read_node" /\ Awaits(frames[n], g.fn, goal[n], e)
       /\ s = Beyond(frames[n], g.fn, goal[n]) \o rest[n]
       /\ AtTop(p, g, e, s, fi) /\ p \in {"item", "name", "value", "element", "separator"}
  BY <1>1, <1>2, <1>3, <1>4, <1>7, <1>8, <1>9
<1>11. Following(p, fs, fi, T)
  BY <1>5, <1>10, PushFollows
<1> QED
  BY <1>4, <1>9, <1>11 DEF Reloads

LEMMA ValueFollows ==
  ASSUME NEW tok, NEW n, NEW goal, NEW rest, NEW T, Reading(tok, n, goal, rest, T),
         pc \in {"value", "element"}, tok # EOF => read_value(tok),
         ValueNext(frames[n], goal[n], rest[n], file)
  PROVE  Reloads(pc', frames', result', file', T) /\ left' = 0
<1>1. PICK e : /\ Awaits(frames[n], "read_array", goal[n], e)
               /\ file = print_value[e] \o (Beyond(frames[n], "read_array", goal[n]) \o rest[n])
  BY DEF ValueNext
<1>2. PICK s : s = Beyond(frames[n], "read_array", goal[n]) \o rest[n]
  OBVIOUS
<1>3. e \in Value /\ s \in Seq(Tokens)
  <2>1. PICK f, t, d, r : f = frames[n] /\ t = goal[n] /\ d = MaxDepth - n /\ r = rest[n]
    OBVIOUS
  <2>2. /\ d \in 0..MaxDepth /\ f \in NodeAt(d) \cup ArrayAt(d) /\ t \in Goal(f) /\ r \in Seq(Tokens)
        /\ Awaits(f, "read_array", t, e)
    BY <1>1, <2>1, ReadingIs DEF Goal
  <2>3. e \in Value
    BY <2>2, AwaitedIs DEF Kind
  <2>4. Beyond(f, "read_array", t) \in Seq(Tokens)
    BY <2>2, BeyondType
  <2> QED
    BY <1>2, <2>1, <2>2, <2>3, <2>4, Joined
<1>4. ReadingValue(tok, n, goal, rest, T, e, s) /\ file = print_value[e] \o s
  BY <1>1, <1>2, <1>3 DEF ReadingValue
<1>5. e.type \in {"TS_STRING", "TS_NUMBER", "TS_VECTOR", "TS_ARRAY"}
  BY <1>3, ValueFields
<1>6. CASE e.type = "TS_STRING"
  BY <1>4, <1>6, StringFollows
<1>7. CASE e.type = "TS_NUMBER"
  BY <1>4, <1>7, NumberFollows
<1>8. CASE e.type \in {"TS_ARRAY", "TS_VECTOR"}
  BY <1>4, <1>8, ArrayFollows
<1> QED
  BY <1>5, <1>6, <1>7, <1>8

(* A vector was saved without its numbers: the array that is read is empty, *)
(* and the bracket that closes it is taken for a value.                     *)
LEMMA NothingFollows ==
  ASSUME NEW tok, NEW n, NEW goal, NEW rest, NEW T, Reading(tok, n, goal, rest, T),
         pc = "element", tok # EOF => read_value(tok),
         NothingNext(frames[n], goal[n], rest[n], file)
  PROVE  Reloads(pc', frames', result', file', T) /\ left' = 0
<1>1. /\ Sound(pc, frames, heap, result) /\ tok \in Tokens \cup {EOF} /\ Stack(frames)
      /\ n = Len(frames) /\ n > 1 /\ Chain(frames, goal, rest, T)
      /\ MaxDepth - n \in 0..MaxDepth /\ Level(frames[n], goal[n], rest[n], T)
      /\ rest[n] \in Seq(Tokens)
  BY ReadingIs DEF Reading
<1>2. frames[n].fn = "read_array"
  BY <1>1 DEF Sound, Place
<1>3. /\ goal[n] \in Value /\ goal[n].type = "TS_VECTOR" /\ frames[n].values = <<>>
      /\ file = <<Sym("]")>> \o rest[n]
  BY <1>2, ReadingIs DEF NothingNext
<1>4. tok = Sym("]") /\ file' = rest[n] /\ left' = 0
  BY <1>1, <1>3, Symbols, TokenRead DEF Reading
<1>5. PICK x : x = ScalarOf(tok)
  OBVIOUS
<1>6. tok # EOF /\ tok \notin {Sym("["), Sym("{")} /\ x.type = "TS_STRING"
  BY <1>4, <1>5 DEF Sym, EOF, ScalarOf, Unset
<1>7. /\ x \in Scalars /\ Delivered(frames, x)
      /\ Fits(frames[n], MaxDepth - n, "read_array", x)
  <2>1. PICK c : c = IF tok = Sym("[") THEN "]" ELSE "}"
    OBVIOUS
  <2>2. read_value(tok) /\ pc \in {"value", "element"}
    BY <1>6
  <2> QED
    BY <1>1, <1>5, <1>6, <2>1, <2>2, ValueRead
<1>8. PICK e : e = goal[n].array[1]
  OBVIOUS
<1>9. e.type = "TS_NUMBER" /\ 1 \in DOMAIN goal[n].array
  <2>1. goal[n] \notin Scalars
    BY <1>3, ScalarFields
  <2>2. /\ AllNumbers(goal[n].array) /\ goal[n].array \in Seq(Value)
        /\ Len(goal[n].array) \in 2..MaxStored
    BY <1>3, <2>1, CompoundFields
  <2>3. 1 \in DOMAIN goal[n].array
    BY <2>2, TextAssumption
  <2> QED
    BY <1>8, <2>2, <2>3 DEF AllNumbers
<1>10. Expects(frames[n], "read_array", goal[n], e)
  <2>1. Len(frames[n].values) + 1 = 1
    BY <1>3
  <2> QED
    BY <1>2, <1>8, <1>9, <2>1 DEF Expects
<1>11. x # e /\ ts_copy_value[x] # e
  BY <1>6, <1>7, <1>9, CopyOfScalar
<1>12. Returned(frames, "read_array", x, pc', frames')
  BY <1>7 DEF Delivered, Returned
<1>13. PICK fr, fs, p, d : fr = frames /\ fs = frames' /\ p = pc' /\ d = MaxDepth - n
  OBVIOUS
<1>14. /\ Stack(fr) /\ n = Len(fr) /\ n > 1 /\ Chain(fr, goal, rest, T) /\ d \in 0..MaxDepth
       /\ Fits(fr[n], d, "read_array", x) /\ Expects(fr[n], "read_array", goal[n], e)
       /\ Returned(fr, "read_array", x, p, fs)
  BY <1>1, <1>7, <1>10, <1>12, <1>13
<1>15. p \in {"item", "separator"} /\ Diverged(fs, T)
  BY <1>11, <1>14, ReturnedStrays
<1>16. ~AllPrintable[T]
  <2>1. ~Readable("read_array", goal[n])
    BY <1>3, PrintableIs DEF Readable
  <2> QED
    BY <1>1, <1>2, <2>1 DEF Level
<1> QED
  BY <1>4, <1>13, <1>15, <1>16 DEF Reloads, Away

LEMMA ElementsFollow ==
  ASSUME NEW tok, NEW n, NEW goal, NEW rest, NEW T, Reading(tok, n, goal, rest, T),
         \/ pc = "value" /\ AttrValue(tok)
         \/ pc = "element" /\ Element(tok),
         AtTop(pc, frames[n], goal[n], rest[n], file)
  PROVE  Reloads(pc', frames', result', file', T) /\ left' = 0
<1>1. pc \in {"value", "element"} /\ (tok # EOF => read_value(tok))
  BY DEF AttrValue, Element
<1>2. \/ ValueNext(frames[n], goal[n], rest[n], file)
      \/ pc = "element" /\ NothingNext(frames[n], goal[n], rest[n], file)
  BY DEF AtTop
<1> QED
  BY <1>1, <1>2, ValueFollows, NothingFollows

(* What the text of an array t goes on with, after what f has read of it.   *)
LEMMA ArrayGoesOn ==
  ASSUME NEW d \in 0..MaxDepth, NEW f \in ArrayAt(d), NEW t \in Value, Reads(f, t),
         Len(f.values) > 0, NEW r \in Seq(Tokens), NEW fi, fi = Left(f, t) \o r
  PROVE  \/ f.values = t.array /\ fi = <<Sym("]")>> \o r
         \/ \E s \in Seq(Tokens) : fi = <<Sym(",")>> \o s /\ ValueNext(f, t, r, s)
<1>1. f.fn = "read_array" /\ f.values \in Seq(Value) /\ t.array \in Seq(Value)
  BY ArrayFields, ValueArrayType
<1>2. ArrayReads(f, t)
  BY <1>1 DEF Reads
<1>3. PICK m : m = Len(f.values)
  OBVIOUS
<1>4. /\ m \in 0..Len(t.array) /\ m \in Nat /\ Len(t.array) \in Nat /\ m <= Len(t.array)
      /\ m = Len(t.array) => f.values = t.array
      /\ m < Len(t.array) => m + 1 \in DOMAIN t.array /\ m + 1 \in 0..Len(t.array)
  BY <1>1, <1>2, <1>3, PrefixLength DEF ArrayReads
<1>5. fi = ArrayRest(t, m) \o r /\ m > 0
  BY <1>1, <1>3 DEF Left
<1>6. CASE m = Len(t.array)
  BY <1>4, <1>5, <1>6, ArrayRestIs
<1>7. CASE m < Len(t.array)
  <2>1. PICK e, rr, s : /\ e = t.array[m + 1] /\ rr = ArrayRest(t, m + 1) \o r
                        /\ s = print_value[e] \o rr
    OBVIOUS
  <2>2. e \in Value
    BY <1>1, <1>4, <1>7, <2>1
  <2>3. s \in Seq(Tokens)
    <3>1. ArrayRest(t, m + 1) \in Seq(Tokens)
      BY <1>4, <1>7, ArrayRestIs
    <3>2. rr \in Seq(Tokens)
      BY <2>1, <3>1, Joined
    <3> QED
      BY <2>1, <2>2, <3>2, PrintIs, Joined
  <2>4. fi = <<Sym(",")>> \o s
    BY <1>4, <1>5, <1>7, <2>1, ArrayRestIs
  <2>5. Awaits(f, "read_array", t, e)
    <3>1. Expects(f, "read_array", t, e) /\ Named(f, "read_array", t, e)
      BY <1>1, <1>3, <1>4, <1>7, <2>1 DEF Expects, Named
    <3> QED
      BY <3>1 DEF Awaits
  <2>6. s = print_value[e] \o (Beyond(f, "read_array", t) \o r)
    <3>1. Beyond(f, "read_array", t) = ArrayRest(t, m + 1)
      BY <1>1, <1>3 DEF Beyond
    <3> QED
      BY <2>1, <3>1
  <2> QED
    BY <2>3, <2>4, <2>5, <2>6 DEF ValueNext
<1>8. m = Len(t.array) \/ m < Len(t.array)
  BY <1>4
<1> QED
  BY <1>6, <1>7, <1>8

LEMMA ArrayIsBack ==
  ASSUME NEW t \in Value, NEW f, f.fn = "read_array", Reads(f, t), f.values = t.array
  PROVE  ts_set_value_arr(f.values) = t /\ Printable[t] /\ Len(f.values) \in Nat /\ Len(f.values) >= 2
<1>1. ArrayReads(f, t)
  BY DEF Reads
<1>2. t.type = "TS_ARRAY" /\ Printable[t]
  BY <1>1, PrintableIs DEF ArrayReads
<1>3. Len(t.array) \in 2..MaxStored
  <2>1. t \notin Scalars
    BY <1>2, ScalarFields
  <2> QED
    BY <2>1, CompoundFields
<1> QED
  BY <1>2, <1>3, SetArrayBack, TextAssumption

LEMMA SeparatorReturns ==
  ASSUME NEW tok, NEW n, NEW goal, NEW rest, NEW T, Reading(tok, n, goal, rest, T),
         pc = "separator", Separator(tok), Reads(frames[n], goal[n]),
         frames[n].values = goal[n].array, file = <<Sym("]")>> \o rest[n]
  PROVE  Following(pc', frames', file', T) /\ left' = 0
<1>1. /\ Sound(pc, frames, heap, result) /\ Stack(frames) /\ n = Len(frames) /\ n > 1
      /\ Chain(frames, goal, rest, T) /\ rest[n] \in Seq(Tokens)
  BY ReadingIs DEF Reading
<1>2. frames[n].fn = "read_array"
  BY <1>1 DEF Sound, Place
<1>3. goal[n] \in Value
  BY <1>2, ReadingIs
<1>4. tok = Sym("]") /\ file' = rest[n] /\ left' = 0
  BY <1>1, Symbols, TokenRead DEF Reading
<1>5. frames[n].endsym = "]"
  BY <1>2 DEF Reads, ArrayReads
<1>6. ReturnArray
  BY <1>1, <1>4, <1>5 DEF Separator, Top
<1>7. PICK v, f : v = ts_set_value_arr(frames[n].values) /\ f = frames[n]
  OBVIOUS
<1>8. v = goal[n] /\ Printable[v] /\ Len(frames[n].values) \in Nat /\ Len(frames[n].values) >= 2
  <2>1. f.fn = "read_array" /\ Reads(f, goal[n]) /\ f.values = goal[n].array
    BY <1>2, <1>7
  <2>2. ts_set_value_arr(f.values) = goal[n] /\ Printable[goal[n]] /\ Len(f.values) \in Nat /\ Len(f.values) >= 2
    BY <1>3, <2>1, ArrayIsBack
  <2> QED
    BY <1>7, <2>2
<1>9. /\ n > 2
      /\ pc' = (IF frames[n - 1].fn = "read_node" THEN "item" ELSE "separator")
      /\ frames' = OnTop(Front(frames), Filled(frames[n - 1], "read_array", v))
      /\ Fits(frames[n - 1], MaxDepth - (n - 1), "read_array", v)
  BY <1>1, <1>6, <1>7, <1>8, ArrayReturns
<1>10. MaxDepth - (n - 1) \in 0..MaxDepth
  BY <1>1, CallerIs
<1>11. PICK fs, p, fi, d : fs = frames' /\ p = pc' /\ fi = file' /\ d = MaxDepth - (n - 1)
  OBVIOUS
<1>12. /\ d \in 0..MaxDepth /\ Fits(frames[n - 1], d, "read_array", v)
       /\ fs = OnTop(Front(frames), Filled(frames[n - 1], "read_array", v))
       /\ p = (IF frames[n - 1].fn = "read_node" THEN "item" ELSE "separator") /\ fi = rest[n]
       /\ Readable("read_array", v)
  BY <1>4, <1>8, <1>9, <1>10, <1>11 DEF Readable
<1>13. Following(p, fs, fi, T)
  BY <1>1, <1>2, <1>8, <1>9, <1>12, ReturnFollows
<1> QED
  BY <1>4, <1>11, <1>13

LEMMA SeparatorFollows ==
  ASSUME NEW tok, NEW n, NEW goal, NEW rest, NEW T, Reading(tok, n, goal, rest, T),
         pc = "separator", Separator(tok), AtTop("separator", frames[n], goal[n], rest[n], file)
  PROVE  Reloads(pc', frames', result', file', T) /\ left' = 0
<1>1. /\ Reads(frames[n], goal[n]) /\ file = Left(frames[n], goal[n]) \o rest[n]
      /\ Len(frames[n].values) > 0
  BY DEF AtTop
<1>2. /\ Sound(pc, frames, heap, result) /\ Stack(frames) /\ n = Len(frames) /\ n > 1
      /\ Chain(frames, goal, rest, T) /\ rest[n] \in Seq(Tokens)
  BY ReadingIs DEF Reading
<1>3. frames[n].fn = "read_array"
  BY <1>2 DEF Sound, Place
<1>4. \/ frames[n].values = goal[n].array /\ file = <<Sym("]")>> \o rest[n]
      \/ \E s \in Seq(Tokens) : /\ file = <<Sym(",")>> \o s
                                /\ ValueNext(frames[n], goal[n], rest[n], s)
  <2>1. PICK f, t, r, d : f = frames[n] /\ t = goal[n] /\ r = rest[n] /\ d = MaxDepth - n
    OBVIOUS
  <2>2. /\ d \in 0..MaxDepth /\ f \in ArrayAt(d) /\ t \in Value /\ Reads(f, t) /\ Len(f.values) > 0
        /\ r \in Seq(Tokens) /\ file = Left(f, t) \o r
    BY <1>1, <1>3, <2>1, ReadingIs
  <2>3. \/ f.values = t.array /\ file = <<Sym("]")>> \o r
        \/ \E s \in Seq(Tokens) : file = <<Sym(",")>> \o s /\ ValueNext(f, t, r, s)
    BY <2>2, ArrayGoesOn
  <2> QED
    BY <2>1, <2>3
<1>5. CASE frames[n].values = goal[n].array /\ file = <<Sym("]")>> \o rest[n]
  <2>1. Following(pc', frames', file', T) /\ left' = 0
    BY <1>1, <1>5, SeparatorReturns
  <2> QED
    BY <2>1 DEF Reloads
<1>6. CASE \E s \in Seq(Tokens) : /\ file = <<Sym(",")>> \o s
                                  /\ ValueNext(frames[n], goal[n], rest[n], s)
  <2>1. PICK s \in Seq(Tokens) : file = <<Sym(",")>> \o s /\ ValueNext(frames[n], goal[n], rest[n], s)
    BY <1>6
  <2>2. tok = Sym(",") /\ file' = s /\ left' = 0
    BY <2>1, Symbols, TokenRead DEF Reading
  <2>3. frames[n].endsym = "]"
    BY <1>1, <1>3 DEF Reads, ArrayReads
  <2>4. pc' = "element" /\ frames' = frames
    BY <1>2, <2>2, <2>3 DEF Separator, Top, Sym
  <2>5. AtTop(pc', frames[n], goal[n], rest[n], file')
    BY <2>1, <2>2, <2>4 DEF AtTop
  <2>6. InTree(pc', frames', file', T)
    BY <1>2, <2>4, <2>5 DEF InTree
  <2>7. Following(pc', frames', file', T)
    BY <2>4, <2>6 DEF Following
  <2> QED
    BY <2>2, <2>7 DEF Reloads
<1> QED
  BY <1>4, <1>5, <1>6

LEMMA FollowingSteps ==
  ASSUME Sound(pc, frames, heap, result), left = 0, NEW T \in Tree,
         NEW tok \in Tokens \cup {EOF}, next_token(tok), Following(pc, frames, file, T),
         \/ RootName(tok) \/ RootBrace(tok) \/ Item(tok) \/ AfterName(tok)
         \/ AttrValue(tok) \/ Element(tok) \/ Separator(tok)
  PROVE  Reloads(pc', frames', result', file', T) /\ left' = 0
<1>1. CASE RootName(tok)
  <2>1. file = ts_text_save[T]
    BY <1>1 DEF Following, RootName
  <2>2. Following(pc', frames', file', T) /\ left' = 0
    BY <1>1, <2>1, RootNameFollows
  <2> QED
    BY <2>2 DEF Reloads
<1>2. CASE RootBrace(tok)
  <2>1. pc = "root_brace" /\ frames[1].id = T.name /\ file = <<Sym("{")>> \o NodeRest(T, 0, 0)
    BY <1>2 DEF Following, RootBrace
  <2>2. Following(pc', frames', file', T) /\ left' = 0
    BY <1>2, <2>1, RootBraceFollows
  <2> QED
    BY <2>2 DEF Reloads
<1>3. CASE \/ Item(tok) \/ AfterName(tok) \/ AttrValue(tok) \/ Element(tok) \/ Separator(tok)
  <2>1. pc \in {"item", "name", "value", "element", "separator"}
    BY <1>3 DEF Item, AfterName, AttrValue, Element, Separator
  <2>2. PICK goal, rest : /\ Chain(frames, goal, rest, T)
                          /\ AtTop(pc, frames[Len(frames)], goal[Len(frames)], rest[Len(frames)], file)
    BY <2>1 DEF Following, InTree
  <2>3. PICK n : n = Len(frames)
    OBVIOUS
  <2>4. n > 1
    BY <2>1, <2>3 DEF Sound, Place
  <2>5. Reading(tok, n, goal, rest, T) /\ AtTop(pc, frames[n], goal[n], rest[n], file)
    BY <2>2, <2>3, <2>4 DEF Reading
  <2>6. CASE Item(tok)
    BY <2>5, <2>6, ItemFollows DEF Item
  <2>7. CASE AfterName(tok)
    BY <2>5, <2>7, AfterNameFollows DEF AfterName
  <2>8. CASE AttrValue(tok)
    <3>1. pc = "value"
      BY <2>8 DEF AttrValue
    <3> QED
      BY <2>5, <2>8, <3>1, ElementsFollow
  <2>9. CASE Element(tok)
    <3>1. pc = "element"
      BY <2>9 DEF Element
    <3> QED
      BY <2>5, <2>9, <3>1, ElementsFollow
  <2>10. CASE Separator(tok)
    BY <2>5, <2>10, SeparatorFollows DEF Separator
  <2> QED
    BY <1>3, <2>6, <2>7, <2>8, <2>9, <2>10
<1> QED
  BY <1>1, <1>2, <1>3

(* Once a tree has been saved, the steps reload it. *)
Reloading == original # Null => left = 0 /\ Reloads(pc, frames, result, file, original)

LEMMA TokenReloads ==
  ASSUME IInv, Reloading, UNCHANGED original,
         NEW tok \in Tokens \cup {EOF}, next_token(tok),
         \/ RootName(tok) \/ RootBrace(tok) \/ Item(tok) \/ AfterName(tok)
         \/ AttrValue(tok) \/ Element(tok) \/ Separator(tok)
  PROVE  Reloading'
<1> SUFFICES ASSUME original # Null
             PROVE  left' = 0 /\ Reloads(pc', frames', result', file', original)
  BY DEF Reloading
<1>1. Sound(pc, frames, heap, result) /\ original \in Tree
  BY DEF IInv
<1>2. left = 0 /\ Reloads(pc, frames, result, file, original)
  BY DEF Reloading
<1>3. CASE Following(pc, frames, file, original)
  BY <1>1, <1>2, <1>3, FollowingSteps
<1>4. CASE Away(pc, frames, result, original) /\ ~AllPrintable[original]
  <2>1. Away(pc', frames', result', original)
    BY <1>1, <1>4, AwayStays
  <2>2. left' = 0
    BY <1>2 DEF next_token
  <2> QED
    BY <1>4, <2>1, <2>2 DEF Reloads
<1>5. CASE pc = "loaded"
  BY <1>5 DEF RootName, RootBrace, Item, AfterName, AttrValue, Element, Separator
<1> QED
  BY <1>2, <1>3, <1>4, <1>5 DEF Reloads

LEMMA SaveReloads ==
  ASSUME IInv, SaveAndReload
  PROVE  Reloading'
<1>1. /\ left' = 0 /\ pc' = "root" /\ original' = result /\ file' = ts_text_save[result]
  BY DEF SaveAndReload
<1>2. Following(pc', frames', file', original')
  BY <1>1 DEF Following
<1> QED
  BY <1>1, <1>2 DEF Reloading, Reloads

LEMMA StepReloads == IInv /\ Reloading /\ [Next]_vars => Reloading'
<1> SUFFICES ASSUME IInv, Reloading, [Next]_vars PROVE Reloading'
  OBVIOUS
<1>1. CASE \E tok \in Tokens \cup {EOF} :
             /\ next_token(tok) /\ UNCHANGED original
             /\ \/ RootName(tok) \/ RootBrace(tok) \/ Item(tok) \/ AfterName(tok)
                \/ AttrValue(tok) \/ Element(tok) \/ Separator(tok)
  BY <1>1, TokenReloads
<1>2. CASE SaveAndReload
  BY <1>2, SaveReloads
<1>3. CASE UNCHANGED vars
  BY <1>3 DEF Reloading, vars
<1> QED
  BY <1>1, <1>2, <1>3 DEF Next

LEMMA ReloadingIsRoundTrip ==
  IInv /\ Reloading => RoundTrip
<1> SUFFICES ASSUME IInv, Reloading, original # Null, pc \in {"loaded", "failed"}
             PROVE  result = original <=> AllPrintable[original]
  BY DEF RoundTrip
<1>1. Reloads(pc, frames, result, file, original)
  BY DEF Reloading
<1>2. ~Following(pc, frames, file, original)
  BY DEF Following
<1>3. Away(pc, frames, result, original) => result # original
  BY DEF Away
<1> QED
  BY <1>1, <1>2, <1>3 DEF Reloads

(* ts_text_load of what ts_text_save wrote returns the tree that was saved  *)
(* if every value of it survives being printed, and otherwise fails or      *)
(* returns another tree.                                                    *)
THEOREM SavedTreesReload == Spec => []RoundTrip
<1>1. Init => Reloading
  BY DEF Init, Reloading
<1>2. IInv /\ IInv' /\ Reloading /\ [Next]_vars => Reloading'
  BY StepReloads
<1>3. IInv /\ Reloading => RoundTrip
  BY ReloadingIsRoundTrip
<1> QED
  BY <1>1, <1>2, <1>3, TextIsSound, PTL DEF Spec
=============================================================================
