---------------------------- MODULE TsTreeProofs ----------------------------
(***************************************************************************)
(* The trees of treestor.c stay trees, for any number of blocks.           *)
(*                                                                         *)
(* TreeInv says what PointersAgree leaves to the walks: that the pointers  *)
(* of a node's children and attributes form lists, which end, and that the *)
(* line of its ancestors ends too.  Each step is described by the lists    *)
(* before and after it; ListsFound turns that into the invariant and into  *)
(* what Children, Attributes and Line are in the new state.                *)
(***************************************************************************)
EXTENDS TsTree, FiniteSetTheorems, SequenceTheorems, WellFoundedInduction, TLAPS

-----------------------------------------------------------------------------
(* Induction on the natural numbers, from the well-foundedness of strict    *)
(* inclusion: the intervals 0..k are ordered by it.                         *)
LEMMA Least ==
  ASSUME NEW T \in SUBSET Nat, T # {}
  PROVE  \E m \in T : \A k \in T : m <= k
<1>1. PICK t \in T : TRUE
  OBVIOUS
<1>2. IsFiniteSet(0..t)
  BY FS_Interval
<1> DEFINE Below == {0..k : k \in {j \in T : j <= t}}
<1>3. Below \subseteq SUBSET (0..t) /\ Below # {}
  <2>1. 0..t \in Below
    OBVIOUS
  <2>2. ASSUME NEW B \in Below PROVE B \in SUBSET (0..t)
    OBVIOUS
  <2> QED
    BY <2>1, <2>2
<1>4. PICK B \in Below : \A C \in Below : ~(<<C, B>> \in StrictSubsetOrdering(0..t))
  <2> HIDE DEF Below
  <2>1. IsWellFoundedOn(StrictSubsetOrdering(0..t), SUBSET (0..t))
    BY <1>2, FS_StrictSubsetOrderingWellFounded, FS_FiniteSubsetsOfFinite
  <2> QED
    BY <1>3, <2>1, WFMin
<1>5. PICK m \in T : m <= t /\ B = 0..m
  OBVIOUS
<1>6. ASSUME NEW k \in T PROVE m <= k
  <2>1. CASE k > t
    BY <2>1, <1>5
  <2>2. CASE k <= t
    <3>1. 0..k \in Below
      BY <2>2
    <3>2. ~(0..k \subseteq 0..m) \/ 0..k = 0..m
      BY <3>1, <1>3, <1>4, <1>5 DEF StrictSubsetOrdering
    <3>3. k \in 0..k /\ m \in 0..m
      OBVIOUS
    <3> QED
      BY <3>2, <3>3
  <2> QED
    BY <2>1, <2>2
<1> QED
  BY <1>6

LEMMA Induct ==
  ASSUME NEW S, 0 \in S, \A n \in Nat : n \in S => n + 1 \in S
  PROVE  Nat \subseteq S
<1> DEFINE T == Nat \ S
<1>1. CASE T = {}
  BY <1>1
<1>2. CASE T # {}
  <2>1. PICK m \in T : \A k \in T : m <= k
    BY <1>2, Least
  <2>2. m - 1 \in Nat /\ m - 1 \notin T
    BY <2>1
  <2> QED
    BY <2>1, <2>2
<1> QED
  BY <1>1, <1>2

-----------------------------------------------------------------------------
(* A list in memory: s[1] is first, next leads from each element to the one *)
(* after it and from the last one to Null, and no block is on it twice.     *)
At(s, i) == IF i <= Len(s) THEN s[i] ELSE Null
Distinct(s) == \A i, j \in 1..Len(s) : s[i] = s[j] => i = j
IsList(s, first, next) ==
  first = At(s, 1) /\ (\A i \in 1..Len(s) : next[s[i]] = At(s, i + 1)) /\ Distinct(s)

(* The walk's function, and that it exists: its values for 0..n extend to   *)
(* n + 1.                                                                   *)
From(next, blocks) ==
  CHOOSE from : from = [most \in 0..Cardinality(blocks) |-> [ptr \in Pointers |->
    IF ptr \in blocks /\ most > 0 THEN <<ptr>> \o from[most - 1][next[ptr]] ELSE <<>>]]

LEMMA FromExists ==
  ASSUME NEW blocks, NEW next, Cardinality(blocks) \in Nat
  PROVE  \A most \in 0..Cardinality(blocks), ptr \in Pointers :
           From(next, blocks)[most][ptr] =
             IF ptr \in blocks /\ most > 0
               THEN <<ptr>> \o From(next, blocks)[most - 1][next[ptr]] ELSE <<>>
<1> DEFINE Row(f, most) ==
      [ptr \in Pointers |->
         IF ptr \in blocks /\ most > 0 THEN <<ptr>> \o f[most - 1][next[ptr]] ELSE <<>>]
    S == {n \in Nat : \E f : f = [most \in 0..n |-> Row(f, most)]}
<1>1. 0 \in S
  <2> DEFINE f == [most \in 0..0 |-> [ptr \in Pointers |-> <<>>]]
  <2>1. f = [most \in 0..0 |-> Row(f, most)]
    OBVIOUS
  <2> QED
    BY <2>1
<1>2. ASSUME NEW n \in Nat, n \in S PROVE n + 1 \in S
  <2>1. PICK f : f = [most \in 0..n |-> Row(f, most)]
    BY <1>2
  <2> DEFINE g == [most \in 0..(n + 1) |-> IF most <= n THEN f[most] ELSE Row(f, n + 1)]
  <2>2. ASSUME NEW most \in 0..(n + 1) PROVE g[most] = Row(g, most)
    <3>1. g[most] = Row(f, most)
      <4> HIDE DEF Row
      <4>1. CASE most <= n
        BY <2>1, <4>1
      <4>2. CASE most = n + 1
        BY <4>2
      <4> QED
        BY <4>1, <4>2
    <3>2. CASE most = 0
      BY <3>1, <3>2
    <3>3. CASE most > 0
      <4>1. most - 1 \in 0..n /\ g[most - 1] = f[most - 1]
        BY <3>3
      <4> HIDE DEF g
      <4> QED
        BY <3>1, <4>1
    <3> QED
      BY <3>2, <3>3
  <2>3. g = [most \in 0..(n + 1) |-> Row(g, most)]
    <3> HIDE DEF Row
    <3> QED
      BY <2>2
  <2> HIDE DEF g
  <2> QED
    BY <2>3
<1>3. Cardinality(blocks) \in S
  <2> HIDE DEF S
  <2> QED
    BY <1>1, <1>2, Induct
<1>4. From(next, blocks) = [most \in 0..Cardinality(blocks) |-> Row(From(next, blocks), most)]
  BY <1>3 DEF From
<1>5. \A most \in 0..Cardinality(blocks) : From(next, blocks)[most] = Row(From(next, blocks), most)
  <2> HIDE DEF Row
  <2> QED
    BY <1>4
<1> QED
  BY <1>5

(* Walk finds the list that is there: by induction on the length of what is *)
(* left of it.                                                              *)
LEMMA WalkIs ==
  ASSUME NEW blocks, IsFiniteSet(blocks), blocks \subseteq Pointers \ {Null},
         NEW first, NEW next, NEW s \in Seq(blocks), IsList(s, first, next)
  PROVE  Walk(first, next, blocks) = s
<1> DEFINE N == Cardinality(blocks)
    from == From(next, blocks)
    rest(k) == [j \in 1..k |-> s[Len(s) - k + j]]
    S == {k \in Nat : k <= Len(s) => \A most \in k..N : from[most][At(s, Len(s) - k + 1)] = rest(k)}
<1>1. N \in Nat
  BY FS_CardinalityType
<1>2. Len(s) \in Nat /\ Len(s) <= N /\ s \in [1..Len(s) -> blocks]
  <2>1. Len(s) \in Nat /\ s \in [1..Len(s) -> blocks]
    BY LenProperties
  <2>2. s \in Injection(1..Len(s), blocks)
    BY <2>1 DEF IsList, Distinct, Injection, IsInjective
  <2>3. Cardinality(1..Len(s)) = Len(s)
    BY <2>1, FS_Interval
  <2> QED
    BY <2>1, <2>2, <2>3, FS_Injection
<1>3. \A most \in 0..N, ptr \in Pointers :
        from[most][ptr] = IF ptr \in blocks /\ most > 0 THEN <<ptr>> \o from[most - 1][next[ptr]] ELSE <<>>
  BY <1>1, FromExists
<1> HIDE DEF from
<1>4. Null \in Pointers /\ Null \notin blocks
  BY DEF Pointers
<1>5. 0 \in S
  <2>1. At(s, Len(s) + 1) = Null
    BY <1>2 DEF At
  <2>2. \A most \in 0..N : from[most][Null] = <<>>
    BY <1>3, <1>4
  <2>3. rest(0) = <<>>
    BY <1>2
  <2> QED
    BY <1>2, <2>1, <2>2, <2>3
<1>6. ASSUME NEW k \in Nat, k \in S PROVE k + 1 \in S
  <2> SUFFICES ASSUME k + 1 <= Len(s), NEW most \in (k + 1)..N
               PROVE  from[most][At(s, Len(s) - (k + 1) + 1)] = rest(k + 1)
    BY <1>1, <1>2
  <2> DEFINE i == Len(s) - k
  <2>1. i \in 1..Len(s) /\ At(s, i) = s[i] /\ s[i] \in blocks /\ i = Len(s) - (k + 1) + 1
    BY <1>2 DEF At
  <2>2. from[most][s[i]] = <<s[i]>> \o from[most - 1][next[s[i]]]
    <3>1. most \in 0..N /\ most > 0 /\ s[i] \in Pointers
      BY <1>1, <2>1
    <3> HIDE DEF i, N
    <3> QED
      BY <1>3, <2>1, <3>1
  <2>3. next[s[i]] = At(s, Len(s) - k + 1)
    BY <2>1 DEF IsList
  <2>4. from[most - 1][next[s[i]]] = rest(k)
    BY <1>1, <1>2, <1>6, <2>3
  <2>5. rest(k) \in Seq(blocks) /\ Len(rest(k)) = k /\ \A j \in 1..k : rest(k)[j] = s[i + j]
    BY <1>2
  <2>6. rest(k + 1) \in Seq(blocks) /\ Len(rest(k + 1)) = k + 1
          /\ \A j \in 1..(k + 1) : rest(k + 1)[j] = s[i + j - 1]
    BY <1>2
  <2> HIDE DEF rest, i
  <2>7. <<s[i]>> \o rest(k) = rest(k + 1)
    <3> DEFINE t == <<s[i]>> \o rest(k)
    <3>1. t \in Seq(blocks) /\ Len(t) = k + 1
      BY <2>1, <2>5
    <3>2. ASSUME NEW j \in 1..(k + 1) PROVE t[j] = rest(k + 1)[j]
      <4>1. t[1] = s[i]
        BY <2>1, <2>5
      <4>2. j > 1 => t[j] = rest(k)[j - 1]
        BY <2>1, <2>5
      <4>3. i \in Int /\ rest(k + 1)[j] = s[i + j - 1]
        BY <2>1, <2>6
      <4>4. CASE j = 1
        BY <4>1, <4>3, <4>4
      <4>5. CASE j > 1
        <5>1. j - 1 \in 1..k /\ i + (j - 1) = i + j - 1
          BY <4>3, <4>5
        <5>2. rest(k)[j - 1] = s[i + (j - 1)]
          BY <2>5, <5>1
        <5> HIDE DEF t
        <5> QED
          BY <4>2, <4>3, <4>5, <5>1, <5>2
      <4> HIDE DEF t, N, S
      <4> QED
        BY <4>4, <4>5
    <3> HIDE DEF t
    <3>3. t = rest(k + 1)
      BY <3>1, <3>2, <2>6, SeqEqual
    <3> QED
      BY <3>3 DEF t
  <2> QED
    BY <2>1, <2>2, <2>4, <2>7
<1>7. Len(s) \in S
  <2> HIDE DEF S
  <2> QED
    BY <1>2, <1>5, <1>6, Induct
<1>8. from[N][At(s, 1)] = rest(Len(s))
  BY <1>1, <1>2, <1>7
<1>9. rest(Len(s)) = s
  BY <1>2
<1>10. Walk(first, next, blocks) = from[N][first]
  BY DEF Walk, from, From
<1> QED
  BY <1>8, <1>9, <1>10 DEF IsList

-----------------------------------------------------------------------------
(* What appending and removing do to a list. *)
LEMMA MembersOf ==
  ASSUME NEW B, NEW s \in Seq(B)
  PROVE  Len(s) \in Nat /\ Members(s) \subseteq B /\ Members(s) = {s[i] : i \in 1..Len(s)}
BY LenProperties DEF Members

LEMMA Appended ==
  ASSUME NEW B, NEW s \in Seq(B), NEW x \in B, x \notin Members(s),
         NEW first, NEW next, IsList(s, first, next), NEW first2, NEW next2,
         first2 = (IF s = <<>> THEN x ELSE first), next2[x] = Null,
         \A i \in 1..(Len(s) - 1) : next2[s[i]] = next[s[i]],
         s # <<>> => next2[s[Len(s)]] = x
  PROVE  /\ Append(s, x) \in Seq(B) /\ IsList(Append(s, x), first2, next2)
         /\ Members(Append(s, x)) = Members(s) \cup {x}
         /\ Append(s, x) # <<>> /\ Append(s, x)[Len(Append(s, x))] = x
<1> DEFINE t == Append(s, x)
<1>1. /\ Len(s) \in Nat /\ t \in Seq(B) /\ Len(t) = Len(s) + 1 /\ t[Len(s) + 1] = x
      /\ \A i \in 1..Len(s) : t[i] = s[i]
  BY LenProperties, AppendProperties
<1>2. s = <<>> <=> Len(s) = 0
  BY EmptySeq
<1> HIDE DEF t
<1>3. Members(t) = Members(s) \cup {x}
  <2>1. Members(s) = {s[i] : i \in 1..Len(s)} /\ Members(t) = {t[i] : i \in 1..Len(t)}
    BY <1>1, MembersOf
  <2>2. ASSUME NEW y \in Members(t) PROVE y \in Members(s) \cup {x}
    BY <1>1, <2>1
  <2>3. ASSUME NEW y \in Members(s) \cup {x} PROVE y \in Members(t)
    <3>1. CASE y = x
      BY <1>1, <2>1, <3>1
    <3>2. CASE y \in Members(s)
      <4>1. PICK i \in 1..Len(s) : y = s[i]
        BY <2>1, <3>2
      <4>2. i \in 1..Len(t) /\ t[i] = y
        BY <1>1, <4>1
      <4> QED
        BY <2>1, <4>2
    <3> QED
      BY <3>1, <3>2
  <2> QED
    BY <2>2, <2>3
<1>4. first2 = At(t, 1)
  BY <1>1, <1>2 DEF IsList, At
<1>5. ASSUME NEW i \in 1..Len(t) PROVE next2[t[i]] = At(t, i + 1)
  <2>1. CASE i = Len(t)
    BY <1>1, <2>1 DEF At
  <2>2. CASE i = Len(s)
    BY <1>1, <1>2, <2>2 DEF At
  <2>3. CASE i < Len(s)
    <3>1. i \in 1..(Len(s) - 1) /\ i + 1 \in 1..Len(s)
      BY <1>1, <2>3
    <3>2. next2[t[i]] = At(s, i + 1)
      BY <1>1, <3>1 DEF IsList
    <3> QED
      BY <1>1, <3>1, <3>2 DEF At
  <2> QED
    BY <1>1, <2>1, <2>2, <2>3
<1>6. Distinct(t)
  <2> SUFFICES ASSUME NEW i \in 1..Len(t), NEW j \in 1..Len(t), t[i] = t[j] PROVE i = j
    BY DEF Distinct
  <2>1. \A k \in 1..Len(s) : s[k] # x
    BY MembersOf
  <2>2. CASE i \in 1..Len(s) /\ j \in 1..Len(s)
    BY <1>1, <2>2 DEF IsList, Distinct
  <2>3. CASE i = Len(s) + 1 \/ j = Len(s) + 1
    BY <1>1, <2>1, <2>3
  <2> QED
    BY <1>1, <2>2, <2>3
<1> QED
  BY <1>1, <1>3, <1>4, <1>5, <1>6, EmptySeq DEF t, IsList

LEMMA RemovedAt ==
  ASSUME NEW B, NEW s \in Seq(B), NEW i \in 1..Len(s)
  PROVE  /\ RemoveAt(s, i) \in Seq(B) /\ Len(RemoveAt(s, i)) = Len(s) - 1
         /\ \A j \in 1..(Len(s) - 1) : RemoveAt(s, i)[j] = IF j < i THEN s[j] ELSE s[j + 1]
<1> DEFINE u == SubSeq(s, 1, i - 1)
           v == SubSeq(s, i + 1, Len(s))
<1>1. Len(s) \in Nat
  BY LenProperties
<1>2. u \in Seq(B) /\ Len(u) = i - 1 /\ \A j \in 1..(i - 1) : u[j] = s[j]
  BY <1>1
<1>3. v \in Seq(B) /\ Len(v) = Len(s) - i /\ \A j \in 1..(Len(s) - i) : v[j] = s[i + j]
  BY <1>1
<1> HIDE DEF u, v
<1>4. /\ u \o v \in Seq(B) /\ Len(u \o v) = Len(s) - 1
      /\ \A j \in 1..(Len(s) - 1) : (u \o v)[j] = IF j <= Len(u) THEN u[j] ELSE v[j - Len(u)]
  <2>1. u \o v \in Seq(B) /\ Len(u \o v) = Len(u) + Len(v)
    BY <1>2, <1>3, ConcatProperties
  <2>2. \A j \in 1..(Len(u) + Len(v)) : (u \o v)[j] = IF j <= Len(u) THEN u[j] ELSE v[j - Len(u)]
    BY <1>2, <1>3
  <2> QED
    BY <1>1, <1>2, <1>3, <2>1, <2>2
<1>5. ASSUME NEW j \in 1..(Len(s) - 1) PROVE (u \o v)[j] = IF j < i THEN s[j] ELSE s[j + 1]
  <2>1. CASE j < i
    BY <1>1, <1>2, <1>4, <2>1
  <2>2. CASE j >= i
    <3>1. j - Len(u) \in 1..(Len(s) - i) /\ i + (j - Len(u)) = j + 1
      BY <1>1, <1>2, <2>2
    <3>2. (u \o v)[j] = v[j - Len(u)]
      BY <1>1, <1>2, <1>4, <2>2
    <3>3. v[j - Len(u)] = s[i + (j - Len(u))]
      BY <1>3, <3>1
    <3>4. ~(j < i)
      BY <1>1, <2>2
    <3> QED
      BY <3>1, <3>2, <3>3, <3>4
  <2>3. j < i \/ j >= i
    BY <1>1
  <2> QED
    BY <2>1, <2>2, <2>3
<1> QED
  BY <1>4, <1>5 DEF RemoveAt, u, v

LEMMA Removed ==
  ASSUME NEW B, NEW s \in Seq(B), NEW i \in 1..Len(s),
         NEW first, NEW next, IsList(s, first, next), NEW first2, NEW next2,
         first2 = (IF i = 1 THEN next[s[i]] ELSE first),
         \A j \in 1..Len(s) \ {i, i - 1} : next2[s[j]] = next[s[j]],
         i > 1 => next2[s[i - 1]] = next[s[i]]
  PROVE  /\ RemoveAt(s, i) \in Seq(B) /\ IsList(RemoveAt(s, i), first2, next2)
         /\ Members(RemoveAt(s, i)) = Members(s) \ {s[i]}
<1> DEFINE t == RemoveAt(s, i)
<1>1. /\ Len(s) \in Nat /\ t \in Seq(B) /\ Len(t) = Len(s) - 1
      /\ \A j \in 1..(Len(s) - 1) : t[j] = IF j < i THEN s[j] ELSE s[j + 1]
  BY LenProperties, RemovedAt
<1> HIDE DEF t
<1>2. ASSUME NEW k \in Nat \ {0} PROVE At(t, k) = IF k < i THEN At(s, k) ELSE At(s, k + 1)
  <2>1. CASE k \in 1..(Len(s) - 1)
    BY <1>1, <2>1 DEF At
  <2>2. CASE k > Len(s) - 1
    BY <1>1, <2>2 DEF At
  <2> QED
    BY <1>1, <2>1, <2>2
<1>3. first2 = At(t, 1)
  BY <1>1, <1>2 DEF IsList
<1>4. ASSUME NEW j \in 1..Len(t) PROVE next2[t[j]] = At(t, j + 1)
  <2>1. CASE j < i - 1
    <3>1. j \in 1..Len(s) \ {i, i - 1} /\ t[j] = s[j]
      BY <1>1, <2>1
    <3>2. next[s[j]] = At(s, j + 1) /\ next2[t[j]] = next[s[j]]
      BY <3>1 DEF IsList
    <3>3. At(t, j + 1) = At(s, j + 1)
      BY <1>1, <1>2, <2>1
    <3> QED
      BY <3>2, <3>3
  <2>2. CASE j = i - 1
    <3>1. i > 1 /\ t[j] = s[i - 1] /\ j + 1 = i
      BY <1>1, <2>2
    <3>2. next[s[i]] = At(s, i + 1)
      BY DEF IsList
    <3>3. At(t, i) = At(s, i + 1)
      BY <1>1, <1>2
    <3> QED
      BY <3>1, <3>2, <3>3
  <2>3. CASE j >= i
    <3>1. j + 1 \in 1..Len(s) \ {i, i - 1} /\ t[j] = s[j + 1]
      BY <1>1, <2>3
    <3>2. next[s[j + 1]] = At(s, j + 2)
      BY <1>1, <3>1 DEF IsList
    <3>3. At(t, j + 1) = At(s, j + 2)
      BY <1>1, <1>2, <2>3
    <3> QED
      BY <3>1, <3>2, <3>3
  <2> QED
    BY <1>1, <2>1, <2>2, <2>3
<1>5. ASSUME NEW j \in 1..Len(t)
      PROVE  \E k \in 1..Len(s) \ {i} : t[j] = s[k] /\ k = IF j < i THEN j ELSE j + 1
  <2>1. CASE j < i
    <3>1. j \in 1..Len(s) \ {i} /\ t[j] = s[j]
      BY <1>1, <2>1
    <3> QED
      BY <2>1, <3>1
  <2>2. CASE j >= i
    <3>1. j + 1 \in 1..Len(s) \ {i} /\ t[j] = s[j + 1] /\ ~(j < i)
      BY <1>1, <2>2
    <3> QED
      BY <3>1
  <2>3. j < i \/ j >= i
    BY <1>1
  <2> QED
    BY <2>1, <2>2, <2>3
<1>6. Distinct(t)
  <2> SUFFICES ASSUME NEW j \in 1..Len(t), NEW l \in 1..Len(t), t[j] = t[l] PROVE j = l
    BY DEF Distinct
  <2>1. PICK m \in 1..Len(s) \ {i} : t[j] = s[m] /\ m = IF j < i THEN j ELSE j + 1
    BY <1>5
  <2>2. PICK n \in 1..Len(s) \ {i} : t[l] = s[n] /\ n = IF l < i THEN l ELSE l + 1
    BY <1>5
  <2>3. m = n
    <3>1. Distinct(s) /\ s[m] = s[n] /\ m \in 1..Len(s) /\ n \in 1..Len(s)
      BY <2>1, <2>2 DEF IsList
    <3> QED
      BY <3>1 DEF Distinct
  <2> QED
    BY <2>1, <2>2, <2>3
<1>7. Members(t) = Members(s) \ {s[i]}
  <2>1. Members(s) = {s[j] : j \in 1..Len(s)} /\ Members(t) = {t[j] : j \in 1..Len(t)}
    BY <1>1, MembersOf
  <2>2. ASSUME NEW y \in Members(t) PROVE y \in Members(s) \ {s[i]}
    <3>1. PICK j \in 1..Len(t) : y = t[j]
      BY <2>1
    <3>2. PICK k \in 1..Len(s) \ {i} : y = s[k]
      BY <1>5, <3>1
    <3>3. s[k] # s[i]
      BY <3>2 DEF IsList, Distinct
    <3> QED
      BY <2>1, <3>2, <3>3
  <2>3. ASSUME NEW y \in Members(s) \ {s[i]} PROVE y \in Members(t)
    <3>1. PICK k \in 1..Len(s) : y = s[k] /\ k # i
      BY <2>1
    <3>2. CASE k < i
      <4>1. k \in 1..Len(t) /\ t[k] = y
        BY <1>1, <3>1, <3>2
      <4> QED
        BY <2>1, <4>1
    <3>3. CASE k > i
      <4>1. k - 1 \in 1..Len(t) /\ t[k - 1] = y
        BY <1>1, <3>1, <3>3
      <4> QED
        BY <2>1, <4>1
    <3> QED
      BY <1>1, <3>1, <3>2, <3>3
  <2> QED
    BY <2>2, <2>3
<1> QED
  BY <1>1, <1>3, <1>4, <1>6, <1>7 DEF t, IsList

LEMMA Untouched ==
  ASSUME NEW B, NEW s \in Seq(B), NEW first, NEW next, IsList(s, first, next), NEW next2,
         \A x \in Members(s) : next2[x] = next[x]
  PROVE  IsList(s, first, next2)
BY MembersOf DEF IsList

(* A list cut after its i-th element, and one that continues with another.  *)
LEMMA Cut ==
  ASSUME NEW B, NEW s \in Seq(B), NEW i \in 1..Len(s), NEW first, NEW next, IsList(s, first, next),
         NEW next2, next2[s[i]] = Null, \A j \in 1..(i - 1) : next2[s[j]] = next[s[j]]
  PROVE  /\ SubSeq(s, 1, i) \in Seq(B) /\ IsList(SubSeq(s, 1, i), first, next2)
         /\ Len(SubSeq(s, 1, i)) = i /\ \A j \in 1..i : SubSeq(s, 1, i)[j] = s[j]
<1> DEFINE t == SubSeq(s, 1, i)
<1>1. Len(s) \in Nat
  BY LenProperties
<1>2. t \in Seq(B) /\ Len(t) = i /\ \A j \in 1..i : t[j] = s[j]
  BY <1>1
<1> HIDE DEF t
<1>3. first = At(t, 1)
  BY <1>1, <1>2 DEF IsList, At
<1>4. ASSUME NEW j \in 1..Len(t) PROVE next2[t[j]] = At(t, j + 1)
  <2>1. CASE j = i
    BY <1>2, <2>1 DEF At
  <2>2. CASE j < i
    <3>1. j \in 1..Len(s) /\ j \in 1..(i - 1) /\ j + 1 \in 1..i
      BY <1>1, <1>2, <2>2
    <3>2. next[s[j]] = At(s, j + 1)
      BY <3>1 DEF IsList
    <3> QED
      BY <1>1, <1>2, <3>1, <3>2 DEF At
  <2> QED
    BY <1>2, <2>1, <2>2
<1>5. Distinct(t)
  BY <1>1, <1>2 DEF IsList, Distinct
<1> QED
  BY <1>2, <1>3, <1>4, <1>5 DEF IsList, t

LEMMA Joined ==
  ASSUME NEW B, NEW s \in Seq(B), s # <<>>, NEW first, NEW next, IsList(s, first, next),
         NEW t \in Seq(B), NEW middle, IsList(t, middle, next),
         Members(s) \cap Members(t) = {}, NEW next2, next2[s[Len(s)]] = middle,
         \A x \in (Members(s) \cup Members(t)) \ {s[Len(s)]} : next2[x] = next[x]
  PROVE  /\ s \o t \in Seq(B) /\ IsList(s \o t, first, next2)
         /\ Members(s \o t) = Members(s) \cup Members(t)
<1> DEFINE u == s \o t
<1>1. Len(s) \in Nat /\ Len(t) \in Nat /\ Len(s) # 0
  BY LenProperties, EmptySeq
<1>2. /\ u \in Seq(B) /\ Len(u) = Len(s) + Len(t)
      /\ \A j \in 1..(Len(s) + Len(t)) : u[j] = IF j <= Len(s) THEN s[j] ELSE t[j - Len(s)]
  BY ConcatProperties
<1> HIDE DEF u
<1>3. Members(s) = {s[j] : j \in 1..Len(s)} /\ Members(t) = {t[j] : j \in 1..Len(t)}
        /\ Members(u) = {u[j] : j \in 1..Len(u)}
  <2>1. Members(s) = {s[j] : j \in 1..Len(s)}
    BY MembersOf
  <2>2. Members(t) = {t[j] : j \in 1..Len(t)}
    BY MembersOf
  <2>3. Members(u) = {u[j] : j \in 1..Len(u)}
    BY <1>2, MembersOf
  <2> QED
    BY <2>1, <2>2, <2>3
<1>4. \A j \in 1..Len(s) : j \in 1..Len(u) /\ u[j] = s[j]
  BY <1>1, <1>2
<1>5. ASSUME NEW j \in 1..Len(t) PROVE Len(s) + j \in 1..Len(u) /\ u[Len(s) + j] = t[j]
  <2>1. Len(s) + j \in 1..(Len(s) + Len(t)) /\ ~(Len(s) + j <= Len(s)) /\ (Len(s) + j) - Len(s) = j
    BY <1>1
  <2> QED
    BY <1>2, <2>1
<1>6. \A j \in 1..Len(u) : j \in 1..Len(s) \/ j - Len(s) \in 1..Len(t)
  BY <1>1, <1>2
<1>7. \A j \in Nat \ {0} : At(u, j) = IF j <= Len(s) THEN s[j] ELSE At(t, j - Len(s))
  BY <1>1, <1>2 DEF At
<1>8. first = At(u, 1)
  BY <1>1, <1>7 DEF IsList, At
<1>9. ASSUME NEW j \in 1..Len(u) PROVE next2[u[j]] = At(u, j + 1)
  <2>1. CASE j < Len(s)
    <3>1. j \in 1..Len(s) /\ Len(s) \in 1..Len(s) /\ j # Len(s) /\ j + 1 <= Len(s)
      BY <1>1, <2>1
    <3>2. s[j] \in Members(s) /\ s[j] # s[Len(s)]
      BY <1>3, <3>1 DEF IsList, Distinct
    <3>3. next2[s[j]] = s[j + 1]
      BY <3>1, <3>2 DEF IsList, At
    <3> QED
      BY <1>4, <1>7, <3>1, <3>3
  <2>2. CASE j = Len(s)
    <3>1. u[j] = s[Len(s)] /\ At(u, j + 1) = At(t, 1)
      BY <1>1, <1>4, <1>7, <2>2
    <3> QED
      BY <3>1 DEF IsList
  <2>3. CASE j > Len(s)
    <3>1. j - Len(s) \in 1..Len(t) /\ u[j] = t[j - Len(s)] /\ Len(s) \in 1..Len(s)
      BY <1>1, <1>2, <2>3
    <3>2. t[j - Len(s)] \in Members(t) /\ s[Len(s)] \in Members(s)
      BY <1>3, <3>1
    <3>3. next2[u[j]] = At(t, (j - Len(s)) + 1)
      BY <3>1, <3>2 DEF IsList
    <3>4. At(u, j + 1) = At(t, (j - Len(s)) + 1)
      BY <1>1, <1>7, <2>3
    <3> QED
      BY <3>3, <3>4
  <2> QED
    BY <1>1, <1>2, <2>1, <2>2, <2>3
<1>10. Members(u) = Members(s) \cup Members(t)
  <2>1. ASSUME NEW x \in Members(u) PROVE x \in Members(s) \cup Members(t)
    <3>1. PICK j \in 1..Len(u) : x = u[j]
      BY <1>3
    <3>2. CASE j \in 1..Len(s)
      BY <1>3, <1>4, <3>1, <3>2
    <3>3. CASE j - Len(s) \in 1..Len(t)
      <4>1. u[Len(s) + (j - Len(s))] = t[j - Len(s)] /\ Len(s) + (j - Len(s)) = j
        BY <1>1, <1>5, <3>3
      <4> QED
        BY <1>3, <3>1, <3>3, <4>1
    <3> QED
      BY <1>6, <3>2, <3>3
  <2>2. Members(s) \subseteq Members(u) /\ Members(t) \subseteq Members(u)
    <3>1. ASSUME NEW x \in Members(s) PROVE x \in Members(u)
      BY <1>3, <1>4
    <3>2. ASSUME NEW x \in Members(t) PROVE x \in Members(u)
      <4>1. PICK j \in 1..Len(t) : x = t[j]
        BY <1>3
      <4> QED
        BY <1>3, <1>5, <4>1
    <3> QED
      BY <3>1, <3>2
  <2> QED
    BY <2>1, <2>2
<1>11. Distinct(u)
  <2> SUFFICES ASSUME NEW j \in 1..Len(u), NEW k \in 1..Len(u), u[j] = u[k] PROVE j = k
    BY DEF Distinct
  <2>1. CASE j <= Len(s) /\ k <= Len(s)
    <3>1. j \in 1..Len(s) /\ k \in 1..Len(s) /\ s[j] = s[k]
      BY <1>1, <1>2, <2>1
    <3> QED
      BY <3>1 DEF IsList, Distinct
  <2>2. CASE j > Len(s) /\ k > Len(s)
    <3>1. j - Len(s) \in 1..Len(t) /\ k - Len(s) \in 1..Len(t) /\ t[j - Len(s)] = t[k - Len(s)]
      BY <1>1, <1>2, <2>2
    <3>2. j - Len(s) = k - Len(s)
      BY <3>1 DEF IsList, Distinct
    <3> QED
      BY <1>1, <3>2
  <2>3. ASSUME NEW l \in 1..Len(u), NEW m \in 1..Len(u), l <= Len(s), m > Len(s) PROVE u[l] # u[m]
    <3>1. l \in 1..Len(s) /\ m - Len(s) \in 1..Len(t) /\ u[l] = s[l] /\ u[m] = t[m - Len(s)]
      BY <1>1, <1>2, <2>3
    <3> QED
      BY <1>3, <3>1
  <2>4. (j <= Len(s) \/ j > Len(s)) /\ (k <= Len(s) \/ k > Len(s))
    BY <1>1, <1>2
  <2> QED
    BY <2>1, <2>2, <2>3, <2>4
<1> QED
  BY <1>2, <1>8, <1>9, <1>10, <1>11 DEF IsList, u

(* Two lists along the same pointers that share an element go on alike.     *)
LEMMA Shared ==
  ASSUME NEW B, Null \notin B, NEW s \in Seq(B), NEW t \in Seq(B), NEW next,
         NEW first, IsList(s, first, next), NEW first2, IsList(t, first2, next)
  PROVE  \A i \in 1..Len(s), j \in 1..Len(t), k \in Nat :
           s[i] = t[j] => At(s, i + k) = At(t, j + k)
<1> SUFFICES ASSUME NEW i \in 1..Len(s), NEW j \in 1..Len(t), s[i] = t[j]
             PROVE  \A k \in Nat : At(s, i + k) = At(t, j + k)
  OBVIOUS
<1> DEFINE S == {k \in Nat : At(s, i + k) = At(t, j + k)}
<1>1. Len(s) \in Nat /\ Len(t) \in Nat
  BY LenProperties
<1>2. 0 \in S
  BY <1>1 DEF At
<1>3. ASSUME NEW k \in Nat, k \in S PROVE k + 1 \in S
  <2>1. CASE i + k <= Len(s)
    <3>1. i + k \in 1..Len(s) /\ At(s, i + k) = s[i + k] /\ s[i + k] \in B
      BY <1>1, <2>1 DEF At
    <3>2. j + k \in 1..Len(t) /\ t[j + k] = s[i + k]
      BY <1>1, <1>3, <3>1 DEF At
    <3>3. next[s[i + k]] = At(s, i + k + 1) /\ next[t[j + k]] = At(t, j + k + 1)
      BY <1>1, <3>1, <3>2 DEF IsList
    <3>4. i + k + 1 = i + (k + 1) /\ j + k + 1 = j + (k + 1)
      BY <1>1
    <3> QED
      BY <3>2, <3>3, <3>4
  <2>2. CASE i + k > Len(s)
    <3>1. At(s, i + k) = Null
      BY <1>1, <2>2 DEF At
    <3>2. j + k > Len(t)
      <4>1. CASE j + k <= Len(t)
        <5>1. At(t, j + k) \in B
          BY <1>1, <4>1 DEF At
        <5> QED
          BY <1>3, <3>1, <5>1
      <4> QED
        BY <1>1, <4>1
    <3> QED
      BY <1>1, <2>2, <3>2 DEF At
  <2> QED
    BY <1>1, <2>1, <2>2
<1>4. Nat \subseteq S
  <2> HIDE DEF S
  <2> QED
    BY <1>2, <1>3, Induct
<1> QED
  BY <1>4

LEMMA ApartAtTheEnd ==
  ASSUME NEW B, Null \notin B, NEW s \in Seq(B), NEW t \in Seq(B), NEW next,
         NEW first, IsList(s, first, next), NEW first2, IsList(t, first2, next),
         s # <<>>, s[Len(s)] \notin Members(t)
  PROVE  Members(s) \cap Members(t) = {}
<1>1. \A i \in 1..Len(s), j \in 1..Len(t), k \in Nat :
        s[i] = t[j] => At(s, i + k) = At(t, j + k)
  BY Shared
<1>2. /\ Members(s) = {s[i] : i \in 1..Len(s)} /\ Len(s) \in Nat /\ Len(s) # 0
      /\ Members(t) = {t[j] : j \in 1..Len(t)} /\ Len(t) \in Nat /\ Members(s) \subseteq B
  BY MembersOf, EmptySeq
<1>3. ASSUME NEW i \in 1..Len(s), NEW j \in 1..Len(t), s[i] = t[j] PROVE FALSE
  <2>1. Len(s) - i \in Nat /\ i + (Len(s) - i) = Len(s)
    BY <1>2
  <2>2. At(s, Len(s)) = At(t, j + (Len(s) - i))
    BY <1>1, <1>3, <2>1
  <2>3. At(s, Len(s)) = s[Len(s)] /\ s[Len(s)] \in B
    BY <1>2, ElementOfSeq DEF At
  <2>4. j + (Len(s) - i) \in 1..Len(t) \/ At(t, j + (Len(s) - i)) = Null
    BY <1>2 DEF At
  <2> QED
    BY <1>2, <2>2, <2>3, <2>4 DEF At
<1> QED
  BY <1>2, <1>3

-----------------------------------------------------------------------------
(* The trees in memory mem, of the set A of nodes allocated: kids[n] is the *)
(* list of children of n, own[n] that of its attributes, and up[n] the line *)
(* of n and its ancestors, which reaches a root: no node is its own         *)
(* ancestor.                                                                *)
NodeRec ==
  [parent : NodePtr, next : NodePtr, child_list : NodePtr, child_tail : NodePtr \cup {Dummy},
   attr_list : AttrPtr, attr_tail : AttrPtr]
NextIn(mem) == [m \in Nodes |-> mem[m].next]

Tree(A, mem, kids) ==
  \A n \in A :
    /\ kids[n] \in Seq(Nodes) /\ IsList(kids[n], mem[n].child_list, NextIn(mem))
    /\ kids[n] # <<>> => mem[n].child_tail = kids[n][Len(kids[n])]
    /\ mem[n].parent \in A \cup {Null}
    /\ \A c \in Nodes : c \in Members(kids[n]) <=> c \in A /\ mem[c].parent = n

AttrLists(A, mem, next, free, own) ==
  \A n \in A :
    /\ own[n] \in Seq(Attrs) /\ IsList(own[n], mem[n].attr_list, next)
    /\ own[n] # <<>> => mem[n].attr_tail = own[n][Len(own[n])]
    /\ Members(own[n]) \cap free = {}
    /\ \A m \in A \ {n} : Members(own[m]) \cap Members(own[n]) = {}

ParentIn(mem) == [m \in Nodes |-> mem[m].parent]
Lines(A, mem, up) == \A n \in A : up[n] \in Seq(A) /\ IsList(up[n], n, ParentIn(mem))

Kids == [n \in alive |-> Children(n)]
Own == [n \in alive |-> Attributes(n)]
Ancestry == [n \in alive |-> Line(n)]

TreeInv ==
  /\ TypeOK
  /\ Tree(alive, node, Kids)
  /\ AttrLists(alive, node, attr, loose, Own)
  /\ Lines(alive, node, Ancestry)

LEMMA Blocks ==
  /\ IsFiniteSet(Nodes) /\ IsFiniteSet(Attrs)
  /\ Nodes \subseteq Pointers \ {Null} /\ Attrs \subseteq Pointers \ {Null}
  /\ Null \notin Nodes /\ Null \notin Attrs /\ Dummy \notin Nodes
BY BlocksAssumption DEF Pointers

(* Whoever knows the lists of a new state knows what the walks find in it.  *)
LEMMA ListsFound ==
  ASSUME NEW kids, NEW own, NEW up, TypeOK', Tree(alive', node', kids),
         AttrLists(alive', node', attr', loose', own), Lines(alive', node', up)
  PROVE  /\ \A n \in alive' : /\ Children(n)' = kids[n] /\ Attributes(n)' = own[n]
                               /\ Line(n)' = up[n]
         /\ TreeInv'
<1>1. ASSUME NEW n \in alive'
      PROVE  Children(n)' = kids[n] /\ Attributes(n)' = own[n] /\ Line(n)' = up[n]
  <2>1. kids[n] \in Seq(Nodes) /\ IsList(kids[n], node'[n].child_list, NextIn(node'))
    BY DEF Tree
  <2>2. Walk(node'[n].child_list, NextIn(node'), Nodes) = kids[n]
    BY <2>1, Blocks, WalkIs
  <2>3. own[n] \in Seq(Attrs) /\ IsList(own[n], node'[n].attr_list, attr')
    BY DEF AttrLists
  <2>4. Walk(node'[n].attr_list, attr', Attrs) = own[n]
    BY <2>3, Blocks, WalkIs
  <2>5. up[n] \in Seq(Nodes) /\ IsList(up[n], n, ParentIn(node'))
    <3>1. alive' \subseteq Nodes
      BY DEF TypeOK
    <3> QED
      BY <3>1, SeqMonotonic DEF Lines
  <2>6. Walk(n, ParentIn(node'), Nodes) = up[n]
    BY <2>5, Blocks, WalkIs
  <2> QED
    BY <2>2, <2>4, <2>6 DEF Children, Attributes, Line, nextNode, NextIn, ParentIn
<1>2. \A n \in alive' : Kids'[n] = kids[n] /\ Own'[n] = own[n] /\ Ancestry'[n] = up[n]
  BY <1>1 DEF Kids, Own, Ancestry
<1>3. /\ Tree(alive', node', Kids') /\ AttrLists(alive', node', attr', loose', Own')
      /\ Lines(alive', node', Ancestry')
  <2>1. Tree(alive', node', Kids')
    BY <1>2 DEF Tree
  <2>2. AttrLists(alive', node', attr', loose', Own')
    <3>1. \A n \in alive' :
            /\ own[n] \in Seq(Attrs) /\ IsList(own[n], node'[n].attr_list, attr')
            /\ own[n] # <<>> => node'[n].attr_tail = own[n][Len(own[n])]
            /\ Members(own[n]) \cap loose' = {}
            /\ \A m \in alive' \ {n} : Members(own[m]) \cap Members(own[n]) = {}
      BY DEF AttrLists
    <3> QED
      BY <1>2, <3>1 DEF AttrLists
  <2>3. Lines(alive', node', Ancestry')
    BY <1>2 DEF Lines
  <2> QED
    BY <2>1, <2>2, <2>3
<1> QED
  BY <1>1, <1>3 DEF TreeInv

(* What the invariant says of the walks. *)
LEMMA ChildrenAre ==
  ASSUME TreeInv, NEW n \in alive
  PROVE  /\ n \in Nodes
         /\ Children(n) \in Seq(Nodes) /\ IsList(Children(n), node[n].child_list, NextIn(node))
         /\ Children(n) # <<>> => node[n].child_tail = Children(n)[Len(Children(n))]
         /\ node[n].parent \in alive \cup {Null}
         /\ \A c \in Nodes : c \in Members(Children(n)) <=> c \in alive /\ node[c].parent = n
BY DEF TreeInv, Tree, Kids, TypeOK

LEMMA AttributesAre ==
  ASSUME TreeInv, NEW n \in alive
  PROVE  /\ Attributes(n) \in Seq(Attrs) /\ IsList(Attributes(n), node[n].attr_list, attr)
         /\ Attributes(n) # <<>> => node[n].attr_tail = Attributes(n)[Len(Attributes(n))]
         /\ Members(Attributes(n)) \cap loose = {}
         /\ \A m \in alive \ {n} : Members(Attributes(m)) \cap Members(Attributes(n)) = {}
BY DEF TreeInv, AttrLists, Own, TypeOK

LEMMA LineIs ==
  ASSUME TreeInv, NEW n \in alive
  PROVE  /\ Line(n) \in Seq(alive) /\ IsList(Line(n), n, ParentIn(node))
         /\ Len(Line(n)) \in Nat \ {0} /\ Line(n)[1] = n
<1>1. Line(n) \in Seq(alive) /\ IsList(Line(n), n, ParentIn(node)) /\ alive \subseteq Nodes
  BY DEF TreeInv, Lines, Ancestry, TypeOK
<1>2. Len(Line(n)) \in Nat /\ n = At(Line(n), 1) /\ n # Null
  BY <1>1, LenProperties, Blocks DEF IsList
<1> QED
  BY <1>1, <1>2 DEF At

(* The invariant is what PointersAgree says and that the lists are lists. *)
LEMMA InvAgrees ==
  ASSUME TreeInv
  PROVE  PointersAgree
<1> SUFFICES ASSUME NEW n \in alive
             PROVE  /\ node[n].parent \in alive \cup {Null}
                    /\ \A c \in Nodes : c \in Members(Children(n)) <=> c \in alive /\ node[c].parent = n
                    /\ Children(n) # <<>> =>
                         /\ node[n].child_tail = Children(n)[Len(Children(n))]
                         /\ node[Children(n)[Len(Children(n))]].next = Null
                    /\ Attributes(n) # <<>> =>
                         /\ node[n].attr_tail = Attributes(n)[Len(Attributes(n))]
                         /\ attr[Attributes(n)[Len(Attributes(n))]] = Null
  BY DEF PointersAgree
<1>1. ASSUME Children(n) # <<>> PROVE node[Children(n)[Len(Children(n))]].next = Null
  <2> DEFINE s == Children(n)
  <2>1. s \in Seq(Nodes) /\ IsList(s, node[n].child_list, NextIn(node))
    BY ChildrenAre
  <2> HIDE DEF s
  <2>2. Len(s) \in Nat /\ Len(s) # 0
    BY <1>1, <2>1, EmptySeq, LenProperties DEF s
  <2>3. s[Len(s)] \in Nodes /\ NextIn(node)[s[Len(s)]] = At(s, Len(s) + 1)
    BY <2>1, <2>2, ElementOfSeq DEF IsList
  <2> QED
    BY <2>2, <2>3 DEF At, NextIn, s
<1>2. ASSUME Attributes(n) # <<>> PROVE attr[Attributes(n)[Len(Attributes(n))]] = Null
  <2> DEFINE s == Attributes(n)
  <2>1. s \in Seq(Attrs) /\ IsList(s, node[n].attr_list, attr)
    BY AttributesAre
  <2> HIDE DEF s
  <2>2. Len(s) \in Nat /\ Len(s) # 0
    BY <1>2, <2>1, EmptySeq, LenProperties DEF s
  <2>3. attr[s[Len(s)]] = At(s, Len(s) + 1)
    BY <2>1, <2>2 DEF IsList
  <2> QED
    BY <2>2, <2>3 DEF At, s
<1> QED
  BY <1>1, <1>2, ChildrenAre, AttributesAre

-----------------------------------------------------------------------------
LEMMA FieldSet ==
  ASSUME NEW mem \in [Nodes -> NodeRec], NEW n
  PROVE  /\ \A p \in NodePtr : /\ [mem EXCEPT ![n].parent = p] \in [Nodes -> NodeRec]
                               /\ [mem EXCEPT ![n].next = p] \in [Nodes -> NodeRec]
                               /\ [mem EXCEPT ![n].child_list = p] \in [Nodes -> NodeRec]
         /\ \A p \in NodePtr \cup {Dummy} : [mem EXCEPT ![n].child_tail = p] \in [Nodes -> NodeRec]
         /\ \A p \in AttrPtr : /\ [mem EXCEPT ![n].attr_list = p] \in [Nodes -> NodeRec]
                               /\ [mem EXCEPT ![n].attr_tail = p] \in [Nodes -> NodeRec]
BY DEF NodeRec

(* ts_remove_child, field by field. *)
LEMMA UnlinkedFields ==
  ASSUME TreeInv, NEW n \in alive, NEW i \in 1..Len(Children(n)), NEW c, c = Children(n)[i]
  PROVE  /\ Unlinked(n, c) \in [Nodes -> NodeRec]
         /\ \A m \in Nodes :
              /\ Unlinked(n, c)[m].parent = IF m = c THEN Null ELSE node[m].parent
              /\ Unlinked(n, c)[m].next =
                   IF i > 1 /\ m = Children(n)[i - 1] THEN node[c].next ELSE node[m].next
              /\ Unlinked(n, c)[m].child_list =
                   IF i = 1 /\ m = n THEN node[c].next ELSE node[m].child_list
              /\ Unlinked(n, c)[m].child_tail =
                   IF m = n /\ node[c].next = Null
                     THEN (IF i = 1 THEN Dummy ELSE Children(n)[i - 1]) ELSE node[m].child_tail
              /\ Unlinked(n, c)[m].attr_list = node[m].attr_list
              /\ Unlinked(n, c)[m].attr_tail = node[m].attr_tail
<1> DEFINE s == Children(n)
<1>1. s \in Seq(Nodes) /\ Distinct(s) /\ n \in Nodes /\ Len(s) \in Nat
  BY ChildrenAre, LenProperties DEF IsList
<1>2. node \in [Nodes -> NodeRec]
  BY DEF TreeInv, TypeOK, NodeRec
<1> HIDE DEF s
<1>3. c \in Nodes /\ c = s[i] /\ i \in 1..Len(s) /\ c \in Members(s) /\ DOMAIN s = 1..Len(s)
  BY <1>1, MembersOf, LenProperties DEF s
<1>4. (s[1] = c) <=> i = 1
  BY <1>1, <1>3 DEF Distinct
<1>5. (CHOOSE k \in DOMAIN s : s[k] = c) = i
  BY <1>1, <1>3 DEF Distinct
<1> DEFINE after == node[c].next
<1>6. after \in NodePtr /\ Null \in NodePtr
  BY <1>2, <1>3 DEF NodeRec, NodePtr
<1> HIDE DEF after
<1>7. CASE i = 1
  <2> DEFINE tail == IF after = Null THEN Dummy ELSE node[n].child_tail
             f == [node EXCEPT ![c].parent = Null]
             g == [f EXCEPT ![n].child_list = after]
             h == [g EXCEPT ![n].child_tail = tail]
  <2>1. Unlinked(n, c) = h
    <3>1. Unlinked(n, c) = [node EXCEPT ![c].parent = Null, ![n].child_list = after,
                             ![n].child_tail = IF after = Null THEN Dummy ELSE @]
      BY <1>3, <1>4, <1>7 DEF Unlinked, s, after
    <3> QED
      BY <1>1, <1>2, <1>3, <3>1 DEF NodeRec
  <2>2. tail \in NodePtr \cup {Dummy}
    BY <1>1, <1>2 DEF NodeRec
  <2>3. h \in [Nodes -> NodeRec]
    <3> HIDE DEF tail
    <3>1. f \in [Nodes -> NodeRec]
      BY <1>2, <1>3, <1>6, FieldSet
    <3> HIDE DEF f
    <3>2. g \in [Nodes -> NodeRec]
      BY <1>1, <1>6, <3>1, FieldSet
    <3> HIDE DEF g
    <3> QED
      BY <1>1, <2>2, <3>2, FieldSet
  <2>4. ASSUME NEW m \in Nodes
        PROVE  /\ h[m].parent = IF m = c THEN Null ELSE node[m].parent
               /\ h[m].next = node[m].next
               /\ h[m].child_list = IF m = n THEN after ELSE node[m].child_list
               /\ h[m].child_tail = IF m = n THEN tail ELSE node[m].child_tail
               /\ h[m].attr_list = node[m].attr_list /\ h[m].attr_tail = node[m].attr_tail
    <3> HIDE DEF tail
    <3> QED
      BY <1>1, <1>2, <1>3 DEF NodeRec
  <2> HIDE DEF h
  <2> QED
    BY <1>7, <2>1, <2>3, <2>4 DEF after
<1>8. CASE i > 1
  <2> DEFINE prev == s[i - 1]
             tail == IF after = Null THEN prev ELSE node[n].child_tail
             f == [node EXCEPT ![c].parent = Null]
             g == [f EXCEPT ![prev].next = after]
             h == [g EXCEPT ![n].child_tail = tail]
  <2>1. prev \in Nodes /\ prev = Children(n)[i - 1]
    BY <1>1, <1>3, <1>8, ElementOfSeq DEF s
  <2>2. Unlinked(n, c) = h
    <3>1. ~(s[1] = c)
      BY <1>3, <1>4, <1>8
    <3>2. Unlinked(n, c) = [node EXCEPT ![c].parent = Null, ![prev].next = after,
                             ![n].child_tail = IF after = Null THEN prev ELSE @]
      BY <1>3, <1>5, <3>1 DEF Unlinked, s, after
    <3> HIDE DEF prev
    <3> QED
      BY <1>1, <1>2, <1>3, <2>1, <3>2 DEF NodeRec
  <2> HIDE DEF prev
  <2>3. tail \in NodePtr \cup {Dummy}
    BY <1>1, <1>2, <2>1 DEF NodeRec, NodePtr
  <2>4. h \in [Nodes -> NodeRec]
    <3> HIDE DEF tail
    <3>1. f \in [Nodes -> NodeRec]
      BY <1>2, <1>3, <1>6, FieldSet
    <3> HIDE DEF f
    <3>2. g \in [Nodes -> NodeRec]
      BY <1>6, <2>1, <3>1, FieldSet
    <3> HIDE DEF g
    <3> QED
      BY <1>1, <2>3, <3>2, FieldSet
  <2>5. ASSUME NEW m \in Nodes
        PROVE  /\ h[m].parent = IF m = c THEN Null ELSE node[m].parent
               /\ h[m].next = IF m = prev THEN after ELSE node[m].next
               /\ h[m].child_list = node[m].child_list
               /\ h[m].child_tail = IF m = n THEN tail ELSE node[m].child_tail
               /\ h[m].attr_list = node[m].attr_list /\ h[m].attr_tail = node[m].attr_tail
    <3> HIDE DEF tail
    <3> QED
      BY <1>1, <1>2, <1>3, <2>1 DEF NodeRec
  <2> HIDE DEF h
  <2> QED
    BY <1>8, <2>1, <2>2, <2>4, <2>5 DEF after
<1> QED
  BY <1>3, <1>7, <1>8

LEMMA UnlinkedTree ==
  ASSUME TreeInv, NEW n \in alive, NEW i \in 1..Len(Children(n)), NEW c, c = Children(n)[i]
  PROVE  Tree(alive, Unlinked(n, c), [Kids EXCEPT ![n] = RemoveAt(Children(n), i)])
<1> DEFINE s == Children(n)
           mem == Unlinked(n, c)
           kids == [Kids EXCEPT ![n] = RemoveAt(s, i)]
<1>1. s \in Seq(Nodes) /\ IsList(s, node[n].child_list, NextIn(node)) /\ n \in Nodes
        /\ Len(s) \in Nat /\ i \in 1..Len(s) /\ c = s[i] /\ c \in Nodes
  BY ChildrenAre, LenProperties, ElementOfSeq
<1>2. /\ mem \in [Nodes -> NodeRec]
      /\ \A m \in Nodes :
           /\ mem[m].parent = IF m = c THEN Null ELSE node[m].parent
           /\ mem[m].next = IF i > 1 /\ m = s[i - 1] THEN node[c].next ELSE node[m].next
           /\ mem[m].child_list = IF i = 1 /\ m = n THEN node[c].next ELSE node[m].child_list
           /\ mem[m].child_tail =
                IF m = n /\ node[c].next = Null
                  THEN (IF i = 1 THEN Dummy ELSE s[i - 1]) ELSE node[m].child_tail
  BY UnlinkedFields
<1> HIDE DEF mem
<1>3. \A m \in Nodes : NextIn(mem)[m] = mem[m].next /\ NextIn(node)[m] = node[m].next
  BY DEF NextIn
<1>4. Members(s) = {s[j] : j \in 1..Len(s)} /\ Members(s) \subseteq Nodes
  BY <1>1, MembersOf
<1>5. \A m \in alive : kids[m] = IF m = n THEN RemoveAt(s, i) ELSE Children(m)
  BY DEF Kids
<1>6. alive \subseteq Nodes
  BY DEF TreeInv, TypeOK
<1>7. c \in Members(s) /\ node[c].parent = n /\ c \in alive
  BY <1>1, <1>4, ChildrenAre
<1> HIDE DEF s, kids
<1>8. ASSUME NEW m \in alive
      PROVE  mem[m].parent \in alive \cup {Null}
  BY <1>2, <1>6, ChildrenAre
<1>9. ASSUME NEW m \in alive, m # n
      PROVE  /\ kids[m] \in Seq(Nodes) /\ IsList(kids[m], mem[m].child_list, NextIn(mem))
             /\ kids[m] # <<>> => mem[m].child_tail = kids[m][Len(kids[m])]
             /\ \A x \in Nodes : x \in Members(kids[m]) <=> x \in alive /\ mem[x].parent = m
  <2>1. /\ kids[m] = Children(m) /\ m \in Nodes /\ kids[m] \in Seq(Nodes)
        /\ IsList(kids[m], node[m].child_list, NextIn(node))
        /\ kids[m] # <<>> => node[m].child_tail = kids[m][Len(kids[m])]
        /\ \A x \in Nodes : x \in Members(kids[m]) <=> x \in alive /\ node[x].parent = m
    BY <1>5, <1>9, ChildrenAre
  <2>2. mem[m].child_list = node[m].child_list /\ mem[m].child_tail = node[m].child_tail
    BY <1>2, <1>9, <2>1
  <2>3. i > 1 => node[s[i - 1]].parent = n
    <3>1. i > 1 => s[i - 1] \in Members(s) /\ s[i - 1] \in Nodes
      BY <1>1, <1>4
    <3> QED
      BY <3>1, ChildrenAre DEF s
  <2>4. \A x \in Members(kids[m]) : NextIn(mem)[x] = NextIn(node)[x]
    <3> SUFFICES ASSUME NEW x \in Members(kids[m]) PROVE NextIn(mem)[x] = NextIn(node)[x]
      OBVIOUS
    <3>1. x \in Nodes /\ node[x].parent = m
      BY <2>1, MembersOf
    <3>2. ~(i > 1 /\ x = s[i - 1])
      BY <1>9, <2>3, <3>1
    <3> QED
      BY <1>2, <1>3, <3>1, <3>2
  <2>5. IsList(kids[m], node[m].child_list, NextIn(mem))
    BY <2>1, <2>4, Untouched
  <2>6. \A x \in Nodes : x \in Members(kids[m]) <=> x \in alive /\ mem[x].parent = m
    BY <1>2, <1>7, <1>9, <2>1, Blocks
  <2> QED
    BY <2>1, <2>2, <2>5, <2>6
<1>10. ASSUME NEW t, t = RemoveAt(s, i)
       PROVE  /\ t \in Seq(Nodes) /\ IsList(t, mem[n].child_list, NextIn(mem))
              /\ t # <<>> => mem[n].child_tail = t[Len(t)]
              /\ \A x \in Nodes : x \in Members(t) <=> x \in alive /\ mem[x].parent = n
  <2>1. mem[n].child_list = IF i = 1 THEN NextIn(node)[s[i]] ELSE node[n].child_list
    BY <1>1, <1>2, <1>3
  <2>2. ASSUME NEW j \in 1..Len(s) \ {i, i - 1} PROVE NextIn(mem)[s[j]] = NextIn(node)[s[j]]
    <3>1. s[j] \in Nodes
      BY <1>1, ElementOfSeq
    <3>2. i > 1 => s[i - 1] # s[j]
      <4>1. i > 1 => i - 1 \in 1..Len(s)
        BY <1>1
      <4>2. j \in 1..Len(s) /\ j # i - 1
        OBVIOUS
      <4> QED
        BY <1>1, <4>1, <4>2 DEF IsList, Distinct
    <3> QED
      BY <1>2, <1>3, <3>1, <3>2
  <2>3. i > 1 => NextIn(mem)[s[i - 1]] = NextIn(node)[s[i]]
    <3>1. i > 1 => s[i - 1] \in Nodes
      BY <1>1
    <3> QED
      BY <1>1, <1>2, <1>3, <3>1
  <2>4. /\ t \in Seq(Nodes) /\ IsList(t, mem[n].child_list, NextIn(mem))
        /\ Members(t) = Members(s) \ {s[i]}
    BY <1>1, <1>10, <2>1, <2>2, <2>3, Removed
  <2>5. ASSUME t # <<>> PROVE mem[n].child_tail = t[Len(t)]
    <3>1. /\ Len(t) = Len(s) - 1
          /\ \A j \in 1..(Len(s) - 1) : t[j] = IF j < i THEN s[j] ELSE s[j + 1]
      BY <1>1, <1>10, RemovedAt
    <3>2. Len(t) # 0 /\ Len(s) - 1 \in 1..(Len(s) - 1)
      BY <1>1, <2>4, <2>5, <3>1, EmptySeq
    <3>3. node[c].next = At(s, i + 1)
      BY <1>1, <1>3 DEF IsList
    <3>4. CASE i = Len(s)
      <4>1. node[c].next = Null /\ i > 1 /\ t[Len(t)] = s[i - 1]
        BY <1>1, <3>1, <3>2, <3>3, <3>4 DEF At
      <4> QED
        BY <1>1, <1>2, <4>1
    <3>5. CASE i < Len(s)
      <4>1. t[Len(t)] = s[Len(s)]
        BY <1>1, <3>1, <3>2, <3>5
      <4>2. i + 1 \in 1..Len(s) /\ node[c].next = s[i + 1]
        BY <1>1, <3>3, <3>5 DEF At
      <4>3. node[c].next # Null
        BY <1>1, <4>2, Blocks, ElementOfSeq
      <4>4. s # <<>> => node[n].child_tail = s[Len(s)]
        BY ChildrenAre DEF s
      <4>5. s # <<>>
        BY <1>1
      <4> QED
        BY <1>1, <1>2, <4>1, <4>3, <4>4, <4>5
    <3> QED
      BY <1>1, <3>4, <3>5
  <2>6. ASSUME NEW x \in Nodes PROVE x \in Members(t) <=> x \in alive /\ mem[x].parent = n
    <3>1. x \in Members(s) <=> x \in alive /\ node[x].parent = n
      BY ChildrenAre DEF s
    <3> QED
      BY <1>1, <1>2, <2>4, <3>1, Blocks
  <2> QED
    BY <2>4, <2>5, <2>6
<1> QED
  BY <1>5, <1>8, <1>9, <1>10 DEF Tree, mem, kids, s

-----------------------------------------------------------------------------
(* The second half of ts_add_child, on any trees in which c is a root. *)
LEMMA LinkedFields ==
  ASSUME NEW mem \in [Nodes -> NodeRec], NEW n \in Nodes, NEW c \in Nodes,
         NEW first, first = mem[n].child_list, NEW tail, tail = mem[n].child_tail,
         first # Null => tail \in Nodes /\ tail # c
  PROVE  /\ Linked(mem, n, c) \in [Nodes -> NodeRec]
         /\ \A m \in Nodes :
              /\ Linked(mem, n, c)[m].parent = IF m = c THEN n ELSE mem[m].parent
              /\ Linked(mem, n, c)[m].next =
                   IF m = c THEN Null ELSE IF first # Null /\ m = tail THEN c ELSE mem[m].next
              /\ Linked(mem, n, c)[m].child_list =
                   IF first = Null /\ m = n THEN c ELSE mem[m].child_list
              /\ Linked(mem, n, c)[m].child_tail = IF m = n THEN c ELSE mem[m].child_tail
              /\ Linked(mem, n, c)[m].attr_list = mem[m].attr_list
              /\ Linked(mem, n, c)[m].attr_tail = mem[m].attr_tail
<1> DEFINE f == [mem EXCEPT ![c].parent = n]
           g == [f EXCEPT ![c].next = Null]
<1>1. n \in NodePtr /\ c \in NodePtr /\ Null \in NodePtr
  BY DEF NodePtr
<1>2. f \in [Nodes -> NodeRec]
  BY <1>1, FieldSet
<1>3. g \in [Nodes -> NodeRec]
  <2> HIDE DEF f
  <2> QED
    BY <1>1, <1>2, FieldSet
<1>4. CASE first = Null
  <2> DEFINE h == [g EXCEPT ![n].child_list = c]
             k == [h EXCEPT ![n].child_tail = c]
  <2>1. Linked(mem, n, c) = k
    <3>1. Linked(mem, n, c) = [mem EXCEPT ![c].parent = n, ![c].next = Null,
                                          ![n].child_list = c, ![n].child_tail = c]
      BY <1>4 DEF Linked
    <3> QED
      BY <3>1
  <2>2. k \in [Nodes -> NodeRec]
    <3> HIDE DEF g
    <3>1. h \in [Nodes -> NodeRec]
      BY <1>1, <1>3, FieldSet
    <3> HIDE DEF h
    <3> QED
      BY <1>1, <3>1, FieldSet
  <2>3. ASSUME NEW m \in Nodes
        PROVE  /\ k[m].parent = IF m = c THEN n ELSE mem[m].parent
               /\ k[m].next = IF m = c THEN Null ELSE mem[m].next
               /\ k[m].child_list = IF m = n THEN c ELSE mem[m].child_list
               /\ k[m].child_tail = IF m = n THEN c ELSE mem[m].child_tail
               /\ k[m].attr_list = mem[m].attr_list /\ k[m].attr_tail = mem[m].attr_tail
    BY DEF NodeRec
  <2> HIDE DEF k
  <2> QED
    BY <1>4, <2>1, <2>2, <2>3
<1>5. CASE first # Null
  <2> DEFINE h == [g EXCEPT ![tail].next = c]
             k == [h EXCEPT ![n].child_tail = c]
  <2>1. Linked(mem, n, c) = k
    <3>1. Linked(mem, n, c) = [mem EXCEPT ![c].parent = n, ![c].next = Null,
                                          ![tail].next = c, ![n].child_tail = c]
      BY <1>5 DEF Linked
    <3> QED
      BY <3>1
  <2>2. k \in [Nodes -> NodeRec]
    <3> HIDE DEF g
    <3>1. h \in [Nodes -> NodeRec]
      BY <1>1, <1>3, FieldSet
    <3> HIDE DEF h
    <3> QED
      BY <1>1, <3>1, FieldSet
  <2>3. ASSUME NEW m \in Nodes
        PROVE  /\ k[m].parent = IF m = c THEN n ELSE mem[m].parent
               /\ k[m].next = IF m = c THEN Null ELSE IF m = tail THEN c ELSE mem[m].next
               /\ k[m].child_list = mem[m].child_list
               /\ k[m].child_tail = IF m = n THEN c ELSE mem[m].child_tail
               /\ k[m].attr_list = mem[m].attr_list /\ k[m].attr_tail = mem[m].attr_tail
    <3>1. /\ g[m].parent = IF m = c THEN n ELSE mem[m].parent
          /\ g[m].next = IF m = c THEN Null ELSE mem[m].next
          /\ g[m].child_list = mem[m].child_list /\ g[m].child_tail = mem[m].child_tail
          /\ g[m].attr_list = mem[m].attr_list /\ g[m].attr_tail = mem[m].attr_tail
      BY DEF NodeRec
    <3> HIDE DEF g
    <3>2. /\ k[m].parent = g[m].parent
          /\ k[m].next = IF m = tail THEN c ELSE g[m].next
          /\ k[m].child_list = g[m].child_list
          /\ k[m].child_tail = IF m = n THEN c ELSE g[m].child_tail
          /\ k[m].attr_list = g[m].attr_list /\ k[m].attr_tail = g[m].attr_tail
      BY <1>3, <1>5 DEF NodeRec
    <3> HIDE DEF k
    <3> QED
      BY <1>5, <3>1, <3>2
  <2> HIDE DEF k
  <2> QED
    BY <1>5, <2>1, <2>2, <2>3
<1> QED
  BY <1>4, <1>5

LEMMA LinkedTree ==
  ASSUME NEW A \in SUBSET Nodes, NEW mem \in [Nodes -> NodeRec], NEW kids, DOMAIN kids = A,
         Tree(A, mem, kids), NEW n \in A, NEW c \in A, n # c, mem[c].parent = Null,
         NEW kids2, kids2 = [kids EXCEPT ![n] = Append(kids[n], c)]
  PROVE  /\ Linked(mem, n, c) \in [Nodes -> NodeRec]
         /\ Tree(A, Linked(mem, n, c), kids2)
         /\ \A m \in Nodes : /\ Linked(mem, n, c)[m].attr_list = mem[m].attr_list
                             /\ Linked(mem, n, c)[m].attr_tail = mem[m].attr_tail
<1> DEFINE s == kids[n]
           new == Linked(mem, n, c)
           first == mem[n].child_list
           tail == mem[n].child_tail
<1>1. /\ s \in Seq(Nodes) /\ IsList(s, first, NextIn(mem))
      /\ s # <<>> => tail = s[Len(s)]
      /\ \A x \in Nodes : x \in Members(s) <=> x \in A /\ mem[x].parent = n
  BY DEF Tree
<1> HIDE DEF s, first, tail
<1>2. Len(s) \in Nat /\ (s = <<>> <=> Len(s) = 0) /\ Members(s) = {s[j] : j \in 1..Len(s)}
        /\ Members(s) \subseteq Nodes
  <2>1. s = <<>> <=> Len(s) = 0
    BY <1>1, EmptySeq
  <2>2. Len(s) \in Nat /\ Members(s) = {s[j] : j \in 1..Len(s)} /\ Members(s) \subseteq Nodes
    BY <1>1, MembersOf
  <2> QED
    BY <2>1, <2>2
<1>3. c \notin Members(s) /\ n \in Nodes /\ c \in Nodes
  BY <1>1, Blocks
<1>4. first = Null <=> s = <<>>
  <2>1. s # <<>> => s[1] \in Nodes
    <3>1. s # <<>> => 1 \in 1..Len(s)
      BY <1>2
    <3> QED
      BY <1>1, <3>1, ElementOfSeq
  <2>2. first = At(s, 1)
    BY <1>1 DEF IsList
  <2>3. At(s, 1) = IF s = <<>> THEN Null ELSE s[1]
    BY <1>2 DEF At
  <2> QED
    BY <2>1, <2>2, <2>3, Blocks
<1>5. s # <<>> => tail \in Members(s)
  <2>1. s # <<>> => Len(s) \in 1..Len(s)
    BY <1>2
  <2> QED
    BY <1>1, <1>2, <2>1
<1>6. /\ new \in [Nodes -> NodeRec]
      /\ \A m \in Nodes :
           /\ new[m].parent = IF m = c THEN n ELSE mem[m].parent
           /\ new[m].next = IF m = c THEN Null ELSE IF s # <<>> /\ m = tail THEN c ELSE mem[m].next
           /\ new[m].child_list = IF s = <<>> /\ m = n THEN c ELSE mem[m].child_list
           /\ new[m].child_tail = IF m = n THEN c ELSE mem[m].child_tail
           /\ new[m].attr_list = mem[m].attr_list /\ new[m].attr_tail = mem[m].attr_tail
  <2>1. first # Null => tail \in Nodes /\ tail # c
    BY <1>2, <1>3, <1>4, <1>5
  <2> QED
    BY <1>3, <1>4, <2>1, LinkedFields DEF first, tail
<1> HIDE DEF new
<1>7. \A m \in Nodes : NextIn(new)[m] = new[m].next /\ NextIn(mem)[m] = mem[m].next
  BY DEF NextIn
<1>8. \A m \in A : kids2[m] = IF m = n THEN Append(s, c) ELSE kids[m]
  BY DEF s
<1>9. ASSUME NEW m \in A PROVE new[m].parent \in A \cup {Null}
  BY <1>6 DEF Tree
<1>10. ASSUME NEW m \in A, m # n
       PROVE  /\ kids2[m] \in Seq(Nodes) /\ IsList(kids2[m], new[m].child_list, NextIn(new))
              /\ kids2[m] # <<>> => new[m].child_tail = kids2[m][Len(kids2[m])]
              /\ \A x \in Nodes : x \in Members(kids2[m]) <=> x \in A /\ new[x].parent = m
  <2>1. /\ kids2[m] = kids[m] /\ kids[m] \in Seq(Nodes)
        /\ IsList(kids[m], mem[m].child_list, NextIn(mem))
        /\ kids[m] # <<>> => mem[m].child_tail = kids[m][Len(kids[m])]
        /\ \A x \in Nodes : x \in Members(kids[m]) <=> x \in A /\ mem[x].parent = m
    BY <1>8, <1>10 DEF Tree
  <2>2. new[m].child_list = mem[m].child_list /\ new[m].child_tail = mem[m].child_tail
    BY <1>6, <1>10
  <2>3. \A x \in Members(kids[m]) : NextIn(new)[x] = NextIn(mem)[x]
    <3> SUFFICES ASSUME NEW x \in Members(kids[m]) PROVE NextIn(new)[x] = NextIn(mem)[x]
      OBVIOUS
    <3>1. x \in Nodes /\ mem[x].parent = m
      BY <2>1, MembersOf
    <3>2. x # c /\ x \notin Members(s)
      BY <1>1, <1>10, <3>1, Blocks
    <3> QED
      BY <1>5, <1>6, <1>7, <3>1, <3>2
  <2>4. IsList(kids[m], mem[m].child_list, NextIn(new))
    BY <2>1, <2>3, Untouched
  <2>5. \A x \in Nodes : x \in Members(kids[m]) <=> x \in A /\ new[x].parent = m
    BY <1>6, <1>10, <2>1, Blocks
  <2> QED
    BY <2>1, <2>2, <2>4, <2>5
<1>11. ASSUME NEW t, t = Append(s, c)
       PROVE  /\ t \in Seq(Nodes) /\ IsList(t, new[n].child_list, NextIn(new))
              /\ t # <<>> => new[n].child_tail = t[Len(t)]
              /\ \A x \in Nodes : x \in Members(t) <=> x \in A /\ new[x].parent = n
  <2>1. new[n].child_list = (IF s = <<>> THEN c ELSE first)
    BY <1>3, <1>6 DEF first
  <2>2. NextIn(new)[c] = Null
    BY <1>3, <1>6, <1>7
  <2>3. ASSUME NEW j \in 1..(Len(s) - 1) PROVE NextIn(new)[s[j]] = NextIn(mem)[s[j]]
    <3>1. j \in 1..Len(s) /\ Len(s) \in 1..Len(s) /\ j # Len(s)
      BY <1>2
    <3>2. s[j] \in Members(s) /\ s[j] \in Nodes
      BY <1>2, <3>1
    <3>3. s[j] # s[Len(s)]
      <4>1. Distinct(s)
        BY <1>1 DEF IsList
      <4> QED
        BY <3>1, <4>1 DEF Distinct
    <3>4. s # <<>> /\ tail = s[Len(s)]
      BY <1>1, <1>2, <3>1
    <3>5. s[j] # c
      BY <1>3, <3>2
    <3> QED
      BY <1>6, <1>7, <3>2, <3>3, <3>4, <3>5
  <2>4. s # <<>> => NextIn(new)[s[Len(s)]] = c
    <3>1. s # <<>> => tail \in Nodes /\ tail # c
      BY <1>2, <1>3, <1>5
    <3>2. s # <<>> => tail = s[Len(s)]
      BY <1>1
    <3> QED
      BY <1>6, <1>7, <3>1, <3>2
  <2>5. /\ t \in Seq(Nodes) /\ IsList(t, new[n].child_list, NextIn(new))
        /\ Members(t) = Members(s) \cup {c} /\ t[Len(t)] = c
    <3>1. s \in Seq(Nodes) /\ IsList(s, first, NextIn(mem))
      BY <1>1
    <3> QED
      BY <1>3, <1>11, <2>1, <2>2, <2>3, <2>4, <3>1, Appended
  <2>6. new[n].child_tail = c
    BY <1>3, <1>6
  <2>7. \A x \in Nodes : x \in Members(t) <=> x \in A /\ new[x].parent = n
    BY <1>1, <1>6, <2>5
  <2> QED
    BY <2>5, <2>6, <2>7
<1> QED
  <2>1. ASSUME NEW m \in A
        PROVE  /\ kids2[m] \in Seq(Nodes) /\ IsList(kids2[m], new[m].child_list, NextIn(new))
               /\ kids2[m] # <<>> => new[m].child_tail = kids2[m][Len(kids2[m])]
               /\ new[m].parent \in A \cup {Null}
               /\ \A x \in Nodes : x \in Members(kids2[m]) <=> x \in A /\ new[x].parent = m
    <3>1. CASE m = n
      BY <1>8, <1>9, <1>11, <3>1
    <3>2. CASE m # n
      BY <1>9, <1>10, <3>2
    <3> QED
      BY <3>1, <3>2
  <2>2. Tree(A, new, kids2)
    BY <2>1 DEF Tree
  <2> QED
    BY <1>6, <2>2 DEF new

-----------------------------------------------------------------------------
(* What ts_remove_child and ts_add_child do to the lines of ancestors. *)
LinesTo(A, up, c) ==
  [m \in A |-> IF c \in Members(up[m])
                 THEN SubSeq(up[m], 1, CHOOSE i \in 1..Len(up[m]) : up[m][i] = c) ELSE up[m]]

(* mem2 differs from mem, as far as parents go, in that c has none. *)
Orphaned(mem, mem2, c) ==
  \A m \in Nodes : mem2[m].parent = IF m = c THEN Null ELSE mem[m].parent

LEMMA UnlinkedLines ==
  ASSUME NEW A \in SUBSET Nodes, NEW mem, NEW mem2, NEW up, NEW c \in A,
         Lines(A, mem, up), Orphaned(mem, mem2, c)
  PROVE  /\ Lines(A, mem2, LinesTo(A, up, c))
         /\ \A m \in A : c \notin Members(up[m]) => LinesTo(A, up, c)[m] = up[m]
<1> DEFINE up2 == LinesTo(A, up, c)
           Place(m) == CHOOSE i \in 1..Len(up[m]) : up[m][i] = c
<1>1. \A m \in A : up2[m] = IF c \in Members(up[m]) THEN SubSeq(up[m], 1, Place(m)) ELSE up[m]
  BY DEF LinesTo
<1> HIDE DEF up2
<1>2. \A m \in Nodes : ParentIn(mem2)[m] = IF m = c THEN Null ELSE ParentIn(mem)[m]
  BY DEF ParentIn, Orphaned
<1>3. ASSUME NEW m \in A PROVE up2[m] \in Seq(A) /\ IsList(up2[m], m, ParentIn(mem2))
  <2> DEFINE s == up[m]
  <2>1. s \in Seq(A) /\ IsList(s, m, ParentIn(mem))
    BY DEF Lines
  <2> HIDE DEF s
  <2>2. Members(s) = {s[j] : j \in 1..Len(s)} /\ Members(s) \subseteq Nodes /\ Len(s) \in Nat
    BY <2>1, MembersOf
  <2>3. CASE c \notin Members(s)
    <3>1. \A x \in Members(s) : ParentIn(mem2)[x] = ParentIn(mem)[x]
      BY <1>2, <2>2, <2>3
    <3>2. IsList(s, m, ParentIn(mem2))
      BY <2>1, <3>1, Untouched
    <3> QED
      BY <1>1, <2>1, <2>3, <3>2 DEF s
  <2>4. CASE c \in Members(s)
    <3>1. PICK i \in 1..Len(s) : s[i] = c /\ i = Place(m)
      BY <2>2, <2>4 DEF s
    <3>2. ParentIn(mem2)[s[i]] = Null
      BY <1>2, <3>1
    <3>3. ASSUME NEW j \in 1..(i - 1) PROVE ParentIn(mem2)[s[j]] = ParentIn(mem)[s[j]]
      <4>1. j \in 1..Len(s) /\ j # i
        BY <2>2
      <4>2. s[j] # c
        BY <2>1, <3>1, <4>1 DEF IsList, Distinct
      <4> QED
        BY <1>2, <2>2, <4>1, <4>2
    <3>4. SubSeq(s, 1, i) \in Seq(A) /\ IsList(SubSeq(s, 1, i), m, ParentIn(mem2))
      BY <2>1, <3>2, <3>3, Cut
    <3>5. up2[m] = SubSeq(s, 1, i)
      BY <1>1, <2>4, <3>1 DEF s
    <3> QED
      BY <3>4, <3>5
  <2> QED
    BY <2>3, <2>4
<1>4. \A m \in A : c \notin Members(up[m]) => up2[m] = up[m]
  BY <1>1
<1> QED
  BY <1>3, <1>4 DEF Lines, up2

LEMMA LinkedLines ==
  ASSUME NEW A \in SUBSET Nodes, NEW mem, NEW mem2, NEW up, Lines(A, mem, up),
         NEW n \in A, NEW c \in A, mem[c].parent = Null, c \notin Members(up[n]),
         \A m \in Nodes : mem2[m].parent = IF m = c THEN n ELSE mem[m].parent
  PROVE  \E up2 : Lines(A, mem2, up2)
<1> DEFINE up2 == [m \in A |-> IF c \in Members(up[m]) THEN up[m] \o up[n] ELSE up[m]]
<1>1. \A m \in Nodes : /\ ParentIn(mem2)[m] = IF m = c THEN n ELSE ParentIn(mem)[m]
                       /\ ParentIn(mem)[m] = mem[m].parent
  BY DEF ParentIn
<1> DEFINE t == up[n]
<1>2. t \in Seq(A) /\ IsList(t, n, ParentIn(mem)) /\ c \notin Members(t)
  BY DEF Lines
<1> HIDE DEF t
<1>3. Members(t) = {t[j] : j \in 1..Len(t)} /\ Members(t) \subseteq A /\ Len(t) \in Nat
  BY <1>2, MembersOf
<1>4. Null \notin A
  BY Blocks
<1>5. ASSUME NEW m \in A PROVE up2[m] \in Seq(A) /\ IsList(up2[m], m, ParentIn(mem2))
  <2> DEFINE s == up[m]
  <2>1. s \in Seq(A) /\ IsList(s, m, ParentIn(mem))
    BY DEF Lines
  <2> HIDE DEF s
  <2>2. Members(s) = {s[j] : j \in 1..Len(s)} /\ Members(s) \subseteq A /\ Len(s) \in Nat
    BY <2>1, MembersOf
  <2>3. CASE c \notin Members(s)
    <3>1. \A x \in Members(s) : ParentIn(mem2)[x] = ParentIn(mem)[x]
      BY <1>1, <2>2, <2>3
    <3>2. IsList(s, m, ParentIn(mem2))
      BY <2>1, <3>1, Untouched
    <3> QED
      BY <2>1, <2>3, <3>2 DEF s
  <2>4. CASE c \in Members(s)
    <3>1. PICK i \in 1..Len(s) : s[i] = c
      BY <2>2, <2>4
    <3>2. i = Len(s)
      <4>1. At(s, i + 1) = Null
        BY <1>1, <2>1, <3>1 DEF IsList
      <4>2. i < Len(s) => At(s, i + 1) \in A
        BY <2>1, <2>2, ElementOfSeq DEF At
      <4> QED
        BY <1>4, <2>2, <4>1, <4>2
    <3>3. s # <<>> /\ s[Len(s)] = c
      BY <2>2, <3>1, <3>2
    <3>4. Members(s) \cap Members(t) = {}
      <4>1. s[Len(s)] \notin Members(t)
        BY <1>2, <3>3
      <4> QED
        BY <1>2, <1>4, <2>1, <3>3, <4>1, ApartAtTheEnd
    <3>5. ParentIn(mem2)[s[Len(s)]] = n
      BY <1>1, <3>3
    <3>6. \A x \in (Members(s) \cup Members(t)) \ {s[Len(s)]} : ParentIn(mem2)[x] = ParentIn(mem)[x]
      BY <1>1, <1>3, <2>2, <3>3
    <3>7. s \o t \in Seq(A) /\ IsList(s \o t, m, ParentIn(mem2))
      BY <1>2, <2>1, <3>3, <3>4, <3>5, <3>6, Joined
    <3>8. up2[m] = s \o t
      BY <2>4 DEF s, t
    <3> QED
      BY <3>7, <3>8
  <2> QED
    BY <2>3, <2>4
<1> HIDE DEF up2
<1> QED
  BY <1>5 DEF Lines

-----------------------------------------------------------------------------
(* What each step does to the lists.  Nothing: *)
LEMMA EmptyList ==
  ASSUME NEW B, NEW next
  PROVE  <<>> \in Seq(B) /\ IsList(<<>>, Null, next) /\ Members(<<>>) = {} /\ Len(<<>>) = 0
<1>1. <<>> \in Seq(B) /\ Len(<<>>) = 0
  BY EmptySeq
<1>2. Members(<<>>) = {<<>>[i] : i \in 1..Len(<<>>)}
  BY <1>1, MembersOf
<1>3. IsList(<<>>, Null, next)
  BY <1>1 DEF IsList, Distinct, At
<1> QED
  BY <1>1, <1>2, <1>3

LEMMA AllocNode ==
  ASSUME TreeInv, NEW n \in Nodes, ts_alloc_node(n)
  PROVE  /\ TreeInv'
         /\ \A m \in alive' : /\ Children(m)' = IF m = n THEN <<>> ELSE Children(m)
                              /\ Attributes(m)' = IF m = n THEN <<>> ELSE Attributes(m)
<1> DEFINE kids == [m \in alive' |-> IF m = n THEN <<>> ELSE Children(m)]
           own == [m \in alive' |-> IF m = n THEN <<>> ELSE Attributes(m)]
           up == [m \in alive' |-> IF m = n THEN <<n>> ELSE Line(m)]
<1>1. /\ n \notin alive /\ alive' = alive \cup {n} /\ attr' = attr /\ loose' = loose
      /\ alive \subseteq Nodes /\ node \in [Nodes -> NodeRec]
      /\ node' \in [Nodes -> NodeRec] /\ node'[n] = Zeroed
      /\ \A m \in Nodes \ {n} : node'[m] = node[m]
  <2>1. Zeroed \in NodeRec
    BY DEF Zeroed, NodeRec, NodePtr, AttrPtr
  <2> QED
    BY <2>1 DEF ts_alloc_node, TreeInv, TypeOK, NodeRec
<1>2. TypeOK'
  BY <1>1 DEF TreeInv, TypeOK, NodeRec
<1>3. /\ node'[n].parent = Null /\ node'[n].child_list = Null /\ node'[n].attr_list = Null
  BY <1>1 DEF Zeroed
<1>4. Tree(alive', node', kids)
  <2>1. ASSUME NEW m \in alive'
        PROVE  /\ kids[m] \in Seq(Nodes) /\ IsList(kids[m], node'[m].child_list, NextIn(node'))
               /\ kids[m] # <<>> => node'[m].child_tail = kids[m][Len(kids[m])]
               /\ node'[m].parent \in alive' \cup {Null}
               /\ \A c \in Nodes : c \in Members(kids[m]) <=> c \in alive' /\ node'[c].parent = m
    <3>1. CASE m = n
      <4>1. kids[m] = <<>>
        BY <3>1
      <4>2. \A c \in alive' : node'[c].parent # n
        BY <1>1, <1>3, ChildrenAre, Blocks
      <4> QED
        BY <1>3, <3>1, <4>1, <4>2, EmptyList
    <3>2. CASE m # n
      <4>1. m \in alive /\ kids[m] = Children(m) /\ node'[m] = node[m]
        BY <1>1, <3>2
      <4>2. \A c \in Nodes : c \in Members(Children(m)) <=> c \in alive /\ node[c].parent = m
        BY <4>1, ChildrenAre
      <4>3. \A x \in Members(Children(m)) : NextIn(node')[x] = NextIn(node)[x]
        <5>1. Members(Children(m)) \subseteq Nodes \ {n}
          BY <1>1, <4>1, <4>2, ChildrenAre, MembersOf
        <5> QED
          BY <1>1, <5>1 DEF NextIn
      <4>4. Children(m) \in Seq(Nodes) /\ IsList(Children(m), node[m].child_list, NextIn(node'))
        BY <4>1, <4>3, ChildrenAre, Untouched
      <4>5. \A c \in Nodes : c \in Members(Children(m)) <=> c \in alive' /\ node'[c].parent = m
        BY <1>1, <1>3, <4>1, <4>2, Blocks
      <4>6. /\ Children(m) # <<>> => node[m].child_tail = Children(m)[Len(Children(m))]
            /\ node[m].parent \in alive \cup {Null}
        BY <4>1, ChildrenAre
      <4> QED
        BY <1>1, <4>1, <4>4, <4>5, <4>6
    <3> QED
      BY <3>1, <3>2
  <2> HIDE DEF kids
  <2> QED
    BY <2>1 DEF Tree
<1>5. AttrLists(alive', node', attr', loose', own)
  <2>1. ASSUME NEW m \in alive'
        PROVE  /\ own[m] \in Seq(Attrs) /\ IsList(own[m], node'[m].attr_list, attr')
               /\ own[m] # <<>> => node'[m].attr_tail = own[m][Len(own[m])]
               /\ Members(own[m]) \cap loose' = {}
               /\ \A l \in alive' \ {m} : Members(own[l]) \cap Members(own[m]) = {}
    <3>1. own[n] = <<>> /\ Members(own[n]) = {}
      BY <1>1, EmptyList
    <3>2. CASE m = n
      BY <1>3, <3>1, <3>2, EmptyList
    <3>3. CASE m # n
      <4>1. m \in alive /\ own[m] = Attributes(m) /\ node'[m] = node[m]
        BY <1>1, <3>3
      <4>2. \A l \in alive' \ {m} : Members(own[l]) \cap Members(own[m]) = {}
        <5>1. \A l \in alive \ {m} : Members(own[l]) \cap Members(own[m]) = {}
          BY <1>1, <4>1, AttributesAre
        <5> HIDE DEF own
        <5> QED
          BY <1>1, <3>1, <5>1
      <4> QED
        BY <1>1, <4>1, <4>2, AttributesAre
    <3> QED
      BY <3>2, <3>3
  <2> HIDE DEF own
  <2> QED
    BY <2>1 DEF AttrLists
<1>6. Lines(alive', node', up)
  <2>1. ASSUME NEW m \in alive' PROVE up[m] \in Seq(alive') /\ IsList(up[m], m, ParentIn(node'))
    <3>1. CASE m = n
      <4>1. ParentIn(node')[n] = Null
        BY <1>3 DEF ParentIn
      <4> QED
        BY <1>1, <3>1, <4>1 DEF IsList, Distinct, At
    <3>2. CASE m # n
      <4>1. m \in alive /\ up[m] = Line(m)
        BY <1>1, <3>2
      <4>2. Line(m) \in Seq(alive) /\ IsList(Line(m), m, ParentIn(node))
        BY <4>1, LineIs
      <4>3. \A x \in Members(Line(m)) : ParentIn(node')[x] = ParentIn(node)[x]
        <5>1. Members(Line(m)) \subseteq Nodes \ {n}
          BY <1>1, <4>2, MembersOf
        <5> QED
          BY <1>1, <5>1 DEF ParentIn
      <4>4. IsList(Line(m), m, ParentIn(node'))
        BY <4>2, <4>3, Untouched
      <4>5. Line(m) \in Seq(alive')
        BY <1>1, <4>2, SeqMonotonic
      <4> QED
        BY <4>1, <4>4, <4>5
    <3> QED
      BY <3>1, <3>2
  <2> HIDE DEF up
  <2> QED
    BY <2>1 DEF Lines
<1>7. \A m \in alive' : kids[m] = (IF m = n THEN <<>> ELSE Children(m))
                        /\ own[m] = (IF m = n THEN <<>> ELSE Attributes(m))
  OBVIOUS
<1> HIDE DEF kids, own, up
<1> QED
  BY <1>2, <1>4, <1>5, <1>6, <1>7, ListsFound

(* A step that leaves some of the fields alone leaves some of the lists.    *)
LEMMA SameTree ==
  ASSUME NEW A \in SUBSET Nodes, NEW mem, NEW kids, Tree(A, mem, kids), NEW mem2,
         \A m \in Nodes : /\ mem2[m].parent = mem[m].parent /\ mem2[m].next = mem[m].next
                          /\ mem2[m].child_list = mem[m].child_list
                          /\ mem2[m].child_tail = mem[m].child_tail
  PROVE  Tree(A, mem2, kids)
<1>1. NextIn(mem2) = NextIn(mem)
  BY DEF NextIn
<1> QED
  BY <1>1 DEF Tree

LEMMA SameLines ==
  ASSUME NEW A, NEW mem, NEW up, Lines(A, mem, up), NEW mem2,
         \A m \in Nodes : mem2[m].parent = mem[m].parent
  PROVE  Lines(A, mem2, up)
<1>1. ParentIn(mem2) = ParentIn(mem)
  BY DEF ParentIn
<1> QED
  BY <1>1 DEF Lines

LEMMA SameAttrs ==
  ASSUME NEW A \in SUBSET Nodes, NEW mem, NEW next, NEW free, NEW own,
         AttrLists(A, mem, next, free, own), NEW mem2,
         \A m \in Nodes : /\ mem2[m].attr_list = mem[m].attr_list
                          /\ mem2[m].attr_tail = mem[m].attr_tail
  PROVE  AttrLists(A, mem2, next, free, own)
BY DEF AttrLists

(* A step on attributes that are on no list, if any. *)
LEMMA LooseAttrs ==
  ASSUME TreeInv, UNCHANGED <<node, alive>>, attr' \in [Attrs -> AttrPtr], loose' \subseteq Attrs,
         \A n \in alive : \A x \in Members(Attributes(n)) : attr'[x] = attr[x] /\ x \notin loose'
  PROVE  /\ TreeInv'
         /\ \A m \in alive' : Children(m)' = Children(m) /\ Attributes(m)' = Attributes(m)
<1>1. TypeOK'
  BY DEF TreeInv, TypeOK
<1>2. Tree(alive', node', Kids) /\ Lines(alive', node', Ancestry)
  BY DEF TreeInv
<1>3. AttrLists(alive', node', attr', loose', Own)
  <2>1. ASSUME NEW n \in alive
        PROVE  /\ Own[n] \in Seq(Attrs) /\ IsList(Own[n], node[n].attr_list, attr')
               /\ Own[n] # <<>> => node[n].attr_tail = Own[n][Len(Own[n])]
               /\ Members(Own[n]) \cap loose' = {}
               /\ \A m \in alive \ {n} : Members(Own[m]) \cap Members(Own[n]) = {}
    <3>1. \A m \in alive : Own[m] = Attributes(m)
      BY DEF Own
    <3>2. \A x \in Members(Attributes(n)) : attr'[x] = attr[x] /\ x \notin loose'
      OBVIOUS
    <3>3. Attributes(n) \in Seq(Attrs) /\ IsList(Attributes(n), node[n].attr_list, attr')
      BY <3>2, AttributesAre, Untouched
    <3>4. /\ Attributes(n) # <<>> => node[n].attr_tail = Attributes(n)[Len(Attributes(n))]
          /\ \A m \in alive \ {n} : Members(Attributes(m)) \cap Members(Attributes(n)) = {}
      BY AttributesAre
    <3> QED
      BY <3>1, <3>2, <3>3, <3>4
  <2> QED
    BY <2>1 DEF AttrLists
<1>4. \A m \in alive : Kids[m] = Children(m) /\ Own[m] = Attributes(m)
  BY DEF Kids, Own
<1> QED
  BY <1>1, <1>2, <1>3, <1>4, ListsFound

LEMMA AllocAttr ==
  ASSUME TreeInv, NEW a \in Attrs, ts_alloc_attr(a) \/ ts_free_attr(a)
  PROVE  /\ TreeInv'
         /\ \A m \in alive' : Children(m)' = Children(m) /\ Attributes(m)' = Attributes(m)
<1>1. UNCHANGED <<node, alive>> /\ attr \in [Attrs -> AttrPtr] /\ loose \subseteq Attrs
  BY DEF ts_alloc_attr, ts_free_attr, TreeInv, TypeOK
<1>2. /\ attr' \in [Attrs -> AttrPtr] /\ loose' \subseteq Attrs /\ loose' \subseteq loose \cup {a}
      /\ \A x \in Attrs \ {a} : attr'[x] = attr[x]
  BY <1>1 DEF ts_alloc_attr, ts_free_attr, AttrPtr
<1>3. ASSUME NEW n \in alive PROVE a \notin Members(Attributes(n))
  BY AttributesAre DEF ts_alloc_attr, ts_free_attr, OnSomeList
<1>4. \A n \in alive : \A x \in Members(Attributes(n)) : attr'[x] = attr[x] /\ x \notin loose'
  <2> SUFFICES ASSUME NEW n \in alive, NEW x \in Members(Attributes(n))
               PROVE  attr'[x] = attr[x] /\ x \notin loose'
    OBVIOUS
  <2>1. x \in Attrs /\ x \notin loose
    BY AttributesAre, MembersOf
  <2> QED
    BY <1>2, <1>3, <2>1
<1> QED
  BY <1>1, <1>2, <1>4, LooseAttrs

LEMMA AddAttr ==
  ASSUME TreeInv, NEW n \in Nodes, NEW a \in Attrs, ts_add_attr(n, a)
  PROVE  /\ TreeInv'
         /\ \A m \in alive' :
              /\ Children(m)' = Children(m)
              /\ Attributes(m)' = IF m = n THEN Append(Attributes(n), a) ELSE Attributes(m)
<1> DEFINE s == Attributes(n)
           t == Append(s, a)
           own == [Own EXCEPT ![n] = t]
<1>1. /\ n \in alive /\ a \in loose /\ loose' = loose \ {a} /\ alive' = alive
      /\ node \in [Nodes -> NodeRec] /\ alive \subseteq Nodes /\ loose \subseteq Attrs
      /\ attr \in [Attrs -> AttrPtr]
  BY DEF ts_add_attr, TreeInv, TypeOK, NodeRec
<1>2. /\ s \in Seq(Attrs) /\ IsList(s, node[n].attr_list, attr) /\ a \notin Members(s)
      /\ s # <<>> => node[n].attr_tail = s[Len(s)]
  BY <1>1, AttributesAre
<1> HIDE DEF s
<1>3. Len(s) \in Nat /\ (s = <<>> <=> Len(s) = 0) /\ (s # <<>> => s[Len(s)] \in Members(s))
        /\ Members(s) = {s[i] : i \in 1..Len(s)} /\ Members(s) \subseteq Attrs
  <2>1. s = <<>> <=> Len(s) = 0
    BY <1>2, EmptySeq
  <2>2. Len(s) \in Nat /\ Members(s) = {s[i] : i \in 1..Len(s)} /\ Members(s) \subseteq Attrs
    BY <1>2, MembersOf
  <2> QED
    BY <2>1, <2>2
<1>4. node[n].attr_list = Null <=> s = <<>>
  <2>1. s # <<>> => s[1] \in Attrs
    <3>1. s # <<>> => 1 \in 1..Len(s)
      BY <1>3
    <3> QED
      BY <1>2, <3>1, ElementOfSeq
  <2>2. node[n].attr_list = IF s = <<>> THEN Null ELSE s[1]
    BY <1>2, <1>3 DEF IsList, At
  <2> QED
    BY <2>1, <2>2, Blocks
<1>5. /\ attr' \in [Attrs -> AttrPtr] /\ attr'[a] = Null
      /\ s # <<>> => attr'[s[Len(s)]] = a
      /\ \A x \in Attrs \ {a} : (s = <<>> \/ x # s[Len(s)]) => attr'[x] = attr[x]
  <2>1. Null \in AttrPtr /\ a \in AttrPtr
    BY DEF AttrPtr
  <2>2. CASE s = <<>>
    BY <1>1, <1>4, <2>1, <2>2 DEF ts_add_attr
  <2>3. CASE s # <<>>
    <3> DEFINE last == s[Len(s)]
    <3>1. last \in Attrs /\ last # a /\ node[n].attr_tail = last
      BY <1>2, <1>3, <2>3
    <3>2. attr' = [attr EXCEPT ![a] = Null, ![last] = a]
      BY <1>4, <2>3, <3>1 DEF ts_add_attr
    <3> HIDE DEF last
    <3>3. /\ attr' \in [Attrs -> AttrPtr] /\ attr'[a] = Null /\ attr'[last] = a
          /\ \A x \in Attrs \ {a} : x # last => attr'[x] = attr[x]
      BY <1>1, <2>1, <3>1, <3>2
    <3> QED
      BY <2>3, <3>3 DEF last
  <2> QED
    BY <2>2, <2>3
<1>6. /\ node' \in [Nodes -> NodeRec]
      /\ \A m \in Nodes : /\ node'[m].parent = node[m].parent /\ node'[m].next = node[m].next
                          /\ node'[m].child_list = node[m].child_list
                          /\ node'[m].child_tail = node[m].child_tail
      /\ node'[n].attr_list = (IF s = <<>> THEN a ELSE node[n].attr_list)
      /\ node'[n].attr_tail = a
      /\ \A m \in Nodes \ {n} : node'[m].attr_list = node[m].attr_list
                                /\ node'[m].attr_tail = node[m].attr_tail
  <2> DEFINE f == [node EXCEPT ![n].attr_list = IF s = <<>> THEN a ELSE @]
             g == [f EXCEPT ![n].attr_tail = a]
  <2>1. node' = g
    <3>1. CASE s = <<>>
      BY <1>1, <1>4, <3>1 DEF ts_add_attr
    <3>2. CASE s # <<>>
      <4>1. f = node
        BY <1>1, <3>2 DEF NodeRec
      <4>2. node' = [node EXCEPT ![n].attr_tail = a]
        BY <1>4, <3>2 DEF ts_add_attr
      <4> QED
        BY <4>1, <4>2
    <3> QED
      BY <3>1, <3>2
  <2>2. g \in [Nodes -> NodeRec]
    <3>1. a \in AttrPtr /\ node[n].attr_list \in AttrPtr
      BY <1>1 DEF AttrPtr, NodeRec
    <3>2. f \in [Nodes -> NodeRec]
      BY <1>1, <3>1, FieldSet
    <3> HIDE DEF f
    <3> QED
      BY <3>1, <3>2, FieldSet
  <2>3. ASSUME NEW m \in Nodes
        PROVE  /\ g[m].parent = node[m].parent /\ g[m].next = node[m].next
               /\ g[m].child_list = node[m].child_list /\ g[m].child_tail = node[m].child_tail
               /\ g[m].attr_list = (IF m = n /\ s = <<>> THEN a ELSE node[m].attr_list)
               /\ g[m].attr_tail = (IF m = n THEN a ELSE node[m].attr_tail)
    BY <1>1 DEF NodeRec
  <2> HIDE DEF g
  <2> QED
    BY <1>1, <2>1, <2>2, <2>3
<1>7. TypeOK'
  BY <1>1, <1>5, <1>6 DEF TypeOK, NodeRec
<1>8. Tree(alive', node', Kids)
  BY <1>1, <1>6, SameTree DEF TreeInv
<1>9. Lines(alive', node', Ancestry)
  BY <1>1, <1>6, SameLines DEF TreeInv
<1>10. \A m \in alive : own[m] = IF m = n THEN t ELSE Attributes(m)
  BY DEF Own
<1>11. /\ t \in Seq(Attrs) /\ IsList(t, node'[n].attr_list, attr')
       /\ Members(t) = Members(s) \cup {a} /\ t # <<>> /\ t[Len(t)] = a
  <2>1. \A i \in 1..(Len(s) - 1) : attr'[s[i]] = attr[s[i]]
    <3> SUFFICES ASSUME NEW i \in 1..(Len(s) - 1) PROVE attr'[s[i]] = attr[s[i]]
      OBVIOUS
    <3>1. i \in 1..Len(s) /\ Len(s) \in 1..Len(s) /\ i # Len(s)
      BY <1>3
    <3>2. s[i] # s[Len(s)]
      BY <1>2, <3>1 DEF IsList, Distinct
    <3>3. s[i] \in Attrs \ {a}
      BY <1>2, <1>3, <3>1
    <3> QED
      BY <1>5, <3>2, <3>3
  <2> QED
    BY <1>2, <1>5, <1>6, <2>1, Appended
<1> HIDE DEF own, t
<1>12. AttrLists(alive', node', attr', loose', own)
  <2>1. ASSUME NEW m \in alive
        PROVE  /\ own[m] \in Seq(Attrs) /\ IsList(own[m], node'[m].attr_list, attr')
               /\ own[m] # <<>> => node'[m].attr_tail = own[m][Len(own[m])]
               /\ Members(own[m]) \cap loose' = {}
               /\ \A l \in alive \ {m} : Members(own[l]) \cap Members(own[m]) = {}
    <3>1. /\ Attributes(m) \in Seq(Attrs) /\ IsList(Attributes(m), node[m].attr_list, attr)
          /\ Attributes(m) # <<>> => node[m].attr_tail = Attributes(m)[Len(Attributes(m))]
          /\ Members(Attributes(m)) \cap loose = {}
          /\ \A l \in alive \ {m} : Members(Attributes(l)) \cap Members(Attributes(m)) = {}
      BY AttributesAre
    <3>2. \A l \in alive : Members(own[l]) = IF l = n THEN Members(s) \cup {a}
                                             ELSE Members(Attributes(l))
      BY <1>10, <1>11
    <3>3. \A l \in alive : a \notin Members(Attributes(l))
      BY <1>1, AttributesAre
    <3>4. CASE m = n
      <4>1. \A l \in alive \ {m} : Members(own[l]) \cap Members(own[m]) = {}
        BY <1>1, <3>1, <3>2, <3>3, <3>4 DEF s
      <4>2. Members(own[m]) \cap loose' = {}
        BY <1>1, <3>1, <3>2, <3>4 DEF s
      <4> QED
        BY <1>6, <1>10, <1>11, <3>4, <4>1, <4>2
    <3>5. CASE m # n
      <4>1. own[m] = Attributes(m) /\ m \in Nodes \ {n}
        BY <1>1, <1>10, <3>5
      <4>2. \A x \in Members(Attributes(m)) : attr'[x] = attr[x]
        <5> SUFFICES ASSUME NEW x \in Members(Attributes(m)) PROVE attr'[x] = attr[x]
          OBVIOUS
        <5>1. x \in Attrs
          BY <3>1, MembersOf
        <5>2. x # a /\ x \notin Members(s)
          BY <1>1, <3>1, <3>3, <3>5 DEF s
        <5> QED
          BY <1>3, <1>5, <5>1, <5>2
      <4>3. IsList(own[m], node'[m].attr_list, attr')
        BY <1>6, <3>1, <4>1, <4>2, Untouched
      <4>4. \A l \in alive \ {m} : Members(own[l]) \cap Members(own[m]) = {}
        BY <1>1, <3>1, <3>2, <3>3, <3>5 DEF s
      <4> QED
        BY <1>1, <1>6, <3>1, <4>1, <4>3, <4>4
    <3> QED
      BY <3>4, <3>5
  <2> QED
    BY <1>1, <2>1 DEF AttrLists
<1>13. \A m \in alive : Kids[m] = Children(m)
  BY DEF Kids
<1>14. TreeInv' /\ \A m \in alive' : Children(m)' = Kids[m] /\ Attributes(m)' = own[m]
  BY <1>7, <1>8, <1>9, <1>12, ListsFound
<1> QED
  BY <1>1, <1>10, <1>13, <1>14 DEF s, t

(* A child has a place on its parent's list. *)
LEMMA PlaceOf ==
  ASSUME TreeInv, NEW n \in alive, NEW c \in Members(Children(n))
  PROVE  \E i \in 1..Len(Children(n)) : c = Children(n)[i] /\ c \in alive /\ node[c].parent = n
<1>1. Children(n) \in Seq(Nodes)
  BY ChildrenAre
<1>2. PICK i \in 1..Len(Children(n)) : c = Children(n)[i]
  BY <1>1, MembersOf
<1>3. c \in Nodes
  BY <1>1, MembersOf
<1> QED
  BY <1>2, <1>3, ChildrenAre

LEMMA RemovedChild ==
  ASSUME TreeInv, NEW n \in Nodes, NEW c \in Nodes, ts_remove_child(n, c)
  PROVE  /\ TreeInv'
         /\ \E i \in 1..Len(Children(n)) :
              /\ Children(n)[i] = c
              /\ \A m \in alive' :
                   /\ Children(m)' = IF m = n THEN RemoveAt(Children(n), i) ELSE Children(m)
                   /\ Attributes(m)' = Attributes(m)
<1>1. /\ n \in alive /\ c \in alive /\ c \in Members(Children(n)) /\ node' = Unlinked(n, c)
      /\ attr' = attr /\ alive' = alive /\ loose' = loose /\ alive \subseteq Nodes
  BY DEF ts_remove_child, TreeInv, TypeOK
<1>2. PICK i \in 1..Len(Children(n)) : c = Children(n)[i]
  BY <1>1, PlaceOf
<1> DEFINE kids == [Kids EXCEPT ![n] = RemoveAt(Children(n), i)]
<1>3. /\ node' \in [Nodes -> NodeRec]
      /\ \A m \in Nodes : /\ node'[m].parent = IF m = c THEN Null ELSE node[m].parent
                          /\ node'[m].attr_list = node[m].attr_list
                          /\ node'[m].attr_tail = node[m].attr_tail
  BY <1>1, <1>2, UnlinkedFields
<1>4. TypeOK'
  BY <1>1, <1>3 DEF TreeInv, TypeOK, NodeRec
<1>5. Tree(alive', node', kids)
  BY <1>1, <1>2, UnlinkedTree
<1>6. AttrLists(alive', node', attr', loose', Own)
  BY <1>1, <1>3, SameAttrs DEF TreeInv
<1>7. Lines(alive', node', LinesTo(alive, Ancestry, c))
  <2>1. alive \in SUBSET Nodes /\ c \in alive
    BY <1>1
  <2>2. Lines(alive, node, Ancestry)
    BY DEF TreeInv
  <2>3. Orphaned(node, node', c)
    BY <1>3 DEF Orphaned
  <2>4. Lines(alive, node', LinesTo(alive, Ancestry, c))
    BY <2>1, <2>2, <2>3, UnlinkedLines
  <2> QED
    BY <1>1, <2>4
<1>8. \A m \in alive : kids[m] = (IF m = n THEN RemoveAt(Children(n), i) ELSE Children(m))
                       /\ Own[m] = Attributes(m)
  BY DEF Kids, Own
<1> HIDE DEF kids
<1>9. TreeInv' /\ \A m \in alive' : Children(m)' = kids[m] /\ Attributes(m)' = Own[m]
  BY <1>1, <1>4, <1>5, <1>6, <1>7, ListsFound
<1> QED
  BY <1>1, <1>2, <1>8, <1>9

(* A root c becomes the last child of n, in the trees of mem, which has the *)
(* attributes of node.                                                      *)
LEMMA LinkedStep ==
  ASSUME TreeInv, NEW n \in alive, NEW c \in alive, n # c,
         NEW mem \in [Nodes -> NodeRec], NEW kids, DOMAIN kids = alive, Tree(alive, mem, kids),
         NEW up, Lines(alive, mem, up), mem[c].parent = Null, c \notin Members(up[n]),
         \A m \in Nodes : mem[m].attr_list = node[m].attr_list /\ mem[m].attr_tail = node[m].attr_tail,
         node' = Linked(mem, n, c), UNCHANGED <<attr, alive, loose>>
  PROVE  /\ TreeInv'
         /\ \A m \in alive' : /\ Children(m)' = IF m = n THEN Append(kids[n], c) ELSE kids[m]
                              /\ Attributes(m)' = Attributes(m)
<1> DEFINE kids2 == [kids EXCEPT ![n] = Append(kids[n], c)]
<1>1. alive \subseteq Nodes
  BY DEF TreeInv, TypeOK
<1>2. node' \in [Nodes -> NodeRec] /\ Tree(alive, node', kids2)
  <2>1. alive \in SUBSET Nodes /\ kids2 = [kids EXCEPT ![n] = Append(kids[n], c)]
    BY <1>1
  <2> HIDE DEF kids2
  <2> QED
    BY <2>1, LinkedTree
<1>3. \A m \in Nodes : /\ node'[m].parent = IF m = c THEN n ELSE mem[m].parent
                       /\ node'[m].attr_list = mem[m].attr_list
                       /\ node'[m].attr_tail = mem[m].attr_tail
  <2> DEFINE first == mem[n].child_list
             tail == mem[n].child_tail
             s == kids[n]
  <2>1. first # Null => tail \in Nodes /\ tail # c
    <3>1. /\ s \in Seq(Nodes) /\ first = At(s, 1) /\ (s # <<>> => tail = s[Len(s)])
          /\ \A x \in Nodes : x \in Members(s) <=> x \in alive /\ mem[x].parent = n
      BY DEF Tree, IsList
    <3> HIDE DEF s, first, tail
    <3>2. Members(s) = {s[i] : i \in 1..Len(s)} /\ Len(s) \in Nat /\ Members(s) \subseteq Nodes
      BY <3>1, MembersOf
    <3>3. first # Null => Len(s) \in 1..Len(s) /\ s # <<>>
      <4>1. first # Null => Len(s) >= 1
        BY <3>1, <3>2 DEF At
      <4> QED
        BY <3>2, <4>1, EmptySeq
    <3>4. first # Null => tail \in Members(s)
      BY <3>1, <3>2, <3>3
    <3>5. c \notin Members(s)
      BY <1>1, <3>1, Blocks
    <3> QED
      BY <3>2, <3>4, <3>5
  <2> QED
    BY <1>1, <2>1, LinkedFields
<1>4. PICK up2 : Lines(alive, node', up2)
  BY <1>1, <1>3, LinkedLines
<1>5. AttrLists(alive', node', attr', loose', Own)
  BY <1>1, <1>3, SameAttrs DEF TreeInv
<1>6. TypeOK'
  BY <1>1, <1>2 DEF TreeInv, TypeOK, NodeRec
<1>7. \A m \in alive : kids2[m] = (IF m = n THEN Append(kids[n], c) ELSE kids[m])
                       /\ Own[m] = Attributes(m)
  BY DEF Own
<1> HIDE DEF kids2
<1>8. TreeInv' /\ \A m \in alive' : Children(m)' = kids2[m] /\ Attributes(m)' = Own[m]
  <2>1. Tree(alive', node', kids2) /\ Lines(alive', node', up2)
    BY <1>2, <1>4
  <2>2. TreeInv'
    BY <1>5, <1>6, <2>1, ListsFound
  <2>3. \A m \in alive' : Children(m)' = kids2[m]
    BY <1>5, <1>6, <2>1, ListsFound
  <2>4. \A m \in alive' : Attributes(m)' = Own[m]
    BY <1>5, <1>6, <2>1, ListsFound
  <2> QED
    BY <2>2, <2>3, <2>4
<1> QED
  BY <1>7, <1>8

LEMMA MovedLines ==
  ASSUME TreeInv, NEW c \in alive, NEW taken, Orphaned(node, taken, c)
  PROVE  /\ Lines(alive, taken, LinesTo(alive, Ancestry, c))
         /\ \A m \in alive : c \notin Members(Line(m)) =>
                             c \notin Members(LinesTo(alive, Ancestry, c)[m])
<1>1. Lines(alive, taken, LinesTo(alive, Ancestry, c))
  <2>1. alive \in SUBSET Nodes
    BY DEF TreeInv, TypeOK
  <2>2. Lines(alive, node, Ancestry)
    BY DEF TreeInv
  <2> QED
    BY <2>1, <2>2, UnlinkedLines
<1>2. \A m \in alive : c \notin Members(Line(m)) =>
                       c \notin Members(LinesTo(alive, Ancestry, c)[m])
  BY DEF LinesTo, Ancestry
<1> QED
  BY <1>1, <1>2

LEMMA AddedChild ==
  ASSUME TreeInv, NEW n \in Nodes, NEW c \in Nodes, ts_add_child(n, c)
  PROVE  /\ TreeInv'
         /\ \A m \in alive' : Attributes(m)' = Attributes(m)
         /\ node[c].parent = n => \A m \in alive' : Children(m)' = Children(m)
         /\ node[c].parent # n =>
              /\ Children(n)' = Append(Children(n), c)
              /\ node[c].parent = Null => \A m \in alive' \ {n} : Children(m)' = Children(m)
              /\ node[c].parent # Null =>
                   \E i \in 1..Len(Children(node[c].parent)) :
                     /\ Children(node[c].parent)[i] = c
                     /\ \A m \in alive' \ {n} :
                          Children(m)' = IF m = node[c].parent THEN RemoveAt(Children(m), i)
                                         ELSE Children(m)
<1>1. /\ n \in alive /\ c \in alive /\ c \notin Members(Line(n)) /\ alive \subseteq Nodes
      /\ UNCHANGED <<attr, alive, loose>> /\ node \in [Nodes -> NodeRec]
  BY DEF ts_add_child, TreeInv, TypeOK, NodeRec
<1>2. /\ attr \in [Attrs -> AttrPtr] /\ loose \subseteq Attrs
      /\ Tree(alive, node, Kids) /\ Lines(alive, node, Ancestry)
  BY DEF TreeInv, TypeOK
<1>3. n # c
  <2>1. Line(n) \in Seq(alive) /\ Line(n)[1] = n /\ 1 \in 1..Len(Line(n))
    BY <1>1, LineIs
  <2>2. n \in Members(Line(n))
    BY <2>1, MembersOf
  <2> QED
    BY <1>1, <2>2
<1>4. \A m \in alive : Kids[m] = Children(m) /\ Ancestry[m] = Line(m)
  BY DEF Kids, Ancestry
<1>5. DOMAIN Kids = alive
  BY DEF Kids
<1>6. CASE node[c].parent = n
  <2>1. node' = node
    BY <1>6 DEF ts_add_child
  <2>2. \A m \in alive : \A x \in Members(Attributes(m)) : attr'[x] = attr[x] /\ x \notin loose'
    BY <1>1, AttributesAre
  <2>3. /\ TreeInv'
        /\ \A m \in alive' : Children(m)' = Children(m) /\ Attributes(m)' = Attributes(m)
    BY <1>1, <1>2, <2>1, <2>2, LooseAttrs
  <2> QED
    BY <1>6, <2>3
<1>7. CASE node[c].parent = Null
  <2>1. Null # n
    BY Blocks
  <2>2. node' = Linked(node, n, c)
    BY <1>7, <2>1 DEF ts_add_child
  <2>3. /\ TreeInv'
        /\ \A m \in alive' : /\ Children(m)' = IF m = n THEN Append(Kids[n], c) ELSE Kids[m]
                             /\ Attributes(m)' = Attributes(m)
    BY <1>1, <1>2, <1>3, <1>4, <1>5, <1>7, <2>2, LinkedStep
  <2> QED
    BY <1>1, <1>4, <1>7, <2>1, <2>3
<1>8. CASE node[c].parent \notin {n, Null}
  <2> DEFINE p == node[c].parent
             taken == Unlinked(p, c)
  <2>1. p \in alive /\ c \in Members(Children(p))
    BY <1>1, <1>8, ChildrenAre
  <2>2. node' = Linked(taken, n, c) /\ p # n
    BY <1>8 DEF ts_add_child
  <2> HIDE DEF p
  <2>3. PICK i \in 1..Len(Children(p)) : c = Children(p)[i]
    BY <2>1, PlaceOf
  <2> DEFINE kids == [Kids EXCEPT ![p] = RemoveAt(Children(p), i)]
  <2>4. /\ taken \in [Nodes -> NodeRec]
        /\ \A m \in Nodes : /\ taken[m].parent = IF m = c THEN Null ELSE node[m].parent
                            /\ taken[m].attr_list = node[m].attr_list
                            /\ taken[m].attr_tail = node[m].attr_tail
    BY <2>1, <2>3, UnlinkedFields
  <2>5. Tree(alive, taken, kids)
    BY <2>1, <2>3, UnlinkedTree
  <2> HIDE DEF taken
  <2>6. \A m \in Nodes : taken[m].parent = IF m = c THEN Null ELSE node[m].parent
    BY <2>4
  <2>7. /\ Lines(alive, taken, LinesTo(alive, Ancestry, c))
        /\ c \notin Members(LinesTo(alive, Ancestry, c)[n])
    <3>1. Orphaned(node, taken, c)
      BY <2>6 DEF Orphaned
    <3>2. n \in alive /\ c \in alive /\ c \notin Members(Line(n))
      BY <1>1
    <3> QED
      BY <3>1, <3>2, MovedLines
  <2>8. DOMAIN kids = alive
    BY <1>5
  <2>9. \A m \in alive : kids[m] = IF m = p THEN RemoveAt(Children(p), i) ELSE Children(m)
    BY <1>4, <1>5
  <2> HIDE DEF kids
  <2>10. /\ TreeInv'
         /\ \A m \in alive' : /\ Children(m)' = IF m = n THEN Append(kids[n], c) ELSE kids[m]
                              /\ Attributes(m)' = Attributes(m)
    BY <1>1, <1>3, <2>2, <2>4, <2>5, <2>6, <2>7, <2>8, LinkedStep
  <2>11. kids[n] = Children(n)
    BY <1>1, <2>2, <2>9
  <2> QED
    BY <1>1, <1>8, <2>2, <2>3, <2>9, <2>10, <2>11 DEF p
<1> QED
  BY <1>6, <1>7, <1>8

-----------------------------------------------------------------------------
(* Reached(n) is the least set with n and the children of its members.      *)
LEMMA ReachedLeast ==
  ASSUME TreeInv, NEW n \in alive
  PROVE  /\ Reached(n) \subseteq alive /\ n \in Reached(n)
         /\ \A m \in Reached(n), x \in Nodes : x \in Members(Children(m)) => x \in Reached(n)
         /\ \A S \in SUBSET alive :
              n \in S /\ (\A m \in S : \A x \in Members(Children(m)) : x \in S) => Reached(n) \subseteq S
<1> DEFINE below == UNION {{m} \X Members(Children(m)) : m \in Nodes}
           closed == {S \in SUBSET Nodes : n \in S /\ \A e \in below : e[1] \in S => e[2] \in S}
<1>1. Reached(n) = {m \in Nodes : \A S \in closed : m \in S} /\ alive \subseteq Nodes
  <2>1. Reached(n) = {m \in Nodes : \A S \in closed : m \in S}
    BY Zenon DEF Reached
  <2>2. alive \subseteq Nodes
    BY DEF TreeInv, TypeOK
  <2> HIDE DEF below, closed
  <2> QED
    BY <2>1, <2>2
<1>2. \A e : e \in below <=> \E m \in Nodes : \E x \in Members(Children(m)) : e = <<m, x>>
  OBVIOUS
<1> HIDE DEF below
<1>3. ASSUME NEW S \in SUBSET alive, n \in S, \A m \in S : \A x \in Members(Children(m)) : x \in S
      PROVE  S \in closed
  <2>1. ASSUME NEW e \in below, e[1] \in S PROVE e[2] \in S
    BY <1>2, <1>3, <2>1
  <2> QED
    BY <1>1, <1>3, <2>1
<1>4. n \in Nodes /\ \A S \in closed : n \in S
  BY <1>1
<1>5. ASSUME NEW m \in Reached(n), NEW x \in Nodes, x \in Members(Children(m)) PROVE x \in Reached(n)
  <2>1. <<m, x>> \in below /\ <<m, x>>[1] = m /\ <<m, x>>[2] = x
    BY <1>1, <1>2, <1>5
  <2>2. ASSUME NEW S \in closed PROVE x \in S
    <3>1. m \in S /\ \A e \in below : e[1] \in S => e[2] \in S
      BY <1>1
    <3> QED
      BY <2>1, <3>1
  <2> QED
    BY <1>1, <2>2
<1>6. alive \in closed
  BY <1>3, ChildrenAre, MembersOf
<1> HIDE DEF closed
<1> QED
  BY <1>1, <1>3, <1>4, <1>5, <1>6

(* When n is a root, the parents of the nodes reached are reached, n's      *)
(* apart, and the parent of a node that is not reached is not.              *)
LEMMA ReachedApart ==
  ASSUME TreeInv, NEW n \in Roots
  PROVE  /\ \A x \in Reached(n) : x # n => node[x].parent \in Reached(n)
         /\ \A m \in alive \ Reached(n) :
              /\ node[m].parent \notin Reached(n)
              /\ \A x \in Members(Children(m)) : x \notin Reached(n)
<1> DEFINE gone == Reached(n)
           S == {x \in gone : x # n => node[x].parent \in gone}
<1>1. /\ n \in alive /\ node[n].parent = Null /\ gone \subseteq alive /\ n \in gone
      /\ \A m \in gone, x \in Nodes : x \in Members(Children(m)) => x \in gone
      /\ alive \subseteq Nodes
  BY ReachedLeast DEF Roots, TreeInv, TypeOK
<1>2. gone \subseteq S
  <2>1. ASSUME NEW m \in S, NEW x \in Members(Children(m)) PROVE x \in S
    <3>1. m \in alive /\ m \in gone
      BY <1>1
    <3>2. x \in Nodes /\ node[x].parent = m
      BY <3>1, ChildrenAre, PlaceOf, MembersOf
    <3> QED
      BY <1>1, <3>1, <3>2
  <2>2. S \in SUBSET alive /\ n \in S
    BY <1>1
  <2> HIDE DEF S
  <2> QED
    BY <1>1, <2>1, <2>2, ReachedLeast
<1>3. ASSUME NEW m \in alive \ gone
      PROVE  /\ node[m].parent \notin gone
             /\ \A x \in Members(Children(m)) : x \notin gone
  <2>1. node[m].parent \notin gone
    BY <1>1, ChildrenAre
  <2>2. ASSUME NEW x \in Members(Children(m)) PROVE x \notin gone
    <3>1. node[x].parent = m
      BY PlaceOf
    <3> QED
      BY <1>1, <1>2, <3>1, Blocks
  <2> QED
    BY <2>1, <2>2
<1> QED
  BY <1>2, <1>3

LEMMA FreedTree ==
  ASSUME TreeInv, NEW n \in Nodes, ts_free_tree(n)
  PROVE  /\ TreeInv'
         /\ \A m \in alive' : Children(m)' = Children(m) /\ Attributes(m)' = Attributes(m)
<1> DEFINE gone == Reached(n)
           kids == [m \in alive' |-> Children(m)]
           own == [m \in alive' |-> Attributes(m)]
           up == [m \in alive' |-> Line(m)]
<1>1. /\ n \in Roots /\ n \in alive /\ alive' = alive \ gone /\ loose' = loose
      /\ node \in [Nodes -> NodeRec] /\ attr \in [Attrs -> AttrPtr]
      /\ alive \subseteq Nodes /\ loose \subseteq Attrs
      /\ node' = [m \in Nodes |-> IF m \in gone THEN Freed ELSE node[m]]
      /\ attr' = [a \in Attrs |->
                    IF \E m \in gone : a \in Members(Attributes(m)) THEN Junk ELSE attr[a]]
  BY DEF ts_free_tree, Roots, TreeInv, TypeOK, NodeRec
<1>2. /\ gone \subseteq alive
      /\ \A m \in alive \ gone : /\ node[m].parent \notin gone
                                 /\ \A x \in Members(Children(m)) : x \notin gone
  BY <1>1, ReachedLeast, ReachedApart
<1> HIDE DEF gone
<1>3. /\ node' \in [Nodes -> NodeRec] /\ attr' \in [Attrs -> AttrPtr]
      /\ \A m \in Nodes \ gone : node'[m] = node[m]
      /\ \A m \in gone : node'[m].parent = Junk
  <2>1. Freed \in NodeRec /\ Freed.parent = Junk
    BY DEF Freed, NodeRec, NodePtr, AttrPtr
  <2> QED
    BY <1>1, <1>2, <2>1 DEF AttrPtr
<1>4. TypeOK'
  BY <1>1, <1>3 DEF TypeOK, NodeRec
<1>5. Tree(alive', node', kids)
  <2>1. ASSUME NEW m \in alive'
        PROVE  /\ kids[m] \in Seq(Nodes) /\ IsList(kids[m], node'[m].child_list, NextIn(node'))
               /\ kids[m] # <<>> => node'[m].child_tail = kids[m][Len(kids[m])]
               /\ node'[m].parent \in alive' \cup {Null}
               /\ \A c \in Nodes : c \in Members(kids[m]) <=> c \in alive' /\ node'[c].parent = m
    <3>1. m \in alive \ gone /\ node'[m] = node[m] /\ kids[m] = Children(m)
      BY <1>1, <1>3
    <3>2. \A c \in Nodes : c \in Members(Children(m)) <=> c \in alive /\ node[c].parent = m
      BY <3>1, ChildrenAre
    <3>3. \A x \in Members(Children(m)) : NextIn(node')[x] = NextIn(node)[x]
      <4>1. Members(Children(m)) \subseteq Nodes \ gone
        BY <1>2, <3>1, ChildrenAre, MembersOf
      <4> QED
        BY <1>3, <4>1 DEF NextIn
    <3>4. Children(m) \in Seq(Nodes) /\ IsList(Children(m), node[m].child_list, NextIn(node'))
      BY <3>1, <3>3, ChildrenAre, Untouched
    <3>5. ASSUME NEW c \in Nodes
          PROVE  c \in Members(Children(m)) <=> c \in alive' /\ node'[c].parent = m
      <4>1. c \in gone => c \notin Members(Children(m))
        BY <1>2, <3>1
      <4>2. c \notin gone => node'[c] = node[c]
        BY <1>3
      <4> QED
        BY <1>1, <3>2, <4>1, <4>2
    <3>6. /\ Children(m) # <<>> => node[m].child_tail = Children(m)[Len(Children(m))]
          /\ node[m].parent \in (alive \ gone) \cup {Null}
      BY <1>2, <3>1, ChildrenAre
    <3> QED
      BY <1>1, <3>1, <3>4, <3>5, <3>6
  <2> HIDE DEF kids
  <2> QED
    BY <2>1 DEF Tree
<1>6. AttrLists(alive', node', attr', loose', own)
  <2>1. ASSUME NEW m \in alive'
        PROVE  /\ own[m] \in Seq(Attrs) /\ IsList(own[m], node'[m].attr_list, attr')
               /\ own[m] # <<>> => node'[m].attr_tail = own[m][Len(own[m])]
               /\ Members(own[m]) \cap loose' = {}
               /\ \A l \in alive' \ {m} : Members(own[l]) \cap Members(own[m]) = {}
    <3>1. m \in alive \ gone /\ node'[m] = node[m] /\ own[m] = Attributes(m)
      BY <1>1, <1>3
    <3>2. \A l \in alive \ {m} : Members(Attributes(l)) \cap Members(Attributes(m)) = {}
      BY <3>1, AttributesAre
    <3>3. \A x \in Members(Attributes(m)) : attr'[x] = attr[x]
      <4> SUFFICES ASSUME NEW x \in Members(Attributes(m)) PROVE attr'[x] = attr[x]
        OBVIOUS
      <4>1. x \in Attrs
        BY <3>1, AttributesAre, MembersOf
      <4>2. ~\E l \in gone : x \in Members(Attributes(l))
        BY <1>2, <3>1, <3>2
      <4> QED
        BY <1>1, <4>1, <4>2
    <3>4. Attributes(m) \in Seq(Attrs) /\ IsList(Attributes(m), node[m].attr_list, attr')
      BY <3>1, <3>3, AttributesAre, Untouched
    <3>5. /\ Attributes(m) # <<>> => node[m].attr_tail = Attributes(m)[Len(Attributes(m))]
          /\ Members(Attributes(m)) \cap loose = {}
      BY <3>1, AttributesAre
    <3>6. \A l \in alive' \ {m} : Members(own[l]) \cap Members(own[m]) = {}
      BY <1>1, <3>1, <3>2
    <3> QED
      BY <1>1, <3>1, <3>4, <3>5, <3>6
  <2> HIDE DEF own
  <2> QED
    BY <2>1 DEF AttrLists
<1>7. Lines(alive', node', up)
  <2>1. ASSUME NEW m \in alive' PROVE up[m] \in Seq(alive') /\ IsList(up[m], m, ParentIn(node'))
    <3> DEFINE s == Line(m)
    <3>1. m \in alive \ gone /\ up[m] = s
      BY <1>1
    <3>2. s \in Seq(alive) /\ IsList(s, m, ParentIn(node)) /\ Len(s) \in Nat /\ s[1] = m
      BY <3>1, LineIs
    <3> HIDE DEF s
    <3> DEFINE S == {k \in Nat : k + 1 \in 1..Len(s) => s[k + 1] \notin gone}
    <3>3. 0 \in S
      BY <3>1, <3>2
    <3>4. ASSUME NEW k \in Nat, k \in S PROVE k + 1 \in S
      <4> SUFFICES ASSUME k + 2 \in 1..Len(s) PROVE s[k + 2] \notin gone
        OBVIOUS
      <4>1. k + 1 \in 1..Len(s)
        BY <3>2
      <4>2. s[k + 1] \in alive \ gone
        BY <3>2, <3>4, <4>1, ElementOfSeq
      <4>3. ParentIn(node)[s[k + 1]] = At(s, (k + 1) + 1)
        BY <3>2, <4>1 DEF IsList
      <4>4. At(s, (k + 1) + 1) = s[k + 2] /\ ParentIn(node)[s[k + 1]] = node[s[k + 1]].parent
        BY <1>1, <4>2 DEF At, ParentIn
      <4> QED
        BY <1>2, <4>2, <4>3, <4>4
    <3>5. Nat \subseteq S
      <4> HIDE DEF S
      <4> QED
        BY <3>3, <3>4, Induct
    <3>6. \A j \in 1..Len(s) : s[j] \in alive'
      <4> SUFFICES ASSUME NEW j \in 1..Len(s) PROVE s[j] \in alive'
        OBVIOUS
      <4>1. j - 1 \in Nat /\ (j - 1) + 1 = j
        BY <3>2
      <4>2. \A k \in Nat : k + 1 \in 1..Len(s) => s[k + 1] \notin gone
        BY <3>5
      <4>3. s[j] \notin gone
        BY <4>1, <4>2
      <4> QED
        BY <1>1, <3>2, <4>3, ElementOfSeq
    <3> HIDE DEF S
    <3>7. s \in Seq(alive')
      BY <3>2, <3>6, LenProperties
    <3>8. \A x \in Members(s) : ParentIn(node')[x] = ParentIn(node)[x]
      <4>1. Members(s) \subseteq Nodes \ gone
        BY <1>1, <3>7, MembersOf
      <4> QED
        BY <1>3, <4>1 DEF ParentIn
    <3>9. IsList(s, m, ParentIn(node'))
      BY <3>2, <3>8, Untouched
    <3> QED
      BY <3>1, <3>7, <3>9
  <2> HIDE DEF up
  <2> QED
    BY <2>1 DEF Lines
<1>8. \A m \in alive' : kids[m] = Children(m) /\ own[m] = Attributes(m)
  OBVIOUS
<1> HIDE DEF kids, own, up
<1>9. TreeInv' /\ \A m \in alive' : Children(m)' = kids[m] /\ Attributes(m)' = own[m]
  BY <1>4, <1>5, <1>6, <1>7, ListsFound
<1> QED
  BY <1>8, <1>9

-----------------------------------------------------------------------------
LEMMA TreeInitInv == Init => TreeInv
<1> SUFFICES ASSUME Init PROVE TreeInv
  OBVIOUS
<1>1. TypeOK
  BY DEF Init, TypeOK, Freed, NodePtr, AttrPtr
<1>2. alive = {}
  BY DEF Init
<1> QED
  BY <1>1, <1>2 DEF TreeInv, Tree, AttrLists, Lines

LEMMA TreeNextInv == TreeInv /\ [Next]_vars => TreeInv'
<1> SUFFICES ASSUME TreeInv, [Next]_vars PROVE TreeInv'
  OBVIOUS
<1>1. CASE UNCHANGED vars
  <2>1. UNCHANGED <<node, attr, alive, loose>> /\ attr \in [Attrs -> AttrPtr] /\ loose \subseteq Attrs
    BY <1>1 DEF vars, TreeInv, TypeOK
  <2>2. \A n \in alive : \A x \in Members(Attributes(n)) : attr'[x] = attr[x] /\ x \notin loose'
    BY <2>1, AttributesAre
  <2> QED
    BY <2>1, <2>2, LooseAttrs
<1>2. ASSUME NEW n \in Nodes, ts_alloc_node(n) \/ ts_free_tree(n) PROVE TreeInv'
  BY <1>2, AllocNode, FreedTree
<1>3. ASSUME NEW a \in Attrs, ts_alloc_attr(a) \/ ts_free_attr(a) PROVE TreeInv'
  BY <1>3, AllocAttr
<1>4. ASSUME NEW n \in Nodes, NEW a \in Attrs, ts_add_attr(n, a) PROVE TreeInv'
  BY <1>4, AddAttr
<1>5. ASSUME NEW n \in Nodes, NEW c \in Nodes, ts_add_child(n, c) \/ ts_remove_child(n, c)
      PROVE  TreeInv'
  BY <1>5, AddedChild, RemovedChild
<1> QED
  BY <1>1, <1>2, <1>3, <1>4, <1>5 DEF Next

LEMMA TreeAlwaysInv == Spec => []TreeInv
BY TreeInitInv, TreeNextInv, PTL DEF Spec

(* Every pointer stays a pointer: to a block, Null, Junk, or, in child_tail *)
(* alone, the address ts_remove_child leaves there.                         *)
THEOREM PointersTyped == Spec => []TypeOK
<1>1. TreeInv => TypeOK
  BY DEF TreeInv
<1> QED
  BY <1>1, TreeAlwaysInv, PTL

(* Whatever the blocks and however children are added, moved and removed,   *)
(* parent pointers, child lists and tails agree, no list runs into a freed  *)
(* block, and a tail that will be written through is the last element.      *)
THEOREM PointersAlwaysAgree == Spec => []PointersAgree
BY InvAgrees, TreeAlwaysInv, PTL

-----------------------------------------------------------------------------
(* The lists of the blocks in use are the forest's. *)
KidsOf == [n \in Nodes |-> IF n \in alive THEN Children(n) ELSE <<>>]
OwnOf == [n \in Nodes |-> IF n \in alive THEN Attributes(n) ELSE <<>>]

LEMMA ForestMembers ==
  ASSUME NEW s
  PROVE  AbstractForest!Members(s) = Members(s)
BY DEF AbstractForest!Members, Members

(* Removing c by value is removing it at its place. *)
LEMMA WithoutAt ==
  ASSUME NEW B, NEW s \in Seq(B), Distinct(s), NEW i \in 1..Len(s), NEW c, c = s[i]
  PROVE  AbstractForest!Without(s, c) = RemoveAt(s, i)
<1>1. DOMAIN s = 1..Len(s) /\ c \in Members(s)
  BY LenProperties, MembersOf
<1>2. (CHOOSE k \in DOMAIN s : s[k] = c) = i
  BY <1>1 DEF Distinct
<1> QED
  BY <1>1, <1>2, ForestMembers DEF AbstractForest!Without, AbstractForest!RemoveAt, RemoveAt

LEMMA WithoutNone ==
  ASSUME NEW s, NEW c, c \notin Members(s)
  PROVE  AbstractForest!Without(s, c) = s
BY ForestMembers DEF AbstractForest!Without

(* In the trees, c is taken from its parent's list, and is on no other.     *)
LEMMA WithoutChild ==
  ASSUME TreeInv, NEW c \in Nodes, NEW m \in Nodes
  PROVE  /\ m \notin alive \/ node[c].parent # m \/ c \notin alive =>
              AbstractForest!Without(KidsOf[m], c) = KidsOf[m]
         /\ \A i \in 1..Len(KidsOf[m]) :
              KidsOf[m][i] = c => AbstractForest!Without(KidsOf[m], c) = RemoveAt(KidsOf[m], i)
<1>1. KidsOf[m] \in Seq(Nodes) /\ Distinct(KidsOf[m])
  <2>1. CASE m \in alive
    BY <2>1, ChildrenAre DEF KidsOf, IsList
  <2>2. CASE m \notin alive
    BY <2>2, EmptyList DEF KidsOf, IsList
  <2> QED
    BY <2>1, <2>2
<1>2. ASSUME m \notin alive \/ node[c].parent # m \/ c \notin alive
      PROVE  c \notin Members(KidsOf[m])
  <2>1. CASE m \in alive
    BY <1>2, <2>1, ChildrenAre DEF KidsOf
  <2>2. CASE m \notin alive
    BY <2>2, EmptyList DEF KidsOf
  <2> QED
    BY <2>1, <2>2
<1> QED
  BY <1>1, <1>2, WithoutAt, WithoutNone

(* The forest's subtrees. *)
LEMMA SubtreeLeast ==
  ASSUME NEW n \in Nodes
  PROVE  /\ n \in AbstractForest!Subtree(n) /\ AbstractForest!Subtree(n) \subseteq Nodes
         /\ \A m \in AbstractForest!Subtree(n), x \in Nodes :
              x \in Members(KidsOf[m]) => x \in AbstractForest!Subtree(n)
         /\ \A S \in SUBSET Nodes :
              n \in S /\ (\A m \in S : \A x \in Members(KidsOf[m]) : x \in S) =>
                AbstractForest!Subtree(n) \subseteq S
<1> DEFINE below == UNION {{m} \X Members(KidsOf[m]) : m \in Nodes}
           closed == {S \in SUBSET Nodes : n \in S /\ \A e \in below : e[1] \in S => e[2] \in S}
           tree == AbstractForest!Subtree(n)
<1>1. tree = {m \in Nodes : \A S \in closed : m \in S}
  BY Zenon DEF AbstractForest!Subtree, AbstractForest!Members, Members, KidsOf
<1>2. \A e : e \in below <=> \E m \in Nodes : \E x \in Members(KidsOf[m]) : e = <<m, x>>
  OBVIOUS
<1> HIDE DEF below, tree
<1>3. ASSUME NEW S \in SUBSET Nodes, n \in S, \A m \in S : \A x \in Members(KidsOf[m]) : x \in S
      PROVE  S \in closed
  <2>1. ASSUME NEW e \in below, e[1] \in S PROVE e[2] \in S
    BY <1>2, <1>3, <2>1
  <2> QED
    BY <1>3, <2>1
<1>4. \A S \in closed : n \in S
  OBVIOUS
<1>5. ASSUME NEW m \in tree, NEW x \in Nodes, x \in Members(KidsOf[m]) PROVE x \in tree
  <2>1. m \in Nodes /\ <<m, x>> \in below /\ <<m, x>>[1] = m /\ <<m, x>>[2] = x
    BY <1>1, <1>2, <1>5
  <2>2. ASSUME NEW S \in closed PROVE x \in S
    <3>1. m \in S /\ \A e \in below : e[1] \in S => e[2] \in S
      BY <1>1
    <3> QED
      BY <2>1, <3>1
  <2> QED
    BY <1>1, <2>2
<1> HIDE DEF closed
<1> QED
  BY <1>1, <1>3, <1>4, <1>5 DEF tree

(* What ts_free_tree reaches is the subtree. *)
LEMMA ReachedIsSubtree ==
  ASSUME TreeInv, NEW n \in alive
  PROVE  Reached(n) = AbstractForest!Subtree(n)
<1> DEFINE gone == Reached(n)
           tree == AbstractForest!Subtree(n)
<1>1. alive \subseteq Nodes
  BY DEF TreeInv, TypeOK
<1>2. /\ gone \subseteq alive /\ n \in gone
      /\ \A m \in gone, x \in Nodes : x \in Members(Children(m)) => x \in gone
      /\ \A S \in SUBSET alive :
           n \in S /\ (\A m \in S : \A x \in Members(Children(m)) : x \in S) => gone \subseteq S
  BY ReachedLeast
<1>3. /\ n \in tree /\ tree \subseteq Nodes
      /\ \A m \in tree, x \in Nodes : x \in Members(KidsOf[m]) => x \in tree
      /\ \A S \in SUBSET Nodes :
           n \in S /\ (\A m \in S : \A x \in Members(KidsOf[m]) : x \in S) => tree \subseteq S
  BY <1>1, SubtreeLeast
<1> HIDE DEF gone, tree
<1>4. \A m \in alive : KidsOf[m] = Children(m)
  BY <1>1 DEF KidsOf
<1>5. \A m \in alive : \A x \in Members(Children(m)) : x \in Nodes /\ x \in alive
  BY PlaceOf, ChildrenAre, MembersOf
<1>6. tree \subseteq gone
  <2>1. \A m \in gone : \A x \in Members(KidsOf[m]) : x \in gone
    BY <1>2, <1>4, <1>5
  <2>2. gone \in SUBSET Nodes
    BY <1>1, <1>2
  <2> QED
    BY <1>2, <1>3, <2>1, <2>2
<1>7. gone \subseteq tree
  <2> DEFINE S == tree \cap alive
  <2>1. S \in SUBSET alive /\ n \in S
    BY <1>3
  <2>2. \A m \in S : \A x \in Members(Children(m)) : x \in S
    BY <1>3, <1>4, <1>5
  <2>3. gone \subseteq S
    <3> HIDE DEF S
    <3> QED
      BY <1>2, <2>1, <2>2
  <2> QED
    BY <2>3
<1> QED
  BY <1>6, <1>7 DEF gone, tree

(* The line of a child continues with its parent's. *)
LEMMA LineOfChild ==
  ASSUME TreeInv, NEW x \in alive, NEW m \in alive, node[x].parent = m
  PROVE  /\ Len(Line(x)) = Len(Line(m)) + 1
         /\ \A i \in 1..Len(Line(m)) : Line(x)[i + 1] = Line(m)[i]
<1> DEFINE s == Line(x)
           t == Line(m)
<1>1. /\ s \in Seq(alive) /\ IsList(s, x, ParentIn(node)) /\ Len(s) \in Nat \ {0} /\ s[1] = x
      /\ t \in Seq(alive) /\ IsList(t, m, ParentIn(node)) /\ Len(t) \in Nat \ {0} /\ t[1] = m
  BY LineIs
<1>2. Null \notin alive /\ alive \subseteq Nodes
  BY Blocks DEF TreeInv, TypeOK
<1> HIDE DEF s, t
<1>3. \A i \in 1..Len(t), j \in 1..Len(s), k \in Nat : t[i] = s[j] => At(t, i + k) = At(s, j + k)
  <2>1. s \in Seq(alive) /\ IsList(s, x, ParentIn(node))
    BY <1>1
  <2>2. t \in Seq(alive) /\ IsList(t, m, ParentIn(node))
    BY <1>1
  <2>3. \A i \in 1..Len(s), j \in 1..Len(t), k \in Nat : s[i] = t[j] => At(s, i + k) = At(t, j + k)
    BY <1>2, <2>1, <2>2, Shared
  <2> QED
    BY <2>3
<1>4. 2 \in 1..Len(s) /\ s[2] = m
  <2>1. ParentIn(node)[s[1]] = At(s, 2)
    BY <1>1 DEF IsList
  <2>2. At(s, 2) = m
    BY <1>1, <1>2, <2>1 DEF ParentIn
  <2> QED
    BY <1>1, <1>2, <2>2 DEF At
<1>5. \A k \in Nat : At(t, 1 + k) = At(s, 2 + k)
  <2>1. t[1] = s[2] /\ 1 \in 1..Len(t)
    BY <1>1, <1>4
  <2> QED
    BY <1>3, <1>4, <2>1
<1>6. \A i \in 1..Len(s) : At(s, i) = s[i] /\ s[i] # Null
  BY <1>1, <1>2, ElementOfSeq DEF At
<1>7. \A i \in 1..Len(t) : At(t, i) = t[i] /\ t[i] # Null
  BY <1>1, <1>2, ElementOfSeq DEF At
<1>8. ASSUME NEW i \in 1..Len(t) PROVE i + 1 \in 1..Len(s) /\ s[i + 1] = t[i]
  <2>1. i - 1 \in Nat /\ 1 + (i - 1) = i /\ 2 + (i - 1) = i + 1
    BY <1>1
  <2>2. At(t, 1 + (i - 1)) = At(s, 2 + (i - 1))
    BY <1>5, <2>1
  <2>3. At(s, i + 1) = t[i] /\ t[i] # Null
    BY <1>7, <2>1, <2>2
  <2> QED
    BY <1>1, <2>3 DEF At
<1>9. Len(s) <= Len(t) + 1
  <2>1. At(t, 1 + Len(t)) = At(s, 2 + Len(t))
    BY <1>1, <1>5
  <2>2. At(t, 1 + Len(t)) = Null
    BY <1>1 DEF At
  <2>3. ~(2 + Len(t) \in 1..Len(s))
    BY <1>6, <2>1, <2>2
  <2> QED
    BY <1>1, <2>3
<1>10. Len(s) >= Len(t) + 1
  <2>1. Len(t) \in 1..Len(t)
    BY <1>1
  <2> QED
    BY <1>1, <1>8, <2>1
<1>11. Len(s) = Len(t) + 1
  BY <1>1, <1>9, <1>10
<1> QED
  BY <1>8, <1>11 DEF s, t

(* So the ancestors of a node's parent are its ancestors. *)
LEMMA LineContains ==
  ASSUME TreeInv, NEW x \in alive, NEW m \in alive, node[x].parent = m
  PROVE  Members(Line(m)) \subseteq Members(Line(x))
<1>1. /\ Members(Line(x)) = {Line(x)[j] : j \in 1..Len(Line(x))} /\ Len(Line(x)) \in Nat
      /\ Members(Line(m)) = {Line(m)[j] : j \in 1..Len(Line(m))} /\ Len(Line(m)) \in Nat
  BY LineIs, MembersOf
<1>2. ASSUME NEW i \in 1..Len(Line(m)) PROVE Line(m)[i] \in Members(Line(x))
  <2>1. i + 1 \in 1..Len(Line(x)) /\ Line(x)[i + 1] = Line(m)[i]
    BY <1>1, LineOfChild
  <2> QED
    BY <1>1, <2>1
<1> QED
  BY <1>1, <1>2

(* A node that is no ancestor of n does not have n below it. *)
LEMMA NotBelow ==
  ASSUME TreeInv, NEW n \in alive, NEW c \in alive, c \notin Members(Line(n))
  PROVE  n \notin AbstractForest!Subtree(c)
<1> DEFINE S == {m \in alive : c \in Members(Line(m))}
<1>1. alive \subseteq Nodes
  BY DEF TreeInv, TypeOK
<1>2. c \in S
  <2>1. Line(c) \in Seq(alive) /\ 1 \in 1..Len(Line(c)) /\ Line(c)[1] = c
    BY LineIs
  <2> QED
    BY <2>1, MembersOf
<1>3. ASSUME NEW m \in S, NEW x \in Members(KidsOf[m]) PROVE x \in S
  <2>1. m \in alive /\ c \in Members(Line(m)) /\ x \in Members(Children(m))
    BY <1>1 DEF KidsOf
  <2>2. x \in alive /\ node[x].parent = m
    BY <2>1, PlaceOf
  <2> QED
    BY <2>1, <2>2, LineContains
<1>4. S \in SUBSET Nodes /\ n \notin S
  BY <1>1
<1> HIDE DEF S
<1> QED
  BY <1>1, <1>2, <1>3, <1>4, SubtreeLeast

-----------------------------------------------------------------------------
(* Step by step, the trees do what the forest may do. *)
LEMMA ListsOf ==
  ASSUME TypeOK, TypeOK'
  PROVE  /\ alive \subseteq Nodes /\ alive' \subseteq Nodes
         /\ \A m \in Nodes : /\ KidsOf[m] = IF m \in alive THEN Children(m) ELSE <<>>
                             /\ OwnOf[m] = IF m \in alive THEN Attributes(m) ELSE <<>>
                             /\ KidsOf'[m] = IF m \in alive' THEN Children(m)' ELSE <<>>
                             /\ OwnOf'[m] = IF m \in alive' THEN Attributes(m)' ELSE <<>>
         /\ (\A m \in Nodes : KidsOf'[m] = KidsOf[m]) => KidsOf' = KidsOf
         /\ (\A m \in Nodes : OwnOf'[m] = OwnOf[m]) => OwnOf' = OwnOf
BY DEF TypeOK, KidsOf, OwnOf

LEMMA AllocNodeMaps ==
  ASSUME TreeInv, NEW n \in Nodes, ts_alloc_node(n)
  PROVE  AbstractForest!NewNode(n)
<1>1. /\ TypeOK /\ TypeOK' /\ n \notin alive /\ alive' = alive \cup {n} /\ loose' = loose
      /\ \A m \in alive' : /\ Children(m)' = IF m = n THEN <<>> ELSE Children(m)
                           /\ Attributes(m)' = IF m = n THEN <<>> ELSE Attributes(m)
  BY AllocNode DEF ts_alloc_node, TreeInv
<1>2. KidsOf' = KidsOf /\ OwnOf' = OwnOf
  BY <1>1, ListsOf
<1> QED
  BY <1>1, <1>2 DEF AbstractForest!NewNode, KidsOf, OwnOf

LEMMA AttrMaps ==
  ASSUME TreeInv, NEW a \in Attrs, ts_alloc_attr(a) \/ ts_free_attr(a)
  PROVE  AbstractForest!NewAttr(a) \/ AbstractForest!FreeAttr(a)
<1>1. /\ TypeOK /\ TypeOK' /\ alive' = alive
      /\ \A m \in alive' : Children(m)' = Children(m) /\ Attributes(m)' = Attributes(m)
  BY AllocAttr DEF ts_alloc_attr, ts_free_attr, TreeInv
<1>2. KidsOf' = KidsOf /\ OwnOf' = OwnOf
  BY <1>1, ListsOf
<1>3. CASE ts_alloc_attr(a)
  <2>1. \A m \in alive : a \notin AbstractForest!Members(OwnOf[m])
    BY <1>1, <1>3, ListsOf, ForestMembers DEF ts_alloc_attr, OnSomeList
  <2> QED
    BY <1>1, <1>2, <1>3, <2>1 DEF ts_alloc_attr, AbstractForest!NewAttr, KidsOf, OwnOf
<1>4. CASE ts_free_attr(a)
  BY <1>1, <1>2, <1>4 DEF ts_free_attr, AbstractForest!FreeAttr, KidsOf, OwnOf
<1> QED
  BY <1>3, <1>4

LEMMA AddAttrMaps ==
  ASSUME TreeInv, NEW n \in Nodes, NEW a \in Attrs, ts_add_attr(n, a)
  PROVE  AbstractForest!AddAttr(n, a)
<1>1. /\ TypeOK /\ TypeOK' /\ alive' = alive /\ n \in alive /\ a \in loose /\ loose' = loose \ {a}
      /\ \A m \in alive' :
           /\ Children(m)' = Children(m)
           /\ Attributes(m)' = IF m = n THEN Append(Attributes(n), a) ELSE Attributes(m)
  BY AddAttr DEF ts_add_attr, TreeInv
<1>2. KidsOf' = KidsOf
  BY <1>1, ListsOf
<1>3. OwnOf' = [OwnOf EXCEPT ![n] = Append(OwnOf[n], a)]
  <2>1. \A m \in Nodes : OwnOf'[m] = IF m = n THEN Append(OwnOf[n], a) ELSE OwnOf[m]
    BY <1>1, ListsOf
  <2> QED
    BY <2>1 DEF OwnOf
<1> QED
  BY <1>1, <1>2, <1>3 DEF AbstractForest!AddAttr, KidsOf, OwnOf

LEMMA RemovedChildMaps ==
  ASSUME TreeInv, NEW n \in Nodes, NEW c \in Nodes, ts_remove_child(n, c)
  PROVE  AbstractForest!RemoveChild(c)
<1>1. /\ TypeOK /\ TypeOK' /\ alive' = alive /\ loose' = loose /\ n \in alive /\ c \in alive
      /\ c \in Members(Children(n))
  BY RemovedChild DEF ts_remove_child, TreeInv
<1>2. PICK i \in 1..Len(Children(n)) :
        /\ Children(n)[i] = c
        /\ \A m \in alive' : /\ Children(m)' = IF m = n THEN RemoveAt(Children(n), i) ELSE Children(m)
                             /\ Attributes(m)' = Attributes(m)
  BY RemovedChild
<1>3. OwnOf' = OwnOf
  BY <1>1, <1>2, ListsOf
<1>4. node[c].parent = n
  BY <1>1, PlaceOf
<1>5. ASSUME NEW m \in Nodes PROVE KidsOf'[m] = AbstractForest!Without(KidsOf[m], c)
  <2>1. CASE m = n
    <3>1. KidsOf[n] = Children(n) /\ KidsOf'[n] = RemoveAt(Children(n), i)
      BY <1>1, <1>2, ListsOf
    <3> QED
      BY <1>2, <2>1, <3>1, WithoutChild
  <2>2. CASE m # n
    <3>1. KidsOf'[m] = KidsOf[m]
      BY <1>1, <1>2, <2>2, ListsOf
    <3> QED
      BY <1>4, <2>2, <3>1, WithoutChild
  <2> QED
    BY <2>1, <2>2
<1> QED
  BY <1>1, <1>3, <1>5 DEF AbstractForest!RemoveChild, KidsOf, OwnOf

LEMMA AddedChildMaps ==
  ASSUME TreeInv, NEW n \in Nodes, NEW c \in Nodes, ts_add_child(n, c)
  PROVE  AbstractForest!AddChild(n, c) \/ (KidsOf' = KidsOf /\ OwnOf' = OwnOf
                                           /\ UNCHANGED <<alive, loose>>)
<1>1. /\ TypeOK /\ TypeOK' /\ alive' = alive /\ loose' = loose /\ n \in alive /\ c \in alive
      /\ c \notin Members(Line(n))
      /\ \A m \in alive' : Attributes(m)' = Attributes(m)
  BY AddedChild DEF ts_add_child, TreeInv
<1>2. OwnOf' = OwnOf
  BY <1>1, ListsOf
<1>3. CASE node[c].parent = n
  <2>1. \A m \in alive' : Children(m)' = Children(m)
    BY <1>3, AddedChild
  <2>2. KidsOf' = KidsOf
    BY <1>1, <2>1, ListsOf
  <2> QED
    BY <1>1, <1>2, <2>2
<1>4. CASE node[c].parent # n
  <2>1. KidsOf[n] = Children(n) /\ KidsOf'[n] = Append(KidsOf[n], c)
    <3>1. Children(n)' = Append(Children(n), c)
      BY <1>4, AddedChild
    <3> QED
      BY <1>1, <3>1, ListsOf
  <2>2. ASSUME NEW m \in Nodes \ {n} PROVE KidsOf'[m] = AbstractForest!Without(KidsOf[m], c)
    <3>1. CASE node[c].parent = Null
      <4>1. \A l \in alive' \ {n} : Children(l)' = Children(l)
        BY <1>4, <3>1, AddedChild
      <4>2. KidsOf'[m] = KidsOf[m]
        BY <1>1, <4>1, ListsOf
      <4>3. node[c].parent # m
        BY <3>1, Blocks
      <4> QED
        BY <4>2, <4>3, WithoutChild
    <3>2. CASE node[c].parent # Null
      <4> DEFINE p == node[c].parent
      <4>1. PICK i \in 1..Len(Children(p)) :
              /\ Children(p)[i] = c
              /\ \A l \in alive' \ {n} : Children(l)' = IF l = p THEN RemoveAt(Children(l), i)
                                                       ELSE Children(l)
        BY <1>4, <3>2, AddedChild
      <4>2. p \in alive
        BY <1>1, <3>2, ChildrenAre
      <4>3. CASE m = p
        <5>1. KidsOf[m] = Children(p) /\ KidsOf'[m] = RemoveAt(Children(p), i)
          BY <1>1, <4>1, <4>2, <4>3, ListsOf
        <5> HIDE DEF p
        <5> QED
          BY <4>1, <5>1, WithoutChild
      <4>4. CASE m # p
        <5>1. KidsOf'[m] = KidsOf[m]
          BY <1>1, <4>1, <4>4, ListsOf
        <5> QED
          BY <4>4, <5>1, WithoutChild
      <4> QED
        BY <4>3, <4>4
    <3> QED
      BY <3>1, <3>2
  <2>3. n \notin AbstractForest!Subtree(c)
    BY <1>1, NotBelow
  <2>4. c \notin AbstractForest!Members(KidsOf[n])
    <3>1. c \notin Members(Children(n))
      BY <1>1, <1>4, PlaceOf
    <3> QED
      BY <2>1, <3>1, ForestMembers
  <2> QED
    BY <1>1, <1>2, <2>1, <2>2, <2>3, <2>4 DEF AbstractForest!AddChild, KidsOf, OwnOf
<1> QED
  BY <1>3, <1>4

LEMMA FreedTreeMaps ==
  ASSUME TreeInv, NEW n \in Nodes, ts_free_tree(n)
  PROVE  AbstractForest!FreeTree(n)
<1> DEFINE gone == Reached(n)
<1>1. /\ TypeOK /\ TypeOK' /\ n \in Roots /\ n \in alive /\ alive' = alive \ gone /\ loose' = loose
      /\ \A m \in alive' : Children(m)' = Children(m) /\ Attributes(m)' = Attributes(m)
      /\ node[n].parent = Null
  BY FreedTree DEF ts_free_tree, TreeInv, Roots
<1>2. gone = AbstractForest!Subtree(n) /\ n \in gone /\ gone \subseteq alive
  BY <1>1, ReachedIsSubtree, ReachedLeast
<1> HIDE DEF gone
<1>3. KidsOf' = [m \in Nodes |-> IF m \in gone THEN <<>> ELSE KidsOf[m]]
  <2>1. \A m \in Nodes : KidsOf'[m] = IF m \in gone THEN <<>> ELSE KidsOf[m]
    BY <1>1, <1>2, ListsOf
  <2> QED
    BY <2>1 DEF KidsOf
<1>4. OwnOf' = [m \in Nodes |-> IF m \in gone THEN <<>> ELSE OwnOf[m]]
  <2>1. \A m \in Nodes : OwnOf'[m] = IF m \in gone THEN <<>> ELSE OwnOf[m]
    BY <1>1, <1>2, ListsOf
  <2> QED
    BY <2>1 DEF OwnOf
<1>5. AbstractForest!IsRoot(n)
  <2>1. ASSUME NEW m \in alive PROVE n \notin AbstractForest!Members(KidsOf[m])
    <3>1. n \notin Members(Children(m))
      BY <1>1, PlaceOf, Blocks DEF TypeOK
    <3> QED
      BY <1>1, <3>1, ListsOf, ForestMembers
  <2> QED
    BY <1>1, <2>1 DEF AbstractForest!IsRoot, KidsOf
<1> QED
  BY <1>1, <1>2, <1>3, <1>4, <1>5 DEF AbstractForest!FreeTree, KidsOf, OwnOf

(* However the pointers are set, what they stand for is a forest, and every *)
(* operation does to it what its declaration promises.                      *)
THEOREM TreesImplementForest == Spec => ImplementsForest
<1>1. Init => AbstractForest!Init
  BY DEF Init, AbstractForest!Init
<1>2. TreeInv /\ [Next]_vars => [AbstractForest!Next]_(AbstractForest!vars)
  <2> SUFFICES ASSUME TreeInv, [Next]_vars PROVE AbstractForest!Next \/ UNCHANGED AbstractForest!vars
    OBVIOUS
  <2>1. CASE UNCHANGED vars
    BY <2>1 DEF vars, AbstractForest!vars, Children, Attributes, nextNode
  <2>2. ASSUME NEW n \in Nodes, ts_alloc_node(n) \/ ts_free_tree(n) PROVE AbstractForest!Next
    BY <2>2, AllocNodeMaps, FreedTreeMaps DEF AbstractForest!Next
  <2>3. ASSUME NEW a \in Attrs, ts_alloc_attr(a) \/ ts_free_attr(a) PROVE AbstractForest!Next
    BY <2>3, AttrMaps DEF AbstractForest!Next
  <2>4. ASSUME NEW n \in Nodes, NEW a \in Attrs, ts_add_attr(n, a) PROVE AbstractForest!Next
    BY <2>4, AddAttrMaps DEF AbstractForest!Next
  <2>5. ASSUME NEW n \in Nodes, NEW c \in Nodes, ts_add_child(n, c)
        PROVE  AbstractForest!Next \/ UNCHANGED AbstractForest!vars
    <3>1. CASE AbstractForest!AddChild(n, c)
      BY <3>1 DEF AbstractForest!Next
    <3>2. CASE KidsOf' = KidsOf /\ OwnOf' = OwnOf /\ UNCHANGED <<alive, loose>>
      BY <3>2 DEF AbstractForest!vars, KidsOf, OwnOf
    <3> QED
      BY <2>5, <3>1, <3>2, AddedChildMaps
  <2>6. ASSUME NEW n \in Nodes, NEW c \in Nodes, ts_remove_child(n, c) PROVE AbstractForest!Next
    BY <2>6, RemovedChildMaps DEF AbstractForest!Next
  <2> QED
    BY <2>1, <2>2, <2>3, <2>4, <2>5, <2>6 DEF Next
<1> QED
  BY <1>1, <1>2, TreeAlwaysInv, PTL DEF Spec, ImplementsForest, AbstractForest!Spec

-----------------------------------------------------------------------------
(* Lookups.  The search through a list finds the first of a name.           *)
LEMMA FirstNamedFinds ==
  ASSUME NEW B, NEW s \in Seq(B), NEW name
  PROVE  \/ FirstNamed(s, name) = Null /\ \A i \in 1..Len(s) : NameOf[s[i]] # name
         \/ \E i \in 1..Len(s) : /\ FirstNamed(s, name) = s[i] /\ NameOf[s[i]] = name
                                 /\ \A j \in 1..(i - 1) : NameOf[s[j]] # name
<1> DEFINE hits == {i \in DOMAIN s : NameOf[s[i]] = name}
<1>1. DOMAIN s = 1..Len(s) /\ Len(s) \in Nat
  BY LenProperties
<1>2. CASE hits = {}
  BY <1>1, <1>2 DEF FirstNamed
<1>3. CASE hits # {}
  <2>1. \E m \in hits : \A k \in hits : m <= k
    <3>1. hits \in SUBSET Nat
      BY <1>1
    <3> HIDE DEF hits
    <3> QED
      BY <1>3, <3>1, Least
  <2> DEFINE i == CHOOSE i \in hits : \A j \in hits : i <= j
  <2>2. i \in hits /\ \A j \in hits : i <= j
    <3> HIDE DEF hits
    <3> QED
      BY <2>1
  <2>3. FirstNamed(s, name) = s[i]
    BY <1>3 DEF FirstNamed
  <2> HIDE DEF i
  <2>4. i \in 1..Len(s) /\ NameOf[s[i]] = name
    BY <1>1, <2>2
  <2>5. \A j \in 1..(i - 1) : NameOf[s[j]] # name
    BY <1>1, <2>2, <2>4
  <2> QED
    BY <2>3, <2>4, <2>5
<1> QED
  BY <1>2, <1>3

(* So it finds x by its name if x is the first so named, whatever list it   *)
(* searches, and a list on which it finds x is one that x is on.            *)
LEMMA FindsFirst ==
  ASSUME NEW B, Null \notin B, NEW s \in Seq(B), NEW x \in B
  PROVE  FirstNamed(s, NameOf[x]) = x <=> x \in Members(s) /\ IsFirstNamed(s, x)
<1>1. DOMAIN s = 1..Len(s) /\ Len(s) \in Nat /\ Members(s) = {s[i] : i \in 1..Len(s)}
  BY LenProperties, MembersOf
<1>2. ASSUME FirstNamed(s, NameOf[x]) = x PROVE x \in Members(s) /\ IsFirstNamed(s, x)
  <2>1. x # Null
    OBVIOUS
  <2>2. PICK i \in 1..Len(s) : /\ FirstNamed(s, NameOf[x]) = s[i]
                               /\ \A j \in 1..(i - 1) : NameOf[s[j]] # NameOf[x]
    BY <1>2, <2>1, FirstNamedFinds
  <2> QED
    BY <1>1, <1>2, <2>2 DEF IsFirstNamed
<1>3. ASSUME IsFirstNamed(s, x) PROVE FirstNamed(s, NameOf[x]) = x
  <2>1. PICK i \in 1..Len(s) : s[i] = x /\ \A j \in 1..(i - 1) : NameOf[s[j]] # NameOf[x]
    BY <1>1, <1>3 DEF IsFirstNamed
  <2>2. PICK k \in 1..Len(s) : /\ FirstNamed(s, NameOf[x]) = s[k] /\ NameOf[s[k]] = NameOf[x]
                               /\ \A j \in 1..(k - 1) : NameOf[s[j]] # NameOf[x]
    BY <2>1, FirstNamedFinds
  <2>3. ~(k < i) /\ ~(i < k)
    BY <1>1, <2>1, <2>2
  <2> QED
    BY <1>1, <2>1, <2>2, <2>3
<1> QED
  BY <1>2, <1>3

(* The nodes a descent is at exist as a function: its values for 1..k       *)
(* extend to k + 1.                                                         *)
LEMMA DescentExists ==
  ASSUME NEW root, NEW path, Len(path) \in Nat \ {0}
  PROVE  \E at : /\ Descend(root, path) = at[Len(path)]
                 /\ \A i \in 1..Len(path) :
                      at[i] = IF i = 1 THEN (IF NameOf[root] = path[1] THEN root ELSE Null)
                              ELSE IF at[i - 1] = Null THEN Null
                              ELSE ts_get_child(at[i - 1], path[i])
<1> DEFINE Row(f, i) == IF i = 1 THEN (IF NameOf[root] = path[1] THEN root ELSE Null)
                        ELSE IF f[i - 1] = Null THEN Null ELSE ts_get_child(f[i - 1], path[i])
           S == {k \in Nat : \E f : f = [i \in 1..k |-> Row(f, i)]}
           at == CHOOSE at : at = [i \in 1..Len(path) |-> Row(at, i)]
<1>1. 0 \in S
  <2> DEFINE f == [i \in 1..0 |-> Null]
  <2>1. f = [i \in 1..0 |-> Row(f, i)]
    <3> HIDE DEF Row
    <3> QED
      OBVIOUS
  <2> HIDE DEF Row
  <2> QED
    BY <2>1
<1>2. ASSUME NEW k \in Nat, k \in S PROVE k + 1 \in S
  <2>1. PICK f : f = [i \in 1..k |-> Row(f, i)]
    BY <1>2
  <2> DEFINE g == [i \in 1..(k + 1) |-> IF i <= k THEN f[i] ELSE Row(f, k + 1)]
  <2>2. ASSUME NEW i \in 1..(k + 1) PROVE g[i] = Row(g, i)
    <3>1. g[i] = Row(f, i)
      <4> HIDE DEF Row
      <4>1. CASE i <= k
        BY <2>1, <4>1
      <4>2. CASE i = k + 1
        BY <4>2
      <4> QED
        BY <4>1, <4>2
    <3>2. CASE i = 1
      BY <3>1, <3>2
    <3>3. CASE i > 1
      <4>1. i - 1 \in 1..k /\ g[i - 1] = f[i - 1]
        BY <3>3
      <4> HIDE DEF g
      <4> QED
        BY <3>1, <4>1
    <3> QED
      BY <3>2, <3>3
  <2>3. g = [i \in 1..(k + 1) |-> Row(g, i)]
    <3> HIDE DEF Row
    <3> QED
      BY <2>2
  <2> HIDE DEF g
  <2> QED
    BY <2>3
<1>3. Len(path) \in S
  <2> HIDE DEF S
  <2> QED
    BY <1>1, <1>2, Induct
<1>4. at = [i \in 1..Len(path) |-> Row(at, i)]
  <2> HIDE DEF Row
  <2> QED
    BY <1>3
<1>5. \A i \in 1..Len(path) : at[i] = Row(at, i)
  <2> HIDE DEF Row, at
  <2> QED
    BY <1>4
<1>6. Descend(root, path) = at[Len(path)]
  BY DEF Descend
<1> HIDE DEF at
<1> QED
  BY <1>5, <1>6

(* Upwards from a node reached from a root, the last one is the root. *)
LEMMA RootOf ==
  ASSUME TreeInv, NEW root \in Roots, NEW n \in Reached(root)
  PROVE  root \in alive /\ n \in alive /\ Line(n)[Len(Line(n))] = root
<1> DEFINE S == {m \in alive : Line(m)[Len(Line(m))] = root}
<1>1. root \in alive /\ node[root].parent = Null /\ alive \subseteq Nodes
  BY DEF Roots, TreeInv, TypeOK
<1>2. root \in S
  <2> DEFINE s == Line(root)
  <2>1. s \in Seq(alive) /\ IsList(s, root, ParentIn(node)) /\ Len(s) \in Nat \ {0} /\ s[1] = root
    BY <1>1, LineIs
  <2> HIDE DEF s
  <2>2. At(s, 2) = Null
    <3>1. ParentIn(node)[root] = Null
      BY <1>1 DEF ParentIn
    <3>2. 1 \in 1..Len(s)
      BY <2>1
    <3>3. ParentIn(node)[s[1]] = At(s, 1 + 1)
      BY <2>1, <3>2 DEF IsList
    <3> QED
      BY <2>1, <3>1, <3>3
  <2>3. Len(s) >= 2 => At(s, 2) \in alive
    BY <2>1, ElementOfSeq DEF At
  <2>4. Len(s) = 1
    <3>1. Null \notin alive
      BY <1>1, Blocks
    <3>2. ~(Len(s) >= 2)
      BY <2>2, <2>3, <3>1
    <3>3. Len(s) \in Nat \ {0}
      BY <2>1
    <3>4. ASSUME NEW k \in Nat \ {0}, ~(k >= 2) PROVE k = 1
      BY <3>4
    <3> HIDE DEF S
    <3> QED
      BY <3>2, <3>3, <3>4
  <2> QED
    BY <1>1, <2>1, <2>4 DEF s
<1>3. ASSUME NEW m \in S, NEW x \in Members(Children(m)) PROVE x \in S
  <2>1. m \in alive /\ x \in alive /\ node[x].parent = m
    BY PlaceOf
  <2>2. Len(Line(m)) \in Nat \ {0}
    BY <2>1, LineIs
  <2>3. Len(Line(x)) = Len(Line(m)) + 1 /\ Line(x)[Len(Line(m)) + 1] = Line(m)[Len(Line(m))]
    BY <2>1, <2>2, LineOfChild
  <2> QED
    BY <2>1, <2>3
<1>4. S \in SUBSET alive
  OBVIOUS
<1> HIDE DEF S
<1>5. Reached(root) \subseteq S
  BY <1>1, <1>2, <1>3, <1>4, ReachedLeast
<1> QED
  BY <1>1, <1>5 DEF S

(* A step of the descent along the path of n is at the ancestor it should   *)
(* be at exactly when no namesake has stood in the way so far.              *)
LEMMA DescendsTo ==
  ASSUME TreeInv, NEW root \in Roots, NEW n \in Reached(root)
  PROVE  /\ Len(PathOf(n)) = Len(Line(n))
         /\ Descend(root, PathOf(n)) \in alive \cup {Null}
         /\ Descend(root, PathOf(n)) = n <=> InPlainSight(root, n)
<1> DEFINE L == Line(n)
           d == Len(L)
           up(i) == L[d - i + 1]
           seen(i) == IsFirstNamed(Children(up(i - 1)), up(i))
           path == PathOf(n)
<1>1. n \in alive /\ root \in alive /\ alive \subseteq Nodes /\ Null \notin Nodes
  BY RootOf, Blocks DEF TreeInv, TypeOK
<1>2. /\ L \in Seq(alive) /\ IsList(L, n, ParentIn(node)) /\ d \in Nat \ {0} /\ L[1] = n
      /\ L[d] = root
  BY <1>1, LineIs, RootOf
<1>3. Len(path) = d /\ \A i \in 1..d : path[i] = NameOf[up(i)]
  BY <1>2 DEF PathOf, Reverse
<1>4. PICK at : /\ Descend(root, path) = at[Len(path)]
                /\ \A i \in 1..Len(path) :
                     at[i] = IF i = 1 THEN (IF NameOf[root] = path[1] THEN root ELSE Null)
                             ELSE IF at[i - 1] = Null THEN Null
                             ELSE ts_get_child(at[i - 1], path[i])
  BY <1>2, <1>3, DescentExists
<1> HIDE DEF L, path
<1>5. up(1) = root /\ up(d) = n /\ \A i \in 1..d : up(i) \in alive
  BY <1>2, ElementOfSeq
<1>6. \A i \in 2..d : node[up(i)].parent = up(i - 1)
  <2> SUFFICES ASSUME NEW i \in 2..d PROVE node[up(i)].parent = up(i - 1)
    OBVIOUS
  <2>1. d - i + 1 \in 1..d /\ (d - i + 1) + 1 = d - (i - 1) + 1 /\ (d - i + 1) + 1 \in 1..d
    BY <1>2
  <2>2. ParentIn(node)[L[d - i + 1]] = L[(d - i + 1) + 1]
    BY <1>2, <2>1 DEF IsList, At
  <2>3. up(i) \in Nodes
    BY <1>1, <1>2, <1>5
  <2> QED
    BY <2>1, <2>2, <2>3 DEF ParentIn
<1> HIDE DEF up
<1> DEFINE P(i) == /\ at[i] \in alive \cup {Null}
                   /\ at[i] = up(i) <=> \A j \in 2..i : seen(j)
           S == {k \in Nat : k + 1 <= d => P(k + 1)}
<1>7. 0 \in S
  <2>1. at[1] = root
    BY <1>2, <1>3, <1>4, <1>5
  <2>2. 2..1 = {}
    OBVIOUS
  <2> HIDE DEF seen
  <2> QED
    BY <1>1, <1>5, <2>1, <2>2
<1>8. ASSUME NEW k \in Nat, k \in S PROVE k + 1 \in S
  <2> SUFFICES ASSUME k + 2 <= d PROVE P(k + 2)
    BY DEF P
  <2> DEFINE i == k + 2
  <2>1. i \in 2..d /\ i \in 1..d /\ i - 1 \in 1..d /\ i - 1 = k + 1
    BY <1>2
  <2> HIDE DEF P
  <2>2. P(i - 1)
    BY <1>2, <1>8, <2>1
  <2> HIDE DEF i
  <2>3. /\ at[i - 1] \in alive \cup {Null}
        /\ at[i - 1] = up(i - 1) <=> \A j \in 2..(i - 1) : seen(j)
    BY <2>2 DEF P
  <2>4. at[i] = IF at[i - 1] = Null THEN Null ELSE FirstNamed(Children(at[i - 1]), NameOf[up(i)])
    BY <1>3, <1>4, <2>1 DEF ts_get_child
  <2>5. up(i) \in Nodes /\ up(i) \in alive /\ node[up(i)].parent = up(i - 1) /\ up(i - 1) \in alive
    BY <1>1, <1>5, <1>6, <2>1
  <2>6. at[i] \in alive \cup {Null}
    <3>1. CASE at[i - 1] = Null
      BY <2>4, <3>1
    <3>2. CASE at[i - 1] # Null
      <4> DEFINE s == Children(at[i - 1])
      <4>1. at[i - 1] \in alive /\ s \in Seq(Nodes)
        BY <2>3, <3>2, ChildrenAre
      <4>2. \A l \in 1..Len(s) : s[l] \in alive
        BY <4>1, PlaceOf, MembersOf
      <4>3. at[i] = FirstNamed(s, NameOf[up(i)])
        BY <2>4, <3>2
      <4> HIDE DEF s
      <4> QED
        BY <4>1, <4>2, <4>3, FirstNamedFinds
    <3> QED
      BY <3>1, <3>2
  <2>7. at[i] = up(i) <=> at[i - 1] = up(i - 1) /\ seen(i)
    <3>1. CASE at[i - 1] = Null
      BY <1>1, <2>4, <2>5, <3>1
    <3>2. CASE at[i - 1] # Null
      <4> DEFINE s == Children(at[i - 1])
      <4>1. at[i - 1] \in alive /\ s \in Seq(Nodes)
        BY <2>3, <3>2, ChildrenAre
      <4>2. at[i] = up(i) <=> up(i) \in Members(s) /\ IsFirstNamed(s, up(i))
        <5>1. at[i] = FirstNamed(s, NameOf[up(i)])
          BY <2>4, <3>2
        <5> HIDE DEF s
        <5> QED
          BY <1>1, <2>5, <4>1, <5>1, FindsFirst
      <4>3. up(i) \in Members(s) <=> at[i - 1] = up(i - 1)
        BY <2>5, <4>1, ChildrenAre
      <4> QED
        BY <4>2, <4>3
    <3> QED
      BY <3>1, <3>2
  <2>8. (\A j \in 2..i : seen(j)) <=> (\A j \in 2..(i - 1) : seen(j)) /\ seen(i)
    <3>1. \A j : j \in 2..i <=> j \in 2..(i - 1) \/ j = i
      BY <2>1
    <3> HIDE DEF seen
    <3> QED
      BY <3>1
  <2>9. P(i)
    <3> HIDE DEF seen
    <3> QED
      BY <2>3, <2>6, <2>7, <2>8 DEF P
  <2> QED
    BY <2>9 DEF i
<1>9. P(d)
  <2>1. Nat \subseteq S
    <3> HIDE DEF S
    <3> QED
      BY <1>7, <1>8, Induct
  <2>2. d - 1 \in Nat /\ (d - 1) + 1 = d
    BY <1>2
  <2>3. \A k \in Nat : k + 1 <= d => P(k + 1)
    <3> HIDE DEF P
    <3> QED
      BY <2>1
  <2> HIDE DEF P
  <2> QED
    BY <1>2, <2>2, <2>3
<1>10. (\A j \in 2..d : seen(j)) <=> InPlainSight(root, n)
  <2>1. ASSUME NEW m PROVE m \in Members(L) \ {root} <=> \E j \in 2..d : m = up(j)
    <3>1. Members(L) = {L[j] : j \in 1..d}
      BY <1>2, MembersOf
    <3>2. ASSUME m \in Members(L) \ {root} PROVE \E j \in 2..d : m = up(j)
      <4>1. PICK l \in 1..d : m = L[l]
        BY <3>1, <3>2
      <4>2. l # d
        BY <1>2, <3>2, <4>1
      <4>3. d - l + 1 \in 2..d /\ d - (d - l + 1) + 1 = l
        BY <1>2, <4>2
      <4> QED
        BY <4>1, <4>3 DEF up
    <3>3. ASSUME NEW j \in 2..d, m = up(j) PROVE m \in Members(L) \ {root}
      <4>1. d - j + 1 \in 1..d /\ d \in 1..d /\ d - j + 1 # d
        BY <1>2
      <4>2. L[d - j + 1] # L[d]
        BY <1>2, <4>1 DEF IsList, Distinct
      <4> QED
        BY <1>2, <3>1, <3>3, <4>1, <4>2 DEF up
    <3> QED
      BY <3>2, <3>3
  <2>2. \A j \in 2..d : seen(j) <=> IsFirstNamed(Children(node[up(j)].parent), up(j))
    BY <1>6
  <2> HIDE DEF seen
  <2> QED
    BY <2>1, <2>2 DEF InPlainSight, L
<1> HIDE DEF seen
<1> QED
  BY <1>3, <1>4, <1>5, <1>9, <1>10 DEF path, L

LEMMA InvFinds ==
  ASSUME TreeInv
  PROVE  LookupFindsPaths
<1> SUFFICES ASSUME NEW root \in Roots, NEW n \in Reached(root)
             PROVE  /\ n # root => (ts_lookup_node(root, PathOf(n)) = n <=> InPlainSight(root, n))
                    /\ \A a \in Members(Attributes(n)) :
                         ts_lookup(root, Append(PathOf(n), NameOf[a])) = a
                           <=> InPlainSight(root, n) /\ IsFirstNamed(Attributes(n), a)
  BY DEF LookupFindsPaths
<1> DEFINE path == PathOf(n)
           owner == Descend(root, path)
<1>1. /\ n \in alive /\ root \in alive /\ Len(path) \in Nat \ {0} /\ Len(path) = Len(Line(n))
      /\ owner \in alive \cup {Null} /\ (owner = n <=> InPlainSight(root, n))
  BY RootOf, LineIs, DescendsTo
<1>2. alive \subseteq Nodes /\ Null \notin Attrs
  BY Blocks DEF TreeInv, TypeOK
<1>3. path \in Seq(Names)
  <2>1. \A i \in 1..Len(Line(n)) : Line(n)[Len(Line(n)) - i + 1] \in Nodes
    BY <1>1, <1>2, LineIs, ElementOfSeq
  <2> QED
    BY <1>1, <2>1, BlocksAssumption DEF PathOf, Reverse
<1>4. ASSUME n # root PROVE ts_lookup_node(root, path) = n <=> InPlainSight(root, n)
  <2>1. Len(path) # 1
    <3>1. Line(n)[1] = n /\ Line(n)[Len(Line(n))] = root
      BY <1>1, LineIs, RootOf
    <3> QED
      BY <1>1, <1>4, <3>1
  <2>2. ts_lookup_node(root, path) = owner
    BY <1>1, <2>1 DEF ts_lookup_node
  <2> QED
    BY <1>1, <2>2
<1>5. ASSUME NEW a \in Members(Attributes(n))
      PROVE  ts_lookup(root, Append(path, NameOf[a])) = a
               <=> InPlainSight(root, n) /\ IsFirstNamed(Attributes(n), a)
  <2> DEFINE long == Append(path, NameOf[a])
  <2>1. a \in Attrs /\ NameOf[a] \in Names
    BY <1>1, AttributesAre, MembersOf, BlocksAssumption
  <2>2. Len(long) >= 2 /\ Front(long) = path /\ Last(long) = NameOf[a]
    <3>1. long \in Seq(Names) /\ Len(long) = Len(path) + 1 /\ long[Len(path) + 1] = NameOf[a]
            /\ \A i \in 1..Len(path) : long[i] = path[i]
      BY <1>3, <2>1, AppendProperties
    <3> HIDE DEF long, path
    <3>2. SubSeq(long, 1, Len(path)) \in Seq(Names) /\ Len(SubSeq(long, 1, Len(path))) = Len(path)
            /\ \A i \in 1..Len(path) : SubSeq(long, 1, Len(path))[i] = path[i]
      BY <1>1, <3>1
    <3>3. SubSeq(long, 1, Len(path)) = path
      BY <1>3, <3>2, SeqEqual
    <3> QED
      BY <1>1, <3>1, <3>3 DEF Front, Last
  <2>3. ts_lookup(root, long) = IF owner = Null THEN Null ELSE FirstNamed(Attributes(owner), NameOf[a])
    <3> HIDE DEF long
    <3> QED
      BY <1>1, <2>2 DEF ts_lookup, ts_get_attr
  <2> HIDE DEF long, owner
  <2>4. CASE owner = Null
    <3>1. ts_lookup(root, long) # a
      BY <1>2, <2>1, <2>3, <2>4
    <3>2. owner # n
      BY <1>1, <1>2, <2>4, Blocks
    <3> QED
      BY <1>1, <3>1, <3>2 DEF long
  <2>5. CASE owner # Null
    <3>1. owner \in alive
      BY <1>1, <2>5
    <3>2. Attributes(owner) \in Seq(Attrs)
      BY <3>1, AttributesAre
    <3>3. FirstNamed(Attributes(owner), NameOf[a]) = a
            <=> a \in Members(Attributes(owner)) /\ IsFirstNamed(Attributes(owner), a)
      BY <1>2, <2>1, <3>2, FindsFirst
    <3>4. a \in Members(Attributes(owner)) <=> owner = n
      BY <1>1, <3>1, AttributesAre
    <3>5. ts_lookup(root, long) = FirstNamed(Attributes(owner), NameOf[a])
      BY <2>3, <2>5
    <3>6. CASE owner = n
      BY <1>1, <3>3, <3>5, <3>6 DEF long
    <3>7. CASE owner # n
      BY <1>1, <3>3, <3>4, <3>5, <3>7 DEF long
    <3> QED
      BY <3>6, <3>7
  <2> QED
    BY <2>4, <2>5 DEF long, owner
<1> HIDE DEF owner
<1> QED
  BY <1>4, <1>5

(* Dotted paths find every node and attribute no namesake hides, and        *)
(* nothing else by its path, in any forest the operations can build.        *)
THEOREM LookupsAlwaysFind == Spec => []LookupFindsPaths
BY InvFinds, TreeAlwaysInv, PTL
=============================================================================
