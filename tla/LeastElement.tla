----------------------------- MODULE LeastElement -----------------------------
(***************************************************************************)
(* Loops of the code that stop at the first match are modelled with Min,   *)
(* trimming from the right with Max.                                       *)
(* A non-empty set of indices has a least one: the initial segments of the *)
(* set are well-founded under strict inclusion.  What else needs induction *)
(* takes the least counterexample: here, that a recursive function on an   *)
(* interval, which is a CHOOSE, is one.  Texts read unit by unit are rows  *)
(* of their parts, taken apart at either end.                              *)
(***************************************************************************)
EXTENDS Ordering, SequencesExt, FiniteSetTheorems, SequenceTheorems, WellFoundedInduction, TLAPS

(* Min of a non-empty set of indices is its least element. *)
LEMMA MinOfIndices ==
  ASSUME NEW n \in Nat, NEW S \in SUBSET (1..n), S # {}
  PROVE  Min(S) \in S /\ \A y \in S : Min(S) <= y
<1> DEFINE seg(x) == {y \in S : y <= x}
           Segs == {seg(x) : x \in S}
<1>1. IsFiniteSet(S)
  <2>1. IsFiniteSet(1..n)
    BY FS_Interval
  <2> QED BY <2>1, FS_Subset
<1>2. Segs \subseteq SUBSET S /\ Segs # {}
  OBVIOUS
<1>3. PICK T \in Segs : \A U \in Segs : <<U, T>> \notin StrictSubsetOrdering(S)
  <2> HIDE DEF Segs
  <2>1. FiniteSubsetsOf(S) = SUBSET S
    BY <1>1, FS_FiniteSubsetsOfFinite
  <2>2. IsWellFoundedOn(StrictSubsetOrdering(S), SUBSET S)
    BY <2>1, FS_StrictSubsetOrderingWellFounded
  <2> QED BY <1>2, <2>2, WFMin, Zenon
<1>4. PICK x \in S : T = seg(x)
  OBVIOUS
<1>5. \A y \in S : x <= y
  <2> SUFFICES ASSUME NEW y \in S, y < x PROVE FALSE
    OBVIOUS
  <2>1. \A z \in S : z <= y => z <= x
    OBVIOUS
  <2>2. x <= x /\ ~(x <= y)
    OBVIOUS
  <2>3. seg(y) \subseteq seg(x) /\ seg(y) # seg(x)
    BY <2>1, <2>2
  <2>4. seg(y) \in Segs /\ seg(x) \in Segs
    OBVIOUS
  <2> HIDE DEF seg, Segs
  <2> QED BY <1>2, <1>3, <1>4, <2>3, <2>4 DEF StrictSubsetOrdering
<1> QED BY <1>5 DEF Min

(* And Max its greatest one: the least of the set counted from the other end. *)
LEMMA MaxOfIndices ==
  ASSUME NEW n \in Nat, NEW S \in SUBSET (1..n), S # {}
  PROVE  Max(S) \in S /\ \A y \in S : Max(S) >= y
<1> DEFINE R == {n + 1 - x : x \in S}
<1>1. R \in SUBSET (1..n) /\ R # {}
  <2>1. \A x \in S : n + 1 - x \in 1..n
    OBVIOUS
  <2>2. R \subseteq 1..n
    BY <2>1
  <2>3. PICK x \in S : TRUE
    OBVIOUS
  <2>4. n + 1 - x \in R
    BY <2>3
  <2> HIDE DEF R
  <2> QED BY <2>2, <2>4
<1>2. Min(R) \in R /\ \A y \in R : Min(R) <= y
  <2> HIDE DEF R
  <2> QED BY <1>1, MinOfIndices
<1>3. PICK x \in S : Min(R) = n + 1 - x
  BY <1>2
<1>4. \A y \in S : x >= y
  <2> SUFFICES ASSUME NEW y \in S PROVE x >= y
    OBVIOUS
  <2>1. n + 1 - y \in R
    OBVIOUS
  <2>2. n + 1 - x <= n + 1 - y
    BY <1>2, <1>3, <2>1
  <2> QED BY <2>2
<1> QED BY <1>4 DEF Max

(* f starts with base, and each of its values is made of the one before. *)
IsRecursion(f, n, base, G) == f = [i \in 0..n |-> IF i = 0 THEN base ELSE G[<<i, f[i - 1]>>]]

LEMMA RecursionExists ==
  ASSUME NEW n \in Nat, NEW S, NEW base \in S, NEW G \in [(1..n) \X S -> S]
  PROVE  \E f : IsRecursion(f, n, base, G)
<1> DEFINE Step(f, i) == IF i = 0 THEN base ELSE G[<<i, f[i - 1]>>]
           Bad == {m \in 1..n : ~ \E f : IsRecursion(f, m, base, G)}
<1>1. IsRecursion([i \in 0..0 |-> base], 0, base, G)
  BY DEF IsRecursion
<1>2. Bad = {}
  <2> SUFFICES ASSUME Bad # {} PROVE FALSE
    OBVIOUS
  <2> DEFINE m == Min(Bad)
  <2>1. m \in Bad /\ \A y \in Bad : m <= y
    BY MinOfIndices
  <2> HIDE DEF m
  <2>2. m \in 1..n /\ m - 1 \in Nat /\ m # 0
    BY <2>1
  <2>3. PICK f : IsRecursion(f, m - 1, base, G)
    <3>1. CASE m = 1
      BY <1>1, <3>1, m - 1 = 0
    <3>2. CASE m # 1
      <4>1. m - 1 \in 1..n /\ ~(m <= m - 1)
        BY <2>2, <3>2
      <4> QED BY <2>1, <4>1
    <3> QED BY <3>1, <3>2
  <2>4. \A i \in 0..m - 1 : f[i] = Step(f, i)
    BY <2>3 DEF IsRecursion
  <2> DEFINE g == [i \in 0..m |-> IF i = m THEN Step(f, m) ELSE f[i]]
  <2>5. \A i \in 0..m - 1 : g[i] = f[i]
    BY <2>2
  <2>6. \A i \in 0..m : g[i] = Step(g, i)
    <3> SUFFICES ASSUME NEW i \in 0..m PROVE g[i] = Step(g, i)
      OBVIOUS
    <3>1. g[i] = Step(f, i)
      <4>1. CASE i = m
        BY <4>1
      <4>2. CASE i # m
        <5>1. i \in 0..m - 1
          BY <2>2, <4>2
        <5> QED BY <2>4, <2>5, <5>1
      <4> QED BY <4>1, <4>2
    <3>2. i # 0 => g[i - 1] = f[i - 1]
      <4>1. i # 0 => i - 1 \in 0..m - 1
        BY <2>2
      <4> QED BY <2>5, <4>1
    <3> HIDE DEF g
    <3> QED BY <3>1, <3>2
  <2>7. IsRecursion(g, m, base, G)
    <3>1. g = [i \in 0..m |-> g[i]]
      OBVIOUS
    <3> HIDE DEF g
    <3> QED BY <2>6, <3>1 DEF IsRecursion
  <2> QED BY <2>1, <2>7
<1>3. CASE n = 0
  BY <1>1, <1>3
<1>4. CASE n # 0
  <2>1. n \in 1..n /\ n \notin Bad
    BY <1>2, <1>4
  <2> QED BY <2>1
<1> QED BY <1>3, <1>4

(* Its values stay in a set that steps do not leave. *)
LEMMA RecursionValues ==
  ASSUME NEW n \in Nat, NEW S, NEW base \in S, NEW G \in [(1..n) \X S -> S], NEW f, IsRecursion(f, n, base, G)
  PROVE  f[0] = base /\ f[0] \in S /\ \A i \in 1..n : f[i - 1] \in S /\ f[i] \in S /\ f[i] = G[<<i, f[i - 1]>>]
<1>1. f[0] = base /\ \A i \in 1..n : f[i] = G[<<i, f[i - 1]>>]
  <2>1. 0 \in 0..n /\ \A i \in 1..n : i \in 0..n /\ i # 0
    OBVIOUS
  <2> QED BY <2>1 DEF IsRecursion
<1> DEFINE Bad == {i \in 1..n : f[i] \notin S}
<1>2. Bad = {}
  <2> SUFFICES ASSUME Bad # {} PROVE FALSE
    OBVIOUS
  <2> DEFINE m == Min(Bad)
  <2>1. m \in Bad /\ \A y \in Bad : m <= y
    BY MinOfIndices
  <2> HIDE DEF m
  <2>2. m \in 1..n
    BY <2>1
  <2>3. f[m - 1] \in S
    <3>1. CASE m = 1
      BY <1>1, <3>1, m - 1 = 0
    <3>2. CASE m # 1
      <4>1. m - 1 \in 1..n /\ ~(m <= m - 1)
        BY <2>2, <3>2
      <4> QED BY <2>1, <4>1
    <3> QED BY <3>1, <3>2
  <2> QED BY <1>1, <2>1, <2>2, <2>3
<1>3. \A i \in 1..n : f[i] \in S
  BY <1>2
<1>4. \A i \in 1..n : f[i - 1] \in S
  <2> SUFFICES ASSUME NEW i \in 1..n PROVE f[i - 1] \in S
    OBVIOUS
  <2>1. CASE i = 1
    BY <1>1, <2>1, i - 1 = 0
  <2>2. CASE i # 1
    BY <1>3, <2>2, i - 1 \in 1..n
  <2> QED BY <2>1, <2>2
<1> QED BY <1>1, <1>3, <1>4

-------------------------------------------------------------------------------
(* A sequence of the elements of a set of numbers, from the least on. *)
Enumerates(s, S) ==
  /\ s \in Seq(S)
  /\ \A i, j \in DOMAIN s : i < j => s[i] < s[j]
  /\ \A x \in S : \E i \in DOMAIN s : s[i] = x

(* There is only one, FromLeast. *)
LEMMA OnlyEnumeration ==
  ASSUME NEW S \in SUBSET Int, NEW s, Enumerates(s, S)
  PROVE  s = FromLeast(S) /\ IsFiniteSet(S) /\ Cardinality(S) = Len(s)
<1>1. s \in [1..Len(s) -> S] /\ Len(s) \in Nat
  BY DEF Enumerates
<1>2. \A i, j \in 1..Len(s) : s[i] <= s[j] <=> i <= j
  <2> SUFFICES ASSUME NEW i \in 1..Len(s), NEW j \in 1..Len(s) PROVE s[i] <= s[j] <=> i <= j
    OBVIOUS
  <2>1. s[i] \in Int /\ s[j] \in Int
    BY <1>1
  <2>2. (i < j => s[i] < s[j]) /\ (j < i => s[j] < s[i])
    BY <1>1 DEF Enumerates
  <2> QED BY <2>1, <2>2
<1>3. ASSUME NEW T \in SUBSET S, NEW k \in 0..Len(s), \A i \in 1..Len(s) : s[i] \in T <=> i <= k
      PROVE  IsFiniteSet(T) /\ Cardinality(T) = k
  <2> DEFINE f == [i \in 1..k |-> s[i]]
  <2>1. f \in [1..k -> T]
    BY <1>1, <1>3
  <2>2. \A i, j \in 1..k : f[i] = f[j] => i = j
    <3> SUFFICES ASSUME NEW i \in 1..k, NEW j \in 1..k, f[i] = f[j] PROVE i = j
      OBVIOUS
    <3>1. i \in 1..Len(s) /\ j \in 1..Len(s)
      BY <1>1
    <3>2. s[i] = s[j] /\ s[i] \in S
      BY <1>1, <3>1
    <3>3. s[i] \in Int
      BY <3>2
    <3> QED BY <1>2, <3>1, <3>2, <3>3
  <2>3. \A x \in T : \E i \in 1..k : f[i] = x
    <3> SUFFICES ASSUME NEW x \in T PROVE \E i \in 1..k : f[i] = x
      OBVIOUS
    <3>1. PICK i \in 1..Len(s) : s[i] = x
      BY <1>1 DEF Enumerates
    <3>2. i \in 1..k
      BY <1>3, <3>1
    <3> QED BY <3>1, <3>2
  <2>4. ExistsBijection(1..k, T)
    <3>1. f \in Injection(1..k, T) /\ f \in Surjection(1..k, T)
      <4> HIDE DEF f
      <4> QED BY <2>1, <2>2, <2>3 DEF Injection, IsInjective, Surjection
    <3> QED BY <3>1 DEF ExistsBijection, Bijection
  <2>5. IsFiniteSet(1..k) /\ Cardinality(1..k) = k
    BY FS_Interval
  <2> QED BY <2>4, <2>5, FS_Bijection
<1>4. IsFiniteSet(S) /\ Cardinality(S) = Len(s)
  <2>1. \A i \in 1..Len(s) : s[i] \in S <=> i <= Len(s)
    BY <1>1
  <2> QED BY <1>1, <1>3, <2>1
<1>5. \A i \in 1..Len(s) : Cardinality({y \in S : y <= s[i]}) = i
  <2> SUFFICES ASSUME NEW i \in 1..Len(s) PROVE Cardinality({y \in S : y <= s[i]}) = i
    OBVIOUS
  <2> DEFINE T == {y \in S : y <= s[i]}
  <2>1. \A j \in 1..Len(s) : s[j] \in T <=> j <= i
    BY <1>1, <1>2
  <2>2. T \in SUBSET S /\ i \in 0..Len(s)
    OBVIOUS
  <2> HIDE DEF T
  <2>3. Cardinality(T) = i
    BY <1>3, <2>1, <2>2
  <2> QED BY <2>3 DEF T
<1>6. \A i \in 1..Len(s) : (CHOOSE x \in S : Cardinality({y \in S : y <= x}) = i) = s[i]
  <2> SUFFICES ASSUME NEW i \in 1..Len(s) PROVE (CHOOSE x \in S : Cardinality({y \in S : y <= x}) = i) = s[i]
    OBVIOUS
  <2>1. \A x \in S : Cardinality({y \in S : y <= x}) = i <=> x = s[i]
    <3> SUFFICES ASSUME NEW x \in S PROVE Cardinality({y \in S : y <= x}) = i <=> x = s[i]
      OBVIOUS
    <3>1. PICK j \in 1..Len(s) : s[j] = x
      BY <1>1 DEF Enumerates
    <3>2. Cardinality({y \in S : y <= x}) = j
      BY <1>5, <3>1
    <3>3. s[i] = s[j] => i = j
      <4>1. s[i] \in Int /\ s[j] \in Int
        BY <1>1
      <4> QED BY <1>2, <4>1
    <3> QED BY <3>1, <3>2, <3>3
  <2>2. s[i] \in S
    BY <1>1
  <2> QED BY <2>1, <2>2
<1>7. s = [i \in 1..Len(s) |-> CHOOSE x \in S : Cardinality({y \in S : y <= x}) = i]
  <2>1. s = [i \in 1..Len(s) |-> s[i]]
    BY <1>1
  <2> QED BY <1>6, <2>1, Zenon
<1> QED BY <1>4, <1>7 DEF FromLeast

(* There is one if the numbers are bounded. *)
LEMMA Enumeration ==
  ASSUME NEW n \in Nat, NEW S \in SUBSET (1..n)
  PROVE  Enumerates(FromLeast(S), S)
<1> DEFINE Upto(m) == {x \in S : x <= m}
           Bad == {m \in 1..n : ~ \E s : Enumerates(s, Upto(m))}
<1>0. \A m : \A x : x \in Upto(m) <=> x \in S /\ x <= m
  OBVIOUS
<1>s. \A x \in S : x \in 1..n /\ x \in Int
  OBVIOUS
<1> HIDE DEF Upto
<1>1. \E s : Enumerates(s, Upto(0))
  <2>1. Upto(0) = {}
    <3>1. \A x \in S : ~(x <= 0)
      BY <1>s
    <3> QED BY <1>0, <3>1
  <2>2. Enumerates(<< >>, {})
    BY DEF Enumerates
  <2> QED BY <2>1, <2>2
<1>2. Bad = {}
  <2> SUFFICES ASSUME Bad # {} PROVE FALSE
    OBVIOUS
  <2> DEFINE m == Min(Bad)
  <2>1. m \in Bad /\ \A y \in Bad : m <= y
    BY MinOfIndices
  <2> HIDE DEF m
  <2>2. m \in 1..n
    BY <2>1
  <2>3. PICK s : Enumerates(s, Upto(m - 1))
    <3>1. CASE m = 1
      BY <1>1, <3>1, m - 1 = 0
    <3>2. CASE m # 1
      <4>1. m - 1 \in 1..n /\ ~(m <= m - 1)
        BY <2>2, <3>2
      <4> QED BY <2>1, <4>1
    <3> QED BY <3>1, <3>2
  <2>4. CASE m \notin S
    <3>0. \A x \in S : x <= m <=> x <= m - 1
      BY <1>s, <2>2, <2>4
    <3>1. Upto(m) = Upto(m - 1)
      <4>1. \A x : x \in Upto(m) <=> x \in Upto(m - 1)
        BY <1>0, <3>0
      <4> QED BY <4>1
    <3> QED BY <2>1, <2>3, <3>1
  <2>5. CASE m \in S
    <3> DEFINE t == Append(s, m)
    <3>1. Upto(m) = Upto(m - 1) \cup {m} /\ \A x \in Upto(m - 1) : x < m /\ x \in Int
      <4>1. \A x \in S : x <= m <=> x <= m - 1 \/ x = m
        BY <1>s, <2>2, <2>5
      <4>2. \A x \in S : x <= m - 1 => x < m /\ x \in Int
        BY <1>s, <2>2
      <4>3. \A x : x \in Upto(m) <=> x \in Upto(m - 1) \cup {m}
        BY <1>0, <2>5, <4>1
      <4> QED BY <1>0, <4>2, <4>3
    <3>2. s \in Seq(Upto(m)) /\ m \in Upto(m)
      BY <2>3, <3>1 DEF Enumerates
    <3>3. t \in Seq(Upto(m)) /\ Len(t) = Len(s) + 1 /\ Len(s) \in Nat
          /\ t[Len(s) + 1] = m /\ \A i \in 1..Len(s) : t[i] = s[i]
      BY <3>2
    <3>4. s \in [1..Len(s) -> Upto(m - 1)]
      BY <2>3 DEF Enumerates
    <3> HIDE DEF t
    <3>5. ASSUME NEW i \in DOMAIN t, NEW j \in DOMAIN t, i < j PROVE t[i] < t[j]
      <4>1. i \in 1..Len(s) /\ (j \in 1..Len(s) \/ j = Len(s) + 1)
        BY <3>3, <3>5
      <4>2. CASE j \in 1..Len(s)
        BY <2>3, <3>3, <3>4, <3>5, <4>1, <4>2 DEF Enumerates
      <4>3. CASE j = Len(s) + 1
        <5>1. s[i] \in Upto(m - 1)
          BY <3>4, <4>1
        <5> QED BY <3>1, <3>3, <4>1, <4>3, <5>1
      <4> QED BY <4>1, <4>2, <4>3
    <3>6. ASSUME NEW x \in Upto(m) PROVE \E i \in DOMAIN t : t[i] = x
      <4>1. CASE x = m
        BY <3>3, <4>1
      <4>2. CASE x \in Upto(m - 1)
        <5>1. PICK i \in 1..Len(s) : s[i] = x
          BY <2>3, <3>4, <4>2 DEF Enumerates
        <5> QED BY <3>3, <5>1
      <4> QED BY <3>1, <4>1, <4>2
    <3>7. Enumerates(t, Upto(m))
      BY <3>3, <3>5, <3>6 DEF Enumerates
    <3> QED BY <2>1, <3>7
  <2> QED BY <2>4, <2>5
<1>3. PICK s : Enumerates(s, Upto(n))
  <2>1. CASE n = 0
    BY <1>1, <2>1
  <2>2. CASE n # 0
    <3>1. n \in 1..n /\ n \notin Bad
      BY <1>2, <2>2
    <3> QED BY <3>1
  <2> QED BY <2>1, <2>2
<1>4. Upto(n) = S /\ S \in SUBSET Int
  <2>1. \A x \in S : x <= n
    BY <1>s
  <2>2. \A x : x \in Upto(n) <=> x \in S
    BY <1>0, <2>1
  <2> QED BY <1>s, <2>2
<1> QED BY <1>3, <1>4, OnlyEnumeration

-------------------------------------------------------------------------------
(* In what order the elements of sequences come when these are put together:  *)
(* at[i] are before those of the i-th.                                         *)
ArePlaces(at, seqs, flat) ==
  /\ at \in [DOMAIN seqs -> Nat]
  /\ \A i \in DOMAIN seqs : \A k \in DOMAIN seqs[i] :
       at[i] + k \in DOMAIN flat /\ flat[at[i] + k] = seqs[i][k]
  /\ \A p \in DOMAIN flat : \E i \in DOMAIN seqs : \E k \in DOMAIN seqs[i] : p = at[i] + k
  /\ \A i, j \in DOMAIN seqs : i < j => at[i] + Len(seqs[i]) <= at[j]

LEMMA ConcatPlaces ==
  ASSUME NEW S, NEW s \in Seq(S), NEW t \in Seq(S)
  PROVE  /\ s \o t \in Seq(S) /\ Len(s \o t) = Len(s) + Len(t) /\ Len(s) \in Nat /\ Len(t) \in Nat
         /\ \A p \in 1..Len(s) : p \in DOMAIN (s \o t) /\ (s \o t)[p] = s[p]
         /\ \A k \in 1..Len(t) : Len(s) + k \in DOMAIN (s \o t) /\ (s \o t)[Len(s) + k] = t[k]
         /\ \A p \in DOMAIN (s \o t) : p \in 1..Len(s) \/ \E k \in 1..Len(t) : p = Len(s) + k
<1>1. /\ s \o t \in Seq(S) /\ Len(s \o t) = Len(s) + Len(t) /\ Len(s) \in Nat /\ Len(t) \in Nat
      /\ DOMAIN (s \o t) = 1..Len(s) + Len(t)
  OBVIOUS
<1>2. ASSUME NEW p \in DOMAIN (s \o t), p \notin 1..Len(s) PROVE \E k \in 1..Len(t) : p = Len(s) + k
  <2>1. p - Len(s) \in 1..Len(t) /\ p = Len(s) + (p - Len(s))
    BY <1>1, <1>2
  <2> QED BY <2>1
<1> QED BY <1>1, <1>2

(* What is put together of the first sequences, for every number of them. *)
Concatenates(f, L, seqs, E) ==
  /\ f[0] = << >>
  /\ \A i \in 1..L : f[i - 1] \in Seq(E) /\ f[i] \in Seq(E) /\ f[i] = f[i - 1] \o seqs[i]

LEMMA Concatenations ==
  ASSUME NEW L \in Nat, NEW E, NEW seqs
  PROVE  (\A i \in 1..L : seqs[i] \in Seq(E)) => \E f : Concatenates(f, L, seqs, E)
<1>0. SUFFICES ASSUME \A i \in 1..L : seqs[i] \in Seq(E)
      PROVE  \E f : Concatenates(f, L, seqs, E)
  OBVIOUS
<1> DEFINE G == [p \in (1..L) \X Seq(E) |-> p[2] \o seqs[p[1]]]
<1>1. G \in [(1..L) \X Seq(E) -> Seq(E)] /\ \A i \in 1..L, s \in Seq(E) : G[<<i, s>>] = s \o seqs[i]
  <2>1. \A p \in (1..L) \X Seq(E) : p[2] \in Seq(E) /\ seqs[p[1]] \in Seq(E)
    BY <1>0
  <2>2. \A p \in (1..L) \X Seq(E) : p[2] \o seqs[p[1]] \in Seq(E)
    BY <2>1, ConcatProperties
  <2> QED BY <2>2
<1> HIDE DEF G
<1>2. PICK base, T : base = << >> /\ T = Seq(E)
  OBVIOUS
<1>3. base \in T /\ G \in [(1..L) \X T -> T]
  <2>1. << >> \in Seq(E)
    OBVIOUS
  <2> QED BY <1>1, <1>2, <2>1
<1>4. PICK f : IsRecursion(f, L, base, G)
  BY <1>3, RecursionExists
<1>5. f[0] = base
  BY <1>4, 0 \in 0..L DEF IsRecursion
<1>6. \A j \in 1..L : f[j - 1] \in T /\ f[j] \in T /\ f[j] = G[<<j, f[j - 1]>>]
  BY <1>3, <1>4, RecursionValues
<1> QED BY <1>1, <1>2, <1>5, <1>6 DEF Concatenates

(* What FlattenSeq computes is a recursive function on 1..Len(seqs). *)
LEMMA FlattenStep ==
  ASSUME NEW S, NEW seqs \in Seq(Seq(S)), seqs # << >>
  PROVE  \E flat \in [1..Len(seqs) -> Seq(S)] :
           /\ FlattenSeq(seqs) = flat[Len(seqs)]
           /\ flat[1] = seqs[1]
           /\ \A i \in 2..Len(seqs) : flat[i] = flat[i - 1] \o seqs[i]
<1> DEFINE n == Len(seqs)
<1>1. n \in Nat /\ n > 0 /\ seqs \in [1..n -> Seq(S)]
  OBVIOUS
<1> DEFINE Step(f, i) == IF i = 1 THEN seqs[i] ELSE f[i - 1] \o seqs[i]
           flatten == CHOOSE f : f = [i \in 1..n |-> Step(f, i)]
<1> HIDE DEF n
<1>5. \A i \in 1..n : seqs[i] \in Seq(S)
  BY <1>1
<1>c. PICK f : Concatenates(f, n, seqs, S)
  BY <1>1, <1>5, Concatenations
<1>6. f[0] = << >> /\ \A i \in 1..n :
         f[i - 1] \in Seq(S) /\ f[i] \in Seq(S) /\ f[i] = f[i - 1] \o seqs[i]
  BY <1>c DEF Concatenates
<1>7. f[1] = seqs[1]
  <2>1. 1 \in 1..n /\ 1 - 1 = 0
    BY <1>1
  <2>2. f[1] = << >> \o seqs[1] /\ seqs[1] \in Seq(S)
    BY <1>1, <1>6, <2>1
  <2> QED BY <2>2, ConcatEmptySeq
<1> DEFINE g == [i \in 1..n |-> f[i]]
<1>8. g = [i \in 1..n |-> Step(g, i)]
  <2>1. \A i \in 1..n : f[i] = Step(g, i)
    <3> SUFFICES ASSUME NEW i \in 1..n PROVE f[i] = Step(g, i)
      OBVIOUS
    <3>1. CASE i = 1
      BY <1>7, <3>1
    <3>2. CASE i # 1
      <4>1. i - 1 \in 1..n
        BY <1>1, <3>2
      <4> QED BY <1>6, <3>2, <4>1
    <3> QED BY <3>1, <3>2
  <2> HIDE DEF Step
  <2> QED BY <2>1
<1>9. flatten = [i \in 1..n |-> Step(flatten, i)]
  <2> HIDE DEF g, Step
  <2>1. \E h : h = [i \in 1..n |-> Step(h, i)]
    BY <1>8
  <2> QED BY <2>1
<1>10. FlattenSeq(seqs) = flatten[n]
  BY <1>1 DEF FlattenSeq, n
<1> HIDE DEF flatten
<1>11. \A i \in 1..n : flatten[i] = f[i]
  <2> DEFINE Bad == {i \in 1..n : flatten[i] # f[i]}
  <2> SUFFICES ASSUME Bad # {} PROVE FALSE
    OBVIOUS
  <2> DEFINE m == Min(Bad)
  <2>1. m \in Bad /\ \A y \in Bad : m <= y
    BY <1>1, MinOfIndices
  <2> HIDE DEF m
  <2>2. m \in 1..n
    BY <2>1
  <2>3. flatten[m] = Step(flatten, m)
    <3> HIDE DEF Step
    <3> QED BY <1>9, <2>2
  <2>4. CASE m = 1
    BY <1>7, <2>1, <2>3, <2>4
  <2>5. CASE m # 1
    <3>1. m - 1 \in 1..n /\ ~(m <= m - 1)
      BY <1>1, <2>2, <2>5
    <3>2. flatten[m - 1] = f[m - 1]
      BY <2>1, <3>1
    <3> QED BY <1>6, <2>1, <2>2, <2>3, <2>5, <3>2
  <2> QED BY <2>4, <2>5
<1>12. /\ flatten \in [1..n -> Seq(S)] /\ FlattenSeq(seqs) = flatten[n]
       /\ flatten[1] = seqs[1] /\ \A i \in 2..n : flatten[i] = flatten[i - 1] \o seqs[i]
  <2>1. \A i \in 1..n : flatten[i] \in Seq(S)
    BY <1>6, <1>11
  <2>2. flatten = [i \in 1..n |-> flatten[i]]
    <3> HIDE DEF Step
    <3> QED BY <1>9
  <2>3. 1 \in 1..n /\ \A i \in 2..n : i \in 1..n /\ i - 1 \in 1..n
    BY <1>1
  <2> QED BY <1>6, <1>7, <1>10, <1>11, <2>1, <2>2, <2>3
<1> QED BY <1>12 DEF n

LEMMA FlattenPlaces ==
  ASSUME NEW S, NEW seqs \in Seq(Seq(S))
  PROVE  FlattenSeq(seqs) \in Seq(S) /\ \E at : ArePlaces(at, seqs, FlattenSeq(seqs))
<1>1. CASE seqs = << >>
  <2>1. FlattenSeq(seqs) = << >>
    BY <1>1 DEF FlattenSeq
  <2>2. ArePlaces(<< >>, << >>, << >>)
    BY DEF ArePlaces
  <2>3. << >> \in Seq(S)
    OBVIOUS
  <2> QED BY <1>1, <2>1, <2>2, <2>3
<1>2. CASE seqs # << >>
  <2> DEFINE n == Len(seqs)
  <2>1. n \in Nat /\ n > 0 /\ seqs \in [1..n -> Seq(S)] /\ DOMAIN seqs = 1..n
    BY <1>2
  <2>2. PICK flat \in [1..n -> Seq(S)] :
          /\ FlattenSeq(seqs) = flat[n] /\ flat[1] = seqs[1]
          /\ \A i \in 2..n : flat[i] = flat[i - 1] \o seqs[i]
    BY <1>2, FlattenStep
  <2> HIDE DEF n
  <2> DEFINE at == [i \in 1..n |-> IF i = 1 THEN 0 ELSE Len(flat[i - 1])]
             Placed(m) ==
               /\ Len(flat[m]) = at[m] + Len(seqs[m])
               /\ \A i \in 1..m : \A k \in DOMAIN seqs[i] :
                    at[i] + k \in DOMAIN flat[m] /\ flat[m][at[i] + k] = seqs[i][k]
               /\ \A p \in DOMAIN flat[m] : \E i \in 1..m : \E k \in DOMAIN seqs[i] : p = at[i] + k
               /\ \A i, j \in 1..m : i < j => at[i] + Len(seqs[i]) <= at[j]
             Bad == {m \in 1..n : ~Placed(m)}
  <2>3. \A i \in 1..n : at[i] \in Nat
    <3> SUFFICES ASSUME NEW i \in 1..n PROVE at[i] \in Nat
      OBVIOUS
    <3>1. i # 1 => i - 1 \in 1..n
      BY <2>1
    <3> QED BY <2>2, <3>1
  <2>4. \A i \in 1..n : Len(seqs[i]) \in Nat /\ DOMAIN seqs[i] = 1..Len(seqs[i])
    BY <2>1
  <2>5. Placed(1)
    <3>1. 1 \in 1..n /\ at[1] = 0
      BY <2>1
    <3>2. Len(seqs[1]) \in Nat /\ DOMAIN seqs[1] = 1..Len(seqs[1]) /\ flat[1] = seqs[1]
      BY <2>2, <2>4, <3>1
    <3> HIDE DEF at
    <3> QED BY <3>1, <3>2
  <2>6. ASSUME NEW m \in 2..n, Placed(m - 1) PROVE Placed(m)
    <3>1. m \in 1..n /\ m - 1 \in 1..n /\ m \in Nat /\ n \in Nat
      BY <2>1
    <3>2. at[m] = Len(flat[m - 1]) /\ at[m] \in Nat
      BY <2>3, <3>1
    <3>3. flat[m - 1] \in Seq(S) /\ seqs[m] \in Seq(S) /\ flat[m] = flat[m - 1] \o seqs[m]
      BY <2>1, <2>2, <3>1
    <3>4. /\ Len(flat[m]) = at[m] + Len(seqs[m])
          /\ \A p \in 1..at[m] : p \in DOMAIN flat[m] /\ flat[m][p] = flat[m - 1][p]
          /\ \A k \in 1..Len(seqs[m]) : at[m] + k \in DOMAIN flat[m] /\ flat[m][at[m] + k] = seqs[m][k]
          /\ \A p \in DOMAIN flat[m] : p \in 1..at[m] \/ \E k \in 1..Len(seqs[m]) : p = at[m] + k
          /\ DOMAIN flat[m - 1] = 1..at[m] /\ DOMAIN seqs[m] = 1..Len(seqs[m])
      <4>1. DOMAIN flat[m - 1] = 1..Len(flat[m - 1]) /\ DOMAIN seqs[m] = 1..Len(seqs[m])
        BY <3>3
      <4>2. PICK a, b, c : a = flat[m - 1] /\ b = seqs[m] /\ c = flat[m]
        OBVIOUS
      <4>3. a \in Seq(S) /\ b \in Seq(S) /\ c = a \o b
        BY <3>3, <4>2
      <4>4. /\ Len(c) = Len(a) + Len(b)
            /\ \A p \in 1..Len(a) : p \in DOMAIN c /\ c[p] = a[p]
            /\ \A k \in 1..Len(b) : Len(a) + k \in DOMAIN c /\ c[Len(a) + k] = b[k]
            /\ \A p \in DOMAIN c : p \in 1..Len(a) \/ \E k \in 1..Len(b) : p = Len(a) + k
        <5> HIDE DEF Placed, at
        <5> QED BY <4>3, ConcatPlaces
      <4> HIDE DEF Placed, at
      <4>5. at[m] = Len(a)
        BY <3>2, <4>2
      <4>6. PICK d : d = at[m]
        OBVIOUS
      <4>7. /\ Len(c) = d + Len(b)
            /\ \A p \in 1..d : p \in DOMAIN c /\ c[p] = a[p]
            /\ \A k \in 1..Len(b) : d + k \in DOMAIN c /\ c[d + k] = b[k]
            /\ \A p \in DOMAIN c : p \in 1..d \/ \E k \in 1..Len(b) : p = d + k
            /\ DOMAIN a = 1..d /\ DOMAIN b = 1..Len(b)
        <5>1. d = Len(a) /\ DOMAIN a = 1..Len(a) /\ DOMAIN b = 1..Len(b)
          BY <4>1, <4>2, <4>5, <4>6
        <5> QED BY <4>4, <5>1
      <4> QED BY <4>2, <4>6, <4>7
    <3> HIDE DEF at
    <3>5. ASSUME NEW i \in 1..m, NEW k \in DOMAIN seqs[i]
          PROVE  at[i] + k \in DOMAIN flat[m] /\ flat[m][at[i] + k] = seqs[i][k]
      <4>1. CASE i = m
        BY <3>4, <3>5, <4>1
      <4>2. CASE i # m
        <5>1. i \in 1..m - 1
          BY <4>2, <3>1
        <5>2. at[i] + k \in 1..at[m] /\ flat[m - 1][at[i] + k] = seqs[i][k]
          BY <2>6, <3>4, <3>5, <5>1
        <5> QED BY <3>4, <5>2
      <4> QED BY <4>1, <4>2
    <3>6. ASSUME NEW p \in DOMAIN flat[m]
          PROVE  \E i \in 1..m : \E k \in DOMAIN seqs[i] : p = at[i] + k
      <4>1. CASE p \in 1..at[m]
        <5>1. PICK i \in 1..m - 1 : \E k \in DOMAIN seqs[i] : p = at[i] + k
          BY <2>6, <3>4, <4>1
        <5>2. i \in 1..m
          BY <3>1
        <5> QED BY <5>1, <5>2
      <4>2. CASE \E k \in 1..Len(seqs[m]) : p = at[m] + k
        <5>1. m \in 1..m
          BY <3>1
        <5> QED BY <3>4, <4>2, <5>1
      <4> QED BY <3>4, <4>1, <4>2
    <3>7. ASSUME NEW i \in 1..m, NEW j \in 1..m, i < j PROVE at[i] + Len(seqs[i]) <= at[j]
      <4>1. i \in 1..m - 1
        BY <3>1, <3>7
      <4>2. CASE j # m
        <5>1. j \in 1..m - 1
          BY <3>1, <4>2
        <5> QED BY <2>6, <3>7, <4>1, <5>1
      <4>3. CASE j = m
        <5>1. at[m] = at[m - 1] + Len(seqs[m - 1])
          BY <2>6, <3>2
        <5>2. CASE i = m - 1
          <6>1. at[i] + Len(seqs[i]) = at[m]
            BY <5>1, <5>2
          <6> QED BY <3>2, <4>3, <6>1
        <5>3. CASE i # m - 1
          <6>1. i < m - 1 /\ m - 1 \in 1..m - 1
            BY <3>1, <4>1, <5>3
          <6>2. at[i] + Len(seqs[i]) <= at[m - 1]
            BY <2>6, <4>1, <6>1
          <6>3. i \in 1..n
            BY <3>1, <4>1
          <6>4. at[i] \in Nat /\ Len(seqs[i]) \in Nat /\ at[m - 1] \in Nat /\ Len(seqs[m - 1]) \in Nat
            BY <2>3, <2>4, <3>1, <6>3
          <6> QED BY <4>3, <5>1, <6>2, <6>4
        <5> QED BY <5>2, <5>3
      <4> QED BY <4>2, <4>3
    <3> QED BY <3>4, <3>5, <3>6, <3>7
  <2> HIDE DEF Placed, at
  <2>7. Bad = {}
    <3> SUFFICES ASSUME Bad # {} PROVE FALSE
      OBVIOUS
    <3> DEFINE m == Min(Bad)
    <3>1. m \in Bad /\ \A y \in Bad : m <= y
      BY <2>1, MinOfIndices
    <3> HIDE DEF m
    <3>2. m \in 1..n /\ ~Placed(m)
      BY <3>1
    <3>3. m # 1 /\ m \in 2..n /\ m - 1 \in 1..n /\ ~(m <= m - 1)
      BY <2>1, <2>5, <3>2
    <3> QED BY <2>6, <3>1, <3>2, <3>3
  <2>8. Placed(n)
    BY <2>1, <2>7, n \in 1..n
  <2>9. ArePlaces(at, seqs, flat[n])
    <3>1. at = [i \in 1..n |-> at[i]]
      BY DEF at
    <3>2. at \in [1..n -> Nat]
      BY <2>3, <3>1
    <3>3. /\ \A i \in 1..n : \A k \in DOMAIN seqs[i] :
               at[i] + k \in DOMAIN flat[n] /\ flat[n][at[i] + k] = seqs[i][k]
          /\ \A p \in DOMAIN flat[n] : \E i \in 1..n : \E k \in DOMAIN seqs[i] : p = at[i] + k
          /\ \A i, j \in 1..n : i < j => at[i] + Len(seqs[i]) <= at[j]
      BY <2>8 DEF Placed
    <3> QED BY <2>1, <3>2, <3>3 DEF ArePlaces
  <2>10. flat[n] \in Seq(S)
    BY <2>1, <2>2, n \in 1..n
  <2> QED BY <2>2, <2>9, <2>10
<1> QED BY <1>1, <1>2

-------------------------------------------------------------------------------
(* Sequences by their elements: parts of them, what stands at a place, and *)
(* what holds of every place in turn.                                      *)

(* A sequence from the q-th element on. *)
Onwards(s, q) == SubSeq(s, q, Len(s))

(* A sequence from a place on: the element there and what follows it.       *)
LEMMA OnwardsElement ==
  ASSUME NEW E, NEW s \in Seq(E), NEW q \in 1..Len(s)
  PROVE  Onwards(s, q) = <<s[q]>> \o Onwards(s, q + 1)
<1>1. PICK a, b : a = Onwards(s, q) /\ b = Onwards(s, q + 1)
  OBVIOUS
<1>2. /\ a \in Seq(E) /\ Len(a) = Len(s) + 1 - q /\ \A i \in 1..Len(a) : a[i] = s[q + i - 1]
      /\ b \in Seq(E) /\ Len(b) = Len(s) - q /\ \A i \in 1..Len(b) : b[i] = s[q + i]
  <2>1. a = SubSeq(s, q, Len(s)) /\ b = SubSeq(s, q + 1, Len(s))
    BY <1>1 DEF Onwards
  <2>2. a \in Seq(E) /\ Len(a) = Len(s) + 1 - q /\ \A i \in 1..Len(a) : a[i] = s[q + i - 1]
    BY <2>1
  <2>3. b \in Seq(E) /\ Len(b) = Len(s) - q /\ \A i \in 1..Len(b) : b[i] = s[q + i]
    BY <2>1
  <2> QED BY <2>2, <2>3
<1>3. PICK x : x = s[q] /\ x \in E
  OBVIOUS
<1>4. PICK c : c = <<x>> \o b
  OBVIOUS
<1>5. c \in Seq(E) /\ Len(c) = 1 + Len(b) /\ c[1] = x /\ \A i \in 1..Len(b) : c[i + 1] = b[i]
  <2>1. <<x>> \in Seq(E) /\ Len(<<x>>) = 1 /\ <<x>>[1] = x
    BY <1>3
  <2>2. c \in Seq(E) /\ Len(c) = 1 + Len(b) /\ c[1] = x /\ \A i \in 1..Len(b) : c[1 + i] = b[i]
    <3>1. PICK y : y = <<x>>
      OBVIOUS
    <3>2. y \in Seq(E) /\ b \in Seq(E) /\ c = y \o b /\ Len(y) = 1 /\ y[1] = x /\ 1 \in 1..1
      BY <1>2, <1>4, <2>1, <3>1
    <3>3. /\ y \o b \in Seq(E) /\ Len(y \o b) = Len(y) + Len(b)
          /\ \A i \in 1..Len(y) : (y \o b)[i] = y[i]
          /\ \A i \in 1..Len(b) : (y \o b)[Len(y) + i] = b[i]
      <4>1. \A u, v \in Seq(E) :
              /\ u \o v \in Seq(E) /\ Len(u \o v) = Len(u) + Len(v)
              /\ \A i \in 1..Len(u) : (u \o v)[i] = u[i]
              /\ \A i \in 1..Len(v) : (u \o v)[Len(u) + i] = v[i]
        BY ConcatPlaces
      <4> QED BY <3>2, <4>1
    <3> QED BY <3>2, <3>3
  <2>3. \A i \in 1..Len(b) : 1 + i = i + 1
    OBVIOUS
  <2> QED BY <2>2, <2>3
<1>6. Len(a) = Len(c)
  BY <1>2, <1>5
<1>7. ASSUME NEW i \in 1..Len(a) PROVE a[i] = c[i]
  <2>1. CASE i = 1
    <3>1. q + 1 - 1 = q /\ 1 \in 1..Len(a)
      <4>1. i \in 1..Len(a) /\ q \in Int
        OBVIOUS
      <4> QED BY <2>1, <4>1
    <3>2. a[1] = s[q + 1 - 1]
      BY <1>2, <3>1, Zenon
    <3> QED BY <1>3, <1>5, <2>1, <3>1, <3>2
  <2>2. CASE i # 1
    <3>1. i - 1 \in 1..Len(b) /\ (i - 1) + 1 = i
      BY <1>2, <2>2
    <3>2. c[i] = b[i - 1] /\ b[i - 1] = s[q + (i - 1)] /\ a[i] = s[q + i - 1]
      BY <1>2, <1>5, <3>1
    <3> QED BY <3>2
  <2> QED BY <2>1, <2>2
<1>8. a = c
  BY <1>2, <1>5, <1>6, <1>7, SeqEqual
<1> QED BY <1>1, <1>3, <1>4, <1>8

LEMMA OnwardsEnds ==
  ASSUME NEW E, NEW s \in Seq(E)
  PROVE  Onwards(s, 1) = s /\ Onwards(s, Len(s) + 1) = << >> /\ \A q \in Nat \ {0} : Onwards(s, q) \in Seq(E)
BY DEF Onwards

(* Two elements in a row, as a sequence.                                    *)
LEMMA PairOfTwo ==
  ASSUME NEW E, NEW text \in Seq(E), NEW i \in 1..Len(text), i < Len(text)
  PROVE  SubSeq(text, i, i + 1) = <<text[i], text[i + 1]>>
<1>1. PICK a : a = SubSeq(text, i, i + 1)
  OBVIOUS
<1>2. a \in Seq(E) /\ Len(a) = 2 /\ a[1] = text[i] /\ a[2] = text[i + 1]
  BY <1>1
<1>3. a = <<a[1], a[2]>>
  BY <1>2
<1> QED BY <1>1, <1>2, <1>3

(* A recursion goes from base by G and stays in T. *)
Iterates(f, n, base, G, T) ==
  f[0] = base /\ \A k \in 1..n : f[k - 1] \in T /\ f[k] = G[<<k, f[k - 1]>>]

LEMMA Iterated ==
  ASSUME NEW n \in Nat, NEW T, NEW base \in T, NEW G \in [(1..n) \X T -> T]
  PROVE  \E f : IsRecursion(f, n, base, G) /\ Iterates(f, n, base, G, T)
<1>1. PICK f : IsRecursion(f, n, base, G)
  BY RecursionExists
<1>2. f[0] = base /\ \A k \in 1..n : f[k - 1] \in T /\ f[k] = G[<<k, f[k - 1]>>]
  BY <1>1, RecursionValues
<1> QED BY <1>1, <1>2 DEF Iterates

(* Where each of the sequences begins in what they are put together to. *)
IsRow(pos, seqs, flat) ==
  /\ pos[1] = 1 /\ pos[Len(seqs) + 1] = Len(flat) + 1
  /\ \A i \in 1..Len(seqs) :
       /\ pos[i] \in 1..Len(flat) /\ pos[i + 1] \in 1..Len(flat) + 1 /\ pos[i + 1] = pos[i] + Len(seqs[i])
       /\ \A k \in 1..Len(seqs[i]) : flat[pos[i] + k - 1] = seqs[i][k]

LEMMA Rows ==
  ASSUME NEW E, NEW seqs \in Seq(Seq(E)), \A i \in 1..Len(seqs) : seqs[i] # << >>
  PROVE  FlattenSeq(seqs) \in Seq(E) /\ \E pos : IsRow(pos, seqs, FlattenSeq(seqs))
<1>1. PICK flat : flat = FlattenSeq(seqs)
  OBVIOUS
<1>2. flat \in Seq(E)
  BY <1>1, FlattenPlaces
<1>3. PICK at : ArePlaces(at, seqs, flat)
  BY <1>1, FlattenPlaces
<1>4. PICK n, m \in Nat : n = Len(seqs) /\ m = Len(flat) /\ DOMAIN seqs = 1..n /\ DOMAIN flat = 1..m
  BY <1>2
<1>5. \A i \in 1..n : Len(seqs[i]) \in Nat \ {0} /\ DOMAIN seqs[i] = 1..Len(seqs[i])
  <2> SUFFICES ASSUME NEW i \in 1..n PROVE Len(seqs[i]) \in Nat \ {0} /\ DOMAIN seqs[i] = 1..Len(seqs[i])
    OBVIOUS
  <2>1. seqs[i] \in Seq(E) /\ seqs[i] # << >>
    BY <1>4
  <2> QED BY <2>1, EmptySeq
<1>6. /\ \A i \in 1..n : at[i] \in Nat
      /\ \A i \in 1..n : \A k \in 1..Len(seqs[i]) : at[i] + k \in 1..m /\ flat[at[i] + k] = seqs[i][k]
      /\ \A p \in 1..m : \E i \in 1..n : \E k \in 1..Len(seqs[i]) : p = at[i] + k
      /\ \A i, j \in 1..n : i < j => at[i] + Len(seqs[i]) <= at[j]
  <2>1. /\ at \in [1..n -> Nat]
        /\ \A i \in 1..n : \A k \in DOMAIN seqs[i] : at[i] + k \in 1..m /\ flat[at[i] + k] = seqs[i][k]
        /\ \A p \in 1..m : \E i \in 1..n : \E k \in DOMAIN seqs[i] : p = at[i] + k
        /\ \A i, j \in 1..n : i < j => at[i] + Len(seqs[i]) <= at[j]
    <3>1. DOMAIN seqs = 1..n /\ DOMAIN flat = 1..m
      BY <1>4
    <3> QED BY <1>3, <3>1 DEF ArePlaces
  <2>2. \A i \in 1..n : \A k \in 1..Len(seqs[i]) : at[i] + k \in 1..m /\ flat[at[i] + k] = seqs[i][k]
    BY <1>5, <2>1, Zenon
  <2>3. \A p \in 1..m : \E i \in 1..n : \E k \in 1..Len(seqs[i]) : p = at[i] + k
    BY <1>5, <2>1, Zenon
  <2> QED BY <2>1, <2>2, <2>3
<1>7. ASSUME NEW j \in 1..n + 1, NEW p \in Nat,
             \A i \in 1..n : i < j => at[i] + Len(seqs[i]) <= p,
             IF j = n + 1 THEN p <= m ELSE p <= at[j]
      PROVE  p = IF j = n + 1 THEN m ELSE at[j]
  <2> SUFFICES ASSUME IF j = n + 1 THEN p < m ELSE p < at[j] PROVE FALSE
    BY <1>4, <1>6, <1>7
  <2>1. p + 1 \in 1..m
    <3>1. CASE j = n + 1
      BY <1>4, <1>7, <3>1
    <3>2. CASE j # n + 1
      <4>1. j \in 1..n /\ 1 \in 1..Len(seqs[j])
        BY <1>4, <1>5, <1>7, <3>2
      <4>2. at[j] + 1 \in 1..m
        BY <1>6, <4>1
      <4>3. at[j] \in Nat /\ p < at[j]
        BY <1>6, <3>2, <4>1
      <4>4. p + 1 <= at[j]
        BY <4>3
      <4> QED BY <1>4, <4>2, <4>3, <4>4
    <3> QED BY <3>1, <3>2
  <2>2. PICK i \in 1..n : \E k \in 1..Len(seqs[i]) : p + 1 = at[i] + k
    BY <1>6, <2>1
  <2>3. PICK k \in 1..Len(seqs[i]) : p + 1 = at[i] + k
    BY <2>2
  <2>4. at[i] \in Nat /\ Len(seqs[i]) \in Nat
    BY <1>5, <1>6
  <2>5. ~(i < j)
    BY <1>7, <2>3, <2>4
  <2>6. j \in 1..n /\ p < at[j]
    BY <1>4, <2>5
  <2>7. at[j] <= at[i]
    <3>1. CASE i = j
      BY <2>4, <3>1
    <3>2. CASE i # j
      <4>1. at[j] + Len(seqs[j]) <= at[i] /\ at[j] \in Nat /\ Len(seqs[j]) \in Nat
        BY <1>5, <1>6, <2>5, <2>6, <3>2
      <4> QED BY <2>4, <4>1
    <3> QED BY <3>1, <3>2
  <2>8. at[j] \in Nat
    BY <1>6, <2>6
  <2> QED BY <2>3, <2>4, <2>6, <2>7, <2>8
<1> DEFINE pos == [i \in 1..n + 1 |-> IF i = n + 1 THEN m + 1 ELSE at[i] + 1]
<1>8. pos[1] = 1
  <2>1. IF 1 = n + 1 THEN 0 <= m ELSE 0 <= at[1]
    BY <1>4, <1>6
  <2>2. \A i \in 1..n : ~(i < 1)
    BY <1>4
  <2>3. 1 \in 1..n + 1 /\ 0 \in Nat
    BY <1>4
  <2>4. 0 = IF 1 = n + 1 THEN m ELSE at[1]
    BY <1>7, <2>1, <2>2, <2>3
  <2> QED BY <2>3, <2>4
<1>9. ASSUME NEW i \in 1..n PROVE pos[i + 1] = pos[i] + Len(seqs[i])
  <2>1. i + 1 \in 1..n + 1 /\ at[i] \in Nat /\ Len(seqs[i]) \in Nat \ {0}
    BY <1>4, <1>5, <1>6
  <2>2. \A h \in 1..n : h < i + 1 => at[h] + Len(seqs[h]) <= at[i] + Len(seqs[i])
    <3> SUFFICES ASSUME NEW h \in 1..n, h < i + 1 PROVE at[h] + Len(seqs[h]) <= at[i] + Len(seqs[i])
      OBVIOUS
    <3>1. at[h] \in Nat /\ Len(seqs[h]) \in Nat
      BY <1>5, <1>6
    <3>2. h = i \/ h < i
      OBVIOUS
    <3>3. h < i => at[h] + Len(seqs[h]) <= at[i]
      BY <1>6
    <3> QED BY <2>1, <3>1, <3>2, <3>3
  <2>3. IF i + 1 = n + 1 THEN at[i] + Len(seqs[i]) <= m ELSE at[i] + Len(seqs[i]) <= at[i + 1]
    <3>1. Len(seqs[i]) \in 1..Len(seqs[i])
      BY <2>1
    <3>2. at[i] + Len(seqs[i]) \in 1..m
      BY <1>6, <3>1
    <3>3. i + 1 # n + 1 => i + 1 \in 1..n /\ i < i + 1
      BY <1>4
    <3> QED BY <1>6, <3>2, <3>3
  <2>4. at[i] + Len(seqs[i]) \in Nat
    BY <2>1
  <2>5. at[i] + Len(seqs[i]) = IF i + 1 = n + 1 THEN m ELSE at[i + 1]
    BY <1>7, <2>1, <2>2, <2>3, <2>4
  <2>6. pos[i] = at[i] + 1 /\ pos[i + 1] = (IF i + 1 = n + 1 THEN m ELSE at[i + 1]) + 1
    BY <1>4, <2>1
  <2> HIDE DEF pos
  <2>7. pos[i + 1] = at[i] + Len(seqs[i]) + 1
    BY <2>5, <2>6
  <2>8. at[i] + Len(seqs[i]) + 1 = at[i] + 1 + Len(seqs[i])
    BY <2>1
  <2>9. pos[i] = at[i] + 1
    BY <2>6
  <2> QED BY <2>7, <2>8, <2>9
<1>10. ASSUME NEW i \in 1..n
       PROVE  /\ pos[i] \in 1..m /\ pos[i + 1] \in 1..m + 1
              /\ \A k \in 1..Len(seqs[i]) : flat[pos[i] + k - 1] = seqs[i][k]
  <2>1. at[i] \in Nat /\ Len(seqs[i]) \in Nat \ {0} /\ pos[i] = at[i] + 1
    BY <1>4, <1>5, <1>6
  <2>2. 1 \in 1..Len(seqs[i]) /\ Len(seqs[i]) \in 1..Len(seqs[i])
    BY <2>1
  <2>3. at[i] + 1 \in 1..m /\ at[i] + Len(seqs[i]) \in 1..m
    BY <1>6, <2>2
  <2>4. pos[i + 1] = pos[i] + Len(seqs[i])
    BY <1>9
  <2>5. ASSUME NEW k \in 1..Len(seqs[i]) PROVE flat[pos[i] + k - 1] = seqs[i][k]
    <3>1. pos[i] + k - 1 = at[i] + k
      BY <2>1
    <3> QED BY <1>6, <3>1
  <2> HIDE DEF pos
  <2> QED BY <2>1, <2>3, <2>4, <2>5
<1>11. pos[n + 1] = m + 1
  BY <1>4
<1> HIDE DEF pos
<1>12. IsRow(pos, seqs, flat)
  BY <1>4, <1>8, <1>9, <1>10, <1>11 DEF IsRow
<1> QED BY <1>1, <1>2, <1>12

(* What a row says of one of its sequences.                                 *)
Occupies(pos, i, text, m, c, l) ==
  /\ pos[i] \in 1..m /\ pos[i + 1] \in 1..m + 1 /\ pos[i + 1] = pos[i] + l
  /\ \A k \in 1..l : text[pos[i] + k - 1] = c[k]

LEMMA RowAt ==
  ASSUME NEW seqs, NEW n \in Nat, Len(seqs) = n, NEW text, NEW m \in Nat, Len(text) = m, NEW pos, IsRow(pos, seqs, text),
         NEW i \in 1..n, NEW c, c = seqs[i], NEW l, Len(c) = l
  PROVE  Occupies(pos, i, text, m, c, l)
BY DEF IsRow, Occupies

(* What holds at the end and of each place before one where it holds.      *)
LEMMA Backwards ==
  ASSUME NEW n \in Nat, NEW S \in SUBSET (1..n + 1), n + 1 \in S, \A k \in 1..n : k + 1 \in S => k \in S
  PROVE  S = 1..n + 1
<1> DEFINE Bad == (1..n + 1) \ S
<1> SUFFICES ASSUME Bad # {} PROVE FALSE
  OBVIOUS
<1>1. Bad \in SUBSET (1..n + 1) /\ n + 1 \in Nat
  OBVIOUS
<1>2. PICK m : m \in Bad /\ \A y \in Bad : m >= y
  BY <1>1, MaxOfIndices
<1>3. m \in 1..n /\ m + 1 \in 1..n + 1 /\ ~(m >= m + 1)
  BY <1>2
<1> QED BY <1>2, <1>3

(* What holds at 0 and of each place after one where it holds.              *)
LEMMA Forwards ==
  ASSUME NEW n \in Nat, NEW S, 0 \in S, \A k \in 1..n : k - 1 \in S => k \in S
  PROVE  \A k \in 0..n : k \in S
<1> DEFINE Bad == {k \in 1..n : k \notin S}
<1>1. Bad = {}
  <2> SUFFICES ASSUME Bad # {} PROVE FALSE
    OBVIOUS
  <2>1. Bad \in SUBSET (1..n)
    OBVIOUS
  <2>2. PICK m : m \in Bad /\ \A y \in Bad : m <= y
    <3> HIDE DEF Bad
    <3> QED BY <2>1, MinOfIndices
  <2>3. m \in 1..n /\ (m - 1 = 0 \/ m - 1 \in 1..n) /\ ~(m <= m - 1)
    BY <2>2
  <2>4. m - 1 \in S
    BY <2>2, <2>3
  <2> QED BY <2>2, <2>3, <2>4
<1>2. \A k \in 0..n : k = 0 \/ k \in 1..n
  OBVIOUS
<1> QED BY <1>1, <1>2

(* Lists of a set are lists of a larger one.                                *)
LEMMA InLarger ==
  ASSUME NEW S, NEW T, S \subseteq T, NEW s \in Seq(S)
  PROVE  s \in Seq(T) /\ \A k \in 1..Len(s) : s[k] \in S
  OBVIOUS

(* Prefixes and suffixes, element by element.                               *)
LEMMA PrefixElements ==
  ASSUME NEW E, NEW s \in Seq(E), NEW t \in Seq(E)
  PROVE  IsPrefix(s, t) <=> Len(s) <= Len(t) /\ \A i \in 1..Len(s) : s[i] = t[i]
<1>1. CASE Len(s) <= Len(t)
  <2>1. PICK a : a = SubSeq(t, 1, Len(s))
    OBVIOUS
  <2>2. a \in Seq(E) /\ Len(a) = Len(s) /\ \A i \in 1..Len(s) : a[i] = t[i]
    BY <1>1, <2>1
  <2>3. SubSeq(s, 1, Len(s)) = s
    OBVIOUS
  <2>4. s = a <=> \A i \in 1..Len(s) : s[i] = t[i]
    <3>1. ASSUME \A i \in 1..Len(s) : s[i] = t[i] PROVE s = a
      <4>1. \A i \in 1..Len(s) : s[i] = a[i]
        BY <2>2, <3>1
      <4> QED BY <2>2, <4>1, SeqEqual
    <3> QED BY <2>2, <3>1
  <2> QED BY <1>1, <2>1, <2>3, <2>4 DEF IsPrefix
<1>2. CASE ~(Len(s) <= Len(t))
  BY <1>2 DEF IsPrefix
<1>3. Len(s) <= Len(t) \/ ~(Len(s) <= Len(t))
  OBVIOUS
<1> QED BY <1>1, <1>2, <1>3

(* A text between two others.                                               *)
IsBetween(t, a, b, c, E) ==
  /\ t \in Seq(E) /\ Len(t) = Len(a) + Len(b) + Len(c)
  /\ \A i \in 1..Len(a) : t[i] = a[i]
  /\ \A i \in 1..Len(c) : t[Len(a) + Len(b) + i] = c[i]
  /\ SubSeq(t, Len(a) + 1, Len(t) - Len(c)) = b

LEMMA Between ==
  ASSUME NEW E, NEW a \in Seq(E), NEW b \in Seq(E), NEW c \in Seq(E), NEW t, t = a \o b \o c
  PROVE  IsBetween(t, a, b, c, E)
<1>1. PICK d : d = a \o b
  OBVIOUS
<1>0. t = d \o c
  BY <1>1
<1>n. Len(a) \in Nat /\ Len(b) \in Nat /\ Len(c) \in Nat
  OBVIOUS
<1>c. \A u, v \in Seq(E) :
        /\ u \o v \in Seq(E) /\ Len(u \o v) = Len(u) + Len(v)
        /\ \A i \in 1..Len(u) : (u \o v)[i] = u[i]
        /\ \A i \in 1..Len(v) : (u \o v)[Len(u) + i] = v[i]
  BY ConcatPlaces
<1>2. /\ d \in Seq(E) /\ Len(d) = Len(a) + Len(b)
      /\ \A i \in 1..Len(a) : d[i] = a[i]
      /\ \A i \in 1..Len(b) : d[Len(a) + i] = b[i]
  BY <1>1, <1>c
<1>3. /\ t \in Seq(E) /\ Len(t) = Len(d) + Len(c)
      /\ \A i \in 1..Len(d) : t[i] = d[i]
      /\ \A i \in 1..Len(c) : t[Len(d) + i] = c[i]
  <2>1. d \in Seq(E)
    BY <1>2
  <2>2. /\ d \o c \in Seq(E) /\ Len(d \o c) = Len(d) + Len(c)
        /\ \A i \in 1..Len(d) : (d \o c)[i] = d[i]
        /\ \A i \in 1..Len(c) : (d \o c)[Len(d) + i] = c[i]
    BY <1>c, <2>1
  <2> QED BY <1>0, <2>2
<1>4. \A i \in 1..Len(a) : t[i] = a[i]
  <2> SUFFICES ASSUME NEW i \in 1..Len(a) PROVE t[i] = a[i]
    OBVIOUS
  <2>1. i \in 1..Len(d)
    BY <1>2, <1>n
  <2> QED BY <1>2, <1>3, <2>1
<1>5. \A i \in 1..Len(b) : t[Len(a) + i] = b[i]
  <2> SUFFICES ASSUME NEW i \in 1..Len(b) PROVE t[Len(a) + i] = b[i]
    OBVIOUS
  <2>1. Len(a) + i \in 1..Len(d)
    BY <1>2, <1>n
  <2> QED BY <1>2, <1>3, <2>1
<1>6. SubSeq(t, Len(a) + 1, Len(t) - Len(c)) = b
  <2>1. PICK p, q \in Nat : p = Len(a) + 1 /\ q = Len(t) - Len(c) /\ q = Len(a) + Len(b) /\ 1 <= p /\ q <= Len(t)
    BY <1>2, <1>3, <1>n
  <2>2. PICK s : s = SubSeq(t, p, q)
    OBVIOUS
  <2>3. s \in Seq(E) /\ Len(s) = (IF p <= q THEN q - p + 1 ELSE 0) /\ \A i \in 1..Len(s) : s[i] = t[p + i - 1]
    BY <1>3, <2>1, <2>2
  <2>4. Len(s) = Len(b)
    BY <2>1, <2>3, <1>n
  <2>5. \A i \in 1..Len(b) : s[i] = b[i]
    <3> SUFFICES ASSUME NEW i \in 1..Len(b) PROVE s[i] = b[i]
      OBVIOUS
    <3>1. p + i - 1 = Len(a) + i
      BY <2>1, <1>n
    <3>2. s[i] = t[p + i - 1]
      BY <2>3, <2>4
    <3> QED BY <1>5, <3>1, <3>2
  <2> QED BY <2>1, <2>2, <2>3, <2>4, <2>5, SeqEqual
<1>7. Len(d) = Len(a) + Len(b) /\ Len(t) = Len(a) + Len(b) + Len(c)
  BY <1>2, <1>3
<1>8. \A i \in 1..Len(c) : t[Len(a) + Len(b) + i] = c[i]
  BY <1>2, <1>3
<1> QED BY <1>3, <1>4, <1>6, <1>7, <1>8 DEF IsBetween

LEMMA SuffixElements ==
  ASSUME NEW E, NEW s \in Seq(E), NEW t \in Seq(E), NEW n \in Nat, Len(t) = n + Len(s), \A i \in 1..Len(s) : t[n + i] = s[i]
  PROVE  IsSuffix(s, t)
<1>1. PICK a, b : a = Reverse(s) /\ b = Reverse(t)
  OBVIOUS
<1>2. PICK m \in Nat : m = Len(s)
  OBVIOUS
<1>3. a = [i \in 1..m |-> s[(m - i) + 1]] /\ b = [i \in 1..n + m |-> t[((n + m) - i) + 1]]
  BY <1>1, <1>2 DEF Reverse
<1>4. a \in Seq(E) /\ Len(a) = m
  <2>1. \A i \in 1..m : s[(m - i) + 1] \in E
    BY <1>2
  <2>2. a \in [1..m -> E]
    BY <1>3, <2>1
  <2> QED BY <2>2
<1>5. b \in Seq(E) /\ Len(b) = n + m
  <2>1. \A i \in 1..n + m : t[((n + m) - i) + 1] \in E
    BY <1>2
  <2>2. b \in [1..n + m -> E] /\ n + m \in Nat
    BY <1>3, <2>1
  <2>3. PICK k \in Nat : k = n + m
    BY <2>2
  <2>4. b \in [1..k -> E]
    BY <2>2, <2>3
  <2>5. b \in Seq(E) /\ Len(b) = k
    BY <2>4
  <2> QED BY <2>3, <2>5
<1>6. \A i \in 1..m : a[i] = b[i]
  <2> SUFFICES ASSUME NEW i \in 1..m PROVE a[i] = b[i]
    OBVIOUS
  <2>1. i \in 1..n + m /\ (m - i) + 1 \in 1..m /\ ((n + m) - i) + 1 = n + ((m - i) + 1)
    OBVIOUS
  <2>2. a[i] = s[(m - i) + 1] /\ b[i] = t[((n + m) - i) + 1]
    BY <1>3, <2>1
  <2> QED BY <1>2, <2>1, <2>2
<1>7. IsPrefix(a, b)
  <2>1. Len(a) <= Len(b)
    BY <1>4, <1>5
  <2> QED BY <1>4, <1>5, <1>6, <2>1, PrefixElements
<1>8. IsPrefix(Reverse(s), Reverse(t))
  BY <1>1, <1>7
<1> QED BY <1>8 DEF IsSuffix

(* Lists of one, two and three elements.                                    *)
LEMMA ShortTexts ==
  ASSUME NEW S, NEW c \in S, NEW d \in S, NEW e \in S
  PROVE  /\ <<c>> \in Seq(S) /\ Len(<<c>>) = 1 /\ <<c>>[1] = c
         /\ <<c, d>> \in Seq(S) /\ Len(<<c, d>>) = 2 /\ <<c, d>>[1] = c /\ <<c, d>>[2] = d
         /\ <<c, d, e>> \in Seq(S) /\ Len(<<c, d, e>>) = 3 /\ <<c, d, e>>[1] = c /\ <<c, d, e>>[2] = d /\ <<c, d, e>>[3] = e
  OBVIOUS

(* What follows the first element.                                          *)
LEMMA TailOf ==
  ASSUME NEW E, NEW c \in E, NEW q \in Seq(E)
  PROVE  /\ <<c>> \o q \in Seq(E) /\ Tail(<<c>> \o q) = q /\ Len(<<c>> \o q) = Len(q) + 1
         /\ (<<c>> \o q)[1] = c /\ \A i \in 1..Len(q) : (<<c>> \o q)[i + 1] = q[i]
<1>1. PICK a, t : a = <<c>> /\ t = a \o q
  OBVIOUS
<1>2. a \in Seq(E) /\ Len(a) = 1 /\ a[1] = c /\ 1 \in 1..1
  BY <1>1
<1>3. /\ t \in Seq(E) /\ Len(t) = Len(a) + Len(q)
      /\ \A i \in 1..Len(a) : t[i] = a[i] /\ \A j \in 1..Len(q) : t[Len(a) + j] = q[j]
  BY <1>1, <1>2, ConcatPlaces
<1>4. Len(t) = Len(q) + 1 /\ t[1] = c
  BY <1>2, <1>3
<1>5. \A i \in 1..Len(q) : t[i + 1] = q[i]
  <2> SUFFICES ASSUME NEW i \in 1..Len(q) PROVE t[i + 1] = q[i]
    OBVIOUS
  <2>1. t[1 + i] = q[i] /\ 1 + i = i + 1
    BY <1>2, <1>3
  <2> QED BY <2>1
<1>6. Tail(t) = q
  <2>1. t # << >>
    BY <1>3, <1>4
  <2>2. PICK r : r = Tail(t)
    OBVIOUS
  <2>3. r \in Seq(E) /\ Len(r) = Len(q) /\ \A i \in 1..Len(q) : r[i] = t[i + 1]
    BY <1>3, <1>4, <2>1, <2>2
  <2>4. \A i \in 1..Len(q) : r[i] = q[i]
    BY <1>5, <2>3
  <2> QED BY <2>2, <2>3, <2>4, SeqEqual
<1> QED BY <1>1, <1>3, <1>4, <1>5, <1>6

(* Concatenation is associative, for four.                                  *)
LEMMA Regrouped ==
  ASSUME NEW E, NEW a \in Seq(E), NEW b \in Seq(E), NEW c \in Seq(E), NEW d \in Seq(E),
         NEW ab, ab = a \o b, NEW bc, bc = b \o c
  PROVE  ab \o c \o d = a \o (bc \o d)
<1>1. ab \in Seq(E) /\ bc \in Seq(E)
  OBVIOUS
<1>2. ab \o c = a \o bc
  OBVIOUS
<1>3. (a \o bc) \o d = a \o (bc \o d)
  BY <1>1
<1> QED BY <1>2, <1>3

(* Prefixes grow by one element.                                            *)
LEMMA OneLonger ==
  ASSUME NEW E, NEW s \in Seq(E)
  PROVE  /\ SubSeq(s, 1, 0) = << >> /\ SubSeq(s, 1, Len(s)) = s
         /\ \A k \in 1..Len(s) : Append(SubSeq(s, 1, k - 1), s[k]) = SubSeq(s, 1, k)
<1>1. SubSeq(s, 1, 0) = << >> /\ SubSeq(s, 1, Len(s)) = s
  OBVIOUS
<1>2. ASSUME NEW k \in 1..Len(s) PROVE Append(SubSeq(s, 1, k - 1), s[k]) = SubSeq(s, 1, k)
  <2>1. PICK a, b, c : a = SubSeq(s, 1, k - 1) /\ b = Append(a, s[k]) /\ c = SubSeq(s, 1, k)
    OBVIOUS
  <2>2. PICK m \in Nat : k = m + 1
    <3>1. k - 1 \in Nat /\ k = (k - 1) + 1
      OBVIOUS
    <3> QED BY <3>1
  <2>3. a \in Seq(E) /\ Len(a) = m /\ \A i \in 1..m : a[i] = s[i]
    BY <2>1, <2>2
  <2>4. c \in Seq(E) /\ Len(c) = m + 1 /\ \A i \in 1..m + 1 : c[i] = s[i]
    BY <2>1, <2>2
  <2>5. s[k] \in E
    OBVIOUS
  <2>6. b \in Seq(E) /\ Len(b) = m + 1 /\ b[m + 1] = s[k] /\ \A i \in 1..m : b[i] = a[i]
    BY <2>1, <2>3, <2>5
  <2>7. \A i \in 1..m + 1 : i = m + 1 \/ i \in 1..m
    BY <2>2
  <2>8. \A i \in 1..m + 1 : b[i] = c[i]
    BY <2>2, <2>3, <2>4, <2>6, <2>7
  <2> QED BY <2>1, <2>4, <2>6, <2>8, SeqEqual
<1> QED BY <1>1, <1>2

(* All but the last element.                                                *)
LEMMA FrontFacts ==
  ASSUME NEW S, NEW s \in Seq(S), s # << >>
  PROVE  /\ Front(s) \in Seq(S) /\ Last(s) \in S
         /\ Front(s) = << >> <=> Len(s) = 1
         /\ Front(s) # << >> => Last(Front(s)) \in S /\ \E i \in 1..Len(s) : Last(Front(s)) = s[i]
         /\ Len(s) = 2 => Front(s) # << >> /\ Front(Front(s)) = << >>
<1>1. PICK n \in Nat \ {0} : n = Len(s) /\ n - 1 \in Nat
  OBVIOUS
<1>2. PICK f : f = Front(s)
  OBVIOUS
<1>3. f \in Seq(S) /\ Len(f) = n - 1 /\ \A i \in 1..n - 1 : f[i] = s[i]
  BY <1>1, <1>2 DEF Front
<1>4. Last(s) \in S
  BY <1>1 DEF Last
<1>5. f = << >> <=> n = 1
  BY <1>1, <1>3
<1>6. f # << >> => Last(f) \in S /\ \E i \in 1..n : Last(f) = s[i]
  <2> SUFFICES ASSUME f # << >> PROVE Last(f) \in S /\ \E i \in 1..n : Last(f) = s[i]
    OBVIOUS
  <2>1. n - 1 \in 1..n - 1 /\ n - 1 \in 1..n
    BY <1>1, <1>5
  <2>2. Last(f) = s[n - 1]
    BY <1>3, <2>1 DEF Last
  <2> QED BY <1>1, <2>1, <2>2
<1>7. n = 2 => Front(f) = << >>
  BY <1>3 DEF Front
<1> QED BY <1>1, <1>2, <1>3, <1>4, <1>5, <1>6, <1>7

===============================================================================
