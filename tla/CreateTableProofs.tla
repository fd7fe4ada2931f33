---------------------------- MODULE CreateTableProofs ----------------------------
(***************************************************************************)
(* Proofs about CreateTable, for tables of any size over any elements: the *)
(* keys are complete and in source order, a column is nullable exactly     *)
(* when PostgreSQL lets it be NULL, and comments stay with their columns.  *)
(***************************************************************************)
EXTENDS CreateTable, LeastElement, SequenceTheorems, TLAPS

-------------------------------------------------------------------------------
(* The places of a word.  A recursive function is a CHOOSE; that there is  *)
(* one, and what it computes, is shown with the least n for which it fails. *)

(* p are the places of the word in seq up to n, in ascending order. *)
IsPlaces(p, n, seq, word) ==
  /\ p \in Seq(Nat)
  /\ \A k \in DOMAIN p : p[k] \in 1..n /\ seq[p[k]] = word
  /\ \A k, l \in DOMAIN p : k < l => p[k] < p[l]
  /\ \A j \in 1..n : seq[j] = word => \E k \in DOMAIN p : p[k] = j

(* What the recursive function that finds them is, and that there is one. *)
FindsPlaces(f, n, seq, word) ==
  f = [i \in 0..n |-> IF i = 0 THEN << >> ELSE IF seq[i] = word THEN Append(f[i - 1], i) ELSE f[i - 1]]

LEMMA PlacesFunction ==
  ASSUME NEW L \in Nat, NEW seq, NEW word
  PROVE  \E f : FindsPlaces(f, L, seq, word)
<1> DEFINE G == [p \in (1..L) \X Seq(Nat) |-> IF seq[p[1]] = word THEN Append(p[2], p[1]) ELSE p[2]]
<1>1. G \in [(1..L) \X Seq(Nat) -> Seq(Nat)]
  <2>1. \A p \in (1..L) \X Seq(Nat) : p[1] \in Nat /\ p[2] \in Seq(Nat)
    OBVIOUS
  <2>2. \A p \in (1..L) \X Seq(Nat) : Append(p[2], p[1]) \in Seq(Nat)
    BY <2>1, AppendProperties
  <2> QED BY <2>1, <2>2
<1>2. \A n \in 1..L, x \in Seq(Nat) : G[<<n, x>>] = IF seq[n] = word THEN Append(x, n) ELSE x
  OBVIOUS
<1> HIDE DEF G
<1>3. PICK base, T : base = << >> /\ T = Seq(Nat)
  OBVIOUS
<1>4. base \in T /\ G \in [(1..L) \X T -> T]
  <2>1. << >> \in Seq(Nat)
    OBVIOUS
  <2> QED BY <1>1, <1>3, <2>1
<1>5. PICK f : IsRecursion(f, L, base, G)
  BY <1>4, RecursionExists
<1>6. f[0] = base
  BY <1>5, 0 \in 0..L DEF IsRecursion
<1>7. \A n \in 1..L : f[n - 1] \in T /\ f[n] \in T /\ f[n] = G[<<n, f[n - 1]>>]
  BY <1>4, <1>5, RecursionValues
<1> DEFINE Step(n) == IF n = 0 THEN << >> ELSE IF seq[n] = word THEN Append(f[n - 1], n) ELSE f[n - 1]
<1>8. \A n \in 0..L : f[n] = Step(n)
  <2>1. \A n \in 0..L : n = 0 \/ n \in 1..L
    OBVIOUS
  <2> QED BY <1>2, <1>3, <1>6, <1>7, <2>1
<1>9. f = [n \in 0..L |-> f[n]]
  BY <1>5 DEF IsRecursion
<1>10. f = [n \in 0..L |-> Step(n)]
  <2> HIDE DEF Step
  <2> QED BY <1>8, <1>9
<1> QED BY <1>10 DEF FindsPlaces

LEMMA PlacesRecursion ==
  ASSUME NEW S, NEW seq \in Seq(S), NEW word
  PROVE  /\ PlacesUpTo(seq, word, 0) = << >>
         /\ \A n \in 1..Len(seq) :
              PlacesUpTo(seq, word, n) =
                IF seq[n] = word THEN Append(PlacesUpTo(seq, word, n - 1), n) ELSE PlacesUpTo(seq, word, n - 1)
<1> DEFINE Step(f, n) == IF n = 0 THEN << >> ELSE IF seq[n] = word THEN Append(f[n - 1], n) ELSE f[n - 1]
           Computes(f, m) == f = [n \in 0..m |-> Step(f, n)]
           Def == CHOOSE f : Computes(f, Len(seq))
<1>1. \A n : PlacesUpTo(seq, word, n) = Def[n]
  BY DEF PlacesUpTo
<1>2. PICK L \in Nat : L = Len(seq)
  BY LenProperties
<1>3. \E f : Computes(f, L)
  <2>1. PICK f : FindsPlaces(f, L, seq, word)
    BY <1>2, PlacesFunction
  <2> QED BY <2>1 DEF FindsPlaces
<1>4. Computes(Def, L)
  BY <1>2, <1>3
<1>5. \A n \in 0..L : Def[n] = Step(Def, n)
  <2> HIDE DEF Def
  <2> QED BY <1>4
<1>6. 0 \in 0..L /\ \A n \in 1..L : n \in 0..L /\ n # 0
  BY <1>2
<1> HIDE DEF Def
<1>7. Def[0] = << >>
  BY <1>5, <1>6
<1>8. \A n \in 1..L : Def[n] = IF seq[n] = word THEN Append(Def[n - 1], n) ELSE Def[n - 1]
  BY <1>5, <1>6
<1> QED BY <1>1, <1>2, <1>7, <1>8

(* One step of it. *)
LEMMA PlacesGoOn ==
  ASSUME NEW n \in Nat \ {0}, NEW seq, NEW word, NEW p, IsPlaces(p, n - 1, seq, word)
  PROVE  IsPlaces(IF seq[n] = word THEN Append(p, n) ELSE p, n, seq, word)
<1>1. p \in Seq(Nat)
  BY DEF IsPlaces
<1>2. PICK L \in Nat : L = Len(p) /\ DOMAIN p = 1..L
  BY <1>1, LenProperties
<1>3. n \notin 1..n - 1 /\ \A j \in 1..n : j = n \/ j \in 1..n - 1
  OBVIOUS
<1>4. CASE seq[n] # word
  BY <1>3, <1>4 DEF IsPlaces
<1>5. CASE seq[n] = word
  <2> DEFINE q == Append(p, n)
  <2>1. q \in Seq(Nat) /\ DOMAIN q = 1..L + 1
    BY <1>1, <1>2, AppendProperties
  <2>2. q[L + 1] = n /\ \A k \in 1..L : q[k] = p[k]
    BY <1>1, <1>2, AppendProperties
  <2> HIDE DEF q
  <2>3. \A k \in 1..L + 1 : k = L + 1 \/ k \in 1..L
    OBVIOUS
  <2>4. \A k \in 1..L : p[k] \in 1..n - 1 /\ seq[p[k]] = word
    BY <1>2 DEF IsPlaces
  <2>5. \A k \in 1..L + 1 : q[k] \in 1..n /\ seq[q[k]] = word
    BY <1>5, <2>2, <2>3, <2>4
  <2>6. \A k, l \in 1..L + 1 : k < l => q[k] < q[l]
    <3>1. \A k, l \in 1..L : k < l => p[k] < p[l]
      BY <1>2 DEF IsPlaces
    <3>2. \A k \in 1..L : p[k] < n
      BY <2>4
    <3>3. \A k, l \in 1..L + 1 : k < l => k \in 1..L
      OBVIOUS
    <3> QED BY <2>2, <2>3, <3>1, <3>2, <3>3
  <2>7. \A j \in 1..n : seq[j] = word => \E k \in 1..L + 1 : q[k] = j
    <3> SUFFICES ASSUME NEW j \in 1..n, seq[j] = word PROVE \E k \in 1..L + 1 : q[k] = j
      OBVIOUS
    <3>1. CASE j = n
      BY <2>2, <3>1, L + 1 \in 1..L + 1
    <3>2. CASE j \in 1..n - 1
      <4>1. PICK k \in 1..L : p[k] = j
        BY <1>2, <3>2 DEF IsPlaces
      <4> QED BY <2>2, <4>1
    <3> QED BY <1>3, <3>1, <3>2
  <2> QED BY <1>5, <2>1, <2>5, <2>6, <2>7 DEF IsPlaces, q
<1> QED BY <1>4, <1>5

(* What it finds. *)
LEMMA PlacesFound ==
  ASSUME NEW S, NEW seq \in Seq(S), NEW word
  PROVE  \A n \in 0..Len(seq) : IsPlaces(PlacesUpTo(seq, word, n), n, seq, word)
<1> DEFINE f(n) == PlacesUpTo(seq, word, n)
<1>1. PICK m \in Nat : m = Len(seq)
  BY LenProperties
<1>2. f(0) = << >> /\ \A n \in 1..m : f(n) = IF seq[n] = word THEN Append(f(n - 1), n) ELSE f(n - 1)
  BY <1>1, PlacesRecursion
<1> HIDE DEF f
<1>3. IsPlaces(f(0), 0, seq, word)
  <2>1. IsPlaces(<< >>, 0, seq, word)
    BY DEF IsPlaces
  <2> QED BY <1>2, <2>1
<1> DEFINE Bad == {n \in 1..m : ~IsPlaces(f(n), n, seq, word)}
<1>4. Bad = {}
  <2> SUFFICES ASSUME Bad # {} PROVE FALSE
    OBVIOUS
  <2> DEFINE n == Min(Bad)
  <2>1. n \in Bad /\ \A y \in Bad : n <= y
    BY MinOfIndices
  <2> HIDE DEF n
  <2>2. n \in 1..m /\ n - 1 \in 0..m /\ n # 0 /\ n - 1 \in Nat
    BY <2>1
  <2>3. IsPlaces(f(n - 1), n - 1, seq, word)
    <3>1. CASE n = 1
      BY <1>3, <3>1, n - 1 = 0
    <3>2. CASE n # 1
      <4>1. n - 1 \in 1..m /\ ~(n <= n - 1)
        BY <2>2, <3>2
      <4> QED BY <2>1, <4>1
    <3> QED BY <3>1, <3>2
  <2> DEFINE p == f(n - 1)
  <2>4. f(n) = IF seq[n] = word THEN Append(p, n) ELSE p
    BY <1>2, <2>2
  <2> HIDE DEF p
  <2>5. IsPlaces(p, n - 1, seq, word)
    BY <2>3 DEF p
  <2>6. IsPlaces(IF seq[n] = word THEN Append(p, n) ELSE p, n, seq, word)
    BY <2>2, <2>5, PlacesGoOn
  <2> QED BY <2>1, <2>4, <2>6
<1>5. \A n \in 0..m : IsPlaces(f(n), n, seq, word)
  <2> SUFFICES ASSUME NEW n \in 0..m PROVE IsPlaces(f(n), n, seq, word)
    OBVIOUS
  <2>1. CASE n = 0
    BY <1>3, <2>1
  <2>2. CASE n # 0
    <3>1. n \in 1..m /\ n \notin Bad
      BY <1>4, <2>2
    <3> QED BY <3>1
  <2> QED BY <2>1, <2>2
<1> QED BY <1>1, <1>5 DEF f

-------------------------------------------------------------------------------
(* The inductive invariant.                                                *)

Key == [at : Nat \X Nat, columns : Seq(ColumnName)]

(* found are the keys of the elements I, all of them and in source order. *)
KeysIn(found, I, kind, qual) ==
  /\ found \in Seq(Key)
  /\ \A k \in DOMAIN found :
       /\ found[k].at[1] \in I /\ found[k].at \in PlacesIn(found[k].at[1], kind, qual)
       /\ found[k].columns = elements[found[k].at[1]].names
  /\ \A k, l \in DOMAIN found : k < l => Before(found[k].at, found[l].at)
  /\ \A i \in I : \A p \in PlacesIn(i, kind, qual) : \E k \in DOMAIN found : found[k].at = p

(* key is the first primary key of the elements I. *)
PrimaryIn(key, I) ==
  \/ key = NoKey /\ \A i \in I : PlacesIn(i, "PRIMARY KEY", "PRIMARY KEY") = {}
  \/ /\ key \in Key /\ key.at[1] \in I /\ key.at \in PlacesIn(key.at[1], "PRIMARY KEY", "PRIMARY KEY")
     /\ key.columns = elements[key.at[1]].names
     /\ \A i \in I : \A p \in PlacesIn(i, "PRIMARY KEY", "PRIMARY KEY") : key.at = p \/ Before(key.at, p)

(* The elements whose constraints are merged, and those whose comments are read. *)
Merged == {i \in DOMAIN elements : pass = "constraints" => i < next}

Read == {i \in DOMAIN elements :
           \/ pass = "comments" /\ i < next
           \/ pass \in {"columns", "done"} /\ includeComments}

PassOK ==
  /\ elements \in Seq(Elements) /\ includeComments \in BOOLEAN
  /\ next \in 1..Len(elements) + 1
  /\ pass \in {"constraints", "comments", "columns", "done"}
  /\ pass = "comments" => includeComments

ConstraintsOK ==
  /\ KeysIn(foreignKeys, Merged, "FOREIGN KEY", "REFERENCES")
  /\ KeysIn(uniqueKeys, Merged, "UNIQUE", "UNIQUE")
  /\ KeysIn(checkConstraints, Merged, "CHECK", "CHECK")
  /\ PrimaryIn(primaryKey, Merged)

CommentsOf(key, i) == IsColumn(i) /\ Normalize(Name(i)) = key /\ comments[key] = LineComments(i)

(* A column's comments are those of a column of its name, and not given up *)
(* for a column without comments.                                          *)
CommentsOK ==
  /\ comments = [key \in Keys |-> comments[key]]
  /\ \A key \in Keys : comments[key] = << >> \/ \E i \in Read : CommentsOf(key, i)
  /\ \A i \in Read : IsColumn(i) /\ LineComments(i) # << >> => comments[Normalize(Name(i))] # << >>

ElementKinds == [i \in DOMAIN elements |-> elements[i].kind]

ColumnsUpTo(n) == PlacesUpTo(ElementKinds, "column", n)

(* How many elements the last loop has passed. *)
Detailed == CASE pass = "columns" -> next - 1 [] pass = "done" -> Len(elements) [] OTHER -> 0

DetailsOK == columnDetails = [k \in DOMAIN ColumnsUpTo(Detailed) |-> Column(ColumnsUpTo(Detailed)[k])]

IInv == PassOK /\ ConstraintsOK /\ CommentsOK /\ DetailsOK

-------------------------------------------------------------------------------
(* The keys of one element.                                                *)

LEMMA ElementTypes ==
  ASSUME elements \in Seq(Elements), NEW i \in DOMAIN elements
  PROVE  /\ i \in Nat \ {0} /\ elements[i] \in Elements
         /\ elements[i].names \in Seq(ColumnName) /\ elements[i].quals \in Seq(ColumnQual)
         /\ elements[i].hidden \in Seq(Hidden)
         /\ IsColumn(i) => Name(i) \in ColumnName /\ elements[i].names = <<Name(i)>>
<1>1. i \in Nat \ {0} /\ elements[i] \in Elements
  OBVIOUS
<1>2. /\ elements[i].names \in Seq(ColumnName) /\ elements[i].quals \in Seq(ColumnQual)
      /\ elements[i].hidden \in Seq(Hidden) /\ (elements[i].kind = "column" => Len(elements[i].names) = 1)
  BY <1>1, ElementsAssumption
<1>3. ASSUME NEW names \in Seq(ColumnName), Len(names) = 1
      PROVE  names[1] \in ColumnName /\ names = <<names[1]>>
  <2>1. 1 \in 1..Len(names)
    BY <1>3
  <2>2. names[1] \in ColumnName
    BY <2>1, ElementOfSeq
  <2>3. <<names[1]>> \in Seq(ColumnName) /\ Len(<<names[1]>>) = 1 /\ <<names[1]>>[1] = names[1]
    BY <2>2
  <2>4. \A i0 \in 1..1 : i0 = 1
    OBVIOUS
  <2> QED BY <1>3, <2>2, <2>3, <2>4, SeqEqual
<1> QED BY <1>1, <1>2, <1>3 DEF IsColumn, Name

LEMMA InlineFound ==
  ASSUME elements \in Seq(Elements), NEW i \in DOMAIN elements, IsColumn(i), NEW kind, NEW qual
  PROVE  KeysIn(Inline(i, qual), {i}, kind, qual)
<1>1. PICK quals \in Seq(ColumnQual) : quals = elements[i].quals
  BY ElementTypes
<1>2. PICK places : places = PlacesOf(quals, qual)
  OBVIOUS
<1>3. PICK n \in Nat : n = Len(quals) /\ DOMAIN quals = 1..n
  BY LenProperties
<1>4. IsPlaces(places, n, quals, qual)
  BY <1>2, <1>3, PlacesFound DEF PlacesOf
<1>5. PICK m \in Nat : m = Len(places) /\ DOMAIN places = 1..m /\ places \in Seq(Nat)
  BY <1>4, LenProperties DEF IsPlaces
<1> DEFINE key(k) == [at |-> <<i, places[k]>>, columns |-> <<Name(i)>>]
<1>6. PICK found : found = Inline(i, qual)
  OBVIOUS
<1>7. found = [k \in 1..m |-> key(k)]
  BY <1>1, <1>2, <1>5, <1>6 DEF Inline
<1>8. \A k \in 1..m : key(k) \in Key
  <2>1. i \in Nat /\ <<Name(i)>> \in Seq(ColumnName)
    BY ElementTypes
  <2>2. \A k \in 1..m : <<i, places[k]>> \in Nat \X Nat
    BY <1>5, <2>1
  <2> QED BY <2>1, <2>2 DEF Key
<1>9. found \in Seq(Key) /\ DOMAIN found = 1..m
  BY <1>7, <1>8
<1>10. \A k \in 1..m : /\ found[k].at[1] = i /\ found[k].at = <<i, places[k]>> /\ found[k].at[2] = places[k]
                       /\ found[k].columns = <<Name(i)>>
  BY <1>7
<1>11. PlacesIn(i, kind, qual) = {<<i, j>> : j \in {j \in 1..n : quals[j] = qual}}
  BY <1>1, <1>3 DEF PlacesIn
<1>12. elements[i].names = <<Name(i)>>
  BY ElementTypes
<1>13. \A k \in 1..m : places[k] \in 1..n /\ quals[places[k]] = qual
  BY <1>4, <1>5 DEF IsPlaces
<1>14. \A k, l \in 1..m : k < l => Before(found[k].at, found[l].at)
  <2>1. \A k, l \in 1..m : k < l => places[k] < places[l]
    BY <1>4, <1>5 DEF IsPlaces
  <2> QED BY <1>10, <2>1 DEF Before
<1>15. \A p \in PlacesIn(i, kind, qual) : \E k \in 1..m : found[k].at = p
  <2>1. \A j \in 1..n : quals[j] = qual => \E k \in 1..m : places[k] = j
    BY <1>4, <1>5 DEF IsPlaces
  <2> SUFFICES ASSUME NEW j \in 1..n, quals[j] = qual PROVE \E k \in 1..m : found[k].at = <<i, j>>
    BY <1>11
  <2>2. PICK k \in 1..m : places[k] = j
    BY <2>1
  <2> QED BY <1>10, <2>2
<1>16. \A k \in 1..m : found[k].at \in PlacesIn(i, kind, qual)
  BY <1>10, <1>11, <1>13
<1> HIDE DEF key
<1> QED BY <1>6, <1>9, <1>10, <1>12, <1>14, <1>15, <1>16 DEF KeysIn

(* The keys of a kind that a constraint of the table is. *)
LEMMA TableKeyFound ==
  ASSUME elements \in Seq(Elements), NEW i \in DOMAIN elements, ~IsColumn(i), NEW kind, NEW qual
  PROVE  /\ kind \notin {"PRIMARY KEY", "UNIQUE"} => KeysIn(TableLevel(i, kind), {i}, kind, qual)
         /\ kind \in {"PRIMARY KEY", "UNIQUE"} => KeysIn(WithColumns(i, kind), {i}, kind, qual)
<1> DEFINE key == [at |-> <<i, 0>>, columns |-> elements[i].names]
           there == elements[i].kind = kind /\ (kind \in {"PRIMARY KEY", "UNIQUE"} => elements[i].names # << >>)
<1>1. PlacesIn(i, kind, qual) = IF there THEN {<<i, 0>>} ELSE {}
  BY DEF PlacesIn
<1>2. KeysIn(<< >>, {i}, kind, qual) \/ there
  <2> HIDE DEF there
  <2>1. << >> \in Seq(Key) /\ \A k \in DOMAIN << >> : FALSE
    OBVIOUS
  <2>2. ~there => PlacesIn(i, kind, qual) = {}
    BY <1>1
  <2> QED BY <2>1, <2>2 DEF KeysIn
<1>3. there => KeysIn(<<key>>, {i}, kind, qual)
  <2>1. i \in Nat /\ elements[i].names \in Seq(ColumnName)
    BY ElementTypes
  <2>2. key \in Key /\ key.at = <<i, 0>> /\ key.at[1] = i /\ key.columns = elements[i].names
    BY <2>1 DEF Key
  <2> HIDE DEF key
  <2>3. PICK found : found = <<key>>
    OBVIOUS
  <2>4. found \in Seq(Key) /\ DOMAIN found = 1..1 /\ found[1] = key
    BY <2>2, <2>3
  <2>5. \A k \in 1..1 : k = 1
    OBVIOUS
  <2>6. there => PlacesIn(i, kind, qual) = {key.at}
    BY <1>1, <2>2
  <2> HIDE DEF there
  <2>7. there => \A p \in PlacesIn(i, kind, qual) : \E k \in DOMAIN found : found[k].at = p
    BY <2>4, <2>6, 1 \in 1..1
  <2>8. ~(1 < 1)
    OBVIOUS
  <2>9. there => \A k \in DOMAIN found :
          /\ found[k].at[1] \in {i} /\ found[k].at \in PlacesIn(found[k].at[1], kind, qual)
          /\ found[k].columns = elements[found[k].at[1]].names
    BY <2>2, <2>4, <2>5, <2>6
  <2>10. \A k, l \in DOMAIN found : k < l => Before(found[k].at, found[l].at)
    BY <2>4, <2>5, <2>8
  <2>11. there => \A i0 \in {i} : \A p \in PlacesIn(i0, kind, qual) : \E k \in DOMAIN found : found[k].at = p
    BY <2>7
  <2> QED BY <2>3, <2>4, <2>9, <2>10, <2>11 DEF KeysIn
<1>4. kind \notin {"PRIMARY KEY", "UNIQUE"} => TableLevel(i, kind) = IF there THEN <<key>> ELSE << >>
  BY DEF TableLevel
<1>5. kind \in {"PRIMARY KEY", "UNIQUE"} => WithColumns(i, kind) = IF there THEN <<key>> ELSE << >>
  BY DEF TableLevel, WithColumns
<1> HIDE DEF key, there
<1> QED BY <1>2, <1>3, <1>4, <1>5

-------------------------------------------------------------------------------
(* Merging the keys of an element into those of the elements before it.    *)

(* A sequence of keys after another. *)
LEMMA KeysAppended ==
  ASSUME NEW I, NEW i \in Nat, \A j \in I : j < i, NEW kind, NEW qual,
         NEW f, KeysIn(f, I, kind, qual), NEW g, KeysIn(g, {i}, kind, qual)
  PROVE  KeysIn(f \o g, I \cup {i}, kind, qual)
<1>1. f \in Seq(Key) /\ g \in Seq(Key)
  BY DEF KeysIn
<1>2. PICK m \in Nat : m = Len(f) /\ DOMAIN f = 1..m
  BY <1>1, LenProperties
<1>3. PICK n \in Nat : n = Len(g) /\ DOMAIN g = 1..n
  BY <1>1, LenProperties
<1>4. PICK h : h = f \o g
  OBVIOUS
<1>5. h \in Seq(Key) /\ DOMAIN h = 1..m + n
  BY <1>1, <1>2, <1>3, <1>4, ConcatProperties, LenProperties
<1>6. \A k \in 1..m + n : h[k] = IF k <= m THEN f[k] ELSE g[k - m]
  BY <1>1, <1>2, <1>3, <1>4, ConcatProperties
<1>7. \A k \in 1..m : k \in 1..m + n /\ h[k] = f[k]
  BY <1>6
<1>8. \A k \in 1..n : k + m \in 1..m + n /\ h[k + m] = g[k]
  <2> SUFFICES ASSUME NEW k \in 1..n PROVE k + m \in 1..m + n /\ h[k + m] = g[k]
    OBVIOUS
  <2>1. k + m \in 1..m + n /\ ~(k + m <= m) /\ k + m - m = k
    OBVIOUS
  <2> QED BY <1>6, <2>1
<1>9. \A k \in 1..m + n : k \in 1..m \/ \E k0 \in 1..n : k = k0 + m
  <2> SUFFICES ASSUME NEW k \in 1..m + n, k \notin 1..m PROVE \E k0 \in 1..n : k = k0 + m
    OBVIOUS
  <2>1. k - m \in 1..n /\ k = (k - m) + m
    OBVIOUS
  <2> QED BY <2>1
<1>10. \A k \in 1..m : /\ f[k].at[1] \in I /\ f[k].at \in PlacesIn(f[k].at[1], kind, qual)
                       /\ f[k].columns = elements[f[k].at[1]].names
  BY <1>2 DEF KeysIn
<1>11. \A k \in 1..n : /\ g[k].at[1] = i /\ g[k].at \in PlacesIn(g[k].at[1], kind, qual)
                       /\ g[k].columns = elements[g[k].at[1]].names
  BY <1>3 DEF KeysIn
<1>12. \A k \in 1..m + n : /\ h[k].at[1] \in I \cup {i} /\ h[k].at \in PlacesIn(h[k].at[1], kind, qual)
                           /\ h[k].columns = elements[h[k].at[1]].names
  <2> SUFFICES ASSUME NEW k \in 1..m + n
               PROVE  /\ h[k].at[1] \in I \cup {i} /\ h[k].at \in PlacesIn(h[k].at[1], kind, qual)
                      /\ h[k].columns = elements[h[k].at[1]].names
    OBVIOUS
  <2>1. CASE k \in 1..m
    BY <1>7, <1>10, <2>1
  <2>2. CASE \E k0 \in 1..n : k = k0 + m
    BY <1>8, <1>11, <2>2
  <2> QED BY <1>9, <2>1, <2>2
<1>13. \A k, l \in 1..m + n : k < l => Before(h[k].at, h[l].at)
  <2> SUFFICES ASSUME NEW k \in 1..m + n, NEW l \in 1..m + n, k < l PROVE Before(h[k].at, h[l].at)
    OBVIOUS
  <2>1. CASE k \in 1..m /\ l \in 1..m
    <3>1. Before(f[k].at, f[l].at)
      BY <1>2, <2>1 DEF KeysIn
    <3> QED BY <1>7, <2>1, <3>1
  <2>2. CASE k \in 1..m /\ l \notin 1..m
    <3>1. PICK l0 \in 1..n : l = l0 + m
      BY <1>9, <2>2
    <3>2. f[k].at[1] < i /\ g[l0].at[1] = i
      BY <1>10, <1>11, <2>2
    <3>3. h[k] = f[k] /\ h[l] = g[l0]
      BY <1>7, <1>8, <2>2, <3>1
    <3> QED BY <3>2, <3>3 DEF Before
  <2>3. CASE k \notin 1..m
    <3>1. PICK k0 \in 1..n : k = k0 + m
      BY <1>9, <2>3
    <3>2. l \notin 1..m
      BY <2>3
    <3>3. PICK l0 \in 1..n : l = l0 + m
      BY <1>9, <3>2
    <3>4. k0 < l0
      BY <3>1, <3>3
    <3>5. Before(g[k0].at, g[l0].at)
      BY <1>3, <3>4 DEF KeysIn
    <3> QED BY <1>8, <3>1, <3>3, <3>5
  <2> QED BY <2>1, <2>2, <2>3
<1>14. \A j \in I \cup {i} : \A p \in PlacesIn(j, kind, qual) : \E k \in 1..m + n : h[k].at = p
  <2> SUFFICES ASSUME NEW j \in I \cup {i}, NEW p \in PlacesIn(j, kind, qual)
               PROVE  \E k \in 1..m + n : h[k].at = p
    OBVIOUS
  <2>1. CASE j \in I
    <3>1. PICK k \in 1..m : f[k].at = p
      BY <1>2, <2>1 DEF KeysIn
    <3> QED BY <1>7, <3>1
  <2>2. CASE j = i
    <3>1. PICK k \in 1..n : g[k].at = p
      BY <1>3, <2>2 DEF KeysIn
    <3> QED BY <1>8, <3>1
  <2> QED BY <2>1, <2>2
<1> QED BY <1>4, <1>5, <1>12, <1>13, <1>14 DEF KeysIn

LEMMA PlaceInElement ==
  ASSUME NEW i, NEW kind, NEW qual, NEW p \in PlacesIn(i, kind, qual)
  PROVE  p = <<p[1], p[2]>> /\ p[1] = i
<1>1. CASE IsColumn(i)
  BY <1>1 DEF PlacesIn
<1>2. CASE ~IsColumn(i)
  <2>1. p = <<i, 0>>
    BY <1>2 DEF PlacesIn
  <2> QED BY <2>1
<1> QED BY <1>1, <1>2

LEMMA KeySequence ==
  ASSUME NEW g \in Seq(Key)
  PROVE  /\ \A k \in DOMAIN g : g[k] \in Key /\ (k = 1 \/ 1 < k)
         /\ g = << >> => \A k \in DOMAIN g : FALSE
         /\ g # << >> => 1 \in DOMAIN g
<1>1. PICK n \in Nat : n = Len(g) /\ DOMAIN g = 1..n
  OBVIOUS
<1>2. \A k \in 1..n : g[k] \in Key /\ (k = 1 \/ 1 < k)
  BY <1>1
<1>3. g = << >> => n = 0
  BY <1>1
<1>4. g # << >> => n # 0
  BY <1>1, EmptySeq
<1> QED BY <1>1, <1>2, <1>3, <1>4

(* The first of the keys found is taken where there is none yet. *)
LEMMA FirstKeyTaken ==
  ASSUME NEW I \in SUBSET (Nat \ {0}), NEW i \in Nat \ {0}, \A j \in I : j < i, NEW key, PrimaryIn(key, I),
         NEW g, KeysIn(g, {i}, "PRIMARY KEY", "PRIMARY KEY")
  PROVE  PrimaryIn(FirstKey(key, g), I \cup {i})
<1> DEFINE places(j) == PlacesIn(j, "PRIMARY KEY", "PRIMARY KEY")
<1>0. 0 \notin I
  OBVIOUS
<1>1. \A j : \A p \in places(j) : p[1] = j
  BY PlaceInElement
<1>2. g \in Seq(Key)
  BY DEF KeysIn
<1>3. /\ \A k \in DOMAIN g : g[k] \in Key /\ (k = 1 \/ 1 < k)
      /\ g = << >> => \A k \in DOMAIN g : FALSE
      /\ g # << >> => 1 \in DOMAIN g
  BY <1>2, KeySequence
<1>4. CASE key # NoKey
  <2>1. FirstKey(key, g) = key
    BY <1>4 DEF FirstKey
  <2>2. /\ key \in Key /\ key.at[1] \in I /\ key.at \in places(key.at[1])
        /\ key.columns = elements[key.at[1]].names
        /\ \A j \in I : \A p \in places(j) : key.at = p \/ Before(key.at, p)
    BY <1>4 DEF PrimaryIn
  <2>3. \A p \in places(i) : Before(key.at, p)
    BY <1>1, <2>2 DEF Before
  <2>4. \A j \in I \cup {i} : \A p \in places(j) : key.at = p \/ Before(key.at, p)
    BY <2>2, <2>3
  <2> QED BY <2>1, <2>2, <2>4 DEF PrimaryIn
<1>5. CASE key = NoKey /\ g = << >>
  <2>1. FirstKey(key, g) = NoKey
    BY <1>5 DEF FirstKey
  <2>2. places(i) = {}
    <3>1. \A p \in places(i) : \E k \in DOMAIN g : g[k].at = p
      BY DEF KeysIn
    <3>2. \A k \in DOMAIN g : FALSE
      BY <1>3, <1>5
    <3> QED BY <3>1, <3>2
  <2>3. \A j \in I : places(j) = {}
    <3>1. key.at[1] = 0
      BY <1>5 DEF NoKey
    <3>2. key.at[1] \notin I
      BY <1>0, <3>1
    <3> QED BY <3>2 DEF PrimaryIn
  <2> QED BY <2>1, <2>2, <2>3 DEF PrimaryIn
<1>6. CASE key = NoKey /\ g # << >>
  <2>1. FirstKey(key, g) = g[1] /\ 1 \in DOMAIN g
    <3>1. FirstKey(key, g) = g[1]
      BY <1>6 DEF FirstKey
    <3> QED BY <1>3, <1>6, <3>1
  <2>2. PICK first : first = g[1]
    OBVIOUS
  <2>3. /\ first \in Key /\ first.at[1] = i /\ first.at \in places(first.at[1])
        /\ first.columns = elements[first.at[1]].names
    <3>1. first.at[1] \in {i} /\ first.at \in places(first.at[1]) /\ first.columns = elements[first.at[1]].names
      BY <2>1, <2>2 DEF KeysIn
    <3>2. first \in Key
      BY <1>3, <2>1, <2>2
    <3> QED BY <3>1, <3>2
  <2>4. \A j \in I : places(j) = {}
    <3>1. ASSUME key.at[1] \in I PROVE FALSE
      <4>1. key.at[1] = 0
        BY <1>6 DEF NoKey
      <4> QED BY <1>0, <3>1, <4>1
    <3> QED BY <3>1 DEF PrimaryIn
  <2>5. \A p \in places(i) : first.at = p \/ Before(first.at, p)
    <3> SUFFICES ASSUME NEW p \in places(i) PROVE first.at = p \/ Before(first.at, p)
      OBVIOUS
    <3>1. PICK k \in DOMAIN g : g[k].at = p
      BY DEF KeysIn
    <3>2. CASE k = 1
      BY <2>2, <3>1, <3>2
    <3>3. CASE k # 1
      <4>1. 1 < k
        BY <1>3, <3>3
      <4>2. Before(g[1].at, g[k].at)
        BY <2>1, <4>1 DEF KeysIn
      <4> QED BY <2>2, <3>1, <4>2
    <3> QED BY <3>2, <3>3
  <2>6. PrimaryIn(first, I \cup {i})
    BY <2>3, <2>4, <2>5 DEF PrimaryIn
  <2> QED BY <2>1, <2>2, <2>6
<1> QED BY <1>4, <1>5, <1>6

-------------------------------------------------------------------------------
(* What a step has to establish of the parts it changes.                   *)

LEMMA ConstraintsGoOn ==
  ASSUME elements' = elements, NEW I, Merged' = I,
         KeysIn(foreignKeys', I, "FOREIGN KEY", "REFERENCES"), KeysIn(uniqueKeys', I, "UNIQUE", "UNIQUE"),
         KeysIn(checkConstraints', I, "CHECK", "CHECK"), PrimaryIn(primaryKey', I)
  PROVE  ConstraintsOK'
<1>1. ASSUME NEW i, NEW kind, NEW qual PROVE PlacesIn(i, kind, qual)' = PlacesIn(i, kind, qual)
  BY DEF PlacesIn, IsColumn
<1>2. ASSUME NEW f, NEW kind, NEW qual, KeysIn(f, I, kind, qual) PROVE KeysIn(f, I, kind, qual)'
  BY <1>1, <1>2 DEF KeysIn
<1>3. ASSUME NEW key, PrimaryIn(key, I) PROVE PrimaryIn(key, I)'
  BY <1>1, <1>3 DEF PrimaryIn
<1>4. PICK fk, uk, ck, pk : fk = foreignKeys' /\ uk = uniqueKeys' /\ ck = checkConstraints' /\ pk = primaryKey'
  OBVIOUS
<1>5. KeysIn(fk, I, "FOREIGN KEY", "REFERENCES")' /\ KeysIn(uk, I, "UNIQUE", "UNIQUE")'
  BY <1>2, <1>4
<1>6. KeysIn(ck, I, "CHECK", "CHECK")' /\ PrimaryIn(pk, I)'
  BY <1>2, <1>3, <1>4
<1>7. KeysIn(foreignKeys, Merged, "FOREIGN KEY", "REFERENCES")'
  <2>1. KeysIn(fk, I, "FOREIGN KEY", "REFERENCES")'
    BY <1>5
  <2>2. (foreignKeys \in Seq(Key))' /\ (\A k, l \in DOMAIN foreignKeys : k < l => Before(foreignKeys[k].at, foreignKeys[l].at))'
    BY <1>4, <2>1 DEF KeysIn
  <2>3. (\A k \in DOMAIN foreignKeys :
           /\ foreignKeys[k].at[1] \in Merged /\ foreignKeys[k].at \in PlacesIn(foreignKeys[k].at[1], "FOREIGN KEY", "REFERENCES")
           /\ foreignKeys[k].columns = elements[foreignKeys[k].at[1]].names)'
    <3>1. (\A k \in DOMAIN foreignKeys : foreignKeys[k].at[1] \in Merged)'
      BY <1>4, <2>1 DEF KeysIn
    <3>2. (\A k \in DOMAIN foreignKeys : foreignKeys[k].columns = elements[foreignKeys[k].at[1]].names)'
      BY <1>4, <2>1 DEF KeysIn
    <3>3. ASSUME NEW k \in DOMAIN fk PROVE (foreignKeys[k].at \in PlacesIn(foreignKeys[k].at[1], "FOREIGN KEY", "REFERENCES"))'
      <4>1. PICK e : e = fk[k].at[1]
        OBVIOUS
      <4>2. (fk[k].at \in PlacesIn(e, "FOREIGN KEY", "REFERENCES"))'
        <5>1. (fk[k].at \in PlacesIn(fk[k].at[1], "FOREIGN KEY", "REFERENCES"))'
          BY <2>1, <3>3 DEF KeysIn
        <5> QED BY <4>1, <5>1
      <4> QED BY <1>4, <4>1, <4>2 DEF PlacesIn, IsColumn
    <3> QED BY <1>4, <3>1, <3>2, <3>3
  <2>4. (\A i \in Merged : \A p \in PlacesIn(i, "FOREIGN KEY", "REFERENCES") : \E k \in DOMAIN foreignKeys : foreignKeys[k].at = p)'
    BY <1>4, <2>1 DEF KeysIn
  <2> QED BY <2>2, <2>3, <2>4 DEF KeysIn
<1>8. KeysIn(uniqueKeys, Merged, "UNIQUE", "UNIQUE")'
  <2>1. KeysIn(uk, I, "UNIQUE", "UNIQUE")'
    BY <1>5
  <2>2. (uniqueKeys \in Seq(Key))' /\ (\A k, l \in DOMAIN uniqueKeys : k < l => Before(uniqueKeys[k].at, uniqueKeys[l].at))'
    BY <1>4, <2>1 DEF KeysIn
  <2>3. (\A k \in DOMAIN uniqueKeys :
           /\ uniqueKeys[k].at[1] \in Merged /\ uniqueKeys[k].at \in PlacesIn(uniqueKeys[k].at[1], "UNIQUE", "UNIQUE")
           /\ uniqueKeys[k].columns = elements[uniqueKeys[k].at[1]].names)'
    <3>1. (\A k \in DOMAIN uniqueKeys : uniqueKeys[k].at[1] \in Merged)'
      BY <1>4, <2>1 DEF KeysIn
    <3>2. (\A k \in DOMAIN uniqueKeys : uniqueKeys[k].columns = elements[uniqueKeys[k].at[1]].names)'
      BY <1>4, <2>1 DEF KeysIn
    <3>3. ASSUME NEW k \in DOMAIN uk PROVE (uniqueKeys[k].at \in PlacesIn(uniqueKeys[k].at[1], "UNIQUE", "UNIQUE"))'
      <4>1. PICK e : e = uk[k].at[1]
        OBVIOUS
      <4>2. (uk[k].at \in PlacesIn(e, "UNIQUE", "UNIQUE"))'
        <5>1. (uk[k].at \in PlacesIn(uk[k].at[1], "UNIQUE", "UNIQUE"))'
          BY <2>1, <3>3 DEF KeysIn
        <5> QED BY <4>1, <5>1
      <4> QED BY <1>4, <4>1, <4>2 DEF PlacesIn, IsColumn
    <3> QED BY <1>4, <3>1, <3>2, <3>3
  <2>4. (\A i \in Merged : \A p \in PlacesIn(i, "UNIQUE", "UNIQUE") : \E k \in DOMAIN uniqueKeys : uniqueKeys[k].at = p)'
    BY <1>4, <2>1 DEF KeysIn
  <2> QED BY <2>2, <2>3, <2>4 DEF KeysIn
<1>9. KeysIn(checkConstraints, Merged, "CHECK", "CHECK")'
  <2>1. KeysIn(ck, I, "CHECK", "CHECK")'
    BY <1>6
  <2>2. (checkConstraints \in Seq(Key))' /\ (\A k, l \in DOMAIN checkConstraints : k < l => Before(checkConstraints[k].at, checkConstraints[l].at))'
    BY <1>4, <2>1 DEF KeysIn
  <2>3. (\A k \in DOMAIN checkConstraints :
           /\ checkConstraints[k].at[1] \in Merged /\ checkConstraints[k].at \in PlacesIn(checkConstraints[k].at[1], "CHECK", "CHECK")
           /\ checkConstraints[k].columns = elements[checkConstraints[k].at[1]].names)'
    <3>1. (\A k \in DOMAIN checkConstraints : checkConstraints[k].at[1] \in Merged)'
      BY <1>4, <2>1 DEF KeysIn
    <3>2. (\A k \in DOMAIN checkConstraints : checkConstraints[k].columns = elements[checkConstraints[k].at[1]].names)'
      BY <1>4, <2>1 DEF KeysIn
    <3>3. ASSUME NEW k \in DOMAIN ck PROVE (checkConstraints[k].at \in PlacesIn(checkConstraints[k].at[1], "CHECK", "CHECK"))'
      <4>1. PICK e : e = ck[k].at[1]
        OBVIOUS
      <4>2. (ck[k].at \in PlacesIn(e, "CHECK", "CHECK"))'
        <5>1. (ck[k].at \in PlacesIn(ck[k].at[1], "CHECK", "CHECK"))'
          BY <2>1, <3>3 DEF KeysIn
        <5> QED BY <4>1, <5>1
      <4> QED BY <1>4, <4>1, <4>2 DEF PlacesIn, IsColumn
    <3> QED BY <1>4, <3>1, <3>2, <3>3
  <2>4. (\A i \in Merged : \A p \in PlacesIn(i, "CHECK", "CHECK") : \E k \in DOMAIN checkConstraints : checkConstraints[k].at = p)'
    BY <1>4, <2>1 DEF KeysIn
  <2> QED BY <2>2, <2>3, <2>4 DEF KeysIn
<1>10. PrimaryIn(primaryKey, Merged)'
  BY <1>4, <1>6 DEF PrimaryIn, PlacesIn, IsColumn
<1> QED BY <1>7, <1>8, <1>9, <1>10 DEF ConstraintsOK

LEMMA ColumnsRecursion ==
  ASSUME elements \in Seq(Elements)
  PROVE  /\ ElementKinds \in Seq({"column"} \cup TableKinds) /\ Len(ElementKinds) = Len(elements)
         /\ \A i \in DOMAIN elements : ElementKinds[i] = "column" <=> IsColumn(i)
         /\ ColumnsUpTo(0) = << >>
         /\ \A n \in 1..Len(elements) :
              ColumnsUpTo(n) = IF IsColumn(n) THEN Append(ColumnsUpTo(n - 1), n) ELSE ColumnsUpTo(n - 1)
<1>1. PICK L \in Nat : L = Len(elements) /\ DOMAIN elements = 1..L
  BY LenProperties
<1>2. PICK kinds : kinds = ElementKinds
  OBVIOUS
<1>3. \A i \in 1..L : elements[i].kind \in {"column"} \cup TableKinds
  BY <1>1, ElementTypes, ElementsAssumption
<1>4. kinds = [i \in 1..L |-> elements[i].kind]
  BY <1>1, <1>2 DEF ElementKinds
<1>5. kinds \in Seq({"column"} \cup TableKinds) /\ Len(kinds) = L
  BY <1>3, <1>4
<1>6. \A i \in 1..L : kinds[i] = "column" <=> IsColumn(i)
  BY <1>4 DEF IsColumn
<1>7. /\ PlacesUpTo(kinds, "column", 0) = << >>
      /\ \A n \in 1..L : PlacesUpTo(kinds, "column", n) =
           IF kinds[n] = "column" THEN Append(PlacesUpTo(kinds, "column", n - 1), n)
           ELSE PlacesUpTo(kinds, "column", n - 1)
  BY <1>5, PlacesRecursion
<1>8. \A n : ColumnsUpTo(n) = PlacesUpTo(kinds, "column", n)
  BY <1>2 DEF ColumnsUpTo
<1> QED BY <1>1, <1>2, <1>5, <1>6, <1>7, <1>8

LEMMA DetailsGoOn ==
  ASSUME elements' = elements, comments' = comments, primaryKey' = primaryKey, NEW n, Detailed' = n,
         columnDetails' = [k \in DOMAIN ColumnsUpTo(n) |-> Column(ColumnsUpTo(n)[k])]
  PROVE  DetailsOK'
<1>1. ColumnsUpTo(n)' = ColumnsUpTo(n)
  BY DEF ColumnsUpTo, ElementKinds
<1>2. \A i : Column(i)' = Column(i)
  BY DEF Column, Name, NotNullInline, PrimaryKeyColumns, Default
<1>3. PICK cols : cols = ColumnsUpTo(n)
  OBVIOUS
<1>4. cols = ColumnsUpTo(Detailed)'
  BY <1>1, <1>3 DEF ColumnsUpTo, ElementKinds
<1>5. columnDetails' = [k \in DOMAIN cols |-> Column(cols[k])']
  BY <1>2, <1>3
<1> QED BY <1>4, <1>5 DEF DetailsOK, Column, Name, NotNullInline, PrimaryKeyColumns, Default

LEMMA NoDetails ==
  ASSUME elements \in Seq(Elements), elements' = elements, Detailed' = 0, columnDetails' = << >>
  PROVE  DetailsOK'
<1>1. ColumnsUpTo(Detailed)' = << >>
  BY ColumnsRecursion DEF ColumnsUpTo, ElementKinds
<1> QED BY <1>1 DEF DetailsOK

-------------------------------------------------------------------------------
(* Every step keeps the invariant.                                         *)

LEMMA InitInv == Init => IInv
<1> SUFFICES ASSUME Init PROVE IInv
  OBVIOUS
<1>1. PICK n \in 1..MaxElements : elements \in [1..n -> Elements]
  BY DEF Init
<1>2. n \in Nat \ {0} /\ elements \in Seq(Elements) /\ Len(elements) = n
  BY <1>1, ElementsAssumption
<1>3. pass = "constraints" /\ next = 1 /\ columnDetails = << >>
  BY DEF Init
<1>4. PassOK
  BY <1>2, <1>3 DEF Init, PassOK
<1>5. Merged = {} /\ Read = {}
  BY <1>1, <1>3 DEF Merged, Read
<1>6. ConstraintsOK
  <2>1. PICK empty : empty = << >>
    OBVIOUS
  <2>2. empty \in Seq(Key) /\ \A k \in DOMAIN empty : FALSE
    BY <2>1
  <2>3. \A kind, qual : KeysIn(empty, {}, kind, qual)
    BY <2>2 DEF KeysIn
  <2>4. PrimaryIn(NoKey, {})
    BY DEF PrimaryIn
  <2> QED BY <1>5, <2>1, <2>3, <2>4 DEF Init, ConstraintsOK
<1>7. CommentsOK
  <2>1. comments = [key \in Keys |-> << >>]
    BY DEF Init
  <2> QED BY <1>5, <2>1 DEF CommentsOK
<1>8. DetailsOK
  <2>1. Detailed = 0
    BY <1>3 DEF Detailed
  <2>2. ColumnsUpTo(0) = << >>
    BY <1>2, ColumnsRecursion
  <2> QED BY <1>3, <2>1, <2>2 DEF DetailsOK
<1> QED BY <1>4, <1>6, <1>7, <1>8 DEF IInv

(* An element whose constraints are merged. *)
LEMMA MergeStep ==
  ASSUME IInv, In("constraints"), next' = next + 1, UNCHANGED <<elements, includeComments, pass, comments, columnDetails>>
  PROVE  /\ next \in DOMAIN elements /\ elements \in Seq(Elements) /\ \A j \in Merged : j < next
         /\ Merged \in SUBSET (Nat \ {0}) /\ next \in Nat \ {0} /\ Merged' = Merged \cup {next}
         /\ PassOK' /\ CommentsOK' /\ DetailsOK'
<1>1. PICK L \in Nat : L = Len(elements) /\ DOMAIN elements = 1..L /\ elements \in Seq(Elements)
  BY LenProperties DEF IInv, PassOK
<1>2. pass = "constraints" /\ next \in 1..L
  BY <1>1 DEF In, IInv, PassOK
<1>3. Merged = {i \in 1..L : i < next} /\ Merged' = {i \in 1..L : i < next + 1}
  BY <1>1, <1>2 DEF Merged
<1>4. Merged' = Merged \cup {next}
  BY <1>2, <1>3
<1>5. PassOK'
  BY <1>1, <1>2 DEF IInv, PassOK
<1>6. Read = {} /\ Read' = {}
  BY <1>2 DEF Read
<1>7. CommentsOK'
  <2>1. comments = [key \in Keys |-> comments[key]] /\ \A key \in Keys : comments[key] = << >>
    BY <1>6 DEF IInv, CommentsOK
  <2> QED BY <1>6, <2>1 DEF CommentsOK
<1>8. DetailsOK'
  <2>1. Detailed = 0 /\ Detailed' = 0
    BY <1>2 DEF Detailed
  <2>2. columnDetails = << >>
    BY <1>1, <2>1, ColumnsRecursion DEF IInv, DetailsOK
  <2> QED BY <1>1, <2>1, <2>2, NoDetails
<1> QED BY <1>1, <1>2, <1>3, <1>4, <1>5, <1>7, <1>8

LEMMA MergeColumnInv ==
  ASSUME IInv, MergeColumnConstraints
  PROVE  IInv'
<1>1. /\ next \in DOMAIN elements /\ elements \in Seq(Elements) /\ \A j \in Merged : j < next
      /\ Merged \in SUBSET (Nat \ {0}) /\ next \in Nat \ {0} /\ Merged' = Merged \cup {next}
      /\ PassOK' /\ CommentsOK' /\ DetailsOK'
  BY MergeStep DEF MergeColumnConstraints
<1>2. \A kind, qual : KeysIn(Inline(next, qual), {next}, kind, qual)
  BY <1>1, InlineFound DEF MergeColumnConstraints
<1>3. KeysIn(foreignKeys', Merged \cup {next}, "FOREIGN KEY", "REFERENCES")
  BY <1>1, <1>2, KeysAppended DEF MergeColumnConstraints, IInv, ConstraintsOK
<1>4. KeysIn(uniqueKeys', Merged \cup {next}, "UNIQUE", "UNIQUE")
  BY <1>1, <1>2, KeysAppended DEF MergeColumnConstraints, IInv, ConstraintsOK
<1>5. KeysIn(checkConstraints', Merged \cup {next}, "CHECK", "CHECK")
  BY <1>1, <1>2, KeysAppended DEF MergeColumnConstraints, IInv, ConstraintsOK
<1>6. PrimaryIn(primaryKey', Merged \cup {next})
  BY <1>1, <1>2, FirstKeyTaken DEF MergeColumnConstraints, IInv, ConstraintsOK
<1>7. elements' = elements
  BY DEF MergeColumnConstraints
<1>8. ConstraintsOK'
  BY <1>1, <1>3, <1>4, <1>5, <1>6, <1>7, ConstraintsGoOn
<1> QED BY <1>1, <1>8 DEF IInv

LEMMA MergeTableInv ==
  ASSUME IInv, MergeTableConstraint
  PROVE  IInv'
<1>1. /\ next \in DOMAIN elements /\ elements \in Seq(Elements) /\ \A j \in Merged : j < next
      /\ Merged \in SUBSET (Nat \ {0}) /\ next \in Nat \ {0} /\ Merged' = Merged \cup {next}
      /\ PassOK' /\ CommentsOK' /\ DetailsOK'
  BY MergeStep DEF MergeTableConstraint
<1>2. \A kind, qual :
        /\ kind \notin {"PRIMARY KEY", "UNIQUE"} => KeysIn(TableLevel(next, kind), {next}, kind, qual)
        /\ kind \in {"PRIMARY KEY", "UNIQUE"} => KeysIn(WithColumns(next, kind), {next}, kind, qual)
  BY <1>1, TableKeyFound DEF MergeTableConstraint
<1>3. KeysIn(foreignKeys', Merged \cup {next}, "FOREIGN KEY", "REFERENCES")
  <2>1. KeysIn(TableLevel(next, "FOREIGN KEY"), {next}, "FOREIGN KEY", "REFERENCES")
    BY <1>2
  <2> QED BY <1>1, <2>1, KeysAppended DEF MergeTableConstraint, IInv, ConstraintsOK
<1>4. KeysIn(uniqueKeys', Merged \cup {next}, "UNIQUE", "UNIQUE")
  <2>1. KeysIn(WithColumns(next, "UNIQUE"), {next}, "UNIQUE", "UNIQUE")
    BY <1>2
  <2> QED BY <1>1, <2>1, KeysAppended DEF MergeTableConstraint, IInv, ConstraintsOK
<1>5. KeysIn(checkConstraints', Merged \cup {next}, "CHECK", "CHECK")
  <2>1. KeysIn(TableLevel(next, "CHECK"), {next}, "CHECK", "CHECK")
    BY <1>2
  <2> QED BY <1>1, <2>1, KeysAppended DEF MergeTableConstraint, IInv, ConstraintsOK
<1>6. PrimaryIn(primaryKey', Merged \cup {next})
  <2>1. KeysIn(WithColumns(next, "PRIMARY KEY"), {next}, "PRIMARY KEY", "PRIMARY KEY")
    BY <1>2
  <2> QED BY <1>1, <2>1, FirstKeyTaken DEF MergeTableConstraint, IInv, ConstraintsOK
<1>7. elements' = elements
  BY DEF MergeTableConstraint
<1>8. ConstraintsOK'
  BY <1>1, <1>3, <1>4, <1>5, <1>6, <1>7, ConstraintsGoOn
<1> QED BY <1>1, <1>8 DEF IInv

(* After the first loop, the constraints stay. *)
LEMMA ConstraintsStay ==
  ASSUME IInv, elements' = elements, UNCHANGED constraints, Merged' = Merged
  PROVE  ConstraintsOK'
<1>1. PICK I : I = Merged
  OBVIOUS
<1>2. /\ KeysIn(foreignKeys', I, "FOREIGN KEY", "REFERENCES") /\ KeysIn(uniqueKeys', I, "UNIQUE", "UNIQUE")
      /\ KeysIn(checkConstraints', I, "CHECK", "CHECK") /\ PrimaryIn(primaryKey', I)
  BY <1>1 DEF IInv, ConstraintsOK, constraints
<1> QED BY <1>1, <1>2, ConstraintsGoOn

LEMMA MergedAll ==
  ASSUME IInv, pass # "constraints" \/ next > Len(elements)
  PROVE  Merged = DOMAIN elements
<1>1. PICK L \in Nat : L = Len(elements) /\ DOMAIN elements = 1..L
  BY LenProperties DEF IInv, PassOK
<1>2. pass # "constraints" \/ \A i \in 1..L : i < next
  BY <1>1 DEF IInv, PassOK
<1> QED BY <1>1, <1>2 DEF Merged

(* CommentsOK, when the comments and the columns they are read for are the same. *)
LEMMA CommentsStay ==
  ASSUME CommentsOK, elements' = elements, comments' = comments, Read' = Read
  PROVE  CommentsOK'
<1>1. PICK R : R = Read
  OBVIOUS
<1>2. \A i : LineComments(i)' = LineComments(i)
  BY DEF LineComments
<1>3. \A i, key : CommentsOf(key, i)' <=> CommentsOf(key, i)
  BY <1>2 DEF CommentsOf, IsColumn, Name
<1>4. (\A key \in Keys : comments[key] = << >> \/ \E i \in Read : CommentsOf(key, i))'
  BY <1>3 DEF CommentsOK
<1>5. (\A i \in Read : IsColumn(i) /\ LineComments(i) # << >> => comments[Normalize(Name(i))] # << >>)'
  BY <1>2 DEF CommentsOK, IsColumn, Name
<1> QED BY <1>4, <1>5 DEF CommentsOK

LEMMA AfterConstraintsInv ==
  ASSUME IInv, AfterConstraints
  PROVE  IInv'
<1>1. PICK L \in Nat : L = Len(elements) /\ DOMAIN elements = 1..L /\ elements \in Seq(Elements)
  BY LenProperties DEF IInv, PassOK
<1>2. /\ pass = "constraints" /\ next > L /\ pass' \in {"comments", "columns"} /\ next' = 1
      /\ pass' = (IF includeComments THEN "comments" ELSE "columns")
      /\ elements' = elements /\ includeComments' = includeComments /\ comments' = comments
      /\ columnDetails' = columnDetails /\ constraints' = constraints
  BY <1>1 DEF AfterConstraints
<1>3. PassOK'
  BY <1>1, <1>2 DEF IInv, PassOK
<1>4. ConstraintsOK'
  <2>1. Merged = DOMAIN elements
    BY <1>1, <1>2, MergedAll
  <2>2. Merged' = DOMAIN elements
    BY <1>2 DEF Merged
  <2> QED BY <1>2, <2>1, <2>2, ConstraintsStay
<1>5. CommentsOK'
  <2>1. Read = {}
    BY <1>2 DEF Read
  <2>2. Read' = {}
    BY <1>1, <1>2 DEF Read, IInv, PassOK
  <2> QED BY <1>2, <2>1, <2>2, CommentsStay DEF IInv
<1>6. DetailsOK'
  <2>1. Detailed = 0 /\ Detailed' = 0
    BY <1>2 DEF Detailed
  <2>2. columnDetails = << >>
    BY <1>1, <2>1, ColumnsRecursion DEF IInv, DetailsOK
  <2> QED BY <1>1, <1>2, <2>1, <2>2, NoDetails
<1> QED BY <1>3, <1>4, <1>5, <1>6 DEF IInv

LEMMA NormalizedIsKey ==
  ASSUME NEW name \in ColumnName
  PROVE  Normalize(name) \in Keys
BY DEF ColumnName, Normalize, LowerCase, Keys

LEMMA ReadFieldCommentsInv ==
  ASSUME IInv, ReadFieldComments
  PROVE  IInv'
<1>1. PICK L \in Nat : L = Len(elements) /\ DOMAIN elements = 1..L /\ elements \in Seq(Elements)
  BY LenProperties DEF IInv, PassOK
<1>2. /\ pass = "comments" /\ next \in 1..L /\ pass' = pass /\ next' = next + 1
      /\ elements' = elements /\ includeComments' = includeComments
      /\ columnDetails' = columnDetails /\ constraints' = constraints
  BY <1>1 DEF ReadFieldComments, In, IInv, PassOK
<1>3. PassOK'
  BY <1>1, <1>2 DEF IInv, PassOK
<1>4. ConstraintsOK'
  <2>1. Merged' = Merged
    BY <1>2 DEF Merged
  <2> QED BY <1>2, <2>1, ConstraintsStay
<1>5. DetailsOK'
  <2>1. Detailed = 0 /\ Detailed' = 0
    BY <1>2 DEF Detailed
  <2>2. columnDetails = << >>
    BY <1>1, <2>1, ColumnsRecursion DEF IInv, DetailsOK
  <2> QED BY <1>1, <1>2, <2>1, <2>2, NoDetails
<1>6. PICK R : R = Read /\ Read' = R \cup {next} /\ next \in Read'
  <2>1. Read = {i \in 1..L : i < next} /\ Read' = {i \in 1..L : i < next + 1}
    BY <1>1, <1>2 DEF Read
  <2> QED BY <1>2, <2>1
<1>7. \A i : LineComments(i)' = LineComments(i)
  BY <1>2 DEF LineComments
<1>8. PICK cs : cs = comments'
  OBVIOUS
<1>9. CommentsOK
  BY DEF IInv
<1>10. ASSUME ~(IsColumn(next) /\ LineComments(next) # << >>) PROVE CommentsOK'
  <2>1. cs = comments
    BY <1>8, <1>10 DEF ReadFieldComments
  <2>2. \A i, key : CommentsOf(key, i)' <=> CommentsOf(key, i)
    BY <1>2, <1>7, <1>8, <2>1 DEF CommentsOf, IsColumn, Name
  <2>3. (\A key \in Keys : comments[key] = << >> \/ \E i \in Read : CommentsOf(key, i))'
    BY <1>6, <1>8, <1>9, <2>1, <2>2 DEF CommentsOK
  <2>4. (\A i \in Read : IsColumn(i) /\ LineComments(i) # << >> => comments[Normalize(Name(i))] # << >>)'
    BY <1>2, <1>6, <1>7, <1>8, <1>9, <1>10, <2>1 DEF CommentsOK, IsColumn, Name
  <2> QED BY <1>8, <1>9, <2>1, <2>3, <2>4 DEF CommentsOK
<1>11. ASSUME IsColumn(next), LineComments(next) # << >> PROVE CommentsOK'
  <2>1. PICK at, lines, n : n = next /\ at = Normalize(Name(n)) /\ lines = LineComments(n)
    OBVIOUS
  <2>2. at \in Keys
    BY <1>1, <1>2, <1>11, <2>1, ElementTypes, NormalizedIsKey
  <2>3. comments' = [comments EXCEPT ![at] = lines]
    BY <1>11, <2>1 DEF ReadFieldComments
  <2>4. /\ cs = [key \in Keys |-> cs[key]] /\ cs[at] = lines
        /\ \A key \in Keys : key # at => cs[key] = comments[key]
    <3>1. comments = [key \in Keys |-> comments[key]]
      BY <1>9 DEF CommentsOK
    <3> QED BY <1>8, <2>2, <2>3, <3>1
  <2>5. n \in Read' /\ CommentsOf(at, n)'
    BY <1>2, <1>6, <1>7, <1>8, <1>11, <2>1, <2>4 DEF CommentsOf, IsColumn, Name
  <2>6. \A i : \A key \in Keys : key # at /\ CommentsOf(key, i) => CommentsOf(key, i)'
    BY <1>2, <1>7, <1>8, <2>4 DEF CommentsOf, IsColumn, Name
  <2>7. (\A key \in Keys : comments[key] = << >> \/ \E i \in Read : CommentsOf(key, i))'
    BY <1>6, <1>8, <1>9, <2>4, <2>5, <2>6 DEF CommentsOK
  <2>8. (\A i \in Read : IsColumn(i) /\ LineComments(i) # << >> => comments[Normalize(Name(i))] # << >>)'
    <3> SUFFICES ASSUME NEW i \in Read', IsColumn(i), LineComments(i) # << >>
                 PROVE  cs[Normalize(Name(i))] # << >>
      BY <1>2, <1>7, <1>8 DEF IsColumn, Name
    <3>1. CASE Normalize(Name(i)) = at
      BY <1>11, <2>1, <2>4, <3>1
    <3>2. CASE Normalize(Name(i)) # at
      <4>1. i \in Read /\ i \in DOMAIN elements
        BY <1>6, <2>1, <3>2 DEF Read
      <4>2. Normalize(Name(i)) \in Keys
        BY <1>1, <4>1, ElementTypes, NormalizedIsKey
      <4> QED BY <1>9, <2>4, <3>2, <4>1, <4>2 DEF CommentsOK
    <3> QED BY <3>1, <3>2
  <2> QED BY <1>8, <2>4, <2>7, <2>8 DEF CommentsOK
<1> QED BY <1>3, <1>4, <1>5, <1>10, <1>11 DEF IInv

LEMMA AfterCommentsInv ==
  ASSUME IInv, AfterComments
  PROVE  IInv'
<1>1. PICK L \in Nat : L = Len(elements) /\ DOMAIN elements = 1..L /\ elements \in Seq(Elements)
  BY LenProperties DEF IInv, PassOK
<1>2. /\ pass = "comments" /\ next > L /\ pass' = "columns" /\ next' = 1 /\ includeComments
      /\ elements' = elements /\ includeComments' = includeComments /\ comments' = comments
      /\ columnDetails' = columnDetails /\ constraints' = constraints
  BY <1>1 DEF AfterComments, IInv, PassOK
<1>3. PassOK'
  BY <1>1, <1>2 DEF IInv, PassOK
<1>4. ConstraintsOK'
  <2>1. Merged' = Merged
    BY <1>2 DEF Merged
  <2> QED BY <1>2, <2>1, ConstraintsStay
<1>5. CommentsOK'
  <2>1. \A i \in 1..L : i < next
    BY <1>1, <1>2 DEF IInv, PassOK
  <2>2. Read = DOMAIN elements
    BY <1>1, <1>2, <2>1 DEF Read
  <2>3. Read' = DOMAIN elements
    BY <1>2 DEF Read
  <2> QED BY <1>2, <2>2, <2>3, CommentsStay DEF IInv
<1>6. DetailsOK'
  <2>1. Detailed = 0 /\ Detailed' = 0
    BY <1>2 DEF Detailed
  <2>2. columnDetails = << >>
    BY <1>1, <2>1, ColumnsRecursion DEF IInv, DetailsOK
  <2> QED BY <1>1, <1>2, <2>1, <2>2, NoDetails
<1> QED BY <1>3, <1>4, <1>5, <1>6 DEF IInv

(* What a step of the last loop, or the return, leaves alone. *)
LEMMA LoopStep ==
  ASSUME IInv, pass = "columns", pass' \in {"columns", "done"}, next' \in 1..Len(elements) + 1,
         UNCHANGED <<elements, includeComments, constraints, comments>>
  PROVE  PassOK' /\ ConstraintsOK' /\ CommentsOK'
<1>1. PassOK'
  BY DEF IInv, PassOK
<1>2. ConstraintsOK'
  <2>1. Merged' = Merged
    BY DEF Merged
  <2> QED BY <2>1, ConstraintsStay
<1>3. CommentsOK'
  <2>1. Read' = Read
    BY DEF Read
  <2> QED BY <2>1, CommentsStay DEF IInv
<1> QED BY <1>1, <1>2, <1>3

(* The columns among the first elements, as the function of PlacesOf finds them. *)
LEMMA ColumnsFound ==
  ASSUME elements \in Seq(Elements)
  PROVE  \A n \in 0..Len(elements) : IsPlaces(ColumnsUpTo(n), n, ElementKinds, "column")
<1>1. PICK kinds : kinds = ElementKinds
  OBVIOUS
<1>2. kinds \in Seq({"column"} \cup TableKinds) /\ Len(kinds) = Len(elements)
  BY <1>1, ColumnsRecursion
<1>3. \A n \in 0..Len(elements) : IsPlaces(PlacesUpTo(kinds, "column", n), n, kinds, "column")
  BY <1>2, PlacesFound
<1> QED BY <1>1, <1>3 DEF ColumnsUpTo

LEMMA AddColumnInv ==
  ASSUME IInv, AddColumn
  PROVE  IInv'
<1>1. PICK L \in Nat : L = Len(elements) /\ DOMAIN elements = 1..L /\ elements \in Seq(Elements)
  BY LenProperties DEF IInv, PassOK
<1>2. PICK n \in 1..L : n = next
  BY <1>1 DEF AddColumn, In, IInv, PassOK
<1>3. /\ pass = "columns" /\ pass' = pass /\ next' = n + 1 /\ IsColumn(n)
      /\ UNCHANGED <<elements, includeComments, constraints, comments>>
      /\ columnDetails' = Append(columnDetails, Column(n))
  BY <1>2 DEF AddColumn, In
<1>4. n + 1 \in 1..L + 1 /\ n - 1 \in 0..L /\ n \in Nat /\ (n + 1) - 1 = n
  BY <1>2
<1>5. PassOK' /\ ConstraintsOK' /\ CommentsOK'
  BY <1>1, <1>3, <1>4, LoopStep
<1>6. Detailed = n - 1 /\ Detailed' = n
  BY <1>2, <1>3, <1>4 DEF Detailed
<1>7. PICK cols : cols = ColumnsUpTo(n - 1)
  OBVIOUS
<1>8. ColumnsUpTo(n) = Append(cols, n)
  BY <1>1, <1>2, <1>3, <1>7, ColumnsRecursion
<1>9. cols \in Seq(Nat)
  BY <1>1, <1>4, <1>7, ColumnsFound DEF IsPlaces
<1>10. columnDetails = [k \in DOMAIN cols |-> Column(cols[k])]
  BY <1>6, <1>7 DEF IInv, DetailsOK
<1>11. Append(columnDetails, Column(n)) = [k \in DOMAIN Append(cols, n) |-> Column(Append(cols, n)[k])]
  BY <1>4, <1>9, <1>10
<1>12. columnDetails' = [k \in DOMAIN ColumnsUpTo(n) |-> Column(ColumnsUpTo(n)[k])]
  BY <1>3, <1>8, <1>11
<1>13. elements' = elements /\ comments' = comments /\ primaryKey' = primaryKey
  BY <1>3 DEF constraints
<1>14. DetailsOK'
  BY <1>6, <1>12, <1>13, DetailsGoOn
<1> QED BY <1>5, <1>14 DEF IInv

LEMMA SkipElementInv ==
  ASSUME IInv, SkipElement
  PROVE  IInv'
<1>1. PICK L \in Nat : L = Len(elements) /\ DOMAIN elements = 1..L /\ elements \in Seq(Elements)
  BY LenProperties DEF IInv, PassOK
<1>2. PICK n \in 1..L : n = next
  BY <1>1 DEF SkipElement, In, IInv, PassOK
<1>3. /\ pass = "columns" /\ pass' = pass /\ next' = n + 1 /\ ~IsColumn(n)
      /\ UNCHANGED <<elements, includeComments, constraints, comments>>
      /\ columnDetails' = columnDetails
  BY <1>2 DEF SkipElement, In
<1>4. n + 1 \in 1..L + 1 /\ (n + 1) - 1 = n
  BY <1>2
<1>5. PassOK' /\ ConstraintsOK' /\ CommentsOK'
  BY <1>1, <1>3, <1>4, LoopStep
<1>6. Detailed = n - 1 /\ Detailed' = n
  BY <1>2, <1>3, <1>4 DEF Detailed
<1>7. ColumnsUpTo(n) = ColumnsUpTo(n - 1)
  BY <1>1, <1>2, <1>3, ColumnsRecursion
<1>8. columnDetails' = [k \in DOMAIN ColumnsUpTo(n) |-> Column(ColumnsUpTo(n)[k])]
  BY <1>3, <1>6, <1>7 DEF IInv, DetailsOK
<1>9. elements' = elements /\ comments' = comments /\ primaryKey' = primaryKey
  BY <1>3 DEF constraints
<1>10. DetailsOK'
  BY <1>6, <1>8, <1>9, DetailsGoOn
<1> QED BY <1>5, <1>10 DEF IInv

LEMMA ReturnInv ==
  ASSUME IInv, Return
  PROVE  IInv'
<1>1. PICK L \in Nat : L = Len(elements) /\ DOMAIN elements = 1..L /\ elements \in Seq(Elements)
  BY LenProperties DEF IInv, PassOK
<1>2. /\ pass = "columns" /\ pass' = "done" /\ next' = next
      /\ UNCHANGED <<elements, includeComments, constraints, comments>>
      /\ columnDetails' = columnDetails
  BY DEF Return
<1>3. next \in 1..L + 1 /\ next > L
  BY <1>1 DEF Return, IInv, PassOK
<1>4. PassOK' /\ ConstraintsOK' /\ CommentsOK'
  BY <1>1, <1>2, <1>3, LoopStep
<1>5. Detailed = L /\ Detailed' = L
  BY <1>1, <1>2, <1>3 DEF Detailed
<1>6. columnDetails' = [k \in DOMAIN ColumnsUpTo(L) |-> Column(ColumnsUpTo(L)[k])]
  BY <1>2, <1>5 DEF IInv, DetailsOK
<1>7. elements' = elements /\ comments' = comments /\ primaryKey' = primaryKey
  BY <1>2 DEF constraints
<1>8. DetailsOK'
  BY <1>5, <1>6, <1>7, DetailsGoOn
<1> QED BY <1>4, <1>8 DEF IInv

LEMMA StutterInv ==
  ASSUME IInv, UNCHANGED vars
  PROVE  IInv'
<1>1. UNCHANGED <<elements, includeComments, pass, next, constraints, comments, columnDetails>>
  BY DEF vars
<1>2. /\ elements' = elements /\ includeComments' = includeComments /\ pass' = pass /\ next' = next
      /\ constraints' = constraints /\ comments' = comments /\ columnDetails' = columnDetails
      /\ primaryKey' = primaryKey
  BY <1>1 DEF constraints
<1>3. PassOK'
  BY <1>2 DEF IInv, PassOK
<1>4. ConstraintsOK'
  <2>1. Merged' = Merged
    BY <1>2 DEF Merged
  <2> QED BY <1>2, <2>1, ConstraintsStay
<1>5. CommentsOK'
  <2>1. Read' = Read
    BY <1>2 DEF Read
  <2> QED BY <1>2, <2>1, CommentsStay DEF IInv
<1>6. DetailsOK'
  <2>1. PICK n : n = Detailed
    OBVIOUS
  <2>2. Detailed' = n
    BY <1>2, <2>1 DEF Detailed
  <2>3. columnDetails' = [k \in DOMAIN ColumnsUpTo(n) |-> Column(ColumnsUpTo(n)[k])]
    BY <1>2, <2>1 DEF IInv, DetailsOK
  <2> QED BY <1>2, <2>2, <2>3, DetailsGoOn
<1> QED BY <1>3, <1>4, <1>5, <1>6 DEF IInv

(* The inductive invariant holds throughout. *)
THEOREM Invariance == Spec => []IInv
<1>1. Init => IInv
  BY InitInv
<1>2. IInv /\ [Next]_vars => IInv'
  <2> SUFFICES ASSUME IInv, [Next]_vars PROVE IInv'
    OBVIOUS
  <2>1. CASE MergeColumnConstraints
    BY <2>1, MergeColumnInv
  <2>2. CASE MergeTableConstraint
    BY <2>2, MergeTableInv
  <2>3. CASE AfterConstraints
    BY <2>3, AfterConstraintsInv
  <2>4. CASE ReadFieldComments
    BY <2>4, ReadFieldCommentsInv
  <2>5. CASE AfterComments
    BY <2>5, AfterCommentsInv
  <2>6. CASE AddColumn
    BY <2>6, AddColumnInv
  <2>7. CASE SkipElement
    BY <2>7, SkipElementInv
  <2>8. CASE Return
    BY <2>8, ReturnInv
  <2>9. CASE UNCHANGED vars
    BY <2>9, StutterInv
  <2> QED BY <2>1, <2>2, <2>3, <2>4, <2>5, <2>6, <2>7, <2>8, <2>9 DEF Next
<1> QED BY <1>1, <1>2, PTL DEF Spec

-------------------------------------------------------------------------------
(* What the invariant says of the table that is reported.                  *)

(* Two names fold to the same key exactly when they name the same column. *)
LEMMA NormalizedAlike ==
  ASSUME NEW m \in ColumnName, NEW n \in ColumnName
  PROVE  SameColumn(m, n) <=> Normalize(m) = Normalize(n)
<1>1. m.letters \in {"a", "A"} /\ n.letters \in {"a", "A"} /\ m.quoted \in BOOLEAN /\ n.quoted \in BOOLEAN
  BY DEF ColumnName
<1> QED BY <1>1 DEF SameColumn, Normalize, LowerCase

(* The details are those of the columns, in order. *)
LEMMA DetailsOfColumns ==
  ASSUME IInv, Done
  PROVE  /\ Columns \in Seq(Nat) /\ columnDetails = [k \in DOMAIN Columns |-> Column(Columns[k])]
         /\ Len(columnDetails) = Len(Columns)
         /\ \A k \in DOMAIN Columns : Columns[k] \in DOMAIN elements /\ IsColumn(Columns[k])
         /\ \A i \in DOMAIN elements : IsColumn(i) => \E k \in DOMAIN Columns : Columns[k] = i
<1>1. PICK L \in Nat : L = Len(elements) /\ DOMAIN elements = 1..L /\ elements \in Seq(Elements)
  BY LenProperties DEF IInv, PassOK
<1>2. PICK cols : cols = Columns
  OBVIOUS
<1>3. PICK kinds : kinds = ElementKinds
  OBVIOUS
<1>4. Len(kinds) = L /\ \A i \in 1..L : kinds[i] = "column" <=> IsColumn(i)
  BY <1>1, <1>3, ColumnsRecursion
<1>5. Columns = PlacesUpTo(kinds, "column", Len(kinds))
  BY <1>3 DEF Columns, PlacesOf, ElementKinds
<1>6. cols = ColumnsUpTo(L)
  BY <1>2, <1>3, <1>4, <1>5 DEF ColumnsUpTo
<1>7. IsPlaces(cols, L, kinds, "column")
  BY <1>1, <1>3, <1>6, L \in 0..L, ColumnsFound
<1>8. cols \in Seq(Nat)
  BY <1>7 DEF IsPlaces
<1>9. columnDetails = [k \in DOMAIN cols |-> Column(cols[k])]
  <2>1. Detailed = L
    BY <1>1 DEF Detailed, Done
  <2> QED BY <1>6, <2>1 DEF IInv, DetailsOK
<1>10. Len(columnDetails) = Len(cols)
  <2>1. PICK m \in Nat : m = Len(cols) /\ DOMAIN cols = 1..m
    BY <1>8, LenProperties
  <2>2. columnDetails = [k \in 1..m |-> Column(cols[k])]
    BY <1>9, <2>1
  <2> QED BY <2>1, <2>2
<1>11. \A k \in DOMAIN cols : cols[k] \in 1..L /\ IsColumn(cols[k])
  BY <1>4, <1>7 DEF IsPlaces
<1>12. \A i \in 1..L : IsColumn(i) => \E k \in DOMAIN cols : cols[k] = i
  BY <1>4, <1>7 DEF IsPlaces
<1> QED BY <1>1, <1>2, <1>8, <1>9, <1>10, <1>11, <1>12

(* The primary key that is reported. *)
LEMMA PrimaryKeyFound ==
  ASSUME IInv, Done
  PROVE  /\ primaryKey = NoKey <=> PrimaryKeyPlaces = {}
         /\ primaryKey = NoKey => PrimaryKeyColumns = {}
         /\ primaryKey # NoKey =>
              /\ primaryKey.at \in PrimaryKeyPlaces /\ primaryKey.at[1] \in DOMAIN elements
              /\ primaryKey.at \in PlacesIn(primaryKey.at[1], "PRIMARY KEY", "PRIMARY KEY")
              /\ primaryKey.columns = elements[primaryKey.at[1]].names
              /\ \A p \in PrimaryKeyPlaces : primaryKey.at = p \/ Before(primaryKey.at, p)
<1> DEFINE places(i) == PlacesIn(i, "PRIMARY KEY", "PRIMARY KEY")
<1>1. PrimaryIn(primaryKey, DOMAIN elements)
  <2>1. Merged = DOMAIN elements
    BY MergedAll DEF Done
  <2> QED BY <2>1 DEF IInv, ConstraintsOK
<1>2. PrimaryKeyPlaces = UNION {places(i) : i \in DOMAIN elements}
  BY DEF PrimaryKeyPlaces, KeyPlaces
<1> HIDE DEF places
<1>3. CASE primaryKey = NoKey /\ \A i \in DOMAIN elements : places(i) = {}
  <2>1. PrimaryKeyPlaces = {}
    BY <1>2, <1>3
  <2>2. PrimaryKeyColumns = {}
    BY <1>3 DEF PrimaryKeyColumns, NoKey
  <2> QED BY <1>3, <2>1, <2>2
<1>4. CASE /\ primaryKey.at[1] \in DOMAIN elements /\ primaryKey.at \in places(primaryKey.at[1])
           /\ primaryKey.columns = elements[primaryKey.at[1]].names
           /\ \A i \in DOMAIN elements : \A p \in places(i) : primaryKey.at = p \/ Before(primaryKey.at, p)
  <2>1. primaryKey # NoKey
    <3>1. 0 \notin DOMAIN elements
      BY DEF IInv, PassOK
    <3>2. NoKey.at[1] = 0
      BY DEF NoKey
    <3> QED BY <1>4, <3>1, <3>2
  <2>2. primaryKey.at \in PrimaryKeyPlaces
    BY <1>2, <1>4
  <2>3. \A p \in PrimaryKeyPlaces : primaryKey.at = p \/ Before(primaryKey.at, p)
    BY <1>2, <1>4
  <2> QED BY <1>4, <2>1, <2>2, <2>3 DEF places
<1> QED BY <1>1, <1>3, <1>4 DEF PrimaryIn, places

(* The names of the columns of the key are names. *)
LEMMA KeyColumnNames ==
  ASSUME IInv, Done
  PROVE  \A j \in DOMAIN primaryKey.columns : primaryKey.columns[j] \in ColumnName
<1>1. CASE primaryKey = NoKey
  BY <1>1 DEF NoKey
<1>2. CASE primaryKey # NoKey
  <2>1. PICK i \in DOMAIN elements : primaryKey.columns = elements[i].names
    BY <1>2, PrimaryKeyFound
  <2>2. elements[i].names \in Seq(ColumnName)
    BY ElementTypes DEF IInv, PassOK
  <2> QED BY <2>1, <2>2
<1> QED BY <1>1, <1>2

LEMMA AllInOrder ==
  ASSUME NEW found, NEW kind, NEW qual, KeysIn(found, Merged, kind, qual), Done => Merged = DOMAIN elements
  PROVE  InOrder(found, kind, qual)
<1>1. \A k, l \in DOMAIN found : k < l => Before(found[k].at, found[l].at)
  BY DEF KeysIn
<1>2. \A k \in DOMAIN found : found[k].columns = elements[found[k].at[1]].names
  BY DEF KeysIn
<1>3. ASSUME Done PROVE {found[k].at : k \in DOMAIN found} = KeyPlaces(kind, qual)
  <2> DEFINE I == DOMAIN elements
  <2>1. KeysIn(found, I, kind, qual)
    BY <1>3
  <2> HIDE DEF I
  <2>2. \A k \in DOMAIN found : found[k].at[1] \in I /\ found[k].at \in PlacesIn(found[k].at[1], kind, qual)
    BY <2>1 DEF KeysIn
  <2>3. \A i \in I : \A p \in PlacesIn(i, kind, qual) : \E k \in DOMAIN found : found[k].at = p
    BY <2>1 DEF KeysIn
  <2>4. KeyPlaces(kind, qual) = UNION {PlacesIn(i, kind, qual) : i \in I}
    BY DEF KeyPlaces, I
  <2> QED BY <2>2, <2>3, <2>4
<1> QED BY <1>1, <1>2, <1>3 DEF InOrder

LEMMA FirstWins ==
  ASSUME IInv
  PROVE  FirstPrimaryKeyWins
<1> SUFFICES ASSUME Done
             PROVE  /\ primaryKey = NoKey <=> PrimaryKeyPlaces = {}
                    /\ \A p \in PrimaryKeyPlaces :
                         /\ primaryKey.at = p \/ Before(primaryKey.at, p)
                         /\ primaryKey.columns = elements[primaryKey.at[1]].names
                    /\ \A k \in DOMAIN columnDetails : \A j \in DOMAIN primaryKey.columns :
                         SameColumn(columnDetails[k].name, primaryKey.columns[j]) => ~columnDetails[k].nullable
  BY DEF FirstPrimaryKeyWins
<1>1. primaryKey = NoKey <=> PrimaryKeyPlaces = {}
  BY PrimaryKeyFound
<1>2. \A p \in PrimaryKeyPlaces :
        /\ primaryKey.at = p \/ Before(primaryKey.at, p)
        /\ primaryKey.columns = elements[primaryKey.at[1]].names
  BY <1>1, PrimaryKeyFound
<1>3. ASSUME NEW k \in DOMAIN columnDetails, NEW j \in DOMAIN primaryKey.columns,
             SameColumn(columnDetails[k].name, primaryKey.columns[j])
      PROVE  ~columnDetails[k].nullable
  <2>1. PICK i \in DOMAIN elements : IsColumn(i) /\ columnDetails[k] = Column(i)
    BY <1>3, DetailsOfColumns
  <2>2. columnDetails[k].name = Name(i)
    BY <2>1 DEF Column
  <2>3. Name(i) \in ColumnName /\ primaryKey.columns[j] \in ColumnName
    BY <1>3, <2>1, ElementTypes, KeyColumnNames DEF IInv, PassOK
  <2>4. Normalize(Name(i)) = Normalize(primaryKey.columns[j])
    BY <1>3, <2>2, <2>3, NormalizedAlike
  <2>5. Normalize(Name(i)) \in PrimaryKeyColumns
    BY <1>3, <2>4 DEF PrimaryKeyColumns
  <2>6. columnDetails[k].nullable = (~NotNullInline(i) /\ Normalize(Name(i)) \notin PrimaryKeyColumns)
    BY <2>1 DEF Column
  <2> QED BY <2>5, <2>6
<1> QED BY <1>1, <1>2, <1>3

(* KeysInSourceOrder holds: inline keys and keys of the table are reported *)
(* together in source order, none twice and none lost, each with its       *)
(* columns; and the first primary key stays, whose columns are NOT NULL    *)
(* (ddl.go:146-182).                                                       *)
THEOREM KeysOrdered == Spec => []KeysInSourceOrder
<1>1. IInv => KeysInSourceOrder
  <2> SUFFICES ASSUME IInv PROVE KeysInSourceOrder
    OBVIOUS
  <2>1. Done => Merged = DOMAIN elements
    BY MergedAll DEF Done
  <2>2. /\ InOrder(foreignKeys, "FOREIGN KEY", "REFERENCES") /\ InOrder(uniqueKeys, "UNIQUE", "UNIQUE")
        /\ InOrder(checkConstraints, "CHECK", "CHECK")
    BY <2>1, AllInOrder DEF IInv, ConstraintsOK
  <2> QED BY <2>2, FirstWins DEF KeysInSourceOrder, AllKeysInOrder
<1> QED BY <1>1, Invariance, PTL

-------------------------------------------------------------------------------
LEMMA NamesInUse ==
  ASSUME NEW names \in Seq(ColumnName), NEW j \in DOMAIN names
  PROVE  names # << >> /\ names[j] \in ColumnName
OBVIOUS

LEMMA PairIndex ==
  ASSUME NEW x, NEW y
  PROVE  <<x, y>>[1] = x
OBVIOUS

(* A primary key that PostgreSQL accepts is the only one, so its columns   *)
(* are those of the key that is reported.                                  *)
LEMMA TableKeyReported ==
  ASSUME IInv, Done, Accepted, NEW i \in DOMAIN elements, IsColumn(i)
  PROVE  (\E k \in DOMAIN elements : elements[k].kind = "PRIMARY KEY" /\
            \E j \in DOMAIN elements[k].names : SameColumn(elements[k].names[j], Name(i)))
         => Normalize(Name(i)) \in PrimaryKeyColumns
<1> SUFFICES ASSUME NEW k \in DOMAIN elements, elements[k].kind = "PRIMARY KEY", NEW j \in DOMAIN elements[k].names,
                    SameColumn(elements[k].names[j], Name(i))
             PROVE  Normalize(Name(i)) \in PrimaryKeyColumns
  OBVIOUS
<1>1. elements \in Seq(Elements)
  BY DEF IInv, PassOK
<1>2. k \in Nat /\ elements[k].names \in Seq(ColumnName) /\ Name(i) \in ColumnName
  BY <1>1, ElementTypes
<1>3. elements[k].names # << >> /\ ~IsColumn(k)
  <2>1. elements[k].names # << >>
    BY <1>2, NamesInUse
  <2>2. ~IsColumn(k)
    BY DEF IsColumn
  <2> QED BY <2>1, <2>2
<1>4. <<k, 0>> \in PlacesIn(k, "PRIMARY KEY", "PRIMARY KEY")
  BY <1>3 DEF PlacesIn
<1>5. <<k, 0>> \in PrimaryKeyPlaces
  BY <1>4 DEF PrimaryKeyPlaces, KeyPlaces
<1>6. primaryKey # NoKey /\ primaryKey.at \in PrimaryKeyPlaces /\ primaryKey.columns = elements[primaryKey.at[1]].names
  BY <1>5, PrimaryKeyFound
<1>7. primaryKey.at = <<k, 0>>
  BY <1>5, <1>6 DEF Accepted
<1>8. primaryKey.columns = elements[k].names
  <2>1. primaryKey.at[1] = k
    BY <1>7, PairIndex
  <2> QED BY <1>6, <2>1
<1>9. elements[k].names[j] \in ColumnName
  BY <1>2, NamesInUse
<1>10. Normalize(Name(i)) = Normalize(elements[k].names[j])
  BY <1>2, <1>9, NormalizedAlike
<1> QED BY <1>8, <1>10 DEF PrimaryKeyColumns

(* A column of the key that is reported is so by its own qualifiers, or by *)
(* a constraint of the table that names it.                                *)
LEMMA ReportedKeyDeclared ==
  ASSUME IInv, Done, Accepted, NEW i \in DOMAIN elements, IsColumn(i), Normalize(Name(i)) \in PrimaryKeyColumns
  PROVE  \/ Contains(elements[i].quals, "PRIMARY KEY")
         \/ \E k \in DOMAIN elements : elements[k].kind = "PRIMARY KEY" /\
              \E j \in DOMAIN elements[k].names : SameColumn(elements[k].names[j], Name(i))
<1>1. elements \in Seq(Elements)
  BY DEF IInv, PassOK
<1>2. PICK j \in DOMAIN primaryKey.columns : Normalize(Name(i)) = Normalize(primaryKey.columns[j])
  BY DEF PrimaryKeyColumns
<1>3. primaryKey # NoKey
  BY PrimaryKeyFound
<1>4. PICK e \in DOMAIN elements : /\ primaryKey.at \in PlacesIn(e, "PRIMARY KEY", "PRIMARY KEY")
                                   /\ primaryKey.columns = elements[e].names
  BY <1>3, PrimaryKeyFound
<1>5. Name(i) \in ColumnName /\ primaryKey.columns[j] \in ColumnName
  BY <1>1, <1>2, ElementTypes, KeyColumnNames
<1>6. SameColumn(primaryKey.columns[j], Name(i))
  BY <1>2, <1>5, NormalizedAlike
<1>7. CASE IsColumn(e)
  <2>1. elements[e].names = <<Name(e)>> /\ Name(e) \in ColumnName
    BY <1>1, <1>7, ElementTypes
  <2>2. primaryKey.columns[j] = Name(e)
    <3>1. \A name : \A j0 \in DOMAIN <<name>> : <<name>>[j0] = name
      OBVIOUS
    <3>2. primaryKey.columns = <<Name(e)>>
      BY <1>4, <2>1
    <3> QED BY <1>2, <3>1, <3>2
  <2>3. PICK k \in DOMAIN Columns, l \in DOMAIN Columns : Columns[k] = e /\ Columns[l] = i
    BY <1>7, DetailsOfColumns
  <2>4. k = l
    BY <1>6, <2>2, <2>3 DEF Accepted
  <2>5. e = i
    BY <2>3, <2>4
  <2>6. PICK q \in DOMAIN elements[i].quals : elements[i].quals[q] = "PRIMARY KEY"
    BY <1>4, <1>7, <2>5 DEF PlacesIn
  <2>7. elements[i].quals \in Seq(ColumnQual)
    BY <1>1, ElementTypes
  <2> QED BY <2>6, <2>7, LenProperties DEF Contains
<1>8. CASE ~IsColumn(e)
  <2>1. elements[e].kind = "PRIMARY KEY"
    BY <1>4, <1>8 DEF PlacesIn
  <2> QED BY <1>2, <1>4, <1>6, <2>1
<1> QED BY <1>7, <1>8

(* NullableAsInPostgres holds: wherever and in whatever spelling the       *)
(* primary key of a table that PostgreSQL accepts is declared, a column is *)
(* reported nullable exactly when it may be NULL (ddl.go:72-79, 112-124).  *)
THEOREM NullableRight == Spec => []NullableAsInPostgres
<1>1. IInv => NullableAsInPostgres
  <2> SUFFICES ASSUME IInv, Done, Accepted
               PROVE  /\ Len(columnDetails) = Len(Columns)
                      /\ \A k \in DOMAIN Columns : columnDetails[k].nullable = MayBeNull(Columns[k])
    BY DEF NullableAsInPostgres
  <2>1. Len(columnDetails) = Len(Columns)
    BY DetailsOfColumns
  <2>2. ASSUME NEW k \in DOMAIN Columns PROVE columnDetails[k].nullable = MayBeNull(Columns[k])
    <3>1. PICK i \in DOMAIN elements : i = Columns[k] /\ IsColumn(i) /\ columnDetails[k] = Column(i)
      BY <2>2, DetailsOfColumns
    <3> DEFINE named == \E e \in DOMAIN elements : elements[e].kind = "PRIMARY KEY" /\
                          \E j \in DOMAIN elements[e].names : SameColumn(elements[e].names[j], Name(i))
    <3>2. columnDetails[k].nullable = (~NotNullInline(i) /\ Normalize(Name(i)) \notin PrimaryKeyColumns)
      BY <3>1 DEF Column
    <3>3. MayBeNull(i) = (~NotNullInline(i) /\ ~named)
      BY DEF MayBeNull, NotNullInline
    <3>4. named => Normalize(Name(i)) \in PrimaryKeyColumns
      BY <3>1, TableKeyReported
    <3>5. Normalize(Name(i)) \in PrimaryKeyColumns => named \/ NotNullInline(i)
      BY <3>1, ReportedKeyDeclared DEF NotNullInline
    <3> HIDE DEF named
    <3> QED BY <3>1, <3>2, <3>3, <3>4, <3>5
  <2> QED BY <2>1, <2>2
<1> QED BY <1>1, Invariance, PTL

-------------------------------------------------------------------------------
(* CommentsOfTheirColumn holds: a comment goes to the column it stands     *)
(* before, to every other column of that name at most, and never from a    *)
(* constraint of the table to a column (ddl_comment.go:208-250).           *)
THEOREM CommentsStayTheirs == Spec => []CommentsOfTheirColumn
<1>1. IInv => CommentsOfTheirColumn
  <2> SUFFICES ASSUME IInv, Done, NEW k \in DOMAIN columnDetails
               PROVE  /\ \A c \in DOMAIN columnDetails[k].comment :
                           LET i == columnDetails[k].comment[c][1]
                           IN includeComments /\ IsColumn(i) /\ SameColumn(Name(i), columnDetails[k].name)
                      /\ (includeComments /\ \A l \in DOMAIN columnDetails : l # k =>
                            ~SameColumn(columnDetails[l].name, columnDetails[k].name))
                         => columnDetails[k].comment = LineComments(Columns[k])
    BY DEF CommentsOfTheirColumn
  <2>1. elements \in Seq(Elements)
    BY DEF IInv, PassOK
  <2>2. PICK i \in DOMAIN elements : i = Columns[k] /\ IsColumn(i) /\ columnDetails[k] = Column(i)
    BY DetailsOfColumns
  <2>3. PICK key \in Keys : key = Normalize(Name(i)) /\ Name(i) \in ColumnName
    BY <2>1, <2>2, ElementTypes, NormalizedIsKey
  <2>4. columnDetails[k].name = Name(i) /\ columnDetails[k].comment = comments[key]
    BY <2>2, <2>3 DEF Column
  <2>5. Read = {j \in DOMAIN elements : includeComments}
    BY DEF Read, Done
  <2>6. comments[key] = << >> \/ \E j \in Read : CommentsOf(key, j)
    BY <2>3 DEF IInv, CommentsOK
  <2>7. ASSUME NEW j \in Read, CommentsOf(key, j)
        PROVE  /\ j \in DOMAIN elements /\ includeComments /\ IsColumn(j) /\ comments[key] = LineComments(j)
               /\ SameColumn(Name(j), Name(i)) /\ SameColumn(Name(i), Name(j))
               /\ \A c \in DOMAIN LineComments(j) : LineComments(j)[c][1] = j
    <3>1. j \in DOMAIN elements /\ includeComments /\ IsColumn(j) /\ comments[key] = LineComments(j)
          /\ Normalize(Name(j)) = key
      BY <2>5, <2>7 DEF CommentsOf
    <3>2. Name(j) \in ColumnName
      BY <2>1, <3>1, ElementTypes
    <3>3. SameColumn(Name(j), Name(i)) /\ SameColumn(Name(i), Name(j))
      BY <2>3, <3>1, <3>2, NormalizedAlike
    <3>4. \A c \in DOMAIN LineComments(j) : LineComments(j)[c][1] = j
      BY DEF LineComments
    <3> QED BY <3>1, <3>3, <3>4
  <2>8. ASSUME NEW c \in DOMAIN comments[key]
        PROVE  includeComments /\ IsColumn(comments[key][c][1]) /\ SameColumn(Name(comments[key][c][1]), Name(i))
    <3>1. comments[key] # << >>
      BY <2>8
    <3>2. PICK j \in Read : CommentsOf(key, j)
      BY <2>6, <3>1
    <3>3. comments[key][c][1] = j
      BY <2>7, <2>8, <3>2
    <3> QED BY <2>7, <3>2, <3>3
  <2>9. ASSUME includeComments, \A l \in DOMAIN columnDetails : l # k => ~SameColumn(columnDetails[l].name, Name(i))
        PROVE  comments[key] = LineComments(i)
    <3>1. CASE comments[key] = << >>
      <4>1. i \in Read
        BY <2>5, <2>9
      <4> QED BY <2>2, <2>3, <3>1, <4>1 DEF IInv, CommentsOK
    <3>2. CASE comments[key] # << >>
      <4>1. PICK j \in Read : CommentsOf(key, j)
        BY <2>6, <3>2
      <4>2. j \in DOMAIN elements /\ IsColumn(j) /\ comments[key] = LineComments(j) /\ SameColumn(Name(j), Name(i))
        BY <2>7, <4>1
      <4>3. PICK l \in DOMAIN Columns : Columns[l] = j
        BY <4>2, DetailsOfColumns
      <4>4. l \in DOMAIN columnDetails /\ columnDetails[l] = Column(j)
        BY <4>3, DetailsOfColumns
      <4>5. columnDetails[l].name = Name(j)
        BY <4>4 DEF Column
      <4>6. l = k
        BY <2>9, <4>2, <4>4, <4>5
      <4> QED BY <2>2, <4>2, <4>3, <4>6
    <3> QED BY <3>1, <3>2
  <2> QED BY <2>2, <2>4, <2>8, <2>9
<1> QED BY <1>1, Invariance, PTL

===============================================================================
