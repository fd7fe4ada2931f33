---------------------------- MODULE JoinTreeProofs ----------------------------
(***************************************************************************)
(* Proofs about JoinTree for FROM clauses of any size: the walk enters the *)
(* references in source order, and with it the order of the tables, the    *)
(* table each join is recorded on, the join qualifications, the sides of   *)
(* the last USING and the correlations of LATERAL calls.                   *)
(***************************************************************************)
EXTENDS JoinTree, LeastElement, SequenceTheorems, TLAPS

-------------------------------------------------------------------------------
(* The inductive invariant.  n is the number of references of the clause   *)
(* and b how many calls have begun: those on the references 1..b.          *)

ClauseOK(n) ==
  /\ n \in 1..MaxRefs
  /\ from.parent \in [1..n -> 0..n - 1]
  /\ from.kind \in [1..n -> AllKinds]
  /\ from.join \in [1..n -> Join]
  /\ from.inner \in [1..n -> InnerNames]
  /\ SourceOrder(from) /\ ParensFilled(from)
  /\ \A m \in 1..n : from.join[m] \in IF m \in Joined(from) THEN Joins ELSE {NoJoin}

Frame ==
  [ node : 1..MaxRefs, stage : {"register", "nested"}, child : 0..MaxRefs,
    before : Nat, quals : SUBSET (1..MaxRefs) ]

OnStack == {frames[i].node : i \in DOMAIN frames}

FrameOK(i, n, b) ==
  LET f == frames[i] IN
  /\ f.node \in 1..b /\ f.child \in 0..b
  /\ \A m \in f.quals : from.parent[m] = f.node /\ from.join[m].qual # "none" /\ m \in 1..n
  /\ from.parent[f.node] = IF i = 1 THEN 0 ELSE frames[i - 1].node
  /\ i < Len(frames) => f.stage = "nested" /\ f.quals = {} /\ f.child = frames[i + 1].node
  /\ f.stage = "register" => f.child = 0 /\ f.quals = {} /\ f.node = b
  /\ f.quals # {} => \A x \in 1..n : from.parent[x] = f.node => x <= f.child
  /\ \A j \in DOMAIN frames : i < j => f.node < frames[j].node

(* Calls are nested as their nodes are, outer ones at a qualification no yet. *)
StackOK(n, b) ==
  /\ frames \in Seq(Frame) /\ item \in 0..b
  /\ \A i \in DOMAIN frames : FrameOK(i, n, b)

(* What is not begun is nested in what is not, or left to do for an active *)
(* call; what an active call has left to do is not begun; and what began   *)
(* after an active call lies in its node.                                  *)
VisitOrder(n, b) ==
  /\ b \in 0..n
  /\ \A x \in b + 1..n : from.parent[x] > b \/ from.parent[x] \in OnStack \cup {0}
  /\ \A x \in 1..n : from.parent[x] = 0 /\ x > item => x > b
  /\ \A i \in DOMAIN frames : \A x \in 1..n :
       from.parent[x] = frames[i].node /\ x > frames[i].child => x > b
  /\ \A i \in DOMAIN frames : \A x \in frames[i].node + 1..b : from.parent[x] >= frames[i].node

(* The references whose branch has been taken: 1..Entered(b). *)
Entered(b) == IF ActiveAt("register") THEN b - 1 ELSE b

Src(t) == IF IsInner(t) THEN t.raw - MaxRefs ELSE t.raw

TypeOfRef(m) ==
  IF from.kind[m] # "relation" THEN from.kind[m] ELSE IF m \in from.cteNames THEN "cte" ELSE "base"

EntryOK(ts, k, v) ==
  LET t == ts[k] IN
  /\ Src(t) \in 1..v /\ Src(t) \in Registering
  /\ IsInner(t) => /\ from.kind[Src(t)] = "subquery" /\ t.name = from.inner[Src(t)] /\ t.type = "base"
                   /\ k > 1 /\ ts[k - 1].raw = Src(t)
  /\ ~IsInner(t) => t.name = t.raw /\ t.type = TypeOfRef(t.raw)

InSourceOrder(ts) ==
  \A k, l \in DOMAIN ts : k < l =>
    /\ Src(ts[k]) <= Src(ts[l])
    /\ ~IsInner(ts[l]) => Src(ts[k]) < Src(ts[l])

EachEntered(ts, v) == \A m \in Registering : m <= v => \E k \in DOMAIN ts : ts[k].raw = m

(* The entries are those of the references taken, in source order. *)
EntriesOK(ts, v) ==
  /\ ts \in Seq(TableRef)
  /\ \A k \in DOMAIN ts : EntryOK(ts, k, v)
  /\ InSourceOrder(ts)
  /\ EachEntered(ts, v)

InnerOnce(ts) ==
  \A k \in DOMAIN ts : IsInner(ts[k]) => \A l \in 1..k - 1 : TableKey(ts[l]) # TableKey(ts[k])

ReadByOuter(ts, k) ==
  ts[k].type = "subquery" => \E l \in DOMAIN ts : TableKey(ts[l]) = <<from.inner[ts[k].raw], "base">>

KeysOK(ts) == InnerOnce(ts) /\ \A k \in DOMAIN ts : ReadByOuter(ts, k)

(* The index taken before a call parts the entries of before from those of the call. *)
BeforeOK ==
  \A i \in DOMAIN frames : i < Len(frames) =>
    /\ frames[i].before \in 0..Len(tables)
    /\ \A k \in DOMAIN tables : k <= frames[i].before <=> Src(tables[k]) < frames[i + 1].node

(* What n begins, inside parentheses. *)
Chain(n) == {m \in 1..n : \A k \in m + 1..n : InParens(from, k)}

(* m is the outermost of them whose call has returned. *)
OutermostReturned(m, n) ==
  m \in Chain(n) /\ m \notin OnStack /\ (m - 1 \in Chain(n) => m - 1 \in OnStack)

Unjoined == [type |-> "", condition |-> 0]

Meta(m) == IF from.parent[m] = 0 THEN Unjoined ELSE JoinMeta(m)

HasMeta(t, meta) == t.joinType = meta.type /\ t.joinCondition = meta.condition

NoXmltable == \A m \in Refs : from.kind[m] # "xmltable"

(* An entry carries the join of the outermost reference that it begins,    *)
(* among those that have returned.                                         *)
EntryJoined(t) ==
  /\ IsInner(t) \/ t.raw \in OnStack => HasMeta(t, Unjoined)
  /\ ~IsInner(t) => \A m \in 1..t.raw : OutermostReturned(m, t.raw) => HasMeta(t, Meta(m))

JoinsOK == NoXmltable => \A k \in DOMAIN tables : EntryJoined(tables[k])

(* The loop over the qualifications of the node m is nested in is over or past m. *)
PassedBy(m) == \A i \in DOMAIN frames : frames[i].node = from.parent[m] => m \in frames[i].quals

Recorded(m, b) == from.join[m].qual # "none" /\ from.parent[m] \in 1..b /\ PassedBy(m)

(* The qualifications recorded are those of the calls that have returned   *)
(* and those an active call has gone through.                              *)
QualsOK(n, b) ==
  /\ joinConditions \in Seq(1..n)
  /\ \A m \in 1..n : Recorded(m, b) <=> \E k \in DOMAIN joinConditions : joinConditions[k] = m
  /\ \A k, l \in DOMAIN joinConditions : k < l =>
       /\ joinConditions[k] # joinConditions[l]
       /\ from.parent[joinConditions[k]] \notin Ancestors(from, from.parent[joinConditions[l]])

Usage == [clause : 1..MaxRefs, left : 1..2 * MaxRefs, right : 1..2 * MaxRefs]

UsagesOK == usages \in Seq(Usage) /\ LastUsingHasSides

SourceOf(raw) == IF raw > MaxRefs THEN raw - MaxRefs ELSE raw

LateralOK(n, v) ==
  /\ \A m \in 1..n : from.kind[m] = "function" /\ 1 \in Registering /\ m <= v =>
       [outer |-> 1, function |-> m] \in correlations
  /\ \A c \in correlations : SourceOf(c.outer) <= c.function

WalkInv(n, b) ==
  /\ ClauseOK(n) /\ StackOK(n, b) /\ VisitOrder(n, b)
  /\ EntriesOK(tables, Entered(b)) /\ KeysOK(tables) /\ BeforeOK /\ JoinsOK
  /\ QualsOK(n, b) /\ UsagesOK /\ LateralOK(n, Entered(b))

IInv == \E n \in 1..MaxRefs : \E b \in 0..n : WalkInv(n, b)

-------------------------------------------------------------------------------
(* Stacks, and clauses.                                                    *)

LEMMA Pushed ==
  ASSUME NEW S, NEW s \in Seq(S), NEW f \in S
  PROVE  LET t == Append(s, f) IN
         /\ t \in Seq(S) /\ Len(t) = Len(s) + 1 /\ DOMAIN t = 1..Len(s) + 1
         /\ t[Len(s) + 1] = f /\ \A i \in DOMAIN s : t[i] = s[i]
  OBVIOUS

LEMMA Popped ==
  ASSUME NEW S, NEW s \in Seq(S), s # << >>
  PROVE  /\ Front(s) \in Seq(S) /\ Len(Front(s)) = Len(s) - 1
         /\ DOMAIN Front(s) = 1..Len(s) - 1
         /\ \A i \in 1..Len(s) - 1 : Front(s)[i] = s[i]
<1>1. Len(s) \in Nat \ {0} /\ DOMAIN s = 1..Len(s) /\ \A i \in 1..Len(s) - 1 : s[i] \in S
  OBVIOUS
<1> QED BY <1>1, SubSeqProperties DEF Front

LEMMA TopOfStack ==
  ASSUME NEW S, NEW s \in Seq(S), s # << >>
  PROVE  /\ Len(s) \in DOMAIN s /\ Len(s) \in Nat \ {0} /\ DOMAIN s = 1..Len(s)
         /\ Last(s) = s[Len(s)] /\ s[Len(s)] \in S
  BY DEF Last

(* The clauses that Init enumerates. *)
LEMMA ClausesAreOK ==
  ASSUME IsFromClause(from, CteChoices)
  PROVE  \E n \in 1..MaxRefs : ClauseOK(n)
<1> DEFINE Joined0(parent, kind) == Joined([parent |-> parent, kind |-> kind])
           JoinsOf(n, parent, kind) ==
             {j \in Padded(1..n, Joined0(parent, kind), Joins, NoJoin) :
                InnermostFirst([parent |-> parent, join |-> j])}
           Subqueries(n, kind) == {m \in 1..n : kind[m] = "subquery"}
           Relations(n, kind) == {m \in 1..n : kind[m] = "relation"}
           Rest(n, parent, kind) ==
             \E join \in JoinsOf(n, parent, kind), ctes \in {c \in CteChoices : c \subseteq Relations(n, kind)},
                inner \in Padded(1..n, Subqueries(n, kind), InnerNames, 1) :
               from = [parent |-> parent, kind |-> kind, join |-> join, cteNames |-> ctes, inner |-> inner]
<1>1. PICK n \in 1..MaxRefs :
        \E parent \in {p \in [1..n -> 0..n - 1] : SourceOrder([parent |-> p])} :
        \E kind \in {k \in [1..n -> Kinds] : ParensFilled([parent |-> parent, kind |-> k])} :
          Rest(n, parent, kind)
  BY Zenon DEF IsFromClause
<1>2. PICK parent \in {p \in [1..n -> 0..n - 1] : SourceOrder([parent |-> p])} :
        \E kind \in {k \in [1..n -> Kinds] : ParensFilled([parent |-> parent, kind |-> k])} :
          Rest(n, parent, kind)
  BY <1>1, Zenon
<1>3. PICK kind \in {k \in [1..n -> Kinds] : ParensFilled([parent |-> parent, kind |-> k])} :
          Rest(n, parent, kind)
  BY <1>2, Zenon
<1>4. PICK join \in JoinsOf(n, parent, kind), ctes \in {c \in CteChoices : c \subseteq Relations(n, kind)},
           inner \in Padded(1..n, Subqueries(n, kind), InnerNames, 1) :
        from = [parent |-> parent, kind |-> kind, join |-> join, cteNames |-> ctes, inner |-> inner]
  BY <1>3, Zenon
<1>5. /\ from.parent = parent /\ from.kind = kind /\ from.join = join /\ from.inner = inner
      /\ DOMAIN parent = 1..n /\ Refs = 1..n
  BY <1>2, <1>4 DEF Refs, RefsIn
<1>6. from.parent \in [1..n -> 0..n - 1] /\ from.kind \in [1..n -> AllKinds]
  BY <1>2, <1>3, <1>5, KindsAssumption
<1>7. SourceOrder(from)
  BY <1>2, <1>5 DEF SourceOrder, RefsIn
<1>8. ParensFilled(from)
  BY <1>3, <1>5 DEF ParensFilled, RefsIn, Nested
<1>9. Joined0(parent, kind) = Joined(from)
  BY <1>5 DEF Joined, RefsIn, InParens
<1>10. PICK f \in [Joined0(parent, kind) -> Joins] :
         join = [m \in 1..n |-> IF m \in Joined0(parent, kind) THEN f[m] ELSE NoJoin]
  BY <1>4 DEF Padded
<1>11. \A m \in 1..n : from.join[m] \in IF m \in Joined(from) THEN Joins ELSE {NoJoin}
  BY <1>5, <1>9, <1>10
<1>12. from.join \in [1..n -> Join]
  <2>1. NoJoin \in Join
    BY DEF NoJoin, Join
  <2>2. \A m \in 1..n : from.join[m] \in Join
    BY <1>11, <2>1, JoinsAssumption
  <2>3. from.join = [m \in 1..n |-> from.join[m]]
    BY <1>5, <1>10
  <2> QED BY <2>2, <2>3
<1>13. from.inner \in [1..n -> InnerNames]
  <2>1. PICK g \in [Subqueries(n, kind) -> InnerNames] :
          inner = [m \in 1..n |-> IF m \in Subqueries(n, kind) THEN g[m] ELSE 1]
    BY <1>4 DEF Padded
  <2>2. 1 \in InnerNames
    BY DEF InnerNames
  <2> QED BY <1>5, <2>1, <2>2
<1> QED BY <1>1, <1>6, <1>7, <1>8, <1>11, <1>12, <1>13 DEF ClauseOK

LEMMA RefsOfClause ==
  ASSUME NEW n \in 1..MaxRefs, ClauseOK(n)
  PROVE  /\ n \in Nat /\ Refs = 1..n /\ RefsIn(from) = 1..n
         /\ \A p, last : Remaining(p, last) = {m \in 1..n : from.parent[m] = p /\ m > last}
         /\ \A p : Nested(from, p) = {m \in 1..n : from.parent[m] = p}
         /\ \A m \in 1..n : from.parent[m] \in 0..n - 1 /\ from.parent[m] < m
         /\ \A m \in 1..n : \A k \in from.parent[m] + 1..m - 1 : from.parent[k] >= from.parent[m]
<1>1. RefsIn(from) = 1..n /\ n \in Nat
  BY MaxRefsAssumption DEF ClauseOK, RefsIn
<1> QED BY <1>1 DEF ClauseOK, SourceOrder, Refs, Remaining, Nested

-------------------------------------------------------------------------------
(* The stack, and the order of the visit.                                  *)

LEMMA CallIsFrame ==
  ASSUME NEW m \in 1..MaxRefs
  PROVE  Call(m) \in Frame /\ Call(m).node = m /\ Call(m).stage = "register"
         /\ Call(m).child = 0 /\ Call(m).quals = {}
  BY MaxRefsAssumption DEF Call, Frame

LEMMA TopSet ==
  ASSUME frames \in Seq(Frame), frames # << >>, NEW f \in Frame
  PROVE  /\ SetTop(f) \in Seq(Frame) /\ Len(SetTop(f)) = Len(frames) /\ DOMAIN SetTop(f) = 1..Len(frames)
         /\ SetTop(f)[Len(frames)] = f /\ \A i \in 1..Len(frames) - 1 : SetTop(f)[i] = frames[i]
  BY DEF SetTop

LEMMA WalkTypes ==
  ASSUME NEW n \in 1..MaxRefs, NEW b \in 0..n
  PROVE  MaxRefs \in Nat /\ n \in Nat /\ b \in Nat /\ n <= MaxRefs /\ b <= n
  BY MaxRefsAssumption

LEMMA NextItemWalks ==
  ASSUME NEW n \in 1..MaxRefs, NEW b \in 0..n, ClauseOK(n), StackOK(n, b), VisitOrder(n, b), NextItem
  PROVE  /\ b + 1 \in 1..n /\ from.parent[b + 1] = 0
         /\ frames' = <<Call(b + 1)>> /\ StackOK(n, b + 1)' /\ VisitOrder(n, b + 1)'
<1> DEFINE m == Min(Remaining(0, item))
<1>0. /\ MaxRefs \in Nat /\ n \in Nat /\ b \in Nat /\ n <= MaxRefs /\ b <= n
      /\ \A x \in 1..n : from.parent[x] \in 0..n - 1 /\ from.parent[x] < x
  BY WalkTypes, RefsOfClause
<1>1. /\ m \in 1..n /\ from.parent[m] = 0 /\ m > item
      /\ \A x \in 1..n : from.parent[x] = 0 /\ x > item => m <= x
  <2>1. Remaining(0, item) \in SUBSET (1..n) /\ Remaining(0, item) # {}
    BY RefsOfClause DEF NextItem
  <2>2. m \in Remaining(0, item) /\ \A y \in Remaining(0, item) : m <= y
    BY <1>0, <2>1, MinOfIndices
  <2> HIDE DEF m
  <2> QED BY <2>2, RefsOfClause
<1>2. frames' = <<Call(m)>> /\ item' = m /\ from' = from /\ frames = << >>
  BY DEF NextItem
<1> HIDE DEF m
<1>3. m = b + 1
  <2>1. m > b
    BY <1>1 DEF VisitOrder
  <2>2. ASSUME b + 1 < m PROVE FALSE
    <3>1. b + 1 \in 1..n /\ from.parent[b + 1] < b + 1 /\ from.parent[b + 1] \in Int
      BY <1>1, <2>2, RefsOfClause
    <3>2. OnStack = {}
      BY <1>2 DEF OnStack
    <3>3. from.parent[b + 1] = 0
      BY <3>1, <3>2 DEF VisitOrder
    <3> QED BY <1>1, <2>2, <3>1, <3>3 DEF StackOK
  <2> QED BY <1>0, <1>1, <2>1, <2>2
<1>4. /\ Len(frames') = 1 /\ DOMAIN frames' = {1} /\ frames' \in Seq(Frame)
      /\ frames'[1].node = m /\ frames'[1].stage = "register"
      /\ frames'[1].child = 0 /\ frames'[1].quals = {}
  BY <1>0, <1>1, <1>2, CallIsFrame
<1>5. OnStack' = {m}
  BY <1>4 DEF OnStack
<1>6. StackOK(n, b + 1)'
  <2>1. FrameOK(1, n, b + 1)'
    BY <1>0, <1>1, <1>2, <1>3, <1>4 DEF FrameOK
  <2> QED BY <1>0, <1>1, <1>2, <1>3, <1>4, <2>1 DEF StackOK
<1>7. VisitOrder(n, b + 1)'
  <2>1. \A x \in b + 2..n : from.parent[x] > b + 1 \/ from.parent[x] \in {m} \cup {0}
    <3>1. OnStack = {}
      BY <1>2 DEF OnStack
    <3>2. \A x \in b + 2..n : from.parent[x] > b \/ from.parent[x] = 0
      BY <3>1 DEF VisitOrder
    <3> QED BY <1>0, <1>3, <3>2
  <2>2. b + 1 \in 0..n
    BY <1>0, <1>1, <1>3
  <2>3. \A x \in 1..n : from.parent[x] = 0 /\ x > b + 1 => x > b + 1
    OBVIOUS
  <2>4. \A x \in 1..n : from.parent[x] = b + 1 => x > b + 1
    BY <1>0
  <2> QED BY <1>0, <1>2, <1>3, <1>4, <1>5, <2>1, <2>2, <2>3, <2>4 DEF VisitOrder
<1> QED BY <1>1, <1>2, <1>3, <1>6, <1>7

LEMMA VisitNestedWalks ==
  ASSUME NEW n \in 1..MaxRefs, NEW b \in 0..n, ClauseOK(n), StackOK(n, b), VisitOrder(n, b), VisitNested,
         Len(tables) \in Nat
  PROVE  LET L == Len(frames) IN
         /\ b + 1 \in 1..n /\ from.parent[b + 1] = frames[L].node
         /\ L \in Nat \ {0} /\ DOMAIN frames = 1..L /\ Len(frames') = L + 1 /\ DOMAIN frames' = 1..L + 1
         /\ frames'[L + 1].node = b + 1 /\ frames'[L + 1].stage = "register" /\ frames'[L + 1].quals = {}
         /\ frames'[L].node = frames[L].node /\ frames'[L].quals = frames[L].quals
         /\ frames'[L].before = Len(tables)
         /\ \A i \in 1..L - 1 : frames'[i] = frames[i]
         /\ StackOK(n, b + 1)' /\ VisitOrder(n, b + 1)'
<1>0. /\ MaxRefs \in Nat /\ n \in Nat /\ b \in Nat /\ n <= MaxRefs /\ b <= n
      /\ \A x \in 1..n : from.parent[x] \in 0..n - 1 /\ from.parent[x] < x
  BY WalkTypes, RefsOfClause
<1>1. frames # << >> /\ frames \in Seq(Frame)
  BY DEF StackOK, VisitNested, ActiveAt
<1>2. PICK L \in Nat \ {0} : L = Len(frames) /\ DOMAIN frames = 1..L /\ Top = frames[L] /\ frames[L] \in Frame
  BY <1>1, TopOfStack DEF Top
<1>3. DOMAIN frames = 1..L
  BY <1>2
<1>4. PICK p, c : p = frames[L].node /\ c = frames[L].child
  OBVIOUS
<1>5. \A i \in 1..L : FrameOK(i, n, b)
  BY <1>3 DEF StackOK
<1>6. from' = from /\ item' = item /\ Remaining(p, c) # {} /\ frames[L].stage = "nested"
  BY <1>2, <1>4 DEF VisitNested, ActiveAt
<1>7. PICK m \in 1..n : m = Min(Remaining(p, c)) /\ m \in Remaining(p, c) /\ \A y \in Remaining(p, c) : m <= y
  <2>1. Remaining(p, c) \in SUBSET (1..n)
    BY RefsOfClause
  <2> QED BY <1>0, <1>6, <2>1, MinOfIndices
<1>8. /\ from.parent[m] = p /\ m > c
      /\ \A x \in 1..n : from.parent[x] = p /\ x > c => m <= x
  <2>1. \A x \in 1..n : x \in Remaining(p, c) <=> from.parent[x] = p /\ x > c
    BY RefsOfClause
  <2> QED BY <1>7, <2>1
<1>9. p \in 1..b /\ c \in 0..b
  BY <1>4, <1>5 DEF FrameOK
<1>10. PICK f \in Frame :
         /\ f = [Top EXCEPT !.child = m, !.before = Len(tables)]
         /\ f.node = p /\ f.stage = "nested" /\ f.child = m /\ f.before = Len(tables)
         /\ f.quals = frames[L].quals
  <2>1. m \in 0..MaxRefs
    BY <1>0
  <2>2. PICK g \in Frame : g = Top /\ g.node = p /\ g.stage = "nested" /\ g.quals = frames[L].quals
    BY <1>2, <1>4, <1>6
  <2>3. PICK h : h = [g EXCEPT !.child = m, !.before = Len(tables)]
    OBVIOUS
  <2>4. /\ h \in Frame /\ h.node = g.node /\ h.stage = g.stage /\ h.child = m
        /\ h.before = Len(tables) /\ h.quals = g.quals
    BY <2>1, <2>3 DEF Frame
  <2> QED BY <2>2, <2>3, <2>4
<1>11. /\ Len(frames') = L + 1 /\ DOMAIN frames' = 1..L + 1 /\ frames' \in Seq(Frame)
       /\ frames'[L + 1] = Call(m) /\ frames'[L] = f /\ \A i \in 1..L - 1 : frames'[i] = frames[i]
  <2>1. Call(m) \in Frame
    BY <1>0, CallIsFrame
  <2>2. PICK t : t = SetTop(f)
    OBVIOUS
  <2>3. /\ t \in Seq(Frame) /\ Len(t) = L /\ DOMAIN t = 1..L
        /\ t[L] = f /\ \A i \in 1..L - 1 : t[i] = frames[i]
    BY <1>1, <1>2, <2>2, TopSet
  <2>4. frames' = Append(t, Call(m))
    BY <1>2, <1>4, <1>7, <1>10, <2>2 DEF VisitNested
  <2> QED BY <2>1, <2>3, <2>4, Pushed
<1>12. DOMAIN frames' = 1..L + 1 /\ Len(frames') = L + 1
  BY <1>11
<1>13. \A i \in 1..L - 1 : frames'[i] = frames[i]
  BY <1>11
<1>14. /\ frames'[L].node = p /\ frames'[L].child = m /\ frames'[L].stage = "nested"
       /\ frames'[L].quals = frames[L].quals
  BY <1>10, <1>11
<1>15. /\ frames'[L + 1].node = m /\ frames'[L + 1].stage = "register"
       /\ frames'[L + 1].child = 0 /\ frames'[L + 1].quals = {}
  <2>1. m \in 1..MaxRefs
    BY <1>0
  <2> QED BY <1>11, <2>1, CallIsFrame
<1>16. \A i \in 1..L : frames'[i].node = frames[i].node
  BY <1>4, <1>13, <1>14
<1>17. \A i \in 1..L : frames[i].node \in 1..b /\ frames[i].child \in 0..b
  BY <1>5 DEF FrameOK
<1>18. \A i \in 1..L : i < L => frames[i].node < p
  <2>1. \A i \in 1..L : \A j \in DOMAIN frames : i < j => frames[i].node < frames[j].node
    BY <1>5 DEF FrameOK
  <2>2. L \in DOMAIN frames
    BY <1>3
  <2> QED BY <1>4, <2>1, <2>2
<1>19. m = b + 1
  <2>1. m > b
    BY <1>3, <1>4, <1>8 DEF VisitOrder
  <2>2. ASSUME b + 1 < m PROVE FALSE
    <3>1. b + 1 \in 1..n /\ from.parent[b + 1] \in 0..b
      BY <1>0, <2>2
    <3>2. b + 1 \in from.parent[m] + 1..m - 1
      BY <1>0, <1>8, <1>9, <2>2
    <3>3. from.parent[b + 1] >= p
      BY <1>8, <3>2, RefsOfClause
    <3>4. from.parent[b + 1] \in OnStack
      BY <1>0, <1>9, <3>1, <3>3 DEF VisitOrder
    <3>5. PICK i \in 1..L : from.parent[b + 1] = frames[i].node
      BY <1>3, <3>4 DEF OnStack
    <3>6. from.parent[b + 1] = p
      <4>1. i = L
        BY <1>9, <1>17, <1>18, <3>3, <3>5
      <4> QED BY <1>4, <3>5, <4>1
    <3> QED BY <1>0, <1>8, <1>9, <2>2, <3>1, <3>6
  <2> QED BY <1>0, <2>1, <2>2
<1>20. frames[L].quals = {}
  <2>1. FrameOK(L, n, b)
    BY <1>5
  <2> QED BY <1>4, <1>8, <2>1 DEF FrameOK
<1>21. StackOK(n, b + 1)'
  <2>1. ASSUME NEW i \in 1..L - 1 PROVE FrameOK(i, n, b + 1)'
    <3>1. FrameOK(i, n, b) /\ i \in 1..L /\ i < L /\ i \in DOMAIN frames
      BY <1>3, <1>5
    <3>2. frames'[i + 1].node = frames[i + 1].node /\ i + 1 \in 1..L
      BY <1>16
    <3>3. i # 1 => frames'[i - 1].node = frames[i - 1].node
      BY <1>16
    <3>4. frames'[i] = frames[i]
      BY <1>13
    <3>5. \A j \in 1..L + 1 : i < j => frames[i].node < frames'[j].node
      <4> SUFFICES ASSUME NEW j \in 1..L + 1, i < j PROVE frames[i].node < frames'[j].node
        OBVIOUS
      <4>1. CASE j = L + 1
        BY <1>0, <1>15, <1>17, <1>19, <3>1, <4>1
      <4>2. CASE j \in 1..L
        BY <1>3, <1>16, <3>1, <4>2 DEF FrameOK
      <4> QED BY <4>1, <4>2
    <3>6. /\ frames[i].stage = "nested" /\ frames[i].quals = {} /\ frames[i].child = frames'[i + 1].node
          /\ from.parent[frames[i].node] = IF i = 1 THEN 0 ELSE frames'[i - 1].node
      BY <1>2, <3>1, <3>2, <3>3 DEF FrameOK
    <3>7. frames[i].node \in 1..b + 1 /\ frames[i].child \in 0..b + 1
      BY <1>0, <1>17, <3>1
    <3> QED BY <1>6, <1>12, <3>4, <3>5, <3>6, <3>7 DEF FrameOK
  <2>2. FrameOK(L, n, b + 1)'
    <3>1. from.parent[p] = IF L = 1 THEN 0 ELSE frames'[L - 1].node
      <4>1. from.parent[p] = IF L = 1 THEN 0 ELSE frames[L - 1].node
        BY <1>4, <1>5 DEF FrameOK
      <4>2. L # 1 => frames'[L - 1].node = frames[L - 1].node
        BY <1>16
      <4> QED BY <4>1, <4>2
    <3>2. \A j \in 1..L + 1 : L < j => p < frames'[j].node
      BY <1>0, <1>9, <1>15, <1>19
    <3> QED BY <1>0, <1>6, <1>9, <1>12, <1>14, <1>15, <1>19, <1>20, <3>1, <3>2 DEF FrameOK
  <2>3. FrameOK(L + 1, n, b + 1)'
    <3>1. L + 1 # 1 /\ L + 1 - 1 = L
      OBVIOUS
    <3> QED BY <1>0, <1>6, <1>8, <1>12, <1>14, <1>15, <1>19, <3>1 DEF FrameOK
  <2>4. item' \in 0..b + 1
    BY <1>0, <1>6 DEF StackOK
  <2>5. frames' \in Seq(Frame)
    BY <1>11
  <2>6. \A i \in DOMAIN frames' : FrameOK(i, n, b + 1)'
    BY <1>12, <2>1, <2>2, <2>3
  <2> QED BY <2>4, <2>5, <2>6 DEF StackOK
<1>22. OnStack' = OnStack \cup {m}
  <2>1. \A i \in 1..L + 1 : i = L + 1 \/ i \in 1..L
    OBVIOUS
  <2> QED BY <1>3, <1>12, <1>15, <1>16, <2>1 DEF OnStack
<1>23. VisitOrder(n, b + 1)'
  <2>1. b + 1 \in 0..n
    BY <1>0, <1>19
  <2>2. \A x \in b + 2..n : from.parent[x] > b + 1 \/ from.parent[x] \in OnStack' \cup {0}
    <3>1. \A x \in b + 2..n : from.parent[x] > b \/ from.parent[x] \in OnStack \cup {0}
      BY <1>0 DEF VisitOrder
    <3> QED BY <1>0, <1>19, <1>22, <3>1
  <2>3. \A x \in 1..n : from.parent[x] = 0 /\ x > item => x > b + 1
    <3>1. \A x \in 1..n : from.parent[x] = 0 /\ x > item => x > b
      BY DEF VisitOrder
    <3> QED BY <1>0, <1>8, <1>9, <1>19, <3>1
  <2>4. ASSUME NEW i \in 1..L + 1, NEW x \in 1..n, from.parent[x] = frames'[i].node, x > frames'[i].child
        PROVE  x > b + 1
    <3>1. CASE i = L + 1
      BY <1>0, <1>15, <1>19, <2>4, <3>1
    <3>2. CASE i = L
      BY <1>14, <1>19, <2>4, <3>2
    <3>3. CASE i < L
      <4>1. i \in 1..L - 1 /\ i \in 1..L
        BY <3>3
      <4>2. frames'[i] = frames[i]
        BY <1>13, <4>1
      <4>3. x > b
        BY <1>3, <2>4, <4>1, <4>2 DEF VisitOrder
      <4>4. x # m
        BY <1>8, <1>9, <1>17, <1>18, <2>4, <3>3, <4>1, <4>2
      <4> QED BY <1>0, <1>19, <4>3, <4>4
    <3> QED BY <3>1, <3>2, <3>3
  <2>5. ASSUME NEW i \in 1..L + 1, NEW x \in frames'[i].node + 1..b + 1
        PROVE  from.parent[x] >= frames'[i].node
    <3>1. CASE i = L + 1
      BY <1>0, <1>15, <1>19, <3>1
    <3>2. CASE i \in 1..L
      <4>1. frames'[i].node = frames[i].node /\ frames[i].node \in 1..b
        BY <1>16, <1>17, <3>2
      <4>2. frames[i].node <= p
        BY <1>4, <1>9, <1>18, <3>2, <4>1
      <4>3. CASE x = b + 1
        BY <1>8, <1>9, <1>19, <4>1, <4>2, <4>3
      <4>4. CASE x # b + 1
        <5>1. x \in frames[i].node + 1..b
          BY <1>0, <4>1, <4>4
        <5> QED BY <1>3, <3>2, <4>1, <5>1 DEF VisitOrder
      <4> QED BY <4>3, <4>4
    <3> QED BY <3>1, <3>2
  <2>6. b + 1 + 1 = b + 2
    BY <1>0
  <2> QED BY <1>6, <1>12, <2>1, <2>2, <2>3, <2>4, <2>5, <2>6 DEF VisitOrder
<1>24. frames'[L].before = Len(tables)
  BY <1>10, <1>11
<1> QED BY <1>0, <1>2, <1>4, <1>8, <1>12, <1>13, <1>14, <1>15, <1>19, <1>21, <1>23, <1>24

(* A step within the innermost call. *)
LEMMA TopStepWalks ==
  ASSUME NEW n \in 1..MaxRefs, NEW b \in 0..n, ClauseOK(n), StackOK(n, b), VisitOrder(n, b), frames # << >>,
         UNCHANGED <<from, item>>, NEW f \in Frame, frames' = SetTop(f),
         f.node = Top.node, f.stage = "nested", f.child = Top.child,
         \A m \in f.quals : from.parent[m] = f.node /\ from.join[m].qual # "none" /\ m \in 1..n,
         f.quals # {} => \A x \in 1..n : from.parent[x] = f.node => x <= f.child
  PROVE  LET L == Len(frames) IN
         /\ L \in Nat \ {0} /\ DOMAIN frames = 1..L /\ DOMAIN frames' = 1..L /\ Len(frames') = L
         /\ Top = frames[L] /\ frames'[L] = f /\ \A i \in 1..L - 1 : frames'[i] = frames[i]
         /\ OnStack' = OnStack /\ StackOK(n, b)' /\ VisitOrder(n, b)'
<1>1. frames \in Seq(Frame)
  BY DEF StackOK
<1>2. PICK L \in Nat \ {0} : L = Len(frames) /\ DOMAIN frames = 1..L /\ Top = frames[L]
  BY <1>1, TopOfStack DEF Top
<1>3. DOMAIN frames = 1..L
  BY <1>2
<1>4. \A i \in 1..L : FrameOK(i, n, b)
  BY <1>3 DEF StackOK
<1>5. /\ frames' \in Seq(Frame) /\ DOMAIN frames' = 1..L /\ Len(frames') = L
      /\ frames'[L] = f /\ \A i \in 1..L - 1 : frames'[i] = frames[i]
  BY <1>1, <1>2, TopSet
<1>6. DOMAIN frames' = 1..L /\ Len(frames') = L
  BY <1>5
<1>7. \A i \in 1..L - 1 : frames'[i] = frames[i]
  BY <1>5
<1>8. /\ frames'[L].node = frames[L].node /\ frames'[L].child = frames[L].child
      /\ frames'[L].stage = "nested" /\ frames'[L].quals = f.quals
  BY <1>2, <1>5
<1>9. \A i \in 1..L : frames'[i].node = frames[i].node /\ frames'[i].child = frames[i].child
  BY <1>7, <1>8
<1>10. StackOK(n, b)'
  <2>1. ASSUME NEW i \in 1..L PROVE FrameOK(i, n, b)'
    <3>1. /\ frames'[i].node \in 1..b /\ frames'[i].child \in 0..b
          /\ \A j \in 1..L : i < j => frames'[i].node < frames'[j].node
      BY <1>3, <1>4, <1>9 DEF FrameOK
    <3>2. from.parent[frames'[i].node] = IF i = 1 THEN 0 ELSE frames'[i - 1].node
      <4>1. i # 1 => i - 1 \in 1..L
        OBVIOUS
      <4> QED BY <1>4, <1>9, <4>1 DEF FrameOK
    <3>3. CASE i = L
      BY <1>2, <1>6, <1>8, <3>1, <3>2, <3>3 DEF FrameOK
    <3>4. CASE i < L
      <4>1. frames'[i] = frames[i] /\ i \in 1..L - 1
        BY <1>7, <3>4
      <4>2. i + 1 \in 1..L /\ frames'[i + 1].node = frames[i + 1].node
        BY <1>9, <3>4
      <4>3. FrameOK(i, n, b)
        BY <1>4
      <4> QED BY <1>2, <1>6, <3>1, <3>2, <4>1, <4>2, <4>3 DEF FrameOK
    <3> QED BY <3>3, <3>4
  <2>2. \A i \in DOMAIN frames' : FrameOK(i, n, b)'
    BY <1>6, <2>1
  <2> QED BY <1>5, <2>2 DEF StackOK
<1>11. OnStack' = OnStack
  BY <1>3, <1>6, <1>9 DEF OnStack
<1>12. VisitOrder(n, b)'
  BY <1>3, <1>6, <1>9, <1>11 DEF VisitOrder
<1> QED BY <1>2, <1>5, <1>10, <1>11, <1>12

LEMMA RegisterWalks ==
  ASSUME NEW n \in 1..MaxRefs, NEW b \in 0..n, ClauseOK(n), StackOK(n, b), VisitOrder(n, b),
         UNCHANGED <<from, item>>, ActiveAt("register"), frames' = Registered
  PROVE  LET L == Len(frames) IN
         /\ b \in 1..n /\ Top.node = b /\ L \in Nat \ {0} /\ frames[L].node = b
         /\ DOMAIN frames = 1..L /\ DOMAIN frames' = 1..L /\ Len(frames') = L
         /\ \A i \in 1..L : frames'[i].node = frames[i].node /\ frames'[i].quals = frames[i].quals
         /\ \A i \in 1..L : frames'[i].before = frames[i].before
         /\ OnStack' = OnStack /\ ~ActiveAt("register")' /\ StackOK(n, b)' /\ VisitOrder(n, b)'
<1>1. frames # << >> /\ Top.stage = "register"
  BY DEF ActiveAt
<1>2. PICK L \in Nat \ {0} :
        /\ L = Len(frames) /\ DOMAIN frames = 1..L /\ Top = frames[L] /\ frames[L] \in Frame
        /\ FrameOK(L, n, b)
  BY <1>1, TopOfStack DEF Top, StackOK
<1>3. PICK f : f = [Top EXCEPT !.stage = "nested"]
  OBVIOUS
<1>4. /\ f \in Frame /\ f.node = Top.node /\ f.stage = "nested" /\ f.child = Top.child
      /\ f.quals = Top.quals /\ f.before = Top.before
  BY <1>2, <1>3 DEF Frame
<1>5. Top.quals = {} /\ Top.node = b /\ b \in 1..n
  BY <1>1, <1>2 DEF FrameOK
<1>6. frames' = SetTop(f)
  BY <1>3 DEF Registered
<1>7. /\ DOMAIN frames' = 1..L /\ Len(frames') = L
      /\ frames'[L] = f /\ \A i \in 1..L - 1 : frames'[i] = frames[i]
      /\ OnStack' = OnStack /\ StackOK(n, b)' /\ VisitOrder(n, b)'
  BY <1>1, <1>2, <1>4, <1>5, <1>6, TopStepWalks
<1>8. \A i \in 1..L : /\ frames'[i].node = frames[i].node /\ frames'[i].quals = frames[i].quals
                      /\ frames'[i].before = frames[i].before
  BY <1>2, <1>4, <1>7
<1>9. ~ActiveAt("register")'
  BY <1>4, <1>7 DEF ActiveAt, Top, Last
<1> QED BY <1>2, <1>5, <1>7, <1>8, <1>9

(* What a call that has made all its nested calls has left: nothing. *)
LEMMA NothingRemains ==
  ASSUME NEW n \in 1..MaxRefs, NEW b \in 0..n, ClauseOK(n), StackOK(n, b), VisitOrder(n, b),
         ActiveAt("nested"), Remaining(Top.node, Top.child) = {}
  PROVE  LET L == Len(frames) IN
         /\ L \in Nat \ {0} /\ DOMAIN frames = 1..L /\ Top = frames[L] /\ frames[L] \in Frame
         /\ frames \in Seq(Frame) /\ Top.stage = "nested" /\ Top.node \in 1..b /\ Top.child \in 0..b
         /\ \A x \in 1..n : from.parent[x] = Top.node => x <= Top.child
         /\ \A i \in 1..L : frames[i].node \in 1..b /\ (i < L => frames[i].node < Top.node)
<1>1. frames # << >> /\ Top.stage = "nested" /\ frames \in Seq(Frame)
  BY DEF ActiveAt, StackOK
<1>2. PICK L \in Nat \ {0} : L = Len(frames) /\ DOMAIN frames = 1..L /\ Top = frames[L] /\ frames[L] \in Frame
  BY <1>1, TopOfStack DEF Top
<1>3. \A i \in 1..L : FrameOK(i, n, b)
  BY <1>2 DEF StackOK
<1>4. Top.node \in 1..b /\ Top.child \in 0..b
  BY <1>2, <1>3 DEF FrameOK
<1>5. \A i \in 1..L : frames[i].node \in 1..b /\ (i < L => frames[i].node < Top.node)
  <2>1. DOMAIN frames = 1..L /\ Top.node = frames[L].node
    BY <1>2
  <2>2. \A i \in 1..L : frames[i].node \in 1..b
    BY <1>3 DEF FrameOK
  <2>3. \A i \in 1..L : \A j \in 1..L : i < j => frames[i].node < frames[j].node
    BY <1>3, <2>1 DEF FrameOK
  <2> QED BY <2>1, <2>2, <2>3
<1>6. \A x \in 1..n : from.parent[x] = Top.node => x <= Top.child
  <2>1. \A x \in 1..n : ~(from.parent[x] = Top.node /\ x > Top.child)
    <3>1. RefsIn(from) = 1..n
      BY RefsOfClause
    <3> QED BY <3>1 DEF Remaining, Nested
  <2>2. \A x \in 1..n : x \in Int /\ Top.child \in Int
    BY <1>4
  <2> QED BY <2>1, <2>2
<1> QED BY <1>1, <1>2, <1>4, <1>5, <1>6

LEMMA RecordQualWalks ==
  ASSUME NEW n \in 1..MaxRefs, NEW b \in 0..n, ClauseOK(n), StackOK(n, b), VisitOrder(n, b), RecordQual
  PROVE  LET L == Len(frames)
             m == Min(Quals(Top.node) \ Top.quals) IN
         /\ L \in Nat \ {0} /\ DOMAIN frames = 1..L /\ DOMAIN frames' = 1..L /\ Len(frames') = L
         /\ m \in 1..n /\ from.parent[m] = Top.node /\ from.join[m].qual # "none" /\ m \notin Top.quals
         /\ Top = frames[L] /\ Top.node \in 1..b
         /\ frames'[L].node = Top.node /\ frames'[L].quals = Top.quals \cup {m}
         /\ \A i \in 1..L - 1 : frames'[i] = frames[i]
         /\ OnStack' = OnStack /\ StackOK(n, b)' /\ VisitOrder(n, b)'
         /\ ~ActiveAt("register") /\ ~ActiveAt("register")'
<1>0. MaxRefs \in Nat /\ n \in Nat /\ n <= MaxRefs
  BY WalkTypes
<1>1. /\ ActiveAt("nested") /\ Remaining(Top.node, Top.child) = {} /\ Top.quals # Quals(Top.node)
      /\ UNCHANGED <<from, item>> /\ frames # << >>
  BY DEF RecordQual, ActiveAt
<1>2. PICK L \in Nat \ {0} :
        /\ L = Len(frames) /\ DOMAIN frames = 1..L /\ Top = frames[L] /\ frames[L] \in Frame
        /\ Top.stage = "nested" /\ Top.node \in 1..b
        /\ \A x \in 1..n : from.parent[x] = Top.node => x <= Top.child
        /\ FrameOK(L, n, b)
  BY <1>1, NothingRemains DEF StackOK
<1>3. Quals(Top.node) = {x \in 1..n : from.parent[x] = Top.node /\ from.join[x].qual # "none"}
  BY RefsOfClause DEF Quals
<1>4. Top.quals \subseteq Quals(Top.node)
  <2>1. \A x \in Top.quals : from.parent[x] = Top.node /\ from.join[x].qual # "none" /\ x \in 1..n
    <3>1. FrameOK(L, n, b) /\ Top = frames[L]
      BY <1>2
    <3> QED BY <3>1 DEF FrameOK
  <2> QED BY <1>3, <2>1
<1>5. PICK m : m = Min(Quals(Top.node) \ Top.quals)
  OBVIOUS
<1>6. m \in Quals(Top.node) \ Top.quals
  <2>1. /\ Quals(Top.node) \ Top.quals \in SUBSET (1..n)
        /\ Quals(Top.node) \ Top.quals # {}
    BY <1>1, <1>3, <1>4
  <2> QED BY <1>0, <1>5, <2>1, MinOfIndices
<1>7. m \in 1..n /\ from.parent[m] = Top.node /\ from.join[m].qual # "none" /\ m \notin Top.quals
  BY <1>3, <1>6
<1>8. PICK f : f = [Top EXCEPT !.quals = @ \cup {m}]
  OBVIOUS
<1>9. /\ f \in Frame /\ f.node = Top.node /\ f.stage = "nested" /\ f.child = Top.child
      /\ f.quals = Top.quals \cup {m}
  <2>1. m \in 1..MaxRefs
    BY <1>0, <1>7
  <2> QED BY <1>2, <1>8, <2>1 DEF Frame
<1>10. frames' = SetTop(f)
  BY <1>5, <1>8 DEF RecordQual
<1>11. \A x \in f.quals : from.parent[x] = f.node /\ from.join[x].qual # "none" /\ x \in 1..n
  BY <1>3, <1>4, <1>6, <1>9
<1>12. \A x \in 1..n : from.parent[x] = f.node => x <= f.child
  BY <1>2, <1>9
<1>13. /\ DOMAIN frames' = 1..L /\ Len(frames') = L
       /\ frames'[L] = f /\ \A i \in 1..L - 1 : frames'[i] = frames[i]
       /\ OnStack' = OnStack /\ StackOK(n, b)' /\ VisitOrder(n, b)'
  BY <1>1, <1>2, <1>9, <1>10, <1>11, <1>12, TopStepWalks
<1>14. ~ActiveAt("register") /\ ~ActiveAt("register")'
  BY <1>2, <1>9, <1>13 DEF ActiveAt, Top, Last
<1> QED BY <1>2, <1>5, <1>7, <1>9, <1>13, <1>14

LEMMA ReturnWalks ==
  ASSUME NEW n \in 1..MaxRefs, NEW b \in 0..n, ClauseOK(n), StackOK(n, b), VisitOrder(n, b), Return
  PROVE  LET L == Len(frames) IN
         /\ L \in Nat \ {0} /\ DOMAIN frames = 1..L /\ DOMAIN frames' = 1..L - 1 /\ Len(frames') = L - 1
         /\ Top = frames[L] /\ Top.node \in 1..b
         /\ \A x \in 1..n : from.parent[x] = Top.node => x <= b
         /\ \A i \in 1..L - 1 : frames'[i] = frames[i] /\ frames[i].node < Top.node
         /\ OnStack' = OnStack \ {Top.node} /\ StackOK(n, b)' /\ VisitOrder(n, b)'
         /\ ~ActiveAt("register") /\ ~ActiveAt("register")'
<1>1. ActiveAt("nested") /\ Remaining(Top.node, Top.child) = {} /\ UNCHANGED <<from, item>>
  BY DEF Return
<1>2. PICK L \in Nat \ {0} :
        /\ L = Len(frames) /\ DOMAIN frames = 1..L /\ Top = frames[L]
        /\ frames \in Seq(Frame) /\ Top.stage = "nested"
        /\ Top.node \in 1..b /\ Top.child \in 0..b
        /\ \A x \in 1..n : from.parent[x] = Top.node => x <= Top.child
        /\ \A i \in 1..L : frames[i].node \in 1..b /\ (i < L => frames[i].node < Top.node)
  BY <1>1, NothingRemains
<1>3. /\ DOMAIN frames = 1..L /\ b \in Int
      /\ \A i \in 1..L : FrameOK(i, n, b)
  BY <1>2 DEF StackOK
<1>4. PICK p : p = Top.node
  OBVIOUS
<1>5. p \in 1..b /\ \A x \in 1..n : from.parent[x] = p => x <= b
  BY <1>2, <1>3, <1>4
<1>6. /\ frames' \in Seq(Frame) /\ DOMAIN frames' = 1..L - 1 /\ Len(frames') = L - 1
      /\ \A i \in 1..L - 1 : frames'[i] = frames[i]
  <2>1. frames' = Front(frames) /\ frames # << >>
    BY DEF Return, ActiveAt
  <2> QED BY <1>2, <2>1, Popped
<1>7. DOMAIN frames' = 1..L - 1 /\ Len(frames') = L - 1
  BY <1>6
<1>8. \A i \in 1..L - 1 : frames'[i] = frames[i] /\ frames[i].node < p /\ frames[i].node \in 1..b
  <2>1. \A i \in 1..L - 1 : frames'[i] = frames[i]
    BY <1>6
  <2>2. \A i \in 1..L : frames[i].node \in 1..b /\ (i < L => frames[i].node < p)
    BY <1>2, <1>4
  <2> QED BY <2>1, <2>2
<1>9. OnStack' = OnStack \ {p}
  <2>1. OnStack = {frames[i].node : i \in 1..L}
    BY <1>3 DEF OnStack
  <2>2. OnStack' = {frames[i].node : i \in 1..L - 1}
    BY <1>7, <1>8 DEF OnStack
  <2>3. \A i \in 1..L : i = L \/ i \in 1..L - 1
    OBVIOUS
  <2>4. frames[L].node = p
    BY <1>2, <1>4
  <2>5. \A i \in 1..L - 1 : frames[i].node # p
    BY <1>5, <1>8
  <2> QED BY <2>1, <2>2, <2>3, <2>4, <2>5
<1>10. StackOK(n, b)'
  <2>1. ASSUME NEW i \in 1..L - 1 PROVE FrameOK(i, n, b)'
    <3>1. FrameOK(i, n, b) /\ i \in 1..L /\ i < L /\ frames'[i] = frames[i]
      BY <1>3, <1>8
    <3>2. i # 1 => i - 1 \in 1..L - 1
      OBVIOUS
    <3>3. i < L - 1 => i + 1 \in 1..L - 1
      OBVIOUS
    <3>4. \A j \in 1..L - 1 : i < j => frames[i].node < frames[j].node
      BY <1>3, <3>1 DEF FrameOK
    <3> QED BY <1>1, <1>2, <1>7, <1>8, <3>1, <3>2, <3>3, <3>4 DEF FrameOK
  <2>2. \A i \in DOMAIN frames' : FrameOK(i, n, b)'
    BY <1>7, <2>1
  <2> QED BY <1>1, <1>6, <2>2 DEF StackOK
<1>11. VisitOrder(n, b)'
  <2>1. \A x \in b + 1..n : from.parent[x] > b \/ from.parent[x] \in OnStack' \cup {0}
    <3>1. \A x \in b + 1..n : from.parent[x] > b \/ from.parent[x] \in OnStack \cup {0}
      BY DEF VisitOrder
    <3>2. \A x \in b + 1..n : x \in 1..n /\ from.parent[x] # p
      BY <1>3, <1>5
    <3> QED BY <1>9, <3>1, <3>2
  <2>2. \A i \in 1..L - 1 : i \in 1..L
    OBVIOUS
  <2> QED BY <1>1, <1>3, <1>7, <1>8, <2>1, <2>2 DEF VisitOrder
<1>12. ~ActiveAt("register") /\ ~ActiveAt("register")'
  <2>1. ~ActiveAt("register")
    BY <1>2 DEF ActiveAt
  <2>2. L # 1 => frames'[L - 1].stage = "nested"
    <3>1. L # 1 => L - 1 \in 1..L - 1 /\ FrameOK(L - 1, n, b) /\ L - 1 < Len(frames)
      BY <1>2, <1>3
    <3> QED BY <1>8, <3>1 DEF FrameOK
  <2>3. L = 1 => frames' = << >>
    BY <1>6
  <2> QED BY <1>7, <2>1, <2>2, <2>3 DEF ActiveAt, Top, Last
<1> QED BY <1>2, <1>4, <1>5, <1>6, <1>8, <1>9, <1>10, <1>11, <1>12

-------------------------------------------------------------------------------
(* The list of tables.                                                     *)

LEMMA NewEntry ==
  ASSUME NEW name \in 1..MaxRefs + 1, NEW type \in {"base", "cte", "function", "subquery"},
         NEW raw \in 1..2 * MaxRefs
  PROVE  Table(name, type, raw) \in TableRef
  BY MaxRefsAssumption DEF Table, TableRef

LEMMA TypesOfRefs ==
  ASSUME NEW n \in 1..MaxRefs, ClauseOK(n), NEW m \in Registering
  PROVE  m \in 1..n /\ TypeOfRef(m) \in {"base", "cte", "function", "subquery"}
  BY RefsOfClause DEF Registering, TypeOfRef

LEMMA OwnAppended ==
  ASSUME NEW n \in 1..MaxRefs, ClauseOK(n), NEW v \in 0..n - 1, NEW ts, EntriesOK(ts, v), InnerOnce(ts),
         v + 1 \in Registering, NEW us, us = Append(ts, Table(v + 1, TypeOfRef(v + 1), v + 1))
  PROVE  EntriesOK(us, v + 1) /\ InnerOnce(us)
<1>0. MaxRefs \in Nat /\ n \in Nat /\ n <= MaxRefs /\ v \in Nat
  BY WalkTypes
<1>1. PICK L \in Nat : L = Len(ts) /\ DOMAIN ts = 1..L
  BY DEF EntriesOK
<1>2. PICK t : t = Table(v + 1, TypeOfRef(v + 1), v + 1)
  OBVIOUS
<1>3. t \in TableRef /\ t.name = v + 1 /\ t.type = TypeOfRef(v + 1) /\ t.raw = v + 1
  <2>1. v + 1 \in 1..MaxRefs + 1 /\ v + 1 \in 1..2 * MaxRefs
    BY <1>0
  <2>2. TypeOfRef(v + 1) \in {"base", "cte", "function", "subquery"}
    BY TypesOfRefs
  <2>3. Table(v + 1, TypeOfRef(v + 1), v + 1) \in TableRef
    BY <2>1, <2>2, NewEntry
  <2>4. t.name = v + 1 /\ t.type = TypeOfRef(v + 1) /\ t.raw = v + 1
    BY <1>2 DEF Table
  <2> QED BY <1>2, <2>3, <2>4
<1>4. us \in Seq(TableRef) /\ DOMAIN us = 1..L + 1 /\ us[L + 1] = t /\ \A k \in 1..L : us[k] = ts[k]
  BY <1>1, <1>2, <1>3, Pushed DEF EntriesOK
<1>5. DOMAIN us = 1..L + 1 /\ us[L + 1] = t
  BY <1>4
<1>6. \A k \in 1..L : us[k] = ts[k]
  BY <1>4
<1>7. ~IsInner(t) /\ Src(t) = v + 1
  BY <1>0, <1>3 DEF IsInner, Src
<1>8. \A k \in 1..L : EntryOK(ts, k, v) /\ Src(ts[k]) \in 1..v
  BY <1>1 DEF EntriesOK, EntryOK
<1>9. \A k \in 1..L + 1 : k = L + 1 \/ k \in 1..L
  OBVIOUS
<1>10. ASSUME NEW k \in 1..L + 1 PROVE EntryOK(us, k, v + 1)
  <2>1. CASE k = L + 1
    BY <1>0, <1>3, <1>5, <1>7, <2>1 DEF EntryOK
  <2>2. CASE k \in 1..L
    <3>1. k > 1 => k - 1 \in 1..L
      BY <2>2
    <3>2. us[k] = ts[k] /\ (k > 1 => us[k - 1] = ts[k - 1])
      BY <1>6, <2>2, <3>1
    <3>3. EntryOK(ts, k, v) /\ Src(ts[k]) \in 1..v + 1
      BY <1>0, <1>8, <2>2
    <3> QED BY <3>2, <3>3 DEF EntryOK
  <2> QED BY <1>9, <2>1, <2>2
<1>11. InSourceOrder(us)
  <2> SUFFICES ASSUME NEW k \in 1..L, NEW l \in 1..L + 1, k < l
               PROVE  Src(us[k]) <= Src(us[l]) /\ (~IsInner(us[l]) => Src(us[k]) < Src(us[l]))
    BY <1>5, <1>9 DEF InSourceOrder
  <2>1. CASE l = L + 1
    BY <1>0, <1>5, <1>6, <1>7, <1>8, <2>1
  <2>2. CASE l \in 1..L
    BY <1>1, <1>6, <2>2 DEF EntriesOK, InSourceOrder
  <2> QED BY <1>9, <2>1, <2>2
<1>12. EachEntered(us, v + 1)
  <2> SUFFICES ASSUME NEW m \in Registering, m <= v + 1 PROVE \E k \in 1..L + 1 : us[k].raw = m
    BY <1>5 DEF EachEntered
  <2>1. CASE m = v + 1
    BY <1>3, <1>5, <2>1
  <2>2. CASE m <= v
    <3>1. PICK k \in 1..L : ts[k].raw = m
      BY <1>1, <2>2 DEF EntriesOK, EachEntered
    <3>2. us[k] = ts[k]
      BY <1>6
    <3>3. k \in 1..L + 1
      OBVIOUS
    <3> QED BY <3>1, <3>2, <3>3
  <2>3. m = v + 1 \/ m <= v
    <3>1. m \in 1..n
      BY TypesOfRefs
    <3> QED BY <1>0, <3>1
  <2> QED BY <2>1, <2>2, <2>3
<1>13. InnerOnce(us)
  <2> SUFFICES ASSUME NEW k \in 1..L + 1, IsInner(us[k]), NEW l \in 1..k - 1
               PROVE  TableKey(us[l]) # TableKey(us[k])
    BY <1>5 DEF InnerOnce
  <2>1. k \in 1..L /\ l \in 1..L
    BY <1>5, <1>7, <1>9
  <2> QED BY <1>1, <1>6, <2>1 DEF InnerOnce
<1> QED BY <1>4, <1>5, <1>10, <1>11, <1>12, <1>13 DEF EntriesOK

LEMMA InnerAppended ==
  ASSUME NEW n \in 1..MaxRefs, ClauseOK(n), NEW v \in 1..n, NEW ts, EntriesOK(ts, v), InnerOnce(ts),
         from.kind[v] = "subquery", ts # << >>, ts[Len(ts)].raw = v,
         NEW t, t = Table(from.inner[v], "base", MaxRefs + v),
         \A k \in DOMAIN ts : TableKey(ts[k]) # TableKey(t), NEW us, us = Append(ts, t)
  PROVE  EntriesOK(us, v) /\ InnerOnce(us)
<1>0. MaxRefs \in Nat /\ n \in Nat /\ n <= MaxRefs /\ v \in Nat
  BY WalkTypes
<1>1. PICK L \in Nat : L = Len(ts) /\ DOMAIN ts = 1..L /\ L # 0
  BY DEF EntriesOK
<1>2. t \in TableRef /\ t.name = from.inner[v] /\ t.type = "base" /\ t.raw = MaxRefs + v
  <2>1. MaxRefs + v \in 1..2 * MaxRefs
    BY <1>0
  <2>2. from.inner[v] \in 1..MaxRefs + 1
    <3>1. from.inner[v] \in {1, MaxRefs + 1}
      BY DEF ClauseOK, InnerNames
    <3> QED BY <1>0, <3>1
  <2>3. Table(from.inner[v], "base", MaxRefs + v) \in TableRef
    BY <2>1, <2>2, NewEntry
  <2>4. t.name = from.inner[v] /\ t.type = "base" /\ t.raw = MaxRefs + v
    BY DEF Table
  <2> QED BY <2>3, <2>4
<1>3. us \in Seq(TableRef) /\ DOMAIN us = 1..L + 1 /\ us[L + 1] = t /\ \A k \in 1..L : us[k] = ts[k]
  BY <1>1, <1>2, Pushed DEF EntriesOK
<1>4. DOMAIN us = 1..L + 1 /\ us[L + 1] = t
  BY <1>3
<1>5. \A k \in 1..L : us[k] = ts[k]
  BY <1>3
<1>6. IsInner(t) /\ Src(t) = v /\ v \in Registering
  <2>1. v \in Refs
    BY RefsOfClause
  <2> QED BY <1>0, <1>2, <2>1 DEF IsInner, Src, Registering
<1>7. \A k \in 1..L : EntryOK(ts, k, v) /\ Src(ts[k]) \in 1..v
  BY <1>1 DEF EntriesOK, EntryOK
<1>8. \A k \in 1..L + 1 : k = L + 1 \/ k \in 1..L
  OBVIOUS
<1>9. ASSUME NEW k \in 1..L + 1 PROVE EntryOK(us, k, v)
  <2>1. CASE k = L + 1
    <3>1. us[L].raw = v /\ L + 1 > 1 /\ L + 1 - 1 = L
      BY <1>1, <1>5
    <3> QED BY <1>0, <1>2, <1>4, <1>6, <2>1, <3>1 DEF EntryOK
  <2>2. CASE k \in 1..L
    <3>1. k > 1 => k - 1 \in 1..L
      BY <2>2
    <3>2. us[k] = ts[k] /\ (k > 1 => us[k - 1] = ts[k - 1])
      BY <1>5, <2>2, <3>1
    <3>3. EntryOK(ts, k, v)
      BY <1>7, <2>2
    <3> QED BY <3>2, <3>3 DEF EntryOK
  <2> QED BY <1>8, <2>1, <2>2
<1>10. InSourceOrder(us)
  <2> SUFFICES ASSUME NEW k \in 1..L, NEW l \in 1..L + 1, k < l
               PROVE  Src(us[k]) <= Src(us[l]) /\ (~IsInner(us[l]) => Src(us[k]) < Src(us[l]))
    BY <1>4, <1>8 DEF InSourceOrder
  <2>1. CASE l = L + 1
    BY <1>0, <1>4, <1>5, <1>6, <1>7, <2>1
  <2>2. CASE l \in 1..L
    BY <1>1, <1>5, <2>2 DEF EntriesOK, InSourceOrder
  <2> QED BY <1>8, <2>1, <2>2
<1>11. EachEntered(us, v)
  <2> SUFFICES ASSUME NEW m \in Registering, m <= v PROVE \E k \in 1..L + 1 : us[k].raw = m
    BY <1>4 DEF EachEntered
  <2>1. PICK k \in 1..L : ts[k].raw = m
    BY <1>1 DEF EntriesOK, EachEntered
  <2>2. us[k] = ts[k]
    BY <1>5
  <2>3. k \in 1..L + 1
    OBVIOUS
  <2> QED BY <2>1, <2>2, <2>3
<1>12. InnerOnce(us)
  <2> SUFFICES ASSUME NEW k \in 1..L + 1, IsInner(us[k]), NEW l \in 1..k - 1
               PROVE  TableKey(us[l]) # TableKey(us[k])
    BY <1>4 DEF InnerOnce
  <2>1. l \in 1..L
    OBVIOUS
  <2>2. CASE k = L + 1
    BY <1>1, <1>4, <1>5, <2>1, <2>2
  <2>3. CASE k \in 1..L
    BY <1>1, <1>5, <2>1, <2>3 DEF InnerOnce
  <2> QED BY <1>8, <2>2, <2>3
<1> QED BY <1>3, <1>4, <1>9, <1>10, <1>11, <1>12 DEF EntriesOK

(* us is ts with entries of reference b after it. *)
Grown(ts, us, b) ==
  /\ Len(ts) <= Len(us)
  /\ \A k \in DOMAIN ts : k \in DOMAIN us /\ us[k] = ts[k]
  /\ \A k \in DOMAIN us : k \in DOMAIN ts \/ (Src(us[k]) = b /\ HasMeta(us[k], Unjoined))

LEMMA UnjoinedEntry ==
  ASSUME NEW n \in 1..MaxRefs, NEW b \in 1..n, NEW name, NEW type, NEW raw \in {b, MaxRefs + b},
         NEW t, t = Table(name, type, raw)
  PROVE  t.name = name /\ t.type = type /\ t.raw = raw /\ Src(t) = b /\ HasMeta(t, Unjoined)
<1>0. MaxRefs \in Nat /\ b \in 1..MaxRefs /\ b \in Nat
  BY WalkTypes
<1>1. t.name = name /\ t.type = type /\ t.raw = raw /\ t.joinType = "" /\ t.joinCondition = 0
  BY DEF Table
<1>2. HasMeta(t, Unjoined)
  BY <1>1 DEF HasMeta, Unjoined
<1>3. CASE raw = b
  <2>1. ~(b > MaxRefs)
    BY <1>0
  <2>2. ~IsInner(t)
    BY <1>1, <1>3, <2>1 DEF IsInner
  <2> QED BY <1>1, <1>2, <1>3, <2>2 DEF Src
<1>4. CASE raw = MaxRefs + b
  <2>1. MaxRefs + b > MaxRefs /\ (MaxRefs + b) - MaxRefs = b
    BY <1>0
  <2>2. IsInner(t)
    BY <1>1, <1>4, <2>1 DEF IsInner
  <2>3. Src(t) = b
    BY <1>1, <1>4, <2>1, <2>2 DEF Src
  <2> QED BY <1>1, <1>2, <2>3
<1> QED BY <1>3, <1>4

LEMMA GrownByOne ==
  ASSUME NEW ts, Len(ts) \in Nat, DOMAIN ts = 1..Len(ts), NEW b, NEW t, Src(t) = b, HasMeta(t, Unjoined),
         NEW us, us = Append(ts, t), ts \in Seq(TableRef)
  PROVE  Grown(ts, us, b) /\ Len(us) = Len(ts) + 1 /\ DOMAIN us = 1..Len(ts) + 1 /\ us[Len(ts) + 1] = t
<1>1. PICK L \in Nat : L = Len(ts) /\ DOMAIN ts = 1..L
  OBVIOUS
<1>2. Len(us) = L + 1 /\ DOMAIN us = 1..L + 1 /\ us[L + 1] = t
  BY <1>1
<1>3. \A k \in 1..L : us[k] = ts[k]
  BY <1>1
<1>4. \A k \in 1..L + 1 : k = L + 1 \/ k \in 1..L
  OBVIOUS
<1>5. \A k \in DOMAIN ts : k \in DOMAIN us /\ us[k] = ts[k]
  BY <1>1, <1>2, <1>3
<1>6. \A k \in DOMAIN us : k \in DOMAIN ts \/ (Src(us[k]) = b /\ HasMeta(us[k], Unjoined))
  <2> SUFFICES ASSUME NEW k \in 1..L + 1, k \notin 1..L PROVE Src(us[k]) = b /\ HasMeta(us[k], Unjoined)
    BY <1>1, <1>2
  <2>1. us[k] = t
    BY <1>2, <1>4
  <2> QED BY <2>1
<1>7. Len(ts) <= Len(us)
  BY <1>1, <1>2
<1>8. Grown(ts, us, b)
  BY <1>5, <1>6, <1>7, Zenon DEF Grown
<1> QED BY <1>1, <1>2, <1>8

LEMMA SubqueryTables ==
  ASSUME NEW n \in 1..MaxRefs, ClauseOK(n), NEW b \in 1..n, NEW ts, EntriesOK(ts, b), InnerOnce(ts),
         from.kind[b] = "subquery", ts # << >>, ts[Len(ts)].raw = b,
         NEW t, t = Table(from.inner[b], "base", MaxRefs + b), NEW us, us = AppendSetOpTables(ts, t)
  PROVE  /\ EntriesOK(us, b) /\ InnerOnce(us) /\ Grown(ts, us, b)
         /\ \E l \in DOMAIN us : TableKey(us[l]) = <<from.inner[b], "base">>
         /\ \A k \in DOMAIN us : us[k].type = "subquery" => k \in DOMAIN ts
<1>0. MaxRefs \in Nat /\ n \in Nat /\ n <= MaxRefs /\ b \in Nat
  BY WalkTypes
<1>1. PICK L \in Nat : L = Len(ts) /\ DOMAIN ts = 1..L
  BY DEF EntriesOK
<1>2. t.name = from.inner[b] /\ t.type = "base" /\ t.raw = MaxRefs + b /\ t.joinType = "" /\ t.joinCondition = 0
  BY DEF Table
<1>3. TableKey(t) = <<from.inner[b], "base">>
  BY <1>2 DEF TableKey
<1>4. CASE \E k \in DOMAIN ts : TableKey(ts[k]) = TableKey(t)
  <2>1. us = ts
    BY <1>4 DEF AppendSetOpTables
  <2>2. Grown(ts, us, b)
    BY <1>1, <2>1 DEF Grown
  <2> QED BY <1>3, <1>4, <2>1, <2>2
<1>5. CASE \A k \in DOMAIN ts : TableKey(ts[k]) # TableKey(t)
  <2>1. us = Append(ts, t)
    BY <1>5 DEF AppendSetOpTables
  <2>2. EntriesOK(us, b) /\ InnerOnce(us)
    BY <1>5, <2>1, InnerAppended
  <2>3. ts \in Seq(TableRef)
    BY DEF EntriesOK
  <2>4. DOMAIN us = 1..L + 1 /\ Len(us) = L + 1 /\ us[L + 1] = t /\ \A k \in 1..L : us[k] = ts[k]
    BY <1>1, <2>1, <2>3
  <2>5. Src(t) = b /\ HasMeta(t, Unjoined)
    BY UnjoinedEntry
  <2>6. \A k \in 1..L + 1 : k = L + 1 \/ k \in 1..L
    OBVIOUS
  <2>7. Grown(ts, us, b)
    BY <1>1, <2>1, <2>3, <2>5, GrownByOne
  <2>8. L + 1 \in DOMAIN us /\ TableKey(us[L + 1]) = <<from.inner[b], "base">>
    BY <1>3, <2>4
  <2>9. \A k \in DOMAIN us : us[k].type = "subquery" => k \in DOMAIN ts
    <3>1. us[L + 1].type # "subquery"
      BY <1>2, <2>4
    <3> QED BY <1>1, <2>4, <2>6, <3>1
  <2> QED BY <2>2, <2>7, <2>8, <2>9
<1> QED BY <1>4, <1>5

(* What the four branches leave: the entries of 1..b, those from before unchanged. *)
LEMMA RegisterTables ==
  ASSUME NEW n \in 1..MaxRefs, ClauseOK(n), NEW b \in 1..n, Top.node = b,
         EntriesOK(tables, b - 1), KeysOK(tables),
         RegisterRelation \/ RegisterFunction \/ RegisterSubquery \/ RegisterNothing
  PROVE  EntriesOK(tables', b) /\ KeysOK(tables') /\ Grown(tables, tables', b)
<1>0. MaxRefs \in Nat /\ n \in Nat /\ n <= MaxRefs /\ b \in Nat /\ b - 1 \in 0..n - 1 /\ b - 1 + 1 = b
  BY WalkTypes
<1>1. tables \in Seq(TableRef)
  BY DEF EntriesOK
<1>2. PICK L \in Nat : L = Len(tables) /\ DOMAIN tables = 1..L
  BY <1>1
<1>3. b \in Refs
  BY RefsOfClause
<1>4. ASSUME NEW us, us = Append(tables, Table(b, TypeOfRef(b), b)), b \in Registering
      PROVE  /\ EntriesOK(us, b) /\ InnerOnce(us) /\ Grown(tables, us, b) /\ DOMAIN us = 1..L + 1
             /\ us # << >> /\ us[L + 1].raw = b /\ us[L + 1].type = TypeOfRef(b) /\ L + 1 = Len(us)
             /\ \A k \in 1..L : ReadByOuter(us, k)
  <2>1. EntriesOK(us, b) /\ InnerOnce(us)
    BY <1>0, <1>4, OwnAppended DEF KeysOK
  <2>2. /\ Grown(tables, us, b) /\ us # << >> /\ us[L + 1].raw = b
        /\ Len(us) = L + 1 /\ us[L + 1].type = TypeOfRef(b)
    <3>1. PICK t : t = Table(b, TypeOfRef(b), b)
      OBVIOUS
    <3>2. t.type = TypeOfRef(b) /\ t.raw = b /\ Src(t) = b /\ HasMeta(t, Unjoined)
      BY <3>1, UnjoinedEntry
    <3>3. us = Append(tables, t)
      BY <1>4, <3>1
    <3>4. Grown(tables, us, b) /\ Len(us) = L + 1 /\ us[L + 1] = t
      BY <1>1, <1>2, <3>2, <3>3, GrownByOne
    <3>5. us # << >>
      BY <1>2, <3>4
    <3> QED BY <3>2, <3>4, <3>5
  <2>3. ASSUME NEW k \in 1..L, us[k].type = "subquery"
        PROVE  \E l \in DOMAIN us : TableKey(us[l]) = <<from.inner[us[k].raw], "base">>
    <3>1. us[k] = tables[k]
      BY <1>2, <2>2 DEF Grown
    <3>2. PICK l \in DOMAIN tables : TableKey(tables[l]) = <<from.inner[us[k].raw], "base">>
      BY <1>2, <2>3, <3>1 DEF KeysOK, ReadByOuter
    <3>3. l \in DOMAIN us /\ us[l] = tables[l]
      BY <2>2 DEF Grown
    <3> QED BY <3>2, <3>3
  <2>4. DOMAIN us = 1..L + 1
    BY <2>1, <2>2 DEF EntriesOK
  <2> QED BY <2>1, <2>2, <2>3, <2>4 DEF ReadByOuter
<1>5. \A k \in 1..L + 1 : k = L + 1 \/ k \in 1..L
  OBVIOUS
<1>6. CASE RegisterRelation \/ RegisterFunction
  <2>1. /\ b \in Registering /\ tables' = Append(tables, Table(b, TypeOfRef(b), b))
        /\ TypeOfRef(b) # "subquery"
    BY <1>3, <1>6 DEF RegisterRelation, RegisterFunction, Registering, TypeOfRef
  <2>2. ReadByOuter(tables', L + 1)
    BY <1>4, <2>1 DEF ReadByOuter
  <2> QED BY <1>4, <1>5, <2>1, <2>2 DEF KeysOK
<1>7. CASE RegisterSubquery
  <2>1. from.kind[b] = "subquery" /\ b \in Registering /\ TypeOfRef(b) = "subquery"
    BY <1>3, <1>7 DEF RegisterSubquery, Registering, TypeOfRef
  <2>2. PICK ts : ts = Append(tables, Table(b, TypeOfRef(b), b))
    OBVIOUS
  <2>3. PICK t : t = Table(from.inner[b], "base", MaxRefs + b)
    OBVIOUS
  <2>4. tables' = AppendSetOpTables(ts, t)
    BY <1>7, <2>1, <2>2, <2>3 DEF RegisterSubquery
  <2>5. /\ EntriesOK(ts, b) /\ InnerOnce(ts) /\ Grown(tables, ts, b) /\ DOMAIN ts = 1..L + 1
        /\ ts # << >> /\ ts[L + 1].raw = b /\ L + 1 = Len(ts)
        /\ \A k \in 1..L : ReadByOuter(ts, k)
    BY <1>4, <2>1, <2>2
  <2>6. /\ EntriesOK(tables', b) /\ InnerOnce(tables') /\ Grown(ts, tables', b)
        /\ \E l \in DOMAIN tables' : TableKey(tables'[l]) = <<from.inner[b], "base">>
        /\ \A k \in DOMAIN tables' : tables'[k].type = "subquery" => k \in DOMAIN ts
    <3>1. ts[Len(ts)].raw = b
      BY <2>5
    <3>2. EntriesOK(ts, b) /\ InnerOnce(ts) /\ ts # << >>
      BY <2>5
    <3> QED BY <2>1, <2>3, <2>4, <3>1, <3>2, SubqueryTables
  <2>7. Grown(tables, tables', b)
    <3>1. Len(tables) \in Nat /\ Len(ts) \in Nat /\ Len(tables') \in Nat
      BY <2>5, <2>6 DEF EntriesOK
    <3> QED BY <2>5, <2>6, <3>1 DEF Grown
  <2>8. ASSUME NEW k \in DOMAIN tables' PROVE ReadByOuter(tables', k)
    <3>1. CASE k = L + 1
      <4>1. tables'[k].raw = b
        BY <2>5, <2>6, <3>1 DEF Grown
      <4> QED BY <2>6, <4>1 DEF ReadByOuter
    <3>2. CASE k \in 1..L
      <4> SUFFICES ASSUME tables'[k].type = "subquery"
                   PROVE  \E l \in DOMAIN tables' : TableKey(tables'[l]) = <<from.inner[tables'[k].raw], "base">>
        BY DEF ReadByOuter
      <4>1. tables'[k] = ts[k]
        BY <1>5, <2>5, <2>6, <3>2 DEF Grown
      <4>2. PICK l \in DOMAIN ts : TableKey(ts[l]) = <<from.inner[ts[k].raw], "base">>
        BY <2>5, <3>2, <4>1 DEF ReadByOuter
      <4>3. l \in DOMAIN tables' /\ tables'[l] = ts[l]
        BY <2>6 DEF Grown
      <4> QED BY <4>1, <4>2, <4>3
    <3>3. CASE k \notin 1..L + 1
      BY <2>5, <2>6, <3>3 DEF ReadByOuter
    <3> QED BY <1>5, <3>1, <3>2, <3>3
  <2> QED BY <2>6, <2>7, <2>8 DEF KeysOK
<1>8. CASE RegisterNothing
  <2>1. b \notin Registering /\ tables' = tables
    BY <1>8 DEF RegisterNothing, Registering, results
  <2>2. EachEntered(tables, b)
    <3> SUFFICES ASSUME NEW m \in Registering, m <= b PROVE \E k \in DOMAIN tables : tables[k].raw = m
      BY DEF EachEntered
    <3>1. m \in Int /\ m # b
      BY <2>1, TypesOfRefs
    <3>2. m <= b - 1
      BY <1>0, <3>1
    <3> QED BY <3>2 DEF EntriesOK, EachEntered
  <2>3. \A k \in DOMAIN tables : EntryOK(tables, k, b)
    <3>1. \A x \in 1..b - 1 : x \in 1..b
      BY <1>0
    <3> QED BY <3>1 DEF EntriesOK, EntryOK
  <2>4. Grown(tables, tables', b)
    BY <1>2, <2>1 DEF Grown
  <2> QED BY <2>1, <2>2, <2>3, <2>4 DEF EntriesOK
<1> QED BY <1>6, <1>7, <1>8

SameRefs(ts, us) ==
  /\ Len(us) = Len(ts)
  /\ \A k \in DOMAIN ts : us[k].raw = ts[k].raw /\ us[k].name = ts[k].name /\ us[k].type = ts[k].type

(* What the proofs above say of a list of tables, they say of its references. *)
LEMMA SameRefsKept ==
  ASSUME NEW v, NEW ts, EntriesOK(ts, v), KeysOK(ts), NEW us, us \in Seq(TableRef), SameRefs(ts, us)
  PROVE  EntriesOK(us, v) /\ KeysOK(us) /\ \A k \in DOMAIN ts : Src(us[k]) = Src(ts[k])
<1>1. ts \in Seq(TableRef) /\ InSourceOrder(ts) /\ EachEntered(ts, v) /\ \A k \in DOMAIN ts : EntryOK(ts, k, v)
  BY DEF EntriesOK
<1>2. PICK L \in Nat : L = Len(ts) /\ DOMAIN ts = 1..L /\ Len(us) = L /\ DOMAIN us = 1..L
  BY <1>1 DEF SameRefs
<1>3. DOMAIN ts = 1..L /\ DOMAIN us = 1..L
  BY <1>2
<1>4. \A k \in 1..L : us[k].raw = ts[k].raw /\ us[k].name = ts[k].name /\ us[k].type = ts[k].type
  BY <1>3 DEF SameRefs
<1>5. \A k \in 1..L : Src(us[k]) = Src(ts[k]) /\ (IsInner(us[k]) <=> IsInner(ts[k]))
  BY <1>4 DEF Src, IsInner
<1>6. \A k \in 1..L : TableKey(us[k]) = TableKey(ts[k])
  BY <1>4 DEF TableKey
<1>7. ASSUME NEW k \in 1..L PROVE EntryOK(us, k, v)
  <2>1. EntryOK(ts, k, v)
    BY <1>1, <1>3
  <2>2. k > 1 => k - 1 \in 1..L
    OBVIOUS
  <2> QED BY <1>4, <1>5, <2>1, <2>2 DEF EntryOK
<1>8. InSourceOrder(us)
  BY <1>1, <1>3, <1>5 DEF InSourceOrder
<1>9. EachEntered(us, v)
  BY <1>1, <1>3, <1>4 DEF EachEntered
<1>10. InnerOnce(us)
  <2> SUFFICES ASSUME NEW k \in 1..L, IsInner(us[k]), NEW l \in 1..k - 1 PROVE TableKey(us[l]) # TableKey(us[k])
    BY <1>3 DEF InnerOnce
  <2>1. l \in 1..L /\ IsInner(ts[k])
    BY <1>5
  <2>2. TableKey(ts[l]) # TableKey(ts[k])
    BY <1>3, <2>1 DEF KeysOK, InnerOnce
  <2> QED BY <1>6, <2>1, <2>2
<1>11. \A k \in DOMAIN us : ReadByOuter(us, k)
  <2> SUFFICES ASSUME NEW k \in 1..L, us[k].type = "subquery"
               PROVE  \E l \in 1..L : TableKey(us[l]) = <<from.inner[us[k].raw], "base">>
    BY <1>3 DEF ReadByOuter
  <2>1. ReadByOuter(ts, k)
    BY <1>3 DEF KeysOK
  <2>2. PICK l \in 1..L : TableKey(ts[l]) = <<from.inner[us[k].raw], "base">>
    BY <1>3, <1>4, <2>1 DEF ReadByOuter
  <2> QED BY <1>6, <2>2
<1> QED BY <1>3, <1>5, <1>7, <1>8, <1>9, <1>10, <1>11 DEF EntriesOK, KeysOK

LEMMA JoinMetaTypes ==
  ASSUME NEW n \in 1..MaxRefs, ClauseOK(n), NEW m \in 1..n
  PROVE  /\ JoinMeta(m).type \in {"", "JOIN", "LEFT", "CROSS", "NATURAL", "NATURAL LEFT"}
         /\ JoinMeta(m).condition \in 0..MaxRefs
<1>1. MaxRefs \in Nat /\ n \in Nat /\ n <= MaxRefs
  BY WalkTypes
<1>2. from.join[m] \in Join
  BY DEF ClauseOK
<1>3. m \in 0..MaxRefs /\ 0 \in 0..MaxRefs
  BY <1>1
<1>4. CASE InParens(from, m)
  BY <1>3, <1>4 DEF JoinMeta
<1>5. CASE ~InParens(from, m)
  BY <1>2, <1>3, <1>5 DEF JoinMeta, Join
<1> QED BY <1>4, <1>5

(* What a call leaves of the tables: all but the join of one of them. *)
LEMMA AfterNestedKeeps ==
  ASSUME NEW n \in 1..MaxRefs, ClauseOK(n), NEW ts, ts \in Seq(TableRef), NEW caller, caller.child \in 1..n,
         caller.before \in 0..Len(ts), NEW us, us = AfterNested(caller, ts)
  PROVE  /\ us \in Seq(TableRef) /\ SameRefs(ts, us)
         /\ \A k \in DOMAIN ts : k # caller.before + 1 => us[k] = ts[k]
         /\ caller.before + 1 \in DOMAIN ts => HasMeta(us[caller.before + 1], JoinMeta(caller.child))
<1>1. PICK L \in Nat : L = Len(ts) /\ DOMAIN ts = 1..L
  OBVIOUS
<1>2. PICK at \in Nat : at = caller.before + 1 /\ at # 0
  BY <1>1
<1>3. CASE at > L
  BY <1>1, <1>2, <1>3 DEF AfterNested, SameRefs
<1>4. CASE at \in 1..L
  <2>1. PICK t \in TableRef : t = ts[at]
    BY <1>1, <1>4
  <2>2. PICK type, cond : type = JoinMeta(caller.child).type /\ cond = JoinMeta(caller.child).condition
    OBVIOUS
  <2>3. PICK u : u = [t EXCEPT !.joinType = type, !.joinCondition = cond]
    OBVIOUS
  <2>4. /\ type \in {"", "JOIN", "LEFT", "CROSS", "NATURAL", "NATURAL LEFT"}
        /\ cond \in 0..MaxRefs
    BY <2>2, JoinMetaTypes
  <2>5. u \in TableRef
    BY <2>1, <2>3, <2>4 DEF TableRef
  <2>6. u.raw = t.raw /\ u.name = t.name /\ u.type = t.type /\ u.joinType = type /\ u.joinCondition = cond
    BY <2>1, <2>3 DEF TableRef
  <2>7. us = [ts EXCEPT ![at] = u]
    <3>1. us = [ts EXCEPT ![at].joinType = type, ![at].joinCondition = cond]
      BY <1>1, <1>2, <1>4, <2>2 DEF AfterNested
    <3> QED BY <2>1, <2>3, <3>1
  <2>8. us \in Seq(TableRef) /\ Len(us) = L /\ us[at] = u
    BY <1>1, <1>4, <2>5, <2>7
  <2>9. \A k \in 1..L : k # at => us[k] = ts[k]
    BY <1>1, <2>7
  <2>10. SameRefs(ts, us)
    BY <1>1, <2>1, <2>6, <2>8, <2>9 DEF SameRefs
  <2>11. HasMeta(us[at], JoinMeta(caller.child))
    BY <2>2, <2>6, <2>8 DEF HasMeta
  <2> QED BY <1>1, <1>2, <2>8, <2>9, <2>10, <2>11
<1> QED BY <1>1, <1>2, <1>3, <1>4

-------------------------------------------------------------------------------
(* The joins of the entries.                                               *)

LEMMA ParentOnStack ==
  ASSUME NEW n \in 1..MaxRefs, NEW b \in 0..n, StackOK(n, b), NEW x \in OnStack
  PROVE  x \in 1..b /\ (from.parent[x] = 0 \/ from.parent[x] \in OnStack)
<1>1. DOMAIN frames = 1..Len(frames) /\ Len(frames) \in Nat
  BY DEF StackOK
<1>2. PICK i \in DOMAIN frames : x = frames[i].node /\ FrameOK(i, n, b)
  BY DEF OnStack, StackOK
<1>3. i # 1 => i - 1 \in DOMAIN frames
  BY <1>1
<1>4. x \in 1..b /\ from.parent[x] = IF i = 1 THEN 0 ELSE frames[i - 1].node
  BY <1>2 DEF FrameOK
<1> QED BY <1>3, <1>4 DEF OnStack

(* A call on what a reference begins lies in the call on that reference. *)
LEMMA ChainOnStack ==
  ASSUME NEW n \in 1..MaxRefs, NEW b \in 0..n, ClauseOK(n), StackOK(n, b), NEW x \in OnStack, NEW m \in Chain(x)
  PROVE  m \in OnStack
<1> SUFFICES ASSUME m \notin OnStack PROVE FALSE
  OBVIOUS
<1>0. n \in Nat /\ b \in Nat /\ b <= n /\ x \in 1..b
  BY WalkTypes, ParentOnStack
<1>1. m \in 1..x /\ \A k \in m + 1..x : InParens(from, k)
  BY DEF Chain
<1>2. PICK S \in SUBSET (1..n) : S = {y \in m..x : y \notin OnStack}
  <2>1. \A y \in m..x : y \in 1..n
    BY <1>0, <1>1
  <2> QED BY <2>1
<1>3. m \in S
  BY <1>1, <1>2
<1>4. PICK y \in S : \A z \in S : y >= z
  BY <1>0, <1>3, MaxOfIndices
<1>5. y \in m..x /\ y \notin OnStack /\ y # x
  BY <1>2, <1>4
<1>6. y + 1 \in m + 1..x
  BY <1>0, <1>1, <1>5
<1>7. y + 1 \in OnStack
  BY <1>0, <1>1, <1>2, <1>4, <1>5, <1>6
<1>8. from.parent[y + 1] # 0 /\ y + 1 = from.parent[y + 1] + 1
  BY <1>1, <1>6 DEF InParens
<1>9. from.parent[y + 1] \in OnStack
  BY <1>7, <1>8, ParentOnStack
<1>10. from.parent[y + 1] \in Int /\ y \in Int
  <2>1. y + 1 \in 1..n
    BY <1>0, <1>6, <1>1
  <2> QED BY <1>5, <2>1, RefsOfClause
<1> QED BY <1>5, <1>8, <1>9, <1>10

LEMMA ChainFacts ==
  ASSUME NEW n \in 1..MaxRefs, NEW r \in 1..n, NEW m \in Chain(r)
  PROVE  /\ m \in 1..r
         /\ \A x \in m..r : x \in Chain(r) /\ m \in Chain(x)
         /\ m - 1 \in Chain(r) <=> m - 1 \in 1..r /\ InParens(from, m)
<1>0. n \in Nat /\ r \in Nat
  BY WalkTypes
<1>1. m \in 1..r /\ \A k \in m + 1..r : InParens(from, k)
  BY DEF Chain
<1>2. ASSUME NEW x \in m..r PROVE x \in Chain(r) /\ m \in Chain(x)
  <2>1. x \in 1..r /\ m \in 1..x
    BY <1>0, <1>1
  <2>2. \A k \in x + 1..r : k \in m + 1..r
    BY <1>0, <1>1
  <2>3. \A k \in m + 1..x : k \in m + 1..r
    BY <1>0, <1>1
  <2> QED BY <1>1, <2>1, <2>2, <2>3 DEF Chain
<1>3. ASSUME m - 1 \in 1..r PROVE m - 1 \in Chain(r) <=> InParens(from, m)
  <2>1. \A k \in m - 1 + 1..r : k = m \/ k \in m + 1..r
    BY <1>0, <1>1
  <2>2. m \in m - 1 + 1..r
    BY <1>0, <1>1
  <2> QED BY <1>1, <1>3, <2>1, <2>2 DEF Chain
<1>4. m - 1 \in Chain(r) => m - 1 \in 1..r
  BY DEF Chain
<1> QED BY <1>1, <1>2, <1>3, <1>4

(* Steps that leave the tables alone, and the calls on what began before. *)
LEMMA JoinsKept ==
  ASSUME NEW n \in 1..MaxRefs, NEW b \in 0..n, from' = from, tables' = tables,
         \A k \in DOMAIN tables : Src(tables[k]) \in 1..b,
         \A x \in 1..b : x \in OnStack' <=> x \in OnStack, JoinsOK
  PROVE  JoinsOK'
<1>0. n \in Nat /\ b \in Nat
  BY WalkTypes
<1> SUFFICES ASSUME NoXmltable', NEW k \in DOMAIN tables, NEW t, t = tables[k]
             PROVE  EntryJoined(t)'
  BY DEF JoinsOK
<1>1. t = tables[k]
  OBVIOUS
<1>2. NoXmltable
  BY DEF NoXmltable, Refs
<1>3. ~IsInner(t) => t.raw \in 1..b
  BY <1>1 DEF Src
<1>4. /\ IsInner(t) \/ t.raw \in OnStack => HasMeta(t, Unjoined)
      /\ ~IsInner(t) => \A m \in 1..t.raw : OutermostReturned(m, t.raw) => HasMeta(t, Meta(m))
  BY <1>1, <1>2 DEF JoinsOK, EntryJoined
<1>5. IsInner(t) \/ t.raw \in OnStack' => HasMeta(t, Unjoined)
  BY <1>3, <1>4
<1>6. ASSUME ~IsInner(t), NEW m \in 1..t.raw, OutermostReturned(m, t.raw)' PROVE HasMeta(t, Meta(m)')
  <2>1. PICK r \in 1..b : r = t.raw
    BY <1>3, <1>6
  <2>2. m \in 1..b
    BY <1>0, <1>6, <2>1
  <2>3. m - 1 \in Chain(r) => m - 1 \in 1..b
    BY <1>0, <2>1 DEF Chain
  <2>4. OutermostReturned(m, r)
    BY <1>6, <2>1, <2>2, <2>3 DEF OutermostReturned, Chain
  <2>5. Meta(m)' = Meta(m)
    BY DEF Meta, JoinMeta
  <2> QED BY <1>4, <1>6, <2>1, <2>4, <2>5
<1> QED BY <1>5, <1>6 DEF EntryJoined, IsInner

(* A branch adds entries of the innermost call, and no join. *)
LEMMA RegisterJoins ==
  ASSUME NEW n \in 1..MaxRefs, NEW b \in 1..n, ClauseOK(n), StackOK(n, b), from' = from, OnStack' = OnStack,
         b \in OnStack, Grown(tables, tables', b), JoinsOK
  PROVE  JoinsOK'
<1>0. n \in Nat /\ b \in Nat
  BY WalkTypes
<1> SUFFICES ASSUME NoXmltable', NEW k \in DOMAIN tables', NEW t, t = tables'[k]
             PROVE  EntryJoined(t)'
  BY DEF JoinsOK
<1>1. t = tables'[k]
  OBVIOUS
<1>2. NoXmltable
  BY DEF NoXmltable, Refs
<1>3. ASSUME NEW m, NEW r, OutermostReturned(m, r)' PROVE OutermostReturned(m, r) /\ Meta(m)' = Meta(m)
  BY <1>3 DEF OutermostReturned, Chain, Meta, JoinMeta
<1>4. CASE k \in DOMAIN tables
  <2>1. t = tables[k]
    BY <1>1, <1>4 DEF Grown
  <2>2. /\ IsInner(t) \/ t.raw \in OnStack => HasMeta(t, Unjoined)
        /\ ~IsInner(t) => \A m \in 1..t.raw : OutermostReturned(m, t.raw) => HasMeta(t, Meta(m))
    BY <1>2, <1>4, <2>1 DEF JoinsOK, EntryJoined
  <2> QED BY <1>3, <2>2 DEF EntryJoined, IsInner
<1>5. CASE k \notin DOMAIN tables
  <2>1. Src(t) = b /\ HasMeta(t, Unjoined)
    BY <1>1, <1>5 DEF Grown
  <2>2. ASSUME ~IsInner(t), NEW m \in 1..t.raw, OutermostReturned(m, t.raw)' PROVE FALSE
    <3>1. t.raw = b
      BY <2>1, <2>2 DEF Src
    <3>2. m \in Chain(b) /\ m \notin OnStack
      BY <1>3, <2>2, <3>1 DEF OutermostReturned
    <3> QED BY <3>2, ChainOnStack
  <2> QED BY <2>1, <2>2 DEF EntryJoined, IsInner
<1> QED BY <1>4, <1>5

(* The references an innermost call begins, until it returns: down the     *)
(* parentheses to the first that has an entry.                             *)
LEMMA FirstInside ==
  ASSUME NEW n \in 1..MaxRefs, NEW b \in 0..n, ClauseOK(n), VisitOrder(n, b), NoXmltable, NEW p \in 1..b,
         \A x \in OnStack : x <= p, \A x \in 1..n : from.parent[x] = p => x <= b
  PROVE  \E r \in p..b : /\ p \in Chain(r) /\ r \in Registering
                         /\ \A q \in p..n : q \in Registering => r <= q
                         /\ \A q \in 1..n : q \in Registering /\ p \in Chain(q) => q = r
<1>0. n \in Nat /\ b \in Nat /\ b <= n /\ p \in Nat
  BY WalkTypes
<1>1. Refs = 1..n /\ \A m \in 1..n : from.kind[m] \in AllKinds
  BY RefsOfClause DEF ClauseOK
<1>2. \A m \in 1..n : m \in Registering <=> from.kind[m] # "paren"
  BY <1>1 DEF Registering, NoXmltable, AllKinds
<1>3. \A m \in 1..n : from.kind[m] = "paren" => m + 1 \in 1..n /\ from.parent[m + 1] = m
  <2>1. RefsIn(from) = 1..n /\ \A p0 : Nested(from, p0) = {m \in 1..n : from.parent[m] = p0}
    BY RefsOfClause
  <2>2. \A m \in RefsIn(from) : from.kind[m] = "paren" => m + 1 \in Nested(from, m)
    BY DEF ClauseOK, ParensFilled
  <2> QED BY <2>1, <2>2
<1>4. PICK r \in p..n : r \in Registering /\ \A q \in p..n : q \in Registering => r <= q
  <2>1. PICK S : S = {q \in p..n : q \in Registering}
    OBVIOUS
  <2>2. S \in SUBSET (1..n)
    BY <1>0, <2>1
  <2>3. n \in S
    BY <1>0, <1>2, <1>3, <2>1
  <2>4. PICK r : r \in S /\ \A q \in S : r <= q
    BY <1>0, <2>2, <2>3, MinOfIndices
  <2> QED BY <2>1, <2>4
<1>5. r \in 1..n /\ r \in Nat
  BY <1>0
<1>6. \A x \in p..r - 1 : x \in 1..n /\ from.kind[x] = "paren" /\ from.parent[x + 1] = x
  <2> SUFFICES ASSUME NEW x \in p..r - 1 PROVE x \in 1..n /\ from.kind[x] = "paren" /\ from.parent[x + 1] = x
    OBVIOUS
  <2>1. x \in 1..n /\ x \in p..n /\ ~(r <= x)
    BY <1>0, <1>5
  <2> QED BY <1>2, <1>3, <1>4, <2>1
<1>7. p \in Chain(r)
  <2> SUFFICES ASSUME NEW k \in p + 1..r PROVE InParens(from, k)
    BY <1>0, <1>4, <1>5 DEF Chain
  <2>1. k - 1 \in p..r - 1 /\ k - 1 + 1 = k /\ k - 1 # 0
    BY <1>0, <1>5
  <2>2. from.parent[k] = k - 1 /\ from.kind[k - 1] = "paren"
    BY <1>6, <2>1
  <2> QED BY <2>1, <2>2 DEF InParens
<1>8. r <= b
  <2> SUFFICES ASSUME b < r PROVE FALSE
    BY <1>0, <1>5
  <2>1. b \in p..r - 1 /\ b + 1 \in b + 1..n
    BY <1>0, <1>5
  <2>2. from.parent[b + 1] = b
    BY <1>6, <2>1
  <2>3. b \in OnStack
    BY <1>0, <2>1, <2>2 DEF VisitOrder
  <2>4. b = p
    BY <1>0, <2>3
  <2> QED BY <1>0, <2>1, <2>2, <2>4
<1>9. ASSUME NEW q \in 1..n, q \in Registering, p \in Chain(q) PROVE q = r
  <2>1. p \in 1..q /\ \A k \in p + 1..q : InParens(from, k)
    BY <1>9 DEF Chain
  <2>2. r <= q
    BY <1>0, <1>4, <1>9, <2>1
  <2>3. ASSUME r < q PROVE FALSE
    <3>1. r + 1 \in p + 1..q /\ r + 1 \in 1..n
      BY <1>0, <1>4, <1>5, <2>3
    <3>2. from.kind[from.parent[r + 1]] = "paren" /\ r + 1 = from.parent[r + 1] + 1
      BY <2>1, <3>1 DEF InParens
    <3>3. from.parent[r + 1] \in Int
      BY <3>1, RefsOfClause
    <3>4. from.parent[r + 1] = r
      BY <1>5, <3>2, <3>3
    <3> QED BY <1>2, <1>4, <1>5, <3>2, <3>4
  <2> QED BY <1>5, <2>2, <2>3
<1>10. r \in p..b
  BY <1>0, <1>4, <1>8
<1> QED BY <1>4, <1>7, <1>9, <1>10

(* The first entry of a call is that of the reference it begins. *)
LEMMA FirstOfCall ==
  ASSUME NEW n \in 1..MaxRefs, NEW b \in 0..n, ClauseOK(n), VisitOrder(n, b), NoXmltable, NEW p \in 1..b,
         \A x \in OnStack : x <= p, \A x \in 1..n : from.parent[x] = p => x <= b,
         EntriesOK(tables, b), NEW before \in 0..Len(tables),
         \A k \in DOMAIN tables : k <= before <=> Src(tables[k]) < p
  PROVE  /\ before + 1 \in DOMAIN tables /\ ~IsInner(tables[before + 1])
         /\ tables[before + 1].raw \in p..b /\ p \in Chain(tables[before + 1].raw)
         /\ \A k \in DOMAIN tables :
              ~IsInner(tables[k]) /\ p \in Chain(tables[k].raw) => k = before + 1
<1>0. n \in Nat /\ b \in Nat /\ b <= n /\ p \in Nat
  BY WalkTypes
<1>1. PICK r \in p..b :
        /\ p \in Chain(r) /\ r \in Registering
        /\ \A q \in p..n : q \in Registering => r <= q
        /\ \A q \in 1..n : q \in Registering /\ p \in Chain(q) => q = r
  BY FirstInside
<1>2. PICK L \in Nat : L = Len(tables) /\ DOMAIN tables = 1..L
  BY DEF EntriesOK
<1>3. DOMAIN tables = 1..L /\ before \in 0..L
  BY <1>2
<1>4. \A k \in 1..L : Src(tables[k]) \in 1..b /\ Src(tables[k]) \in Registering
  BY <1>3 DEF EntriesOK, EntryOK
<1>5. PICK k0 \in 1..L : tables[k0].raw = r
  BY <1>0, <1>1, <1>3 DEF EntriesOK, EachEntered
<1>6. ~IsInner(tables[k0]) /\ Src(tables[k0]) = r
  <2>1. MaxRefs \in Nat /\ r \in 1..n /\ n <= MaxRefs
    BY <1>0, <1>1, WalkTypes
  <2>2. ~(r > MaxRefs)
    BY <2>1
  <2> QED BY <1>5, <2>2 DEF IsInner, Src
<1>7. k0 > before
  BY <1>0, <1>1, <1>3, <1>5, <1>6
<1>8. before + 1 \in 1..L /\ before + 1 <= k0
  BY <1>3, <1>5, <1>7
<1>9. Src(tables[before + 1]) \in p..n
  <2>1. Src(tables[before + 1]) \in 1..b
    BY <1>4, <1>8
  <2>2. ~(before + 1 <= before) /\ before + 1 \in DOMAIN tables
    BY <1>3, <1>8
  <2>3. ~(Src(tables[before + 1]) < p)
    BY <2>2
  <2> QED BY <1>0, <2>1, <2>3
<1>10. before + 1 = k0
  <2> SUFFICES ASSUME before + 1 < k0 PROVE FALSE
    BY <1>3, <1>5, <1>8
  <2>1. Src(tables[before + 1]) < r
    BY <1>3, <1>5, <1>6, <1>8 DEF EntriesOK, InSourceOrder
  <2>2. r <= Src(tables[before + 1])
    BY <1>1, <1>4, <1>8, <1>9
  <2> QED BY <1>0, <1>1, <1>9, <2>1, <2>2
<1>11. ASSUME NEW k \in 1..L, ~IsInner(tables[k]), p \in Chain(tables[k].raw) PROVE k = k0
  <2>1. Src(tables[k]) = tables[k].raw
    BY <1>11 DEF Src
  <2>2. tables[k].raw \in 1..n /\ tables[k].raw \in Registering
    BY <1>0, <1>4, <2>1
  <2>3. tables[k].raw = r
    BY <1>1, <1>11, <2>2
  <2>4. ~(k < k0) /\ ~(k0 < k)
    BY <1>0, <1>1, <1>3, <1>5, <1>6, <1>11, <2>1, <2>3 DEF EntriesOK, InSourceOrder
  <2> QED BY <2>4
<1> QED BY <1>1, <1>3, <1>5, <1>6, <1>8, <1>10, <1>11

(* What a clause says of entries does not change while it is walked. *)
LEMMA ClauseKept ==
  ASSUME from' = from
  PROVE  /\ \A n : ClauseOK(n)' <=> ClauseOK(n)
         /\ \A ts, v : EntriesOK(ts, v)' <=> EntriesOK(ts, v)
         /\ \A ts : KeysOK(ts)' <=> KeysOK(ts)
<1>1. \A n : ClauseOK(n)' <=> ClauseOK(n)
  BY DEF ClauseOK
<1>2. Registering' = Registering
  BY DEF Registering, Refs
<1>3. ASSUME NEW ts, NEW k, NEW v PROVE EntryOK(ts, k, v)' <=> EntryOK(ts, k, v)
  <2>1. TypeOfRef(ts[k].raw)' = TypeOfRef(ts[k].raw)
    BY DEF TypeOfRef
  <2> QED BY <1>2, <2>1 DEF EntryOK, Src, IsInner
<1>4. \A ts, v : EntriesOK(ts, v)' <=> EntriesOK(ts, v)
  BY <1>2, <1>3, Zenon DEF EntriesOK, InSourceOrder, EachEntered, Src, IsInner
<1>5. \A ts : KeysOK(ts)' <=> KeysOK(ts)
  BY Zenon DEF KeysOK, InnerOnce, ReadByOuter, IsInner, TableKey
<1> QED BY <1>1, <1>4, <1>5

LEMMA UnjoinedInParens ==
  ASSUME NEW m, InParens(from, m)
  PROVE  Meta(m) = Unjoined
  BY DEF InParens, Meta, JoinMeta, Unjoined

LEMMA OutermostReturns ==
  ASSUME NEW n \in 1..MaxRefs, NEW b \in 0..n, ClauseOK(n), StackOK(n, b), from' = from, NEW p \in OnStack,
         OnStack' = OnStack \ {p}, \A x \in OnStack : x <= p,
         NEW r \in 1..n, NEW m \in 1..r, OutermostReturned(m, r)'
  PROVE  /\ m # p => OutermostReturned(m, r)
         /\ p \in Chain(r) => m = p
         /\ m \in Chain(r) /\ (m - 1 \in Chain(r) => m - 1 \in OnStack)
<1>0. n \in Nat /\ r \in Nat /\ m \in Nat /\ b \in Nat /\ b <= n
  BY WalkTypes
<1>1. Chain(r)' = Chain(r)
  BY DEF Chain
<1>2. m \in Chain(r) /\ m \notin OnStack' /\ (m - 1 \in Chain(r) => m - 1 \in OnStack')
  BY <1>1 DEF OutermostReturned
<1>3. m # p => OutermostReturned(m, r)
  BY <1>2 DEF OutermostReturned
<1>4. ASSUME p \in Chain(r), m # p PROVE FALSE
  <2>1. p \in 1..b /\ p \in Nat
    BY <1>0, ParentOnStack
  <2>2. CASE m < p
    <3>1. p \in 1..r
      BY <1>4 DEF Chain
    <3>2. p \in m..r
      BY <1>0, <2>1, <2>2, <3>1
    <3>3. m \in Chain(p)
      BY <1>2, <3>2, ChainFacts
    <3>4. m \in OnStack
      BY <3>3, ChainOnStack
    <3> QED BY <1>2, <1>4, <3>4
  <2>3. CASE p < m
    <3>1. m - 1 \in p..r
      BY <1>0, <2>1, <2>3
    <3>2. m - 1 \in Chain(r)
      BY <1>4, <3>1, ChainFacts
    <3>3. m - 1 \in OnStack /\ m - 1 # p
      BY <1>2, <3>2
    <3>4. m - 1 <= p
      BY <3>3
    <3> QED BY <1>0, <2>1, <2>3, <3>3, <3>4
  <2> QED BY <1>0, <1>4, <2>1, <2>2, <2>3
<1> QED BY <1>2, <1>3, <1>4

(* The last call on an item of the list: its first table keeps no join. *)
LEMMA ItemReturns ==
  ASSUME NEW n \in 1..MaxRefs, NEW b \in 0..n, ClauseOK(n), StackOK(n, b), from' = from, NEW p,
         OnStack = {p}, OnStack' = {}, from.parent[p] = 0, tables' = tables,
         \A k \in DOMAIN tables : Src(tables[k]) \in 1..b, JoinsOK
  PROVE  JoinsOK'
<1>0. n \in Nat /\ b \in Nat /\ b <= n
  BY WalkTypes
<1> SUFFICES ASSUME NoXmltable', NEW k \in DOMAIN tables, NEW t, t = tables[k]
             PROVE  EntryJoined(t)'
  BY DEF JoinsOK
<1>1. NoXmltable
  BY DEF NoXmltable, Refs
<1>2. EntryJoined(t)
  BY <1>1 DEF JoinsOK
<1>3. ~IsInner(t) => t.raw \in 1..n /\ t.raw \in 1..b
  BY <1>0 DEF Src
<1>4. p \in 1..b /\ p \in OnStack
  BY ParentOnStack
<1>5. ASSUME ~IsInner(t), NEW m \in 1..t.raw, OutermostReturned(m, t.raw)' PROVE HasMeta(t, Meta(m)')
  <2>1. PICK r \in 1..n : r = t.raw /\ r \in 1..b
    BY <1>3, <1>5
  <2>2. Meta(m)' = Meta(m)
    BY DEF Meta, JoinMeta
  <2>3. /\ m # p => OutermostReturned(m, r)
        /\ p \in Chain(r) => m = p
        /\ m \in Chain(r) /\ (m - 1 \in Chain(r) => m - 1 \in OnStack)
    BY <1>4, <1>5, <2>1, OutermostReturns
  <2>4. CASE m # p
    BY <1>2, <1>5, <2>1, <2>2, <2>3, <2>4 DEF EntryJoined
  <2>5. CASE m = p
    <3>1. Meta(m) = Unjoined
      BY <2>5 DEF Meta
    <3>2. CASE r = p
      BY <1>2, <1>4, <2>1, <2>2, <3>1, <3>2 DEF EntryJoined
    <3>3. CASE r # p
      <4>1. p \in 1..r /\ p + 1 \in p..r /\ p + 1 \in 1..r /\ p + 1 # p /\ p + 1 - 1 = p
        BY <1>0, <1>4, <1>5, <2>1, <2>5, <3>3
      <4>2. p + 1 \in Chain(r) /\ p \in Chain(r)
        BY <2>3, <2>5, <4>1, ChainFacts
      <4>3. InParens(from, p + 1)
        BY <2>3, <2>5, <4>1 DEF Chain
      <4>4. OutermostReturned(p + 1, r)
        BY <4>1, <4>2 DEF OutermostReturned
      <4>5. HasMeta(t, Meta(p + 1))
        BY <1>2, <1>5, <2>1, <4>1, <4>4 DEF EntryJoined
      <4> QED BY <2>2, <3>1, <4>3, <4>5, UnjoinedInParens
    <3> QED BY <3>2, <3>3
  <2> QED BY <2>4, <2>5
<1>6. IsInner(t) => HasMeta(t, Unjoined)
  BY <1>2 DEF EntryJoined
<1> QED BY <1>5, <1>6 DEF EntryJoined, IsInner

(* A nested call: the first table it added gets the join of its node. *)
LEMMA NestedReturns ==
  ASSUME NEW n \in 1..MaxRefs, NEW b \in 0..n, ClauseOK(n), StackOK(n, b), VisitOrder(n, b), from' = from,
         NEW p \in OnStack, OnStack' = OnStack \ {p}, from.parent[p] # 0,
         \A x \in OnStack : x <= p, \A x \in 1..n : from.parent[x] = p => x <= b,
         EntriesOK(tables, b), NEW caller, caller.child = p, caller.before \in 0..Len(tables),
         \A k \in DOMAIN tables : k <= caller.before <=> Src(tables[k]) < p,
         tables' = AfterNested(caller, tables), JoinsOK
  PROVE  JoinsOK'
<1>0. n \in Nat /\ b \in Nat /\ b <= n /\ p \in 1..b /\ p \in 1..n
  BY WalkTypes, ParentOnStack
<1>1. PICK before : before = caller.before
  OBVIOUS
<1>2. SUFFICES ASSUME NoXmltable', NEW k \in DOMAIN tables', NEW t, t = tables'[k]
               PROVE  EntryJoined(t)'
  BY DEF JoinsOK
<1>3. NoXmltable
  BY <1>2 DEF NoXmltable, Refs
<1>4. PICK L \in Nat : L = Len(tables) /\ DOMAIN tables = 1..L /\ tables \in Seq(TableRef)
  BY DEF EntriesOK
<1>5. /\ tables' \in Seq(TableRef) /\ SameRefs(tables, tables')
      /\ \A l \in DOMAIN tables : l # before + 1 => tables'[l] = tables[l]
      /\ before + 1 \in DOMAIN tables => HasMeta(tables'[before + 1], JoinMeta(p))
  <2>1. PICK us : us = tables'
    OBVIOUS
  <2>2. us = AfterNested(caller, tables) /\ caller.child \in 1..n
    BY <1>0, <2>1
  <2>3. /\ us \in Seq(TableRef) /\ SameRefs(tables, us)
        /\ \A l \in DOMAIN tables : l # caller.before + 1 => us[l] = tables[l]
        /\ caller.before + 1 \in DOMAIN tables => HasMeta(us[caller.before + 1], JoinMeta(caller.child))
    BY <1>4, <2>2, AfterNestedKeeps
  <2> QED BY <1>1, <2>1, <2>3
<1>6. k \in 1..L /\ DOMAIN tables = 1..L
  BY <1>2, <1>4, <1>5 DEF SameRefs
<1>7. /\ before + 1 \in DOMAIN tables /\ ~IsInner(tables[before + 1])
      /\ tables[before + 1].raw \in p..b /\ p \in Chain(tables[before + 1].raw)
      /\ \A l \in DOMAIN tables :
           ~IsInner(tables[l]) /\ p \in Chain(tables[l].raw) => l = before + 1
  <2>1. p \in 1..b /\ before \in 0..Len(tables) /\ \A l \in DOMAIN tables : l <= before <=> Src(tables[l]) < p
    BY <1>0, <1>1
  <2> QED BY <1>3, <2>1, FirstOfCall
<1>8. PICK u : u = tables[k] /\ u.raw = t.raw /\ (IsInner(u) <=> IsInner(t))
  BY <1>2, <1>5, <1>6 DEF SameRefs, IsInner
<1>9. EntryJoined(u)
  BY <1>3, <1>6, <1>8 DEF JoinsOK
<1>10. ~IsInner(t) => t.raw \in 1..n
  <2>1. Src(u) \in 1..b
    BY <1>6, <1>8 DEF EntriesOK, EntryOK
  <2>2. ~IsInner(t) => Src(u) = t.raw
    BY <1>8 DEF Src
  <2> QED BY <1>0, <2>1, <2>2
<1>11. ASSUME NEW m PROVE Meta(m)' = Meta(m)
  BY DEF Meta, JoinMeta
<1>12. CASE k # before + 1
  <2>1. t = u
    BY <1>2, <1>5, <1>6, <1>8, <1>12
  <2>2. IsInner(t) \/ t.raw \in OnStack' => HasMeta(t, Unjoined)
    BY <1>9, <2>1 DEF EntryJoined
  <2>3. ASSUME ~IsInner(t), NEW m \in 1..t.raw, OutermostReturned(m, t.raw)' PROVE HasMeta(t, Meta(m)')
    <3>1. PICK r \in 1..n : r = t.raw
      BY <1>10, <2>3
    <3>2. p \notin Chain(r)
      BY <1>6, <1>7, <1>8, <1>12, <2>3, <3>1
    <3>3. (m # p => OutermostReturned(m, r)) /\ m \in Chain(r)
      BY <2>3, <3>1, OutermostReturns
    <3>4. OutermostReturned(m, r)
      BY <3>2, <3>3
    <3> QED BY <1>9, <1>11, <2>1, <2>3, <3>1, <3>4 DEF EntryJoined
  <2> QED BY <2>2, <2>3 DEF EntryJoined, IsInner
<1>13. CASE k = before + 1
  <2>1. HasMeta(t, Meta(p)) /\ ~IsInner(t) /\ t.raw \in p..b /\ p \in Chain(t.raw)
    BY <1>2, <1>5, <1>7, <1>8, <1>13 DEF Meta
  <2>2. t.raw \notin OnStack'
    <3> SUFFICES ASSUME t.raw \in OnStack, t.raw # p PROVE FALSE
      OBVIOUS
    <3>1. t.raw <= p
      OBVIOUS
    <3> QED BY <1>0, <2>1, <3>1
  <2>3. ASSUME NEW m \in 1..t.raw, OutermostReturned(m, t.raw)' PROVE HasMeta(t, Meta(m)')
    <3>1. PICK r \in 1..n : r = t.raw
      BY <1>10, <2>1
    <3>2. m = p
      BY <2>1, <2>3, <3>1, OutermostReturns
    <3> QED BY <1>11, <2>1, <3>2
  <2> QED BY <2>1, <2>2, <2>3 DEF EntryJoined, IsInner
<1> QED BY <1>12, <1>13

(* The part of the invariant about tables. *)
TablesOK(b) == EntriesOK(tables, Entered(b)) /\ KeysOK(tables) /\ BeforeOK /\ JoinsOK

LEMMA EntrySources ==
  ASSUME NEW n \in 1..MaxRefs, NEW b \in 0..n, EntriesOK(tables, Entered(b))
  PROVE  \A k \in DOMAIN tables : Src(tables[k]) \in 1..b
<1>1. b \in Nat /\ Entered(b) \in {b - 1, b}
  BY WalkTypes DEF Entered
<1>2. \A k \in DOMAIN tables : Src(tables[k]) \in 1..Entered(b)
  BY DEF EntriesOK, EntryOK
<1> QED BY <1>1, <1>2

LEMMA NextItemTables ==
  ASSUME NEW n \in 1..MaxRefs, NEW b \in 0..n, ClauseOK(n), StackOK(n, b), VisitOrder(n, b), TablesOK(b),
         NextItem
  PROVE  TablesOK(b + 1)'
<1>0. b \in Nat
  BY WalkTypes
<1>1. frames' = <<Call(b + 1)>> /\ b + 1 \in 1..n
  BY NextItemWalks
<1>2. from' = from /\ tables' = tables /\ frames = << >>
  BY DEF NextItem, results
<1>3. Len(frames') = 1 /\ frames'[1].node = b + 1 /\ DOMAIN frames' = {1} /\ frames'[1].stage = "register"
  BY <1>1 DEF Call
<1>4. OnStack = {} /\ OnStack' = {b + 1}
  BY <1>2, <1>3 DEF OnStack
<1>5. Entered(b) = b /\ Entered(b + 1)' = b
  <2>1. ActiveAt("register")' /\ ~ActiveAt("register")
    BY <1>1, <1>2, <1>3 DEF ActiveAt, Top, Last
  <2> QED BY <1>0, <2>1 DEF Entered
<1>6. EntriesOK(tables, b)' /\ KeysOK(tables)'
  BY <1>2, <1>5, ClauseKept DEF TablesOK
<1>7. \A k \in DOMAIN tables : Src(tables[k]) \in 1..b
  BY EntrySources DEF TablesOK
<1>8. \A x \in 1..b : x \in OnStack' <=> x \in OnStack
  BY <1>0, <1>4
<1>9. JoinsOK'
  BY <1>2, <1>7, <1>8, JoinsKept DEF TablesOK
<1>10. BeforeOK'
  BY <1>3 DEF BeforeOK
<1> QED BY <1>5, <1>6, <1>9, <1>10 DEF TablesOK

LEMMA VisitNestedTables ==
  ASSUME NEW n \in 1..MaxRefs, NEW b \in 0..n, ClauseOK(n), StackOK(n, b), VisitOrder(n, b), TablesOK(b),
         VisitNested
  PROVE  TablesOK(b + 1)'
<1>0. b \in Nat /\ Len(tables) \in Nat
  BY WalkTypes DEF TablesOK, EntriesOK
<1>1. PICK L \in Nat \ {0} :
        /\ L = Len(frames) /\ DOMAIN frames = 1..L /\ Len(frames') = L + 1 /\ DOMAIN frames' = 1..L + 1
        /\ frames'[L + 1].node = b + 1 /\ frames'[L + 1].stage = "register"
        /\ frames'[L].node = frames[L].node /\ frames'[L].before = Len(tables)
        /\ \A i \in 1..L - 1 : frames'[i] = frames[i]
  BY <1>0, VisitNestedWalks
<1>2. from' = from /\ tables' = tables /\ ActiveAt("nested")
  BY DEF VisitNested, results
<1>3. \A i \in 1..L + 1 : i = L + 1 \/ i \in 1..L
  OBVIOUS
<1>4. \A i \in 1..L : frames'[i].node = frames[i].node
  BY <1>1
<1>5. OnStack' = OnStack \cup {b + 1}
  <2>1. OnStack = {frames[i].node : i \in 1..L}
    BY <1>1 DEF OnStack
  <2>2. OnStack' = {frames'[i].node : i \in 1..L + 1}
    BY <1>1 DEF OnStack
  <2>3. \A i \in 1..L : i \in 1..L + 1
    OBVIOUS
  <2>4. L + 1 \in 1..L + 1 /\ frames'[L + 1].node = b + 1
    BY <1>1
  <2> QED BY <1>3, <1>4, <2>1, <2>2, <2>3, <2>4
<1>6. Entered(b) = b /\ Entered(b + 1)' = b
  <2>1. ActiveAt("register")' /\ ~ActiveAt("register")
    BY <1>1, <1>2 DEF ActiveAt, Top, Last
  <2> QED BY <1>0, <2>1 DEF Entered
<1>7. EntriesOK(tables, b)' /\ KeysOK(tables)'
  BY <1>2, <1>6, ClauseKept DEF TablesOK
<1>8. \A k \in DOMAIN tables : Src(tables[k]) \in 1..b
  BY EntrySources DEF TablesOK
<1>9. JoinsOK'
  <2>1. \A x \in 1..b : x \in OnStack' <=> x \in OnStack
    BY <1>0, <1>5
  <2> QED BY <1>2, <1>8, <2>1, JoinsKept DEF TablesOK
<1>10. ASSUME NEW i \in 1..L
       PROVE  /\ frames'[i].before \in 0..Len(tables)
              /\ \A k \in DOMAIN tables : k <= frames'[i].before <=> Src(tables[k])' < frames'[i + 1].node
  <2>1. \A k \in DOMAIN tables : Src(tables[k])' = Src(tables[k])
    BY <1>2 DEF Src, IsInner
  <2>2. CASE i = L
    <3>1. \A k \in DOMAIN tables : k <= Len(tables) /\ k \in Nat
      BY DEF TablesOK, EntriesOK
    <3>2. \A k \in DOMAIN tables : Src(tables[k]) < b + 1
      BY <1>0, <1>8
    <3> QED BY <1>0, <1>1, <2>1, <2>2, <3>1, <3>2
  <2>3. CASE i \in 1..L - 1
    <3>1. i < L /\ frames'[i] = frames[i] /\ frames'[i + 1].node = frames[i + 1].node
      BY <1>1, <1>4, <2>3
    <3> QED BY <1>1, <2>1, <3>1 DEF TablesOK, BeforeOK
  <2> QED BY <2>2, <2>3
<1>11. BeforeOK'
  <2>1. \A i \in 1..L + 1 : i < L + 1 => i \in 1..L
    OBVIOUS
  <2> QED BY <1>1, <1>2, <1>10, <2>1 DEF BeforeOK
<1> QED BY <1>6, <1>7, <1>9, <1>11 DEF TablesOK

LEMMA RecordQualTables ==
  ASSUME NEW n \in 1..MaxRefs, NEW b \in 0..n, ClauseOK(n), StackOK(n, b), VisitOrder(n, b), TablesOK(b),
         RecordQual
  PROVE  TablesOK(b)'
<1>1. PICK L \in Nat \ {0} :
        /\ L = Len(frames) /\ DOMAIN frames = 1..L /\ Len(frames') = L /\ DOMAIN frames' = 1..L
        /\ frames'[L].node = frames[L].node /\ OnStack' = OnStack
        /\ \A i \in 1..L - 1 : frames'[i] = frames[i]
        /\ ~ActiveAt("register") /\ ~ActiveAt("register")'
  BY RecordQualWalks
<1>2. from' = from /\ tables' = tables
  BY DEF RecordQual
<1>3. Entered(b) = b /\ Entered(b)' = b
  BY <1>1 DEF Entered
<1>4. EntriesOK(tables, b)' /\ KeysOK(tables)'
  BY <1>2, <1>3, ClauseKept DEF TablesOK
<1>5. JoinsOK'
  BY <1>1, <1>2, EntrySources, JoinsKept DEF TablesOK
<1>6. BeforeOK'
  <2>1. ASSUME NEW i \in 1..L, i < L
        PROVE  frames'[i] = frames[i] /\ frames'[i + 1].node = frames[i + 1].node
    <3>1. i + 1 = L \/ i + 1 \in 1..L - 1
      BY <2>1
    <3> QED BY <1>1, <2>1, <3>1
  <2>2. \A k \in DOMAIN tables : Src(tables[k])' = Src(tables[k])
    BY <1>2 DEF Src, IsInner
  <2>3. ASSUME NEW i \in 1..L, i < L
        PROVE  /\ frames'[i].before \in 0..Len(tables)
               /\ \A k \in DOMAIN tables : k <= frames'[i].before <=> Src(tables[k])' < frames'[i + 1].node
    BY <1>1, <2>1, <2>2, <2>3 DEF TablesOK, BeforeOK
  <2> QED BY <1>1, <1>2, <2>3 DEF BeforeOK
<1> QED BY <1>3, <1>4, <1>5, <1>6 DEF TablesOK

Register == RegisterRelation \/ RegisterFunction \/ RegisterSubquery \/ RegisterNothing

LEMMA RegisterKeepsTables ==
  ASSUME NEW n \in 1..MaxRefs, NEW b \in 0..n, ClauseOK(n), StackOK(n, b), VisitOrder(n, b), TablesOK(b),
         Register
  PROVE  TablesOK(b)'
<1>0. /\ from' = from /\ UNCHANGED item /\ ActiveAt("register") /\ frames' = Registered
  BY DEF Register, RegisterRelation, RegisterFunction, RegisterSubquery, RegisterNothing
<1>1. PICK L \in Nat \ {0} :
        /\ L = Len(frames) /\ DOMAIN frames = 1..L /\ Len(frames') = L /\ DOMAIN frames' = 1..L
        /\ b \in 1..n /\ Top.node = b /\ frames[L].node = b
        /\ \A i \in 1..L : frames'[i].node = frames[i].node /\ frames'[i].before = frames[i].before
        /\ OnStack' = OnStack /\ ~ActiveAt("register")'
  BY <1>0, RegisterWalks
<1>2. b \in 1..n /\ b \in Nat /\ Entered(b) = b - 1 /\ Entered(b)' = b
  BY <1>0, <1>1, WalkTypes DEF Entered
<1>3. EntriesOK(tables', b) /\ KeysOK(tables') /\ Grown(tables, tables', b)
  BY <1>1, <1>2, RegisterTables DEF TablesOK, Register
<1>4. EntriesOK(tables, b)' /\ KeysOK(tables)'
  <2>1. PICK ts : ts = tables'
    OBVIOUS
  <2>2. EntriesOK(ts, b)' /\ KeysOK(ts)'
    BY <1>0, <1>3, <2>1, ClauseKept
  <2>3. EntriesOK(tables, b)'
    BY <2>1, <2>2 DEF EntriesOK, EntryOK, InSourceOrder, EachEntered
  <2>4. KeysOK(tables)'
    BY <2>1, <2>2 DEF KeysOK, InnerOnce, ReadByOuter
  <2> QED BY <2>3, <2>4
<1>5. JoinsOK'
  <2>1. L \in DOMAIN frames
    BY <1>1
  <2>2. b \in OnStack
    BY <1>1, <2>1 DEF OnStack
  <2> QED BY <1>0, <1>1, <1>2, <1>3, <2>2, RegisterJoins DEF TablesOK
<1>6. BeforeOK'
  <2>1. PICK len \in Nat : len = Len(tables) /\ DOMAIN tables = 1..len
    BY DEF TablesOK, EntriesOK
  <2>2. Len(tables') \in Nat /\ len <= Len(tables') /\ DOMAIN tables' = 1..Len(tables')
    BY <1>3, <2>1 DEF EntriesOK, Grown
  <2>3. ASSUME NEW i \in 1..L, i < L
        PROVE  frames'[i].before \in 0..len /\ frames'[i + 1].node \in 1..b /\ frames'[i + 1].node = frames[i + 1].node
    <3>1. frames'[i].before = frames[i].before /\ i \in DOMAIN frames
      BY <1>1
    <3>2. frames'[i].before \in 0..len
      BY <1>1, <2>1, <2>3, <3>1 DEF TablesOK, BeforeOK
    <3>3. i + 1 \in 1..L
      BY <2>3
    <3>4. frames'[i + 1].node = frames[i + 1].node /\ FrameOK(i + 1, n, b)
      BY <1>1, <3>3 DEF StackOK
    <3> QED BY <3>2, <3>4 DEF FrameOK
  <2>4. ASSUME NEW k \in DOMAIN tables' PROVE Src(tables[k])' = Src(tables'[k])
    BY DEF Src, IsInner
  <2>5. ASSUME NEW i \in 1..L, i < L, NEW k \in DOMAIN tables'
        PROVE  k <= frames'[i].before <=> Src(tables'[k]) < frames'[i + 1].node
    <3>1. frames'[i].before \in 0..len /\ frames'[i + 1].node \in 1..b /\ frames'[i + 1].node = frames[i + 1].node
      BY <2>3, <2>5
    <3>2. CASE k \in DOMAIN tables
      <4>1. tables'[k] = tables[k] /\ frames'[i].before = frames[i].before
        BY <1>1, <1>3, <2>5, <3>2 DEF Grown
      <4>2. k <= frames[i].before <=> Src(tables[k]) < frames[i + 1].node
        BY <1>1, <2>5, <3>2 DEF TablesOK, BeforeOK
      <4> QED BY <3>1, <4>1, <4>2
    <3>3. CASE k \notin DOMAIN tables
      <4>1. Src(tables'[k]) = b
        BY <1>3, <3>3 DEF Grown
      <4>2. k > len
        BY <2>1, <2>2, <3>3
      <4>3. k \in Nat
        BY <2>2
      <4>4. ~(k <= frames'[i].before) /\ ~(b < frames'[i + 1].node)
        BY <1>2, <2>1, <3>1, <4>2, <4>3
      <4> QED BY <4>1, <4>4
    <3> QED BY <3>2, <3>3
  <2>6. ASSUME NEW i \in 1..L, i < L PROVE frames'[i].before \in 0..Len(tables')
    BY <2>1, <2>2, <2>3, <2>6
  <2> QED BY <1>1, <2>4, <2>5, <2>6 DEF BeforeOK
<1> QED BY <1>2, <1>4, <1>5, <1>6 DEF TablesOK

LEMMA ReturnTables ==
  ASSUME NEW n \in 1..MaxRefs, NEW b \in 0..n, ClauseOK(n), StackOK(n, b), VisitOrder(n, b), TablesOK(b),
         Return
  PROVE  TablesOK(b)'
<1>1. PICK L \in Nat \ {0} :
        /\ L = Len(frames) /\ DOMAIN frames = 1..L /\ DOMAIN frames' = 1..L - 1 /\ Len(frames') = L - 1
        /\ Top = frames[L] /\ Top.node \in 1..b
        /\ \A x \in 1..n : from.parent[x] = Top.node => x <= b
        /\ \A i \in 1..L - 1 : frames'[i] = frames[i] /\ frames[i].node < Top.node
        /\ OnStack' = OnStack \ {Top.node} /\ ~ActiveAt("register") /\ ~ActiveAt("register")'
  BY ReturnWalks
<1>2. PICK p \in 1..b : p = Top.node /\ p = frames[L].node
  BY <1>1
<1>3. from' = from /\ tables' = IF L = 1 THEN tables ELSE AfterNested(frames[L - 1], tables)
  BY <1>1 DEF Return
<1>4. Entered(b) = b /\ Entered(b)' = b
  BY <1>1 DEF Entered
<1>5. EntriesOK(tables, b) /\ KeysOK(tables) /\ \A k \in DOMAIN tables : Src(tables[k]) \in 1..b
  BY <1>4, EntrySources DEF TablesOK
<1>6. OnStack = {frames[i].node : i \in 1..L}
  BY <1>1 DEF OnStack
<1>7. p \in OnStack /\ OnStack' = OnStack \ {p} /\ \A x \in OnStack : x <= p
  <2>1. \A i \in 1..L : frames[i].node <= p
    <3>1. \A i \in 1..L : i = L \/ i \in 1..L - 1
      OBVIOUS
    <3>2. \A i \in 1..L : FrameOK(i, n, b)
      BY <1>1 DEF StackOK
    <3>3. \A i \in 1..L : frames[i].node \in 1..b
      BY <3>2 DEF FrameOK
    <3> QED BY <1>1, <1>2, <3>1, <3>3
  <2>2. L \in 1..L
    OBVIOUS
  <2> QED BY <1>1, <1>2, <1>6, <2>1, <2>2
<1>8. b \in Nat /\ n \in Nat /\ b <= n
  BY WalkTypes
<1>9. CASE L = 1
  <2>1. OnStack = {p} /\ OnStack' = {} /\ from.parent[p] = 0
    <3>1. \A i \in 1..L : i = L
      BY <1>9
    <3>2. FrameOK(1, n, b)
      BY <1>1, <1>9 DEF StackOK
    <3>3. from.parent[p] = 0
      BY <1>2, <1>9, <3>2 DEF FrameOK
    <3> QED BY <1>2, <1>6, <1>7, <3>1, <3>3
  <2>2. JoinsOK'
    BY <1>3, <1>5, <1>9, <2>1, ItemReturns DEF TablesOK
  <2>3. BeforeOK'
    BY <1>1, <1>9 DEF BeforeOK
  <2>4. EntriesOK(tables, b)' /\ KeysOK(tables)'
    BY <1>3, <1>5, <1>9, ClauseKept
  <2> QED BY <1>4, <2>2, <2>3, <2>4 DEF TablesOK
<1>10. CASE L # 1
  <2>1. PICK caller : caller = frames[L - 1]
    OBVIOUS
  <2>2. L - 1 \in 1..L /\ L - 1 < L /\ L - 1 + 1 = L
    BY <1>10
  <2>3. FrameOK(L - 1, n, b) /\ FrameOK(L, n, b)
    BY <1>1, <2>2 DEF StackOK
  <2>4. caller.child = p /\ caller.node \in 1..b /\ from.parent[p] = caller.node
    BY <1>1, <1>2, <1>10, <2>1, <2>2, <2>3 DEF FrameOK
  <2>5. /\ caller.before \in 0..Len(tables)
        /\ \A k \in DOMAIN tables : k <= caller.before <=> Src(tables[k]) < p
    <3>1. L - 1 \in DOMAIN frames /\ L - 1 < Len(frames) /\ frames[L].node = p
      BY <1>1, <1>2, <2>2
    <3>2. /\ frames[L - 1].before \in 0..Len(tables)
          /\ \A k \in DOMAIN tables : k <= frames[L - 1].before <=> Src(tables[k]) < frames[L - 1 + 1].node
      BY <3>1 DEF TablesOK, BeforeOK
    <3> QED BY <2>1, <2>2, <3>1, <3>2
  <2>6. tables' = AfterNested(caller, tables) /\ tables \in Seq(TableRef)
    BY <1>3, <1>5, <1>10, <2>1 DEF EntriesOK
  <2>7. JoinsOK'
    <3>1. from.parent[p] # 0 /\ \A x \in 1..n : from.parent[x] = p => x <= b
      BY <1>1, <1>2, <1>8, <2>4
    <3>2. p \in OnStack /\ OnStack' = OnStack \ {p} /\ \A x \in OnStack : x <= p
      BY <1>7
    <3>3. JoinsOK
      BY DEF TablesOK
    <3> QED BY <1>3, <1>5, <2>4, <2>5, <2>6, <3>1, <3>2, <3>3, NestedReturns
  <2>8. PICK us : us = tables' /\ us \in Seq(TableRef) /\ SameRefs(tables, us)
    BY <1>8, <2>4, <2>5, <2>6, AfterNestedKeeps
  <2>9. EntriesOK(us, b) /\ KeysOK(us) /\ \A k \in DOMAIN tables : Src(us[k]) = Src(tables[k])
    BY <1>5, <2>8, SameRefsKept
  <2>10. EntriesOK(tables, b)' /\ KeysOK(tables)'
    <3>1. EntriesOK(us, b)' /\ KeysOK(us)'
      BY <1>3, <2>9, ClauseKept
    <3>2. EntriesOK(tables, b)'
      BY <2>8, <3>1 DEF EntriesOK, EntryOK, InSourceOrder, EachEntered
    <3>3. KeysOK(tables)'
      BY <2>8, <3>1 DEF KeysOK, InnerOnce, ReadByOuter
    <3> QED BY <3>2, <3>3
  <2>11. Len(us) = Len(tables) /\ DOMAIN us = DOMAIN tables
    BY <2>6, <2>8 DEF SameRefs
  <2>12. ASSUME NEW i \in 1..L - 1, i < L - 1
         PROVE  /\ frames'[i].before \in 0..Len(us)
                /\ \A k \in DOMAIN us : k <= frames'[i].before <=> Src(us[k]) < frames'[i + 1].node
    <3>1. frames'[i] = frames[i] /\ frames'[i + 1] = frames[i + 1] /\ i \in 1..L /\ i < L
      BY <1>1, <2>12
    <3> QED BY <1>1, <2>9, <2>11, <3>1 DEF TablesOK, BeforeOK
  <2>13. BeforeOK'
    <3>1. \A k \in DOMAIN us : Src(us[k])' = Src(us[k])
      BY DEF Src, IsInner
    <3> QED BY <1>1, <2>8, <2>12, <3>1 DEF BeforeOK, Src, IsInner
  <2> QED BY <1>4, <2>7, <2>10, <2>13 DEF TablesOK
<1> QED BY <1>9, <1>10

-------------------------------------------------------------------------------
(* The join qualifications.                                                *)

LEMMA QualsKept ==
  ASSUME NEW n \in 1..MaxRefs, NEW b, NEW c, QualsOK(n, b), from' = from, joinConditions' = joinConditions,
         \A m \in 1..n : from.join[m].qual # "none" =>
           (from.parent[m] \in 1..c /\ PassedBy(m)' <=> from.parent[m] \in 1..b /\ PassedBy(m))
  PROVE  QualsOK(n, c)'
<1>1. \A m \in 1..n : Recorded(m, c)' <=> Recorded(m, b)
  BY DEF Recorded
<1>2. \A m \in 1..n : Recorded(m, c)' <=> \E k \in DOMAIN joinConditions : joinConditions[k] = m
  BY <1>1 DEF QualsOK
<1>3. \A m : Ancestors(from, m)' = Ancestors(from, m)
  BY DEF Ancestors
<1> QED BY <1>2, <1>3 DEF QualsOK

(* A call that has just begun has passed by none of them. *)
LEMMA BegunPassedByNone ==
  ASSUME NEW n \in 1..MaxRefs, NEW b \in 0..n, ClauseOK(n), StackOK(n, b), from' = from,
         NEW L \in Nat, DOMAIN frames = 1..L, DOMAIN frames' = 1..L + 1,
         frames'[L + 1].node = b + 1, frames'[L + 1].quals = {},
         \A i \in 1..L : frames'[i].node = frames[i].node /\ frames'[i].quals = frames[i].quals
  PROVE  \A m \in 1..n : from.parent[m] \in 1..b + 1 /\ PassedBy(m)' <=> from.parent[m] \in 1..b /\ PassedBy(m)
<1>0. b \in Nat
  BY WalkTypes
<1>1. \A i \in 1..L + 1 : i = L + 1 \/ i \in 1..L
  OBVIOUS
<1>2. \A i \in 1..L : i \in 1..L + 1
  OBVIOUS
<1>3. L + 1 \in 1..L + 1
  OBVIOUS
<1> SUFFICES ASSUME NEW m \in 1..n
             PROVE  from.parent[m] \in 1..b + 1 /\ PassedBy(m)' <=> from.parent[m] \in 1..b /\ PassedBy(m)
  OBVIOUS
<1>4. CASE from.parent[m] = b + 1
  BY <1>0, <1>3, <1>4 DEF PassedBy
<1>5. CASE from.parent[m] # b + 1
  <2>1. from.parent[m] \in 1..b + 1 <=> from.parent[m] \in 1..b
    BY <1>0, <1>5, RefsOfClause
  <2>2. PassedBy(m)' <=> PassedBy(m)
    BY <1>1, <1>2, <1>5 DEF PassedBy
  <2> QED BY <2>1, <2>2
<1> QED BY <1>4, <1>5

LEMMA NextItemQuals ==
  ASSUME NEW n \in 1..MaxRefs, NEW b \in 0..n, ClauseOK(n), StackOK(n, b), VisitOrder(n, b), QualsOK(n, b),
         NextItem
  PROVE  QualsOK(n, b + 1)'
<1>1. frames' = <<Call(b + 1)>>
  BY NextItemWalks
<1>2. from' = from /\ joinConditions' = joinConditions /\ frames = << >>
  BY DEF NextItem, results
<1>3. DOMAIN frames = 1..0 /\ DOMAIN frames' = 1..0 + 1
  BY <1>1, <1>2
<1>4. frames'[0 + 1].node = b + 1 /\ frames'[0 + 1].quals = {}
  BY <1>1 DEF Call
<1>5. 0 \in Nat /\ \A i \in 1..0 : frames'[i].node = frames[i].node /\ frames'[i].quals = frames[i].quals
  OBVIOUS
<1>6. \A m \in 1..n : from.parent[m] \in 1..b + 1 /\ PassedBy(m)' <=> from.parent[m] \in 1..b /\ PassedBy(m)
  BY <1>2, <1>3, <1>4, <1>5, BegunPassedByNone
<1> QED BY <1>2, <1>6, QualsKept

LEMMA VisitNestedQuals ==
  ASSUME NEW n \in 1..MaxRefs, NEW b \in 0..n, ClauseOK(n), StackOK(n, b), VisitOrder(n, b), QualsOK(n, b),
         Len(tables) \in Nat, VisitNested
  PROVE  QualsOK(n, b + 1)'
<1>1. PICK L \in Nat \ {0} :
        /\ L = Len(frames) /\ DOMAIN frames = 1..L /\ Len(frames') = L + 1 /\ DOMAIN frames' = 1..L + 1
        /\ frames'[L + 1].node = b + 1 /\ frames'[L + 1].quals = {}
        /\ frames'[L].node = frames[L].node /\ frames'[L].quals = frames[L].quals
        /\ \A i \in 1..L - 1 : frames'[i] = frames[i]
  BY VisitNestedWalks
<1>2. from' = from /\ joinConditions' = joinConditions
  BY DEF VisitNested, results
<1>3. \A i \in 1..L : frames'[i].node = frames[i].node /\ frames'[i].quals = frames[i].quals
  <2>1. \A i \in 1..L : i = L \/ i \in 1..L - 1
    OBVIOUS
  <2> QED BY <1>1, <2>1
<1>4. \A m \in 1..n : from.parent[m] \in 1..b + 1 /\ PassedBy(m)' <=> from.parent[m] \in 1..b /\ PassedBy(m)
  BY <1>1, <1>2, <1>3, BegunPassedByNone
<1> QED BY <1>2, <1>4, QualsKept

LEMMA RegisterQuals ==
  ASSUME NEW n \in 1..MaxRefs, NEW b \in 0..n, ClauseOK(n), StackOK(n, b), VisitOrder(n, b), QualsOK(n, b),
         Register
  PROVE  QualsOK(n, b)'
<1>0. /\ from' = from /\ UNCHANGED item /\ ActiveAt("register") /\ frames' = Registered
      /\ joinConditions' = joinConditions
  BY DEF Register, RegisterRelation, RegisterFunction, RegisterSubquery, RegisterNothing, results
<1>1. PICK L \in Nat \ {0} :
        /\ DOMAIN frames = 1..L /\ DOMAIN frames' = 1..L
        /\ \A i \in 1..L : frames'[i].node = frames[i].node /\ frames'[i].quals = frames[i].quals
  BY <1>0, RegisterWalks
<1>2. \A m \in 1..n : PassedBy(m)' <=> PassedBy(m)
  BY <1>0, <1>1 DEF PassedBy
<1> QED BY <1>0, <1>2, QualsKept

LEMMA ReturnQuals ==
  ASSUME NEW n \in 1..MaxRefs, NEW b \in 0..n, ClauseOK(n), StackOK(n, b), VisitOrder(n, b), QualsOK(n, b),
         Return
  PROVE  QualsOK(n, b)'
<1>1. PICK L \in Nat \ {0} :
        /\ L = Len(frames) /\ DOMAIN frames = 1..L /\ DOMAIN frames' = 1..L - 1
        /\ Top = frames[L] /\ \A i \in 1..L - 1 : frames'[i] = frames[i]
  BY ReturnWalks
<1>2. from' = from /\ joinConditions' = joinConditions /\ frames[L].quals = Quals(frames[L].node)
  BY <1>1 DEF Return
<1>3. ASSUME NEW m \in 1..n, from.join[m].qual # "none" PROVE PassedBy(m)' <=> PassedBy(m)
  <2>1. frames[L].node = from.parent[m] => m \in frames[L].quals
    BY <1>2, <1>3, RefsOfClause DEF Quals
  <2>2. \A i \in 1..L : i = L \/ i \in 1..L - 1
    OBVIOUS
  <2>3. \A i \in 1..L - 1 : i \in 1..L
    OBVIOUS
  <2> QED BY <1>1, <1>2, <2>1, <2>2, <2>3 DEF PassedBy
<1> QED BY <1>2, <1>3, QualsKept

(* What an active call lies in is active. *)
LEMMA AncestorsOnStack ==
  ASSUME NEW n \in 1..MaxRefs, NEW b \in 0..n, ClauseOK(n), StackOK(n, b), NEW p \in OnStack,
         NEW a \in Ancestors(from, p)
  PROVE  a \in OnStack /\ a # p
<1>1. n \in Nat /\ b \in Nat /\ b <= n /\ RefsIn(from) = 1..n
  BY WalkTypes, RefsOfClause
<1>2. OnStack \in SUBSET (1..n)
  <2>1. \A x \in OnStack : x \in 1..b
    BY ParentOnStack
  <2> QED BY <1>1, <2>1
<1>3. UpwardClosed(from, OnStack)
  BY ParentOnStack DEF UpwardClosed
<1> QED BY <1>1, <1>2, <1>3 DEF Ancestors

LEMMA RecordQualQuals ==
  ASSUME NEW n \in 1..MaxRefs, NEW b \in 0..n, ClauseOK(n), StackOK(n, b), VisitOrder(n, b), QualsOK(n, b),
         RecordQual
  PROVE  QualsOK(n, b)'
<1>1. PICK L \in Nat \ {0}, p \in 1..b, m \in 1..n :
        /\ L = Len(frames) /\ DOMAIN frames = 1..L /\ DOMAIN frames' = 1..L
        /\ m = Min(Quals(Top.node) \ Top.quals) /\ p = Top.node
        /\ m \in 1..n /\ from.parent[m] = p /\ from.join[m].qual # "none" /\ m \notin frames[L].quals
        /\ frames[L].node = p /\ p \in 1..b
        /\ frames'[L].node = p /\ frames'[L].quals = frames[L].quals \cup {m}
        /\ \A i \in 1..L - 1 : frames'[i] = frames[i]
  BY RecordQualWalks
<1>2. from' = from /\ joinConditions' = Append(joinConditions, m)
  BY <1>1 DEF RecordQual
<1>3. \A i \in 1..L : i = L \/ (i \in 1..L - 1 /\ i < L)
  OBVIOUS
<1>4. p \in OnStack
  <2>1. L \in DOMAIN frames
    BY <1>1
  <2> QED BY <1>1, <2>1 DEF OnStack
<1>5. PICK jc \in Seq(1..n) : jc = joinConditions
  BY DEF QualsOK
<1>6. PICK K \in Nat : K = Len(jc) /\ DOMAIN jc = 1..K
  BY <1>5
<1>7. PICK nc : nc = Append(jc, m)
  OBVIOUS
<1>8. nc \in Seq(1..n) /\ DOMAIN nc = 1..K + 1 /\ nc[K + 1] = m /\ \A k \in 1..K : nc[k] = jc[k]
  BY <1>1, <1>6, <1>7, Pushed
<1>9. DOMAIN nc = 1..K + 1 /\ \A k \in 1..K + 1 : k = K + 1 \/ k \in 1..K
  BY <1>8
<1>10. \A x \in 1..n : Recorded(x, b) <=> \E k \in 1..K : jc[k] = x
  BY <1>5, <1>6 DEF QualsOK
<1>11. ~Recorded(m, b)
  <2>1. L \in DOMAIN frames
    BY <1>1
  <2> QED BY <1>1, <2>1 DEF Recorded, PassedBy
<1>12. Recorded(m, b)'
  <2>1. \A i \in 1..L : frames'[i].node = p => m \in frames'[i].quals
    <3> SUFFICES ASSUME NEW i \in 1..L - 1 PROVE frames[i].node # p
      BY <1>1, <1>3
    <3>1. i \in 1..L /\ i < L /\ L \in 1..L
      OBVIOUS
    <3>3. FrameOK(i, n, b) /\ L \in DOMAIN frames
      BY <1>1, <3>1 DEF StackOK
    <3>2. frames[i].node < p /\ frames[i].node \in 1..b
      BY <1>1, <3>1, <3>3 DEF FrameOK
    <3> QED BY <1>1, <3>2
  <2> QED BY <1>1, <1>2, <2>1 DEF Recorded, PassedBy
<1>13. ASSUME NEW x \in 1..n, x # m PROVE Recorded(x, b)' <=> Recorded(x, b)
  BY <1>1, <1>2, <1>3, <1>13 DEF Recorded, PassedBy
<1>14. ASSUME NEW x \in 1..n PROVE Recorded(x, b)' <=> \E k \in DOMAIN nc : nc[k] = x
  <2>1. CASE x = m
    BY <1>8, <1>9, <1>12, <2>1
  <2>2. CASE x # m
    <3>1. \A k \in 1..K : k \in 1..K + 1
      OBVIOUS
    <3>2. (\E k \in DOMAIN nc : nc[k] = x) <=> \E k \in 1..K : jc[k] = x
      BY <1>8, <1>9, <2>2, <3>1
    <3> QED BY <1>10, <1>13, <2>2, <3>2
  <2> QED BY <2>1, <2>2
<1>15. ASSUME NEW k \in 1..K PROVE jc[k] # m /\ from.parent[jc[k]] \notin Ancestors(from, p)
  <2>1. jc[k] \in 1..n
    BY <1>5, <1>6
  <2>2. Recorded(jc[k], b)
    BY <1>10, <2>1
  <2>3. jc[k] # m
    BY <1>11, <2>2
  <2>4. ASSUME from.parent[jc[k]] \in Ancestors(from, p) PROVE FALSE
    <3>1. from.parent[jc[k]] \in OnStack /\ from.parent[jc[k]] # p
      BY <1>4, <2>4, AncestorsOnStack
    <3>2. PICK i \in 1..L : frames[i].node = from.parent[jc[k]] /\ FrameOK(i, n, b)
      BY <1>1, <3>1 DEF OnStack, StackOK
    <3>3. i < L
      BY <1>1, <1>3, <3>1, <3>2
    <3>4. frames[i].quals = {}
      BY <1>1, <3>2, <3>3 DEF FrameOK
    <3> QED BY <1>1, <2>2, <3>2, <3>4 DEF Recorded, PassedBy
  <2> QED BY <2>3, <2>4
<1>16. ASSUME NEW k \in 1..K + 1, NEW l \in 1..K + 1, k < l
       PROVE  nc[k] # nc[l] /\ from.parent[nc[k]] \notin Ancestors(from, from.parent[nc[l]])
  <2>1. k \in 1..K /\ nc[k] = jc[k]
    <3>1. k \in 1..K
      BY <1>16
    <3> QED BY <1>8, <3>1
  <2>2. CASE l = K + 1
    BY <1>1, <1>8, <1>15, <2>1, <2>2
  <2>3. CASE l \in 1..K
    BY <1>5, <1>6, <1>8, <1>16, <2>1, <2>3 DEF QualsOK
  <2> QED BY <1>9, <2>2, <2>3
<1>17. joinConditions' = nc
  BY <1>2, <1>5, <1>7
<1>18. \A x \in 1..n : Recorded(x, b)' <=> \E k \in DOMAIN joinConditions' : joinConditions'[k] = x
  BY <1>14, <1>17
<1>19. (\A k, l \in DOMAIN joinConditions : k < l =>
         /\ joinConditions[k] # joinConditions[l]
         /\ from.parent[joinConditions[k]] \notin Ancestors(from, from.parent[joinConditions[l]]))'
  <2>1. \A k, l \in DOMAIN nc : k < l =>
          nc[k] # nc[l] /\ from'.parent[nc[k]] \notin Ancestors(from', from'.parent[nc[l]])
    BY <1>2, <1>9, <1>16
  <2> QED BY <1>17, <2>1
<1> QED BY <1>8, <1>17, <1>18, <1>19 DEF QualsOK

(* The qualification of a nested reference that nothing follows and nothing *)
(* is nested in is recorded when that reference is the last one begun.      *)
LEMMA LastRecorded ==
  ASSUME NEW n \in 1..MaxRefs, NEW b \in 0..n, ClauseOK(n), VisitOrder(n, b),
         NEW i \in DOMAIN frames, NEW p \in 1..b, frames[i].node = p,
         NEW m \in 1..b, from.parent[m] = p, \A x \in 1..n : from.parent[x] = p => x <= m,
         \A x \in 1..n : from.parent[x] # m
  PROVE  m = b
<1>0. n \in Nat /\ b \in Nat /\ b <= n /\ m \in Nat /\ p \in Nat /\ m \in 1..n
  BY WalkTypes
<1> SUFFICES ASSUME m < b PROVE FALSE
  BY <1>0
<1>1. m + 1 \in 1..n /\ m + 1 \in 1..b
  BY <1>0
<1>2. from.parent[m + 1] \in Nat /\ from.parent[m + 1] < m + 1 /\ p < m
  BY <1>0, <1>1, RefsOfClause
<1>3. from.parent[m + 1] >= p
  <2>1. m + 1 \in p + 1..b
    BY <1>0, <1>1, <1>2
  <2> QED BY <2>1 DEF VisitOrder
<1>4. from.parent[m + 1] # p /\ from.parent[m + 1] # m
  BY <1>0, <1>1
<1>5. m \in from.parent[m + 1] + 1..m + 1 - 1
  BY <1>0, <1>2, <1>4
<1>6. from.parent[m] >= from.parent[m + 1]
  BY <1>1, <1>5, RefsOfClause
<1> QED BY <1>0, <1>2, <1>3, <1>4, <1>6

-------------------------------------------------------------------------------
(* The sides of USING clauses, and the LATERAL calls.                      *)

LEMMA LastTwo ==
  ASSUME NEW L \in Nat, NEW S \in SUBSET (1..L), ~(Cardinality(S) < 2)
  PROVE  /\ Max(S) \in S /\ \A y \in S : y <= Max(S)
         /\ Max(S \ {Max(S)}) \in S \ {Max(S)} /\ \A y \in S \ {Max(S)} : y <= Max(S \ {Max(S)})
<1>1. IsFiniteSet(S)
  <2>1. IsFiniteSet(1..L)
    BY FS_Interval
  <2> QED BY <2>1, FS_Subset
<1>2. S # {}
  BY FS_EmptySet
<1>3. Max(S) \in S /\ \A y \in S : Max(S) >= y
  BY <1>2, MaxOfIndices
<1>4. PICK a \in S : a = Max(S) /\ \A y \in S : a >= y
  BY <1>3
<1>5. S \ {a} # {}
  <2> SUFFICES ASSUME S \ {a} = {} PROVE FALSE
    OBVIOUS
  <2>1. S = {a}
    OBVIOUS
  <2>2. Cardinality(S) = 1
    BY <2>1, FS_Singleton
  <2> QED BY <2>2
<1>6. Max(S \ {a}) \in S \ {a} /\ \A y \in S \ {a} : Max(S \ {a}) >= y
  <2>1. S \ {a} \in SUBSET (1..L)
    OBVIOUS
  <2> QED BY <1>5, <2>1, MaxOfIndices
<1>7. \A y \in S : y \in Int
  OBVIOUS
<1> QED BY <1>3, <1>4, <1>6, <1>7

IsBase(x) == from.kind[x] = "relation" /\ x \notin from.cteNames

(* Where there is no subquery, the base tables are the relations that name no CTE. *)
LEMMA BaseEntries ==
  ASSUME NEW n \in 1..MaxRefs, NEW b \in 0..n, ClauseOK(n), EntriesOK(tables, b),
         \A x \in 1..n : from.kind[x] # "subquery"
  PROVE  /\ \A k \in DOMAIN tables : tables[k].raw \in 1..b /\ tables[k].raw = Src(tables[k])
         /\ \A k, l \in DOMAIN tables : k < l => tables[k].raw < tables[l].raw
         /\ \A x \in 1..b : IsBase(x) => \E k \in BaseTables(tables) : tables[k].raw = x
<1>0. n \in Nat /\ b \in Nat /\ b <= n
  BY WalkTypes
<1>1. \A k \in DOMAIN tables : EntryOK(tables, k, b)
  BY DEF EntriesOK
<1>2. \A k \in DOMAIN tables : ~IsInner(tables[k])
  <2> SUFFICES ASSUME NEW k \in DOMAIN tables, IsInner(tables[k]) PROVE FALSE
    OBVIOUS
  <2>1. Src(tables[k]) \in 1..b /\ from.kind[Src(tables[k])] = "subquery"
    BY <1>1 DEF EntryOK
  <2> QED BY <1>0, <2>1
<1>3. \A k \in DOMAIN tables : tables[k].raw = Src(tables[k])
  BY <1>2 DEF Src
<1>4. \A k \in DOMAIN tables : Src(tables[k]) \in 1..b /\ tables[k].type = TypeOfRef(tables[k].raw)
  BY <1>1, <1>2 DEF EntryOK
<1>5. \A k, l \in DOMAIN tables : k < l => tables[k].raw < tables[l].raw
  BY <1>2, <1>3 DEF EntriesOK, InSourceOrder
<1>6. ASSUME NEW x \in 1..b, IsBase(x) PROVE \E k \in BaseTables(tables) : tables[k].raw = x
  <2>1. x \in Registering /\ TypeOfRef(x) = "base"
    BY <1>0, <1>6, RefsOfClause DEF IsBase, Registering, TypeOfRef
  <2>2. PICK k \in DOMAIN tables : tables[k].raw = x
    BY <1>0, <2>1 DEF EntriesOK, EachEntered
  <2> QED BY <1>4, <2>1, <2>2 DEF BaseTables
<1> QED BY <1>3, <1>4, <1>5, <1>6

(* A clause recorded when its reference is the last one begun has its sides. *)
LEMMA SidesRecorded ==
  ASSUME NEW n \in 1..MaxRefs, NEW b \in 1..n, ClauseOK(n), EntriesOK(tables, b),
         NEW L \in Nat, DOMAIN tables = 1..L, ~(Cardinality(BaseTables(tables)) < 2),
         NEW last, last = Max(BaseTables(tables)),
         NEW left, left = Max(BaseTables(tables) \ {last}),
         from.parent[b] # 0, IsBase(b), \E x \in LeftOperand(b) : IsBase(x),
         \A x \in 1..n : from.kind[x] # "subquery"
  PROVE  tables[left].raw \in LeftOperand(b) /\ tables[last].raw \in RightOperand(b)
<1>0. n \in Nat /\ b \in Nat /\ b <= n /\ Refs = 1..n /\ from.parent[b] \in Nat
  BY WalkTypes, RefsOfClause
<1>1. PICK S \in SUBSET (1..L) : S = BaseTables(tables)
  BY DEF BaseTables
<1>2. last \in S /\ (\A y \in S : y <= last) /\ left \in S \ {last} /\ \A y \in S \ {last} : y <= left
  BY <1>1, LastTwo
<1>3. /\ \A k \in 1..L : tables[k].raw \in 1..b
      /\ \A k, l \in 1..L : k < l => tables[k].raw < tables[l].raw
      /\ \A x \in 1..b : IsBase(x) => \E k \in S : tables[k].raw = x
  BY <1>1, BaseEntries
<1>4. last \in 1..L /\ left \in 1..L /\ left < last
  BY <1>2
<1>5. tables[last].raw = b
  <2>1. PICK k \in S : tables[k].raw = b
    BY <1>0, <1>3
  <2>2. k <= last /\ k \in 1..L
    BY <1>2, <2>1
  <2>3. ~(k < last)
    BY <1>0, <1>3, <1>4, <2>1, <2>2
  <2>4. k = last
    BY <1>4, <2>2, <2>3
  <2> QED BY <2>1, <2>4
<1>6. tables[left].raw < b /\ tables[left].raw \in 1..b
  BY <1>3, <1>4, <1>5
<1>7. PICK x \in 1..b : IsBase(x) /\ from.parent[b] <= x /\ x < b
  <2>1. PICK x \in LeftOperand(b) : IsBase(x)
    OBVIOUS
  <2>2. x \in 1..n /\ from.parent[b] <= x /\ x < b
    BY <1>0, <2>1 DEF LeftOperand
  <2> QED BY <1>0, <2>1, <2>2
<1>8. tables[left].raw >= x
  <2>1. PICK k \in S : tables[k].raw = x
    BY <1>3, <1>7
  <2>2. k # last
    BY <1>0, <1>5, <1>7, <2>1
  <2>3. k \in 1..L /\ k <= left
    BY <1>2, <2>1, <2>2
  <2>4. k = left \/ k < left
    BY <1>4, <2>3
  <2> QED BY <1>3, <1>4, <2>1, <2>3, <2>4
<1>9. tables[left].raw \in LeftOperand(b)
  BY <1>0, <1>6, <1>7, <1>8 DEF LeftOperand
<1>10. tables[last].raw \in RightOperand(b)
  BY <1>0, <1>5 DEF RightOperand
<1> QED BY <1>9, <1>10

HasItsSides(u) ==
  LET m == u.clause IN
  /\ \A x \in Nested(from, from.parent[m]) : x <= m
  /\ IsBase(m) /\ Nested(from, m) = {}
  /\ \E x \in LeftOperand(m) : IsBase(x)
  /\ \A x \in Refs : from.kind[x] # "subquery"
  => HasSides(u)

LEMMA UsageByUsage == LastUsingHasSides <=> \A k \in DOMAIN usages : HasItsSides(usages[k])
  BY DEF LastUsingHasSides, HasItsSides, IsBase

LEMMA UsagesKept ==
  ASSUME from' = from, usages' = usages, UsagesOK
  PROVE  UsagesOK'
<1>1. \A u : HasItsSides(u)' <=> HasItsSides(u)
  <2>1. \A m : IsBase(m)' <=> IsBase(m)
    BY DEF IsBase
  <2>2. \A m : LeftOperand(m)' = LeftOperand(m) /\ RightOperand(m)' = RightOperand(m)
    BY DEF LeftOperand, RightOperand, Ancestors, Refs
  <2>3. \A u : HasSides(u)' <=> HasSides(u)
    BY <2>2 DEF HasSides
  <2> QED BY <2>1, <2>2, <2>3 DEF HasItsSides, Refs
<1>2. \A k \in DOMAIN usages : HasItsSides(usages[k])
  BY UsageByUsage DEF UsagesOK
<1>3. \A k \in DOMAIN usages' : HasItsSides(usages[k])'
  <2> SUFFICES ASSUME NEW k \in DOMAIN usages, NEW u, u = usages[k] PROVE HasItsSides(u)'
    BY DEF HasItsSides, HasSides
  <2> QED BY <1>1, <1>2
<1>4. LastUsingHasSides'
  BY <1>3 DEF LastUsingHasSides, HasItsSides, IsBase
<1> QED BY <1>4 DEF UsagesOK

LEMMA UsageRecorded ==
  ASSUME NEW n \in 1..MaxRefs, NEW b \in 0..n, ClauseOK(n), StackOK(n, b), VisitOrder(n, b),
         EntriesOK(tables, b), UsagesOK, RecordQual
  PROVE  usages' \in Seq(Usage) /\ \A k \in DOMAIN usages' : HasItsSides(usages'[k])
<1>0. MaxRefs \in Nat /\ n \in Nat /\ n <= MaxRefs /\ b \in Nat /\ b <= n
  BY WalkTypes
<1>1. PICK L \in Nat \ {0}, p \in 1..b, m \in 1..n :
        /\ L = Len(frames) /\ DOMAIN frames = 1..L
        /\ m = Min(Quals(Top.node) \ Top.quals) /\ p = Top.node
        /\ m \in 1..n /\ from.parent[m] = p /\ frames[L].node = p /\ p \in 1..b
  BY RecordQualWalks
<1>2. usages' = IF from.join[m].qual = "USING" THEN RecordUsing(usages, m) ELSE usages
  BY <1>1 DEF RecordQual
<1>3. usages \in Seq(Usage) /\ \A k \in DOMAIN usages : HasItsSides(usages[k])
  BY UsageByUsage DEF UsagesOK
<1>4. CASE usages' = usages
  BY <1>3, <1>4
<1>5. CASE usages' # usages
  <2>1. PICK T \in Nat : T = Len(tables) /\ DOMAIN tables = 1..T
    BY DEF EntriesOK
  <2>2. PICK last, left : last = Max(BaseTables(tables)) /\ left = Max(BaseTables(tables) \ {last})
    OBVIOUS
  <2>3. PICK u : u = [clause |-> m, left |-> tables[left].raw, right |-> tables[last].raw]
    OBVIOUS
  <2>4. ~(Cardinality(BaseTables(tables)) < 2) /\ usages' = Append(usages, u)
    BY <1>2, <1>5, <2>2, <2>3 DEF RecordUsing
  <2>5. u \in Usage
    <3>1. BaseTables(tables) \in SUBSET (1..T)
      BY <2>1 DEF BaseTables
    <3>2. last \in 1..T /\ left \in 1..T
      BY <2>2, <2>4, <3>1, LastTwo
    <3>3. \A k \in 1..T : tables[k].raw \in 1..2 * MaxRefs
      <4>1. \A k \in 1..T : tables[k] \in TableRef
        BY <2>1 DEF EntriesOK
      <4> QED BY <4>1 DEF TableRef
    <3>4. m \in 1..MaxRefs
      BY <1>0, <1>1
    <3> QED BY <2>3, <3>2, <3>3, <3>4 DEF Usage
  <2>6. u.clause = m /\ u.left = tables[left].raw /\ u.right = tables[last].raw
    BY <2>3
  <2>7. HasItsSides(u)
    <3> SUFFICES ASSUME \A x \in Nested(from, p) : x <= m, IsBase(m), Nested(from, m) = {},
                        \E x \in LeftOperand(m) : IsBase(x), \A x \in Refs : from.kind[x] # "subquery"
                 PROVE  HasSides(u)
      BY <1>1, <2>6 DEF HasItsSides
    <3>1. m \in 1..b
      <4>1. ActiveAt("nested") /\ Remaining(Top.node, Top.child) = {}
        BY DEF RecordQual
      <4>2. Top.child \in 0..b /\ \A x \in 1..n : from.parent[x] = Top.node => x <= Top.child
        BY <4>1, NothingRemains
      <4>3. m <= Top.child
        BY <1>1, <4>2
      <4> QED BY <1>0, <1>1, <4>2, <4>3
    <3>2. m = b
      <4>1. /\ \A x \in 1..n : from.parent[x] = p => x <= m
            /\ \A x \in 1..n : from.parent[x] # m
        BY RefsOfClause
      <4>2. L \in DOMAIN frames
        BY <1>1
      <4>3. p \in 1..b /\ frames[L].node = p /\ from.parent[m] = p
        BY <1>1
      <4> QED BY <3>1, <4>1, <4>2, <4>3, LastRecorded
    <3>3. b \in 1..n /\ from.parent[b] # 0 /\ \A x \in 1..n : from.kind[x] # "subquery"
      BY <1>0, <1>1, <3>1, <3>2, RefsOfClause
    <3>4. tables[left].raw \in LeftOperand(b) /\ tables[last].raw \in RightOperand(b)
      BY <2>1, <2>2, <2>4, <3>2, <3>3, SidesRecorded
    <3> QED BY <2>6, <3>2, <3>4 DEF HasSides
  <2>8. PICK K \in Nat : K = Len(usages) /\ DOMAIN usages = 1..K
    BY <1>3
  <2>9. /\ usages' \in Seq(Usage) /\ DOMAIN usages' = 1..K + 1 /\ usages'[K + 1] = u
        /\ \A k \in 1..K : usages'[k] = usages[k]
    BY <1>3, <2>4, <2>5, <2>8, Pushed
  <2>10. \A k \in 1..K + 1 : k = K + 1 \/ k \in 1..K
    OBVIOUS
  <2> QED BY <1>3, <2>7, <2>8, <2>9, <2>10
<1> QED BY <1>4, <1>5

LEMMA RecordQualUsages ==
  ASSUME NEW n \in 1..MaxRefs, NEW b \in 0..n, ClauseOK(n), StackOK(n, b), VisitOrder(n, b),
         EntriesOK(tables, b), UsagesOK, RecordQual
  PROVE  UsagesOK'
<1>1. usages' \in Seq(Usage) /\ \A k \in DOMAIN usages' : HasItsSides(usages'[k])
  BY UsageRecorded
<1>2. from' = from
  BY DEF RecordQual
<1>3. \A u : HasItsSides(u)' <=> HasItsSides(u)
  <2>1. \A m : IsBase(m)' <=> IsBase(m)
    BY <1>2 DEF IsBase
  <2>2. \A m : LeftOperand(m)' = LeftOperand(m) /\ RightOperand(m)' = RightOperand(m)
    BY <1>2 DEF LeftOperand, RightOperand, Ancestors, Refs
  <2>3. \A u : HasSides(u)' <=> HasSides(u)
    BY <2>2 DEF HasSides
  <2> QED BY <1>2, <2>1, <2>2, <2>3 DEF HasItsSides, Refs
<1>4. LastUsingHasSides'
  <2>1. \A k \in DOMAIN usages' : HasItsSides(usages[k])'
    <3> SUFFICES ASSUME NEW k \in DOMAIN usages', NEW u, u = usages'[k] PROVE HasItsSides(u)'
      BY DEF HasItsSides, HasSides
    <3> QED BY <1>1, <1>3
  <2> QED BY <2>1 DEF LastUsingHasSides, HasItsSides, IsBase
<1> QED BY <1>1, <1>4 DEF UsagesOK

LEMMA LateralKept ==
  ASSUME NEW n, NEW v, from' = from, correlations' = correlations, LateralOK(n, v)
  PROVE  LateralOK(n, v)'
  BY DEF LateralOK, SourceOf, Registering, Refs

LEMMA RegisterLateral ==
  ASSUME NEW n \in 1..MaxRefs, NEW b \in 0..n, ClauseOK(n), StackOK(n, b), VisitOrder(n, b), TablesOK(b),
         LateralOK(n, Entered(b)), Register
  PROVE  LateralOK(n, Entered(b))'
<1>0. /\ from' = from /\ UNCHANGED item /\ ActiveAt("register") /\ frames' = Registered
  BY DEF Register, RegisterRelation, RegisterFunction, RegisterSubquery, RegisterNothing
<1>1. b \in 1..n /\ Top.node = b /\ ~ActiveAt("register")'
  BY <1>0, RegisterWalks
<1>2. /\ b \in Nat /\ n \in Nat /\ b <= n /\ n <= MaxRefs /\ MaxRefs \in Nat
      /\ Entered(b) = b - 1 /\ Entered(b)' = b
  BY <1>0, <1>1, WalkTypes DEF Entered
<1>3. EntriesOK(tables', b)
  BY <1>1, <1>2, RegisterTables DEF TablesOK, Register
<1>4. Registering' = Registering
  BY <1>0 DEF Registering, Refs
<1>5. \A m \in 1..n : m <= b => m = b \/ m <= b - 1
  BY <1>2
<1>6. CASE RegisterFunction
  <2>1. PICK ts : ts = tables'
    OBVIOUS
  <2>2. /\ correlations' = correlations \cup DetectLateralCorrelation(ts, b)
        /\ EntriesOK(ts, b)
    BY <1>1, <1>3, <1>6, <2>1 DEF RegisterFunction
  <2>3. ASSUME NEW c \in DetectLateralCorrelation(ts, b) PROVE SourceOf(c.outer) <= c.function
    <3>1. PICK k \in DOMAIN ts : c = [outer |-> ts[k].raw, function |-> b]
      BY DEF DetectLateralCorrelation
    <3>2. Src(ts[k]) \in 1..b
      BY <2>2 DEF EntriesOK, EntryOK
    <3>3. SourceOf(ts[k].raw) = Src(ts[k])
      BY DEF SourceOf, Src, IsInner
    <3> QED BY <1>2, <3>1, <3>2, <3>3
  <2>4. 1 \in Registering => [outer |-> 1, function |-> b] \in DetectLateralCorrelation(ts, b)
    <3> SUFFICES ASSUME 1 \in Registering PROVE [outer |-> 1, function |-> b] \in DetectLateralCorrelation(ts, b)
      OBVIOUS
    <3>1. 1 <= b
      BY <1>1
    <3>2. PICK k \in DOMAIN ts : ts[k].raw = 1
      BY <2>2, <3>1 DEF EntriesOK, EachEntered
    <3>3. 1 <= MaxRefs
      BY <1>1, <1>2
    <3>4. ~IsInner(ts[k])
      BY <1>2, <3>2, <3>3 DEF IsInner
    <3>5. ts[k].name = 1
      BY <2>2, <3>2, <3>4 DEF EntriesOK, EntryOK
    <3> QED BY <3>2, <3>5 DEF DetectLateralCorrelation
  <2>5. \A c \in correlations' : SourceOf(c.outer) <= c.function
    BY <2>2, <2>3 DEF LateralOK
  <2>6. \A m \in 1..n : from.kind[m] = "function" /\ 1 \in Registering /\ m <= b =>
          [outer |-> 1, function |-> m] \in correlations'
    BY <1>2, <1>5, <2>2, <2>4 DEF LateralOK
  <2>7. \A x : SourceOf(x)' = SourceOf(x)
    BY DEF SourceOf
  <2> QED BY <1>0, <1>2, <1>4, <2>5, <2>6, <2>7 DEF LateralOK
<1>7. CASE ~RegisterFunction
  <2>1. correlations' = correlations /\ from.kind[b] # "function"
    BY <1>1, <1>7 DEF Register, RegisterRelation, RegisterSubquery, RegisterNothing, results
  <2>2. \A m \in 1..n : from.kind[m] = "function" /\ 1 \in Registering /\ m <= b =>
          [outer |-> 1, function |-> m] \in correlations
    BY <1>2, <1>5, <2>1 DEF LateralOK
  <2>3. \A x : SourceOf(x)' = SourceOf(x)
    BY DEF SourceOf
  <2> QED BY <1>0, <1>2, <1>4, <2>1, <2>2, <2>3 DEF LateralOK
<1> QED BY <1>6, <1>7

-------------------------------------------------------------------------------
(* The invariant.                                                          *)

LEMMA InitWalks == Init => IInv
<1> SUFFICES ASSUME Init PROVE IInv
  OBVIOUS
<1>1. PICK n \in 1..MaxRefs : ClauseOK(n)
  BY ClausesAreOK DEF Init
<1>2. /\ frames = << >> /\ item = 0 /\ tables = << >> /\ joinConditions = << >>
      /\ usages = << >> /\ correlations = {}
  BY DEF Init
<1>3. n \in Nat /\ MaxRefs \in Nat
  BY MaxRefsAssumption
<1>4. /\ DOMAIN frames = {} /\ OnStack = {} /\ DOMAIN tables = {} /\ DOMAIN joinConditions = {}
      /\ DOMAIN usages = {}
  BY <1>2 DEF OnStack
<1>5. StackOK(n, 0)
  BY <1>2, <1>4 DEF StackOK
<1>6. VisitOrder(n, 0)
  <2>1. \A x \in 1..n : from.parent[x] > 0 \/ from.parent[x] = 0
    BY <1>1, <1>3, RefsOfClause
  <2>2. \A x \in 0 + 1..n : x \in 1..n
    BY <1>3
  <2>3. 0 \in 0..n /\ \A x \in 1..n : x > 0
    BY <1>3
  <2> QED BY <1>2, <1>4, <2>1, <2>2, <2>3 DEF VisitOrder
<1>7. Entered(0) = 0
  BY <1>2 DEF Entered, ActiveAt
<1>8. EntriesOK(tables, 0) /\ KeysOK(tables) /\ BeforeOK /\ JoinsOK
  <2>1. \A m \in Registering : ~(m <= 0)
    BY <1>1, TypesOfRefs
  <2>2. EntriesOK(tables, 0)
    BY <1>2, <1>4, <2>1 DEF EntriesOK, InSourceOrder, EachEntered
  <2> QED BY <1>4, <2>2 DEF KeysOK, InnerOnce, BeforeOK, JoinsOK
<1>9. QualsOK(n, 0)
  <2>1. \A m \in 1..n : ~Recorded(m, 0)
    <3>1. \A m \in 1..n : from.parent[m] \notin 1..0
      OBVIOUS
    <3> QED BY <3>1 DEF Recorded
  <2> QED BY <1>2, <1>4, <2>1 DEF QualsOK
<1>10. UsagesOK
  BY <1>2, <1>4 DEF UsagesOK, LastUsingHasSides
<1>11. LateralOK(n, 0)
  BY <1>2 DEF LateralOK
<1>12. WalkInv(n, 0)
  BY <1>1, <1>5, <1>6, <1>7, <1>8, <1>9, <1>10, <1>11 DEF WalkInv
<1>13. 0 \in 0..n
  BY <1>3
<1> QED BY <1>12, <1>13 DEF IInv

LEMMA NextWalks ==
  ASSUME NEW n \in 1..MaxRefs, NEW b \in 0..n, WalkInv(n, b), Next
  PROVE  \E c \in 0..n : WalkInv(n, c)'
<1>0. /\ ClauseOK(n) /\ StackOK(n, b) /\ VisitOrder(n, b) /\ TablesOK(b)
      /\ QualsOK(n, b) /\ UsagesOK /\ LateralOK(n, Entered(b)) /\ b \in Nat
  BY WalkTypes DEF WalkInv, TablesOK
<1>1. from' = from
  BY DEF Next, NextItem, RegisterRelation, RegisterFunction, RegisterSubquery, RegisterNothing, VisitNested,
         RecordQual, Return
<1>2. ClauseOK(n)'
  BY <1>0, <1>1, ClauseKept
<1>3. ASSUME NEW c \in 0..n, StackOK(n, c)', VisitOrder(n, c)', TablesOK(c)', QualsOK(n, c)', UsagesOK',
             LateralOK(n, Entered(c))'
      PROVE  \E d \in 0..n : WalkInv(n, d)'
  <2>1. WalkInv(n, c)'
    BY <1>2, <1>3 DEF WalkInv, TablesOK
  <2> QED BY <2>1
<1>4. CASE NextItem
  <2>1. b + 1 \in 1..n /\ frames' = <<Call(b + 1)>> /\ StackOK(n, b + 1)' /\ VisitOrder(n, b + 1)'
    BY <1>0, <1>4, NextItemWalks
  <2>2. TablesOK(b + 1)' /\ QualsOK(n, b + 1)'
    BY <1>0, <1>4, NextItemTables, NextItemQuals
  <2>3. usages' = usages /\ correlations' = correlations /\ frames = << >>
    BY <1>4 DEF NextItem, results
  <2>4. Entered(b + 1)' = Entered(b)
    <3>1. Len(frames') = 1 /\ frames'[1].stage = "register"
      BY <2>1 DEF Call
    <3>2. ActiveAt("register")' /\ ~ActiveAt("register")
      BY <2>1, <2>3, <3>1 DEF ActiveAt, Top, Last
    <3> QED BY <1>0, <3>2 DEF Entered
  <2>5. UsagesOK' /\ LateralOK(n, Entered(b + 1))'
    BY <1>0, <1>1, <2>3, <2>4, UsagesKept, LateralKept DEF LateralOK
  <2>6. b + 1 \in 0..n
    BY <2>1
  <2> QED BY <1>3, <2>1, <2>2, <2>5, <2>6
<1>5. CASE Register
  <2>1. /\ from' = from /\ UNCHANGED item /\ ActiveAt("register") /\ frames' = Registered /\ usages' = usages
    BY <1>5 DEF Register, RegisterRelation, RegisterFunction, RegisterSubquery, RegisterNothing, results
  <2>2. StackOK(n, b)' /\ VisitOrder(n, b)'
    BY <1>0, <2>1, RegisterWalks
  <2>3. TablesOK(b)' /\ QualsOK(n, b)' /\ LateralOK(n, Entered(b))'
    BY <1>0, <1>5, RegisterKeepsTables, RegisterQuals, RegisterLateral
  <2>4. UsagesOK'
    BY <1>0, <2>1, UsagesKept
  <2> QED BY <1>3, <2>2, <2>3, <2>4
<1>6. CASE VisitNested
  <2>0. Len(tables) \in Nat
    BY <1>0 DEF TablesOK, EntriesOK
  <2>1. PICK L \in Nat \ {0} :
          /\ b + 1 \in 1..n /\ Len(frames') = L + 1 /\ DOMAIN frames' = 1..L + 1
          /\ frames'[L + 1].stage = "register" /\ StackOK(n, b + 1)' /\ VisitOrder(n, b + 1)'
    BY <1>0, <1>6, <2>0, VisitNestedWalks
  <2>2. TablesOK(b + 1)' /\ QualsOK(n, b + 1)'
    BY <1>0, <1>6, <2>0, VisitNestedTables, VisitNestedQuals
  <2>3. usages' = usages /\ correlations' = correlations /\ ActiveAt("nested")
    BY <1>6 DEF VisitNested, results
  <2>4. Entered(b + 1)' = Entered(b)
    <3>1. ActiveAt("register")' /\ ~ActiveAt("register")
      BY <2>1, <2>3 DEF ActiveAt, Top, Last
    <3> QED BY <1>0, <3>1 DEF Entered
  <2>5. UsagesOK' /\ LateralOK(n, Entered(b + 1))'
    BY <1>0, <1>1, <2>3, <2>4, UsagesKept, LateralKept DEF LateralOK
  <2>6. b + 1 \in 0..n
    BY <2>1
  <2> QED BY <1>3, <2>1, <2>2, <2>5, <2>6
<1>7. CASE RecordQual
  <2>1. StackOK(n, b)' /\ VisitOrder(n, b)' /\ ~ActiveAt("register") /\ ~ActiveAt("register")'
    BY <1>0, <1>7, RecordQualWalks
  <2>2. TablesOK(b)' /\ QualsOK(n, b)'
    BY <1>0, <1>7, RecordQualTables, RecordQualQuals
  <2>3. Entered(b) = b /\ Entered(b)' = b
    BY <2>1 DEF Entered
  <2>4. UsagesOK'
    BY <1>0, <1>7, <2>3, RecordQualUsages DEF TablesOK
  <2>5. correlations' = correlations
    BY <1>7 DEF RecordQual
  <2>6. LateralOK(n, Entered(b))'
    BY <1>0, <1>1, <2>3, <2>5, LateralKept DEF LateralOK
  <2> QED BY <1>3, <2>1, <2>2, <2>4, <2>6
<1>8. CASE Return
  <2>1. StackOK(n, b)' /\ VisitOrder(n, b)' /\ ~ActiveAt("register") /\ ~ActiveAt("register")'
    BY <1>0, <1>8, ReturnWalks
  <2>2. TablesOK(b)' /\ QualsOK(n, b)'
    BY <1>0, <1>8, ReturnTables, ReturnQuals
  <2>3. Entered(b) = b /\ Entered(b)' = b
    BY <2>1 DEF Entered
  <2>4. usages' = usages /\ correlations' = correlations
    BY <1>8 DEF Return
  <2>5. UsagesOK'
    BY <1>0, <1>1, <2>4, UsagesKept
  <2>6. LateralOK(n, Entered(b))'
    BY <1>0, <1>1, <2>3, <2>4, LateralKept DEF LateralOK
  <2> QED BY <1>3, <2>1, <2>2, <2>5, <2>6
<1> QED BY <1>4, <1>5, <1>6, <1>7, <1>8 DEF Next, Register

LEMMA StutterWalks ==
  ASSUME NEW n \in 1..MaxRefs, NEW b \in 0..n, WalkInv(n, b), UNCHANGED vars
  PROVE  WalkInv(n, b)'
<1>1. /\ from' = from /\ frames' = frames /\ item' = item /\ tables' = tables
      /\ joinConditions' = joinConditions /\ usages' = usages /\ correlations' = correlations
  BY DEF vars
<1>2. ClauseOK(n)'
  BY <1>1, ClauseKept DEF WalkInv
<1>3. OnStack' = OnStack /\ (ActiveAt("register")' <=> ActiveAt("register"))
  BY <1>1 DEF OnStack, ActiveAt, Top
<1>4. Entered(b)' = Entered(b)
  BY <1>3 DEF Entered
<1>5. StackOK(n, b)' /\ VisitOrder(n, b)'
  <2>1. StackOK(n, b) /\ VisitOrder(n, b)
    BY DEF WalkInv
  <2>2. ASSUME NEW i \in DOMAIN frames, FrameOK(i, n, b) PROVE FrameOK(i, n, b)'
    BY <1>1, <2>2 DEF FrameOK
  <2>3. StackOK(n, b)'
    BY <1>1, <2>1, <2>2 DEF StackOK
  <2>4. VisitOrder(n, b)'
    BY <1>1, <1>3, <2>1 DEF VisitOrder
  <2> QED BY <2>3, <2>4
<1>6. EntriesOK(tables, Entered(b))' /\ KeysOK(tables)'
  <2>1. PICK v : v = Entered(b)
    OBVIOUS
  <2>2. EntriesOK(tables, v) /\ KeysOK(tables)
    BY <2>1 DEF WalkInv
  <2>3. PICK ts : ts = tables
    OBVIOUS
  <2>4. EntriesOK(ts, v)' /\ KeysOK(ts)'
    BY <1>1, <2>2, <2>3, ClauseKept
  <2>5. ts = tables'
    BY <1>1, <2>3
  <2> QED BY <1>4, <2>1, <2>4, <2>5 DEF EntriesOK, EntryOK, InSourceOrder, EachEntered, KeysOK, InnerOnce, ReadByOuter
<1>7. BeforeOK'
  BY <1>1 DEF WalkInv, BeforeOK, Src, IsInner
<1>8. JoinsOK'
  <2>1. \A k \in DOMAIN tables : Src(tables[k]) \in 1..b
    BY EntrySources DEF WalkInv
  <2> QED BY <1>1, <1>3, <2>1, JoinsKept DEF WalkInv
<1>9. QualsOK(n, b)'
  <2>1. \A m \in 1..n : PassedBy(m)' <=> PassedBy(m)
    BY <1>1 DEF PassedBy
  <2> QED BY <1>1, <2>1, QualsKept DEF WalkInv
<1>10. UsagesOK'
  BY <1>1, UsagesKept DEF WalkInv
<1>11. LateralOK(n, Entered(b))'
  <2>1. PICK v : v = Entered(b)
    OBVIOUS
  <2>2. LateralOK(n, v)'
    BY <1>1, <2>1, LateralKept DEF WalkInv
  <2> QED BY <1>4, <2>1, <2>2 DEF LateralOK
<1> QED BY <1>2, <1>5, <1>6, <1>7, <1>8, <1>9, <1>10, <1>11 DEF WalkInv

(* At the end of the walk every reference has been begun. *)
LEMMA AllBegun ==
  ASSUME NEW n \in 1..MaxRefs, NEW b \in 0..n, WalkInv(n, b), Walked
  PROVE  b = n /\ Entered(b) = n /\ OnStack = {} /\ DOMAIN frames = {} /\ Refs = 1..n
<1>0. n \in Nat /\ b \in Nat /\ b <= n /\ ClauseOK(n) /\ StackOK(n, b) /\ VisitOrder(n, b)
  BY WalkTypes DEF WalkInv
<1>1. frames = << >> /\ Remaining(0, item) = {}
  BY DEF Walked
<1>2. OnStack = {} /\ DOMAIN frames = {}
  BY <1>1 DEF OnStack
<1>3. Entered(b) = b
  BY <1>1 DEF Entered, ActiveAt
<1>4. ASSUME b < n PROVE FALSE
  <2>1. b + 1 \in 1..n /\ b + 1 \in b + 1..n
    BY <1>0, <1>4
  <2>2. from.parent[b + 1] \in Nat /\ from.parent[b + 1] < b + 1
    BY <1>0, <2>1, RefsOfClause
  <2>3. from.parent[b + 1] = 0
    BY <1>0, <1>2, <2>1, <2>2 DEF VisitOrder
  <2>4. ~(b + 1 > item)
    <3>1. Remaining(0, item) = {m \in 1..n : from.parent[m] = 0 /\ m > item}
      BY <1>0, RefsOfClause
    <3> QED BY <1>1, <2>1, <2>3, <3>1
  <2> QED BY <1>0, <2>4 DEF StackOK
<1>5. Refs = 1..n
  BY <1>0, RefsOfClause
<1> QED BY <1>0, <1>2, <1>3, <1>4, <1>5

LEMMA SourceOrderFromIInv == IInv => TablesInSourceOrder
<1> SUFFICES ASSUME NEW n \in 1..MaxRefs, NEW b \in 0..n, WalkInv(n, b) PROVE TablesInSourceOrder
  BY DEF IInv
<1>0. n \in Nat /\ MaxRefs \in Nat /\ n <= MaxRefs /\ ClauseOK(n)
  BY WalkTypes DEF WalkInv
<1>1. EntriesOK(tables, Entered(b)) /\ KeysOK(tables)
  BY DEF WalkInv
<1>2. PICK own : own = {k \in DOMAIN tables : ~IsInner(tables[k])}
  OBVIOUS
<1>3. \A k \in own : k \in DOMAIN tables /\ Src(tables[k]) = tables[k].raw /\ ~IsInner(tables[k])
  BY <1>2 DEF Src
<1>4. \A k, l \in own : k < l => tables[k].raw < tables[l].raw
  BY <1>1, <1>3 DEF EntriesOK, InSourceOrder
<1>5. ASSUME Walked PROVE {tables[k].raw : k \in own} = Registering
  <2>1. Entered(b) = n
    BY <1>5, AllBegun
  <2>2. \A k \in own : tables[k].raw \in Registering
    BY <1>1, <1>3 DEF EntriesOK, EntryOK
  <2>3. ASSUME NEW m \in Registering PROVE \E k \in own : tables[k].raw = m
    <3>1. m \in 1..n
      BY <1>0, TypesOfRefs
    <3>2. PICK k \in DOMAIN tables : tables[k].raw = m
      BY <1>0, <1>1, <2>1, <3>1 DEF EntriesOK, EachEntered
    <3>3. ~(m > MaxRefs)
      BY <1>0, <3>1
    <3>4. k \in own
      BY <1>2, <3>2, <3>3 DEF IsInner
    <3> QED BY <3>2, <3>4
  <2> QED BY <2>2, <2>3
<1>6. ASSUME NEW k \in DOMAIN tables, IsInner(tables[k])
      PROVE  /\ k > 1 /\ tables[k - 1].raw = tables[k].raw - MaxRefs
             /\ \A l \in 1..k - 1 : TableKey(tables[l]) # TableKey(tables[k])
  <2>1. EntryOK(tables, k, Entered(b)) /\ Src(tables[k]) = tables[k].raw - MaxRefs
    BY <1>1, <1>6 DEF EntriesOK, Src
  <2> QED BY <1>1, <1>6, <2>1 DEF EntryOK, KeysOK, InnerOnce
<1>7. ASSUME NEW k \in DOMAIN tables, tables[k].type = "subquery"
      PROVE  \E l \in DOMAIN tables : TableKey(tables[l]) = <<from.inner[tables[k].raw], "base">>
  BY <1>1, <1>7 DEF KeysOK, ReadByOuter
<1> QED BY <1>2, <1>4, <1>5, <1>6, <1>7 DEF TablesInSourceOrder

LEMMA NoJoinUnqualified == NoJoin.qual = "none" /\ NoJoin \notin Joins
<1>1. NoJoin.qual = "none" /\ NoJoin.words = ""
  BY DEF NoJoin
<1>2. ~Unqualified(NoJoin.words)
  BY <1>1 DEF Unqualified
<1> QED BY <1>1, <1>2, JoinsAssumption

LEMMA JoinMetaFromIInv == IInv => JoinMetaOnItsTable
<1> SUFFICES ASSUME NEW n \in 1..MaxRefs, NEW b \in 0..n, WalkInv(n, b), Walked, NoXmltable,
                    NEW k \in DOMAIN tables, NEW t, t = tables[k],
                    NEW j, j = from.join[OperandOf(t.raw)]
             PROVE  IF IsInner(t) \/ j = NoJoin THEN t.joinType = "" /\ t.joinCondition = 0
                    ELSE /\ t.joinType = IF j.words = "" THEN "JOIN" ELSE j.words
                         /\ t.joinCondition = IF j.qual = "none" THEN 0 ELSE OperandOf(t.raw)
  BY DEF IInv, JoinMetaOnItsTable, NoXmltable
<1>0. n \in Nat /\ ClauseOK(n) /\ b \in Nat /\ b <= n
  BY WalkTypes DEF WalkInv
<1>1. EntryJoined(t)
  BY DEF WalkInv, JoinsOK
<1>2. OnStack = {}
  BY AllBegun
<1>3. CASE IsInner(t)
  <2>1. HasMeta(t, Unjoined)
    BY <1>1, <1>3 DEF EntryJoined
  <2> QED BY <1>3, <2>1 DEF HasMeta, Unjoined
<1>4. CASE ~IsInner(t)
  <2>1. PICK r \in 1..n : r = t.raw
    <3>1. Src(t) \in 1..b /\ Src(t) = t.raw
      BY <1>4, EntrySources DEF WalkInv, Src
    <3> QED BY <1>0, <3>1
  <2>2. PICK m \in Chain(r) : m = OperandOf(r) /\ \A y \in Chain(r) : m <= y
    <3>1. OperandOf(r) = Min(Chain(r))
      BY DEF OperandOf, Chain
    <3>2. Chain(r) \in SUBSET (1..r) /\ r \in Chain(r)
      BY <1>0 DEF Chain
    <3> QED BY <1>0, <3>1, <3>2, MinOfIndices
  <2>3. m \in 1..r /\ m \in 1..n
    BY <1>0, <2>2 DEF Chain
  <2>4. m - 1 \notin Chain(r)
    BY <2>2, <2>3
  <2>5. HasMeta(t, Meta(m))
    BY <1>1, <1>2, <1>4, <2>1, <2>2, <2>3, <2>4 DEF EntryJoined, OutermostReturned
  <2>6. ~InParens(from, m)
    <3> SUFFICES ASSUME InParens(from, m) PROVE FALSE
      OBVIOUS
    <3>1. from.parent[m] # 0 /\ m = from.parent[m] + 1 /\ from.parent[m] \in Nat
      BY <1>0, <2>3, RefsOfClause DEF InParens
    <3>2. m - 1 \in 1..r
      BY <1>0, <2>3, <3>1
    <3> QED BY <2>2, <2>4, <3>2, ChainFacts
  <2>7. from.join[m] \in IF m \in Joined(from) THEN Joins ELSE {NoJoin}
    BY <1>0, <2>3 DEF ClauseOK
  <2>8. m \in Joined(from) <=> from.parent[m] # 0
    BY <1>0, <2>3, <2>6, RefsOfClause DEF Joined
  <2>9. j = from.join[m] /\ m = OperandOf(t.raw)
    BY <2>1, <2>2
  <2>10. CASE from.parent[m] = 0
    <3>1. j = NoJoin /\ HasMeta(t, Unjoined)
      BY <2>5, <2>7, <2>8, <2>9, <2>10 DEF Meta
    <3> QED BY <3>1 DEF HasMeta, Unjoined
  <2>11. CASE from.parent[m] # 0
    <3>1. j \in Joins /\ HasMeta(t, JoinMeta(m))
      BY <2>5, <2>7, <2>8, <2>9, <2>11 DEF Meta
    <3>2. j # NoJoin
      BY <3>1, NoJoinUnqualified
    <3> QED BY <1>4, <2>6, <2>9, <3>1, <3>2 DEF HasMeta, JoinMeta
  <2> QED BY <2>10, <2>11
<1> QED BY <1>3, <1>4

LEMMA QualsFromIInv == IInv => EveryQualOnce
<1> SUFFICES ASSUME NEW n \in 1..MaxRefs, NEW b \in 0..n, WalkInv(n, b) PROVE EveryQualOnce
  BY DEF IInv
<1>0. n \in Nat /\ ClauseOK(n) /\ QualsOK(n, b)
  BY WalkTypes DEF WalkInv
<1>1. ASSUME Walked
      PROVE  {joinConditions[k] : k \in DOMAIN joinConditions} = {m \in Refs : from.join[m].qual # "none"}
  <2>1. b = n /\ DOMAIN frames = {} /\ Refs = 1..n
    BY <1>1, AllBegun
  <2>2. ASSUME NEW m \in 1..n PROVE Recorded(m, n) <=> from.join[m].qual # "none"
    <3>1. PassedBy(m)
      BY <2>1 DEF PassedBy
    <3>2. from.parent[m] \in 0..n - 1
      BY <1>0, RefsOfClause
    <3>3. from.parent[m] = 0 => from.join[m] = NoJoin
      BY <1>0 DEF ClauseOK, Joined
    <3>4. from.parent[m] = 0 => from.join[m].qual = "none"
      BY <3>3, NoJoinUnqualified
    <3> QED BY <1>0, <3>1, <3>2, <3>4 DEF Recorded
  <2>3. \A k \in DOMAIN joinConditions : joinConditions[k] \in 1..n
    BY <1>0 DEF QualsOK
  <2>4. \A m \in 1..n : Recorded(m, n) <=> \E k \in DOMAIN joinConditions : joinConditions[k] = m
    BY <1>0, <2>1 DEF QualsOK
  <2> QED BY <2>1, <2>2, <2>3, <2>4
<1>2. EachQualRecorded
  BY <1>0, <1>1 DEF EachQualRecorded, QualsOK
<1> QED BY <1>2 DEF EveryQualOnce, WalkInv, UsagesOK

LEMMA LateralFromIInv == IInv => LateralCallsCorrelated
<1> SUFFICES ASSUME NEW n \in 1..MaxRefs, NEW b \in 0..n, WalkInv(n, b) PROVE LateralCallsCorrelated
  BY DEF IInv
<1>1. ASSUME Walked, NEW m \in Refs, from.kind[m] = "function", 1 \in Registering
      PROVE  [outer |-> 1, function |-> m] \in correlations
  <2>1. Entered(b) = n /\ Refs = 1..n
    BY <1>1, AllBegun
  <2>2. m <= n /\ m \in 1..n
    BY <1>1, <2>1
  <2> QED BY <1>1, <2>1, <2>2 DEF WalkInv, LateralOK
<1>2. \A c \in correlations : SourceOf(c.outer) <= c.function
  BY DEF WalkInv, LateralOK
<1> QED BY <1>1, <1>2 DEF LateralCallsCorrelated, SourceOf

-------------------------------------------------------------------------------
(* The theorems.                                                           *)

(* The walk keeps to the source: the calls begin on the references in      *)
(* source order, each list of results is what the branches taken leave.    *)
THEOREM Invariance == Spec => []IInv
<1>1. Init => IInv
  BY InitWalks
<1>2. IInv /\ [Next]_vars => IInv'
  <2> SUFFICES ASSUME NEW n \in 1..MaxRefs, NEW b \in 0..n, WalkInv(n, b), [Next]_vars PROVE IInv'
    BY DEF IInv
  <2>1. CASE Next
    <3>1. \E c \in 0..n : WalkInv(n, c)'
      BY <2>1, NextWalks
    <3> QED BY <3>1 DEF IInv
  <2>2. CASE UNCHANGED vars
    <3>1. WalkInv(n, b)'
      BY <2>2, StutterWalks
    <3> QED BY <3>1 DEF IInv
  <2> QED BY <2>1, <2>2
<1> QED BY <1>1, <1>2, PTL DEF Spec

(* collectTableRefs leaves an entry for every relation, function and       *)
(* subquery, in source order, and every table read inside a subquery.      *)
THEOREM SourceOrdered == Spec => []TablesInSourceOrder
  BY Invariance, SourceOrderFromIInv, PTL

(* The first entry of a joined operand carries its join, and no other.     *)
THEOREM JoinsOnTheirTables == Spec => []JoinMetaOnItsTable
  BY Invariance, JoinMetaFromIInv, PTL

(* Every ON and USING is recorded once, an inner one first, and a USING    *)
(* that ends its table_ref relates its own two operands.                   *)
THEOREM QualsRecorded == Spec => []EveryQualOnce
  BY Invariance, QualsFromIInv, PTL

(* A function after the first reference is correlated with it, and no      *)
(* function with what comes after it.                                      *)
THEOREM LateralsCorrelated == Spec => []LateralCallsCorrelated
  BY Invariance, LateralFromIInv, PTL
===============================================================================
