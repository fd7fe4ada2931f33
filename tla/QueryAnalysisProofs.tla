-------------------------- MODULE QueryAnalysisProofs --------------------------
(***************************************************************************)
(* Proofs about QueryAnalysis for every value of its constants: types, the *)
(* absence of duplicates, that the loops implement RelationshipSet in      *)
(* whatever order the contexts are visited, and that the WHERE conditions  *)
(* are those of the filters, with the values that are written.             *)
(***************************************************************************)
EXTENDS QueryAnalysis, LeastElement, TLAPS

--------------------------------------------------------------------------------
(* Facts about sequences that grow at the end. *)

LEMMA AppendFacts ==
  ASSUME NEW S, NEW s \in Seq(S), NEW x \in S
  PROVE  /\ Append(s, x) \in Seq(S) /\ Len(Append(s, x)) = Len(s) + 1
         /\ \A k \in DOMAIN s : k \in DOMAIN Append(s, x) /\ Append(s, x)[k] = s[k]
         /\ Append(s, x)[Len(s) + 1] = x
         /\ DOMAIN Append(s, x) = DOMAIN s \cup {Len(s) + 1}
         /\ DOMAIN s = 1..Len(s) /\ Len(s) \in Nat
OBVIOUS

LEMMA RangeOfAppend ==
  ASSUME NEW S, NEW s \in Seq(S), NEW x \in S
  PROVE  Range(Append(s, x)) = Range(s) \cup {x}
<1>1. \A y \in Range(Append(s, x)) : y \in Range(s) \cup {x}
  BY AppendFacts DEF Range
<1>2. Range(s) \subseteq Range(Append(s, x))
  BY AppendFacts DEF Range
<1>3. x \in Range(Append(s, x))
  <2>1. Len(s) + 1 \in DOMAIN Append(s, x) /\ Append(s, x)[Len(s) + 1] = x
    BY AppendFacts
  <2> QED BY <2>1 DEF Range
<1> QED BY <1>1, <1>2, <1>3

LEMMA RangeOfEmpty == Range(<< >>) = {}
BY DEF Range

(* What Add does to what is found. *)
LEMMA AddFacts ==
  ASSUME NEW S, NEW s \in Seq(S), NEW r, r = Nil \/ r \in S
  PROVE  /\ Add(s, r) \in Seq(S)
         /\ Range(Add(s, r)) = Range(s) \cup ({r} \ {Nil})
<1>1. CASE r = Nil
  BY <1>1 DEF Add
<1>2. CASE r # Nil
  BY <1>2, AppendFacts, RangeOfAppend DEF Add
<1> QED BY <1>1, <1>2

(* What is found is what the conditions give. *)
LEMMA Derived ==
  /\ \A q, k, n : k \in DOMAIN q.conditions /\ n \in 1..MaxColumns =>
       OfEquality(q, k, n) = Nil \/ OfEquality(q, k, n) \in Derivable(q)
  /\ \A q : \A x \in Contexts(q) : OfContext(q, x) = Nil \/ OfContext(q, x) \in Derivable(q)
BY DEF Derivable

LEMMA QueryFacts ==
  ASSUME query \in Queries
  PROVE  /\ DOMAIN query.conditions = 1..Len(query.conditions) /\ Len(query.conditions) \in Nat
         /\ DOMAIN query.filters = 1..Len(query.filters) /\ Len(query.filters) \in Nat
<1>1. /\ query.conditions \in SeqOf(Conditions, MaxConditions) \cup {<< >>}
      /\ query.filters \in Filters \cup {<< >>}
  BY DEF Queries
<1>2. PICK m \in 0..MaxConditions : query.conditions \in [1..m -> Conditions]
  <2>1. << >> \in [1..0 -> Conditions] /\ 0 \in 0..MaxConditions
    BY BoundsAssumption
  <2> QED BY <1>1, <2>1 DEF SeqOf
<1>3. m \in Nat
  BY BoundsAssumption
<1>4. DOMAIN query.conditions = 1..m /\ Len(query.conditions) = m
  BY <1>2, <1>3
<1> QED BY <1>1, <1>3, <1>4, ListsAssumption

--------------------------------------------------------------------------------
(* The inductive invariant: what the loops have found when they are where   *)
(* they are.                                                                *)
Found(r) == r \in {Nil} \cup Range(relationships)

EqualitiesBefore(k, n) ==
  \A a \in DOMAIN query.conditions, b \in 1..MaxColumns : a < k \/ (a = k /\ b < n) => Found(OfEquality(query, a, b))

AllEqualities == \A a \in DOMAIN query.conditions, b \in 1..MaxColumns : Found(OfEquality(query, a, b))

ContextsVisited == \A x \in Contexts(query) \ contexts : Found(OfContext(query, x))

Progress ==
  /\ step \in {"where", "conditions"} => contexts = Contexts(query)
  /\ step = "where" => p = 1
  /\ step = "conditions" => EqualitiesBefore(i, p)
  /\ step = "contexts" => AllEqualities /\ ContextsVisited
  /\ step \in {"deduplicate", "done"} => Derivable(query) \subseteq Range(relationships)

(* The answer has what was found before the index, the first of it first. *)
FirstFirst ==
  /\ \A k \in DOMAIN answer : \A m \in DOMAIN answer : k < m =>
       \E n \in DOMAIN relationships : relationships[n] = answer[k] /\ answer[m] \notin {relationships[l] : l \in 1..n}

Deduplicated ==
  /\ step \in {"where", "conditions", "contexts"} => answer = << >>
  /\ step = "deduplicate" => i <= Len(relationships) + 1 /\ Range(answer) = {relationships[l] : l \in 1..i - 1}
  /\ step = "done" => Range(answer) = Range(relationships)
  /\ IsInjective(answer) /\ FirstFirst

IInv == TypeOK /\ Progress /\ Deduplicated

LEMMA FoundMore ==
  ASSUME NEW r, r = Nil \/ r \in Derivable(query), relationships \in Seq(Derivable(query)),
         relationships' = Add(relationships, r), UNCHANGED query
  PROVE  /\ relationships' \in Seq(Derivable(query)')
         /\ \A x : Found(x) => Found(x)'
         /\ r \in {Nil} \cup Range(relationships')
<1>1. relationships' \in Seq(Derivable(query)) /\ Range(relationships') = Range(relationships) \cup ({r} \ {Nil})
  BY AddFacts
<1> QED BY <1>1 DEF Found

LEMMA InitIInv == Init => IInv
<1> SUFFICES ASSUME Init PROVE IInv
  OBVIOUS
<1>1. TypeOK
  BY BoundsAssumption DEF Init, TypeOK, Steps
<1>2. Progress
  BY DEF Init, Progress
<1>3. Deduplicated
  BY DEF Init, Deduplicated, FirstFirst, IsInjective
<1> QED BY <1>1, <1>2, <1>3 DEF IInv

--------------------------------------------------------------------------------
(* One lemma per loop. *)
LEMMA WherePreserves ==
  ASSUME IInv, WhereUsage \/ WhereDone
  PROVE  IInv'
<1> USE DEF IInv
<1>1. CASE WhereUsage
  <2>1. TypeOK'
    <3> DEFINE W == {Condition(query, k) : k \in DOMAIN query.filters}
    <3>1. i \in DOMAIN query.filters
      BY <1>1, QueryFacts DEF WhereUsage, TypeOK
    <3>2. Condition(query, i) \in W
      BY <3>1
    <3>3. where' \in Seq(W)
      BY <1>1, <3>2, AppendFacts DEF WhereUsage, TypeOK
    <3> QED BY <1>1, <3>3 DEF WhereUsage, TypeOK
  <2>2. Progress' /\ Deduplicated'
    BY <1>1 DEF WhereUsage, Progress, Deduplicated, FirstFirst
  <2> QED BY <2>1, <2>2
<1>2. CASE WhereDone
  <2>1. TypeOK'
    BY <1>2 DEF WhereDone, TypeOK, Steps
  <2>2. Progress'
    <3>1. EqualitiesBefore(1, 1)
      BY QueryFacts, BoundsAssumption DEF EqualitiesBefore, TypeOK
    <3>2. EqualitiesBefore(i', p')
      BY <1>2, <3>1 DEF WhereDone, Progress
    <3> QED BY <1>2, <3>2 DEF WhereDone, Progress, EqualitiesBefore, Found
  <2>3. Deduplicated'
    BY <1>2 DEF WhereDone, Deduplicated, FirstFirst
  <2> QED BY <2>1, <2>2, <2>3
<1> QED BY <1>1, <1>2

LEMMA ConditionsPreserve ==
  ASSUME IInv, Equality \/ NextCondition \/ ConditionsDone
  PROVE  IInv'
<1> USE DEF IInv
<1>0. DOMAIN query.conditions = 1..Len(query.conditions) /\ Len(query.conditions) \in Nat
  BY QueryFacts DEF TypeOK
<1>1. CASE Equality
  <2>0. i \in DOMAIN query.conditions /\ p \in 1..MaxColumns
    BY <1>0, <1>1, BoundsAssumption DEF Equality, TypeOK
  <2>1. OfEquality(query, i, p) = Nil \/ OfEquality(query, i, p) \in Derivable(query)
    BY <2>0, Derived
  <2>2. /\ relationships' \in Seq(Derivable(query)')
        /\ \A x : Found(x) => Found(x)'
        /\ OfEquality(query, i, p) \in {Nil} \cup Range(relationships')
    BY <1>1, <2>1, FoundMore DEF Equality, TypeOK
  <2>3. TypeOK'
    BY <1>1, <2>0, <2>2, BoundsAssumption DEF Equality, TypeOK
  <2>4. Progress'
    <3>1. ASSUME NEW a \in DOMAIN query.conditions, NEW b \in 1..MaxColumns, a < i \/ (a = i /\ b < p + 1)
          PROVE  Found(OfEquality(query, a, b))'
      <4>1. CASE a < i \/ (a = i /\ b < p)
        BY <1>1, <4>1, <2>2 DEF Equality, Progress, EqualitiesBefore
      <4>2. CASE a = i /\ b = p
        BY <1>1, <4>2, <2>2 DEF Equality, Found
      <4> QED BY <3>1, <4>1, <4>2, <2>0, <1>0, BoundsAssumption
    <3>2. EqualitiesBefore(i, p)'
      BY <1>1, <3>1 DEF Equality, EqualitiesBefore
    <3> QED BY <1>1, <3>2 DEF Equality, Progress
  <2>5. Deduplicated'
    BY <1>1, RangeOfEmpty DEF Equality, Deduplicated, FirstFirst, IsInjective
  <2> QED BY <2>3, <2>4, <2>5
<1>2. CASE NextCondition
  <2>1. TypeOK'
    BY <1>2, BoundsAssumption DEF NextCondition, TypeOK
  <2>2. EqualitiesBefore(i + 1, 1)
    <3>1. p = MaxColumns + 1 /\ i \in Nat
      BY <1>2, BoundsAssumption DEF NextCondition, TypeOK
    <3>2. EqualitiesBefore(i, p)
      BY <1>2 DEF NextCondition, Progress
    <3> QED BY <1>0, <3>1, <3>2, BoundsAssumption DEF EqualitiesBefore
  <2>3. Progress'
    BY <1>2, <2>2 DEF NextCondition, Progress, EqualitiesBefore, Found
  <2>4. Deduplicated'
    BY <1>2 DEF NextCondition, Deduplicated, FirstFirst
  <2> QED BY <2>1, <2>3, <2>4
<1>3. CASE ConditionsDone
  <2>1. TypeOK'
    BY <1>3 DEF ConditionsDone, TypeOK, Steps
  <2>2. AllEqualities
    <3>1. \A a \in DOMAIN query.conditions : a < i
      BY <1>0, <1>3 DEF ConditionsDone, TypeOK
    <3> QED BY <1>3, <3>1 DEF ConditionsDone, Progress, EqualitiesBefore, AllEqualities
  <2>3. ContextsVisited
    BY <1>3 DEF ConditionsDone, Progress, ContextsVisited
  <2>4. Progress'
    BY <1>3, <2>2, <2>3 DEF ConditionsDone, Progress, AllEqualities, ContextsVisited, Found
  <2>5. Deduplicated'
    BY <1>3 DEF ConditionsDone, Deduplicated, FirstFirst
  <2> QED BY <2>1, <2>4, <2>5
<1> QED BY <1>1, <1>2, <1>3

LEMMA ContextsPreserve ==
  ASSUME IInv, VisitContext \/ ContextsDone
  PROVE  IInv'
<1> USE DEF IInv
<1>1. CASE VisitContext
  <2>0. PICK x \in contexts : /\ relationships' = Add(relationships, OfContext(query, x))
                             /\ contexts' = contexts \ {x}
    BY <1>1 DEF VisitContext
  <2>1. OfContext(query, x) = Nil \/ OfContext(query, x) \in Derivable(query)
    BY <2>0, Derived DEF TypeOK
  <2>2. /\ relationships' \in Seq(Derivable(query)')
        /\ \A y : Found(y) => Found(y)'
        /\ OfContext(query, x) \in {Nil} \cup Range(relationships')
    BY <1>1, <2>0, <2>1, FoundMore DEF VisitContext, TypeOK
  <2>3. TypeOK'
    BY <1>1, <2>0, <2>2 DEF VisitContext, TypeOK
  <2>4. Progress'
    <3>1. AllEqualities'
      BY <1>1, <2>2 DEF VisitContext, Progress, AllEqualities
    <3>2. ASSUME NEW y \in Contexts(query), y \notin contexts'
          PROVE  Found(OfContext(query, y))'
      <4>1. CASE y = x
        BY <1>1, <2>2, <4>1 DEF VisitContext, Found
      <4>2. CASE y # x
        BY <1>1, <2>0, <2>2, <3>2, <4>2 DEF VisitContext, Progress, ContextsVisited
      <4> QED BY <4>1, <4>2
    <3>3. ContextsVisited'
      BY <1>1, <3>2 DEF VisitContext, ContextsVisited
    <3> QED BY <1>1, <3>1, <3>3 DEF VisitContext, Progress
  <2>5. Deduplicated'
    BY <1>1, RangeOfEmpty DEF VisitContext, Deduplicated, FirstFirst, IsInjective
  <2> QED BY <2>3, <2>4, <2>5
<1>2. CASE ContextsDone
  <2>1. TypeOK'
    BY <1>2 DEF ContextsDone, TypeOK, Steps
  <2>2. Derivable(query) \subseteq Range(relationships)
    BY <1>2 DEF ContextsDone, Progress, AllEqualities, ContextsVisited, Found, Derivable
  <2>3. Progress'
    BY <1>2, <2>2 DEF ContextsDone, Progress
  <2>4. Deduplicated'
    <3>1. Range(answer) = {relationships[l] : l \in 1..0}
      BY <1>2, RangeOfEmpty DEF ContextsDone, Deduplicated
    <3>2. 1 <= Len(relationships) + 1
      BY AppendFacts DEF TypeOK
    <3> QED BY <1>2, <3>1, <3>2 DEF ContextsDone, Deduplicated, FirstFirst
  <2> QED BY <2>1, <2>3, <2>4
<1> QED BY <1>1, <1>2

LEMMA DeduplicatePreserves ==
  ASSUME IInv, Deduplicate \/ DeduplicateDone
  PROVE  IInv'
<1> USE DEF IInv
<1>0. /\ DOMAIN relationships = 1..Len(relationships) /\ Len(relationships) \in Nat
      /\ DOMAIN answer = 1..Len(answer) /\ Len(answer) \in Nat
  BY DEF TypeOK
<1>1. CASE Deduplicate
  <2>0. /\ step = "deduplicate" /\ i \in DOMAIN relationships /\ relationships[i] \in Derivable(query)
        /\ i' = i + 1 /\ i \in Nat
    BY <1>0, <1>1 DEF Deduplicate, TypeOK
  <2>1. {relationships[l] : l \in 1..i} = {relationships[l] : l \in 1..i - 1} \cup {relationships[i]}
    BY <2>0, <1>0
  <2>2. Range(answer) = {relationships[l] : l \in 1..i - 1}
    BY <2>0 DEF Deduplicated
  <2>3. CASE Seen(answer, relationships[i])
    <3>1. answer' = answer
      BY <1>1, <2>3 DEF Deduplicate
    <3>2. TypeOK'
      BY <1>1, <2>0, <3>1 DEF Deduplicate, TypeOK
    <3>3. Range(answer') = {relationships[l] : l \in 1..i}
      BY <2>1, <2>2, <2>3, <3>1 DEF Seen
    <3>4. FirstFirst' /\ IsInjective(answer')
      BY <1>1, <3>1 DEF Deduplicate, Deduplicated, FirstFirst
    <3>5. i' - 1 = i
      BY <2>0
    <3>6. Deduplicated'
      BY <1>0, <1>1, <2>0, <3>3, <3>4, <3>5 DEF Deduplicate, Deduplicated
    <3>7. Progress'
      BY <1>1, <2>0 DEF Deduplicate, Progress
    <3> QED BY <3>2, <3>6, <3>7
  <2>4. CASE ~ Seen(answer, relationships[i])
    <3>1. answer' = Append(answer, relationships[i])
      BY <1>1, <2>4 DEF Deduplicate
    <3>2. /\ answer' \in Seq(Derivable(query)) /\ DOMAIN answer' = DOMAIN answer \cup {Len(answer) + 1}
          /\ \A k \in DOMAIN answer : answer'[k] = answer[k]
          /\ answer'[Len(answer) + 1] = relationships[i]
      BY <2>0, <3>1, AppendFacts DEF TypeOK
    <3>3. TypeOK'
      BY <1>1, <2>0, <3>2 DEF Deduplicate, TypeOK
    <3>4. Range(answer') = {relationships[l] : l \in 1..i}
      <4>1. Range(answer') = Range(answer) \cup {relationships[i]}
        BY <2>0, <3>1, RangeOfAppend DEF TypeOK
      <4> QED BY <4>1, <2>1, <2>2
    <3>5. \A k \in DOMAIN answer : answer[k] # relationships[i]
      BY <2>4 DEF Seen, Range
    <3>6. IsInjective(answer')
      <4>1. IsInjective(answer)
        BY DEF Deduplicated
      <4> QED BY <1>0, <3>2, <3>5, <4>1 DEF IsInjective
    <3>7. ASSUME NEW k \in DOMAIN answer', NEW m \in DOMAIN answer', k < m
          PROVE  \E n \in DOMAIN relationships :
                   relationships[n] = answer'[k] /\ answer'[m] \notin {relationships[l] : l \in 1..n}
      <4>1. k \in DOMAIN answer
        BY <1>0, <3>2, <3>7
      <4>2. CASE m \in DOMAIN answer
        BY <3>2, <3>7, <4>1, <4>2 DEF Deduplicated, FirstFirst
      <4>3. CASE m = Len(answer) + 1
        <5>1. answer[k] \in {relationships[l] : l \in 1..i - 1}
          BY <2>2, <4>1 DEF Range
        <5>2. PICK n \in 1..i - 1 : relationships[n] = answer[k]
          BY <5>1
        <5>3. relationships[i] \notin {relationships[l] : l \in 1..i - 1}
          BY <2>2, <2>4 DEF Seen
        <5>4. n \in DOMAIN relationships /\ 1..n \subseteq 1..i - 1
          BY <1>0, <2>0
        <5>5. relationships[i] \notin {relationships[l] : l \in 1..n}
          BY <5>3, <5>4
        <5> QED BY <3>2, <4>1, <4>3, <5>2, <5>4, <5>5
      <4> QED BY <3>2, <4>2, <4>3
    <3>8. FirstFirst'
      BY <1>1, <3>7 DEF Deduplicate, FirstFirst
    <3>9. i' - 1 = i
      BY <2>0
    <3>10. Deduplicated'
      BY <1>0, <1>1, <2>0, <3>4, <3>6, <3>8, <3>9 DEF Deduplicate, Deduplicated
    <3>11. Progress'
      BY <1>1, <2>0 DEF Deduplicate, Progress
    <3> QED BY <3>3, <3>10, <3>11
  <2> QED BY <2>3, <2>4
<1>2. CASE DeduplicateDone
  <2>1. TypeOK'
    BY <1>2 DEF DeduplicateDone, TypeOK, Steps
  <2>2. Progress'
    BY <1>2 DEF DeduplicateDone, Progress
  <2>3. Range(answer) = Range(relationships)
    <3>1. i = Len(relationships) + 1 /\ Range(answer) = {relationships[l] : l \in 1..i - 1}
      BY <1>0, <1>2 DEF DeduplicateDone, Deduplicated, TypeOK
    <3>2. i - 1 = Len(relationships)
      BY <1>0, <3>1
    <3> QED BY <1>0, <3>1, <3>2 DEF Range
  <2>4. Deduplicated'
    BY <1>2, <2>3 DEF DeduplicateDone, Deduplicated, FirstFirst
  <2> QED BY <2>1, <2>2, <2>4
<1> QED BY <1>1, <1>2

LEMMA NextIInv == IInv /\ [Next]_vars => IInv'
<1> SUFFICES ASSUME IInv, [Next]_vars PROVE IInv'
  OBVIOUS
<1>1. CASE UNCHANGED vars
  BY <1>1 DEF vars, IInv, TypeOK, Progress, Deduplicated, FirstFirst, EqualitiesBefore, AllEqualities,
              ContextsVisited, Found
<1> QED BY <1>1, WherePreserves, ConditionsPreserve, ContextsPreserve, DeduplicatePreserves DEF Next

--------------------------------------------------------------------------------
(* The relationships found are always such as the conditions of the query   *)
(* give, at whatever point the loops over conditions and contexts are       *)
(* (join_parser.go:210).                                                    *)
THEOREM Typed == Spec => []TypeOK
<1>1. IInv => TypeOK
  BY DEF IInv
<1> QED BY <1>1, InitIInv, NextIInv, PTL DEF Spec

(* Whatever the order of the map of contexts, the answer has no             *)
(* relationship twice, and the first of those found first                   *)
(* (join_parser.go:257).                                                    *)
THEOREM AnsweredOnceInOrder == Spec => []EachOnceInOrder
<1>1. IInv => EachOnceInOrder
  BY DEF IInv, Deduplicated, FirstFirst, EachOnceInOrder
<1> QED BY <1>1, InitIInv, NextIInv, PTL DEF Spec

(* The loops implement RelationshipSet: the initial state is one of its     *)
(* own, a step finds one relationship, answers with all of them, or leaves  *)
(* both as they are (join_parser.go:227).                                   *)
THEOREM Implemented == Spec => ImplementsPromise
<1>0. \A s : Promise!Range(s) = Range(s) /\ (Promise!IsInjective(s) <=> IsInjective(s))
  BY DEF Range, IsInjective, Promise!Range, Promise!IsInjective
<1>1. Init => Promise!Init
  BY RangeOfEmpty DEF Init, Promise!Init
<1>2. ASSUME IInv, IInv', [Next]_vars
      PROVE  [Promise!Next]_<<query, Range(relationships), IF step = "done" THEN answer ELSE << >> >>
  <2>1. CASE WhereUsage \/ WhereDone
    BY <2>1 DEF WhereUsage, WhereDone
  <2>2. CASE NextCondition \/ ConditionsDone \/ ContextsDone \/ Deduplicate
    BY <2>2 DEF NextCondition, ConditionsDone, ContextsDone, Deduplicate
  <2>3. ASSUME NEW r, r = Nil \/ r \in Derivable(query), relationships' = Add(relationships, r),
               UNCHANGED <<query, step, answer>>, step # "done"
        PROVE  Promise!Find \/ UNCHANGED <<query, Range(relationships), IF step = "done" THEN answer ELSE << >> >>
    <3>1. Range(relationships') = Range(relationships) \cup ({r} \ {Nil})
      BY <1>2, <2>3, AddFacts DEF IInv, TypeOK
    <3>2. CASE r = Nil \/ r \in Range(relationships)
      BY <2>3, <3>1, <3>2
    <3>3. CASE r # Nil /\ r \notin Range(relationships)
      <4>1. r \in Derivable(query) \ Range(relationships) /\ Range(relationships)' = Range(relationships) \cup {r}
        BY <2>3, <3>1, <3>3
      <4> QED BY <2>3, <4>1 DEF Promise!Find
    <3> QED BY <3>2, <3>3
  <2>4. CASE Equality
    <3>1. i \in DOMAIN query.conditions /\ p \in 1..MaxColumns
      BY <1>2, <2>4, QueryFacts, BoundsAssumption DEF Equality, IInv, TypeOK
    <3>2. OfEquality(query, i, p) = Nil \/ OfEquality(query, i, p) \in Derivable(query)
      BY <3>1, Derived
    <3> QED BY <2>3, <2>4, <3>2 DEF Equality, Promise!Next
  <2>5. CASE VisitContext
    <3>1. PICK x \in contexts : relationships' = Add(relationships, OfContext(query, x))
      BY <2>5 DEF VisitContext
    <3>2. OfContext(query, x) = Nil \/ OfContext(query, x) \in Derivable(query)
      BY <1>2, <3>1, Derived DEF IInv, TypeOK
    <3> QED BY <2>3, <2>5, <3>1, <3>2 DEF VisitContext, Promise!Next
  <2>6. CASE DeduplicateDone
    <3>1. Range(answer') = Range(relationships) /\ IsInjective(answer') /\ step' = "done"
      BY <1>2, <2>6 DEF DeduplicateDone, IInv, Deduplicated
    <3>2. Range(relationships) = Derivable(query)
      <4>1. Derivable(query) \subseteq Range(relationships)
        BY <1>2, <2>6 DEF DeduplicateDone, IInv, Progress
      <4>2. Range(relationships) \subseteq Derivable(query)
        BY <1>2 DEF IInv, TypeOK, Range
      <4> QED BY <4>1, <4>2
    <3> QED BY <1>0, <2>6, <3>1, <3>2 DEF DeduplicateDone, Promise!Reply, Promise!Next
  <2>7. CASE UNCHANGED vars
    BY <2>7 DEF vars
  <2> QED BY <1>2, <2>1, <2>2, <2>4, <2>5, <2>6, <2>7 DEF Next
<1> QED BY <1>1, <1>2, InitIInv, NextIInv, PTL DEF Spec, ImplementsPromise, Promise!Spec

--------------------------------------------------------------------------------
(* Trimming texts, and taking them apart.                                     *)

(* A text that begins and ends with a character that is not cut stays as it *)
(* is, also with one in front that is.                                      *)
LEMMA NothingTrimmed ==
  ASSUME NEW E, NEW text \in Seq(E), text # << >>, NEW cut, text[1] \notin cut, Last(text) \notin cut
  PROVE  Trim(text, cut) = text
<1>1. PICK n \in Nat \ {0} : n = Len(text) /\ DOMAIN text = 1..n
  BY EmptySeq
<1>2. PICK kept : kept = {z \in DOMAIN text : text[z] \notin cut}
  OBVIOUS
<1>3. kept \in SUBSET (1..n) /\ 1 \in kept /\ n \in kept
  BY <1>1, <1>2 DEF Last
<1>4. Min(kept) = 1 /\ Max(kept) = n
  <2>1. Min(kept) \in kept /\ Min(kept) <= 1 /\ Max(kept) \in kept /\ Max(kept) >= n
    BY <1>3, MinOfIndices, MaxOfIndices
  <2>2. Min(kept) \in 1..n /\ Max(kept) \in 1..n
    BY <1>3, <2>1
  <2> QED BY <2>1, <2>2
<1>5. SubSeq(text, 1, n) = text
  BY <1>1
<1> QED BY <1>2, <1>3, <1>4, <1>5 DEF Trim

LEMMA BlankTrimmed ==
  ASSUME NEW E, NEW text \in Seq(E), text # << >>, NEW cut, text[1] \notin cut, Last(text) \notin cut, NEW b \in cut, b \in E
  PROVE  Trim(<<b>> \o text, cut) = text
<1>1. PICK n \in Nat \ {0} : n = Len(text)
  BY EmptySeq
<1>2. PICK long : long = <<b>> \o text
  OBVIOUS
<1>3. /\ long \in Seq(E) /\ Len(long) = n + 1 /\ DOMAIN long = 1..n + 1
      /\ long[1] = b /\ \A z \in 1..n : long[z + 1] = text[z]
  BY <1>1, <1>2, TailOf
<1>4. PICK kept : kept = {z \in DOMAIN long : long[z] \notin cut}
  OBVIOUS
<1>5. n + 1 \in Nat /\ kept \in SUBSET (1..n + 1) /\ 2 \in kept /\ n + 1 \in kept /\ 1 \notin kept
  <2>1. long[2] = text[1] /\ long[n + 1] = text[n] /\ Last(text) = text[n]
    <3>1. 1 \in 1..n /\ n \in 1..n /\ 1 + 1 = 2
      OBVIOUS
    <3> QED BY <1>1, <1>3, <3>1 DEF Last
  <2> QED BY <1>3, <1>4, <2>1
<1>6. Min(kept) = 2 /\ Max(kept) = n + 1
  <2>1. Min(kept) \in kept /\ Min(kept) <= 2 /\ Max(kept) \in kept /\ Max(kept) >= n + 1
    BY <1>5, MinOfIndices, MaxOfIndices
  <2>2. Min(kept) \in 1..n + 1 /\ Max(kept) \in 1..n + 1 /\ Min(kept) # 1
    BY <1>5, <2>1
  <2> QED BY <2>1, <2>2
<1>7. SubSeq(long, 2, n + 1) = text
  <2>1. PICK s : s = SubSeq(long, 2, n + 1)
    OBVIOUS
  <2>2. s \in Seq(E) /\ Len(s) = n /\ \A z \in 1..n : s[z] = long[z + 1]
    BY <1>3, <2>1
  <2> QED BY <1>1, <1>3, <2>1, <2>2, SeqEqual
<1> QED BY <1>2, <1>4, <1>5, <1>6, <1>7 DEF Trim

(* What is quoted, where Trim leaves what is in the quotes alone. *)
LEMMA OwnQuoteTrimmed ==
  ASSUME NEW E, NEW text \in Seq(E), IsQuoted(text), Len(text) >= 2, Unquoted(text) = Trim(text, Quotes)
  PROVE  Trim(text, {text[1]}) = Unquoted(text)
<1>1. PICK n \in Nat \ {0, 1} : n = Len(text) /\ DOMAIN text = 1..n
  OBVIOUS
<1>2. PICK kept, own : kept = {z \in DOMAIN text : text[z] \notin Quotes} /\ own = {z \in DOMAIN text : text[z] \notin {text[1]}}
  OBVIOUS
<1>3. text[1] \in Quotes /\ text[n] = text[1]
  BY <1>1 DEF IsQuoted, Last
<1>4. kept \subseteq own /\ own \in SUBSET (1..n) /\ 1 \notin own /\ n \notin own
  BY <1>1, <1>2, <1>3
<1>5. Unquoted(text) = SubSeq(text, 2, n - 1)
  BY <1>1 DEF Unquoted
<1>8. \A a, b \in 1..n : a <= b => Len(SubSeq(text, a, b)) = b - a + 1
  BY <1>1
<1>6. CASE kept = {}
  <2>1. SubSeq(text, 2, n - 1) = << >>
    BY <1>2, <1>5, <1>6 DEF Trim
  <2>2. n = 2
    <3> SUFFICES ASSUME n # 2 PROVE FALSE
      OBVIOUS
    <3>1. Len(SubSeq(text, 2, n - 1)) = n - 2
      BY <1>8
    <3> QED BY <2>1, <3>1
  <2>3. own = {}
    BY <1>4, <2>2
  <2> QED BY <1>2, <1>5, <2>1, <2>3 DEF Trim
<1>7. CASE kept # {}
  <2>1. PICK a, b : a = Min(kept) /\ b = Max(kept)
    OBVIOUS
  <2>2. a \in kept /\ b \in kept /\ a <= b
    <3>1. kept \in SUBSET (1..n)
      BY <1>4
    <3> QED BY <1>7, <2>1, <3>1, MinOfIndices, MaxOfIndices
  <2>3. a \in 2..n - 1 /\ b \in 2..n - 1
    BY <1>4, <2>2
  <2>4. SubSeq(text, a, b) = SubSeq(text, 2, n - 1)
    BY <1>2, <1>5, <1>7, <2>1 DEF Trim
  <2>5. Len(SubSeq(text, a, b)) = b - a + 1 /\ Len(SubSeq(text, 2, n - 1)) = n - 2
    BY <1>8, <2>2, <2>3
  <2>6. a = 2 /\ b = n - 1
    BY <2>3, <2>4, <2>5
  <2>7. own # {} /\ Min(own) = 2 /\ Max(own) = n - 1
    <3>1. 2 \in own /\ n - 1 \in own /\ \A z \in own : z \in 2..n - 1
      BY <1>4, <2>2, <2>6
    <3>2. Min(own) \in own /\ Min(own) <= 2 /\ Max(own) \in own /\ Max(own) >= n - 1
      BY <1>4, <3>1, MinOfIndices, MaxOfIndices
    <3>3. Min(own) \in 2..n - 1 /\ Max(own) \in 2..n - 1
      BY <3>1, <3>2
    <3> QED BY <3>2, <3>3
  <2> QED BY <1>2, <1>5, <2>7 DEF Trim
<1> QED BY <1>6, <1>7

(* What follows in two texts put together. *)
LEMMA SecondOf ==
  ASSUME NEW E, NEW s \in Seq(E), NEW t \in Seq(E), NEW l, l = Len(s) + 1, NEW m, m = Len(s \o t)
  PROVE  SubSeq(s \o t, l, m) = t
<1>1. PICK a, b \in Nat : a = Len(s) /\ b = Len(t)
  OBVIOUS
<1>2. PICK long : long = s \o t
  OBVIOUS
<1>3. long \in Seq(E) /\ Len(long) = a + b /\ \A z \in 1..b : long[a + z] = t[z]
  BY <1>1, <1>2, ConcatPlaces
<1>4. PICK c : c = SubSeq(long, a + 1, a + b)
  OBVIOUS
<1>5. c \in Seq(E) /\ Len(c) = b /\ \A z \in 1..b : c[z] = long[a + z]
  <2>1. c \in Seq(E) /\ Len(c) = (IF a + 1 <= a + b THEN a + b - (a + 1) + 1 ELSE 0) /\ \A z \in 1..Len(c) : c[z] = long[a + 1 + z - 1]
    BY <1>1, <1>3, <1>4
  <2>2. (IF a + 1 <= a + b THEN a + b - (a + 1) + 1 ELSE 0) = b
    BY ONLY a \in Nat, b \in Nat
  <2>3. \A z \in 1..b : a + 1 + z - 1 = a + z
    BY ONLY a \in Nat
  <2> QED BY <2>1, <2>2, <2>3
<1>6. c = t
  BY <1>1, <1>3, <1>5, SeqEqual
<1> QED BY <1>1, <1>2, <1>3, <1>4, <1>6

(* The least element is where no other is less. *)
LEMMA LeastIs ==
  ASSUME NEW n \in Nat, NEW S \in SUBSET (1..n), NEW a \in S, \A z \in S : z >= a
  PROVE  Min(S) = a
<1>1. Min(S) \in S /\ Min(S) <= a
  BY MinOfIndices
<1>2. Min(S) \in 1..n /\ a \in 1..n /\ Min(S) >= a
  BY <1>1
<1> QED BY <1>1, <1>2

--------------------------------------------------------------------------------
(* The text of a comparison, and where its operator is found in it.           *)

(* Where the parts of the text of a comparison are in it. *)
IsContext(text, c, sp, right, E) ==
  /\ text \in Seq(E) /\ Len(text) = Len(c) + Len(sp) + Len(right) + 2
  /\ \A z \in 1..Len(c) : text[z] = c[z]
  /\ text[Len(c) + 1] = Space
  /\ \A z \in 1..Len(sp) : text[Len(c) + 1 + z] = sp[z]
  /\ text[Len(c) + Len(sp) + 2] = Space
  /\ SubSeq(text, Len(c) + Len(sp) + 2, Len(text)) = <<Space>> \o right

LEMMA ContextOf ==
  ASSUME NEW E, Space \in E, NEW c \in Seq(E), NEW sp \in Seq(E), NEW right \in Seq(E)
  PROVE  IsContext(c \o <<Space>> \o sp \o <<Space>> \o right, c, sp, right, E)
<1>c. \A u, v \in Seq(E) :
        /\ u \o v \in Seq(E) /\ Len(u \o v) = Len(u) + Len(v) /\ Len(u) \in Nat /\ Len(v) \in Nat
        /\ \A z \in 1..Len(u) : (u \o v)[z] = u[z]
        /\ \A z \in 1..Len(v) : (u \o v)[Len(u) + z] = v[z]
  BY ConcatPlaces
<1>0. PICK blank : blank = <<Space>>
  OBVIOUS
<1>1. blank \in Seq(E) /\ Len(blank) = 1 /\ blank[1] = Space
  BY <1>0
<1>2. PICK a : a = c \o blank
  OBVIOUS
<1>3. a \in Seq(E) /\ Len(a) = Len(c) + 1 /\ Len(c) \in Nat /\ (\A z \in 1..Len(c) : a[z] = c[z]) /\ a[Len(c) + 1] = Space
  <2>1. /\ a \in Seq(E) /\ Len(a) = Len(c) + Len(blank) /\ Len(c) \in Nat /\ (\A z \in 1..Len(c) : a[z] = c[z])
        /\ \A z \in 1..Len(blank) : a[Len(c) + z] = blank[z]
    BY <1>1, <1>2, <1>c
  <2>2. 1 \in 1..1
    OBVIOUS
  <2> QED BY <1>1, <2>1, <2>2
<1>4. PICK b : b = a \o sp
  OBVIOUS
<1>5. /\ b \in Seq(E) /\ Len(b) = Len(a) + Len(sp) /\ Len(sp) \in Nat /\ (\A z \in 1..Len(a) : b[z] = a[z])
      /\ \A z \in 1..Len(sp) : b[Len(a) + z] = sp[z]
  BY <1>3, <1>4, <1>c
<1>6. PICK rest : rest = blank \o right
  OBVIOUS
<1>7. rest \in Seq(E) /\ Len(rest) = 1 + Len(right) /\ Len(right) \in Nat /\ rest[1] = Space
  <2>1. /\ rest \in Seq(E) /\ Len(rest) = Len(blank) + Len(right) /\ Len(right) \in Nat
        /\ \A z \in 1..Len(blank) : rest[z] = blank[z]
    BY <1>1, <1>6, <1>c
  <2>2. 1 \in 1..1
    OBVIOUS
  <2> QED BY <1>1, <2>1, <2>2
<1>8. PICK text : text = b \o rest
  OBVIOUS
<1>9. /\ text \in Seq(E) /\ Len(text) = Len(b) + Len(rest) /\ (\A z \in 1..Len(b) : text[z] = b[z])
      /\ \A z \in 1..Len(rest) : text[Len(b) + z] = rest[z]
  BY <1>5, <1>7, <1>8, <1>c
<1>10. c \o blank \o sp \o blank \o right = text
  <2>1. c \o blank \o sp = b
    BY <1>2, <1>4
  <2>2. b \o blank \o right = b \o (blank \o right)
    BY <1>1, <1>5
  <2> QED BY <1>6, <1>8, <2>1, <2>2
<1>11. PICK l, m, n \in Nat : l = Len(c) /\ m = Len(sp) /\ n = Len(right)
  BY <1>3, <1>5, <1>7
<1>12. Len(a) = l + 1 /\ Len(b) = l + 1 + m /\ Len(rest) = n + 1 /\ Len(text) = l + m + n + 2
  BY <1>3, <1>5, <1>7, <1>9, <1>11
<1>13. \A z \in 1..l : text[z] = c[z]
  <2>1. \A z \in 1..l : z \in 1..Len(a) /\ z \in 1..Len(b)
    BY <1>12
  <2> QED BY <1>3, <1>5, <1>9, <1>11, <2>1
<1>14. text[l + 1] = Space
  <2>1. l + 1 \in 1..Len(a) /\ l + 1 \in 1..Len(b)
    BY <1>12
  <2> QED BY <1>3, <1>5, <1>9, <1>11, <2>1
<1>15. \A z \in 1..m : text[l + 1 + z] = sp[z]
  <2>1. \A z \in 1..m : l + 1 + z \in 1..Len(b)
    BY <1>12
  <2> QED BY <1>5, <1>9, <1>11, <1>12, <2>1
<1>16. text[l + m + 2] = Space
  <2>1. 1 \in 1..Len(rest) /\ Len(b) + 1 = l + m + 2
    BY <1>12
  <2> QED BY <1>7, <1>9, <2>1
<1>17. SubSeq(text, l + m + 2, Len(text)) = rest
  <2>1. l + m + 2 = Len(b) + 1
    BY <1>12
  <2>2. SubSeq(b \o rest, Len(b) + 1, Len(b \o rest)) = rest
    BY <1>5, <1>7, SecondOf
  <2> QED BY <1>8, <2>1, <2>2
<1>18. IsContext(text, c, sp, right, E)
  BY <1>0, <1>6, <1>9, <1>11, <1>12, <1>13, <1>14, <1>15, <1>16, <1>17 DEF IsContext
<1> QED BY <1>0, <1>10, <1>18

(* A text without blanks around it. *)
NoBlanksAround(text) == text # << >> /\ text[1] \notin Blanks /\ Last(text) \notin Blanks

(* Where a text has another, by their elements. *)
StandsAt(text, sought, z) ==
  z \in 1..Len(text) - Len(sought) + 1 /\ \A k \in 1..Len(sought) : text[z + k - 1] = sought[k]

LEMMA OccursAt ==
  ASSUME NEW E, NEW text \in Seq(E), NEW sought \in Seq(E), sought # << >>
  PROVE  /\ Len(text) \in Nat /\ Len(sought) \in Nat \ {0}
         /\ \A z : z \in Occurrences(text, sought) <=> StandsAt(text, sought, z)
<1>1. Len(sought) \in Nat \ {0}
  BY EmptySeq
<1>2. Len(text) \in Nat
  OBVIOUS
<1>3. ASSUME NEW z \in 1..Len(text) - Len(sought) + 1
      PROVE  SubSeq(text, z, z + Len(sought) - 1) = sought <=> \A k \in 1..Len(sought) : text[z + k - 1] = sought[k]
  <2>1. PICK l \in Nat \ {0} : l = Len(sought)
    BY <1>1
  <2>2. PICK s : s = SubSeq(text, z, z + l - 1)
    OBVIOUS
  <2>3. s \in Seq(E) /\ Len(s) = l /\ \A k \in 1..l : s[k] = text[z + k - 1]
    <3>1. z \in Nat /\ 1 <= z /\ z <= z + l - 1 /\ z + l - 1 <= Len(text) /\ z + l - 1 \in Nat
      BY <1>2, <2>1
    <3>2. PICK e \in Nat : e = z + l - 1
      BY <3>1
    <3>3. s \in Seq(E) /\ Len(s) = e - z + 1 /\ \A k \in 1..Len(s) : s[k] = text[z + k - 1]
      BY <2>2, <3>1, <3>2
    <3>4. e - z + 1 = l
      BY <2>1, <3>1, <3>2
    <3> QED BY <3>3, <3>4
  <2>4. s = sought <=> \A k \in 1..l : s[k] = sought[k]
    BY <2>1, <2>3, SeqEqual
  <2> QED BY <2>1, <2>2, <2>3, <2>4
<1> QED BY <1>1, <1>2, <1>3 DEF Occurrences, StandsAt

(* The places found, the first of them after a name and a blank. *)
FoundAfter(found, text, c, sp) ==
  found \in SUBSET Occurrences(text, sp) /\ Len(c) + 2 \in found /\ Len(c) + 1 \notin found /\ \A z \in 1..Len(c) : z \notin found

(* The value is what follows the operator, if that is not found earlier. *)
LEMMA ValueAfter ==
  ASSUME NEW E, Space \in E, NEW c \in Seq(E), NEW sp \in Seq(E), NEW right \in Seq(E), NEW text, IsContext(text, c, sp, right, E),
         NoBlanksAround(right), sp # << >>, NEW found, FoundAfter(found, text, c, sp)
  PROVE  After(text, found, Len(sp)) = right
<1>1. /\ text \in Seq(E) /\ Len(text) = Len(c) + Len(sp) + Len(right) + 2
      /\ SubSeq(text, Len(c) + Len(sp) + 2, Len(text)) = <<Space>> \o right
  BY DEF IsContext
<1>2. Trim(<<Space>> \o right, Blanks) = right
  <2>1. Space \in Blanks
    BY DEF Blanks
  <2> QED BY <2>1, BlankTrimmed DEF NoBlanksAround
<1>3. PICK l, m, n \in Nat : l = Len(c) /\ m = Len(sp) /\ n = Len(text) /\ m # 0
  BY <1>1, EmptySeq
<1>4. found \in SUBSET (1..n)
  <2>1. \A z \in Occurrences(text, sp) : z \in 1..n - m + 1
    BY <1>1, <1>3, OccursAt DEF StandsAt
  <2> QED BY <1>3, <2>1 DEF FoundAfter
<1>5. \A z \in found : z >= l + 2
  <2>1. \A z \in found : z \in 1..n /\ z # l + 1 /\ z \notin 1..l
    BY <1>3, <1>4 DEF FoundAfter
  <2> QED BY <1>3, <2>1
<1>6. PICK at, next \in Nat : at = l + 2 /\ next = l + m + 2 /\ at + m = next
  OBVIOUS
<1>7. PICK rest : rest = <<Space>> \o right
  OBVIOUS
<1>8. SubSeq(text, next, Len(text)) = rest /\ Trim(rest, Blanks) = right
  BY <1>1, <1>2, <1>3, <1>6, <1>7
<1>9. found \in SUBSET (1..Len(text)) /\ at \in found /\ \A z \in found : z >= at
  BY <1>3, <1>4, <1>5, <1>6 DEF FoundAfter
<1>10. Min(found) = at
  BY <1>3, <1>9, LeastIs
<1>11. SubSeq(text, Min(found) + m, Len(text)) = rest
  BY <1>6, <1>8, <1>10
<1>12. found # {}
  BY <1>9
<1>13. After(text, found, m) = right
  BY <1>8, <1>11, <1>12 DEF After, TrimSpace
<1> QED BY <1>3, <1>13

(* A keyword that stands alone, after a name. *)
LEMMA KeywordAfter ==
  ASSUME NEW E, Space \in E, Space \notin InWord, NEW word \in InWord, word \in E,
         NEW c \in Seq(E), c # << >>, KeywordOccurrences(c, word) = {}, NEW right \in Seq(E),
         NEW text, IsContext(text, c, <<word>>, right, E), NoBlanksAround(right)
  PROVE  After(text, KeywordOccurrences(text, word), 1) = right
<1>0. PICK sp : sp = <<word>>
  OBVIOUS
<1>1. sp \in Seq(E) /\ Len(sp) = 1 /\ sp[1] = word /\ sp # << >>
  BY <1>0
<1>2. PICK l, n \in Nat : l = Len(c) /\ n = Len(text) /\ n >= l + 3 /\ l # 0
  <2>1. Len(text) = Len(c) + Len(sp) + Len(right) + 2 /\ Len(c) \in Nat /\ Len(right) \in Nat
    BY <1>0, <1>1 DEF IsContext
  <2>2. Len(c) # 0
    BY EmptySeq
  <2> QED BY <1>1, <2>1, <2>2
<1>3. /\ text \in Seq(E) /\ DOMAIN text = 1..n /\ (\A z \in 1..l : text[z] = c[z])
      /\ text[l + 1] = Space /\ text[l + 2] = word /\ text[l + 3] = Space
  <2>1. /\ text \in Seq(E) /\ (\A z \in 1..Len(c) : text[z] = c[z]) /\ text[Len(c) + 1] = Space
        /\ (\A z \in 1..Len(sp) : text[Len(c) + 1 + z] = sp[z]) /\ text[Len(c) + Len(sp) + 2] = Space
    BY <1>0 DEF IsContext
  <2>3. l + 1 + 1 = l + 2 /\ l + 1 + 2 = l + 3 /\ 1 \in 1..1
    OBVIOUS
  <2> QED BY <1>1, <1>2, <2>1, <2>3
<1>4. \A t \in Seq(E) : \A z : z \in KeywordOccurrences(t, word) <=>
        z \in 1..Len(t) /\ t[z] = word /\ \A k \in {z - 1, z + 1} \cap (1..Len(t)) : t[k] \notin InWord
  <2> SUFFICES ASSUME NEW t \in Seq(E), NEW z
               PROVE  z \in KeywordOccurrences(t, word) <=>
                        z \in 1..Len(t) /\ t[z] = word /\ \A k \in {z - 1, z + 1} \cap (1..Len(t)) : t[k] \notin InWord
    OBVIOUS
  <2>1. Len(t) \in Nat /\ (z \in Occurrences(t, sp) <=> StandsAt(t, sp, z))
    BY <1>1, OccursAt
  <2>2. PICK m \in Nat : m = Len(t) /\ DOMAIN t = 1..m
    BY <2>1
  <2>3. m - 1 + 1 = m /\ (\A k \in 1..1 : k = 1) /\ 1 \in 1..1 /\ \A k \in 1..m : k + 1 - 1 = k
    OBVIOUS
  <2>4. StandsAt(t, sp, z) <=> z \in 1..m /\ t[z] = word
    BY <1>1, <2>2, <2>3 DEF StandsAt
  <2> QED BY <1>0, <2>1, <2>2, <2>4 DEF KeywordOccurrences
<1>5. \A z : z \in KeywordOccurrences(text, word) <=>
        z \in 1..n /\ text[z] = word /\ \A k \in {z - 1, z + 1} \cap (1..n) : text[k] \notin InWord
  BY <1>2, <1>3, <1>4
<1>6. l + 2 \in KeywordOccurrences(text, word)
  <2>1. l + 2 \in 1..n /\ (l + 2) - 1 = l + 1 /\ (l + 2) + 1 = l + 3
    BY <1>2
  <2> QED BY <1>3, <1>5, <2>1
<1>7. l + 1 \notin KeywordOccurrences(text, word)
  BY <1>3, <1>5
<1>8. ASSUME NEW z \in 1..l, z \in KeywordOccurrences(text, word) PROVE FALSE
  <2>1. c[z] = word /\ \A k \in {z - 1, z + 1} \cap (1..l) : c[k] \notin InWord
    <3>1. \A k \in 1..l : k \in 1..n /\ text[k] = c[k]
      BY <1>2, <1>3
    <3> QED BY <1>5, <1>8, <3>1
  <2>2. z \in KeywordOccurrences(c, word)
    BY <1>2, <1>4, <2>1
  <2> QED BY <2>2
<1>9. KeywordOccurrences(text, word) \in SUBSET Occurrences(text, sp)
  BY <1>0 DEF KeywordOccurrences
<1>10. IsContext(text, c, sp, right, E)
  BY <1>0
<1>11. PICK found : found = KeywordOccurrences(text, word)
  OBVIOUS
<1>12. FoundAfter(found, text, c, sp)
  BY <1>2, <1>3, <1>6, <1>7, <1>8, <1>9, <1>11 DEF FoundAfter
<1>13. After(text, found, Len(sp)) = right
  BY <1>1, <1>10, <1>12, ValueAfter
<1> QED BY <1>1, <1>11, <1>13

--------------------------------------------------------------------------------
(* Texts with something between them.                                         *)

(* A function on an interval is a sequence. *)
LEMMA AsSequence ==
  ASSUME NEW T, NEW n \in Nat, NEW f \in [1..n -> T]
  PROVE  f \in Seq(T) /\ Len(f) = n /\ (n # 0 => f # << >>)
<1>1. f \in Seq(T) /\ Len(f) = n
  OBVIOUS
<1> QED BY <1>1

(* One text, and two with something between them. *)
LEMMA JoinedOne ==
  ASSUME NEW E, NEW texts, DOMAIN texts = 1..1, texts[1] \in Seq(E), NEW between
  PROVE  Joined(texts, between) = texts[1]
<1>1. PICK parts : parts = [z \in DOMAIN texts |-> IF z = 1 THEN texts[z] ELSE between \o texts[z]]
  OBVIOUS
<1>2. 1 \in 1..1 /\ \A z \in 1..1 : z = 1
  OBVIOUS
<1>3. parts = [z \in 1..1 |-> texts[1]]
  BY <1>1, <1>2
<1>4. parts \in [1..1 -> Seq(E)] /\ parts[1] = texts[1]
  BY <1>2, <1>3
<1>5. parts \in Seq(Seq(E)) /\ Len(parts) = 1 /\ parts # << >>
  <2>1. PICK T : T = Seq(E)
    OBVIOUS
  <2>2. PICK n \in Nat \ {0} : n = 1
    OBVIOUS
  <2>3. parts \in [1..n -> T]
    BY <1>4, <2>1, <2>2
  <2>4. parts \in Seq(T) /\ Len(parts) = n /\ (n # 0 => parts # << >>)
    BY <2>3, AsSequence
  <2> QED BY <2>1, <2>2, <2>4
<1>6. PICK flat : FlattenSeq(parts) = flat[Len(parts)] /\ flat[1] = parts[1]
  BY <1>5, FlattenStep
<1> QED BY <1>1, <1>4, <1>5, <1>6 DEF Joined

LEMMA JoinedTwo ==
  ASSUME NEW E, NEW texts, DOMAIN texts = 1..2, texts[1] \in Seq(E), texts[2] \in Seq(E), NEW between \in Seq(E)
  PROVE  Joined(texts, between) = texts[1] \o (between \o texts[2])
<1>1. PICK parts : parts = [z \in DOMAIN texts |-> IF z = 1 THEN texts[z] ELSE between \o texts[z]]
  OBVIOUS
<1>2. 1 \in 1..2 /\ 2 \in 1..2 /\ 2 # 1 /\ (\A z \in 1..2 : z = 1 \/ z = 2) /\ 2 - 1 = 1 /\ 2 \in 2..2
  OBVIOUS
<1>3. parts[1] = texts[1] /\ parts[2] = between \o texts[2] /\ DOMAIN parts = 1..2
  BY <1>1, <1>2
<1>4. between \o texts[2] \in Seq(E)
  BY ConcatPlaces
<1>5. parts \in [1..2 -> Seq(E)]
  <2>1. parts = [z \in 1..2 |-> parts[z]]
    BY <1>1
  <2>2. \A z \in 1..2 : parts[z] \in Seq(E)
    BY <1>2, <1>3, <1>4
  <2> QED BY <2>1, <2>2
<1>6. parts \in Seq(Seq(E)) /\ Len(parts) = 2 /\ parts # << >>
  <2>1. PICK T : T = Seq(E)
    OBVIOUS
  <2>2. PICK n \in Nat \ {0} : n = 2
    OBVIOUS
  <2>3. parts \in [1..n -> T]
    BY <1>5, <2>1, <2>2
  <2>4. parts \in Seq(T) /\ Len(parts) = n /\ (n # 0 => parts # << >>)
    BY <2>3, AsSequence
  <2> QED BY <2>1, <2>2, <2>4
<1>7. PICK flat \in [1..Len(parts) -> Seq(E)] : 
       FlattenSeq(parts) = flat[Len(parts)] /\ flat[1] = parts[1] /\ \A z \in 2..Len(parts) : flat[z] = flat[z - 1] \o parts[z]
  <2>1. parts \in Seq(Seq(E)) /\ parts # << >>
    BY <1>6
  <2> QED BY <2>1, FlattenStep
<1>8. flat[2] = flat[1] \o parts[2]
  BY <1>2, <1>6, <1>7
<1> QED BY <1>1, <1>3, <1>6, <1>7, <1>8 DEF Joined

(* The operator as it is sought, and as it is written with one space. *)
LEMMA SpacedWords ==
  ASSUME NEW E, NEW blank \in E, NEW v \in E, NEW w \in E
  PROVE  Spaced(<<v>>, blank) = <<v>> /\ Spaced(<<v, w>>, blank) = <<v, blank, w>>
<1>1. \A x \in E : <<x>> \in Seq(E)
  OBVIOUS
<1>2. Spaced(<<v>>, blank) = <<v>>
  <2>1. PICK words : words = [z \in DOMAIN <<v>> |-> << <<v>>[z] >>]
    OBVIOUS
  <2>2. DOMAIN words = 1..1 /\ words[1] = <<v>>
    BY <2>1
  <2>3. Joined(words, <<blank>>) = words[1]
    BY <1>1, <2>2, JoinedOne
  <2> QED BY <2>1, <2>2, <2>3 DEF Spaced
<1>3. Spaced(<<v, w>>, blank) = <<v, blank, w>>
  <2>1. PICK words : words = [z \in DOMAIN <<v, w>> |-> << <<v, w>>[z] >>]
    OBVIOUS
  <2>2. DOMAIN words = 1..2 /\ words[1] = <<v>> /\ words[2] = <<w>>
    BY <2>1
  <2>3. Joined(words, <<blank>>) = <<v>> \o (<<blank>> \o <<w>>)
    BY <1>1, <2>2, JoinedTwo
  <2>4. <<v>> \o (<<blank>> \o <<w>>) = <<v, blank, w>>
    <3>1. PICK t : t = <<blank>> \o <<w>>
      OBVIOUS
    <3>2. t \in Seq(E) /\ Len(t) = 2 /\ t[1] = blank /\ t[2] = w
      <4>1. PICK q : q = <<w>>
        OBVIOUS
      <4>2. q \in Seq(E) /\ Len(q) = 1 /\ q[1] = w
        BY <4>1
      <4>3. t \in Seq(E) /\ Len(t) = Len(q) + 1 /\ t[1] = blank /\ \A z \in 1..Len(q) : t[z + 1] = q[z]
        BY <3>1, <4>1, <4>2, TailOf
      <4> QED BY <4>2, <4>3
    <3>3. PICK u : u = <<v>> \o t
      OBVIOUS
    <3>4. u \in Seq(E) /\ Len(u) = Len(t) + 1 /\ u[1] = v /\ \A z \in 1..Len(t) : u[z + 1] = t[z]
      BY <3>2, <3>3, TailOf
    <3>5. Len(u) = 3 /\ u[2] = blank /\ u[3] = w
      BY <3>2, <3>4
    <3>6. u = <<v, blank, w>>
      <4>1. PICK s : s = <<v, blank, w>>
        OBVIOUS
      <4>2. s \in Seq(E) /\ Len(s) = 3 /\ s[1] = v /\ s[2] = blank /\ s[3] = w
        BY <4>1, ShortTexts
      <4>3. \A z \in 1..3 : z = 1 \/ z = 2 \/ z = 3
        OBVIOUS
      <4>4. \A z \in 1..Len(u) : u[z] = s[z]
        BY <3>4, <3>5, <4>2, <4>3
      <4> QED BY <3>4, <3>5, <4>1, <4>2, <4>4, SeqEqual
    <3> QED BY <3>1, <3>3, <3>6
  <2> QED BY <2>1, <2>3, <2>4 DEF Spaced
<1> QED BY <1>2, <1>3

(* Where the texts begin that stand with something between them. *)
JoinedAt(at, texts, n, lead, joined) ==
  /\ at[1] = 1 /\ at[n + 1] = Len(joined) + 1
  /\ \A z \in 1..n : at[z] \in 1..Len(joined) /\ at[z + 1] \in 1..Len(joined) + 1
  /\ at[2] = Len(texts[1]) + 1 /\ \A j \in 1..Len(texts[1]) : joined[j] = texts[1][j]
  /\ \A z \in 2..n :
       /\ at[z + 1] = at[z] + Len(lead) + Len(texts[z])
       /\ \A j \in 1..Len(lead) : joined[at[z] + j - 1] = lead[j]
       /\ \A j \in 1..Len(texts[z]) : joined[at[z] + Len(lead) + j - 1] = texts[z][j]

LEMMA JoinedPlaces ==
  ASSUME NEW E, NEW n \in Nat \ {0}, NEW texts, DOMAIN texts = 1..n, \A z \in 1..n : texts[z] \in Seq(E) /\ texts[z] # << >>,
         NEW lead \in Seq(E)
  PROVE  Joined(texts, lead) \in Seq(E) /\ \E at : JoinedAt(at, texts, n, lead, Joined(texts, lead))
<1>1. PICK parts : parts = [z \in 1..n |-> IF z = 1 THEN texts[z] ELSE lead \o texts[z]]
  OBVIOUS
<1>2. PICK joined : joined = FlattenSeq(parts) /\ joined = Joined(texts, lead)
  BY <1>1 DEF Joined
<1>3. ASSUME NEW z \in 1..n
      PROVE  /\ parts[z] \in Seq(E) /\ parts[z] # << >> /\ Len(texts[z]) \in Nat
             /\ z = 1 => parts[z] = texts[z]
             /\ z # 1 => /\ Len(parts[z]) = Len(lead) + Len(texts[z])
                         /\ \A j \in 1..Len(lead) : parts[z][j] = lead[j]
                         /\ \A j \in 1..Len(texts[z]) : parts[z][Len(lead) + j] = texts[z][j]
  <2>0. PICK t \in Seq(E) : t = texts[z] /\ t # << >>
    OBVIOUS
  <2>1. CASE z = 1
    BY <1>1, <2>0, <2>1
  <2>2. CASE z # 1
    <3>1. parts[z] = lead \o t
      BY <1>1, <2>0, <2>2
    <3>2. PICK c : c = lead \o t
      OBVIOUS
    <3>3. c \in Seq(E) /\ Len(c) = Len(lead) + Len(t) /\ Len(lead) \in Nat /\ Len(t) \in Nat
          /\ (\A j \in 1..Len(lead) : c[j] = lead[j]) /\ \A j \in 1..Len(t) : c[Len(lead) + j] = t[j]
      BY <3>2, ConcatPlaces
    <3>4. Len(t) # 0
      BY <2>0, EmptySeq
    <3>5. c # << >>
      <4>1. Len(c) # 0
        BY <3>3, <3>4
      <4> QED BY <4>1
    <3> QED BY <2>0, <2>2, <3>1, <3>2, <3>3, <3>5
  <2> QED BY <2>1, <2>2
<1>4. parts \in Seq(Seq(E)) /\ Len(parts) = n
  <2>1. PICK T : T = Seq(E)
    OBVIOUS
  <2>2. parts \in [1..n -> T]
    BY <1>1, <1>3, <2>1
  <2>3. parts \in Seq(T) /\ Len(parts) = n
    BY <2>2, AsSequence
  <2> QED BY <2>1, <2>3
<1>5. joined \in Seq(E) /\ \E at : IsRow(at, parts, joined)
  <2>1. \A z \in 1..Len(parts) : parts[z] # << >>
    BY <1>3, <1>4
  <2>2. FlattenSeq(parts) \in Seq(E) /\ \E at : IsRow(at, parts, FlattenSeq(parts))
    BY <1>4, <2>1, Rows
  <2> QED BY <1>2, <2>2
<1>6. PICK at : IsRow(at, parts, joined)
  BY <1>5
<1>7. PICK m \in Nat : m = Len(joined)
  BY <1>5
<1>8. at[1] = 1 /\ at[n + 1] = m + 1 /\ 1 \in 1..n
  BY <1>4, <1>6, <1>7 DEF IsRow
<1>9. \A z \in 1..n : Occupies(at, z, joined, m, parts[z], Len(parts[z]))
  BY <1>4, <1>6, <1>7, RowAt
<1>10. \A z \in 1..n : at[z] \in 1..m /\ at[z + 1] \in 1..m + 1
  BY <1>9 DEF Occupies
<1>11. at[2] = Len(texts[1]) + 1 /\ \A j \in 1..Len(texts[1]) : joined[j] = texts[1][j]
  <2>0. parts[1] = texts[1] /\ Len(texts[1]) \in Nat
    BY <1>3, <1>8
  <2>1. at[1 + 1] = 1 + Len(texts[1]) /\ \A j \in 1..Len(texts[1]) : joined[1 + j - 1] = texts[1][j]
    BY <1>8, <1>9, <2>0 DEF Occupies
  <2>2. PICK l \in Nat : l = Len(texts[1])
    BY <2>0
  <2>3. \A j \in 1..l : 1 + j - 1 = j
    OBVIOUS
  <2>4. 1 + 1 = 2 /\ 1 + l = l + 1
    OBVIOUS
  <2> QED BY <2>1, <2>2, <2>3, <2>4
<1>12. ASSUME NEW z \in 2..n
       PROVE  /\ at[z + 1] = at[z] + Len(lead) + Len(texts[z])
              /\ \A j \in 1..Len(lead) : joined[at[z] + j - 1] = lead[j]
              /\ \A j \in 1..Len(texts[z]) : joined[at[z] + Len(lead) + j - 1] = texts[z][j]
  <2>1. z \in 1..n /\ z # 1
    OBVIOUS
  <2>2. PICK a, l, k \in Nat : a = at[z] /\ l = Len(lead) /\ k = Len(texts[z])
    <3>1. Len(lead) \in Nat
      OBVIOUS
    <3>2. Len(texts[z]) \in Nat
      BY <1>3, <2>1
    <3>3. at[z] \in 1..m
      BY <1>10, <2>1
    <3>4. at[z] \in Nat
      BY <3>3
    <3> QED BY <3>1, <3>2, <3>4
  <2>3. PICK c : c = parts[z]
    OBVIOUS
  <2>4. Len(c) = l + k /\ (\A j \in 1..l : c[j] = lead[j]) /\ \A j \in 1..k : c[l + j] = texts[z][j]
    BY <1>3, <2>1, <2>2, <2>3
  <2>5. at[z + 1] = a + (l + k) /\ \A j \in 1..l + k : joined[a + j - 1] = c[j]
    BY <1>9, <2>1, <2>2, <2>3, <2>4 DEF Occupies
  <2>6. \A j \in 1..l : j \in 1..l + k
    OBVIOUS
  <2>7. \A j \in 1..k : l + j \in 1..l + k /\ a + (l + j) - 1 = a + l + j - 1
    OBVIOUS
  <2>8. a + (l + k) = a + l + k
    OBVIOUS
  <2>9. \A j \in 1..k : joined[a + l + j - 1] = texts[z][j]
    BY <2>4, <2>5, <2>7
  <2> QED BY <2>2, <2>4, <2>5, <2>6, <2>8, <2>9
<1>13. JoinedAt(at, texts, n, lead, joined)
  BY <1>7, <1>8, <1>10, <1>11, <1>12 DEF JoinedAt
<1> QED BY <1>2, <1>5, <1>13

(* Numbers each less than the next ascend, and what is between the first    *)
(* and the last is between two of them.                                     *)
LEMMA Ascending ==
  ASSUME NEW n \in Nat, NEW f, \A z \in 1..n : f[z] \in Int /\ f[z + 1] \in Int /\ f[z] < f[z + 1]
  PROVE  /\ \A z, j \in 1..n + 1 : z < j => f[z] < f[j]
         /\ n # 0 => \A y \in f[1]..f[n + 1] - 1 : \E z \in 1..n : f[z] <= y /\ y < f[z + 1]
<1>1. PICK S : S = {k \in 0..n : \A z, j \in 1..k + 1 : z < j => f[z] < f[j]}
  OBVIOUS
<1>2. 0 \in S
  BY <1>1
<1>3. ASSUME NEW k \in 1..n, k - 1 \in S PROVE k \in S
  <2>1. \A z, j \in 1..k : z < j => f[z] < f[j]
    <3>1. k - 1 + 1 = k
      OBVIOUS
    <3> QED BY <1>1, <1>3, <3>1
  <2>2. f[k] \in Int /\ f[k + 1] \in Int /\ f[k] < f[k + 1]
    OBVIOUS
  <2>3. ASSUME NEW z \in 1..k + 1, NEW j \in 1..k + 1, z < j PROVE f[z] < f[j]
    <3>1. CASE j \in 1..k
      BY <2>1, <2>3, <3>1
    <3>2. CASE j = k + 1 /\ z = k
      BY <2>2, <3>2
    <3>3. CASE j = k + 1 /\ z < k
      <4>1. z \in 1..k /\ k \in 1..k /\ z \in 1..n
        BY <3>3
      <4>2. f[z] < f[k] /\ f[z] \in Int
        BY <2>1, <3>3, <4>1
      <4> QED BY <2>2, <3>3, <4>2
    <3> QED BY <2>3, <3>1, <3>2, <3>3
  <2> QED BY <1>1, <2>3
<1>4. \A k \in 0..n : k \in S
  BY <1>2, <1>3, Forwards
<1>5. \A z, j \in 1..n + 1 : z < j => f[z] < f[j]
  <2>1. n \in S
    BY <1>4
  <2> QED BY <1>1, <2>1
<1>6. PICK T : T = {k \in 0..n : k = 0 \/ \A y \in f[1]..f[k + 1] - 1 : \E z \in 1..k : f[z] <= y /\ y < f[z + 1]}
  OBVIOUS
<1>7. 0 \in T
  BY <1>6
<1>8. ASSUME NEW k \in 1..n, k - 1 \in T PROVE k \in T
  <2>1. f[k] \in Int /\ f[k + 1] \in Int /\ f[1] \in Int
    <3>1. 1 \in 1..n
      OBVIOUS
    <3> QED BY <3>1
  <2>2. ASSUME NEW y \in f[1]..f[k + 1] - 1 PROVE \E z \in 1..k : f[z] <= y /\ y < f[z + 1]
    <3>1. CASE f[k] <= y
      <4>1. k \in 1..k
        OBVIOUS
      <4>2. y < f[k + 1]
        BY <2>1
      <4> QED BY <3>1, <4>1, <4>2
    <3>2. CASE ~(f[k] <= y)
      <4>1. y \in f[1]..f[k] - 1 /\ k # 1
        BY <2>1, <3>2
      <4>2. k - 1 # 0 /\ k - 1 + 1 = k /\ k - 1 \in 0..n
        BY <4>1
      <4>3. \E z \in 1..k - 1 : f[z] <= y /\ y < f[z + 1]
        BY <1>6, <1>8, <4>1, <4>2
      <4>4. \A z \in 1..k - 1 : z \in 1..k
        OBVIOUS
      <4> QED BY <4>3, <4>4
    <3> QED BY <3>1, <3>2
  <2> QED BY <1>6, <2>2
<1>9. \A k \in 0..n : k \in T
  BY <1>7, <1>8, Forwards
<1>10. n \in 0..n
  OBVIOUS
<1>11. n # 0 => \A y \in f[1]..f[n + 1] - 1 : \E z \in 1..n : f[z] <= y /\ y < f[z + 1]
  BY <1>6, <1>9, <1>10
<1> QED BY <1>5, <1>11

(* The first n numbers, from the least on.                                  *)
LEMMA AllOfThem ==
  ASSUME NEW n \in Nat
  PROVE  FromLeast(1..n) = [k \in 1..n |-> k]
<1>1. PICK s : s = [k \in 1..n |-> k]
  OBVIOUS
<1>2. s \in Seq(1..n) /\ DOMAIN s = 1..n /\ \A k \in 1..n : s[k] = k
  BY <1>1
<1>3. Enumerates(s, 1..n)
  BY <1>2 DEF Enumerates
<1>4. 1..n \in SUBSET Int
  OBVIOUS
<1> QED BY <1>1, <1>3, <1>4, OnlyEnumeration

--------------------------------------------------------------------------------
(* The comparisons that the loops get, and what follows their operator.       *)

(* The characters of a comparison. *)
Characters == STRING \cup InWord \cup Quotes \cup Symbols \cup {Space, Comma, "(", ")"}

LEMMA CharacterFacts ==
  /\ Space \in Characters /\ Comma \in Characters /\ "(" \in Characters /\ ")" \in Characters
  /\ STRING \subseteq Characters /\ InWord \subseteq Characters /\ Symbols \subseteq Characters /\ Quotes \subseteq Characters
  /\ Space \notin InWord /\ Space \notin Symbols /\ Space \in Blanks /\ Space # Comma /\ Comma \notin Blanks
  /\ \A x \in Symbols : x \notin InWord
  /\ \A q \in Quotes : q \notin Blanks /\ q # "(" /\ q # "AND" /\ q # Comma
  /\ "(" \notin Blanks /\ ")" \notin Blanks /\ "AND" \notin Blanks /\ "NOT" # Space
  /\ "AND" \in InWord /\ "NOT" \in InWord /\ "IN" \in InWord /\ "LIKE" \in InWord /\ "BETWEEN" \in InWord
<1>1. Space \in Blanks
  BY DEF Blanks
<1>2. /\ Space \in Characters /\ Comma \in Characters /\ "(" \in Characters /\ ")" \in Characters
      /\ STRING \subseteq Characters /\ InWord \subseteq Characters /\ Symbols \subseteq Characters /\ Quotes \subseteq Characters
  BY DEF Characters
<1>3. Space \notin InWord /\ Space \notin Symbols /\ Space # Comma /\ Comma \notin Blanks /\ "NOT" # Space
  BY Zenon DEF Space, InWord, Symbols, Comma, Blanks
<1>4. \A x \in Symbols : x \notin InWord
  BY DEF Symbols, InWord
<1>5. \A q \in Quotes : q \notin Blanks /\ q # "(" /\ q # "AND" /\ q # Comma
  BY Zenon DEF Quotes, Blanks, Space, Comma
<1>6. "(" \notin Blanks /\ ")" \notin Blanks /\ "AND" \notin Blanks
  BY Zenon DEF Blanks, Space
<1>7. "AND" \in InWord /\ "NOT" \in InWord /\ "IN" \in InWord /\ "LIKE" \in InWord /\ "BETWEEN" \in InWord
  BY DEF InWord
<1> QED BY <1>1, <1>2, <1>3, <1>4, <1>5, <1>6, <1>7

(* An operand is a text without blanks around it, and unless it is quoted   *)
(* without blanks in it.                                                    *)
LEMMA Operands ==
  ASSUME NEW v, IsOperand(v)
  PROVE  /\ v \in Seq(Characters) /\ NoBlanksAround(v) /\ Len(v) \in Nat \ {0} /\ v # << >>
         /\ IF IsQuoted(v) THEN Len(v) >= 2 ELSE \A z \in 1..Len(v) : v[z] \notin Blanks \cup Quotes
<1>1. v \in Seq(STRING) /\ v # << >>
  BY DEF IsOperand
<1>2. v \in Seq(Characters)
  BY <1>1, CharacterFacts, InLarger
<1>3. PICK n \in Nat \ {0} : n = Len(v) /\ DOMAIN v = 1..n /\ Last(v) = v[n]
  BY <1>1, EmptySeq DEF Last
<1>4. ~IsQuoted(v) => \A z \in 1..n : v[z] \notin Blanks \cup Quotes
  BY <1>3 DEF IsOperand, Range
<1>5. v[1] \notin Blanks /\ Last(v) \notin Blanks
  <2>1. CASE IsQuoted(v)
    BY <2>1, CharacterFacts DEF IsQuoted
  <2>2. CASE ~IsQuoted(v)
    BY <1>3, <1>4, <2>2
  <2> QED BY <2>1, <2>2
<1> QED BY <1>1, <1>2, <1>3, <1>4, <1>5 DEF NoBlanksAround, IsOperand

(* Trimming an operand of its blanks leaves it as it is. *)
LEMMA OperandTrimmed ==
  ASSUME NEW v, IsOperand(v)
  PROVE  TrimSpace(v) = v
<1>1. v \in Seq(Characters) /\ v # << >> /\ NoBlanksAround(v)
  BY Operands
<1>2. v[1] \notin Blanks /\ Last(v) \notin Blanks
  BY <1>1 DEF NoBlanksAround
<1> QED BY <1>1, <1>2, NothingTrimmed DEF TrimSpace

(* The operator of a comparison: a symbol, a word, or NOT and a word. *)
LEMMA Operators ==
  ASSUME NEW f, IsComparison(f)
  PROVE  \/ \E s \in Symbols \cup {"LIKE"} : f.operator = <<s>>
         \/ \E w \in {"IN", "BETWEEN"} : f.operator = <<w>>
         \/ \E w \in {"LIKE", "BETWEEN", "IN"} : f.operator = <<"NOT", w>>
<1>1. CASE f.operator \in {<<s>> : s \in Symbols \cup {"LIKE", "BETWEEN", "IN"}}
  BY <1>1
<1>2. CASE f.operator \in {"NOT"} \X {"LIKE", "BETWEEN", "IN"}
  BY <1>2
<1> QED BY <1>1, <1>2 DEF IsComparison

(* Operators of one and of two words. *)
LEMMA OneOrTwoWords ==
  /\ \A s : Len(<<s>>) = 1 /\ \A t : Contains(<<s>>, t) <=> s = t
  /\ \A s, w : Len(<<s, w>>) = 2 /\ \A t : Contains(<<s, w>>, t) <=> t \in {s, w}
  /\ \A s, t : <<s>> = <<t>> <=> s = t
  /\ \A s, v, w : <<s>> # <<v, w>>
<1>1. \A s : Len(<<s>>) = 1 /\ \A t : Contains(<<s>>, t) <=> s = t
  BY DEF Contains
<1>2. \A s, w : Len(<<s, w>>) = 2 /\ \A t : Contains(<<s, w>>, t) <=> t \in {s, w}
  <2> SUFFICES ASSUME NEW s, NEW w, NEW t PROVE Len(<<s, w>>) = 2 /\ (Contains(<<s, w>>, t) <=> t \in {s, w})
    OBVIOUS
  <2>1. \A z \in 1..2 : z = 1 \/ z = 2
    OBVIOUS
  <2>2. Contains(<<s, w>>, t) <=> \E z \in 1..2 : <<s, w>>[z] = t
    BY DEF Contains
  <2> QED BY <2>1, <2>2
<1>3. \A s, t : <<s>> = <<t>> <=> s = t
  OBVIOUS
<1>4. \A s, v, w : <<s>> # <<v, w>>
  OBVIOUS
<1> QED BY <1>1, <1>2, <1>3, <1>4

(* The value of a comparison is found in its text: what is on the right     *)
(* side of the operator.                                                    *)
LEMMA ValueFound ==
  ASSUME NEW f, IsComparison(f), ~Misread(f), NEW right \in Seq(Characters), NoBlanksAround(right), RightSide(f) = right
  PROVE  ValuePart(ContextText(f), f.operator) = right
<1>0. PICK c, text, sp : c = f.column /\ text = ContextText(f) /\ sp = Spaced(f.operator, f.blank)
  OBVIOUS
<1>1. c \in Seq(Characters) /\ c # << >> /\ \A z \in 1..Len(c) : c[z] # Space /\ c[z] \notin Symbols
  <2>1. IsName(c)
    BY <1>0 DEF IsComparison
  <2>2. c \in Seq(STRING) /\ c # << >>
    BY <2>1 DEF IsName
  <2>3. c \in Seq(Characters)
    BY <2>2, CharacterFacts, InLarger
  <2>4. DOMAIN c = 1..Len(c) /\ Space \in Blanks
    BY <2>2, CharacterFacts
  <2>5. \A z \in 1..Len(c) : c[z] \notin Blanks \cup Symbols
    BY <2>1, <2>4 DEF IsName, Range
  <2> QED BY <2>2, <2>3, <2>4, <2>5
<1>2. text = c \o <<Space>> \o sp \o <<Space>> \o right
  BY <1>0 DEF ContextText
<1>3. ASSUME sp \in Seq(Characters) PROVE IsContext(text, c, sp, right, Characters)
  BY <1>1, <1>2, <1>3, CharacterFacts, ContextOf
<1>4. Len(c) \in Nat /\ Len(right) \in Nat
  BY <1>1
<1>5. ASSUME NEW s \in Symbols \cup {"LIKE"}, f.operator = <<s>> PROVE ValuePart(text, f.operator) = right
  <2>1. s \in Characters /\ s # Space
    BY CharacterFacts
  <2>2. PICK q : q = <<s>>
    OBVIOUS
  <2>3. q \in Seq(Characters) /\ Len(q) = 1 /\ q[1] = s /\ q # << >>
    BY <2>1, <2>2
  <2>4. sp = q /\ Spaced(f.operator, Space) = q
    <3>1. f.blank \in Blanks
      BY DEF IsComparison
    <3>2. \A E : s \in E => \A b \in E : Spaced(<<s>>, b) = <<s>>
      BY SpacedWords
    <3>3. s \in STRING \cup {s, Space} \cup Blanks
      OBVIOUS
    <3> QED BY <1>0, <1>5, <2>2, <3>1, <3>2, <3>3
  <2>5. IsContext(text, c, q, right, Characters)
    BY <1>3, <2>3, <2>4
  <2>6. FoundAfter(Occurrences(text, q), text, c, q)
    <3>1. text \in Seq(Characters) /\ Len(text) = Len(c) + 1 + Len(right) + 2 /\ (\A z \in 1..Len(c) : text[z] = c[z])
          /\ text[Len(c) + 1] = Space /\ text[Len(c) + 1 + 1] = s
      <4>1. 1 \in 1..1
        OBVIOUS
      <4> QED BY <2>3, <2>5, <4>1 DEF IsContext
    <3>2. PICK l, n \in Nat : l = Len(c) /\ n = Len(text) /\ n >= l + 3
      BY <1>4, <3>1
    <3>3. \A z : z \in Occurrences(text, q) <=> StandsAt(text, q, z)
      BY <2>3, <3>1, OccursAt
    <3>4. \A z \in 1..n : StandsAt(text, q, z) <=> text[z] = s
      <4>1. \A k \in 1..1 : k = 1
        OBVIOUS
      <4>2. \A z \in 1..n : z + 1 - 1 = z /\ z \in 1..n - 1 + 1
        OBVIOUS
      <4>3. 1 \in 1..1
        OBVIOUS
      <4> QED BY <2>3, <3>2, <4>1, <4>2, <4>3 DEF StandsAt
    <3>5. \A z \in 1..l : text[z] # s
      <4>1. CASE s = "LIKE"
        <5>1. ~Contains(c, "LIKE")
          BY <1>0, <1>5, <4>1 DEF Misread
        <5> QED BY <3>1, <3>2, <4>1, <5>1 DEF Contains
      <4>2. CASE s \in Symbols
        BY <1>1, <3>1, <3>2, <4>2
      <4> QED BY <4>1, <4>2
    <3>6. l + 2 \in 1..n /\ l + 1 \in 1..n /\ l + 1 + 1 = l + 2 /\ \A z \in 1..l : z \in 1..n
      BY <3>2
    <3> QED BY <2>1, <3>1, <3>2, <3>3, <3>4, <3>5, <3>6 DEF FoundAfter
  <2>7. After(text, Occurrences(text, q), Len(q)) = right
    BY <1>1, <2>3, <2>5, <2>6, CharacterFacts, ValueAfter
  <2>8. f.operator \notin {<<"IN">>, <<"BETWEEN">>}
    <3>1. s \notin {"IN", "BETWEEN"}
      BY CharacterFacts
    <3> QED BY <1>5, <3>1, OneOrTwoWords
  <2> QED BY <2>4, <2>7, <2>8 DEF ValuePart
<1>6. ASSUME NEW w \in {"IN", "BETWEEN"}, f.operator = <<w>> PROVE ValuePart(text, f.operator) = right
  <2>1. sp = <<w>> /\ sp \in Seq(Characters) /\ w \in InWord /\ w \in Characters
    <3>1. f.blank \in Blanks
      BY DEF IsComparison
    <3>2. \A E : w \in E => \A b \in E : Spaced(<<w>>, b) = <<w>>
      BY SpacedWords
    <3>3. w \in {w} \cup Blanks
      OBVIOUS
    <3>4. w \in InWord /\ w \in Characters
      BY CharacterFacts
    <3>5. sp = <<w>>
      BY <1>0, <1>6, <3>1, <3>2, <3>3
    <3>6. <<w>> \in Seq(Characters)
      BY <3>4
    <3> QED BY <3>4, <3>5, <3>6
  <2>2. IsContext(text, c, <<w>>, right, Characters)
    BY <1>3, <2>1
  <2>3. KeywordOccurrences(c, w) = {}
    <3>1. f.operator \in {<<"IN">>, <<"BETWEEN">>} /\ f.operator[1] = w
      BY <1>6
    <3> QED BY <1>0, <3>1 DEF Misread
  <2>4. After(text, KeywordOccurrences(text, w), 1) = right
    BY <1>1, <2>1, <2>2, <2>3, CharacterFacts, KeywordAfter
  <2> QED BY <1>6, <2>4 DEF ValuePart
<1>7. ASSUME NEW w \in {"LIKE", "BETWEEN", "IN"}, f.operator = <<"NOT", w>> PROVE ValuePart(text, f.operator) = right
  <2>1. f.blank = Space
    BY <1>7, OneOrTwoWords DEF Misread
  <2>2. PICK q : q = <<"NOT", Space, w>>
    OBVIOUS
  <2>3. w \in Characters /\ "NOT" \in Characters /\ Space \in Characters
    BY CharacterFacts
  <2>4. q \in Seq(Characters) /\ Len(q) = 3 /\ q[1] = "NOT" /\ q[2] = Space /\ q[3] = w
    BY <2>2, <2>3, ShortTexts
  <2>5. sp = q /\ Spaced(f.operator, Space) = q
    BY <1>0, <1>7, <2>1, <2>2, <2>3, SpacedWords
  <2>6. IsContext(text, c, q, right, Characters)
    BY <1>3, <2>4, <2>5
  <2>7. q # << >>
    BY <2>4
  <2>8. FoundAfter(Occurrences(text, q), text, c, q)
    <3>1. text \in Seq(Characters) /\ Len(text) = Len(c) + 3 + Len(right) + 2 /\ (\A z \in 1..Len(c) : text[z] = c[z])
          /\ text[Len(c) + 1] = Space /\ \A k \in 1..3 : text[Len(c) + 1 + k] = q[k]
      BY <2>4, <2>6 DEF IsContext
    <3>2. PICK l, n \in Nat : l = Len(c) /\ n = Len(text) /\ n >= l + 5
      BY <1>4, <3>1
    <3>3. \A z : z \in Occurrences(text, q) <=> StandsAt(text, q, z)
      BY <2>4, <2>7, <3>1, OccursAt
    <3>4. \A z : StandsAt(text, q, z) <=> z \in 1..n - 3 + 1 /\ \A k \in 1..3 : text[z + k - 1] = q[k]
      BY <2>4, <3>2 DEF StandsAt
    <3>5. StandsAt(text, q, l + 2)
      <4>1. \A k \in 1..3 : (l + 2) + k - 1 = l + 1 + k
        OBVIOUS
      <4>2. l + 2 \in 1..n - 3 + 1
        BY <3>2
      <4> QED BY <3>1, <3>2, <3>4, <4>1, <4>2
    <3>6. ~StandsAt(text, q, l + 1)
      <4>1. 1 \in 1..3 /\ (l + 1) + 1 - 1 = l + 1
        OBVIOUS
      <4> QED BY <2>4, <3>1, <3>2, <3>4, <4>1, CharacterFacts
    <3>7. ASSUME NEW z \in 1..l PROVE ~StandsAt(text, q, z)
      <4>1. CASE z = l
        <5>1. 3 \in 1..3 /\ z + 3 - 1 = l + 1 + 1 /\ 1 \in 1..3
          BY <4>1
        <5>2. text[l + 1 + 1] = "NOT"
          BY <2>4, <3>1, <3>2, <5>1
        <5>3. w # "NOT"
          OBVIOUS
        <5> QED BY <2>4, <3>4, <5>1, <5>2, <5>3
      <4>2. CASE z # l
        <5>1. z + 1 \in 1..l /\ 2 \in 1..3 /\ z + 2 - 1 = z + 1
          BY <4>2
        <5>2. text[z + 1] # Space
          BY <1>1, <3>1, <3>2, <5>1
        <5> QED BY <2>4, <3>4, <5>1, <5>2
      <4> QED BY <4>1, <4>2
    <3> QED BY <3>2, <3>3, <3>5, <3>6, <3>7 DEF FoundAfter
  <2>9. After(text, Occurrences(text, q), Len(q)) = right
    BY <1>1, <2>4, <2>6, <2>7, <2>8, CharacterFacts, ValueAfter
  <2>10. f.operator \notin {<<"IN">>, <<"BETWEEN">>}
    BY <1>7, OneOrTwoWords
  <2> QED BY <2>5, <2>9, <2>10 DEF ValuePart
<1> QED BY <1>0, <1>5, <1>6, <1>7, Operators

--------------------------------------------------------------------------------
(* The value of a comparison with one operand.                                *)

(* The branches of what is written and of what is extracted. *)
LEMMA WrittenValues ==
  ASSUME NEW f, f.operator # <<"IS">>, ~Contains(f.operator, "NULL"),
         f.operator \notin {<<"NOT", "IN">>, <<"NOT", "BETWEEN">>},
         NEW b \in BOOLEAN, b <=> Len(f.values) = 1 /\ f.operator # <<"IN">> /\ IsParameter(f.values[1])
  PROVE  Written(f) = [values |-> [k \in DOMAIN f.values |-> Unquoted(f.values[k])], isParameter |-> b]
<1>1. (Len(f.values) = 1 /\ f.operator # <<"IN">> /\ IsParameter(f.values[1])) = b
  BY Zenon
<1>2. PICK values : values = [k \in DOMAIN f.values |-> Unquoted(f.values[k])]
  OBVIOUS
<1>3. Written(f) = [values |-> values, isParameter |-> Len(f.values) = 1 /\ f.operator # <<"IN">> /\ IsParameter(f.values[1])]
  BY <1>2, Zenon DEF Written
<1> QED BY <1>1, <1>2, <1>3, Zenon

(* What is extracted of a value that there is, by the operator.             *)
Extracts(operator, value, extracted) ==
  /\ IsParameter(value) => extracted = [values |-> <<value>>, isParameter |-> TRUE]
  /\ ~IsParameter(value) /\ operator = <<"IN">> /\ ExtractInValues(value) # << >>
       => extracted = [values |-> ExtractInValues(value), isParameter |-> FALSE]
  /\ ~IsParameter(value) /\ operator = <<"BETWEEN">> /\ Len(ExtractBetweenValues(value)) = 2
       => extracted = [values |-> ExtractBetweenValues(value), isParameter |-> FALSE]
  /\ ~IsParameter(value) /\ operator # <<"IN">> /\ operator # <<"BETWEEN">> =>
       /\ Contains(operator, "LIKE") => extracted = [values |-> <<Trim(value, Quotes)>>, isParameter |-> FALSE]
       /\ ~Contains(operator, "LIKE") /\ IsQuoted(value)
            => extracted = [values |-> <<Trim(value, {value[1]})>>, isParameter |-> FALSE]
       /\ ~Contains(operator, "LIKE") /\ ~IsQuoted(value) => extracted = [values |-> <<value>>, isParameter |-> FALSE]

LEMMA ExtractedValue ==
  ASSUME NEW text, NEW operator, operator # <<"IS">>, ~Contains(operator, "NULL"),
         NEW value, value = ValuePart(text, operator), value # << >>
  PROVE  Extracts(operator, value, ExtractValue(text, operator))
<1>1. <<"IN">> # <<"BETWEEN">>
  BY OneOrTwoWords
<1>2. PICK v : v = ExtractValue(text, operator)
  OBVIOUS
<1>3. ~(operator = <<"IS">> \/ Contains(operator, "NULL") \/ value = << >>)
  OBVIOUS
<1>4. ASSUME IsParameter(value) PROVE v = [values |-> <<value>>, isParameter |-> TRUE]
  BY <1>2, <1>3, <1>4 DEF ExtractValue
<1>5. ASSUME ~IsParameter(value), operator = <<"IN">>, ExtractInValues(value) # << >>
      PROVE  v = Literals(ExtractInValues(value))
  BY <1>2, <1>3, <1>5 DEF ExtractValue
<1>6. ASSUME ~IsParameter(value), operator = <<"BETWEEN">>, Len(ExtractBetweenValues(value)) = 2
      PROVE  v = Literals(ExtractBetweenValues(value))
  <2>1. operator # <<"IN">>
    BY <1>1, <1>6
  <2> QED BY <1>2, <1>3, <1>6, <2>1 DEF ExtractValue
<1>7. ASSUME ~IsParameter(value), operator # <<"IN">>, operator # <<"BETWEEN">>
      PROVE  /\ Contains(operator, "LIKE") => v = Literal(Trim(value, Quotes))
             /\ ~Contains(operator, "LIKE") /\ IsQuoted(value) => v = Literal(Trim(value, {value[1]}))
             /\ ~Contains(operator, "LIKE") /\ ~IsQuoted(value) => v = Literal(value)
  BY <1>2, <1>3, <1>7 DEF ExtractValue
<1>8. Extracts(operator, value, v)
  BY <1>4, <1>5, <1>6, <1>7, Zenon DEF Extracts, Literal, Literals
<1> QED BY <1>2, <1>8

(* The right side of an operator with one operand. *)
LEMMA OneOperand ==
  ASSUME NEW f, IsComparison(f), ~Misread(f), ~Contains(f.operator, "IN"), ~Contains(f.operator, "BETWEEN")
  PROVE  ExtractValue(ContextText(f), f.operator) = Written(f)
<1>1. \/ \E s \in Symbols \cup {"LIKE"} : f.operator = <<s>>
      \/ f.operator = <<"NOT", "LIKE">>
  BY Operators, OneOrTwoWords
<1>2. PICK v : v = f.values[1]
  OBVIOUS
<1>3. DOMAIN f.values = 1..1 /\ Len(f.values) = 1 /\ IsOperand(v)
  <2>1. Len(f.values) = 1
    BY DEF IsComparison
  <2>2. 1 \in 1..1
    OBVIOUS
  <2> QED BY <1>2, <2>1, <2>2 DEF IsComparison
<1>4. v \in Seq(Characters) /\ NoBlanksAround(v) /\ v # << >>
  BY <1>3, Operands
<1>5. RightSide(f) = v
  <2>1. Joined(f.values, <<Space>>) = v
    BY <1>2, <1>3, <1>4, JoinedOne
  <2> QED BY <2>1 DEF RightSide
<1>6. ValuePart(ContextText(f), f.operator) = v
  BY <1>4, <1>5, ValueFound
<1>7. ~(f.operator = <<"IS">> \/ Contains(f.operator, "NULL")) /\ f.operator # <<"IN">> /\ f.operator # <<"BETWEEN">>
      /\ f.operator \notin {<<"NOT", "IN">>, <<"NOT", "BETWEEN">>}
  <2>1. \A s \in Symbols \cup {"LIKE"} : s \notin {"IS", "NULL", "IN", "BETWEEN", "NOT"}
    BY CharacterFacts DEF InWord
  <2>2. CASE f.operator = <<"NOT", "LIKE">>
    BY <2>2, OneOrTwoWords
  <2>3. ASSUME NEW s \in Symbols \cup {"LIKE"}, f.operator = <<s>> PROVE <1>7!1
    BY <2>1, <2>3, OneOrTwoWords
  <2> QED BY <1>1, <2>2, <2>3
<1>8. Unquoted(v) = Trim(v, Quotes)
  <2>1. 1 \in DOMAIN f.values
    BY <1>3
  <2> QED BY <1>2, <2>1 DEF Misread
<1>9. PICK b \in BOOLEAN : b <=> IsParameter(v)
  <2>1. CASE IsParameter(v)
    BY <2>1
  <2>2. CASE ~IsParameter(v)
    BY <2>2
  <2> QED BY <2>1, <2>2
<1>10. Written(f) = [values |-> <<Unquoted(v)>>, isParameter |-> b]
  <2>1. b <=> Len(f.values) = 1 /\ f.operator # <<"IN">> /\ IsParameter(f.values[1])
    BY <1>2, <1>3, <1>7, <1>9
  <2>2. Written(f) = [values |-> [k \in DOMAIN f.values |-> Unquoted(f.values[k])], isParameter |-> b]
    BY <1>7, <2>1, WrittenValues
  <2>3. [k \in DOMAIN f.values |-> Unquoted(f.values[k])] = <<Unquoted(v)>>
    <3>1. \A k \in 1..1 : k = 1
      OBVIOUS
    <3>2. [k \in DOMAIN f.values |-> Unquoted(f.values[k])] = [k \in 1..1 |-> Unquoted(v)]
      BY <1>2, <1>3, <3>1
    <3>3. [k \in 1..1 |-> Unquoted(v)] = <<Unquoted(v)>>
      OBVIOUS
    <3> QED BY <3>2, <3>3
  <2> QED BY <2>2, <2>3
<1>11. PICK text, extracted : text = ContextText(f) /\ extracted = ExtractValue(text, f.operator)
  OBVIOUS
<1>12. /\ IsParameter(v) => extracted = [values |-> <<v>>, isParameter |-> TRUE]
       /\ ~IsParameter(v) =>
            /\ Contains(f.operator, "LIKE") => extracted = [values |-> <<Trim(v, Quotes)>>, isParameter |-> FALSE]
            /\ ~Contains(f.operator, "LIKE") /\ IsQuoted(v) => extracted = [values |-> <<Trim(v, {v[1]})>>, isParameter |-> FALSE]
            /\ ~Contains(f.operator, "LIKE") /\ ~IsQuoted(v) => extracted = [values |-> <<v>>, isParameter |-> FALSE]
  <2>1. v = ValuePart(text, f.operator)
    BY <1>6, <1>11
  <2>2. f.operator # <<"IS">>
    BY <1>7
  <2>3. ~Contains(f.operator, "NULL")
    BY <1>7
  <2>4. v # << >>
    BY <1>4
  <2>5. extracted = ExtractValue(text, f.operator)
    BY <1>11
  <2>6. Extracts(f.operator, v, extracted)
    BY <2>1, <2>2, <2>3, <2>4, <2>5, ExtractedValue
  <2> QED BY <1>7, <2>6, Zenon DEF Extracts
<1>13. IsParameter(v) => ~IsQuoted(v)
  <2>1. "$" \notin Quotes
    BY Zenon DEF Quotes
  <2> QED BY <2>1 DEF IsParameter, IsQuoted
<1>14. ~IsQuoted(v) => Unquoted(v) = v
  BY DEF Unquoted
<1>15. IsQuoted(v) => Trim(v, {v[1]}) = Unquoted(v)
  BY <1>3, <1>4, <1>8, Operands, OwnQuoteTrimmed
<1>16. IsParameter(v) => extracted = Written(f)
  <2> SUFFICES ASSUME IsParameter(v) PROVE extracted = Written(f)
    OBVIOUS
  <2>1. b = TRUE
    BY <1>9
  <2> QED BY <1>10, <1>12, <1>13, <1>14, <2>1
<1>17. ~IsParameter(v) => extracted = Written(f)
  <2> SUFFICES ASSUME ~IsParameter(v) PROVE extracted = Written(f)
    OBVIOUS
  <2>1. b = FALSE
    BY <1>9
  <2> QED BY <1>8, <1>10, <1>12, <1>14, <1>15, <2>1
<1> QED BY <1>11, <1>16, <1>17

--------------------------------------------------------------------------------
(* Lists in parentheses, items and bounds.                                    *)

(* The operands of a comparison. *)
LEMMA ManyOperands ==
  ASSUME NEW f, IsComparison(f), NEW n, n = Len(f.values)
  PROVE  /\ n \in Nat \ {0} /\ DOMAIN f.values = 1..n
         /\ \A k \in 1..n : f.values[k] \in Seq(Characters) /\ f.values[k] # << >> /\ IsOperand(f.values[k])
         /\ ~Misread(f) => \A k \in 1..n : Unquoted(f.values[k]) = Trim(f.values[k], Quotes)
<1>1. DOMAIN f.values = 1..n /\ \A k \in 1..n : IsOperand(f.values[k])
  BY DEF IsComparison
<1>2. Len(f.values) \in CASE Contains(f.operator, "BETWEEN") -> {2} [] Contains(f.operator, "IN") -> Nat \ {0} [] OTHER -> {1}
  BY Zenon DEF IsComparison
<1>3. ~(Contains(f.operator, "BETWEEN") /\ Contains(f.operator, "IN"))
  <2>1. /\ \A s \in Symbols \cup {"LIKE", "IN", "NOT"} : s # "BETWEEN"
        /\ \A s \in Symbols \cup {"LIKE", "BETWEEN", "NOT"} : s # "IN"
    BY CharacterFacts
  <2>2. ASSUME NEW s \in Symbols \cup {"LIKE", "IN", "BETWEEN"}, f.operator = <<s>>
        PROVE  ~(Contains(f.operator, "BETWEEN") /\ Contains(f.operator, "IN"))
    BY <2>1, <2>2, OneOrTwoWords
  <2>3. ASSUME NEW w \in {"LIKE", "BETWEEN", "IN"}, f.operator = <<"NOT", w>>
        PROVE  ~(Contains(f.operator, "BETWEEN") /\ Contains(f.operator, "IN"))
    BY <2>1, <2>3, OneOrTwoWords
  <2> QED BY <2>2, <2>3, Operators
<1>4. n \in Nat \ {0}
  BY <1>2, <1>3
<1>5. \A k \in 1..n : f.values[k] \in Seq(Characters) /\ f.values[k] # << >>
  BY <1>1, Operands
<1>6. ~Misread(f) => \A k \in 1..n : Unquoted(f.values[k]) = Trim(f.values[k], Quotes)
  BY <1>1 DEF Misread
<1> QED BY <1>1, <1>4, <1>5, <1>6

(* A list in parentheses. *)
LEMMA ParenthesesAround ==
  ASSUME NEW inner \in Seq(Characters), NEW text, text = <<"(">> \o inner \o <<")">>
  PROVE  /\ text \in Seq(Characters) /\ NoBlanksAround(text) /\ ~IsParameter(text) /\ ~IsQuoted(text)
         /\ IsPrefix(<<"(">>, text) /\ Tail(text) = inner \o <<")">>
         /\ IsSuffix(<<")">>, Tail(text)) /\ Front(Tail(text)) = inner
<1>1. PICK o, c \in Characters : o = "(" /\ c = ")" /\ o \notin Blanks /\ c \notin Blanks /\ o \notin Quotes /\ o # "$"
  <2>1. "(" # "$"
    BY Zenon
  <2> QED BY <2>1, CharacterFacts
<1>2. PICK closed : closed = inner \o <<c>>
  OBVIOUS
<1>3. <<c>> \in Seq(Characters) /\ Len(<<c>>) = 1 /\ <<c>>[1] = c /\ <<o>> \in Seq(Characters) /\ Len(<<o>>) = 1 /\ <<o>>[1] = o
  OBVIOUS
<1>4. PICK n \in Nat : n = Len(inner)
  OBVIOUS
<1>5. closed \in Seq(Characters) /\ Len(closed) = n + 1 /\ (\A z \in 1..n : closed[z] = inner[z]) /\ closed[n + 1] = c
  <2>1. PICK q : q = <<c>>
    OBVIOUS
  <2>2. closed \in Seq(Characters) /\ Len(closed) = n + 1 /\ (\A z \in 1..n : closed[z] = inner[z]) /\ \A z \in 1..1 : closed[n + z] = q[z]
    BY <1>2, <1>3, <1>4, <2>1, ConcatPlaces
  <2>3. 1 \in 1..1
    OBVIOUS
  <2> QED BY <1>3, <2>1, <2>2, <2>3
<1>6. text = <<o>> \o closed
  <2>1. \A a, b, d \in Seq(Characters) : (a \o b) \o d = a \o (b \o d)
    OBVIOUS
  <2>2. (<<o>> \o inner) \o <<c>> = <<o>> \o (inner \o <<c>>)
    BY <1>3, <2>1
  <2> QED BY <1>1, <1>2, <2>2
<1>7. /\ text \in Seq(Characters) /\ Tail(text) = closed /\ Len(text) = n + 2 /\ text[1] = o /\ text[n + 2] = c
  <2>1. text \in Seq(Characters) /\ Tail(text) = closed /\ Len(text) = Len(closed) + 1 /\ text[1] = o
        /\ \A z \in 1..Len(closed) : text[z + 1] = closed[z]
    <3>1. o \in Characters /\ closed \in Seq(Characters)
      BY <1>5
    <3>2. /\ <<o>> \o closed \in Seq(Characters) /\ Tail(<<o>> \o closed) = closed /\ Len(<<o>> \o closed) = Len(closed) + 1
          /\ (<<o>> \o closed)[1] = o /\ \A z \in 1..Len(closed) : (<<o>> \o closed)[z + 1] = closed[z]
      BY <3>1, TailOf
    <3> QED BY <1>6, <3>2, Zenon
  <2>2. n + 1 \in 1..n + 1 /\ (n + 1) + 1 = n + 2
    BY <1>4
  <2> QED BY <1>5, <2>1, <2>2
<1>8. NoBlanksAround(text) /\ ~IsQuoted(text)
  <2>1. Last(text) = c
    BY <1>7 DEF Last
  <2>2. text # << >>
    <3>1. Len(text) # 0
      BY <1>4, <1>7
    <3> QED BY <3>1
  <2> QED BY <1>1, <1>7, <2>1, <2>2 DEF NoBlanksAround, IsQuoted
<1>9. ~IsParameter(text)
  <2> SUFFICES ASSUME IsParameter(text) PROVE FALSE
    OBVIOUS
  <2>1. text[1] = "$"
    BY DEF IsParameter
  <2> QED BY <1>1, <1>7, <2>1
<1>10. IsPrefix(<<o>>, text)
  <2>1. PICK s : s = <<o>>
    OBVIOUS
  <2>2. Len(s) <= Len(text) /\ \A z \in 1..Len(s) : s[z] = text[z]
    <3>1. \A z \in 1..1 : z = 1
      OBVIOUS
    <3>2. 1 <= n + 2
      BY <1>4
    <3> QED BY <1>3, <1>7, <2>1, <3>1, <3>2
  <2> QED BY <1>3, <1>7, <2>1, <2>2, PrefixElements
<1>11. IsSuffix(<<c>>, closed)
  <2>1. PICK s : s = <<c>>
    OBVIOUS
  <2>2. Len(closed) = n + Len(s) /\ \A z \in 1..Len(s) : closed[n + z] = s[z]
    <3>1. \A z \in 1..1 : z = 1
      OBVIOUS
    <3> QED BY <1>3, <1>5, <2>1, <3>1
  <2> QED BY <1>3, <1>4, <1>5, <2>1, <2>2, SuffixElements
<1>12. Front(closed) = inner
  <2>1. Front(closed) = SubSeq(closed, 1, n)
    <3>1. n + 1 - 1 = n
      BY <1>4
    <3> QED BY <1>5, <3>1 DEF Front
  <2>2. PICK s : s = SubSeq(closed, 1, n)
    OBVIOUS
  <2>3. s \in Seq(Characters) /\ Len(s) = n /\ \A z \in 1..n : s[z] = closed[z]
    <3>1. n <= Len(closed) /\ n - 1 + 1 = n /\ 1 \in Nat
      BY <1>4, <1>5
    <3> QED BY <1>4, <1>5, <2>2, <3>1
  <2>4. s = inner
    BY <1>4, <1>5, <2>3, SeqEqual
  <2> QED BY <2>1, <2>2, <2>4
<1> QED BY <1>1, <1>2, <1>7, <1>8, <1>9, <1>10, <1>11, <1>12

(* Where a list is cut: at its ends and at the commas between its items.    *)
Cuts(text) == FromLeast({0, Len(text) + 1} \cup {z \in DOMAIN text : text[z] = Comma})

LEMMA CutsOfList ==
  ASSUME NEW n \in Nat \ {0}, NEW texts, DOMAIN texts = 1..n,
         \A k \in 1..n : texts[k] \in Seq(Characters) /\ texts[k] # << >> /\ ~Contains(texts[k], Comma),
         NEW inner \in Seq(Characters), NEW at, JoinedAt(at, texts, n, <<Comma, Space>>, inner)
  PROVE  Cuts(inner) = [k \in 1..n + 1 |-> IF k = 1 THEN 0 ELSE at[k]]
<1>m. PICK m \in Nat : m = Len(inner)
  OBVIOUS
<1>c. PICK cuts : cuts = [k \in 1..n + 1 |-> IF k = 1 THEN 0 ELSE at[k]]
  OBVIOUS
<1>1. PICK lead : lead = <<Comma, Space>>
  OBVIOUS
<1>2. lead \in Seq(Characters) /\ Len(lead) = 2 /\ lead[1] = Comma /\ lead[2] = Space /\ Space # Comma
  BY <1>1, CharacterFacts, ShortTexts
<1>3. /\ at[1] = 1 /\ at[n + 1] = m + 1 /\ (\A z \in 1..n : at[z] \in 1..m /\ at[z + 1] \in 1..m + 1)
      /\ at[2] = Len(texts[1]) + 1 /\ (\A j \in 1..Len(texts[1]) : inner[j] = texts[1][j])
      /\ \A z \in 2..n :
           /\ at[z + 1] = at[z] + 2 + Len(texts[z])
           /\ \A j \in 1..2 : inner[at[z] + j - 1] = lead[j]
           /\ \A j \in 1..Len(texts[z]) : inner[at[z] + 2 + j - 1] = texts[z][j]
  BY <1>m, <1>1, <1>2 DEF JoinedAt
<1>4. \A k \in 1..n : Len(texts[k]) \in Nat \ {0} /\ \A j \in 1..Len(texts[k]) : texts[k][j] # Comma
  <2> SUFFICES ASSUME NEW k \in 1..n PROVE Len(texts[k]) \in Nat \ {0} /\ \A j \in 1..Len(texts[k]) : texts[k][j] # Comma
    OBVIOUS
  <2>1. PICK t \in Seq(Characters) : t = texts[k] /\ t # << >> /\ ~Contains(t, Comma)
    OBVIOUS
  <2>2. Len(t) \in Nat \ {0}
    BY <2>1, EmptySeq
  <2>3. \A j \in 1..Len(t) : t[j] # Comma
    BY <2>1 DEF Contains
  <2> QED BY <2>1, <2>2, <2>3
<1>5. \A z \in 1..n : at[z] \in Int /\ at[z + 1] \in Int /\ at[z] < at[z + 1]
  <2> SUFFICES ASSUME NEW z \in 1..n PROVE at[z] \in Int /\ at[z + 1] \in Int /\ at[z] < at[z + 1]
    OBVIOUS
  <2>1. at[z] \in Int /\ at[z + 1] \in Int
    <3>1. at[z] \in 1..m /\ at[z + 1] \in 1..m + 1
      BY <1>3
    <3> QED BY <3>1
  <2>2. CASE z = 1
    <3>1. at[z + 1] = Len(texts[1]) + 1 /\ at[z] = 1 /\ Len(texts[1]) \in Nat \ {0}
      BY <1>3, <1>4, <2>2
    <3> QED BY <2>1, <3>1
  <2>3. CASE z # 1
    <3>1. at[z + 1] = at[z] + 2 + Len(texts[z]) /\ Len(texts[z]) \in Nat \ {0}
      <4>1. z \in 2..n
        BY <2>3
      <4> QED BY <1>3, <1>4, <4>1
    <3> QED BY <2>1, <3>1
  <2> QED BY <2>2, <2>3
<1>6. /\ \A z, j \in 1..n + 1 : z < j => at[z] < at[j]
      /\ \A y \in 1..m : \E z \in 1..n : at[z] <= y /\ y < at[z + 1]
  <2>1. /\ \A z, j \in 1..n + 1 : z < j => at[z] < at[j]
        /\ \A y \in at[1]..at[n + 1] - 1 : \E z \in 1..n : at[z] <= y /\ y < at[z + 1]
    BY <1>5, Ascending
  <2>2. at[1]..at[n + 1] - 1 = 1..m
    <3>1. m + 1 - 1 = m
      OBVIOUS
    <3> QED BY <1>3, <3>1
  <2> QED BY <2>1, <2>2
<1>7. \A y \in 1..m : inner[y] = Comma <=> \E z \in 2..n : y = at[z]
  <2> SUFFICES ASSUME NEW y \in 1..m PROVE inner[y] = Comma <=> \E z \in 2..n : y = at[z]
    OBVIOUS
  <2>1. ASSUME NEW z \in 2..n, y = at[z] PROVE inner[y] = Comma
    <3>1. 1 \in 1..2 /\ y + 1 - 1 = y
      OBVIOUS
    <3> QED BY <1>2, <1>3, <2>1, <3>1
  <2>2. ASSUME inner[y] = Comma PROVE \E z \in 2..n : y = at[z]
    <3>1. PICK z \in 1..n : at[z] <= y /\ y < at[z + 1]
      BY <1>6
    <3>2. at[z] \in 1..m
      BY <1>3
    <3>3. z # 1
      <4> SUFFICES ASSUME z = 1 PROVE FALSE
        OBVIOUS
      <4>1. Len(texts[1]) \in Nat /\ y < Len(texts[1]) + 1 /\ \A j \in 1..Len(texts[1]) : texts[1][j] # Comma
        BY <1>3, <1>4, <3>1
      <4>2. y \in 1..Len(texts[1])
        BY <4>1
      <4> QED BY <1>3, <2>2, <4>1, <4>2
    <3>4. z \in 2..n
      BY <3>3
    <3>5. PICK a, l \in Nat : a = at[z] /\ l = Len(texts[z])
      BY <1>4, <3>2
    <3>6. a <= y /\ y < a + 2 + l /\ \A j \in 1..l : inner[a + 2 + j - 1] # Comma
      BY <1>3, <1>4, <3>1, <3>4, <3>5
    <3>7. y # a + 1
      <4>1. 2 \in 1..2 /\ a + 2 - 1 = a + 1
        OBVIOUS
      <4>2. \A j \in 1..2 : inner[a + j - 1] = lead[j]
        BY <1>3, <3>4, <3>5
      <4>3. inner[a + 1] = lead[2]
        BY <4>1, <4>2
      <4> QED BY <1>2, <2>2, <4>3
    <3>8. ~(y >= a + 2)
      <4> SUFFICES ASSUME y >= a + 2 PROVE FALSE
        OBVIOUS
      <4>1. PICK j \in Nat : y = a + 1 + j /\ j # 0
        <5>1. y - (a + 1) \in Nat /\ y - (a + 1) # 0 /\ y = a + 1 + (y - (a + 1))
          OBVIOUS
        <5> QED BY <5>1
      <4>2. j \in 1..l
        BY <3>6, <4>1
      <4>3. a + 2 + j - 1 = y
        BY <4>1
      <4> QED BY <2>2, <3>6, <4>2, <4>3
    <3>9. y = a
      BY <3>6, <3>7, <3>8
    <3> QED BY <3>4, <3>5, <3>9
  <2> QED BY <2>1, <2>2
<1>8. PICK S : S = {0, m + 1} \cup {z \in 1..m : inner[z] = Comma}
  OBVIOUS
<1>9. DOMAIN cuts = 1..n + 1 /\ cuts[1] = 0 /\ \A k \in 2..n + 1 : cuts[k] = at[k]
  BY <1>c
<1>10. \A k \in 1..n + 1 : cuts[k] \in S
  <2> SUFFICES ASSUME NEW k \in 1..n + 1 PROVE cuts[k] \in S
    OBVIOUS
  <2>1. CASE k = 1
    BY <1>8, <1>9, <2>1
  <2>2. CASE k = n + 1
    <3>1. k \in 2..n + 1
      BY <2>2
    <3> QED BY <1>3, <1>8, <1>9, <2>2, <3>1
  <2>3. CASE k \in 2..n
    <3>1. at[k] \in 1..m /\ k \in 2..n + 1
      BY <1>3, <2>3
    <3> QED BY <1>7, <1>8, <1>9, <2>3, <3>1
  <2> QED BY <2>1, <2>2, <2>3
<1>11. cuts \in Seq(S) /\ Len(cuts) = n + 1
  <2>1. cuts \in [1..n + 1 -> S]
    BY <1>c, <1>9, <1>10
  <2> QED BY <2>1, AsSequence
<1>12. \A z, j \in DOMAIN cuts : z < j => cuts[z] < cuts[j]
  <2> SUFFICES ASSUME NEW z \in 1..n + 1, NEW j \in 1..n + 1, z < j PROVE cuts[z] < cuts[j]
    BY <1>9
  <2>1. j \in 2..n + 1 /\ at[z] < at[j]
    BY <1>6
  <2>2. CASE z = 1
    <3>1. cuts[z] = 0 /\ cuts[j] = at[j] /\ at[1] = 1 /\ 1 < at[j]
      BY <1>3, <1>9, <2>1, <2>2
    <3>2. at[j] \in Int
      <4>1. j - 1 \in 1..n /\ j - 1 + 1 = j
        BY <2>1
      <4> QED BY <1>5, <4>1
    <3> QED BY <3>1, <3>2
  <2>3. CASE z # 1
    <3>1. z \in 2..n + 1
      BY <2>3
    <3> QED BY <1>9, <2>1, <3>1
  <2> QED BY <2>2, <2>3
<1>13. \A x \in S : \E z \in DOMAIN cuts : cuts[z] = x
  <2> SUFFICES ASSUME NEW x \in S PROVE \E z \in 1..n + 1 : cuts[z] = x
    BY <1>9
  <2>1. CASE x = 0
    <3>1. 1 \in 1..n + 1
      OBVIOUS
    <3> QED BY <1>9, <2>1, <3>1
  <2>2. CASE x = m + 1
    <3>1. n + 1 \in 2..n + 1 /\ n + 1 \in 1..n + 1
      OBVIOUS
    <3> QED BY <1>3, <1>9, <2>2, <3>1
  <2>3. CASE x \in 1..m /\ inner[x] = Comma
    <3>1. PICK z \in 2..n : x = at[z]
      BY <1>7, <2>3
    <3>2. z \in 2..n + 1 /\ z \in 1..n + 1
      OBVIOUS
    <3> QED BY <1>9, <3>1, <3>2
  <2> QED BY <1>8, <2>1, <2>2, <2>3
<1>14. Enumerates(cuts, S)
  BY <1>11, <1>12, <1>13 DEF Enumerates
<1>15. S \in SUBSET Int
  BY <1>8
<1>16. cuts = FromLeast(S)
  BY <1>14, <1>15, OnlyEnumeration
<1>17. DOMAIN inner = 1..m
  BY <1>m
<1> QED BY <1>c, <1>m, <1>8, <1>16, <1>17 DEF Cuts

(* The items of a list in parentheses are those that are written, if they  *)
(* have no comma.                                                          *)
LEMMA ItemsExtracted ==
  ASSUME NEW f, IsComparison(f), ~Misread(f), f.operator = <<"IN">>,
         NEW inner, inner = Joined(f.values, <<Comma, Space>>)
  PROVE  ExtractInValues(<<"(">> \o inner \o <<")">>) = [k \in DOMAIN f.values |-> Unquoted(f.values[k])]
<1>n. PICK n, text : n = Len(f.values) /\ text = <<"(">> \o inner \o <<")">>
  OBVIOUS
<1>1. PICK texts : texts = f.values
  OBVIOUS
<1>2. /\ n \in Nat \ {0} /\ DOMAIN texts = 1..n
      /\ \A k \in 1..n : /\ texts[k] \in Seq(Characters) /\ texts[k] # << >> /\ IsOperand(texts[k])
                         /\ ~Contains(texts[k], Comma) /\ Unquoted(texts[k]) = Trim(texts[k], Quotes)
  <2>1. /\ n \in Nat \ {0} /\ DOMAIN texts = 1..n
        /\ \A k \in 1..n : texts[k] \in Seq(Characters) /\ texts[k] # << >> /\ IsOperand(texts[k])
                         /\ Unquoted(texts[k]) = Trim(texts[k], Quotes)
    BY <1>n, <1>1, ManyOperands
  <2>2. \A k \in DOMAIN f.values : ~Contains(f.values[k], Comma)
    BY DEF Misread
  <2> QED BY <1>1, <2>1, <2>2
<1>3. PICK lead : lead = <<Comma, Space>>
  OBVIOUS
<1>4. lead \in Seq(Characters) /\ Len(lead) = 2 /\ lead[1] = Comma /\ lead[2] = Space
  BY <1>3, CharacterFacts, ShortTexts
<1>5. inner \in Seq(Characters) /\ \E at : JoinedAt(at, texts, n, lead, inner)
  <2>1. inner = Joined(texts, lead)
    BY <1>1, <1>3
  <2>2. \A z \in 1..n : texts[z] \in Seq(Characters) /\ texts[z] # << >>
    BY <1>2
  <2>3. n \in Nat \ {0} /\ DOMAIN texts = 1..n
    BY <1>2
  <2>4. Joined(texts, lead) \in Seq(Characters) /\ \E at : JoinedAt(at, texts, n, lead, Joined(texts, lead))
    BY <1>4, <2>2, <2>3, JoinedPlaces
  <2> QED BY <2>1, <2>4
<1>6. PICK at : JoinedAt(at, texts, n, lead, inner)
  BY <1>5
<1>7. PICK m \in Nat : m = Len(inner)
  BY <1>5
<1>a. PICK cuts : cuts = [k \in 1..n + 1 |-> IF k = 1 THEN 0 ELSE at[k]]
  OBVIOUS
<1>b. JoinedAt(at, texts, n, <<Comma, Space>>, inner)
  BY <1>3, <1>6
<1>8. Cuts(inner) = cuts
  <2>1. \A k \in 1..n : texts[k] \in Seq(Characters) /\ texts[k] # << >> /\ ~Contains(texts[k], Comma)
    BY <1>2
  <2>2. n \in Nat \ {0} /\ DOMAIN texts = 1..n /\ inner \in Seq(Characters)
    BY <1>2, <1>5
  <2> QED BY <1>a, <1>b, <2>1, <2>2, CutsOfList
<1>9. PICK parts : parts = [k \in 1..n |-> SubSeq(inner, cuts[k] + 1, cuts[k + 1] - 1)]
  OBVIOUS
<1>10. SplitAtCommas(inner) = parts
  <2>1. Len(cuts) - 1 = n
    BY <1>2, <1>a
  <2> QED BY <1>8, <1>9, <2>1 DEF SplitAtCommas, Cuts
<1>11. ASSUME NEW k \in 1..n PROVE TrimSpace(parts[k]) = texts[k]
  <2>1. PICK t \in Seq(Characters) : t = texts[k] /\ t # << >> /\ NoBlanksAround(t) /\ Len(t) \in Nat \ {0}
    BY <1>2, Operands
  <2>2. CASE k = 1
    <3>1. at[2] = Len(t) + 1 /\ \A j \in 1..Len(t) : inner[j] = t[j]
      BY <2>1, <2>2, <1>6 DEF JoinedAt
    <3>2. at[2] \in 1..m + 1
      <4>1. 1 \in 1..n /\ 1 + 1 = 2
        BY <1>2
      <4>2. \A z \in 1..n : at[z + 1] \in 1..Len(inner) + 1
        BY <1>6 DEF JoinedAt
      <4> QED BY <1>7, <4>1, <4>2
    <3>3. PICK l \in Nat : l = Len(t) /\ l <= m
      BY <1>7, <2>1, <3>1, <3>2
    <3>4. parts[k] = SubSeq(inner, 1, l)
      <4>1. cuts[1] = 0 /\ cuts[2] = l + 1
        BY <1>2, <1>a, <3>1, <3>3
      <4>2. 0 + 1 = 1 /\ l + 1 - 1 = l /\ 1 + 1 = 2
        OBVIOUS
      <4> QED BY <1>9, <2>2, <4>1, <4>2
    <3>5. PICK s : s = SubSeq(inner, 1, l)
      OBVIOUS
    <3>6. s \in Seq(Characters) /\ Len(s) = l /\ \A j \in 1..l : s[j] = inner[j]
      <4>1. l <= Len(inner) /\ 1 \in Nat /\ l - 1 + 1 = l
        BY <1>7, <3>3
      <4> QED BY <1>5, <3>3, <3>5, <4>1
    <3>7. s = t
      BY <2>1, <3>1, <3>3, <3>6, SeqEqual
    <3>8. Trim(t, Blanks) = t
      BY <2>1, NothingTrimmed DEF NoBlanksAround
    <3> QED BY <2>1, <3>4, <3>5, <3>7, <3>8 DEF TrimSpace
  <2>3. CASE k # 1
    <3>0. k \in 2..n /\ k \in 1..n + 1 /\ k + 1 \in 2..n + 1 /\ k + 1 \in 1..n + 1 /\ k + 1 # 1
      BY <1>2, <2>3
    <3>1. PICK a, l \in Nat : a = at[k] /\ l = Len(t)
      <4>1. at[k] \in 1..Len(inner)
        BY <1>6 DEF JoinedAt
      <4>2. at[k] \in Nat
        BY <1>7, <4>1
      <4> QED BY <2>1, <4>2
    <3>2. /\ at[k + 1] = a + 2 + l /\ a + 2 + l <= m + 1
          /\ (\A j \in 1..2 : inner[a + j - 1] = lead[j]) /\ \A j \in 1..l : inner[a + 2 + j - 1] = t[j]
      <4>1. /\ at[k + 1] \in 1..Len(inner) + 1 /\ at[k + 1] = at[k] + Len(lead) + Len(texts[k])
            /\ \A j \in 1..Len(lead) : inner[at[k] + j - 1] = lead[j]
            /\ \A j \in 1..Len(texts[k]) : inner[at[k] + Len(lead) + j - 1] = texts[k][j]
        BY <1>6, <3>0 DEF JoinedAt
      <4>2. Len(inner) = m /\ Len(lead) = 2 /\ texts[k] = t /\ Len(t) = l /\ at[k] = a
        BY <1>4, <1>7, <2>1, <3>1
      <4>3. at[k + 1] = a + 2 + l /\ at[k + 1] \in 1..m + 1
        BY <4>1, <4>2
      <4>4. (\A j \in 1..2 : inner[a + j - 1] = lead[j]) /\ \A j \in 1..l : inner[a + 2 + j - 1] = t[j]
        BY <4>1, <4>2, Zenon
      <4>5. a + 2 + l \in 1..m + 1
        BY <4>3, Zenon
      <4>6. a + 2 + l <= m + 1
        BY ONLY m \in Nat, a + 2 + l \in 1..m + 1, <4>5
      <4> QED BY <4>3, <4>4, <4>6, Zenon
    <3>3. PICK s : s = SubSeq(inner, a + 1, a + 1 + l)
      OBVIOUS
    <3>4. parts[k] = s
      <4>1. cuts[k] = a /\ cuts[k + 1] = a + 2 + l
        BY <1>a, <2>3, <3>0, <3>1, <3>2
      <4>2. a + 2 + l - 1 = a + 1 + l
        OBVIOUS
      <4>3. parts[k] = SubSeq(inner, cuts[k] + 1, cuts[k + 1] - 1)
        BY <1>9
      <4>4. cuts[k] + 1 = a + 1 /\ cuts[k + 1] - 1 = a + 1 + l
        BY <4>1, <4>2
      <4> QED BY <3>3, <4>3, <4>4, Zenon
    <3>5. s \in Seq(Characters) /\ Len(s) = l + 1 /\ \A j \in 1..l + 1 : s[j] = inner[a + 1 + j - 1]
      <4>1. PICK e \in Nat : e = a + 1 + l
        OBVIOUS
      <4>2. e <= Len(inner) /\ a + 1 \in Nat /\ 1 <= a + 1 /\ a + 1 <= e /\ e - (a + 1) + 1 = l + 1
        BY <1>7, <3>2, <4>1
      <4>3. s = SubSeq(inner, a + 1, e)
        BY <3>3, <4>1
      <4>4. s \in Seq(Characters) /\ Len(s) = e - (a + 1) + 1 /\ \A j \in 1..Len(s) : s[j] = inner[a + 1 + j - 1]
        BY <1>5, <4>2, <4>3
      <4> QED BY <4>2, <4>4
    <3>6. PICK longer : longer = <<Space>> \o t
      OBVIOUS
    <3>7. longer \in Seq(Characters) /\ Len(longer) = l + 1 /\ longer[1] = Space /\ \A j \in 1..l : longer[j + 1] = t[j]
      BY <2>1, <3>1, <3>6, CharacterFacts, TailOf
    <3>8. \A j \in 1..l + 1 : s[j] = longer[j]
      <4>1. s[1] = Space
        <5>1. 2 \in 1..2 /\ a + 2 - 1 = a + 1 /\ a + 1 + 1 - 1 = a + 1 /\ 1 \in 1..l + 1
          OBVIOUS
        <5>2. inner[a + 2 - 1] = lead[2]
          BY <3>2, <5>1
        <5>3. s[1] = inner[a + 1 + 1 - 1]
          BY <3>5, <5>1
        <5> QED BY <1>4, <5>1, <5>2, <5>3
      <4>2. ASSUME NEW j \in 1..l PROVE s[j + 1] = t[j]
        <5>1. j + 1 \in 1..l + 1 /\ a + 1 + (j + 1) - 1 = a + 2 + j - 1
          OBVIOUS
        <5>2. s[j + 1] = inner[a + 1 + (j + 1) - 1]
          BY <3>5, <5>1
        <5> QED BY <3>2, <5>1, <5>2
      <4>3. \A j \in 1..l + 1 : j = 1 \/ (j - 1 \in 1..l /\ j - 1 + 1 = j)
        OBVIOUS
      <4> QED BY <3>7, <4>1, <4>2, <4>3
    <3>9. s = longer
      BY <3>1, <3>5, <3>7, <3>8, SeqEqual
    <3>10. Trim(<<Space>> \o t, Blanks) = t
      BY <2>1, CharacterFacts, BlankTrimmed DEF NoBlanksAround
    <3> QED BY <2>1, <3>4, <3>6, <3>9, <3>10 DEF TrimSpace
  <2> QED BY <2>2, <2>3
<1>12. FromLeast({k \in DOMAIN parts : TrimSpace(parts[k]) # << >>}) = [k \in 1..n |-> k]
  <2>1. {k \in DOMAIN parts : TrimSpace(parts[k]) # << >>} = 1..n
    BY <1>2, <1>9, <1>11
  <2> QED BY <1>2, <2>1, AllOfThem
<1>13. /\ IsPrefix(<<"(">>, text) /\ Tail(text) = inner \o <<")">>
       /\ IsSuffix(<<")">>, Tail(text)) /\ Front(Tail(text)) = inner
  BY <1>5, <1>n, ParenthesesAround
<1>14. PICK items : items = FromLeast({k \in DOMAIN parts : TrimSpace(parts[k]) # << >>})
  OBVIOUS
<1>15. ExtractInValues(text) = [k \in DOMAIN items |-> Trim(TrimSpace(parts[items[k]]), Quotes)]
  BY <1>10, <1>13, <1>14, Zenon DEF ExtractInValues
<1>16. DOMAIN items = 1..n /\ \A k \in 1..n : items[k] = k
  BY <1>12, <1>14
<1>17. \A k \in 1..n : Trim(TrimSpace(parts[items[k]]), Quotes) = Unquoted(f.values[k])
  BY <1>1, <1>2, <1>11, <1>16
<1>18. ExtractInValues(text) = [k \in 1..n |-> Unquoted(f.values[k])]
  BY <1>15, <1>16, <1>17
<1> QED BY <1>1, <1>2, <1>n, <1>18

(* Two bounds with AND between them.                                        *)
AreBounds(text, v, w, n, m) ==
  /\ text \in Seq(Characters) /\ Len(text) = n + m + 3
  /\ \A z \in 1..n : text[z] = v[z]
  /\ text[n + 1] = Space /\ text[n + 2] = "AND" /\ text[n + 3] = Space
  /\ SubSeq(text, 1, n) = v /\ SubSeq(text, n + 4, Len(text)) = w
  /\ NoBlanksAround(text) /\ ~IsParameter(text)

LEMMA BoundsText ==
  ASSUME NEW v \in Seq(Characters), NEW w \in Seq(Characters), NoBlanksAround(v), NoBlanksAround(w),
         NEW n \in Nat \ {0}, n = Len(v), NEW m \in Nat \ {0}, m = Len(w)
  PROVE  AreBounds(v \o (<<Space, "AND", Space>> \o w), v, w, n, m)
<1>0. \A s, t \in Seq(Characters) :
        /\ s \o t \in Seq(Characters) /\ Len(s \o t) = Len(s) + Len(t)
        /\ \A z \in 1..Len(s) : (s \o t)[z] = s[z]
        /\ \A z \in 1..Len(t) : (s \o t)[Len(s) + z] = t[z]
  BY ConcatPlaces
<1>1. PICK lead : lead = <<Space, "AND", Space>>
  OBVIOUS
<1>2. lead \in Seq(Characters) /\ Len(lead) = 3 /\ lead[1] = Space /\ lead[2] = "AND" /\ lead[3] = Space
  <2>1. "AND" \in Characters /\ Space \in Characters
    BY CharacterFacts
  <2> QED BY <1>1, <2>1, ShortTexts
<1>3. PICK rest : rest = lead \o w
  OBVIOUS
<1>4. rest \in Seq(Characters) /\ Len(rest) = 3 + m /\ (\A z \in 1..3 : rest[z] = lead[z]) /\ \A z \in 1..m : rest[3 + z] = w[z]
  <2>1. /\ rest \in Seq(Characters) /\ Len(rest) = Len(lead) + Len(w) /\ (\A z \in 1..Len(lead) : rest[z] = lead[z])
        /\ \A z \in 1..Len(w) : rest[Len(lead) + z] = w[z]
    BY <1>2, <1>3, <1>0
  <2> QED BY <1>2, <2>1
<1>5. PICK text : text = v \o rest
  OBVIOUS
<1>6. text \in Seq(Characters) /\ Len(text) = n + (3 + m) /\ (\A z \in 1..n : text[z] = v[z]) /\ \A z \in 1..3 + m : text[n + z] = rest[z]
  <2>1. /\ text \in Seq(Characters) /\ Len(text) = Len(v) + Len(rest) /\ (\A z \in 1..Len(v) : text[z] = v[z])
        /\ \A z \in 1..Len(rest) : text[Len(v) + z] = rest[z]
    BY <1>4, <1>5, <1>0
  <2>2. Len(rest) = 3 + m
    BY <1>4
  <2> QED BY <2>1, <2>2
<1>7. text[n + 1] = Space /\ text[n + 2] = "AND" /\ text[n + 3] = Space
  <2>1. 1 \in 1..3 + m /\ 2 \in 1..3 + m /\ 3 \in 1..3 + m /\ 1 \in 1..3 /\ 2 \in 1..3 /\ 3 \in 1..3
    OBVIOUS
  <2> QED BY <1>2, <1>4, <1>6, <2>1
<1>8. SubSeq(text, 1, n) = v
  <2>1. PICK s : s = SubSeq(text, 1, n)
    OBVIOUS
  <2>2. s \in Seq(Characters) /\ Len(s) = n /\ \A z \in 1..n : s[z] = text[z]
    <3>1. n <= Len(text) /\ 1 \in Nat /\ n - 1 + 1 = n
      BY <1>6
    <3> QED BY <1>6, <2>1, <3>1
  <2>3. s = v
    BY <1>6, <2>2, SeqEqual
  <2> QED BY <2>1, <2>3
<1>9. \A z \in 1..m : text[n + 3 + z] = w[z]
  <2> SUFFICES ASSUME NEW z \in 1..m PROVE text[n + 3 + z] = w[z]
    OBVIOUS
  <2>1. 3 + z \in 1..3 + m /\ n + (3 + z) = n + 3 + z
    OBVIOUS
  <2> QED BY <1>4, <1>6, <2>1
<1>10. SubSeq(text, n + 4, Len(text)) = w
  <2>1. PICK s, a, e : s = SubSeq(text, a, e) /\ a = n + 4 /\ e = Len(text)
    OBVIOUS
  <2>2. e = n + 3 + m /\ a \in Nat /\ e \in Nat /\ 1 <= a /\ a <= e /\ e - a + 1 = m
    BY <1>6, <2>1
  <2>3. s \in Seq(Characters) /\ Len(s) = e - a + 1 /\ \A z \in 1..Len(s) : s[z] = text[a + z - 1]
    BY <1>6, <2>1, <2>2
  <2>4. \A z \in 1..m : a + z - 1 = n + 3 + z
    BY <2>1
  <2>5. Len(s) = m
    BY <2>2, <2>3
  <2>6. \A z \in 1..m : s[z] = w[z]
    BY <1>9, <2>3, <2>4, <2>5
  <2>7. s = w
    BY <2>3, <2>5, <2>6, SeqEqual
  <2> QED BY <2>1, <2>7
<1>11. NoBlanksAround(text)
  <2>1. 1 \in 1..n /\ m \in 1..m
    OBVIOUS
  <2>2. Last(text) = text[n + 3 + m] /\ Last(w) = w[m]
    <3>1. Len(text) = n + 3 + m
      BY <1>6
    <3> QED BY <3>1 DEF Last
  <2>3. text[1] = v[1] /\ text[n + 3 + m] = w[m]
    BY <1>6, <1>9, <2>1
  <2>4. text # << >>
    <3>1. Len(text) # 0
      BY <1>6
    <3> QED BY <3>1
  <2> QED BY <2>2, <2>3, <2>4 DEF NoBlanksAround
<1>12. ~IsParameter(text)
  <2> SUFFICES ASSUME IsParameter(text) PROVE FALSE
    OBVIOUS
  <2>1. Len(text) = 2
    BY DEF IsParameter
  <2>2. n + (3 + m) # 2
    OBVIOUS
  <2> QED BY <1>6, <2>1, <2>2
<1>13. n + (3 + m) = n + m + 3
  OBVIOUS
<1>14. AreBounds(text, v, w, n, m)
  BY <1>6, <1>7, <1>8, <1>10, <1>11, <1>12, <1>13 DEF AreBounds
<1> QED BY <1>1, <1>3, <1>5, <1>14

(* The bounds are found if the lower one has no AND of its own.             *)
LEMMA BoundsExtracted ==
  ASSUME NEW v, NEW w, IsOperand(v), Ands(v) = {},
         NEW n \in Nat \ {0}, n = Len(v), NEW m \in Nat \ {0}, NEW text, AreBounds(text, v, w, n, m)
  PROVE  ExtractBetweenValues(text) = <<Bound(v), Bound(w)>>
<1>1. /\ text \in Seq(Characters) /\ Len(text) = n + m + 3
      /\ \A z \in 1..n : text[z] = v[z]
      /\ text[n + 1] = Space /\ text[n + 2] = "AND" /\ text[n + 3] = Space
      /\ SubSeq(text, 1, n) = v /\ SubSeq(text, n + 4, Len(text)) = w
  BY DEF AreBounds
<1>2. v \in Seq(Characters) /\ IF IsQuoted(v) THEN Len(v) >= 2 ELSE \A z \in 1..n : v[z] \notin Blanks \cup Quotes
  BY Operands
<1>3. \A t \in Seq(Characters) : \A z : z \in Occurrences(t, <<"AND">>) <=> z \in 1..Len(t) /\ t[z] = "AND"
  <2> SUFFICES ASSUME NEW t \in Seq(Characters), NEW z PROVE z \in Occurrences(t, <<"AND">>) <=> z \in 1..Len(t) /\ t[z] = "AND"
    OBVIOUS
  <2>1. PICK q : q = <<"AND">>
    OBVIOUS
  <2>2. q \in Seq(Characters) /\ q # << >> /\ Len(q) = 1 /\ q[1] = "AND"
    <3>1. "AND" \in Characters
      BY CharacterFacts
    <3> QED BY <2>1, <3>1
  <2>3. Len(t) \in Nat /\ (z \in Occurrences(t, q) <=> StandsAt(t, q, z))
    BY <2>2, OccursAt
  <2>4. PICK l \in Nat : l = Len(t)
    BY <2>3
  <2>5. l - 1 + 1 = l /\ (\A k \in 1..1 : k = 1) /\ 1 \in 1..1 /\ \A k \in 1..l : k + 1 - 1 = k
    OBVIOUS
  <2>6. StandsAt(t, q, z) <=> z \in 1..l /\ t[z] = "AND"
    BY <2>2, <2>4, <2>5 DEF StandsAt
  <2> QED BY <2>1, <2>3, <2>4, <2>6
<1>4. \A t \in Seq(Characters) : \A z : z \in Ands(t) <=>
        z \in 1..Len(t) /\ t[z] = "AND" /\ z > 1 /\ z < Len(t) /\ t[z - 1] \in Blanks /\ t[z + 1] \in Blanks
  BY <1>3 DEF Ands
<1>5. n + 2 \in Ands(text)
  <2>1. n + 2 \in 1..Len(text) /\ n + 2 > 1 /\ n + 2 < Len(text) /\ (n + 2) - 1 = n + 1 /\ (n + 2) + 1 = n + 3
    BY <1>1
  <2>2. text[(n + 2) - 1] \in Blanks /\ text[(n + 2) + 1] \in Blanks /\ text[n + 2] = "AND"
    BY <1>1, <2>1, CharacterFacts
  <2> QED BY <1>1, <1>4, <2>1, <2>2
<1>6. \A z \in Ands(text) : z \in 1..Len(text)
  BY <1>1, <1>4
<1>7. n + 1 \notin Ands(text)
  BY <1>1, <1>4, CharacterFacts
<1>8. ASSUME NEW z \in 1..n, z \in Ands(text) PROVE FALSE
  <2>1. v[z] = "AND" /\ z > 1 /\ text[z - 1] \in Blanks /\ text[z + 1] \in Blanks
    BY <1>1, <1>4, <1>8
  <2>2. z - 1 \in 1..n /\ v[z - 1] \in Blanks
    <3>1. z - 1 \in 1..n
      BY <2>1
    <3> QED BY <1>1, <2>1, <3>1
  <2>3. IsQuoted(v)
    BY <1>2, <2>2
  <2>4. v[n] \in Quotes
    BY <2>3 DEF IsQuoted, Last
  <2>5. z # n
    BY <2>1, <2>4, CharacterFacts
  <2>6. z + 1 \in 1..n /\ z < n
    BY <2>5
  <2>7. v[z + 1] \in Blanks
    BY <1>1, <2>1, <2>6
  <2>8. z \in Ands(v)
    BY <1>2, <1>4, <2>1, <2>2, <2>6, <2>7
  <2> QED BY <2>8
<1>9. Min(Ands(text)) = n + 2
  <2>1. PICK l \in Nat : l = Len(text)
    BY <1>1
  <2>2. Ands(text) \in SUBSET (1..l)
    BY <1>6, <2>1
  <2>3. \A z \in Ands(text) : z >= n + 2
    BY <1>7, <1>8, <2>2
  <2>4. PICK a : a = n + 2
    OBVIOUS
  <2>5. Min(Ands(text)) = a
    BY <1>5, <2>2, <2>3, <2>4, LeastIs
  <2> QED BY <2>4, <2>5
<1>10. n + 2 - 2 = n /\ n + 2 + 2 = n + 4
  OBVIOUS
<1>11. Ands(text) # {}
  BY <1>5
<1>12. PICK at : at = Min(Ands(text))
  OBVIOUS
<1>13. ExtractBetweenValues(text) = <<Bound(SubSeq(text, 1, at - 2)), Bound(SubSeq(text, at + 2, Len(text)))>>
  BY <1>11, <1>12, Zenon DEF ExtractBetweenValues
<1>14. SubSeq(text, 1, at - 2) = v /\ SubSeq(text, at + 2, Len(text)) = w
  BY <1>1, <1>9, <1>10, <1>12
<1> QED BY <1>13, <1>14

LEMMA ListInParentheses ==
  ASSUME NEW f, IsComparison(f), NEW w \in {"IN"}, f.operator = <<w>> \/ f.operator = <<"NOT", w>>,
         NEW inner, inner = Joined(f.values, <<Comma, Space>>)
  PROVE  RightSide(f) = <<"(">> \o inner \o <<")">> /\ inner \in Seq(Characters)
<1>1. Contains(f.operator, "IN") /\ ~Contains(f.operator, "BETWEEN")
  <2>1. "IN" # "BETWEEN" /\ "NOT" # "BETWEEN"
    OBVIOUS
  <2> QED BY <2>1, OneOrTwoWords
<1>2. RightSide(f) = <<"(">> \o inner \o <<")">>
  BY <1>1 DEF RightSide
<1>3. PICK n : n = Len(f.values)
  OBVIOUS
<1>4. n \in Nat \ {0} /\ DOMAIN f.values = 1..n /\ \A k \in 1..n : f.values[k] \in Seq(Characters) /\ f.values[k] # << >>
  BY <1>3, ManyOperands
<1>5. <<Comma, Space>> \in Seq(Characters)
  BY CharacterFacts, ShortTexts
<1>6. inner \in Seq(Characters)
  BY <1>4, <1>5, JoinedPlaces
<1> QED BY <1>2, <1>6

LEMMA TwoBounds ==
  ASSUME NEW f, IsComparison(f), NEW w \in {"BETWEEN"}, f.operator = <<w>> \/ f.operator = <<"NOT", w>>
  PROVE  /\ Len(f.values) = 2 /\ DOMAIN f.values = 1..2 /\ IsOperand(f.values[1]) /\ IsOperand(f.values[2])
         /\ \E n, m \in Nat \ {0} : n = Len(f.values[1]) /\ AreBounds(RightSide(f), f.values[1], f.values[2], n, m)
<1>1. Contains(f.operator, "BETWEEN") /\ ~Contains(f.operator, "IN")
  <2>1. "IN" # "BETWEEN" /\ "NOT" # "IN"
    OBVIOUS
  <2> QED BY <2>1, OneOrTwoWords
<1>2. Len(f.values) = 2
  <2>1. Len(f.values) \in CASE Contains(f.operator, "BETWEEN") -> {2} [] Contains(f.operator, "IN") -> Nat \ {0} [] OTHER -> {1}
    BY Zenon DEF IsComparison
  <2> QED BY <1>1, <2>1
<1>3. DOMAIN f.values = 1..2 /\ \A k \in 1..2 : IsOperand(f.values[k])
  BY <1>2 DEF IsComparison
<1>4. 1 \in 1..2 /\ 2 \in 1..2
  OBVIOUS
<1>5. PICK v, u : v = f.values[1] /\ u = f.values[2]
  OBVIOUS
<1>6. IsOperand(v) /\ IsOperand(u)
  BY <1>3, <1>4, <1>5
<1>7. PICK n, m \in Nat \ {0} : n = Len(v) /\ m = Len(u)
  BY <1>6, Operands
<1>8. v \in Seq(Characters) /\ u \in Seq(Characters) /\ NoBlanksAround(v) /\ NoBlanksAround(u)
  BY <1>6, Operands
<1>9. AreBounds(v \o (<<Space, "AND", Space>> \o u), v, u, n, m)
  BY <1>7, <1>8, BoundsText
<1>10. RightSide(f) = v \o (<<Space, "AND", Space>> \o u)
  <2>1. "AND" \in Characters /\ Space \in Characters
    BY CharacterFacts
  <2>2. <<Space, "AND", Space>> \in Seq(Characters)
    BY <2>1, ShortTexts
  <2>3. Joined(f.values, <<Space, "AND", Space>>) = v \o (<<Space, "AND", Space>> \o u)
    BY <1>3, <1>5, <1>8, <2>2, JoinedTwo
  <2> QED BY <1>1, <2>3 DEF RightSide
<1> QED BY <1>2, <1>3, <1>5, <1>6, <1>7, <1>9, <1>10

(* NOT IN and NOT BETWEEN have their right side for a value.                *)
LEMMA RightSideExtracted ==
  ASSUME NEW f, IsComparison(f), ~Misread(f), f.operator \in {<<"NOT", "IN">>, <<"NOT", "BETWEEN">>}
  PROVE  ExtractValue(ContextText(f), f.operator) = Written(f)
<1>1. PICK right : right = RightSide(f)
  OBVIOUS
<1>2. right \in Seq(Characters) /\ NoBlanksAround(right) /\ ~IsParameter(right) /\ ~IsQuoted(right)
  <2>1. CASE f.operator = <<"NOT", "IN">>
    <3>1. PICK inner : inner = Joined(f.values, <<Comma, Space>>)
      OBVIOUS
    <3>2. right = <<"(">> \o inner \o <<")">> /\ inner \in Seq(Characters)
      BY <1>1, <2>1, <3>1, ListInParentheses
    <3> QED BY <3>2, ParenthesesAround
  <2>2. CASE f.operator = <<"NOT", "BETWEEN">>
    <3>1. \E n, m : AreBounds(right, f.values[1], f.values[2], n, m)
      BY <1>1, <2>2, TwoBounds
    <3>2. ~IsQuoted(right)
      BY <1>1, <2>2 DEF Misread
    <3> QED BY <3>1, <3>2 DEF AreBounds
  <2> QED BY <2>1, <2>2
<1>3. right = ValuePart(ContextText(f), f.operator) /\ right # << >>
  BY <1>1, <1>2, ValueFound DEF NoBlanksAround
<1>4. /\ f.operator # <<"IS">> /\ f.operator # <<"IN">> /\ f.operator # <<"BETWEEN">>
      /\ ~Contains(f.operator, "NULL") /\ ~Contains(f.operator, "LIKE")
  <2>1. \A t \in {"NOT", "IN", "BETWEEN"} : t # "NULL" /\ t # "LIKE"
    OBVIOUS
  <2> QED BY <2>1, OneOrTwoWords
<1>5. PICK extracted : extracted = ExtractValue(ContextText(f), f.operator)
  OBVIOUS
<1>6. Extracts(f.operator, right, extracted)
  BY <1>3, <1>4, <1>5, ExtractedValue
<1>7. extracted = [values |-> <<right>>, isParameter |-> FALSE]
  BY <1>2, <1>4, <1>6, Zenon DEF Extracts
<1>8. Written(f) = Literal(right)
  <2>1. ~(f.operator = <<"IS">> \/ Contains(f.operator, "NULL"))
    BY <1>4
  <2> QED BY <1>1, <2>1, Zenon DEF Written
<1> QED BY <1>5, <1>7, <1>8, Zenon DEF Literal

LEMMA ListExtracted ==
  ASSUME NEW f, IsComparison(f), ~Misread(f), f.operator = <<"IN">>
  PROVE  ExtractValue(ContextText(f), f.operator) = Written(f)
<1>1. PICK right, inner, n : right = RightSide(f) /\ inner = Joined(f.values, <<Comma, Space>>) /\ n = Len(f.values)
  OBVIOUS
<1>2. right = <<"(">> \o inner \o <<")">> /\ inner \in Seq(Characters)
  BY <1>1, ListInParentheses
<1>3. right \in Seq(Characters) /\ NoBlanksAround(right) /\ ~IsParameter(right)
  BY <1>2, ParenthesesAround
<1>4. ExtractInValues(right) = [k \in 1..n |-> Unquoted(f.values[k])]
  <2>1. inner = Joined(f.values, <<Comma, Space>>)
    BY <1>1
  <2>2. ExtractInValues(<<"(">> \o inner \o <<")">>) = [k \in DOMAIN f.values |-> Unquoted(f.values[k])]
    BY <2>1, ItemsExtracted
  <2>3. DOMAIN f.values = 1..n
    BY <1>1, ManyOperands
  <2> QED BY <1>2, <2>2, <2>3
<1>5. n \in Nat \ {0} /\ DOMAIN f.values = 1..n
  BY <1>1, ManyOperands
<1>6. ExtractInValues(right) # << >>
  <2>1. DOMAIN ExtractInValues(right) = 1..n
    BY <1>4
  <2>2. 1 \in 1..n
    BY <1>5
  <2>3. PICK e : e = ExtractInValues(right)
    OBVIOUS
  <2>4. 1 \in DOMAIN e
    BY <2>1, <2>2, <2>3
  <2>5. DOMAIN << >> = {}
    OBVIOUS
  <2> QED BY <2>3, <2>4, <2>5, Zenon
<1>7. right = ValuePart(ContextText(f), f.operator) /\ right # << >>
  BY <1>1, <1>3, ValueFound DEF NoBlanksAround
<1>8. f.operator # <<"IS">> /\ ~Contains(f.operator, "NULL") /\ f.operator \notin {<<"NOT", "IN">>, <<"NOT", "BETWEEN">>}
  <2>1. "IN" # "NULL" /\ "IN" # "IS"
    OBVIOUS
  <2> QED BY <2>1, OneOrTwoWords
<1>9. PICK extracted : extracted = ExtractValue(ContextText(f), f.operator)
  OBVIOUS
<1>10. Extracts(f.operator, right, extracted)
  BY <1>7, <1>8, <1>9, ExtractedValue
<1>11. extracted = [values |-> ExtractInValues(right), isParameter |-> FALSE]
  BY <1>3, <1>6, <1>10, Zenon DEF Extracts
<1>12. Written(f) = [values |-> [k \in DOMAIN f.values |-> Unquoted(f.values[k])], isParameter |-> FALSE]
  <2>1. FALSE \in BOOLEAN /\ (FALSE <=> Len(f.values) = 1 /\ f.operator # <<"IN">> /\ IsParameter(f.values[1]))
    OBVIOUS
  <2> QED BY <1>8, <2>1, WrittenValues
<1> QED BY <1>4, <1>5, <1>9, <1>11, <1>12

LEMMA RangeExtracted ==
  ASSUME NEW f, IsComparison(f), ~Misread(f), ~LosesBlanks(f), f.operator = <<"BETWEEN">>
  PROVE  ExtractValue(ContextText(f), f.operator) = Written(f)
<1>1. PICK right, v, w : right = RightSide(f) /\ v = f.values[1] /\ w = f.values[2]
  OBVIOUS
<1>2. Len(f.values) = 2 /\ DOMAIN f.values = 1..2 /\ IsOperand(v) /\ IsOperand(w)
  BY <1>1, TwoBounds
<1>3. PICK n, m \in Nat \ {0} : n = Len(v) /\ AreBounds(right, v, w, n, m)
  BY <1>1, TwoBounds
<1>4. right \in Seq(Characters) /\ NoBlanksAround(right) /\ ~IsParameter(right)
  BY <1>3 DEF AreBounds
<1>5. ExtractBetweenValues(right) = <<Bound(v), Bound(w)>>
  <2>1. Ands(v) = {}
    BY <1>1 DEF Misread
  <2> QED BY <1>2, <1>3, <2>1, BoundsExtracted
<1>6. Bound(v) = Unquoted(v) /\ Bound(w) = Unquoted(w)
  <2>1. 1 \in 1..2 /\ 2 \in 1..2
    OBVIOUS
  <2>2. \A k \in 1..2 : Unquoted(f.values[k]) = Trim(f.values[k], Quotes)
    BY <1>2, ManyOperands
  <2>3. \A k \in 1..2 : TrimSpace(Unquoted(f.values[k])) = Unquoted(f.values[k])
    BY <1>2 DEF LosesBlanks
  <2>4. TrimSpace(v) = v /\ TrimSpace(w) = w
    BY <1>2, OperandTrimmed
  <2> QED BY <1>1, <2>1, <2>2, <2>3, <2>4 DEF Bound
<1>7. Len(ExtractBetweenValues(right)) = 2
  BY <1>5
<1>8. right = ValuePart(ContextText(f), f.operator) /\ right # << >>
  BY <1>1, <1>4, ValueFound DEF NoBlanksAround
<1>9. f.operator # <<"IS">> /\ ~Contains(f.operator, "NULL") /\ f.operator \notin {<<"NOT", "IN">>, <<"NOT", "BETWEEN">>}
  <2>1. "BETWEEN" # "NULL" /\ "BETWEEN" # "IS"
    OBVIOUS
  <2> QED BY <2>1, OneOrTwoWords
<1>10. PICK extracted : extracted = ExtractValue(ContextText(f), f.operator)
  OBVIOUS
<1>11. Extracts(f.operator, right, extracted)
  BY <1>8, <1>9, <1>10, ExtractedValue
<1>12. extracted = [values |-> <<Unquoted(v), Unquoted(w)>>, isParameter |-> FALSE]
  BY <1>4, <1>5, <1>6, <1>7, <1>11, Zenon DEF Extracts
<1>13. Written(f) = [values |-> [k \in DOMAIN f.values |-> Unquoted(f.values[k])], isParameter |-> FALSE]
  <2>1. FALSE \in BOOLEAN /\ (FALSE <=> Len(f.values) = 1 /\ f.operator # <<"IN">> /\ IsParameter(f.values[1]))
    BY <1>2
  <2> QED BY <1>9, <2>1, WrittenValues
<1>14. [k \in DOMAIN f.values |-> Unquoted(f.values[k])] = <<Unquoted(v), Unquoted(w)>>
  <2>1. \A k \in 1..2 : k = 1 \/ k = 2
    OBVIOUS
  <2>2. PICK s : s = [k \in 1..2 |-> Unquoted(f.values[k])]
    OBVIOUS
  <2>3. s = <<Unquoted(v), Unquoted(w)>>
    BY <1>1, <2>1, <2>2
  <2> QED BY <1>2, <2>2, <2>3
<1> QED BY <1>10, <1>12, <1>13, <1>14

(* The value of a condition is the one that is written.                     *)
LEMMA ValueAsWritten ==
  ASSUME NEW f, f.operator \in {<<"IS">>, <<"IS", "NOT", "NULL">>} \/ IsComparison(f), ~Misread(f), ~LosesBlanks(f)
  PROVE  ExtractValue(ContextText(f), f.operator) = Written(f)
<1>1. CASE f.operator \in {<<"IS">>, <<"IS", "NOT", "NULL">>}
  <2>1. f.operator = <<"IS">> \/ Contains(f.operator, "NULL")
    <3>1. ASSUME f.operator = <<"IS", "NOT", "NULL">> PROVE Contains(f.operator, "NULL")
      BY <3>1 DEF Contains
    <3> QED BY <1>1, <3>1
  <2>2. ExtractValue(ContextText(f), f.operator) = None
    BY <2>1, Zenon DEF ExtractValue
  <2>3. Written(f) = None
    <3>1. f.operator \notin {<<"NOT", "IN">>, <<"NOT", "BETWEEN">>}
      BY <1>1
    <3> QED BY <2>1, <3>1, Zenon DEF Written
  <2> QED BY <2>2, <2>3
<1>2. CASE IsComparison(f)
  <2>1. ASSUME NEW s \in Symbols \cup {"LIKE"}, f.operator = <<s>> PROVE ~Contains(f.operator, "IN") /\ ~Contains(f.operator, "BETWEEN")
    <3>1. s # "IN" /\ s # "BETWEEN"
      BY CharacterFacts
    <3> QED BY <2>1, <3>1, OneOrTwoWords
  <2>2. ASSUME f.operator = <<"NOT", "LIKE">> PROVE ~Contains(f.operator, "IN") /\ ~Contains(f.operator, "BETWEEN")
    BY <2>2, OneOrTwoWords
  <2> QED BY <1>2, <2>1, <2>2, Operators, OneOperand, RightSideExtracted, ListExtracted, RangeExtracted
<1> QED BY <1>1, <1>2

--------------------------------------------------------------------------------
(* The WHERE conditions are those of the filters that are kept, of those    *)
(* before the index while the loop is at it.                                *)
Considered(n, s, j) == s = "where" => n < j

FiltersKept ==
  /\ \A k \in DOMAIN where :
       /\ where[k].of \in DOMAIN query.filters /\ Considered(where[k].of, step, i)
       /\ Kept(query.filters[where[k].of]) /\ where[k] = Condition(query, where[k].of)
  /\ \A k, m \in DOMAIN where : k < m => where[k].of < where[m].of
  /\ \A n \in DOMAIN query.filters : Kept(query.filters[n]) /\ Considered(n, step, i) => \E k \in DOMAIN where : where[k].of = n

LEMMA InitFiltersKept == Init => FiltersKept
<1> SUFFICES ASSUME Init PROVE FiltersKept
  OBVIOUS
<1>1. DOMAIN where = {}
  BY DEF Init
<1>2. query \in Queries
  BY DEF Init
<1>3. \A n \in DOMAIN query.filters : ~Considered(n, step, i)
  BY <1>2, QueryFacts DEF Init, Considered
<1> QED BY <1>1, <1>3 DEF FiltersKept

LEMMA NextFiltersKept == IInv /\ FiltersKept /\ [Next]_vars => FiltersKept'
<1> SUFFICES ASSUME IInv, FiltersKept, [Next]_vars PROVE FiltersKept'
  OBVIOUS
<1>1. TypeOK
  BY DEF IInv
<1>2. DOMAIN query.filters = 1..Len(query.filters) /\ Len(query.filters) \in Nat /\ i \in Nat
  BY <1>1, QueryFacts DEF TypeOK
<1>3. CASE WhereUsage
  <2>0. /\ step = "where" /\ step' = "where" /\ i' = i + 1 /\ query' = query /\ i \in DOMAIN query.filters
        /\ where' = IF Kept(query.filters[i]) THEN Append(where, Condition(query, i)) ELSE where
    BY <1>1, <1>2, <1>3 DEF WhereUsage, TypeOK
  <2>1. \A n \in DOMAIN query.filters : Considered(n, step', i') <=> Considered(n, step, i) \/ n = i
    BY <1>2, <2>0 DEF Considered
  <2>2. CASE ~Kept(query.filters[i])
    <3>1. where' = where
      BY <2>0, <2>2
    <3>2. \A k \in DOMAIN where : Considered(where[k].of, step', i')
      BY <2>1 DEF FiltersKept
    <3> QED BY <2>0, <2>1, <2>2, <3>1, <3>2 DEF FiltersKept
  <2>3. CASE Kept(query.filters[i])
    <3>1. PICK W, c : W = {Condition(query, k) : k \in DOMAIN query.filters} /\ c = Condition(query, i)
      OBVIOUS
    <3>2. where \in Seq(W) /\ c \in W /\ where' = Append(where, c) /\ c.of = i
      BY <1>1, <2>0, <2>3, <3>1 DEF TypeOK, Condition
    <3>3. PICK n \in Nat : n = Len(where) /\ DOMAIN where = 1..n
      BY <3>2
    <3>4. /\ DOMAIN where' = 1..n + 1 /\ where'[n + 1] = c /\ \A k \in 1..n : where'[k] = where[k]
      BY <3>2, <3>3, AppendFacts
    <3>5. \A k \in 1..n : where[k].of < i /\ where[k].of \in DOMAIN query.filters
      BY <2>0, <3>3 DEF FiltersKept, Considered
    <3>6. \A k \in 1..n + 1 : /\ where'[k].of \in DOMAIN query.filters /\ Considered(where'[k].of, step', i')
                             /\ Kept(query.filters[where'[k].of]) /\ where'[k] = Condition(query, where'[k].of)
      <4>1. \A k \in 1..n : /\ where[k].of \in DOMAIN query.filters /\ Considered(where[k].of, step', i')
                            /\ Kept(query.filters[where[k].of]) /\ where[k] = Condition(query, where[k].of)
        BY <2>1, <3>3 DEF FiltersKept
      <4>2. c.of \in DOMAIN query.filters /\ Considered(c.of, step', i') /\ Kept(query.filters[c.of]) /\ c = Condition(query, c.of)
        BY <2>0, <2>1, <2>3, <3>1, <3>2
      <4>3. \A k \in 1..n + 1 : k \in 1..n \/ k = n + 1
        OBVIOUS
      <4> QED BY <3>4, <4>1, <4>2, <4>3
    <3>7. \A k, m \in 1..n + 1 : k < m => where'[k].of < where'[m].of
      <4> SUFFICES ASSUME NEW k \in 1..n + 1, NEW m \in 1..n + 1, k < m PROVE where'[k].of < where'[m].of
        OBVIOUS
      <4>1. k \in 1..n /\ where'[k] = where[k]
        BY <3>4
      <4>2. CASE m \in 1..n
        BY <3>3, <3>4, <4>1, <4>2 DEF FiltersKept
      <4>3. CASE m = n + 1
        BY <3>2, <3>4, <3>5, <4>1, <4>3
      <4> QED BY <4>2, <4>3
    <3>8. \A a \in DOMAIN query.filters : Kept(query.filters[a]) /\ Considered(a, step', i') => \E k \in 1..n + 1 : where'[k].of = a
      <4> SUFFICES ASSUME NEW a \in DOMAIN query.filters, Kept(query.filters[a]), Considered(a, step', i')
                   PROVE  \E k \in 1..n + 1 : where'[k].of = a
        OBVIOUS
      <4>1. CASE a = i
        <5>1. n + 1 \in 1..n + 1
          OBVIOUS
        <5> QED BY <3>2, <3>4, <4>1, <5>1
      <4>2. CASE Considered(a, step, i)
        <5>1. PICK k \in 1..n : where[k].of = a
          BY <3>3, <4>2 DEF FiltersKept
        <5>2. k \in 1..n + 1
          OBVIOUS
        <5> QED BY <3>4, <5>1, <5>2
      <4> QED BY <2>1, <4>1, <4>2
    <3> QED BY <2>0, <3>4, <3>6, <3>7, <3>8 DEF FiltersKept
  <2> QED BY <2>2, <2>3
<1>4. CASE WhereDone
  <2>1. step = "where" /\ step' = "conditions" /\ UNCHANGED <<query, where>>
        /\ \A n \in DOMAIN query.filters : Considered(n, step, i) /\ Considered(n, step', i')
    BY <1>2, <1>4 DEF WhereDone, Considered
  <2> QED BY <2>1 DEF FiltersKept
<1>5. CASE UNCHANGED vars
  BY <1>5 DEF vars, FiltersKept, Considered
<1>6. ASSUME step # "where", step' # "where", UNCHANGED <<query, where>> PROVE FiltersKept'
  BY <1>6 DEF FiltersKept, Considered
<1>7. CASE Equality \/ NextCondition \/ ConditionsDone
  <2>1. step # "where" /\ step' # "where" /\ UNCHANGED <<query, where>>
    BY <1>7 DEF Equality, NextCondition, ConditionsDone
  <2> QED BY <1>6, <2>1
<1>8. CASE VisitContext \/ ContextsDone \/ Deduplicate \/ DeduplicateDone
  <2>1. step # "where" /\ step' # "where" /\ UNCHANGED <<query, where>>
    BY <1>8 DEF VisitContext, ContextsDone, Deduplicate, DeduplicateDone
  <2> QED BY <1>6, <2>1
<1> QED BY <1>3, <1>4, <1>5, <1>7, <1>8 DEF Next

(* The table of a filter by its alias.                                      *)
LEMMA TableOfAlias ==
  ASSUME query \in Queries, NEW alias, NEW declaring, declaring = Declaring(query.tables, alias, {"base", "cte", "subquery", "function"})
  PROVE  /\ alias # "" /\ declaring # {} => WhereTable(query, alias) \in {query.tables[n].name : n \in declaring}
         /\ alias = "" => WhereTable(query, alias) \in {""} \cup {query.tables[n].name : n \in DOMAIN query.tables}
<1>1. PICK l \in Nat : l = Len(query.tables) /\ DOMAIN query.tables = 1..l
  <2>1. query.tables \in TableLists
    BY DEF Queries
  <2> QED BY <2>1, ListsAssumption
<1>2. ASSUME alias # "", declaring # {} PROVE WhereTable(query, alias) \in {query.tables[n].name : n \in declaring}
  <2>1. declaring \in SUBSET (1..l)
    BY <1>1 DEF Declaring
  <2>2. Max(declaring) \in declaring
    BY <1>2, <2>1, MaxOfIndices
  <2>3. WhereTable(query, alias) = query.tables[Max(declaring)].name
    BY <1>2 DEF WhereTable, ResolveAlias
  <2> QED BY <2>2, <2>3
<1>3. ASSUME alias = "" PROVE WhereTable(query, alias) \in {""} \cup {query.tables[n].name : n \in DOMAIN query.tables}
  <2>1. CASE l = 1
    <3>1. 1 \in DOMAIN query.tables
      BY <1>1, <2>1
    <3> QED BY <1>1, <1>3, <2>1, <3>1 DEF WhereTable
  <2>2. CASE l # 1
    BY <1>1, <1>3, <2>2 DEF WhereTable, ResolveAlias
  <2> QED BY <2>1, <2>2
<1> QED BY <1>2, <1>3

LEMMA KeptAsWritten == IInv /\ FiltersKept => ConditionsAsWritten
<1> SUFFICES ASSUME IInv, FiltersKept, step # "where" PROVE ConditionsAsWritten
  BY DEF ConditionsAsWritten
<1>1. TypeOK /\ query \in Queries
  BY DEF IInv, TypeOK
<1>2. \A n : Considered(n, step, i)
  BY DEF Considered
<1>3. PICK K : K = {k \in DOMAIN query.filters : query.filters[k].operator \notin JsonbOperators \cup {<< >>}}
  OBVIOUS
<1>4. \A k : k \in K <=> k \in DOMAIN query.filters /\ Kept(query.filters[k])
  BY <1>3 DEF Kept
<1>5. PICK s : s = [k \in DOMAIN where |-> where[k].of]
  OBVIOUS
<1>6. DOMAIN where = 1..Len(where) /\ Len(where) \in Nat
  BY <1>1 DEF TypeOK
<1>7. s \in Seq(K) /\ DOMAIN s = DOMAIN where
  <2>1. \A k \in DOMAIN where : where[k].of \in K
    BY <1>4 DEF FiltersKept
  <2>2. s \in [1..Len(where) -> K]
    BY <1>5, <1>6, <2>1
  <2> QED BY <1>5, <1>6, <2>2, AsSequence
<1>8. Enumerates(s, K)
  <2>1. \A k, m \in DOMAIN s : k < m => s[k] < s[m]
    BY <1>5, <1>7 DEF FiltersKept
  <2>2. \A x \in K : \E k \in DOMAIN s : s[k] = x
    BY <1>2, <1>4, <1>5, <1>7 DEF FiltersKept
  <2> QED BY <1>7, <2>1, <2>2 DEF Enumerates
<1>9. s = FromLeast(K)
  <2>1. K \in SUBSET Int
    BY <1>1, <1>4, QueryFacts
  <2> QED BY <1>8, <2>1, OnlyEnumeration
<1>10. ASSUME NEW k \in DOMAIN where, NEW f, f = query.filters[where[k].of],
              NEW declaring, declaring = Declaring(query.tables, f.alias, {"base", "cte", "subquery", "function"})
       PROVE  /\ f.alias # "" /\ declaring # {} => where[k].table \in {query.tables[n].name : n \in declaring}
              /\ f.alias = "" => where[k].table \in {""} \cup {query.tables[n].name : n \in DOMAIN query.tables}
              /\ ~Misread(f) /\ ~LosesBlanks(f) => where[k].value = Written(f)
  <2>1. where[k].of \in DOMAIN query.filters /\ Kept(f) /\ where[k] = Condition(query, where[k].of)
    BY <1>10 DEF FiltersKept
  <2>2. where[k].table = WhereTable(query, f.alias) /\ where[k].value = ExtractValue(ContextText(f), f.operator)
    BY <1>10, <2>1 DEF Condition
  <2>3. f.operator \in {<<"IS">>, <<"IS", "NOT", "NULL">>} \/ IsComparison(f)
    <3>1. query.filters \in Filters \cup {<< >>}
      BY <1>1 DEF Queries
    <3>2. query.filters \in Filters
      BY <2>1, <3>1
    <3> QED BY <1>10, <2>1, <3>2, FiltersAssumption DEF Kept
  <2>4. ~Misread(f) /\ ~LosesBlanks(f) => where[k].value = Written(f)
    BY <2>2, <2>3, ValueAsWritten
  <2>5. PICK alias : alias = f.alias
    OBVIOUS
  <2>6. declaring = Declaring(query.tables, alias, {"base", "cte", "subquery", "function"})
    BY <1>10, <2>5
  <2>7. /\ alias # "" /\ declaring # {} => WhereTable(query, alias) \in {query.tables[n].name : n \in declaring}
        /\ alias = "" => WhereTable(query, alias) \in {""} \cup {query.tables[n].name : n \in DOMAIN query.tables}
    BY <1>1, <2>6, TableOfAlias
  <2>8. where[k].table = WhereTable(query, alias)
    BY <2>2, <2>5
  <2> QED BY <2>4, <2>5, <2>7, <2>8
<1> QED BY <1>3, <1>5, <1>9, <1>10 DEF ConditionsAsWritten

(* The WHERE conditions are those of the filters with an operator, in their *)
(* order, each with the table of its alias and, unless its text is one of   *)
(* those that are misread or lose blanks, with the value that is written    *)
(* (where_conditions.go:138, combined_extractor.go:84).                     *)
THEOREM ConditionsReported == Spec => []ConditionsAsWritten
<1>1. Init => IInv /\ FiltersKept
  BY InitIInv, InitFiltersKept
<1>2. (IInv /\ FiltersKept) /\ [Next]_vars => (IInv /\ FiltersKept)'
  BY NextIInv, NextFiltersKept
<1> QED BY <1>1, <1>2, KeptAsWritten, PTL DEF Spec

================================================================================
