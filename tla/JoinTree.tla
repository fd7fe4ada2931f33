-------------------------------- MODULE JoinTree --------------------------------
(***************************************************************************)
(* select.go collectTableRefs and its helpers: the walk over the table_ref *)
(* tree of a FROM clause that fills ParsedQuery.Tables, JoinConditions,    *)
(* the join part of ColumnUsage and Correlations.  The recursion is        *)
(* explicit: one frame per active call of collectTableRefs.                *)
(***************************************************************************)
EXTENDS FromClause, SequencesExt

CONSTANT CteChoices        \* the sets of references that may name a CTE

ASSUME CteAssumption == \A c \in CteChoices : c \subseteq 1..MaxRefs

VARIABLES
  from,            \* the FROM clause
  frames,          \* the active calls, the innermost last
  item,            \* the item of the from_list begun last, 0 for none
  tables,          \* result.Tables
  joinConditions,  \* result.JoinConditions: the nodes whose join_qual was recorded
  usages,          \* the USING part of result.ColumnUsage, a pair of sides per clause
  correlations     \* result.Correlations, as a set

results == <<tables, joinConditions, usages, correlations>>
vars == <<from, frames, item, tables, joinConditions, usages, correlations>>

-------------------------------------------------------------------------------
Refs == RefsIn(from)

(* The references nested in a node, or the items of the list, after the one begun last. *)
Remaining(p, last) == {m \in Nested(from, p) : m > last}

(* `raw` tells apart what the source text tells apart: the references of   *)
(* this clause, and the table read inside subquery m (MaxRefs + m).        *)
TableRef ==
  [ name : 1..MaxRefs + 1, type : {"base", "cte", "function", "subquery"}, raw : 1..2 * MaxRefs,
    joinType : {"", "JOIN", "LEFT", "CROSS", "NATURAL", "NATURAL LEFT"},
    joinCondition : 0..MaxRefs ]

Table(name, type, raw) ==
  [name |-> name, type |-> type, raw |-> raw, joinType |-> "", joinCondition |-> 0]

(* tableKey; aliases follow names here. *)
TableKey(t) == <<t.name, t.type>>

(* Mutant: no deduplication. *)
AppendAll(ts, t) == Append(ts, t)

(* Mutant: keyed by the name alone. *)
AppendByName(ts, t) ==
  IF \E k \in DOMAIN ts : ts[k].name = t.name THEN ts ELSE Append(ts, t)

(* appendSetOpTables, for the tables of a subquery of one table. *)
AppendSetOpTables(ts, t) ==
  IF \E k \in DOMAIN ts : TableKey(ts[k]) = TableKey(t) THEN ts ELSE Append(ts, t)

(* resolveJoinMeta: what the walk over the children of a node says of one of them. *)
JoinMeta(m) ==
  IF InParens(from, m) THEN [type |-> "", condition |-> 0]
  ELSE [ type      |-> IF from.join[m].words = "" THEN "JOIN" ELSE from.join[m].words,
         condition |-> IF from.join[m].qual = "none" THEN 0 ELSE m ]

BaseTables(ts) == {k \in DOMAIN ts : ts[k].type = "base"}

(* Mutant: the first two base tables taken for the sides. *)
RecordUsingFirst(us, m) ==
  LET first == Min(BaseTables(tables)) IN
  IF Cardinality(BaseTables(tables)) < 2 THEN us
  ELSE Append(us, [ clause |-> m,
                    left   |-> tables[first].raw,
                    right  |-> tables[Min(BaseTables(tables) \ {first})].raw ])

(* recordUsingJoinFromParts: the last two base tables so far are the sides. *)
RecordUsing(us, m) ==
  LET last == Max(BaseTables(tables)) IN
  IF Cardinality(BaseTables(tables)) < 2 THEN us
  ELSE Append(us, [ clause |-> m,
                    left   |-> tables[Max(BaseTables(tables) \ {last})].raw,
                    right  |-> tables[last].raw ])

(* Mutant: only the table before the function looked at. *)
DetectInNeighbour(ts, fn) ==
  IF ts # << >> /\ Last(ts).name = 1 THEN {[outer |-> Last(ts).raw, function |-> fn]} ELSE {}

(* The functions of a FROM clause are LATERAL calls over the first reference's columns. *)
DetectLateralCorrelation(ts, fn) ==
  {[outer |-> ts[k].raw, function |-> fn] : k \in {l \in DOMAIN ts : ts[l].name = 1}}

-------------------------------------------------------------------------------
Init ==
  /\ IsFromClause(from, CteChoices)
  /\ frames = << >> /\ item = 0
  /\ tables = << >> /\ joinConditions = << >> /\ usages = << >> /\ correlations = {}

(* A call that has just begun on node m. *)
Call(m) == [node |-> m, stage |-> "register", child |-> 0, before |-> 0, quals |-> {}]

Top == Last(frames)

ActiveAt(stage) == frames # << >> /\ Top.stage = stage

SetTop(f) == [frames EXCEPT ![Len(frames)] = f]

(* extractFromList: the next item. *)
NextItem ==
  /\ frames = << >> /\ Remaining(0, item) # {}
  /\ item' = Min(Remaining(0, item))
  /\ frames' = <<Call(item')>>
  /\ UNCHANGED <<from, results>>

Registered == SetTop([Top EXCEPT !.stage = "nested"])

RegisterRelation ==
  /\ ActiveAt("register") /\ from.kind[Top.node] = "relation"
  /\ tables' = Append(tables,
       Table(Top.node, IF Top.node \in from.cteNames THEN "cte" ELSE "base", Top.node))
  /\ frames' = Registered
  /\ UNCHANGED <<from, item, joinConditions, usages, correlations>>

RegisterFunction ==
  /\ ActiveAt("register") /\ from.kind[Top.node] = "function"
  /\ tables' = Append(tables, Table(Top.node, "function", Top.node))
  /\ correlations' = correlations \cup DetectLateralCorrelation(tables', Top.node)
  /\ frames' = Registered
  /\ UNCHANGED <<from, item, joinConditions, usages>>

RegisterSubquery ==
  /\ ActiveAt("register") /\ from.kind[Top.node] = "subquery"
  /\ LET inner == Table(from.inner[Top.node], "base", MaxRefs + Top.node) IN
       tables' = AppendSetOpTables(Append(tables, Table(Top.node, "subquery", Top.node)), inner)
  /\ frames' = Registered
  /\ UNCHANGED <<from, item, joinConditions, usages, correlations>>

(* Parentheses and XMLTABLE have no branch of their own. *)
RegisterNothing ==
  /\ ActiveAt("register") /\ from.kind[Top.node] \in {"paren", "xmltable"}
  /\ frames' = Registered
  /\ UNCHANGED <<from, item, results>>

(* The loop over the nested references: the call on the next one. *)
VisitNested ==
  /\ ActiveAt("nested") /\ Remaining(Top.node, Top.child) # {}
  /\ LET m == Min(Remaining(Top.node, Top.child)) IN
       frames' = Append(SetTop([Top EXCEPT !.child = m, !.before = Len(tables)]), Call(m))
  /\ UNCHANGED <<from, item, results>>

(* Mutant: the index remembered before the call left where it was. *)
AfterNestedStale(caller, ts) ==
  IF caller.before = 0 \/ caller.before > Len(ts) THEN ts
  ELSE [ts EXCEPT ![caller.before].joinType = JoinMeta(caller.child).type,
                  ![caller.before].joinCondition = JoinMeta(caller.child).condition]

(* After it: the first table the call added gets the join of the nested reference. *)
AfterNested(caller, ts) ==
  LET at == caller.before + 1 IN
  IF at > Len(ts) THEN ts
  ELSE [ts EXCEPT ![at].joinType      = JoinMeta(caller.child).type,
                  ![at].joinCondition = JoinMeta(caller.child).condition]

(* Mutant: the qualifications of USING alone looked at. *)
QualsOfUsing(p) == {m \in Nested(from, p) : from.join[m].qual = "USING"}

Quals(p) == {m \in Nested(from, p) : from.join[m].qual # "none"}

(* The loop over the join_quals, in source order, after all nested references. *)
RecordQual ==
  /\ ActiveAt("nested") /\ Remaining(Top.node, Top.child) = {}
  /\ Top.quals # Quals(Top.node)
  /\ LET m == Min(Quals(Top.node) \ Top.quals) IN
       /\ joinConditions' = Append(joinConditions, m)
       /\ usages' = IF from.join[m].qual = "USING" THEN RecordUsing(usages, m) ELSE usages
       /\ frames' = SetTop([Top EXCEPT !.quals = @ \cup {m}])
  /\ UNCHANGED <<from, item, tables, correlations>>

Return ==
  /\ ActiveAt("nested") /\ Remaining(Top.node, Top.child) = {}
  /\ Top.quals = Quals(Top.node)
  /\ frames' = Front(frames)
  /\ tables' = IF Len(frames) = 1 THEN tables ELSE AfterNested(frames[Len(frames) - 1], tables)
  /\ UNCHANGED <<from, item, joinConditions, usages, correlations>>

Next ==
  \/ NextItem
  \/ RegisterRelation \/ RegisterFunction \/ RegisterSubquery \/ RegisterNothing
  \/ VisitNested \/ RecordQual \/ Return

Spec == Init /\ [][Next]_vars

-------------------------------------------------------------------------------
(* Properties.                                                             *)

Walked == frames = << >> /\ Remaining(0, item) = {}

IsInner(t) == t.raw > MaxRefs

Registering == {m \in Refs : from.kind[m] \in {"relation", "function", "subquery"}}

(* Every relation, function and subquery of the clause has one entry, in   *)
(* source order; a table read inside a subquery comes after the subquery,  *)
(* and only if no entry before it has its key: whatever a subquery reads   *)
(* is among the tables of the outer query.                                 *)
TablesInSourceOrder ==
  LET own == {k \in DOMAIN tables : ~IsInner(tables[k])} IN
  /\ \A k, l \in own : k < l => tables[k].raw < tables[l].raw
  /\ Walked => {tables[k].raw : k \in own} = Registering
  /\ \A k \in DOMAIN tables : IsInner(tables[k]) =>
       /\ k > 1 /\ tables[k - 1].raw = tables[k].raw - MaxRefs
       /\ \A l \in 1..k - 1 : TableKey(tables[l]) # TableKey(tables[k])
  /\ \A k \in DOMAIN tables : tables[k].type = "subquery" =>
       \E l \in DOMAIN tables : TableKey(tables[l]) = <<from.inner[tables[k].raw], "base">>

(* The reference whose text begins with n and that goes furthest: what n   *)
(* stands at the left of, inside parentheses.                              *)
OperandOf(n) ==
  Min({m \in 1..n : \A k \in m + 1..n : InParens(from, k)})

(* A table carries the join by which the operand it begins is joined:      *)
(* "INNER", "LEFT", ... or "" for base FROM tables, with its ON/USING      *)
(* clause, or "" for base/CROSS tables (ir.go:62-63).  An XMLTABLE has no   *)
(* entry to carry its join, and leaves it to the next one: left out here.  *)
JoinMetaOnItsTable ==
  Walked /\ (\A m \in Refs : from.kind[m] # "xmltable") => \A k \in DOMAIN tables :
    LET t == tables[k]
        j == from.join[OperandOf(t.raw)] IN
    IF IsInner(t) \/ j = NoJoin THEN t.joinType = "" /\ t.joinCondition = 0
    ELSE /\ t.joinType = IF j.words = "" THEN "JOIN" ELSE j.words
         /\ t.joinCondition = IF j.qual = "none" THEN 0 ELSE OperandOf(t.raw)

(* Every ON and USING of the clause is recorded once, an inner one before  *)
(* the ones around it.                                                     *)
EachQualRecorded ==
  /\ \A k, l \in DOMAIN joinConditions : k < l =>
       /\ joinConditions[k] # joinConditions[l]
       /\ from.parent[joinConditions[k]] \notin Ancestors(from, from.parent[joinConditions[l]])
  /\ Walked =>
       {joinConditions[k] : k \in DOMAIN joinConditions} = {m \in Refs : from.join[m].qual # "none"}

(* The operands of the join that brings in m. *)
LeftOperand(m)  == {n \in Refs : from.parent[m] <= n /\ n < m}
RightOperand(m) == {n \in Refs : n = m \/ m \in Ancestors(from, n)}

HasSides(u) == u.left \in LeftOperand(u.clause) /\ u.right \in RightOperand(u.clause)

(* For a USING that ends its table_ref, with a base relation on its right, *)
(* one on its left and no subquery about, the two sides recorded are the   *)
(* operands.                                                               *)
LastUsingHasSides ==
  \A k \in DOMAIN usages :
    LET m == usages[k].clause
        isBase(n) == from.kind[n] = "relation" /\ n \notin from.cteNames IN
    /\ \A n \in Nested(from, from.parent[m]) : n <= m
    /\ isBase(m) /\ Nested(from, m) = {}
    /\ \E n \in LeftOperand(m) : isBase(n)
    /\ \A n \in Refs : from.kind[n] # "subquery"
    => HasSides(usages[k])

(* No ON or USING is lost or doubled, and the last USING is of its join.   *)
EveryQualOnce == EachQualRecorded /\ LastUsingHasSides

(* Every LATERAL call after the first reference is correlated with it, and  *)
(* with nothing that is registered after the call.                         *)
LateralCallsCorrelated ==
  /\ Walked => \A n \in Refs :
       from.kind[n] = "function" /\ 1 \in Registering =>
         [outer |-> 1, function |-> n] \in correlations
  /\ \A c \in correlations :
       LET source(raw) == IF raw > MaxRefs THEN raw - MaxRefs ELSE raw
       IN source(c.outer) <= c.function

===============================================================================
