------------------------------- MODULE QueryScope -------------------------------
(***************************************************************************)
(* select.go populateSelectFromResolvedNested and setops.go: one SELECT    *)
(* after another is filled into a ParsedQuery, the innermost first, since  *)
(* the answer for a nested SELECT (buildSubqueryRef, or                    *)
(* parsePreparableStmtToIR for the body of a CTE) depends on nothing       *)
(* outside of it and is the same however often it is asked for.            *)
(***************************************************************************)
EXTENDS SelectStatement

VARIABLES
  stmt,     \* the statement
  at,       \* the SELECT that is being filled in, 0 at the end
  step,     \* what comes next for it: "with", "clauses" or "arms"
  result,   \* the ParsedQuery that is filled in
  parsed,   \* the answers for the SELECTs after `at`
  nested    \* what collectNestedSetOperationsFromPrimary returns for each of them,
            \* for each set of CTE names it may be given

vars == <<stmt, at, step, result, parsed, nested>>

CteNames == Range(CteName)

(* A TableRef; `by` is the SELECT in whose FROM it is written. *)
TableRef(schema, name, type, by) == [schema |-> schema, name |-> name, type |-> type, by |-> by]

(* A ParsedQuery: arms and SELECTs by their numbers. *)
NewParsedQuery ==
  [ tables        |-> << >>,
    ctes          |-> << >>,
    columns       |-> << >>,    \* the arm whose select list was read, if any
    filters       |-> << >>,    \* the arms whose comparison is in ColumnUsage
    setOperations |-> << >>,
    subqueries    |-> << >> ]

--------------------------------------------------------------------------------
(* Mutant: the key of a table is its name. *)
TableKeyByName(t) == t.name

(* tableKey; aliases follow names here. *)
TableKey(t) == <<t.schema, t.name, t.type>>

(* appendSetOpTables. *)
AppendSetOpTables(tables, more) ==
  FoldLeft(LAMBDA ts, t : IF \E k \in DOMAIN ts : TableKey(ts[k]) = TableKey(t) THEN ts ELSE Append(ts, t),
           tables, more)

(* Children of one slot, in the order of the source. *)
Ordered(S) == SetToSortSeq(S, <)

(* Mutant: the type of a relation set only where it is a CTE. *)
RelationRefUntyped(q, names) ==
  LET r == stmt.reads[q] IN
  TableRef(r.schema, r.name, IF r.name \in names THEN "cte" ELSE "", q)

(* The relation an arm reads, as collectTableRefs and the TABLE branch of  *)
(* extractTablesAndUsageForPrimary classify it.                            *)
RelationRef(q, names) ==
  LET r == stmt.reads[q] IN
  TableRef(r.schema, r.name, IF r.name \in names THEN "cte" ELSE "base", q)

(* extractFromClause: the relation, then the derived tables, each with the *)
(* tables of its SELECT.                                                   *)
FromClauseTables(tables, q, k, names) ==
  IF ~IsSelect(stmt, q, k) THEN tables
  ELSE FoldLeft(LAMBDA ts, c : AppendSetOpTables(Append(ts, TableRef("", "", "subquery", q)), parsed[c].tables),
                Append(tables, RelationRef(q, names)), Ordered(InSlot(stmt, q, k, "from")))

(* extractTablesAndUsageForPrimary: the tables and SELECTs of one arm. *)
PrimaryTables(q, k, names) ==
  IF IsParenthesised(stmt, q, k) THEN parsed[InParentheses(stmt, q, k)].tables
  ELSE IF IsTable(stmt, q, k) THEN <<RelationRef(q, names)>>
  ELSE FromClauseTables(<< >>, q, k, names)

PrimarySubqueries(q, k) ==
  IF IsParenthesised(stmt, q, k) THEN <<InParentheses(stmt, q, k)>> ELSE Ordered(InSlot(stmt, q, k, "from"))

(* extractColumnsForPrimary and extractProjection: the arm whose select    *)
(* list is read, in parentheses the first arm of the SELECT in them.       *)
Projected(q, k) ==
  IF IsParenthesised(stmt, q, k) THEN parsed[InParentheses(stmt, q, k)].columns
  ELSE IF IsTable(stmt, q, k) THEN << >> ELSE << <<q, k>> >>

(* Mutant: the SELECTs in a SELECT not looked into. *)
TablesOfOutermost(c) == parsed[c].tables

(* extractTablesFromParsedQuery: the tables of a SELECT and, again, those of the SELECTs in it. *)
AllTables(c) ==
  LET all[n \in 0..MaxQueries, d \in Queries(stmt)] ==
        IF n = 0 THEN << >>
        ELSE parsed[d].tables \o
             FlattenSeq([i \in DOMAIN parsed[d].subqueries |-> all[n - 1, parsed[d].subqueries[i]]])
  IN all[MaxQueries, c]

--------------------------------------------------------------------------------
(* The WITH clause is seen unless the SELECT stands in parentheses         *)
(* (resolveSelectFromParens returns none).                                 *)
Unwrapped(s, q) == s.place[q].slot \in {"statement", "body"} /\ q \notin s.wrapped

Init ==
  /\ IsSelectStatement(stmt)
  /\ at = Len(stmt.place) /\ step = "with" /\ result = NewParsedQuery
  /\ parsed = [q \in Queries(stmt) |-> NewParsedQuery]
  /\ nested = [q \in Queries(stmt) |-> [names \in SUBSET CteNames |-> [ops |-> << >>, leading |-> << >>, subqueries |-> << >>]]]

(* extractCTEs; names are given to the bodies in order. *)
WithClause ==
  /\ at > 0 /\ step = "with"
  /\ LET bodies == IF Unwrapped(stmt, at) THEN Ordered(Bodies(stmt, at)) ELSE << >> IN
       result' = [result EXCEPT !.ctes   = [i \in DOMAIN bodies |-> [name |-> CteName[i], query |-> bodies[i]]],
                                !.tables = FlattenSeq([i \in DOMAIN bodies |-> AllTables(bodies[i])])]
  /\ step' = "clauses"
  /\ UNCHANGED <<stmt, at, parsed, nested>>

(* Mutant: one name too many. *)
NamesInOneMore(r) == {CteName[i] : i \in 1..Min({2, Len(r.ctes) + 1})}

(* buildCTENameSet, and the same loop in populateSelectFromResolvedNested. *)
NamesIn(r) == {r.ctes[i].name : i \in DOMAIN r.ctes}

(* extractProjection, extractFromClause and extractWhereClause of the first arm. *)
Clauses ==
  /\ at > 0 /\ step = "clauses"
  /\ LET columns == Projected(at, 1)
         lists   == FlattenSeq([i \in DOMAIN columns |-> Ordered(InSlot(stmt, columns[i][1], columns[i][2], "list"))])
         derived == IF IsParenthesised(stmt, at, 1) THEN << >> ELSE Ordered(InSlot(stmt, at, 1, "from"))
         wheres  == Ordered(InSlot(stmt, at, 1, "where")) IN
       result' = [result EXCEPT !.columns    = columns,
                                !.tables     = FromClauseTables(@, at, 1, NamesIn(result)),
                                !.filters    = IF IsSelect(stmt, at, 1) THEN << <<at, 1>> >> ELSE << >>,
                                !.subqueries = lists \o derived \o wheres]
  /\ step' = "arms"
  /\ UNCHANGED <<stmt, at, parsed, nested>>

--------------------------------------------------------------------------------
HasSetOperations(q) == Len(stmt.op[q]) > 1

(* Mutant: the first arm always processed again. *)
ProcessedAlways(q, k) == TRUE

(* Mutant: the first arm left to the main SELECT. *)
ProcessedAfterFirst(q, k) == k > 1

(* The first arm is processed with the others if there are others. *)
Processed(q, k) == k > 1 \/ HasSetOperations(q)

(* Mutant: the tables of an arm classified without the CTE names. *)
SetOperationUnclassified(q, k, names) ==
  [ arm |-> <<q, k>>, columns |-> Projected(q, k), tables |-> PrimaryTables(q, k, {}) ]

(* buildSetOperationFromIntersect and buildSetOperationFromPrimary. *)
SetOperation(q, k, names) ==
  [ arm |-> <<q, k>>, columns |-> Projected(q, k), tables |-> PrimaryTables(q, k, names) ]

(* collectNestedSetOperationsFromPrimary. *)
NestedIn(q, k, names) ==
  IF IsParenthesised(stmt, q, k) THEN nested[InParentheses(stmt, q, k)][names]
  ELSE [ops |-> << >>, leading |-> << >>, subqueries |-> << >>]

(* Mutant: the operators nested in an arm before that of the arm itself. *)
SetOperationsInnerFirst(q, names) ==
  LET arms == DOMAIN stmt.op[q] IN
  [ ops        |-> FlattenSeq([k \in arms |->
                     NestedIn(q, k, names).ops \o IF k = 1 THEN << >> ELSE <<SetOperation(q, k, names)>>]),
    leading    |-> IF Processed(q, 1) THEN PrimaryTables(q, 1, names) ELSE << >>,
    subqueries |-> << >> ]

(* extractSetOperationsWithResult and collectIntersectOperationsWithResult: *)
(* for each arm what it adds itself, then what the arms nested in it add.   *)
SetOperations(q, names) ==
  LET arms == DOMAIN stmt.op[q] IN
  [ ops        |-> FlattenSeq([k \in arms |->
                     (IF k = 1 THEN << >> ELSE <<SetOperation(q, k, names)>>) \o NestedIn(q, k, names).ops]),
    leading    |-> FlattenSeq([k \in arms |->
                     (IF k = 1 /\ Processed(q, 1) THEN PrimaryTables(q, 1, names) ELSE << >>)
                       \o NestedIn(q, k, names).leading]),
    subqueries |-> FlattenSeq([k \in arms |->
                     (IF Processed(q, k) THEN PrimarySubqueries(q, k) ELSE << >>)
                       \o NestedIn(q, k, names).subqueries]) ]

(* The comparisons that are recorded on the way: INTERSECT's arms have no result to record in. *)
ArmFilters(q) ==
  SelectSeq([k \in DOMAIN stmt.op[q] |-> <<q, k>>],
            LAMBDA a : Processed(q, a[2]) /\ IsSelect(stmt, q, a[2]) /\ stmt.op[q][a[2]] # "INTERSECT")

(* The set operations of a SELECT, which ends its answer. *)
ArmsClause ==
  /\ at > 0 /\ step = "arms"
  /\ LET all == SetOperations(at, NamesIn(result)) IN
       parsed' = [parsed EXCEPT ![at] =
         [result EXCEPT !.setOperations = all.ops,
                        !.tables        = AppendSetOpTables(@, all.leading \o
                                            FlattenSeq([i \in DOMAIN all.ops |-> all.ops[i].tables])),
                        !.subqueries    = @ \o all.subqueries,
                        !.filters       = @ \o ArmFilters(at)]]
  /\ nested' = [nested EXCEPT ![at] = [names \in SUBSET CteNames |-> SetOperations(at, names)]]
  /\ at' = at - 1 /\ step' = "with" /\ result' = NewParsedQuery
  /\ UNCHANGED stmt

Next == WithClause \/ Clauses \/ ArmsClause

Spec == Init /\ [][Next]_vars

--------------------------------------------------------------------------------
(* A SELECT whose answer has just been given; it stays as it is. *)
Done(q) == q = at + 1 /\ step = "with"

(* A type invariant: what is filled in are numbers of arms and SELECTs, and *)
(* classified relations of the statement.                                   *)
TypeOK ==
  LET Arm  == {<<q, k>> : q \in Queries(stmt), k \in 1..3}
      Refs == [schema : {"", "s"}, name : {"", "a", "b", "t"}, type : {"base", "cte", "subquery"}, by : Queries(stmt)]
      IsAnswer(r) ==
        /\ Range(r.tables) \subseteq Refs
        /\ Range(r.ctes) \subseteq [name : CteNames, query : Queries(stmt)]
        /\ Range(r.columns) \cup Range(r.filters) \subseteq Arm /\ Len(r.columns) <= 1
        /\ \A i \in DOMAIN r.setOperations :
             r.setOperations[i].arm \in Arm /\ Range(r.setOperations[i].tables) \subseteq Refs
        /\ Range(r.subqueries) \subseteq Queries(stmt)
  IN /\ at \in 0..Len(stmt.place) /\ step \in {"with", "clauses", "arms"}
     /\ IsAnswer(result) /\ \A q \in Queries(stmt) : IsAnswer(parsed[q])

(* Whether the answer for a SELECT goes into that for the one it stands in: *)
(* not from a WITH in parentheses, not from the expressions of an arm after *)
(* the first, and not from an arm in parentheses that is the only one.      *)
GoesOut(c) ==
  LET p == stmt.place[c] IN
  CASE p.slot = "body" -> Unwrapped(stmt, p.outer)
    [] p.slot = "from" -> TRUE
    [] p.slot = "arm"  -> HasSetOperations(p.outer)
    [] OTHER           -> p.arm = 1

(* The SELECTs whose answers go into that for q, through others or not. *)
Within(q) ==
  LET in[n \in 0..MaxQueries] ==
        IF n = 0 THEN {q} ELSE in[n - 1] \cup {c \in Queries(stmt) : stmt.place[c].outer \in in[n - 1] /\ GoesOut(c)}
  IN in[MaxQueries]

Named(tables) == {<<tables[i].schema, tables[i].name>> : i \in DOMAIN tables}

(* Every relation read in a SELECT, or in one whose answer goes into its    *)
(* answer, is among the tables found from that answer, however many levels  *)
(* of parentheses, CTEs and arms are between (setops.go:344, select.go:211).*)
TablesSurface ==
  \A q \in Queries(stmt) : Done(q) =>
    \A p \in Within(q) : \A k \in Arms(stmt, p) :
      IsSelect(stmt, p, k) \/ (IsTable(stmt, p, k) /\ HasSetOperations(p)) =>
        <<stmt.reads[p].schema, stmt.reads[p].name>> \in Named(AllTables(q))

(* The names a WITH clause binds. *)
Bound(q) == IF Unwrapped(stmt, q) THEN {CteName[i] : i \in 1..Cardinality(Bodies(stmt, q))} ELSE {}

(* A SELECT and those it stands in. *)
Enclosing(q) ==
  LET out[p \in Queries(stmt)] == {p} \cup IF p = 1 THEN {} ELSE out[stmt.place[p].outer] IN out[q]

(* A relation is taken for a CTE only where WITH binds its name in that     *)
(* SELECT or an enclosing one, and always where it is the WITH of the same  *)
(* SELECT, in every arm of it (select.go:326, setops.go:291).               *)
NamesOfTheirScope ==
  \A q \in Queries(stmt) : Done(q) =>
    LET r == parsed[q] IN
    \A t \in Range(r.tables) \cup UNION {Range(r.setOperations[i].tables) : i \in DOMAIN r.setOperations} :
      /\ t.type = "cte" => \E p \in Enclosing(t.by) : t.name \in Bound(p)
      /\ t.type = "base" /\ t.by = q => t.name \notin Bound(q)

(* The SELECTs in q through arms in parentheses. *)
InArms(q) ==
  LET in[n \in 0..MaxQueries] ==
        IF n = 0 THEN {q} ELSE in[n - 1] \cup {c \in Queries(stmt) : stmt.place[c].slot = "arm" /\ stmt.place[c].outer \in in[n - 1]}
  IN in[MaxQueries]

(* The arm of q that p stands in, 0 if it stands in none. *)
ArmWith(q, p) ==
  LET inner == {c \in Queries(stmt) : stmt.place[c].slot = "arm" /\ stmt.place[c].outer = q /\ p \in InArms(c)}
  IN IF inner = {} THEN 0 ELSE stmt.place[CHOOSE c \in inner : TRUE].arm

(* The operator before one arm is left of that before another. *)
LeftOf(x, y) ==
  \/ x[1] = y[1] /\ x[2] < y[2]
  \/ ArmWith(x[1], y[1]) # 0 /\ x[2] <= ArmWith(x[1], y[1])
  \/ ArmWith(y[1], x[1]) # 0 /\ ArmWith(y[1], x[1]) < y[2]
  \/ \E c \in Queries(stmt) : 0 < ArmWith(c, x[1]) /\ ArmWith(c, x[1]) < ArmWith(c, y[1])

(* SetOperations has every operator of a SELECT and of its arms in          *)
(* parentheses once, from left to right (setops.go:74, 114, 176).           *)
OperatorsInSourceOrder ==
  \A q \in Queries(stmt) : Done(q) =>
    LET ops == [i \in DOMAIN parsed[q].setOperations |-> parsed[q].setOperations[i].arm] IN
    /\ Range(ops) = {<<p, k>> : p \in InArms(q), k \in 2..3} \cap UNION {{p} \X Arms(stmt, p) : p \in InArms(q)}
    /\ \A i, j \in DOMAIN ops : i < j => LeftOf(ops[i], ops[j])

Times(x, xs) == Cardinality({i \in DOMAIN xs : xs[i] = x})

(* ColumnUsage has no comparison of another SELECT, and that of every arm   *)
(* but INTERSECT's; where there is only one arm, its comparison and the     *)
(* SELECTs in it are recorded once (setops.go:63).                          *)
OwnPartsOnce ==
  \A q \in Queries(stmt) : Done(q) =>
    /\ \A i \in DOMAIN parsed[q].filters : parsed[q].filters[i][1] = q
    /\ \A k \in Arms(stmt, q) : IsSelect(stmt, q, k) /\ stmt.op[q][k] # "INTERSECT" =>
         <<q, k>> \in Range(parsed[q].filters)
    /\ ~HasSetOperations(q) /\ IsSelect(stmt, q, 1) =>
         /\ Times(<<q, 1>>, parsed[q].filters) = 1
         /\ \A c \in UNION {InSlot(stmt, q, 1, slot) : slot \in {"list", "from", "where"}} :
              Times(c, parsed[q].subqueries) = 1

================================================================================
