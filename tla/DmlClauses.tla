------------------------------- MODULE DmlClauses -------------------------------
(***************************************************************************)
(* populateInsert, populateUpdate, populateDelete and populateMerge: the   *)
(* clauses of one statement are filled into a ParsedQuery, in the order of *)
(* the code.  The SELECTs in a statement are walked by others (QueryScope):*)
(* here each reads one relation.                                           *)
(***************************************************************************)
EXTENDS DmlStatement

VARIABLES
  stmt,    \* the statement
  left,    \* the clauses that are still to be read
  result   \* the ParsedQuery that is filled in

vars == <<stmt, left, result>>

(* A TableRef and a ColumnUsage; a column is where it stands: the clause    *)
(* and the number in it.                                                    *)
TableRef(name, alias, type) == [name |-> name, alias |-> alias, type |-> type]
Usage(role, clause, n) == [role |-> role, clause |-> clause, n |-> n]

NewParsedQuery ==
  [ tables |-> << >>, ctes |-> << >>, usage |-> << >>, setClauses |-> << >>, upsert |-> << >>,
    returning |-> << >>, actions |-> << >> ]

(* ON CONFLICT is read before the SELECT that stands to the left of it. *)
ClausesOf(s) ==
  CASE s.kind = "INSERT" -> <<"with", "target", "conflict", "source", "returning">>
    [] s.kind = "UPDATE" -> <<"with", "target", "set", "from", "where", "returning">>
    [] s.kind = "DELETE" -> <<"with", "target", "from", "where", "returning">>
    [] s.kind = "MERGE"  -> <<"target", "source", "on">> \o [k \in DOMAIN s.actions |-> "action"]

Init == stmt \in Statements /\ left = ClausesOf(stmt) /\ result = NewParsedQuery

Reads(clause) == left # << >> /\ Head(left) = clause /\ left' = Tail(left) /\ UNCHANGED stmt

--------------------------------------------------------------------------------
(* Mutant: aliases left out of the key. *)
SameName(t, u) == t.name = u.name /\ t.type = u.type

(* tableKey. *)
SameTable(t, u) == t = u

(* appendSetOpTables for one table. *)
AppendNew(tables, t) == IF \E k \in DOMAIN tables : SameTable(tables[k], t) THEN tables ELSE Append(tables, t)

(* extractCTEs: the CTE and the tables of its body. *)
WithCte(r) == [r EXCEPT !.ctes = Append(@, Cte), !.tables = Append(@, TableRef(Inner, "", "base"))]

WithClause ==
  /\ Reads("with")
  /\ result' = IF stmt.with THEN WithCte(result) ELSE result

(* Mutant: the target classified like a relation that is read. *)
TargetAsRead(name, ctes) == TableRef(name, "", IF name \in Range(ctes) THEN "cte" ELSE "base")

(* populateInsert and appendRelationOptAlias: WITH binds no target. *)
TargetRef(name, ctes) == TableRef(name, "", "base")

Target ==
  /\ Reads("target") /\ stmt.kind # "MERGE"
  /\ result' = [result EXCEPT !.tables = Append(@, TargetRef(stmt.target, result.ctes))]

(* Mutant: a relation read is a table whatever WITH binds. *)
RelationUnclassified(name, ctes) == TableRef(name, "", "base")

(* collectTableRefs, for a relation. *)
RelationRef(name, ctes) == TableRef(name, "", IF name \in Range(ctes) THEN "cte" ELSE "base")

(* extractFromList: a derived table is answered for without CTE names. *)
FromItems(r, items) ==
  FoldLeft(LAMBDA ts, item :
             IF item.derived THEN AppendNew(Append(ts, TableRef("", "", "subquery")), TableRef(item.name, "", "base"))
             ELSE Append(ts, RelationRef(item.name, r.ctes)),
           r.tables, items)

FromClause ==
  /\ Reads("from")
  /\ result' = [result EXCEPT !.tables = FromItems(result, stmt.from)]

--------------------------------------------------------------------------------
(* findAndRecordUsage of a clause that has n columns. *)
Columns(role, clause, n) == [i \in 1..n |-> Usage(role, clause, i)]
If(condition, seq) == IF condition THEN seq ELSE << >>

(* Mutant: the last assignment left out. *)
AllButLastTarget(role, sets) ==
  SelectSeq(Columns(role, "set", Len(sets)), LAMBDA u : sets[u.n] = "column" /\ u.n < Len(sets))

(* recordSetTargetUsage: the columns assigned to, but in a list. *)
SetTargets(role, sets) == SelectSeq(Columns(role, "set", Len(sets)), LAMBDA u : sets[u.n] = "column")

(* The columns that are assigned have one column each. *)
SetValues(role, sets) == Columns(role, "value", Len(sets))

(* extractSetClauses. *)
SetTexts(sets) == [i \in DOMAIN sets |-> i]

SetClause ==
  /\ Reads("set")
  /\ result' = [result EXCEPT !.setClauses = @ \o SetTexts(stmt.sets),
                              !.usage = @ \o SetTargets("dml_set", stmt.sets) \o SetValues("dml_set", stmt.sets)]

WhereClause ==
  /\ Reads("where")
  /\ result' = [result EXCEPT !.usage = @ \o If(stmt.where, Columns("filter", "where", 1))]

ReturningClause ==
  /\ Reads("returning")
  /\ result' = [result EXCEPT !.returning = ReturningText(stmt.returning.blank, stmt.returning.items),
                              !.usage = @ \o If(stmt.returning.items # << >>, Columns("returning", "returning", 1))]

(* Mutant: the assignments of DO UPDATE kept with the ON CONFLICT clause only. *)
UpsertAlone(r, sets) == [r EXCEPT !.upsert = SetTexts(sets)]

(* buildUpsertClause and what populateInsert does with its SET clauses. *)
Upsert(r, sets) ==
  [r EXCEPT !.upsert = SetTexts(sets), !.setClauses = @ \o SetTexts(sets)]

(* A column of the conflict target is a name, no columnref, unless it is in *)
(* an expression.                                                           *)
ConflictClause ==
  /\ Reads("conflict")
  /\ IF stmt.conflict = "none" THEN UNCHANGED result
     ELSE LET updates == stmt.conflict = "update"
              sets    == IF updates THEN stmt.sets ELSE << >>
              usages  == If(stmt.index = "expressions", Columns("upsert_target", "index", 1))
                           \o SetTargets("dml_set", sets) \o SetValues("upsert_set", sets)
                           \o If(updates /\ stmt.where, Columns("filter", "where", 1))
          IN result' = [Upsert(result, sets) EXCEPT !.usage = @ \o usages]

(* populateSelect into the same answer, whose CTEs it adds to. *)
SelectSource ==
  /\ Reads("source") /\ stmt.kind = "INSERT"
  /\ IF stmt.source # "select" THEN UNCHANGED result
     ELSE LET r == IF stmt.withInner THEN WithCte(result) ELSE result IN
          result' = [r EXCEPT !.tables = Append(@, RelationRef(stmt.reads, r.ctes)),
                              !.usage  = @ \o Columns("projection", "list", 1) \o Columns("filter", "select where", 1)]

--------------------------------------------------------------------------------
(* The alias clauses of a MERGE, in order. *)
Aliases(s) == SelectSeq(<<s.targetAlias, s.sourceAlias>>, LAMBDA a : a # "")

(* Mutant: the first alias for both. *)
FirstAlias(s, n) == IF Aliases(s) # << >> THEN Aliases(s)[1] ELSE ""

(* The alias of the target, n = 1, and of the source: the n-th of them. *)
AliasOf(s, n) == IF n <= Len(Aliases(s)) THEN Aliases(s)[n] ELSE ""

(* merge.Target and merge.Source.Table. *)
MergeTargetRef(s) == TableRef(s.target, AliasOf(s, 1), "base")
MergeSourceRef(s) ==
  IF s.source.derived THEN TableRef(AliasOf(s, 2), AliasOf(s, 2), "subquery")
  ELSE TableRef(s.source.name, AliasOf(s, 2), "base")

(* A qualified name has no columnref, so no usage is recorded of it. *)
MergeTarget ==
  /\ Reads("target") /\ stmt.kind = "MERGE"
  /\ result' = [result EXCEPT !.tables = AppendNew(@, MergeTargetRef(stmt))]

MergeSource ==
  /\ Reads("source") /\ stmt.kind = "MERGE"
  /\ LET tables == AppendNew(result.tables, MergeSourceRef(stmt)) IN
       result' = [result EXCEPT !.tables =
         IF stmt.source.derived THEN AppendNew(tables, TableRef(stmt.source.name, "", "base")) ELSE tables]

MergeCondition ==
  /\ Reads("on")
  /\ result' = [result EXCEPT !.usage = @ \o Columns("join", "on", 1)]

(* The blank before a word is a space, but at the beginning of a line. *)
AfterSpace(d, i) == d.line # i

(* Mutant: the condition begins at the last AND. *)
CutAtLastAnd(d) ==
  LET words == DeleteWords(d.condition, d.then)
      ands  == {i \in DOMAIN words : words[i] = "AND" /\ AfterSpace(d, i) /\ AfterSpace(d, i + 1)}
  IN IF ands = {} THEN << >> ELSE SubSeq(words, Max(ands) + 1, Len(words) - (IF d.then THEN 2 ELSE 1))

(* extractDeleteConditionFromText: what follows the first " AND ", up to    *)
(* the first " THEN" or " DELETE".                                          *)
DeleteCondition(d) ==
  LET words == DeleteWords(d.condition, d.then)
      ands  == {i \in DOMAIN words : words[i] = "AND" /\ AfterSpace(d, i) /\ AfterSpace(d, i + 1)}
      ends  == {i \in DOMAIN words : i > Min(ands) + 1 /\ words[i] \in {"THEN", "DELETE", "deleted"} /\ AfterSpace(d, i)}
  IN IF ands = {} THEN << >>
     ELSE SubSeq(words, Min(ands) + 1, IF ends = {} THEN Len(words) ELSE Min(ends) - 1)

(* buildMergeInsertAction, buildMergeUpdateAction and buildMergeDeleteAction.*)
MergeAction ==
  /\ Reads("action")
  /\ LET k == Len(result.actions) + 1
         a == stmt.actions[k] IN
       result' =
         CASE a.type = "INSERT" ->
                [result EXCEPT !.actions = Append(@, [type |-> "INSERT", condition |-> If(a.when, <<"x">>)]),
                               !.usage = @ \o If(a.when, <<Usage("filter", "when", k)>>) \o <<Usage("merge_insert", "values", k)>>]
           [] a.type = "UPDATE" ->
                [result EXCEPT !.actions = Append(@, [type |-> "UPDATE", condition |-> If(a.when, <<"x">>)]),
                               !.setClauses = @ \o SetTexts(a.sets),
                               !.usage = @ \o If(a.when, <<Usage("filter", "when", k)>>)
                                           \o SetTargets("merge_set", a.sets) \o SetValues("merge_set", a.sets)]
           [] a.type = "DELETE" ->
                [result EXCEPT !.actions = Append(@, [type |-> "DELETE", condition |-> DeleteCondition(a)])]

Next ==
  \/ WithClause \/ Target \/ FromClause \/ SetClause \/ WhereClause \/ ReturningClause
  \/ ConflictClause \/ SelectSource
  \/ MergeTarget \/ MergeSource \/ MergeCondition \/ MergeAction

Spec == Init /\ [][Next]_vars

--------------------------------------------------------------------------------
Done == left = << >>

(* The relations a statement reads outside of SELECTs in expressions, and   *)
(* whether WITH binds the name where it stands.                             *)
ReadsOf(s) ==
  CASE s.kind \in {"UPDATE", "DELETE"} ->
         {[name |-> i.name, cte |-> s.with /\ i.name = Cte] : i \in {s.from[k] : k \in {n \in DOMAIN s.from : ~s.from[n].derived}}}
    [] s.kind = "INSERT" ->
         IF s.source = "select" THEN {[name |-> s.reads, cte |-> (s.with \/ s.withInner) /\ s.reads = Cte]} ELSE {}
    [] s.kind = "MERGE" -> IF s.source.derived THEN {} ELSE {[name |-> s.source.name, cte |-> FALSE]}

(* The target of a statement is among its tables and is a table, though     *)
(* WITH may bind its name; every relation it reads is, too, as a CTE        *)
(* exactly where WITH binds the name, and no other name is taken for one    *)
(* (dml_insert.go:20, dml_update.go:25, select.go:326).                     *)
TargetAndReadsKnown ==
  Done =>
    /\ \E t \in Range(result.tables) : t.name = stmt.target /\ t.type = "base"
    /\ \A r \in ReadsOf(stmt) : \E t \in Range(result.tables) : t.name = r.name /\ t.type = IF r.cte THEN "cte" ELSE "base"
    /\ \A t \in Range(result.tables) : t.type = "cte" => [name |-> t.name, cte |-> TRUE] \in ReadsOf(stmt)

(* The assignments of a statement, wherever its SET stands. *)
SetOf(s) ==
  CASE s.kind = "UPDATE" -> s.sets
    [] s.kind = "INSERT" -> IF s.conflict = "update" THEN s.sets ELSE << >>
    [] s.kind = "DELETE" -> << >>
    [] s.kind = "MERGE"  ->
         LET u == {k \in DOMAIN s.actions : s.actions[k].type = "UPDATE"} IN
         IF u = {} THEN << >> ELSE s.actions[Max(u)].sets

Times(role, clause, n) == Cardinality({i \in DOMAIN result.usage : result.usage[i] = Usage(role, clause, n)})

(* SetClauses has the assignments of a statement once and in order, be they *)
(* in SET, in DO UPDATE or in a MERGE; ColumnUsage has the column of each   *)
(* assignment to one, and what each assigns, and no column twice            *)
(* (dml_common.go:52, dml_insert.go:55, merge.go:114).                      *)
AssignmentsKnown ==
  Done =>
    LET sets   == SetOf(stmt)
        target == IF stmt.kind = "MERGE" THEN "merge_set" ELSE "dml_set"
        value  == CASE stmt.kind = "MERGE" -> "merge_set" [] stmt.kind = "INSERT" -> "upsert_set" [] OTHER -> "dml_set" IN
    /\ result.setClauses = [i \in DOMAIN sets |-> i]
    /\ \A i \in DOMAIN sets : (sets[i] = "column" => Times(target, "set", i) = 1) /\ Times(value, "value", i) = 1
    /\ IsInjective([i \in DOMAIN result.usage |-> <<result.usage[i].clause, result.usage[i].n>>])

(* Target and source are among the tables, each with its own alias. *)
AliasesKept ==
  /\ TableRef(stmt.target, stmt.targetAlias, "base") \in Range(result.tables)
  /\ \E t \in Range(result.tables) :
       /\ t.alias = stmt.sourceAlias
       /\ IF stmt.source.derived THEN t.type = "subquery" ELSE t.name = stmt.source.name /\ t.type = "base"

(* The actions of a MERGE are those written, each with its condition; that  *)
(* of DELETE where it stands on one line and no word after the first of it  *)
(* begins like THEN or DELETE; and where the target has an alias or the     *)
(* source has none, each of them has its own (merge.go:33, 207).            *)
MergeAsWritten ==
  stmt.kind = "MERGE" /\ Done =>
    /\ Len(result.actions) = Len(stmt.actions)
    /\ \A k \in DOMAIN stmt.actions :
         LET a == stmt.actions[k] IN
         /\ result.actions[k].type = a.type
         /\ a.type = "DELETE" /\ a.line = 0 /\ (\A i \in 2..Len(a.condition) : a.condition[i] \notin {"THEN", "deleted"})
              => result.actions[k].condition = a.condition
         /\ a.type = "DELETE" /\ a.condition = << >> => result.actions[k].condition = << >>
    /\ stmt.targetAlias # "" \/ stmt.sourceAlias = "" => AliasesKept

(* AnalyzeSQL's Returning has the items of the clause as they are written,  *)
(* though the calls and literals in them have commas, parentheses and       *)
(* doubled quotes of their own; RETURNING must be followed by a space       *)
(* (analysis.go:376).                                                       *)
ReturningAsWritten ==
  Done /\ stmt.kind # "MERGE" /\ stmt.returning.blank = " " =>
    NormalizeReturning(result.returning) = stmt.returning.items

================================================================================
