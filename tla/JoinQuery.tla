------------------------------- MODULE JoinQuery -------------------------------
(***************************************************************************)
(* What analysis/join_parser.go and where_conditions.go read of a          *)
(* ParsedQuery, and what they make of one condition: the table an alias    *)
(* stands for, and the relationship of two columns of which one is a key.  *)
(***************************************************************************)
EXTENDS ConditionValue

CONSTANTS
  TableLists,    \* the lists Tables may be: TableRefs
  Conditions,    \* the join conditions a query may have
  Schema,        \* the primary keys: a set of <<table, column>>
  MaxConditions, \* bound on the join conditions of a query
  MaxColumns,    \* bound on the columns of one
  Filters        \* the lists of filter usages a query may have: comparisons as in ConditionValue

JsonbOperators == {<<"->>">>, <<"->">>, <<"#>>">>, <<"#>">>}

(* A condition is searched for equalities if it is an ON clause, but not if *)
(* the letters USING are anywhere in it; nor is the ON of a MERGE, which is *)
(* no part of JoinConditions.  refs are its columns, equals the positions   *)
(* of those that are equated with the next one.  USING has both sides of    *)
(* each of its columns, one column after another.                           *)
IsCondition(c) ==
  /\ c.kind \in {"on", "unsearched", "using"}
  /\ Len(c.refs) <= MaxColumns
  /\ \A n \in c.equals : {n, n + 1} \subseteq DOMAIN c.refs /\ n + 1 \notin c.equals
  /\ c.kind = "using" =>
       /\ c.refs # << >> /\ Len(c.refs) % 2 = 0 /\ c.equals = {n \in DOMAIN c.refs : n % 2 = 1}
       /\ \A n \in c.equals : /\ c.refs[n].column = c.refs[n + 1].column
                             /\ c.refs[n].alias = c.refs[1].alias /\ c.refs[n + 1].alias = c.refs[2].alias

ASSUME ConditionsAssumption == \A c \in Conditions : IsCondition(c)
ASSUME BoundsAssumption == MaxConditions \in Nat /\ MaxColumns \in Nat
ASSUME FiltersAssumption == \A s \in Filters : \A k \in DOMAIN s :
  s[k].operator \in {<< >>, <<"IS">>, <<"IS", "NOT", "NULL">>} \cup JsonbOperators \/ IsComparison(s[k])
ASSUME ListsAssumption == \A s \in TableLists \cup Filters : DOMAIN s = 1..Len(s) /\ Len(s) \in Nat

(* Filters and join conditions are read by different loops: a query has     *)
(* conditions, or it has filters.                                           *)
Queries ==
  [tables : TableLists, conditions : SeqOf(Conditions, MaxConditions), filters : {<< >>}]
  \cup [tables : TableLists, conditions : {<< >>}, filters : Filters]

(* The context its usages are recorded with: the text, which for USING has  *)
(* the columns and not the tables.                                          *)
Context(c) == IF c.kind = "using" THEN <<"using", [n \in DOMAIN c.refs |-> c.refs[n].column]>> ELSE <<"on", c>>

--------------------------------------------------------------------------------
(* The tables an alias may stand for, of some types. *)
Declaring(tables, alias, types) == {k \in DOMAIN tables : tables[k].type \in types /\ alias \in {tables[k].alias, tables[k].name}}

(* resolveAlias in buildAliasMap or buildWhereAliasMap: later tables take   *)
(* the alias from earlier ones, an alias no table has is taken for a table. *)
ResolveAlias(tables, alias, types) ==
  IF alias = "" THEN ""
  ELSE IF Declaring(tables, alias, types) = {} THEN alias
  ELSE tables[Max(Declaring(tables, alias, types))].name

Nil == [parent |-> << >>, child |-> << >>]

(* inferParentChildWithSchema. *)
InferParentChild(left, right) ==
  IF left \in Schema /\ right \notin Schema THEN [parent |-> left, child |-> right]
  ELSE IF right \in Schema /\ left \notin Schema THEN [parent |-> right, child |-> left] ELSE Nil

Relate(q, left, right) ==
  LET leftTable  == ResolveAlias(q.tables, left.alias, {"base"})
      rightTable == ResolveAlias(q.tables, right.alias, {"base"}) IN
  IF leftTable = "" \/ rightTable = "" THEN Nil
  ELSE InferParentChild(<<leftTable, left.column>>, <<rightTable, right.column>>)

(* extractRelationshipsFromConditionWithSchema, for one column of one condition. *)
OfEquality(q, i, p) ==
  LET c == q.conditions[i] IN
  IF c.kind = "on" /\ p \in c.equals THEN Relate(q, c.refs[p], c.refs[p + 1]) ELSE Nil

Contexts(q) == {Context(q.conditions[i]) : i \in {k \in DOMAIN q.conditions : q.conditions[k].refs # << >>}}

(* The first condition with a context: conditions of one text share it. *)
FirstOf(q, x) == CHOOSE i \in DOMAIN q.conditions :
  /\ Context(q.conditions[i]) = x /\ q.conditions[i].refs # << >>
  /\ \A k \in 1..i - 1 : q.conditions[k].refs # << >> => Context(q.conditions[k]) # x

(* extractRelationshipsFromColumnUsageWithSchema, for one context: its      *)
(* first two columns, however the condition relates them.  (One column that *)
(* conditions of the same text repeat is in no relationship with itself.)   *)
OfContext(q, x) ==
  LET refs == q.conditions[FirstOf(q, x)].refs IN
  IF Len(refs) < 2 THEN Nil ELSE Relate(q, refs[1], refs[2])

(* Everything the conditions of a query give, in no order. *)
Derivable(q) ==
  ({OfEquality(q, i, p) : i \in DOMAIN q.conditions, p \in 1..MaxColumns} \cup {OfContext(q, x) : x \in Contexts(q)}) \ {Nil}

================================================================================
