------------------------------ MODULE DmlStatement ------------------------------
(***************************************************************************)
(* The INSERT, UPDATE, DELETE and MERGE statements of the grammar, down to *)
(* the clauses that dml_*.go and merge.go read.  Of a clause there is what *)
(* the answer keeps of it: relations, assignments, and where columns stand.*)
(* One name may be bound by WITH, to a SELECT that reads Inner.            *)
(***************************************************************************)
EXTENDS ReturningList

CONSTANTS
  Names,            \* the names of relations a statement may use
  Cte,              \* the one that WITH binds
  Inner,            \* the relation the body of the CTE reads, not in Names
  MaxItems,         \* bound on the relations of FROM or USING
  MaxAssignments,   \* bound on the assignments of one SET
  Expressions,      \* the items RETURNING may have: texts as in ReturningList
  MaxReturning,     \* bound on them
  MaxCondition      \* bound on the words of the condition of WHEN MATCHED ... DELETE

ASSUME NamesAssumption == Cte \in Names /\ Inner \notin Names
ASSUME BoundsAssumption == {MaxItems, MaxAssignments, MaxReturning, MaxCondition} \subseteq Nat

(* from_list: a relation, or a derived table that reads one. *)
Item == [derived : BOOLEAN, name : Names]
Items == SeqOf(Item, MaxItems)

(* set_clause_list: an assignment to one column or to a list of columns. *)
Assignments == SeqOf({"column", "list"}, MaxAssignments)

(* returning_clause: none, or one column; ReturningDelete has all of them. *)
Returning == [blank : Blanks, items : SeqOf(Expressions, MaxReturning)]
PlainReturning == [blank : {" "}, items : {<< >>, << <<"c">> >>}]

Insert ==
  [ kind      : {"INSERT"},
    with      : BOOLEAN,
    target    : Names,
    source    : {"default", "values", "select"},    \* insert_rest
    reads     : Names,                              \* what its SELECT reads
    withInner : BOOLEAN,                            \* whether the SELECT has the WITH clause of its own
    conflict  : {"none", "nothing", "update"},      \* on_conflict_
    index     : {"none", "columns", "expressions"}, \* conf_expr_
    sets      : Assignments,
    where     : BOOLEAN,                            \* the last WHERE of ON CONFLICT
    returning : PlainReturning ]

Update ==
  [ kind : {"UPDATE"}, with : BOOLEAN, target : Names, from : Items,
    sets : Assignments \ {<< >>}, where : BOOLEAN, returning : PlainReturning ]

Delete ==
  [ kind : {"DELETE"}, with : BOOLEAN, target : Names, from : Items, where : BOOLEAN, returning : PlainReturning ]

ReturningDelete ==
  [ kind : {"DELETE"}, with : {FALSE}, target : Names, from : {<< >>}, where : {FALSE}, returning : Returning ]

(* The clause WHEN MATCHED ... DELETE as its words, with the word that      *)
(* begins a line, if any does; lines carry no other blanks (preprocess.go). *)
(* `deleted` stands for a name that begins like the keyword, THEN is part   *)
(* of a CASE where it is not the last of them.                              *)
Conditions ==
  {c \in SeqOf({"x", "AND", "THEN", "deleted"}, MaxCondition) :
     c = << >> \/ (c[1] \in {"x", "deleted"} /\ c[Len(c)] \in {"x", "deleted"})}

DeleteWords(condition, then) ==
  <<"WHEN", "MATCHED">> \o (IF condition = << >> THEN << >> ELSE <<"AND">> \o condition)
    \o (IF then THEN <<"THEN">> ELSE << >>) \o <<"DELETE">>

DeleteClauses ==
  {d \in [type : {"DELETE"}, condition : Conditions, then : BOOLEAN, line : 0..MaxCondition + 4] :
     d.line # 1 /\ d.line <= Len(DeleteWords(d.condition, d.then))}

InsertClauses == [type : {"INSERT"}, when : BOOLEAN]
UpdateClauses == [type : {"UPDATE"}, when : BOOLEAN, sets : Assignments \ {<< >>}]

(* mergestmt: one of INSERT and UPDATE, or both in any order, then DELETE. *)
MergeActions ==
  LET first == {<<i>> : i \in InsertClauses} \cup {<<u>> : u \in UpdateClauses}
                 \cup {<<i, u>> : i \in InsertClauses, u \in UpdateClauses}
                 \cup {<<u, i>> : i \in InsertClauses, u \in UpdateClauses}
  IN first \cup {f \o <<d>> : f \in first, d \in DeleteClauses}

Merge ==
  [ kind : {"MERGE"}, target : Names, targetAlias : {"", "m"}, source : Item, sourceAlias : {"", "n"},
    actions : MergeActions ]

Statements == Insert \cup Update \cup Delete \cup ReturningDelete \cup Merge

================================================================================
