----------------------------- MODULE QueryAnalysis -----------------------------
(***************************************************************************)
(* ExtractQueryAnalysisWithSchema: the WHERE conditions, then the          *)
(* relationships of the join conditions, from their text and then from the *)
(* column usages by context, which a Go map yields in any order, and       *)
(* without the duplicates.                                                 *)
(***************************************************************************)
EXTENDS JoinQuery

VARIABLES
  query,         \* the ParsedQuery
  step,          \* the loop that runs
  i, p,          \* the condition and the column it is at
  contexts,      \* the contexts that are still to be visited
  relationships, \* those found
  answer,        \* those of them that are no duplicates
  where          \* the WHERE conditions

vars == <<query, step, i, p, contexts, relationships, answer, where>>

Steps == {"where", "conditions", "contexts", "deduplicate", "done"}

Init ==
  /\ query \in Queries
  /\ step = "where" /\ i = 1 /\ p = 1 /\ contexts = Contexts(query)
  /\ relationships = << >> /\ answer = << >> /\ where = << >>

(* Mutant: the map of base tables for WHERE as well. *)
WhereTableOfBase(q, alias) == ResolveAlias(q.tables, alias, {"base"})

(* The table of a filter: that of its alias, or the only table. *)
WhereTable(q, alias) ==
  IF alias = "" /\ Len(q.tables) = 1 THEN q.tables[1].name
  ELSE ResolveAlias(q.tables, alias, {"base", "cte", "subquery", "function"})

(* Mutant: a filter without operator makes a condition. *)
KeptWithoutOperator(f) == f.operator \notin JsonbOperators

Kept(f) == f.operator # << >> /\ f.operator \notin JsonbOperators

(* The WhereCondition of a filter: its value is taken from the text. *)
Condition(q, k) ==
  LET f == q.filters[k] IN
  [of |-> k, table |-> WhereTable(q, f.alias), value |-> ExtractValue(ContextText(f), f.operator)]

(* One iteration of extractWhereConditionsFromParsed. *)
WhereUsage ==
  /\ step = "where" /\ i <= Len(query.filters)
  /\ LET f == query.filters[i] IN
       where' = IF Kept(f) THEN Append(where, Condition(query, i)) ELSE where
  /\ i' = i + 1
  /\ UNCHANGED <<query, step, p, contexts, relationships, answer>>

WhereDone ==
  /\ step = "where" /\ i > Len(query.filters)
  /\ step' = "conditions" /\ i' = 1
  /\ UNCHANGED <<query, p, contexts, relationships, answer, where>>

--------------------------------------------------------------------------------
(* Mutant: what is not found is kept as well. *)
AddAny(rels, r) == Append(rels, r)

Add(rels, r) == IF r = Nil THEN rels ELSE Append(rels, r)

(* The next column of a join condition. *)
Equality ==
  /\ step = "conditions" /\ i <= Len(query.conditions) /\ p <= MaxColumns
  /\ relationships' = Add(relationships, OfEquality(query, i, p))
  /\ p' = p + 1
  /\ UNCHANGED <<query, step, i, contexts, answer, where>>

NextCondition ==
  /\ step = "conditions" /\ i <= Len(query.conditions) /\ p > MaxColumns
  /\ i' = i + 1 /\ p' = 1
  /\ UNCHANGED <<query, step, contexts, relationships, answer, where>>

ConditionsDone ==
  /\ step = "conditions" /\ i > Len(query.conditions)
  /\ step' = "contexts"
  /\ UNCHANGED <<query, i, p, contexts, relationships, answer, where>>

(* Mutant: the loop left at a context without relationship. *)
VisitContextOrReturn ==
  /\ step = "contexts"
  /\ \E x \in contexts :
       /\ relationships' = Add(relationships, OfContext(query, x))
       /\ contexts' = IF OfContext(query, x) = Nil THEN {} ELSE contexts \ {x}
  /\ UNCHANGED <<query, step, i, p, answer, where>>

(* One iteration over the map of contexts. *)
VisitContext ==
  /\ step = "contexts"
  /\ \E x \in contexts :
       /\ relationships' = Add(relationships, OfContext(query, x))
       /\ contexts' = contexts \ {x}
  /\ UNCHANGED <<query, step, i, p, answer, where>>

ContextsDone ==
  /\ step = "contexts" /\ contexts = {}
  /\ step' = "deduplicate" /\ i' = 1
  /\ UNCHANGED <<query, p, contexts, relationships, answer, where>>

(* Mutant: duplicates only looked for next to each other. *)
SeenLast(rels, r) == rels # << >> /\ Last(rels) = r

Seen(rels, r) == r \in Range(rels)

(* One iteration of deduplicateRelationships. *)
Deduplicate ==
  /\ step = "deduplicate" /\ i <= Len(relationships)
  /\ answer' = IF Seen(answer, relationships[i]) THEN answer ELSE Append(answer, relationships[i])
  /\ i' = i + 1
  /\ UNCHANGED <<query, step, p, contexts, relationships, where>>

DeduplicateDone ==
  /\ step = "deduplicate" /\ i > Len(relationships)
  /\ step' = "done"
  /\ UNCHANGED <<query, i, p, contexts, relationships, answer, where>>

Next ==
  \/ WhereUsage \/ WhereDone
  \/ Equality \/ NextCondition \/ ConditionsDone
  \/ VisitContext \/ ContextsDone
  \/ Deduplicate \/ DeduplicateDone

Spec == Init /\ [][Next]_vars

--------------------------------------------------------------------------------
(* A type invariant; what is found are relationships that conditions give. *)
TypeOK ==
  /\ query \in Queries /\ step \in Steps
  /\ i \in Nat \ {0} /\ p \in 1..MaxColumns + 1
  /\ contexts \subseteq Contexts(query)
  /\ relationships \in Seq(Derivable(query)) /\ answer \in Seq(Derivable(query))
  /\ where \in Seq({Condition(query, k) : k \in DOMAIN query.filters})

(* The loops implement the promise: the same relationships whatever the     *)
(* order of the map, all of them and each once (join_parser.go:227, 257).   *)
Promise == INSTANCE RelationshipSet WITH
  Queries <- Queries, Derivable <- Derivable, query <- query,
  found <- Range(relationships), reply <- IF step = "done" THEN answer ELSE << >>

ImplementsPromise == Promise!Spec

(* No relationship is answered twice, also on the way, and none is before   *)
(* one that was found earlier (join_parser.go:257).                         *)
EachOnceInOrder ==
  /\ IsInjective(answer)
  /\ \A k, m \in DOMAIN answer : k < m =>
       \E n \in DOMAIN relationships : relationships[n] = answer[k] /\ answer[m] \notin {relationships[l] : l \in 1..n}

(* There is a condition for every filter with an operator, in order, and it *)
(* is of a table that has the filter's alias, whatever its type, if there   *)
(* is one; without an alias it is of the only table or of none              *)
(* (combined_extractor.go:84).  Which of several that declare the alias is  *)
(* left open: the code takes the last, and Tables has those of derived      *)
(* tables after the query's own (where_conditions.go:77).                   *)
(* Its value is the one written, unless the text is one of those that       *)
(* Misread and LosesBlanks list (where_conditions.go:138).                  *)
ConditionsAsWritten ==
  step # "where" =>
    /\ [k \in DOMAIN where |-> where[k].of] =
         FromLeast({k \in DOMAIN query.filters : query.filters[k].operator \notin JsonbOperators \cup {<< >>}})
    /\ \A k \in DOMAIN where :
         LET f         == query.filters[where[k].of]
             declaring == Declaring(query.tables, f.alias, {"base", "cte", "subquery", "function"}) IN
         /\ f.alias # "" /\ declaring # {} => where[k].table \in {query.tables[n].name : n \in declaring}
         /\ f.alias = "" => where[k].table \in {""} \cup {query.tables[n].name : n \in DOMAIN query.tables}
         /\ ~Misread(f) /\ ~LosesBlanks(f) => where[k].value = Written(f)

(* README.md:157 says "no heuristic guessing": a relationship is then       *)
(* between columns that some condition equates.                             *)
OnlyEquatedColumns ==
  \A k \in DOMAIN answer :
    \E c \in Range(query.conditions) : \E n \in c.equals :
      Relate(query, c.refs[n], c.refs[n + 1]) = answer[k]

================================================================================
