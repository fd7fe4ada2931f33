------------------------------ MODULE UsageWalk ------------------------------
(***************************************************************************)
(* helpers.go and helpers_comparison.go: how the columns, the direct       *)
(* subqueries and the comparisons of a clause are collected.  Listeners    *)
(* walk the parse tree of the clause, get a call when the walker enters    *)
(* and leaves a node, and tell the scopes of inner queries apart by a      *)
(* counter.  One action per kind of callback, and one for what follows     *)
(* the walk of each listener.                                              *)
(*                                                                         *)
(* Nodes are numbered in the order in which they are entered; last[m] is   *)
(* the last node below m.  Nodes that no listener looks at are left out.   *)
(***************************************************************************)
EXTENDS Ordering, SequencesExt

CONSTANT
  Inputs         \* kinds of clause, with a bound on their nodes and what a node may be:
                 \* a grammar rule, and the words of it that are compared

Predicates ==
  {"a_expr_compare", "a_expr_like", "a_expr_in", "a_expr_between", "a_expr_isnull", "a_expr_is_not",
   "a_expr_qual_op"}

WindowParts == {"partition_clause", "sort_clause"}

(* The rules some listener looks at in a clause. *)
RulesIn(kind) ==
  {"columnref", "select_with_parens"} \cup
  CASE kind = "target_list" -> WindowParts \cup {"over_clause"}
    [] kind \in {"where_clause", "having_clause"} -> Predicates
    [] OTHER -> {}

(* The words of a predicate that negates; those of a qualified operator do not. *)
Negated(words) == \E i \in DOMAIN words : words[i] \in {"NOT", "NOTNULL"}

ClauseKinds == {"target_list", "where_clause", "having_clause", "group_clause", "order_clause"}

ASSUME InputsAssumption ==
  \A input \in Inputs :
    /\ input.kind \in ClauseKinds /\ input.maxNodes \in Nat
    /\ \A l \in input.labels :
         /\ l.rule \in RulesIn(input.kind)
         /\ l.rule = "a_expr_qual_op" => 1 \in DOMAIN l.words /\ ~Negated(l.words)

VARIABLES
  clause,         \* its kind, and its tree
  todo,           \* the walks to be made
  frames,         \* the walks under way, the innermost last
  usages,         \* result.ColumnUsage
  subqueries      \* result.Subqueries

vars == <<clause, todo, frames, usages, subqueries>>

-------------------------------------------------------------------------------
(* The tree of a clause.                                                   *)

Nodes == DOMAIN clause.last
Rule(m) == clause.label[m].rule
Words(m) == clause.label[m].words
Below(m) == m..clause.last[m]

Above(last, m) == {k \in 1..m - 1 : last[k] >= m}
Parent(last, m) == IF Above(last, m) = {} THEN 0 ELSE Max(Above(last, m))

(* The expressions of the clause, from left to right. *)
Items == FromLeast({m \in Nodes : Above(clause.last, m) = {}})

(* Two nodes are apart or one is below the other; columns have nothing     *)
(* below them; PARTITION BY and ORDER BY are parts of an OVER clause, at   *)
(* most one of each and in this order; a condition is one expression.      *)
IsClause(kind, last, label) ==
  LET part(m) == label[m].rule \in WindowParts IN
  /\ \A m \in DOMAIN last : last[m] >= m /\ \A k \in m..last[m] : last[k] <= last[m]
  /\ \A m \in DOMAIN last :
       /\ label[m].rule = "columnref" => last[m] = m
       /\ part(m) <=> Parent(last, m) # 0 /\ label[Parent(last, m)].rule = "over_clause"
       /\ \A k \in m + 1..Len(last) :
            part(m) /\ part(k) /\ Parent(last, k) = Parent(last, m) =>
              label[m].rule = "partition_clause" /\ label[k].rule = "sort_clause"
  /\ kind \in {"where_clause", "having_clause"} => last[1] = Len(last)

(* What two nodes with the same text have in common. *)
Text(m) == [k \in 0..clause.last[m] - m |-> <<clause.last[m + k] - m, clause.label[m + k]>>]

-------------------------------------------------------------------------------
(* The walks, and the listener that makes each.                            *)

Walk(listener, first, last, role) ==
  [listener |-> listener, first |-> first, last |-> last, role |-> role]

WalkOf(listener, m, role) == Walk(listener, m, clause.last[m], role)

(* A listener starts with a counter of 0; `open` are the nodes entered and not yet left. *)
Frame(walk) ==
  [walk |-> walk, next |-> walk.first, open |-> {}, subqueryDepth |-> 0, found |-> << >>]

(* extractProjection: the columns and the subqueries item by item, then the windows. *)
ProjectionWalks(items) ==
  Append(FlattenSeq([i \in DOMAIN items |->
           <<WalkOf("columns", items[i], "projection"), WalkOf("subqueries", items[i], "none")>>]),
         Walk("windows", 1, Len(clause.last), "none"))

(* extractWhereClause and extractHavingClause *)
ConditionWalks == <<WalkOf("subqueries", 1, "none"), WalkOf("comparisons", 1, "filter")>>

(* extractGroupClause and extractOrderClause *)
ListWalks(items, role) == [i \in DOMAIN items |-> WalkOf("columns", items[i], role)]

WalksOf(kind, items) ==
  CASE kind = "target_list" -> ProjectionWalks(items)
    [] kind = "group_clause" -> ListWalks(items, "group")
    [] kind = "order_clause" -> ListWalks(items, "order")
    [] OTHER -> ConditionWalks

(* Mutant: ISNULL and NOTNULL taken for one another. *)
NullTestSwapped(words) ==
  CASE words = <<"ISNULL">> -> <<"IS", "NOT", "NULL">>
    [] words = <<"NOTNULL">> -> <<"IS", "NULL">>
    [] words = <<"IS", "NULL">> -> <<"IS">>
    [] OTHER -> << >>

(* EnterA_expr_isnull sees IS NULL in the only child of its node. *)
NullTest(words) ==
  CASE words = <<"ISNULL">> -> <<"IS", "NULL">>
    [] words = <<"NOTNULL">> -> <<"IS", "NOT", "NULL">>
    [] words = <<"IS", "NULL">> -> <<"IS">>
    [] OTHER -> << >>

CompareTest(words) == IF words[1] \in {"=", "<>", "!=", ">", ">=", "<", "<="} THEN words ELSE << >>

IsNotTest(words) ==
  IF words \in {<<"IS", "NOT", w>> : w \in {"NULL", "TRUE", "FALSE"}} THEN words ELSE << >>

(* The operator of a predicate, as a sequence of words; none if the listener knows no such operator. *)
OperatorOf(rule, words) ==
  CASE rule = "a_expr_compare" -> CompareTest(words)
    [] rule = "a_expr_like" -> IF words[Len(words)] \in {"LIKE", "ILIKE"} THEN words ELSE << >>
    [] rule = "a_expr_isnull" -> NullTest(words)
    [] rule = "a_expr_is_not" -> IsNotTest(words)
    [] rule = "a_expr_qual_op" -> <<words[1]>>
    [] OTHER -> words

Usage(column, role, context, operator) ==
  [column |-> column, role |-> role, context |-> context, operator |-> operator]

(* Mutant: a column compared once in a clause. *)
ColumnKey(u) == Words(u.column)

ComparisonKey(u) == <<Words(u.column), u.operator, Text(u.context)>>

-------------------------------------------------------------------------------
Init ==
  \E input \in Inputs : \E n \in 1..input.maxNodes :
    \E last \in [1..n -> 1..n], label \in [1..n -> input.labels] :
      /\ IsClause(input.kind, last, label)
      /\ clause = [kind |-> input.kind, last |-> last, label |-> label]
      /\ todo = WalksOf(input.kind, Items)
      /\ frames = << >>
      /\ usages = << >>
      /\ subqueries = << >>

current == frames[Len(frames)]

Continue(frame) == frames' = [frames EXCEPT ![Len(frames)] = frame]

BeginWalk ==
  /\ frames = << >> /\ todo # << >>
  /\ frames' = <<Frame(Head(todo))>>
  /\ todo' = Tail(todo)
  /\ UNCHANGED <<clause, usages, subqueries>>

(* The walker comes to node m: it has left every node that m is not below. *)
Arrives(m) ==
  /\ frames # << >>
  /\ m = current.next /\ m <= current.walk.last
  /\ \A k \in current.open : m <= clause.last[k]

Entered(frame, m) ==
  LET inside == [frame EXCEPT !.open = @ \cup {m}] IN [inside EXCEPT !.next = m + 1]

(* Mutant: the depth ignored. *)
EnterAnyColumnref(m) ==
  /\ Arrives(m) /\ Rule(m) = "columnref"
  /\ Continue(IF current.walk.listener = "columns"
                THEN [Entered(current, m) EXCEPT !.found = Append(@, m)]
                ELSE Entered(current, m))
  /\ UNCHANGED <<clause, todo, usages, subqueries>>

(* columnRefCollector.EnterColumnref *)
EnterColumnref(m) ==
  /\ Arrives(m) /\ Rule(m) = "columnref"
  /\ Continue(IF current.walk.listener = "columns" /\ current.subqueryDepth = 0
                THEN [Entered(current, m) EXCEPT !.found = Append(@, m)]
                ELSE Entered(current, m))
  /\ UNCHANGED <<clause, todo, usages, subqueries>>

(* The listener of OVER clauses does not count. *)
Counts(listener) == listener # "windows"

Deeper(frame) ==
  IF Counts(frame.walk.listener) THEN [frame EXCEPT !.subqueryDepth = @ + 1] ELSE frame

(* Mutant: the depth not decremented. *)
AsDeep(frame) == frame

(* ExitSelect_with_parens *)
LessDeep(frame) ==
  IF Counts(frame.walk.listener) /\ frame.subqueryDepth > 0
    THEN [frame EXCEPT !.subqueryDepth = @ - 1]
    ELSE frame

(* Mutant: nested subqueries recorded with the direct ones. *)
EnterAnySelect(m) ==
  /\ Arrives(m) /\ Rule(m) = "select_with_parens"
  /\ Continue(IF current.walk.listener = "subqueries"
                THEN Deeper([Entered(current, m) EXCEPT !.found = Append(@, m)])
                ELSE Deeper(Entered(current, m)))
  /\ UNCHANGED <<clause, todo, usages, subqueries>>

EnterSelect_with_parens(m) ==
  /\ Arrives(m) /\ Rule(m) = "select_with_parens"
  /\ Continue(IF current.walk.listener = "subqueries" /\ current.subqueryDepth = 0
                THEN Deeper([Entered(current, m) EXCEPT !.found = Append(@, m)])
                ELSE Deeper(Entered(current, m)))
  /\ UNCHANGED <<clause, todo, usages, subqueries>>

(* windowClauseCollector.EnterOver_clause *)
EnterOver_clause(m) ==
  /\ Arrives(m) /\ Rule(m) = "over_clause"
  /\ Continue(IF current.walk.listener = "windows"
                THEN [Entered(current, m) EXCEPT !.found = Append(@, m)]
                ELSE Entered(current, m))
  /\ UNCHANGED <<clause, todo, usages, subqueries>>

Compares == current.walk.listener = "comparisons" /\ current.subqueryDepth = 0

(* The EnterA_expr_... callbacks of comprehensiveComparisonCollector: a    *)
(* walk of its own collects the columns of a predicate.                    *)
EnterPredicate(m) ==
  /\ Arrives(m) /\ Rule(m) \in Predicates
  /\ IF Compares /\ OperatorOf(Rule(m), Words(m)) # << >>
       THEN frames' = <<Entered(current, m), Frame(WalkOf("columns", m, "filter"))>>
       ELSE Continue(Entered(current, m))
  /\ UNCHANGED <<clause, todo, usages, subqueries>>

(* PARTITION BY and ORDER BY have no callback. *)
EnterOther(m) ==
  /\ Arrives(m) /\ Rule(m) \in WindowParts
  /\ Continue(Entered(current, m))
  /\ UNCHANGED <<clause, todo, usages, subqueries>>

Passed(m) == clause.last[m] < current.next

(* The walker leaves the innermost node after all that is below it. *)
Exit(m) ==
  /\ frames # << >>
  /\ m \in current.open /\ \A k \in current.open : k <= m
  /\ Passed(m)
  /\ LET left == [current EXCEPT !.open = @ \ {m}] IN
     Continue(IF Rule(m) = "select_with_parens" THEN LessDeep(left) ELSE left)
  /\ UNCHANGED <<clause, todo, usages, subqueries>>

(* The walk of a listener is over. *)
Ends(listener) ==
  /\ frames # << >>
  /\ current.walk.listener = listener
  /\ current.next > current.walk.last /\ current.open = {}

(* findAndRecordUsage: every column, with the role of the walk. *)
RecordUsage ==
  /\ Ends("columns") /\ Len(frames) = 1
  /\ usages' = usages \o [i \in DOMAIN current.found |->
                  Usage(current.found[i], current.walk.role, current.walk.first, << >>)]
  /\ frames' = Front(frames)
  /\ UNCHANGED <<clause, todo, subqueries>>

Take == Continue([current EXCEPT !.found = Tail(@)])

(* extractColumnsFromContext and the rest of EnterA_expr_..., one column   *)
(* at a time: a column of the predicate that has the name of an earlier    *)
(* one is passed over, every other is compared with the operator.          *)
RecordComparison ==
  /\ Ends("columns") /\ Len(frames) = 2
  /\ LET predicate == current.walk.first
         column    == Head(current.found)
         seen(u)   == u.context = predicate /\ Words(u.column) = Words(column)
         compared  == Usage(column, "filter", predicate,
                            OperatorOf(Rule(predicate), Words(predicate))) IN
     CASE current.found = << >> -> frames' = Front(frames)
       [] current.found # << >> /\ (\E i \in DOMAIN frames[1].found : seen(frames[1].found[i])) -> Take
       [] OTHER -> frames' = <<[frames[1] EXCEPT !.found = Append(@, compared)],
                               [current EXCEPT !.found = Tail(@)]>>
  /\ UNCHANGED <<clause, todo, usages, subqueries>>

(* findAndRecordComparisons, one comparison at a time: those that differ   *)
(* from the ones before. *)
RecordComparisons ==
  /\ Ends("comparisons")
  /\ IF current.found = << >>
       THEN frames' = Front(frames) /\ usages' = usages
       ELSE /\ Take
            /\ LET comparison == Head(current.found) IN
               usages' = IF \E i \in DOMAIN usages : ComparisonKey(usages[i]) = ComparisonKey(comparison)
                           THEN usages
                           ELSE Append(usages, comparison)
  /\ UNCHANGED <<clause, todo, subqueries>>

(* extractExpressionSubqueries *)
RecordSubqueries ==
  /\ Ends("subqueries")
  /\ subqueries' = subqueries \o current.found
  /\ frames' = Front(frames)
  /\ UNCHANGED <<clause, todo, usages>>

(* Mutant: ORDER BY looked at only when there is no PARTITION BY. *)
FirstPartOf(over) ==
  {m \in Nodes : Rule(m) \in WindowParts /\ Parent(clause.last, m) = over /\ m = over + 1}

PartsOf(over) == {m \in Nodes : Rule(m) \in WindowParts /\ Parent(clause.last, m) = over}

RoleOf(m) == IF Rule(m) = "partition_clause" THEN "window_partition" ELSE "window_order"

(* extractWindowFunctions: the columns of every OVER clause, part by part. *)
RecordWindows ==
  /\ Ends("windows")
  /\ LET walksOf(over) == LET parts == FromLeast(PartsOf(over)) IN
             [i \in DOMAIN parts |-> WalkOf("columns", parts[i], RoleOf(parts[i]))] IN
     todo' = FlattenSeq([i \in DOMAIN current.found |-> walksOf(current.found[i])]) \o todo
  /\ frames' = Front(frames)
  /\ UNCHANGED <<clause, usages, subqueries>>

Enter ==
  \E m \in Nodes :
    \/ EnterColumnref(m) \/ EnterSelect_with_parens(m) \/ EnterOver_clause(m)
    \/ EnterPredicate(m) \/ EnterOther(m)

Next ==
  \/ BeginWalk \/ Enter \/ (\E m \in Nodes : Exit(m))
  \/ RecordUsage \/ RecordComparison \/ RecordComparisons \/ RecordSubqueries \/ RecordWindows

Spec == Init /\ [][Next]_vars

-------------------------------------------------------------------------------
Done == todo = << >> /\ frames = << >>

(* The SELECTs in parentheses below node m, with the columns or queries in them. *)
Hidden(m, n) == \E k \in m..n - 1 : Rule(k) = "select_with_parens" /\ clause.last[k] >= n

(* The counter of a listener is the number of SELECTs in parentheses that  *)
(* enclose the node it is at, at any depth (helpers.go:30-49, 64-82).      *)
DepthCountsSubqueries ==
  \A i \in DOMAIN frames :
    Counts(frames[i].walk.listener) =>
      frames[i].subqueryDepth =
        Cardinality({k \in frames[i].open : Rule(k) = "select_with_parens"})

(* "outer scope usage collection ignores inner SELECT bodies"              *)
(* (helpers.go:37): no column recorded for an expression is in a SELECT    *)
(* in parentheses inside of the expression.                                *)
InnerSelectsIgnored ==
  \A i \in DOMAIN usages : ~Hidden(usages[i].context, usages[i].column)

(* The columns below a node that are outside of the SELECTs there. *)
ColumnsOf(m) == {c \in Below(m) : Rule(c) = "columnref" /\ ~Hidden(m, c)}

(* The columns of some of the usages, in the order in which they were recorded. *)
ColumnsAt(places) == [k \in DOMAIN FromLeast(places) |-> usages[FromLeast(places)[k]].column]

RoleOfClause == [target_list |-> "projection", group_clause |-> "group", order_clause |-> "order"]

(* Every column of the expressions of a list that is outside of inner      *)
(* SELECTs is recorded exactly once with the role of the list, in the      *)
(* order of the source (helpers.go:88-127).                                *)
ListColumns ==
  Done /\ clause.kind \in DOMAIN RoleOfClause =>
    ColumnsAt({i \in DOMAIN usages : usages[i].role = RoleOfClause[clause.kind]}) =
      FromLeast({c \in Nodes : Rule(c) = "columnref" /\ ~Hidden(1, c)})

(* The columns of PARTITION BY and of the ORDER BY of a window that is     *)
(* outside of inner SELECTs are recorded for each of the windows they are  *)
(* in, once (helpers.go:155-186).                                          *)
WindowColumns ==
  Done =>
    \A part \in {m \in Nodes : Rule(m) \in WindowParts /\ ~Hidden(1, m)} :
      ColumnsAt({i \in DOMAIN usages : usages[i].context = part /\ usages[i].role = RoleOf(part)}) =
        FromLeast(ColumnsOf(part))

(* No column is lost between the walks of a clause, and none is recorded   *)
(* for another role or twice (helpers.go:88-186).                          *)
EveryColumnInItsRole == ListColumns /\ WindowColumns

(* "keep inner ColumnUsage out of the outer query scope"                   *)
(* (parser_ir_select_test.go:61, helpers.go:37, 132-134): whatever the     *)
(* role, no column of a SELECT inside of the clause is recorded.           *)
InnerColumnsKeptOut == \A i \in DOMAIN usages : ~Hidden(1, usages[i].column)

(* "records only direct subqueries for the current expression scope"       *)
(* (helpers.go:61): the SELECTs in parentheses that are in no other, each  *)
(* once and in their order.                                                *)
DirectSubqueriesOnce ==
  Done /\ clause.kind \in {"target_list", "where_clause", "having_clause"} =>
    subqueries =
      FromLeast({m \in Nodes : Rule(m) = "select_with_parens" /\ ~Hidden(1, m)})

(* A condition yields one usage for every different column, operator and   *)
(* text of a comparison that is outside of inner SELECTs, and no other     *)
(* (helpers_comparison.go:410-446).                                        *)
EachComparisonOnce ==
  Done /\ clause.kind \in {"where_clause", "having_clause"} =>
    LET key(u)   == <<Words(u.column), u.operator, Text(u.context)>>
        isCompared(p, c) ==
          /\ Rule(p) \in Predicates /\ OperatorOf(Rule(p), Words(p)) # << >>
          /\ Rule(c) = "columnref" /\ c \in Below(p) /\ ~Hidden(1, c)
        compared ==
          {Usage(pc[2], "filter", pc[1], OperatorOf(Rule(pc[1]), Words(pc[1]))) :
             pc \in {pc \in Nodes \X Nodes : isCompared(pc[1], pc[2])}} IN
    /\ {key(usages[i]) : i \in DOMAIN usages} = {key(u) : u \in compared}
    /\ Cardinality({key(u) : u \in compared}) = Len(usages)

(* A negated predicate is recorded with a negated operator, and no other   *)
(* is, whichever rule of the grammar it is parsed by                       *)
(* (helpers_comparison.go:84-345).                                         *)
NegationKept ==
  \A i \in DOMAIN usages : usages[i].role = "filter" =>
    (Negated(usages[i].operator) <=> Negated(Words(usages[i].context)))

(* Every comparison is recorded once, with its own operator.               *)
ComparisonsOnce == EachComparisonOnce /\ NegationKept

=============================================================================
