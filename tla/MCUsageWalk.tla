----------------------------- MODULE MCUsageWalk -----------------------------
(* Model values for UsageWalk. *)
EXTENDS UsageWalk

L(rule, words) == [rule |-> rule, words |-> words]

Inner == L("select_with_parens", << >>)
X     == L("columnref", <<"", "x">>)
TX    == L("columnref", <<"t", "x">>)

Windows == {L(rule, << >>) : rule \in {"over_clause"} \cup WindowParts}

(* The operators the listeners tell apart. *)
Operators ==
  {L("a_expr_compare", w) : w \in {<<"=">>, <<"<>">>, <<"ANY">>}} \cup
  {L("a_expr_like", w) :
     w \in {<<"LIKE">>, <<"NOT", "LIKE">>, <<"ILIKE">>, <<"NOT", "SIMILAR", "TO">>}} \cup
  {L("a_expr_in", w) : w \in {<<"IN">>, <<"NOT", "IN">>}} \cup
  {L("a_expr_between", w) : w \in {<<"BETWEEN">>, <<"NOT", "BETWEEN">>}} \cup
  {L("a_expr_isnull", w) : w \in {<<"IS", "NULL">>, <<"ISNULL">>, <<"NOTNULL">>}} \cup
  {L("a_expr_is_not", w) : w \in {<<"IS", "NOT", "NULL">>, <<"IS", "NOT", "DISTINCT">>}} \cup
  {L("a_expr_qual_op", <<"@>">>)}

Input(kind, maxNodes, labels) == [kind |-> kind, maxNodes |-> maxNodes, labels |-> labels]

(* The select list, GROUP BY, ORDER BY and WHERE with the labels that make *)
(* scopes and duplicates, and HAVING with each operator in turn.           *)
MCInputs ==
  {Input("target_list", 5, {X, Inner} \cup Windows),
   Input("group_clause", 5, {X, Inner}), Input("order_clause", 4, {X, Inner}),
   Input("where_clause", 5, {X, Inner, L("a_expr_compare", <<"=">>)}),
   Input("where_clause", 4, {X, TX, Inner, L("a_expr_compare", <<"=">>)})} \cup
  {Input("having_clause", 4, {X, Inner, operator}) : operator \in Operators}
==============================================================================
