---------------------------- MODULE MCQueryAnalysis ----------------------------
(* Model values for QueryAnalysis. *)
EXTENDS QueryAnalysis

T(name, alias, type) == [name |-> name, alias |-> alias, type |-> type]
Ref(alias, column) == [alias |-> alias, column |-> column]

(* Two tables; a derived table that reads another with the same alias; one  *)
(* that reads a table with the alias of an outer one; one table; a CTE and  *)
(* a table.                                                                 *)
Lists ==
  { <<T("orders", "o", "base"), T("customers", "c", "base")>>,
    <<T("orders", "o", "base"), T("c", "c", "subquery"), T("customers", "c", "base")>>,
    <<T("orders", "o", "base"), T("customers", "c", "base"), T("d", "d", "subquery"), T("orders", "c", "base")>>,
    <<T("orders", "o", "base")>>,
    <<T("late", "o", "cte"), T("customers", "c", "base")>> }

(* Conditions of two columns, with = or another operator between them, and  *)
(* with a literal, with a third column, or alone; USING with one column and *)
(* with two.                                                                *)
C(kind, refs, equals) == [kind |-> kind, refs |-> refs, equals |-> equals]

Joins ==
  {C("on", <<Ref(a, x), Ref(b, y)>>, e) : a \in {"o", "c"}, b \in {"o", "c"}, x \in {"id"}, y \in {"id", "cid"}, e \in {{}, {1}}}
  \cup { C("on", <<Ref("o", "cid"), Ref("o", "id"), Ref("c", "id")>>, {2}),
         C("on", <<Ref("", "cid"), Ref("c", "id")>>, {1}),
         C("on", <<Ref("c", "id")>>, {}),
         C("unsearched", <<Ref("o", "cid"), Ref("c", "id")>>, {1}),
         C("using", <<Ref("o", "cid"), Ref("c", "cid")>>, {1}),
         C("using", <<Ref("o", "id"), Ref("c", "id")>>, {1}),
         C("using", <<Ref("c", "id"), Ref("x", "id")>>, {1}),
         C("using", <<Ref("o", "cid"), Ref("c", "cid"), Ref("o", "id"), Ref("c", "id")>>, {1, 3}) }

Keys == {<<"orders", "id">>, <<"customers", "id">>}

(* Filters with and without alias and operator, one after another. *)
F(alias, operator) == [alias |-> alias, operator |-> operator, column |-> <<"c">>, blank |-> " ", values |-> << <<"1">> >>]

Sequences == {<<F("o", <<"=">>), F("", <<"=">>), F("c", <<"->>">>), F("o", << >>), F("c", <<"=">>)>>}

(* Names of columns with and without a keyword in them and as a part of     *)
(* them; a number, a parameter, a column, and literals with what may stand  *)
(* outside of them.                                                         *)
Columns == {<<"c">>, <<"c", "IN", "c">>, <<"LIKE", "c">>, <<"c", ".", "c">>, <<"c", ".", "IN">>}

Values ==
  { <<"1">>, <<"$", "1">>, <<"c">>, <<"'", "'">>, <<"'", "c", " ", "c", "'">>, <<"'", "c", ",", "c", "'">>,
    <<"'", "c", " ", "AND", " ", "c", "'">>, <<"'", "c", "'", "'", "c", "'">>, <<"'", "c", "'", "'", "'">>,
    <<"'", "=", "c", "IN", "'">>, <<"'", " ", "c", "'">> }

Comparisons(operators, blanks, values) ==
  [alias : {"o"}, operator : operators, column : Columns, blank : blanks, values : values]

FilterLists ==
  Sequences \cup {<<f>> : f \in
    Comparisons({<<"=">>, <<"<>">>, <<"LIKE">>}, {" "}, [1..1 -> Values])
    \cup Comparisons({<<"NOT", "LIKE">>}, Blanks, [1..1 -> Values])
    \cup Comparisons({<<"BETWEEN">>}, {" "}, [1..2 -> Values]) \cup Comparisons({<<"NOT", "BETWEEN">>}, Blanks, [1..2 -> Values])
    \cup Comparisons({<<"IN">>}, {" "}, UNION {[1..n -> Values] : n \in 1..2})
    \cup Comparisons({<<"NOT", "IN">>}, Blanks, UNION {[1..n -> Values] : n \in 1..2})
    \cup Comparisons({<<"IS">>}, {" "}, {<< <<"NULL">> >>}) \cup Comparisons({<<"IS", "NOT", "NULL">>}, Blanks, {<< >>})}
================================================================================
