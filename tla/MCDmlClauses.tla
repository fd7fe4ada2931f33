------------------------------ MODULE MCDmlClauses ------------------------------
(* Model values for DmlClauses: a table, and a CTE, as the names; a column, *)
(* calls, and literals with what is special outside of them.                *)
EXTENDS DmlClauses

TwoNames == {"t", "c"}

SomeExpressions ==
  { <<"c">>, <<"c", "(", "c", ",", "c", ")">>, <<"c", "(", "(", "c", ",", "c", ")", ",", "c", ")">>,
    <<"'", ",", "'">>, <<"'", "(", "'">>, <<"'", ")", "'">>, <<"'", "'", "'", ",", "'">>,
    <<"c", "(", "'", ")", "'", ",", "c", ")">> }
=================================================================================
