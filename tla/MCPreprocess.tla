----------------------------- MODULE MCPreprocess -----------------------------
(* Texts for Preprocess: concatenations of a few pieces of SQL. *)
EXTENDS Preprocess, SequencesExt

Concatenations(pieces, n) == {FlattenSeq(ps) : ps \in UNION {[1..m -> pieces] : m \in 0..n}}

(* Literals of every kind, comments and white space, and with them parameters and `--`, *)
(* in every order in which the scanner can agree with the lexer.                        *)
Pieces ==
  {<<"'">>, <<"'", "'">>, <<"\"">>, <<"\"", "\"">>, <<"$", "$">>, <<"$", "x", "$">>, <<"/", "/">>,
   <<"newline">>, <<"blank">>, <<"x">>}

MorePieces == Pieces \cup {<<"$", "1">>, <<"-", "-">>}

PlainTexts == {t \in Concatenations(Pieces, 4) \cup Concatenations(MorePieces, 3) : Plain(t)}
===============================================================================
