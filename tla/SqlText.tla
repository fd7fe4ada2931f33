-------------------------------- MODULE SqlText --------------------------------
(***************************************************************************)
(* SQL text as the lexer grammar (grammar/PostgreSQLLexer.g4) sees it, cut *)
(* down to the characters that open, close or hide a literal.  A text is a *)
(* sequence of characters; a token is given by its first position.  It is  *)
(* the reference preprocess.go is compared with.                           *)
(***************************************************************************)
EXTENDS Naturals, Sequences, FiniteSetsExt

Char == {"'", "\"", "$", "/", "-", "x", "1", "blank", "newline"}

IsAt(text, p, c) == p <= Len(text) /\ text[p] = c

Looks(text, p, word) ==
  p + Len(word) - 1 <= Len(text) /\ SubSeq(text, p, p + Len(word) - 1) = word

IsLetter(c) == c = "x"

QuoteMarks == {"'", "\""}

Delimiter(tag) == <<"$">> \o tag \o <<"$">>

(* Where the `$` that ends an opening `$tag$` may be. *)
TagEnds(text, p) ==
  {q \in p + 1..Len(text) :
     /\ text[p] = "$" /\ text[q] = "$"
     /\ \A r \in p + 1..q - 1 : IsLetter(text[r]) \/ text[r] = "1"
     /\ q > p + 1 => IsLetter(text[p + 1])}

FirstOf(S, otherwise) == IF S = {} THEN otherwise ELSE Min(S)

(* `'` ... `'` and `"` ... `"`: a doubled quote does not close. *)
QuotedEnds(text, p) ==
  {q \in p + 1..Len(text) :
     /\ text[q] = text[p] /\ ~IsAt(text, q + 1, text[p])
     /\ Cardinality({r \in p + 1..q : text[r] = text[p]}) % 2 = 1}

DollarEnds(text, p) ==
  LET open == Min(TagEnds(text, p))
      tag  == SubSeq(text, p + 1, open - 1)
  IN {q \in open + 1..Len(text) :
        q - Len(tag) - 1 > open /\ Looks(text, q - Len(tag) - 1, Delimiter(tag))}

LineEnd(text, p) == FirstOf({q \in p..Len(text) : text[q] = "newline"}, Len(text) + 1) - 1

IdentifierEnd(text, p) ==
  FirstOf({q \in p..Len(text) : ~IsLetter(text[q]) /\ text[q] \notin {"1", "$"}}, Len(text) + 1) - 1

(* A `//` comment is no SQL: it is the metadata preprocess.go is to remove. *)
Kind(text, p) ==
  CASE text[p] \in QuoteMarks         -> "quoted"
    [] TagEnds(text, p) # {}          -> "dollar"
    [] Looks(text, p, <<"-", "-">>)   -> "line comment"
    [] Looks(text, p, <<"/", "/">>)   -> "slash comment"
    [] IsLetter(text[p])              -> "identifier"
    [] OTHER                          -> "other"

(* Where the literal that begins at p may end. *)
LiteralEnds(text, p) == IF Kind(text, p) = "quoted" THEN QuotedEnds(text, p) ELSE DollarEnds(text, p)

(* A literal without an end goes on to the end of the text. *)
TokenEnd(text, p) ==
  LET kind == Kind(text, p) IN
    CASE kind \in {"quoted", "dollar"}               -> FirstOf(LiteralEnds(text, p), Len(text))
      [] kind \in {"line comment", "slash comment"} -> LineEnd(text, p)
      [] kind = "identifier"                        -> IdentifierEnd(text, p)
      [] OTHER                                      -> p

(* The first position of the token each position belongs to. *)
TokenStart(text) ==
  LET start[p \in 1..Len(text)] ==
        IF p = 1 THEN 1
        ELSE LET before == start[p - 1] IN IF TokenEnd(text, before) >= p THEN before ELSE p
  IN start

(* The positions that belong to tokens of a kind. *)
PositionsOf(text, kinds) ==
  LET start == TokenStart(text) IN {p \in 1..Len(text) : Kind(text, start[p]) \in kinds}
===============================================================================
