----------------------------- MODULE ReturningList -----------------------------
(***************************************************************************)
(* analysis.go normalizeReturning and splitCommasRespectingParens: the     *)
(* text of a RETURNING clause, cut into its items.  Texts are sequences of *)
(* characters, but the keyword is one; "c" is any that is not special.     *)
(***************************************************************************)
EXTENDS Texts

(* ctxText of returning_clause: as written, a blank of some kind after the  *)
(* keyword and a space after each comma.                                    *)
ReturningText(blank, items) ==
  IF items = << >> THEN << >>
  ELSE <<"RETURNING", blank>> \o Joined(items, <<",", " ">>)

(* Mutant: parentheses in literals counted. *)
ReadQuotedParens(s, ch) ==
  CASE ch = "'" -> [s EXCEPT !.part = Append(@, ch), !.inQuote = ~@]
    [] ch = "(" -> [s EXCEPT !.part = Append(@, ch), !.depth = @ + 1]
    [] ch = ")" -> [s EXCEPT !.part = Append(@, ch), !.depth = Max({0, @ - 1})]
    [] ch = "," /\ ~s.inQuote /\ s.depth = 0 -> [s EXCEPT !.parts = Append(@, s.part), !.part = << >>]
    [] OTHER -> [s EXCEPT !.part = Append(@, ch)]

(* One iteration of splitCommasRespectingParens. *)
Read(s, ch) ==
  CASE ch = "'" -> [s EXCEPT !.part = Append(@, ch), !.inQuote = ~@]
    [] ch = "(" /\ ~s.inQuote -> [s EXCEPT !.part = Append(@, ch), !.depth = @ + 1]
    [] ch = ")" /\ ~s.inQuote -> [s EXCEPT !.part = Append(@, ch), !.depth = Max({0, @ - 1})]
    [] ch = "," /\ ~s.inQuote /\ s.depth = 0 -> [s EXCEPT !.parts = Append(@, s.part), !.part = << >>]
    [] OTHER -> [s EXCEPT !.part = Append(@, ch)]

SplitCommas(text) ==
  LET end == FoldLeft(Read, [parts |-> << >>, part |-> << >>, depth |-> 0, inQuote |-> FALSE], text)
  IN Append(end.parts, end.part)

(* The keyword is taken off where a space follows it. *)
WithoutKeyword(text) ==
  IF Len(text) > 1 /\ text[1] = "RETURNING" /\ text[2] = " " THEN TrimSpace(Tail(text)) ELSE text

NormalizeReturning(text) ==
  LET parts == SplitCommas(WithoutKeyword(TrimSpace(text))) IN
  SelectSeq([i \in DOMAIN parts |-> TrimSpace(parts[i])], LAMBDA p : p # << >>)

================================================================================
