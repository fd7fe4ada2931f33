------------------------------- MODULE Preprocess -------------------------------
(***************************************************************************)
(* preprocess.go: preprocessSQLInput trims the text and removes the        *)
(* trailing // comments the grammar does not know, before the lexer sees   *)
(* it.  One action per branch of the scanning loop of                      *)
(* stripDoubleSlashComment, one for the end of each line and one for the   *)
(* end of the text.                                                        *)
(***************************************************************************)
EXTENDS SqlText

CONSTANT Inputs     \* the texts to be preprocessed

ASSUME InputsAssumption == Inputs \subseteq Seq(Char)

VARIABLES
  text,      \* the caller's text
  pos,       \* the next character; a newline is the end of a line
  single, double, inDollar, dollarTag,   \* the quoteState
  kept,      \* the positions of the characters written so far
  done

quoteState == <<single, double, inDollar, dollarTag>>
vars == <<text, pos, single, double, inDollar, dollarTag, kept, done>>

-------------------------------------------------------------------------------
(* Helpers of the scanner.                                                 *)

IsDollarTagChar(c) == IsLetter(c) \/ c = "1"

(* parseDollarTag: the position of the `$` that closes the tag opened at p. *)
DollarTagEnds(p) ==
  {q \in p + 1..Len(text) : text[q] = "$" /\ \A r \in p + 1..q - 1 : IsDollarTagChar(text[r])}

(* Mutant: any `$` ends the string, whatever the tag. *)
AnyDollarTerminator(p) == IsAt(text, p, "$")

HasDollarTerminator(p) == Looks(text, p, Delimiter(dollarTag))

(* strings.TrimRightFunc(_, IsSpace) of a sequence of positions, as far as `space` goes. *)
TrimRight(ps, space) ==
  LET solid == {k \in DOMAIN ps : text[ps[k]] \notin space}
  IN IF solid = {} THEN << >> ELSE SubSeq(ps, 1, Max(solid))

(* The blanks at the end of the current line; a newline is not trimmed. *)
TrimLine(ps) == TrimRight(ps, {"blank"})

TrimSpace(ps) ==
  LET right == TrimRight(ps, {"blank", "newline"})
      solid == {k \in DOMAIN right : text[right[k]] \notin {"blank", "newline"}}
  IN IF solid = {} THEN << >> ELSE SubSeq(right, Min(solid), Len(right))

(* Mutant: one character too many. *)
WriteOneMore(last) == kept \o [k \in 1..last - pos + 2 |-> pos + k - 1]

Write(last) == kept \o [k \in 1..last - pos + 1 |-> pos + k - 1]

(* Inside a line, outside a dollar-quoted string. *)
Scanning(c) == ~done /\ IsAt(text, pos, c) /\ ~inDollar

-------------------------------------------------------------------------------
Init ==
  /\ text \in Inputs
  /\ pos = 1 /\ kept = << >> /\ done = FALSE
  /\ single = FALSE /\ double = FALSE /\ inDollar = FALSE /\ dollarTag = << >>

(* Characters of a dollar-quoted string up to its terminator. *)
CopyDollarQuoted ==
  /\ ~done /\ inDollar
  /\ pos <= Len(text) /\ text[pos] # "newline"
  /\ ~HasDollarTerminator(pos)
  /\ kept' = Write(pos) /\ pos' = pos + 1
  /\ UNCHANGED <<text, quoteState, done>>

(* Mutant: the index not moved past the terminator. *)
CloseDollarQuotedTwice ==
  /\ ~done /\ inDollar
  /\ IsAt(text, pos, "$") /\ HasDollarTerminator(pos)
  /\ kept' = Write(pos + Len(dollarTag) + 1)
  /\ pos' = pos + 1
  /\ inDollar' = FALSE /\ dollarTag' = << >>
  /\ UNCHANGED <<text, single, double, done>>

CloseDollarQuoted ==
  /\ ~done /\ inDollar
  /\ IsAt(text, pos, "$") /\ HasDollarTerminator(pos)
  /\ kept' = Write(pos + Len(dollarTag) + 1)
  /\ pos' = pos + Len(dollarTag) + 2
  /\ inDollar' = FALSE /\ dollarTag' = << >>
  /\ UNCHANGED <<text, single, double, done>>

(* Mutant: `$$` inside a string literal or a quoted identifier taken for a string's start. *)
OpenDollarQuotedAnywhere ==
  /\ Scanning("$")
  /\ DollarTagEnds(pos) # {}
  /\ LET q == Min(DollarTagEnds(pos)) IN
       /\ inDollar' = TRUE /\ dollarTag' = SubSeq(text, pos + 1, q - 1)
       /\ kept' = Write(q) /\ pos' = q + 1
  /\ UNCHANGED <<text, single, double, done>>

OpenDollarQuoted ==
  /\ Scanning("$")
  /\ ~single /\ ~double
  /\ DollarTagEnds(pos) # {}
  /\ LET q == Min(DollarTagEnds(pos)) IN
       /\ inDollar' = TRUE /\ dollarTag' = SubSeq(text, pos + 1, q - 1)
       /\ kept' = Write(q) /\ pos' = q + 1
  /\ UNCHANGED <<text, single, double, done>>

IsEscapedQuote == single /\ IsAt(text, pos + 1, "'")

CopyEscapedQuote ==
  /\ Scanning("'") /\ ~double /\ IsEscapedQuote
  /\ kept' = Write(pos + 1) /\ pos' = pos + 2
  /\ UNCHANGED <<text, quoteState, done>>

ToggleSingle ==
  /\ Scanning("'") /\ ~double /\ ~IsEscapedQuote
  /\ single' = ~single
  /\ kept' = Write(pos) /\ pos' = pos + 1
  /\ UNCHANGED <<text, double, inDollar, dollarTag, done>>

(* Mutant: a double quote inside a string literal taken for an identifier's. *)
ToggleDoubleAnywhere ==
  /\ Scanning("\"")
  /\ double' = ~double
  /\ kept' = Write(pos) /\ pos' = pos + 1
  /\ UNCHANGED <<text, single, inDollar, dollarTag, done>>

ToggleDouble ==
  /\ Scanning("\"") /\ ~single
  /\ double' = ~double
  /\ kept' = Write(pos) /\ pos' = pos + 1
  /\ UNCHANGED <<text, single, inDollar, dollarTag, done>>

(* Mutant: quoted identifiers not respected. *)
AtCommentNotInString ==
  Scanning("/") /\ ~single /\ IsAt(text, pos + 1, "/")

AtComment ==
  Scanning("/") /\ ~single /\ ~double /\ IsAt(text, pos + 1, "/")

(* Mutant: the newline removed with the comment. *)
SkipCommentLine ==
  /\ AtComment
  /\ pos' = LineEnd(text, pos) + 2
  /\ UNCHANGED <<text, quoteState, kept, done>>

(* The rest of the line is dropped. *)
SkipComment ==
  /\ AtComment
  /\ pos' = LineEnd(text, pos) + 1
  /\ UNCHANGED <<text, quoteState, kept, done>>

CopyPlain ==
  /\ ~done /\ ~inDollar
  /\ pos <= Len(text) /\ text[pos] # "newline"
  /\ text[pos] = "'" => double
  /\ text[pos] = "\"" => single
  /\ text[pos] = "$" => single \/ double \/ DollarTagEnds(pos) = {}
  /\ ~AtComment
  /\ kept' = Write(pos) /\ pos' = pos + 1
  /\ UNCHANGED <<text, quoteState, done>>

(* Mutant: the end of a line inside a dollar-quoted string not handled. *)
EndLineOutsideDollar ==
  /\ ~done /\ IsAt(text, pos, "newline") /\ ~inDollar
  /\ kept' = Append(TrimLine(kept), pos)
  /\ pos' = pos + 1
  /\ UNCHANGED <<text, quoteState, done>>

(* The line is trimmed on the right and joined to the next one. *)
EndLine ==
  /\ ~done /\ IsAt(text, pos, "newline")
  /\ kept' = Append(TrimLine(kept), pos)
  /\ pos' = pos + 1
  /\ UNCHANGED <<text, quoteState, done>>

(* The whole text is trimmed and returned. *)
Finish ==
  /\ ~done /\ pos > Len(text)
  /\ kept' = TrimSpace(TrimLine(kept))
  /\ done' = TRUE
  /\ UNCHANGED <<text, pos, quoteState>>

Next ==
  \/ CopyDollarQuoted \/ CloseDollarQuoted \/ OpenDollarQuoted
  \/ CopyEscapedQuote \/ ToggleSingle \/ ToggleDouble
  \/ SkipComment \/ CopyPlain \/ EndLine \/ Finish

(* A sequential function: it goes on until it returns. *)
Spec == Init /\ [][Next]_vars /\ WF_vars(Next)

-------------------------------------------------------------------------------
(* The texts on which the scanner can agree with the lexer: it takes the   *)
(* characters of a `--` comment, a `$` in an identifier and the `$1$` of   *)
(* `$1$2` for those of literals (preprocess.go:64-98, 120).                *)

NoLineComment(t) == PositionsOf(t, {"line comment"}) = {}

NoDollarInIdentifier(t) == \A p \in PositionsOf(t, {"identifier"}) : t[p] # "$"

NoParameterAsTag(t) ==
  \A p \in PositionsOf(t, {"other"}) : t[p] = "$" =>
    ~ \E q \in p + 1..Len(t) : t[q] = "$" /\ \A r \in p + 1..q - 1 : IsDollarTagChar(t[r])

Plain(t) == NoLineComment(t) /\ NoDollarInIdentifier(t) /\ NoParameterAsTag(t)

-------------------------------------------------------------------------------
(* Properties.                                                             *)

ScannerTypeOK ==
  /\ text \in Seq(Char)
  /\ pos \in 1..Len(text) + 1
  /\ single \in BOOLEAN /\ double \in BOOLEAN /\ done \in BOOLEAN
  /\ inDollar \in BOOLEAN /\ dollarTag \in Seq(Char)
  /\ kept \in Seq(1..Len(text))

(* The scanner is in at most one kind of literal, the whole text through.  *)
OneLiteralAtATime ==
  /\ ~(single /\ double)
  /\ inDollar => ~single /\ ~double
  /\ ~inDollar => dollarTag = << >>

(* No character is written twice or out of order, whatever is trimmed in   *)
(* between: the text is the caller's with characters left out.             *)
KeptInOrder == \A k, l \in DOMAIN kept : k < l => kept[k] < kept[l]

(* At every character the scanner believes to be inside the literal the    *)
(* lexer will be inside of: its flags agree with the token that has begun  *)
(* before this character and goes on (between the two quotes of a doubled  *)
(* double quote they may differ, but no comment begins there).             *)
ScannerFollowsLexer ==
  ~done /\ pos <= Len(text) /\ text[pos] # "\"" =>
    LET start  == TokenStart(text)[pos]
        within == start < pos
        kind   == Kind(text, start) IN
      /\ single <=> within /\ kind = "quoted" /\ text[start] = "'"
      /\ double <=> within /\ kind = "quoted" /\ text[start] = "\""
      /\ inDollar <=> within /\ kind = "dollar"

KeptPositions == {kept[k] : k \in DOMAIN kept}

(* From p to q there are only characters to drop and white space. *)
BlankBetween(dropped, p, q) == \A r \in p..q : r \in dropped \/ text[r] \in {"blank", "newline"}

(* Of the text without its // comments, what is neither a blank at the end *)
(* of a line nor white space around it all is kept, and outside of         *)
(* literals nothing else is.  Whether a literal keeps such blanks is left  *)
(* open: preprocess.go:19-21 says so, and preprocess.go:31 trims them.     *)
AllElseKept ==
  done =>
    LET dropped == PositionsOf(text, {"slash comment"})
        solid   == {p \in 1..Len(text) \ dropped :
                      /\ ~BlankBetween(dropped, 1, p) /\ ~BlankBetween(dropped, p, Len(text))
                      /\ text[p] = "blank" => ~BlankBetween(dropped, p, LineEnd(text, p))}
    IN /\ solid \subseteq KeptPositions
       /\ KeptPositions \subseteq solid \cup PositionsOf(text, {"quoted", "dollar"})

Answer == [k \in DOMAIN kept |-> text[kept[k]]]

(* Preprocessing the answer again would remove no comment from it: RawSQL  *)
(* can be handed back to the parser.                                       *)
AnswerIsClean == done => PositionsOf(Answer, {"slash comment"}) = {}

Newlines(p, q) == Cardinality({r \in p..q : text[r] = "newline"})

(* The characters that are left keep their lines: between any two of them  *)
(* there are as many newlines as in the caller's text, so a syntax error   *)
(* is reported a fixed number of lines off (by the lines trimmed in front). *)
LinesKept ==
  done => \A k, l \in DOMAIN kept :
    k < l => Newlines(kept[k], kept[l]) = Cardinality({m \in k..l : text[kept[m]] = "newline"})

(* Comments and blanks outside of literals go, all of them, and of all else *)
(* nothing but blanks at the ends of lines (preprocess.go:19).             *)
OnlyCommentsAndBlanksRemoved == AllElseKept /\ AnswerIsClean /\ LinesKept

(* Every text is answered.                                                 *)
Returns == <>done

===============================================================================
