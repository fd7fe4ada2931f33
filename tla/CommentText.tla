------------------------------ MODULE CommentText ------------------------------
(***************************************************************************)
(* ddl_comment.go and helpers.go: what COMMENT ON says of an object, out   *)
(* of the text of its string constant, and which object, out of the text   *)
(* of its name.  Texts are sequences of characters; "x", "n" and "t" stand *)
(* for those that are not special.                                         *)
(***************************************************************************)
EXTENDS Integers, SequencesExt, FiniteSetsExt

(* sconst, as the lexer reads it: a form, and units that each stand for one *)
(* character.  The escapes that the code does not know (\x41, \101, \u0041, *)
(* any other letter), a backslash in U&'', UESCAPE, and constants continued *)
(* on another line are left out: they are not decoded.                      *)
Forms == {"plain", "escape", "unicode", "dollar", "tagged"}

Unit(form) ==
  {"x", "n"}
  \cup (IF form \in {"plain", "escape", "unicode"} THEN {"doubled quote"} ELSE {"quote"})
  \cup (IF form = "escape" THEN {"escaped quote", "escaped backslash", "newline"} ELSE {})
  \cup (IF form \in {"plain", "dollar", "tagged"} THEN {"backslash"} ELSE {})
  \cup (IF form = "tagged" THEN {"dollar"} ELSE {})

Literals(n) == UNION {[form : {form}, units : SeqOf(Unit(form), n)] : form \in Forms}

Null == [form |-> "null", units |-> << >>]

Spelling(unit) ==
  CASE unit \in {"x", "n"}          -> <<unit>>
    [] unit = "quote"               -> <<"'">>
    [] unit = "doubled quote"       -> <<"'", "'">>
    [] unit = "escaped quote"       -> <<"\\", "'">>
    [] unit = "escaped backslash"   -> <<"\\", "\\">>
    [] unit = "newline"             -> <<"\\", "n">>
    [] unit = "backslash"           -> <<"\\">>
    [] unit = "dollar"              -> <<"$">>

Opening(form) ==
  CASE form = "plain" -> <<"'">> [] form = "escape" -> <<"E", "'">> [] form = "unicode" -> <<"U", "&", "'">>
    [] form = "dollar" -> <<"$", "$">> [] form = "tagged" -> <<"$", "t", "$">>

Closing(form) == IF form \in {"dollar", "tagged"} THEN Opening(form) ELSE <<"'">>

LiteralText(l) ==
  IF l = Null THEN <<"NULL">>
  ELSE Opening(l.form) \o FlattenSeq([i \in DOMAIN l.units |-> Spelling(l.units[i])]) \o Closing(l.form)

(* What a literal means to PostgreSQL; COMMENT ... IS NULL leaves none. *)
Meaning(l) ==
  [i \in DOMAIN l.units |->
     CASE l.units[i] \in {"quote", "doubled quote", "escaped quote"} -> "'"
       [] l.units[i] \in {"backslash", "escaped backslash"} -> "\\"
       [] l.units[i] = "newline" -> "\n"
       [] l.units[i] = "dollar" -> "$"
       [] OTHER -> l.units[i]]

--------------------------------------------------------------------------------
(* strings.ReplaceAll and strings.Replacer, where what is replaced are      *)
(* pairs of characters: from left to right, none of them twice.             *)
Replace(text, pairs) ==
  LET from[i \in 1..Len(text) + 2] ==
        IF i > Len(text) THEN << >>
        ELSE IF i < Len(text) /\ SubSeq(text, i, i + 1) \in DOMAIN pairs THEN <<pairs[SubSeq(text, i, i + 1)]>> \o from[i + 2]
        ELSE <<text[i]>> \o from[i + 1]
  IN from[1]

Doubled == [pair \in {<<"'", "'">>} |-> "'"]

(* escapedStringReplacer; the other control characters are like newline. *)
Escapes == [pair \in {"\\"} \X {"\\", "'", "n"} |-> IF pair[2] = "n" THEN "\n" ELSE pair[2]]

IsSingleQuoted(text) == Len(text) >= 2 /\ text[1] = "'" /\ Last(text) = "'"

Inner(text, n) == SubSeq(text, n + 1, Len(text) - n)

DecodeSingleQuoted(text) == Replace(Inner(text, 1), Doubled)

(* The delimiter: up to the second dollar. *)
Delimiter(text) == SubSeq(text, 1, Min({i \in 2..Len(text) : text[i] = "$"}))

(* Mutant: escapes taken for plain quotes before they are decoded. *)
DecodeEscapedFirst(text) == Replace(Replace(Inner(Tail(text), 1), Escapes), Doubled)

(* E'': doubled quotes first, then escapes. *)
DecodeEscaped(text) == Replace(DecodeSingleQuoted(Tail(text)), Escapes)

(* decodeCommentText and decodeCommentStringLiteral. *)
DecodeCommentText(text) ==
  CASE text = <<"NULL">> -> << >>
    [] text[1] = "$" /\ Len(text) >= 2 * Len(Delimiter(text)) /\ IsSuffix(Delimiter(text), text) ->
         Inner(text, Len(Delimiter(text)))
    [] IsPrefix(<<"E", "'">>, text) /\ IsSingleQuoted(Tail(text)) -> DecodeEscaped(text)
    [] IsPrefix(<<"U", "&", "'">>, text) /\ IsSingleQuoted(Tail(Tail(text))) -> DecodeSingleQuoted(Tail(Tail(text)))
    [] IsSingleQuoted(text) -> DecodeSingleQuoted(text)
    [] OTHER -> text

--------------------------------------------------------------------------------
(* identifier: quotes come in pairs, and dots stand between two of a pair. *)
IsIdentifier(text) ==
  text # << >> /\ \E inQuotes \in [0..Len(text) -> BOOLEAN] :
    /\ ~inQuotes[0] /\ ~inQuotes[Len(text)]
    /\ \A i \in 1..Len(text) :
         /\ inQuotes[i] = IF text[i] = "\"" THEN ~inQuotes[i - 1] ELSE inQuotes[i - 1]
         /\ text[i] = "." => inQuotes[i - 1]

(* any_name: identifiers, some of them quoted, with dots between. *)
NameText(parts) == FlattenSeq([i \in DOMAIN parts |-> IF i = 1 THEN parts[i] ELSE <<".">> \o parts[i]])

(* Mutant: split at dots in quotes as well. *)
ReadEveryDot(s, ch) ==
  IF ch = "." THEN [s EXCEPT !.parts = Append(@, s.part), !.part = << >>]
  ELSE [s EXCEPT !.part = Append(@, ch)]

(* One iteration of splitQuotedDot. *)
ReadName(s, ch) ==
  IF ch = "." /\ ~s.inQuote THEN [s EXCEPT !.parts = Append(@, s.part), !.part = << >>]
  ELSE [s EXCEPT !.part = Append(@, ch), !.inQuote = IF ch = "\"" THEN ~@ ELSE @]

SplitQuotedDot(text) ==
  LET read[i \in 0..Len(text)] ==
        IF i = 0 THEN [parts |-> << >>, part |-> << >>, inQuote |-> FALSE] ELSE ReadName(read[i - 1], text[i])
  IN Append(read[Len(text)].parts, read[Len(text)].part)

(* splitQualifiedName: all but the last part is the schema. *)
SplitQualifiedName(text) ==
  LET parts == SplitQuotedDot(text) IN [schema |-> NameText(Front(parts)), name |-> Last(parts)]

(* splitQualifiedColumnName: the last part is the column, << >> stands for *)
(* no table.                                                               *)
SplitQualifiedColumnName(text) ==
  LET parts == SplitQuotedDot(text) IN
  [ column |-> Last(parts),
    table  |-> IF Len(parts) = 1 THEN << >> ELSE Last(Front(parts)),
    schema |-> IF Len(parts) < 3 THEN << >> ELSE NameText(Front(Front(parts))) ]

================================================================================
