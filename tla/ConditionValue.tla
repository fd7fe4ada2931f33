---------------------------- MODULE ConditionValue ----------------------------
(***************************************************************************)
(* where_conditions.go extractValueFromContext: the value of a condition,  *)
(* found in the text of the comparison.  "c" is any letter, other words    *)
(* are one character; a word in a longer one is next to a "c".             *)
(***************************************************************************)
EXTENDS Texts, Ordering

(* What the listeners of helpers_comparison.go record of a comparison: its  *)
(* operator, the words of it with one space between, where the text has what *)
(* is written.                                                              *)
Spaced(operator, blank) == Joined([i \in DOMAIN operator |-> <<operator[i]>>], <<blank>>)

Comma == ","

RightSide(f) ==
  CASE Contains(f.operator, "IN")      -> <<"(">> \o Joined(f.values, <<Comma, Space>>) \o <<")">>
    [] Contains(f.operator, "BETWEEN") -> Joined(f.values, <<Space, "AND", Space>>)
    [] OTHER                           -> Joined(f.values, <<Space>>)

(* ctxText of the comparison. *)
ContextText(f) == f.column \o <<Space>> \o Spaced(f.operator, f.blank) \o <<Space>> \o RightSide(f)

InWord == {"c", "1", "AND", "BETWEEN", "IN", "IS", "LIKE", "NOT", "NULL"}

Quotes == {"'", "\""}

IsQuoted(text) == text # << >> /\ text[1] \in Quotes /\ Last(text) = text[1]

Symbols == {"=", "<>", "<", ">", "<=", ">="}

(* A comparison as the loops get it: of a column, the name of which may be  *)
(* qualified, with literals, parameters, numbers and columns, as many as    *)
(* its operator has.                                                        *)
IsName(text) == text \in Seq(STRING) /\ text # << >> /\ Range(text) \cap (Blanks \cup Symbols) = {}

IsOperand(text) ==
  /\ text \in Seq(STRING) /\ text # << >>
  /\ IF IsQuoted(text) THEN Len(text) >= 2 ELSE Range(text) \cap (Blanks \cup Quotes) = {}

IsComparison(f) ==
  /\ f.operator \in {<<s>> : s \in Symbols \cup {"LIKE", "BETWEEN", "IN"}} \cup {"NOT"} \X {"LIKE", "BETWEEN", "IN"}
  /\ f.blank \in Blanks /\ IsName(f.column)
  /\ DOMAIN f.values = 1..Len(f.values) /\ \A k \in DOMAIN f.values : IsOperand(f.values[k])
  /\ Len(f.values) \in CASE Contains(f.operator, "BETWEEN") -> {2}
                          [] Contains(f.operator, "IN")      -> Nat \ {0}
                          [] OTHER                           -> {1}

--------------------------------------------------------------------------------
(* Where a text has another; a keyword only where no word goes on. *)
Occurrences(text, sought) ==
  {i \in 1..Len(text) - Len(sought) + 1 : SubSeq(text, i, i + Len(sought) - 1) = sought}

(* Mutant: the keyword found in longer words as well. *)
KeywordAnywhere(text, keyword) == Occurrences(text, <<keyword>>)

KeywordOccurrences(text, keyword) ==
  {i \in Occurrences(text, <<keyword>>) : {text[k] : k \in {i - 1, i + 1} \cap DOMAIN text} \cap InWord = {}}

After(text, found, length) ==
  IF found = {} THEN << >> ELSE TrimSpace(SubSeq(text, Min(found) + length, Len(text)))

ValuePart(text, operator) ==
  IF operator \in {<<"IN">>, <<"BETWEEN">>} THEN After(text, KeywordOccurrences(text, operator[1]), 1)
  ELSE After(text, Occurrences(text, Spaced(operator, Space)), Len(Spaced(operator, Space)))

(* The parts of a text between the commas in it. *)
SplitAtCommas(text) ==
  LET commas == FromLeast({0, Len(text) + 1} \cup {i \in DOMAIN text : text[i] = Comma}) IN
  [k \in 1..Len(commas) - 1 |-> SubSeq(text, commas[k] + 1, commas[k + 1] - 1)]

ExtractInValues(text) ==
  LET opened == IF IsPrefix(<<"(">>, text) THEN Tail(text) ELSE text
      inner  == IF IsSuffix(<<")">>, opened) THEN Front(opened) ELSE opened
      parts  == SplitAtCommas(inner)
      items  == FromLeast({k \in DOMAIN parts : TrimSpace(parts[k]) # << >>})
  IN [k \in DOMAIN items |-> Trim(TrimSpace(parts[items[k]]), Quotes)]

Ands(text) == {i \in Occurrences(text, <<"AND">>) : i > 1 /\ i < Len(text) /\ {text[i - 1], text[i + 1]} \subseteq Blanks}

(* A bound without its quotes, and then without the blanks inside of them. *)
Bound(part) == TrimSpace(Trim(TrimSpace(part), Quotes))

(* Mutant: split at the last AND. *)
SplitAtLastAnd(text) ==
  IF Ands(text) = {} THEN << >>
  ELSE LET at == Max(Ands(text)) IN <<Bound(SubSeq(text, 1, at - 2)), Bound(SubSeq(text, at + 2, Len(text)))>>

(* The lower and the upper bound. *)
ExtractBetweenValues(text) ==
  IF Ands(text) = {} THEN << >>
  ELSE LET at == Min(Ands(text)) IN <<Bound(SubSeq(text, 1, at - 2)), Bound(SubSeq(text, at + 2, Len(text)))>>

None == [values |-> << >>, isParameter |-> FALSE]
Literal(text) == [values |-> <<text>>, isParameter |-> FALSE]
Literals(texts) == [values |-> texts, isParameter |-> FALSE]

IsParameter(text) == text = <<"$", "1">>

ExtractValue(text, operator) ==
  LET value == ValuePart(text, operator) IN
  IF operator = <<"IS">> \/ Contains(operator, "NULL") \/ value = << >> THEN None
  ELSE IF IsParameter(value) THEN [values |-> <<value>>, isParameter |-> TRUE]
  ELSE IF operator = <<"IN">> /\ ExtractInValues(value) # << >> THEN Literals(ExtractInValues(value))
  ELSE IF operator = <<"BETWEEN">> /\ Len(ExtractBetweenValues(value)) = 2 THEN Literals(ExtractBetweenValues(value))
  ELSE IF Contains(operator, "LIKE") THEN Literal(Trim(value, Quotes))
  ELSE IF IsQuoted(value) THEN Literal(Trim(value, {value[1]}))
  ELSE Literal(value)

--------------------------------------------------------------------------------
(* What is written, values in quotes without them. *)
Unquoted(value) == IF IsQuoted(value) THEN SubSeq(value, 2, Len(value) - 1) ELSE value

Written(f) ==
  CASE f.operator = <<"IS">> \/ Contains(f.operator, "NULL") -> None
    [] f.operator \in {<<"NOT", "IN">>, <<"NOT", "BETWEEN">>} -> Literal(RightSide(f))
    [] OTHER -> [values      |-> [k \in DOMAIN f.values |-> Unquoted(f.values[k])],
                 isParameter |-> Len(f.values) = 1 /\ f.operator # <<"IN">> /\ IsParameter(f.values[1])]

(* Where the text is not enough: a line break in the operator, LIKE in the  *)
(* name of the column, or as a part of it the keyword, a comma in an item   *)
(* of IN, AND in a lower bound, two quotes at an end of a literal, and      *)
(* literals as both bounds of a NOT BETWEEN.                                *)
Misread(f) ==
  \/ Len(f.operator) = 2 /\ f.blank # Space
  \/ f.operator = <<"LIKE">> /\ Contains(f.column, "LIKE")
  \/ f.operator \in {<<"IN">>, <<"BETWEEN">>} /\ KeywordOccurrences(f.column, f.operator[1]) # {}
  \/ f.operator = <<"IN">> /\ \E k \in DOMAIN f.values : Contains(f.values[k], Comma)
  \/ f.operator = <<"BETWEEN">> /\ Ands(f.values[1]) # {}
  \/ \E k \in DOMAIN f.values : Unquoted(f.values[k]) # Trim(f.values[k], Quotes)
  \/ f.operator = <<"NOT", "BETWEEN">> /\ IsQuoted(RightSide(f))

(* Where a bound of BETWEEN is a literal with blanks at its ends. *)
LosesBlanks(f) ==
  f.operator = <<"BETWEEN">> /\ \E k \in DOMAIN f.values : TrimSpace(Unquoted(f.values[k])) # Unquoted(f.values[k])

================================================================================
