--------------------------- MODULE PreprocessProofs ---------------------------
(***************************************************************************)
(* Proofs about Preprocess.  For every set of texts: the scanner's flags   *)
(* exclude each other, and what it writes are characters of the text, in   *)
(* order and each at most once.  For every set of plain texts: the flags   *)
(* are those of the literal the lexer is in, and what is removed are the   *)
(* comments and the blanks around lines and text, leaving no comment.      *)
(***************************************************************************)
EXTENDS Preprocess, LeastElement, SequenceTheorems

(* quoteState never says two things at once (preprocess.go:63-98). *)
THEOREM FlagsExclusive == Spec => []OneLiteralAtATime
<1>1. Init => OneLiteralAtATime
  BY DEF Init, OneLiteralAtATime
<1>2. OneLiteralAtATime /\ [Next]_vars => OneLiteralAtATime'
  <2> SUFFICES ASSUME OneLiteralAtATime, [Next]_vars PROVE OneLiteralAtATime'
    OBVIOUS
  <2>1. CASE CopyDollarQuoted \/ CopyEscapedQuote \/ SkipComment \/ CopyPlain \/ EndLine \/ Finish
    <3>1. UNCHANGED quoteState
      BY <2>1 DEF CopyDollarQuoted, CopyEscapedQuote, SkipComment, CopyPlain, EndLine, Finish
    <3> QED BY <3>1 DEF quoteState, OneLiteralAtATime
  <2>2. CASE CloseDollarQuoted
    BY <2>2 DEF CloseDollarQuoted, OneLiteralAtATime
  <2>3. CASE OpenDollarQuoted
    BY <2>3 DEF OpenDollarQuoted, OneLiteralAtATime
  <2>4. CASE ToggleSingle
    BY <2>4 DEF ToggleSingle, Scanning, OneLiteralAtATime
  <2>5. CASE ToggleDouble
    BY <2>5 DEF ToggleDouble, Scanning, OneLiteralAtATime
  <2>6. CASE UNCHANGED vars
    BY <2>6 DEF vars, OneLiteralAtATime
  <2> QED BY <2>1, <2>2, <2>3, <2>4, <2>5, <2>6 DEF Next
<1> QED BY <1>1, <1>2, PTL DEF Spec

-------------------------------------------------------------------------------
(* Positions in order, each of 1..n and before b. *)
Ascending(ps, n, b) ==
  /\ ps \in Seq(1..n)
  /\ \A k \in DOMAIN ps : ps[k] < b
  /\ \A k, l \in DOMAIN ps : k < l => ps[k] < ps[l]

(* What Write adds: the positions from p to q. *)
LEMMA RunAscending ==
  ASSUME NEW n \in Nat, NEW p \in 1..n, NEW q \in p..n, NEW ps, Ascending(ps, n, p)
  PROVE  Ascending(ps \o [k \in 1..q - p + 1 |-> p + k - 1], n, q + 1)
<1> DEFINE run == [k \in 1..q - p + 1 |-> p + k - 1]
           all == ps \o run
<1>1. ps \in Seq(1..n) /\ run \in Seq(1..n) /\ Len(run) = q - p + 1
  <2>1. q - p + 1 \in Nat /\ \A k \in 1..q - p + 1 : p + k - 1 \in 1..n
    OBVIOUS
  <2> QED BY <2>1 DEF Ascending
<1>2. \A k \in 1..Len(run) : run[k] = p + k - 1
  BY <1>1
<1> HIDE DEF run
<1>3. Len(ps) \in Nat /\ \A k \in 1..Len(ps) : ps[k] \in 1..n /\ ps[k] < p
  BY <1>1, LenProperties, ElementOfSeq DEF Ascending
<1>4. \A k, l \in 1..Len(ps) : k < l => ps[k] < ps[l]
  BY <1>1, LenProperties DEF Ascending
<1>5. /\ all \in Seq(1..n) /\ Len(all) = Len(ps) + Len(run)
      /\ \A k \in 1..Len(ps) + Len(run) : all[k] = IF k <= Len(ps) THEN ps[k] ELSE run[k - Len(ps)]
  BY <1>1, ConcatProperties
<1> HIDE DEF all
<1>6. DOMAIN all = 1..Len(ps) + Len(run)
  BY <1>5, LenProperties
<1>7. ASSUME NEW k \in 1..Len(ps) + Len(run), k > Len(ps)
      PROVE  all[k] = p + (k - Len(ps)) - 1 /\ p <= all[k] /\ all[k] <= q
  <2>1. k - Len(ps) \in 1..Len(run)
    BY <1>1, <1>3, <1>7
  <2>2. all[k] = run[k - Len(ps)]
    BY <1>3, <1>5, <1>7
  <2>3. all[k] = p + (k - Len(ps)) - 1
    BY <1>2, <2>1, <2>2
  <2> QED BY <1>1, <2>1, <2>3
<1>8. ASSUME NEW k \in 1..Len(ps) + Len(run), k <= Len(ps)
      PROVE  k \in 1..Len(ps) /\ all[k] = ps[k] /\ ps[k] \in 1..n /\ all[k] < p
  BY <1>3, <1>5, <1>8
<1>9. \A k \in DOMAIN all : all[k] < q + 1
  <2> SUFFICES ASSUME NEW k \in 1..Len(ps) + Len(run) PROVE all[k] < q + 1
    BY <1>6
  <2>1. CASE k <= Len(ps)
    BY <1>8, <2>1
  <2>2. CASE k > Len(ps)
    BY <1>7, <2>2
  <2> QED BY <1>3, <2>1, <2>2
<1>10. \A k, l \in DOMAIN all : k < l => all[k] < all[l]
  <2> SUFFICES ASSUME NEW k \in 1..Len(ps) + Len(run), NEW l \in 1..Len(ps) + Len(run), k < l
               PROVE  all[k] < all[l]
    BY <1>6
  <2>1. CASE l <= Len(ps)
    <3>1. k <= Len(ps)
      BY <1>3, <2>1
    <3> QED BY <1>4, <1>8, <2>1, <3>1
  <2>2. CASE k <= Len(ps) /\ l > Len(ps)
    <3>1. all[k] < p /\ all[k] \in 1..n
      BY <1>8, <2>2
    <3>2. p <= all[l] /\ all[l] = p + (l - Len(ps)) - 1
      BY <1>7, <2>2
    <3> QED BY <1>3, <3>1, <3>2
  <2>3. CASE k > Len(ps)
    <3>1. l > Len(ps)
      BY <1>3, <2>3
    <3>2. all[k] = p + (k - Len(ps)) - 1 /\ all[l] = p + (l - Len(ps)) - 1
      BY <1>7, <2>3, <3>1
    <3> QED BY <1>3, <3>2
  <2> QED BY <1>3, <2>1, <2>2, <2>3
<1> QED BY <1>5, <1>9, <1>10 DEF Ascending, all, run

(* One more position, as at the end of a line. *)
LEMMA AppendAscending ==
  ASSUME NEW n \in Nat, NEW p \in 1..n, NEW ps, Ascending(ps, n, p)
  PROVE  Ascending(Append(ps, p), n, p + 1)
<1>1. ps \in Seq(1..n) /\ Len(ps) \in Nat /\ DOMAIN ps = 1..Len(ps)
  BY LenProperties DEF Ascending
<1>2. /\ Append(ps, p) \in Seq(1..n)
      /\ DOMAIN Append(ps, p) = 1..Len(ps) + 1
      /\ \A k \in 1..Len(ps) + 1 : Append(ps, p)[k] = IF k <= Len(ps) THEN ps[k] ELSE p
  BY <1>1
<1>3. \A k \in 1..Len(ps) : ps[k] \in 1..n
  BY <1>1, ElementOfSeq
<1> QED BY <1>1, <1>2, <1>3 DEF Ascending

(* A part of them. *)
LEMMA PartAscending ==
  ASSUME NEW n \in Nat, NEW b \in Int, NEW ps, Ascending(ps, n, b),
         NEW i \in 1..Len(ps), NEW j \in 1..Len(ps)
  PROVE  Ascending(SubSeq(ps, i, j), n, b)
<1> DEFINE part == SubSeq(ps, i, j)
<1>1. ps \in Seq(1..n) /\ Len(ps) \in Nat /\ DOMAIN ps = 1..Len(ps)
  BY LenProperties DEF Ascending
<1>2. \A k \in i..j : ps[k] \in 1..n
  BY <1>1, ElementOfSeq
<1>3. /\ part \in Seq(1..n)
      /\ Len(part) = IF i <= j THEN j - i + 1 ELSE 0
      /\ \A k \in 1..j - i + 1 : part[k] = ps[i + k - 1]
  BY <1>1, <1>2, SubSeqProperties
<1>4. DOMAIN part = 1..Len(part)
  BY <1>3, LenProperties
<1> HIDE DEF part
<1>5. \A k \in DOMAIN part : k \in 1..j - i + 1 /\ i + k - 1 \in 1..Len(ps)
  <2> SUFFICES ASSUME NEW k \in 1..Len(part)
               PROVE  k \in 1..j - i + 1 /\ i + k - 1 \in 1..Len(ps)
    BY <1>4
  <2>1. i <= j
    BY <1>3
  <2> QED BY <1>1, <1>3, <2>1
<1>6. \A k \in DOMAIN part : part[k] < b
  BY <1>1, <1>3, <1>5 DEF Ascending
<1>7. \A k, l \in DOMAIN part : k < l => part[k] < part[l]
  <2> SUFFICES ASSUME NEW k \in DOMAIN part, NEW l \in DOMAIN part, k < l
               PROVE  part[k] < part[l]
    OBVIOUS
  <2>1. i + k - 1 \in DOMAIN ps /\ i + l - 1 \in DOMAIN ps /\ i + k - 1 < i + l - 1
    <3>1. i + k - 1 \in DOMAIN ps /\ i + l - 1 \in DOMAIN ps
      BY <1>1, <1>5
    <3>2. k \in Int /\ l \in Int /\ i \in Int
      BY <1>5
    <3> QED BY <3>1, <3>2
  <2>2. part[k] = ps[i + k - 1] /\ part[l] = ps[i + l - 1]
    BY <1>3, <1>5
  <2> QED BY <2>1, <2>2 DEF Ascending
<1> QED BY <1>3, <1>6, <1>7 DEF Ascending, part

(* The empty sequence is in order. *)
LEMMA EmptyAscending == \A n, b : Ascending(<< >>, n, b)
BY DEF Ascending

(* Trimming on the right leaves a part (strings.TrimRightFunc). *)
LEMMA TrimRightAscending ==
  ASSUME NEW n \in Nat, NEW b \in Int, NEW ps, Ascending(ps, n, b), NEW space
  PROVE  Ascending(TrimRight(ps, space), n, b)
<1> DEFINE solid == {k \in DOMAIN ps : text[ps[k]] \notin space}
<1>1. Len(ps) \in Nat /\ DOMAIN ps = 1..Len(ps)
  BY LenProperties DEF Ascending
<1>2. CASE solid = {}
  BY <1>2, EmptyAscending DEF TrimRight
<1>3. CASE solid # {}
  <2>1. solid \in SUBSET (1..Len(ps))
    BY <1>1
  <2> HIDE DEF solid
  <2>2. Max(solid) \in 1..Len(ps)
    BY <1>1, <1>3, <2>1, MaxOfIndices
  <2>3. 1 \in 1..Len(ps)
    BY <1>1, <2>2
  <2>4. Ascending(SubSeq(ps, 1, Max(solid)), n, b)
    BY <2>2, <2>3, PartAscending
  <2> QED BY <1>3, <2>4 DEF TrimRight, solid
<1> QED BY <1>2, <1>3

(* And on both sides (strings.TrimSpace). *)
LEMMA TrimSpaceAscending ==
  ASSUME NEW n \in Nat, NEW b \in Int, NEW ps, Ascending(ps, n, b)
  PROVE  Ascending(TrimSpace(ps), n, b)
<1> DEFINE right == TrimRight(ps, {"blank", "newline"})
           solid == {k \in DOMAIN right : text[right[k]] \notin {"blank", "newline"}}
<1>1. Ascending(right, n, b)
  BY TrimRightAscending
<1> HIDE DEF right
<1>2. Len(right) \in Nat /\ DOMAIN right = 1..Len(right)
  BY <1>1, LenProperties DEF Ascending
<1>3. CASE solid = {}
  BY <1>3, EmptyAscending DEF TrimSpace, right
<1>4. CASE solid # {}
  <2>1. solid \in SUBSET (1..Len(right))
    BY <1>2
  <2> HIDE DEF solid
  <2>2. Min(solid) \in 1..Len(right)
    BY <1>2, <1>4, <2>1, MinOfIndices
  <2>3. Len(right) \in 1..Len(right)
    BY <1>2, <2>2
  <2>4. Ascending(SubSeq(right, Min(solid), Len(right)), n, b)
    BY <1>1, <2>2, <2>3, PartAscending
  <2> QED BY <1>4, <2>4 DEF TrimSpace, solid, right
<1> QED BY <1>3, <1>4

(* FirstOf is the least element, or stands for there being none. *)
LEMMA FirstOfIndices ==
  ASSUME NEW n \in Nat, NEW S \in SUBSET (1..n), NEW otherwise
  PROVE  /\ S = {} => FirstOf(S, otherwise) = otherwise
         /\ S # {} => FirstOf(S, otherwise) \in S /\ \A x \in S : FirstOf(S, otherwise) <= x
<1>1. S # {} => Min(S) \in S /\ \A x \in S : Min(S) <= x
  BY MinOfIndices
<1> QED BY <1>1 DEF FirstOf

(* A line ends before the next newline, or with the text. *)
LEMMA LineEndOf ==
  ASSUME NEW t, NEW n \in Nat, Len(t) = n, NEW p \in 1..n
  PROVE  /\ LineEnd(t, p) \in p - 1..n
         /\ t[p] # "newline" => LineEnd(t, p) >= p
         /\ \A r \in p..LineEnd(t, p) : t[r] # "newline"
         /\ LineEnd(t, p) < n => t[LineEnd(t, p) + 1] = "newline"
<1> DEFINE newlines == {q \in p..Len(t) : t[q] = "newline"}
<1>1. newlines \in SUBSET (1..n)
  OBVIOUS
<1>2. PICK f : f = FirstOf(newlines, n + 1)
  OBVIOUS
<1>3. LineEnd(t, p) = f - 1
  BY <1>2 DEF LineEnd
<1>4. /\ newlines = {} => f = n + 1
      /\ newlines # {} => f \in newlines /\ \A x \in newlines : f <= x
  <2> HIDE DEF newlines
  <2> QED BY <1>1, <1>2, FirstOfIndices
<1>5. f \in p..n + 1
  BY <1>4
<1>6. \A r \in p..f - 1 : t[r] # "newline"
  BY <1>4, <1>5
<1>7. t[p] # "newline" => f # p
  BY <1>4
<1>8. f # n + 1 => t[f] = "newline"
  BY <1>4
<1>9. (f - 1 < n => f # n + 1) /\ (f - 1) + 1 = f
  BY <1>5
<1> QED BY <1>3, <1>5, <1>6, <1>7, <1>8, <1>9

-------------------------------------------------------------------------------
(* The inductive invariant: everything written comes from before pos. *)
IInv == ScannerTypeOK /\ Ascending(kept, Len(text), pos)

(* Whatever is written from pos on keeps the order. *)
LEMMA WriteKeepsInvariant ==
  ASSUME IInv, pos <= Len(text), NEW q \in pos..Len(text)
  PROVE  /\ Write(q) \in Seq(1..Len(text))
         /\ Ascending(Write(q), Len(text), q + 1)
         /\ q + 1 \in 1..Len(text) + 1
<1>1. Len(text) \in Nat /\ pos \in 1..Len(text)
  BY LenProperties DEF IInv, ScannerTypeOK
<1>2. Ascending(Write(q), Len(text), q + 1)
  BY <1>1, RunAscending DEF IInv, Write
<1> QED BY <1>1, <1>2 DEF Ascending

(* What stays behind a later position is still before it. *)
LEMMA LaterBound ==
  ASSUME NEW n \in Nat, NEW b \in Int, NEW c \in Int, b <= c, NEW ps, Ascending(ps, n, b)
  PROVE  Ascending(ps, n, c)
<1>1. \A k \in DOMAIN ps : ps[k] \in Int
  BY LenProperties, ElementOfSeq DEF Ascending
<1> QED BY <1>1 DEF Ascending

(* A dollar-quoted string's terminator fits into the text. *)
LEMMA TerminatorFits ==
  ASSUME IInv, HasDollarTerminator(pos)
  PROVE  pos + Len(dollarTag) + 1 \in pos..Len(text)
<1>1. dollarTag \in Seq(Char) /\ Len(dollarTag) \in Nat /\ Len(text) \in Nat /\ pos \in 1..Len(text) + 1
  BY LenProperties DEF IInv, ScannerTypeOK
<1>2. "$" \in Char
  BY DEF Char
<1>3. Len(Delimiter(dollarTag)) = Len(dollarTag) + 2
  <2>1. <<"$">> \in Seq(Char) /\ Len(<<"$">>) = 1
    BY <1>2
  <2>2. /\ <<"$">> \o dollarTag \in Seq(Char)
        /\ Len(<<"$">> \o dollarTag) = Len(dollarTag) + 1
    BY <1>1, <2>1, ConcatProperties
  <2>3. Len((<<"$">> \o dollarTag) \o <<"$">>) = Len(dollarTag) + 2
    BY <1>1, <2>1, <2>2, ConcatProperties
  <2> QED BY <2>3 DEF Delimiter
<1> QED BY <1>1, <1>3 DEF HasDollarTerminator, Looks

(* The tag of an opening `$tag$` lies within the text. *)
LEMMA TagFits ==
  ASSUME IInv, pos <= Len(text), DollarTagEnds(pos) # {}
  PROVE  /\ Min(DollarTagEnds(pos)) \in pos + 1..Len(text)
         /\ SubSeq(text, pos + 1, Min(DollarTagEnds(pos)) - 1) \in Seq(Char)
<1>1. text \in Seq(Char) /\ Len(text) \in Nat /\ pos \in 1..Len(text)
  BY LenProperties DEF IInv, ScannerTypeOK
<1>2. DollarTagEnds(pos) \in SUBSET (1..Len(text)) /\ DollarTagEnds(pos) \subseteq pos + 1..Len(text)
  BY <1>1 DEF DollarTagEnds
<1>3. Min(DollarTagEnds(pos)) \in pos + 1..Len(text)
  BY <1>1, <1>2, MinOfIndices
<1>4. \A r \in pos + 1..Min(DollarTagEnds(pos)) - 1 : text[r] \in Char
  BY <1>1, <1>3, ElementOfSeq
<1> QED BY <1>1, <1>3, <1>4, SubSeqProperties

(* From the first character on, whichever branch of the loop runs. *)
LEMMA InvariantHolds == Spec => []IInv
<1>1. Init => IInv
  <2> SUFFICES ASSUME Init PROVE IInv
    OBVIOUS
  <2>1. text \in Seq(Char) /\ Len(text) \in Nat
    BY InputsAssumption, LenProperties DEF Init
  <2>2. 1 \in 1..Len(text) + 1 /\ << >> \in Seq(1..Len(text)) /\ << >> \in Seq(Char)
    BY <2>1
  <2>3. ScannerTypeOK
    BY <2>1, <2>2 DEF Init, ScannerTypeOK
  <2>4. Ascending(kept, Len(text), pos)
    BY EmptyAscending DEF Init
  <2> QED BY <2>3, <2>4 DEF IInv
<1>2. IInv /\ [Next]_vars => IInv'
  <2> SUFFICES ASSUME IInv, [Next]_vars PROVE IInv'
    OBVIOUS
  <2>1. Len(text) \in Nat /\ pos \in 1..Len(text) + 1
    BY LenProperties DEF IInv, ScannerTypeOK
  <2>2. CASE CopyDollarQuoted \/ ToggleSingle \/ ToggleDouble \/ CopyPlain
    <3>1. /\ pos <= Len(text) /\ kept' = Write(pos) /\ pos' = pos + 1
          /\ text' = text /\ done' = done /\ inDollar' = inDollar /\ dollarTag' = dollarTag
      BY <2>2 DEF CopyDollarQuoted, ToggleSingle, ToggleDouble, CopyPlain, Scanning, IsAt, quoteState
    <3>2. single' \in BOOLEAN /\ double' \in BOOLEAN
      BY <2>2 DEF CopyDollarQuoted, ToggleSingle, ToggleDouble, CopyPlain, quoteState, IInv, ScannerTypeOK
    <3>3. /\ Write(pos) \in Seq(1..Len(text)) /\ Ascending(Write(pos), Len(text), pos + 1)
          /\ pos + 1 \in 1..Len(text) + 1
      BY <2>1, <3>1, WriteKeepsInvariant
    <3> QED BY <3>1, <3>2, <3>3 DEF IInv, ScannerTypeOK
  <2>3. CASE CloseDollarQuoted
    <3>1. pos + Len(dollarTag) + 1 \in pos..Len(text) /\ pos <= Len(text) /\ Len(dollarTag) \in Nat
      BY <2>1, <2>3, TerminatorFits, LenProperties DEF CloseDollarQuoted, IsAt, IInv, ScannerTypeOK
    <3>2. /\ kept' = Write(pos + Len(dollarTag) + 1) /\ pos' = (pos + Len(dollarTag) + 1) + 1
          /\ text' = text /\ done' = done /\ single' = single /\ double' = double
          /\ inDollar' = FALSE /\ dollarTag' = << >>
      BY <2>1, <2>3, <3>1 DEF CloseDollarQuoted
    <3>3. /\ kept' \in Seq(1..Len(text)) /\ Ascending(kept', Len(text), pos')
          /\ pos' \in 1..Len(text) + 1
      BY <3>1, <3>2, WriteKeepsInvariant
    <3>4. << >> \in Seq(Char)
      OBVIOUS
    <3>5. ScannerTypeOK'
      BY <3>2, <3>3, <3>4 DEF IInv, ScannerTypeOK
    <3> QED BY <3>2, <3>3, <3>5 DEF IInv
  <2>4. CASE OpenDollarQuoted
    <3> DEFINE q == Min(DollarTagEnds(pos))
    <3>1. /\ pos <= Len(text) /\ q \in pos + 1..Len(text)
          /\ SubSeq(text, pos + 1, q - 1) \in Seq(Char)
      BY <2>4, TagFits DEF OpenDollarQuoted, Scanning, IsAt
    <3>2. /\ kept' = Write(q) /\ pos' = q + 1 /\ inDollar' = TRUE
          /\ dollarTag' = SubSeq(text, pos + 1, q - 1)
          /\ text' = text /\ done' = done /\ single' = single /\ double' = double
      BY <2>4 DEF OpenDollarQuoted
    <3> HIDE DEF q
    <3>3. q \in pos..Len(text)
      BY <2>1, <3>1
    <3>4. /\ kept' \in Seq(1..Len(text)) /\ Ascending(kept', Len(text), pos')
          /\ pos' \in 1..Len(text) + 1
      BY <3>1, <3>2, <3>3, WriteKeepsInvariant
    <3> QED BY <3>1, <3>2, <3>4 DEF IInv, ScannerTypeOK
  <2>5. CASE CopyEscapedQuote
    <3>1. /\ pos + 1 \in pos..Len(text) /\ pos <= Len(text)
          /\ kept' = Write(pos + 1) /\ pos' = (pos + 1) + 1
          /\ text' = text /\ UNCHANGED quoteState /\ done' = done
      BY <2>1, <2>5 DEF CopyEscapedQuote, Scanning, IsEscapedQuote, IsAt
    <3>2. /\ kept' \in Seq(1..Len(text)) /\ Ascending(kept', Len(text), pos')
          /\ pos' \in 1..Len(text) + 1
      BY <3>1, WriteKeepsInvariant
    <3> QED BY <3>1, <3>2 DEF IInv, ScannerTypeOK, quoteState
  <2>6. CASE SkipComment
    <3>1. pos \in 1..Len(text)
      BY <2>1, <2>6 DEF SkipComment, AtComment, Scanning, IsAt
    <3>2. LineEnd(text, pos) \in pos - 1..Len(text)
      BY <2>1, <3>1, LineEndOf
    <3>3. /\ pos' = LineEnd(text, pos) + 1 /\ kept' = kept
          /\ text' = text /\ UNCHANGED quoteState /\ done' = done
      BY <2>6 DEF SkipComment
    <3>4. pos' \in 1..Len(text) + 1 /\ pos <= pos'
      BY <2>1, <3>1, <3>2, <3>3
    <3>5. Ascending(kept, Len(text), pos')
      BY <2>1, <3>4, LaterBound DEF IInv
    <3> QED BY <3>3, <3>4, <3>5 DEF IInv, ScannerTypeOK, quoteState
  <2>7. CASE EndLine
    <3>1. /\ pos \in 1..Len(text) /\ kept' = Append(TrimLine(kept), pos) /\ pos' = pos + 1
          /\ text' = text /\ UNCHANGED quoteState /\ done' = done
      BY <2>1, <2>7 DEF EndLine, IsAt
    <3>2. Ascending(TrimLine(kept), Len(text), pos)
      BY <2>1, TrimRightAscending DEF IInv, TrimLine
    <3>3. Ascending(kept', Len(text), pos')
      BY <2>1, <3>1, <3>2, AppendAscending
    <3>4. kept' \in Seq(1..Len(text)) /\ pos' \in 1..Len(text) + 1
      BY <2>1, <3>1, <3>3 DEF Ascending
    <3> QED BY <3>1, <3>3, <3>4 DEF IInv, ScannerTypeOK, quoteState
  <2>8. CASE Finish
    <3>1. /\ kept' = TrimSpace(TrimLine(kept)) /\ done' = TRUE
          /\ text' = text /\ pos' = pos /\ UNCHANGED quoteState
      BY <2>8 DEF Finish
    <3>2. Ascending(TrimLine(kept), Len(text), pos)
      BY <2>1, TrimRightAscending DEF IInv, TrimLine
    <3>3. Ascending(kept', Len(text), pos)
      BY <2>1, <3>1, <3>2, TrimSpaceAscending
    <3>4. kept' \in Seq(1..Len(text))
      BY <3>3 DEF Ascending
    <3> QED BY <3>1, <3>3, <3>4 DEF IInv, ScannerTypeOK, quoteState
  <2>9. CASE UNCHANGED vars
    BY <2>9 DEF vars, IInv, ScannerTypeOK
  <2> QED BY <2>2, <2>3, <2>4, <2>5, <2>6, <2>7, <2>8, <2>9 DEF Next
<1> QED BY <1>1, <1>2, PTL DEF Spec

(* The scanner's state and output keep their types: it never writes a      *)
(* position outside of the text (preprocess.go:49-100).                    *)
THEOREM TypeCorrect == Spec => []ScannerTypeOK
<1>1. IInv => ScannerTypeOK
  BY DEF IInv
<1> QED BY <1>1, InvariantHolds, PTL

(* The text returned is the caller's with characters left out, none twice, *)
(* none out of order (preprocess.go:22-104).                               *)
THEOREM OrderKept == Spec => []KeptInOrder
<1>1. IInv => KeptInOrder
  BY DEF IInv, Ascending, KeptInOrder
<1> QED BY <1>1, InvariantHolds, PTL

-------------------------------------------------------------------------------
(* Tokens: where each begins and ends. *)

(* The end of what has none is the end of the text. *)
LEMMA FirstInside ==
  ASSUME NEW n \in Nat, NEW p \in 1..n, NEW S \in SUBSET (1..n), S \subseteq p + 1..n
  PROVE  FirstOf(S, n) \in p..n
<1>1. CASE S = {}
  BY <1>1 DEF FirstOf
<1>2. CASE S # {}
  <2>1. PICK f : f = FirstOf(S, n)
    OBVIOUS
  <2>2. f \in S
    BY <1>2, <2>1, FirstOfIndices
  <2>3. f \in p + 1..n
    BY <2>2
  <2> QED BY <2>1, <2>3
<1> QED BY <1>1, <1>2

(* An identifier ends before the first character it cannot have. *)
LEMMA IdentifierEndOf ==
  ASSUME NEW t, NEW n \in Nat, Len(t) = n, NEW p \in 1..n, IsLetter(t[p])
  PROVE  /\ IdentifierEnd(t, p) \in p..n
         /\ \A r \in p..IdentifierEnd(t, p) : IsLetter(t[r]) \/ t[r] \in {"1", "$"}
         /\ IdentifierEnd(t, p) < n => LET c == t[IdentifierEnd(t, p) + 1] IN ~IsLetter(c) /\ c \notin {"1", "$"}
<1> DEFINE ends == {q \in p..Len(t) : ~IsLetter(t[q]) /\ t[q] \notin {"1", "$"}}
<1>1. ends \in SUBSET (1..n)
  OBVIOUS
<1>2. PICK f : f = FirstOf(ends, n + 1)
  OBVIOUS
<1>3. IdentifierEnd(t, p) = f - 1
  BY <1>2 DEF IdentifierEnd
<1>4. /\ ends = {} => f = n + 1
      /\ ends # {} => f \in ends /\ \A x \in ends : f <= x
  <2> HIDE DEF ends
  <2> QED BY <1>1, <1>2, FirstOfIndices
<1>5. f \in p + 1..n + 1
  BY <1>4
<1>6. \A r \in p..f - 1 : IsLetter(t[r]) \/ t[r] \in {"1", "$"}
  BY <1>4, <1>5
<1>7. f # n + 1 => ~IsLetter(t[f]) /\ t[f] \notin {"1", "$"}
  BY <1>4
<1>8. (f - 1 < n => f # n + 1) /\ (f - 1) + 1 = f
  BY <1>5
<1> QED BY <1>3, <1>5, <1>6, <1>7, <1>8

(* The tag of a dollar-quoted literal ends after its `$`. *)
LEMMA TagEndsOf ==
  ASSUME NEW t, NEW n \in Nat, Len(t) = n, NEW p \in 1..n
  PROVE  /\ TagEnds(t, p) \in SUBSET (1..n) /\ TagEnds(t, p) \subseteq p + 1..n
         /\ TagEnds(t, p) # {} => t[p] = "$" /\ Min(TagEnds(t, p)) \in TagEnds(t, p)
<1>1. TagEnds(t, p) \in SUBSET (1..n) /\ TagEnds(t, p) \subseteq p + 1..n
  BY DEF TagEnds
<1>2. TagEnds(t, p) # {} => t[p] = "$"
  BY DEF TagEnds
<1> QED BY <1>1, <1>2, MinOfIndices

(* A literal ends after it begins. *)
LEMMA EndsOfLiterals ==
  ASSUME NEW t, NEW n \in Nat, Len(t) = n, NEW p \in 1..n
  PROVE  /\ QuotedEnds(t, p) \in SUBSET (1..n) /\ QuotedEnds(t, p) \subseteq p + 1..n
         /\ TagEnds(t, p) # {} => DollarEnds(t, p) \in SUBSET (1..n) /\ DollarEnds(t, p) \subseteq p + 1..n
<1>1. QuotedEnds(t, p) \in SUBSET (1..n) /\ QuotedEnds(t, p) \subseteq p + 1..n
  BY DEF QuotedEnds
<1>2. ASSUME TagEnds(t, p) # {}
      PROVE  DollarEnds(t, p) \in SUBSET (1..n) /\ DollarEnds(t, p) \subseteq p + 1..n
  <2>1. Min(TagEnds(t, p)) \in p + 1..n
    BY <1>2, TagEndsOf
  <2> QED BY <2>1 DEF DollarEnds
<1> QED BY <1>1, <1>2

(* A token ends where it begins or later, in the text. *)
LEMMA TokenEnds ==
  ASSUME NEW t, NEW n \in Nat, Len(t) = n, NEW p \in 1..n
  PROVE  /\ TokenEnd(t, p) \in p..n
         /\ Kind(t, p) = "quoted" => t[p] \in QuoteMarks /\ TokenEnd(t, p) = FirstOf(QuotedEnds(t, p), n)
         /\ Kind(t, p) = "dollar" => TagEnds(t, p) # {} /\ TokenEnd(t, p) = FirstOf(DollarEnds(t, p), n)
         /\ Kind(t, p) \in {"line comment", "slash comment"} => TokenEnd(t, p) = LineEnd(t, p)
         /\ Kind(t, p) = "identifier" => IsLetter(t[p]) /\ TokenEnd(t, p) = IdentifierEnd(t, p)
         /\ Kind(t, p) = "other" => TokenEnd(t, p) = p
<1>1. Kind(t, p) \in {"quoted", "dollar", "line comment", "slash comment", "identifier", "other"}
  BY DEF Kind
<1>2. CASE Kind(t, p) = "quoted"
  <2>1. TokenEnd(t, p) = FirstOf(QuotedEnds(t, p), n)
    BY <1>2 DEF TokenEnd, LiteralEnds
  <2>2. FirstOf(QuotedEnds(t, p), n) \in p..n
    BY EndsOfLiterals, FirstInside
  <2>3. t[p] \in QuoteMarks
    BY <1>2 DEF Kind
  <2> QED BY <1>2, <2>1, <2>2, <2>3
<1>3. CASE Kind(t, p) = "dollar"
  <2>1. TokenEnd(t, p) = FirstOf(DollarEnds(t, p), n)
    BY <1>3 DEF TokenEnd, LiteralEnds
  <2>2. TagEnds(t, p) # {}
    BY <1>3 DEF Kind
  <2>3. FirstOf(DollarEnds(t, p), n) \in p..n
    BY <2>2, EndsOfLiterals, FirstInside
  <2> QED BY <1>3, <2>1, <2>2, <2>3
<1>4. CASE Kind(t, p) \in {"line comment", "slash comment"}
  <2>1. TokenEnd(t, p) = LineEnd(t, p)
    BY <1>4 DEF TokenEnd
  <2>2. t[p] # "newline"
    <3>1. Looks(t, p, <<"-", "-">>) \/ Looks(t, p, <<"/", "/">>)
      BY <1>4 DEF Kind
    <3>2. ASSUME NEW c, Looks(t, p, <<c, c>>) PROVE t[p] = c
      <4>1. Len(<<c, c>>) = 2 /\ <<c, c>>[1] = c
        OBVIOUS
      <4>2. SubSeq(t, p, p + 1) = <<c, c>>
        BY <3>2, <4>1 DEF Looks
      <4>3. SubSeq(t, p, p + 1)[1] = t[p]
        OBVIOUS
      <4> QED BY <4>1, <4>2, <4>3
    <3> QED BY <3>1, <3>2
  <2>3. LineEnd(t, p) \in p..n
    <3>1. LineEnd(t, p) \in p - 1..n /\ LineEnd(t, p) >= p
      BY <2>2, LineEndOf
    <3> QED BY <3>1
  <2>4. Kind(t, p) \notin {"quoted", "dollar", "identifier", "other"}
    BY <1>4
  <2> QED BY <2>1, <2>3, <2>4
<1>5. CASE Kind(t, p) = "identifier"
  <2>1. TokenEnd(t, p) = IdentifierEnd(t, p)
    BY <1>5 DEF TokenEnd
  <2>2. IsLetter(t[p])
    BY <1>5 DEF Kind
  <2> QED BY <1>5, <2>1, <2>2, IdentifierEndOf
<1>6. CASE Kind(t, p) = "other"
  <2>1. TokenEnd(t, p) = p
    BY <1>6 DEF TokenEnd
  <2> QED BY <1>6, <2>1
<1> QED BY <1>1, <1>2, <1>3, <1>4, <1>5, <1>6

(* The first positions of the tokens, as the recursive function has them. *)
Starts(t, n, start) ==
  /\ start \in [1..n -> 1..n]
  /\ n >= 1 => start[1] = 1
  /\ \A p \in 2..n : start[p] = IF TokenEnd(t, start[p - 1]) >= p THEN start[p - 1] ELSE p

(* What the recursive function TokenStart is, unfolded once. *)
LEMMA TokenStarts ==
  ASSUME NEW t, NEW n \in Nat, Len(t) = n
  PROVE  Starts(t, n, TokenStart(t))
<1> DEFINE After(before, p) == IF TokenEnd(t, before) >= p THEN before ELSE p
           Step(f, p) == IF p = 1 THEN 1 ELSE After(f[p - 1], p)
           start == CHOOSE f : f = [p \in 1..n |-> Step(f, p)]
<1>1. TokenStart(t) = start
  BY DEF TokenStart
<1>2. \E g \in [1..n -> 1..n] : g = [p \in 1..n |-> Step(g, p)]
  <2>1. CASE n = 0
    <3> DEFINE g == [p \in 1..n |-> 1]
    <3>1. 1..n = {}
      BY <2>1
    <3>2. g = [p \in 1..n |-> Step(g, p)] /\ g \in [1..n -> 1..n]
      <4> HIDE DEF Step
      <4> QED BY <3>1
    <3> QED BY <3>2
  <2>2. CASE n # 0
    <3> DEFINE G == [i \in (1..n) \X (1..n) |-> After(i[2], i[1])]
    <3>1. G \in [(1..n) \X (1..n) -> 1..n] /\ \A p, b \in 1..n : G[<<p, b>>] = After(b, p)
      OBVIOUS
    <3>2. 1 \in 1..n
      BY <2>2
    <3> HIDE DEF G
    <3>3. PICK T, base : T = 1..n /\ base = 1
      OBVIOUS
    <3>4. base \in T /\ G \in [(1..n) \X T -> T]
      BY <3>1, <3>2, <3>3
    <3>5. PICK f : IsRecursion(f, n, base, G)
      BY <3>4, RecursionExists
    <3>6. \A p \in 1..n : f[p - 1] \in T /\ f[p] \in T /\ f[p] = G[<<p, f[p - 1]>>]
      BY <3>4, <3>5, RecursionValues
    <3>7. f[0] = base
      BY <3>5, 0 \in 0..n DEF IsRecursion
    <3>8. f[0] = 1 /\ \A p \in 1..n : f[p - 1] \in 1..n /\ f[p] \in 1..n /\ f[p] = G[<<p, f[p - 1]>>]
      BY <3>3, <3>6, <3>7
    <3>9. \A p \in 1..n : f[p] = After(f[p - 1], p)
      BY <3>1, <3>8
    <3>10. f[1] = 1
      <4>1. f[1] = After(1, 1)
        BY <3>2, <3>8, <3>9
      <4> QED BY <4>1
    <3> DEFINE g == [p \in 1..n |-> f[p]]
    <3>11. \A p \in 1..n : f[p] = Step(g, p)
      <4> SUFFICES ASSUME NEW p \in 1..n PROVE f[p] = Step(g, p)
        OBVIOUS
      <4>1. CASE p = 1
        BY <3>10, <4>1
      <4>2. CASE p # 1
        <5>1. p - 1 \in 1..n
          BY <4>2
        <5>2. g[p - 1] = f[p - 1]
          BY <5>1
        <5> HIDE DEF After
        <5> QED BY <3>9, <4>2, <5>2
      <4> QED BY <4>1, <4>2
    <3>12. g = [p \in 1..n |-> Step(g, p)] /\ g \in [1..n -> 1..n]
      <4> HIDE DEF Step
      <4> QED BY <3>8, <3>11
    <3> HIDE DEF g, Step
    <3> QED BY <3>12
  <2> QED BY <2>1, <2>2
<1>3. PICK g \in [1..n -> 1..n] : g = [p \in 1..n |-> Step(g, p)]
  BY <1>2
<1>4. start = [p \in 1..n |-> Step(start, p)]
  <2> HIDE DEF Step
  <2> QED BY <1>3
<1>5. \A p \in 1..n : start[p] = Step(start, p) /\ g[p] = Step(g, p)
  <2> HIDE DEF Step, start
  <2> QED BY <1>3, <1>4
<1> HIDE DEF start
<1>6. \A p \in 1..n : start[p] = g[p]
  <2> DEFINE Bad == {p \in 1..n : start[p] # g[p]}
  <2> SUFFICES ASSUME Bad # {} PROVE FALSE
    OBVIOUS
  <2>1. PICK m : m \in Bad /\ \A y \in Bad : m <= y
    <3>1. Bad \in SUBSET (1..n)
      OBVIOUS
    <3> HIDE DEF Bad
    <3> QED BY <3>1, MinOfIndices
  <2>2. m \in 1..n /\ start[m] # g[m]
    BY <2>1
  <2>3. CASE m = 1
    BY <1>5, <2>2, <2>3
  <2>4. CASE m # 1
    <3>1. m - 1 \in 1..n /\ ~(m <= m - 1)
      BY <2>2, <2>4
    <3>2. start[m - 1] = g[m - 1]
      BY <2>1, <3>1
    <3> QED BY <1>5, <2>2, <2>4, <3>2
  <2> QED BY <2>3, <2>4
<1>7. start = g
  <2>1. start = [p \in 1..n |-> start[p]]
    <3> HIDE DEF Step
    <3> QED BY <1>4
  <2> QED BY <1>6, <2>1
<1> QED BY <1>1, <1>5, <1>7 DEF Starts

(* A character twice in a row. *)
LEMMA LooksTwice ==
  ASSUME NEW t, NEW n \in Nat, Len(t) = n, NEW p \in 1..n, NEW c
  PROVE  Looks(t, p, <<c, c>>) <=> t[p] = c /\ IsAt(t, p + 1, c)
<1>1. Len(<<c, c>>) = 2 /\ <<c, c>>[1] = c /\ <<c, c>>[2] = c
  OBVIOUS
<1>2. Looks(t, p, <<c, c>>) <=> p + 1 <= n /\ SubSeq(t, p, p + 1) = <<c, c>>
  BY <1>1 DEF Looks
<1>3. SubSeq(t, p, p + 1) = [i \in 1..2 |-> t[p + i - 1]]
  OBVIOUS
<1>4. SubSeq(t, p, p + 1)[1] = t[p] /\ SubSeq(t, p, p + 1)[2] = t[p + 1]
  BY <1>3
<1>5. ASSUME t[p] = c, t[p + 1] = c PROVE SubSeq(t, p, p + 1) = <<c, c>>
  <2>1. \A i \in 1..2 : t[p + i - 1] = c
    <3>1. \A i \in 1..2 : p + i - 1 = p \/ p + i - 1 = p + 1
      OBVIOUS
    <3> QED BY <1>5, <3>1
  <2>2. [i \in 1..2 |-> t[p + i - 1]] = [i \in 1..2 |-> c]
    BY <2>1
  <2>3. <<c, c>> = [i \in 1..2 |-> c]
    OBVIOUS
  <2> QED BY <1>3, <2>2, <2>3
<1> QED BY <1>1, <1>2, <1>4, <1>5 DEF IsAt

(* The kind of a token is told by its first characters. *)
LEMMA KindByCharacter ==
  ASSUME NEW t, NEW n \in Nat, Len(t) = n, NEW p \in 1..n
  PROVE  /\ t[p] \in QuoteMarks => Kind(t, p) = "quoted"
         /\ t[p] = "$" /\ TagEnds(t, p) # {} => Kind(t, p) = "dollar"
         /\ t[p] = "$" /\ TagEnds(t, p) = {} => Kind(t, p) = "other"
         /\ t[p] = "/" /\ IsAt(t, p + 1, "/") => Kind(t, p) = "slash comment"
         /\ t[p] = "/" /\ ~IsAt(t, p + 1, "/") => Kind(t, p) = "other"
         /\ t[p] = "-" => Kind(t, p) \in {"line comment", "other"}
         /\ t[p] = "x" => Kind(t, p) = "identifier"
         /\ t[p] \in {"1", "blank", "newline"} => Kind(t, p) = "other"
<1>1. TagEnds(t, p) # {} => t[p] = "$"
  BY DEF TagEnds
<1>2. /\ Looks(t, p, <<"-", "-">>) <=> t[p] = "-" /\ IsAt(t, p + 1, "-")
      /\ Looks(t, p, <<"/", "/">>) <=> t[p] = "/" /\ IsAt(t, p + 1, "/")
  BY LooksTwice
<1>3. t[p] \in {"$", "/", "-", "x", "1", "blank", "newline"} => t[p] \notin QuoteMarks
  BY DEF QuoteMarks
<1>4. IsLetter(t[p]) <=> t[p] = "x"
  BY DEF IsLetter
<1> QED BY <1>1, <1>2, <1>3, <1>4 DEF Kind
-------------------------------------------------------------------------------

(* A token's end, as inequalities. *)
LEMMA TokenEndInside ==
  ASSUME NEW t, NEW n \in Nat, Len(t) = n, NEW p \in 1..n
  PROVE  TokenEnd(t, p) \in p..n /\ TokenEnd(t, p) \in Nat /\ p <= TokenEnd(t, p) /\ TokenEnd(t, p) <= n
<1>1. TokenEnd(t, p) \in p..n
  BY TokenEnds
<1> QED BY <1>1

Begins(t, p) == p \in 1..Len(t) /\ TokenStart(t)[p] = p

(* A position lies in the token that begins at its start. *)
LEMMA InItsToken ==
  ASSUME NEW t, NEW n \in Nat, Len(t) = n, NEW p \in 1..n
  PROVE  /\ Begins(t, TokenStart(t)[p])
         /\ TokenStart(t)[p] <= p /\ p <= TokenEnd(t, TokenStart(t)[p])
<1>1. PICK start : start = TokenStart(t)
  OBVIOUS
<1>2. Starts(t, n, start)
  BY <1>1, TokenStarts
<1> DEFINE Good(q) == start[start[q]] = start[q] /\ start[q] <= q /\ q <= TokenEnd(t, start[q])
           Bad == {q \in 1..n : ~Good(q)}
<1>3. Bad = {}
  <2> SUFFICES ASSUME Bad # {} PROVE FALSE
    OBVIOUS
  <2>1. PICK m : m \in Bad /\ \A y \in Bad : m <= y
    <3>1. Bad \in SUBSET (1..n)
      OBVIOUS
    <3> HIDE DEF Bad
    <3> QED BY <3>1, MinOfIndices
  <2>2. m \in 1..n /\ ~Good(m)
    BY <2>1
  <2>3. m <= TokenEnd(t, m) /\ TokenEnd(t, m) \in Nat
    BY <2>2, TokenEndInside
  <2>4. CASE m = 1
    BY <1>2, <2>2, <2>3, <2>4 DEF Starts
  <2>5. CASE m # 1
    <3>1. m - 1 \in 1..n /\ ~(m <= m - 1) /\ m \in 2..n
      BY <2>2, <2>5
    <3>2. Good(m - 1)
      BY <2>1, <3>1
    <3>3. start[m] = IF TokenEnd(t, start[m - 1]) >= m THEN start[m - 1] ELSE m
      BY <1>2, <3>1 DEF Starts
    <3>4. start[m - 1] \in 1..n
      BY <1>2, <3>1 DEF Starts
    <3>5. TokenEnd(t, start[m - 1]) \in Nat
      BY <3>4, TokenEndInside
    <3> QED BY <2>2, <2>3, <3>1, <3>2, <3>3, <3>4, <3>5
  <2> QED BY <2>4, <2>5
<1>4. Good(p) /\ start[p] \in 1..n
  BY <1>2, <1>3 DEF Starts
<1> QED BY <1>1, <1>4 DEF Begins

(* All of a token's positions have its start. *)
LEMMA TokenPositions ==
  ASSUME NEW t, NEW n \in Nat, Len(t) = n, NEW s, Begins(t, s), NEW p \in s..TokenEnd(t, s)
  PROVE  p \in 1..n /\ TokenStart(t)[p] = s
<1>1. PICK start : start = TokenStart(t)
  OBVIOUS
<1>2. Starts(t, n, start)
  BY <1>1, TokenStarts
<1>3. s \in 1..n /\ start[s] = s /\ TokenEnd(t, s) \in s..n
  BY <1>1, TokenEndInside DEF Begins
<1> DEFINE Bad == {q \in s..TokenEnd(t, s) : start[q] # s}
<1>4. Bad = {}
  <2> SUFFICES ASSUME Bad # {} PROVE FALSE
    OBVIOUS
  <2>1. PICK m : m \in Bad /\ \A y \in Bad : m <= y
    <3>1. Bad \in SUBSET (1..n)
      BY <1>3
    <3> HIDE DEF Bad
    <3> QED BY <3>1, MinOfIndices
  <2>2. m \in s + 1..TokenEnd(t, s) /\ start[m] # s
    BY <1>3, <2>1
  <2>3. m - 1 \in s..TokenEnd(t, s) /\ ~(m <= m - 1) /\ m \in 2..n
    BY <1>3, <2>2
  <2>4. start[m - 1] = s
    BY <2>1, <2>3
  <2>5. start[m] = IF TokenEnd(t, start[m - 1]) >= m THEN start[m - 1] ELSE m
    BY <1>2, <2>3 DEF Starts
  <2> QED BY <1>3, <2>2, <2>4, <2>5
<1> QED BY <1>1, <1>3, <1>4

(* After a token the next one begins. *)
LEMMA NextBegins ==
  ASSUME NEW t, NEW n \in Nat, Len(t) = n, NEW s, Begins(t, s), TokenEnd(t, s) < n
  PROVE  Begins(t, TokenEnd(t, s) + 1)
<1>1. PICK start : start = TokenStart(t)
  OBVIOUS
<1>2. Starts(t, n, start)
  BY <1>1, TokenStarts
<1>3. s \in 1..n /\ TokenEnd(t, s) \in s..n
  BY TokenEndInside DEF Begins
<1>4. PICK e : e = TokenEnd(t, s)
  OBVIOUS
<1>5. e \in s..n /\ e + 1 \in 2..n /\ (e + 1) - 1 = e
  BY <1>3, <1>4
<1>6. start[e] = s
  BY <1>1, <1>3, <1>4, <1>5, TokenPositions
<1>7. start[e + 1] = IF TokenEnd(t, start[e]) >= e + 1 THEN start[e] ELSE e + 1
  BY <1>2, <1>5 DEF Starts
<1> QED BY <1>1, <1>4, <1>5, <1>6, <1>7 DEF Begins

(* A text begins with a token. *)
LEMMA FirstBegins ==
  ASSUME NEW t, NEW n \in Nat, Len(t) = n, n >= 1
  PROVE  Begins(t, 1)
BY TokenStarts DEF Begins, Starts

(* The quotes like the one at s, after it and up to p. *)
Quotes(t, s, p) == Cardinality({r \in s + 1..p : t[r] = t[s]})

(* Counting the quotes of a literal character by character. *)
LEMMA QuotesCounted ==
  ASSUME NEW t, NEW n \in Nat, NEW s \in 1..n
  PROVE  /\ Quotes(t, s, s) = 0
         /\ \A p \in s..n : Quotes(t, s, p) \in Nat
         /\ \A p \in s + 1..n : Quotes(t, s, p) = Quotes(t, s, p - 1) + IF t[p] = t[s] THEN 1 ELSE 0
<1> DEFINE Set(p) == {r \in s + 1..p : t[r] = t[s]}
<1>1. \A p \in s..n : IsFiniteSet(Set(p))
  <2> SUFFICES ASSUME NEW p \in s..n PROVE IsFiniteSet(Set(p))
    OBVIOUS
  <2>1. IsFiniteSet(s + 1..p)
    BY FS_Interval
  <2>2. Set(p) \subseteq s + 1..p
    OBVIOUS
  <2> HIDE DEF Set
  <2> QED BY <2>1, <2>2, FS_Subset
<1>2. Set(s) = {}
  OBVIOUS
<1>3. \A p \in s + 1..n : /\ t[p] = t[s] => Set(p) = Set(p - 1) \cup {p}
                          /\ t[p] # t[s] => Set(p) = Set(p - 1)
                          /\ p \notin Set(p - 1) /\ p - 1 \in s..n
  OBVIOUS
<1> HIDE DEF Set
<1>4. \A p : Quotes(t, s, p) = Cardinality(Set(p))
  BY DEF Quotes, Set
<1>5. \A p \in s..n : Cardinality(Set(p)) \in Nat
  BY <1>1, FS_CardinalityType
<1>6. Cardinality(Set(s)) = 0
  BY <1>2, FS_EmptySet
<1>7. ASSUME NEW p \in s + 1..n
      PROVE  Cardinality(Set(p)) = Cardinality(Set(p - 1)) + IF t[p] = t[s] THEN 1 ELSE 0
  <2>1. IsFiniteSet(Set(p - 1)) /\ Cardinality(Set(p - 1)) \in Nat
    BY <1>1, <1>3, <1>5
  <2>2. CASE t[p] = t[s]
    <3>1. Cardinality(Set(p - 1) \cup {p}) = Cardinality(Set(p - 1)) + 1
      BY <1>3, <2>1, FS_AddElement
    <3> QED BY <1>3, <2>2, <3>1
  <2>3. CASE t[p] # t[s]
    BY <1>3, <2>1, <2>3
  <2> QED BY <2>2, <2>3
<1> QED BY <1>4, <1>5, <1>6, <1>7

(* A quoted literal that has begun and not ended before p, after an even or an odd number of quotes. *)
OpenedAt(t, p, quote, parity, s) ==
  /\ s \in 1..p - 1 /\ Begins(t, s) /\ t[s] = quote
  /\ Quotes(t, s, p - 1) % 2 = parity
  /\ \A q \in QuotedEnds(t, s) : p <= q

Opened(t, p, quote, parity) == \E s : OpenedAt(t, p, quote, parity, s)

(* A quoted literal ends at a quote that no other follows, after an odd number of them. *)
LEMMA EndsAreOdd ==
  \A t, s, q : q \in QuotedEnds(t, s) <=>
    q \in s + 1..Len(t) /\ t[q] = t[s] /\ ~IsAt(t, q + 1, t[s]) /\ Quotes(t, s, q) % 2 = 1
BY DEF QuotedEnds, Quotes

(* One more changes the parity. *)
LEMMA Parity == \A k \in Nat : (k % 2 = 0 => (k + 1) % 2 = 1) /\ (k % 2 = 1 => (k + 1) % 2 = 0)
OBVIOUS

(* A quote at the start of a token opens a literal. *)
LEMMA QuoteOpens ==
  ASSUME NEW t, NEW n \in Nat, Len(t) = n, NEW p \in 1..n, Begins(t, p)
  PROVE  Opened(t, p + 1, t[p], 0)
<1>1. Quotes(t, p, p) = 0 /\ (p + 1) - 1 = p
  BY QuotesCounted
<1>2. \A q \in QuotedEnds(t, p) : p + 1 <= q
  BY EndsAreOdd
<1>3. p \in 1..(p + 1) - 1
  OBVIOUS
<1>4. OpenedAt(t, p + 1, t[p], 0, p)
  BY <1>1, <1>2, <1>3 DEF OpenedAt
<1> QED BY <1>4 DEF Opened

(* The next character of a literal that does not end there. *)
LEMMA QuotedGoesOn ==
  ASSUME NEW t, NEW n \in Nat, Len(t) = n, NEW p \in 1..n, NEW quote, NEW parity \in {0, 1},
         Opened(t, p, quote, parity), parity = 1 \/ t[p] # quote \/ IsAt(t, p + 1, quote)
  PROVE  Opened(t, p + 1, quote, IF t[p] = quote THEN 1 - parity ELSE parity)
<1>1. PICK s : OpenedAt(t, p, quote, parity, s)
  BY DEF Opened
<1>2. /\ s \in 1..p - 1 /\ s \in 1..n /\ p \in s + 1..n /\ p - 1 \in s..n
      /\ Begins(t, s) /\ t[s] = quote /\ Quotes(t, s, p - 1) % 2 = parity
      /\ \A q \in QuotedEnds(t, s) : p <= q
  BY <1>1 DEF OpenedAt
<1>3. PICK k \in Nat : k = Quotes(t, s, p - 1)
  BY <1>2, QuotesCounted
<1>4. Quotes(t, s, p) = k + IF t[p] = quote THEN 1 ELSE 0
  BY <1>2, <1>3, QuotesCounted
<1>5. Quotes(t, s, p) % 2 = IF t[p] = quote THEN 1 - parity ELSE parity
  <2>1. k % 2 = parity
    BY <1>2, <1>3
  <2>2. CASE t[p] = quote
    <3>1. Quotes(t, s, p) = k + 1
      BY <1>4, <2>2
    <3>2. (k + 1) % 2 = 1 - parity
      BY <2>1, Parity
    <3> QED BY <2>2, <3>1, <3>2
  <2>3. CASE t[p] # quote
    BY <1>4, <2>1, <2>3
  <2> QED BY <2>2, <2>3
<1>6. p \notin QuotedEnds(t, s)
  BY <1>2, <1>5, EndsAreOdd
<1>7. \A q \in QuotedEnds(t, s) : p + 1 <= q
  <2>1. \A q \in QuotedEnds(t, s) : q \in Int /\ p <= q /\ q # p
    BY <1>2, <1>6, EndsAreOdd
  <2> QED BY <2>1
<1>8. (p + 1) - 1 = p /\ s \in 1..(p + 1) - 1
  BY <1>2
<1>9. OpenedAt(t, p + 1, quote, IF t[p] = quote THEN 1 - parity ELSE parity, s)
  BY <1>2, <1>5, <1>7, <1>8 DEF OpenedAt
<1> QED BY <1>9 DEF Opened

(* At its end the next token begins. *)
LEMMA QuotedCloses ==
  ASSUME NEW t, NEW n \in Nat, Len(t) = n, NEW p \in 1..n, NEW quote \in QuoteMarks,
         Opened(t, p, quote, 0), t[p] = quote, ~IsAt(t, p + 1, quote)
  PROVE  p < n => Begins(t, p + 1)
<1>1. PICK s : OpenedAt(t, p, quote, 0, s)
  BY DEF Opened
<1>2. /\ s \in 1..p - 1 /\ s \in 1..n /\ p \in s + 1..n /\ p - 1 \in s..n
      /\ Begins(t, s) /\ t[s] = quote /\ Quotes(t, s, p - 1) % 2 = 0
      /\ \A q \in QuotedEnds(t, s) : p <= q
  BY <1>1 DEF OpenedAt
<1>3. PICK k \in Nat : k = Quotes(t, s, p - 1)
  BY <1>2, QuotesCounted
<1>4. Quotes(t, s, p) = k + 1
  BY <1>2, <1>3, QuotesCounted
<1>5. p \in QuotedEnds(t, s)
  BY <1>2, <1>3, <1>4, Parity, EndsAreOdd
<1>6. FirstOf(QuotedEnds(t, s), n) = p
  <2>1. QuotedEnds(t, s) \in SUBSET (1..n)
    BY <1>2, EndsOfLiterals
  <2>2. PICK f : f = FirstOf(QuotedEnds(t, s), n)
    OBVIOUS
  <2>3. f \in QuotedEnds(t, s) /\ f <= p
    BY <1>5, <2>1, <2>2, FirstOfIndices
  <2>4. p <= f /\ f \in Int
    BY <1>2, <2>1, <2>3
  <2> QED BY <2>2, <2>3, <2>4
<1>7. Kind(t, s) = "quoted"
  BY <1>2, KindByCharacter
<1>8. TokenEnd(t, s) = p
  BY <1>2, <1>6, <1>7, TokenEnds
<1> QED BY <1>2, <1>8, NextBegins

(* Where the scanner is in a quoted literal, the lexer is in its token. *)
LEMMA QuotedInToken ==
  ASSUME NEW t, NEW n \in Nat, Len(t) = n, NEW p \in 1..n, NEW quote \in QuoteMarks, NEW parity,
         Opened(t, p, quote, parity)
  PROVE  LET s == TokenStart(t)[p] IN s < p /\ Kind(t, s) = "quoted" /\ t[s] = quote
<1>1. PICK s : OpenedAt(t, p, quote, parity, s)
  BY DEF Opened
<1>2. /\ s \in 1..p - 1 /\ s \in 1..n
      /\ Begins(t, s) /\ t[s] = quote
      /\ \A q \in QuotedEnds(t, s) : p <= q
  BY <1>1 DEF OpenedAt
<1>3. Kind(t, s) = "quoted"
  BY <1>2, KindByCharacter
<1>4. PICK f : f = FirstOf(QuotedEnds(t, s), n)
  OBVIOUS
<1>5. f = n \/ f \in QuotedEnds(t, s)
  <2>1. QuotedEnds(t, s) \in SUBSET (1..n)
    BY <1>2, EndsOfLiterals
  <2> QED BY <1>4, <2>1, FirstOfIndices
<1>6. TokenEnd(t, s) = f
  BY <1>2, <1>3, <1>4, TokenEnds
<1>7. p \in s..TokenEnd(t, s)
  <2>1. TokenEnd(t, s) \in s..n
    BY <1>2, TokenEndInside
  <2> QED BY <1>2, <1>5, <1>6, <2>1
<1>8. TokenStart(t)[p] = s
  BY <1>2, <1>7, TokenPositions
<1> QED BY <1>2, <1>3, <1>8

-------------------------------------------------------------------------------

(* The form of `$tag$`. *)
LEMMA DelimiterForm ==
  ASSUME NEW tag \in Seq(Char)
  PROVE  /\ Delimiter(tag) \in Seq(Char) /\ Len(Delimiter(tag)) = Len(tag) + 2 /\ Len(tag) \in Nat
         /\ Delimiter(tag)[1] = "$"
<1>1. <<"$">> \in Seq(Char) /\ Len(<<"$">>) = 1 /\ <<"$">>[1] = "$"
  <2>1. "$" \in Char
    BY DEF Char
  <2> QED BY <2>1
<1>2. Len(tag) \in Nat
  BY LenProperties
<1>3. /\ <<"$">> \o tag \in Seq(Char) /\ Len(<<"$">> \o tag) = Len(tag) + 1
      /\ (<<"$">> \o tag)[1] = "$"
  BY <1>1, <1>2, ConcatProperties
<1>4. /\ (<<"$">> \o tag) \o <<"$">> \in Seq(Char)
      /\ Len((<<"$">> \o tag) \o <<"$">>) = Len(tag) + 2
      /\ ((<<"$">> \o tag) \o <<"$">>)[1] = "$"
  BY <1>1, <1>2, <1>3, ConcatProperties
<1> QED BY <1>2, <1>4 DEF Delimiter

(* A delimiter begins with `$` and lies in the text. *)
LEMMA DelimiterInText ==
  ASSUME NEW t, NEW n \in Nat, Len(t) = n, NEW p \in 1..n, NEW tag \in Seq(Char),
         Looks(t, p, Delimiter(tag))
  PROVE  t[p] = "$" /\ p + Len(tag) + 1 \in p + 1..n
<1>1. Len(Delimiter(tag)) = Len(tag) + 2 /\ Len(tag) \in Nat /\ Delimiter(tag)[1] = "$"
  BY DelimiterForm
<1>2. p + Len(tag) + 1 <= n /\ SubSeq(t, p, p + Len(tag) + 1) = Delimiter(tag)
  <2>1. p + Len(Delimiter(tag)) - 1 = p + Len(tag) + 1
    BY <1>1
  <2> QED BY <2>1 DEF Looks
<1>3. SubSeq(t, p, p + Len(tag) + 1)[1] = t[p]
  <2>1. 1 \in 1..(p + Len(tag) + 1) - p + 1
    BY <1>1
  <2>2. PICK e \in Int : e = p + Len(tag) + 1 /\ 1 \in 1..e - p + 1
    BY <1>1, <2>1
  <2>3. SubSeq(t, p, e)[1] = t[p]
    BY <2>2
  <2> QED BY <2>2, <2>3
<1> QED BY <1>1, <1>2, <1>3

(* A dollar-quoted literal with this tag has begun and not ended before p. *)
OpenedDollarAt(t, p, tag, s, open) ==
  /\ s \in 1..p - 1 /\ Begins(t, s) /\ TagEnds(t, s) # {}
  /\ open = Min(TagEnds(t, s)) /\ open < p
  /\ tag = SubSeq(t, s + 1, open - 1)
  /\ \A d \in open + 1..p - 1 : ~Looks(t, d, Delimiter(tag))

OpenedDollar(t, p, tag) == \E s, open : OpenedDollarAt(t, p, tag, s, open)

(* After `$tag$` at the start of a token the literal has begun. *)
LEMMA DollarOpens ==
  ASSUME NEW t, NEW n \in Nat, Len(t) = n, NEW p \in 1..n, Begins(t, p), TagEnds(t, p) # {}
  PROVE  OpenedDollar(t, Min(TagEnds(t, p)) + 1, SubSeq(t, p + 1, Min(TagEnds(t, p)) - 1))
<1>1. PICK open : open = Min(TagEnds(t, p))
  OBVIOUS
<1>2. open \in p + 1..n
  BY <1>1, TagEndsOf
<1>3. p \in 1..(open + 1) - 1 /\ open < open + 1 /\ open + 1..(open + 1) - 1 = {}
  BY <1>2
<1>4. OpenedDollarAt(t, open + 1, SubSeq(t, p + 1, open - 1), p, open)
  BY <1>1, <1>3 DEF OpenedDollarAt
<1> QED BY <1>1, <1>4 DEF OpenedDollar

(* It goes on at every character where its delimiter is not. *)
LEMMA DollarGoesOn ==
  ASSUME NEW t, NEW n \in Nat, Len(t) = n, NEW p \in 1..n, NEW tag,
         OpenedDollar(t, p, tag), ~Looks(t, p, Delimiter(tag))
  PROVE  OpenedDollar(t, p + 1, tag)
<1>1. PICK s, open : OpenedDollarAt(t, p, tag, s, open)
  BY DEF OpenedDollar
<1>2. s \in 1..n /\ open \in s + 1..n /\ open < p /\ s < p
  BY <1>1, TagEndsOf DEF OpenedDollarAt
<1>3. s \in 1..(p + 1) - 1 /\ open < p + 1
  BY <1>2
<1>4. \A d \in open + 1..(p + 1) - 1 : ~Looks(t, d, Delimiter(tag))
  <2>1. \A d \in open + 1..(p + 1) - 1 : d \in open + 1..p - 1 \/ d = p
    BY <1>2
  <2> QED BY <1>1, <2>1 DEF OpenedDollarAt
<1>5. OpenedDollarAt(t, p + 1, tag, s, open)
  BY <1>1, <1>3, <1>4 DEF OpenedDollarAt
<1> QED BY <1>5 DEF OpenedDollar

(* Where the token ends: at the first delimiter after the opening one. *)
LEMMA DollarTokenEnd ==
  ASSUME NEW t, NEW n \in Nat, Len(t) = n, NEW p \in 1..n, NEW tag \in Seq(Char), NEW s, NEW open,
         OpenedDollarAt(t, p, tag, s, open)
  PROVE  /\ s \in 1..n /\ s < p /\ Begins(t, s) /\ Kind(t, s) = "dollar"
         /\ Looks(t, p, Delimiter(tag)) => TokenEnd(t, s) = p + Len(tag) + 1
         /\ p <= TokenEnd(t, s)
<1>1. s \in 1..n /\ s < p /\ Begins(t, s) /\ TagEnds(t, s) # {} /\ open \in s + 1..n /\ open < p
  BY TagEndsOf DEF OpenedDollarAt
<1>2. Kind(t, s) = "dollar"
  BY <1>1, TagEndsOf, KindByCharacter
<1>3. PICK f : f = FirstOf(DollarEnds(t, s), n)
  OBVIOUS
<1>4. TokenEnd(t, s) = f
  BY <1>1, <1>2, <1>3, TokenEnds
<1>5. Len(tag) \in Nat
  BY LenProperties
<1>6. DollarEnds(t, s) =
        {q \in open + 1..n : q - Len(tag) - 1 > open /\ Looks(t, q - Len(tag) - 1, Delimiter(tag))}
  BY DEF DollarEnds, OpenedDollarAt
<1>7. \A q \in DollarEnds(t, s) : q \in 1..n /\ p + Len(tag) + 1 <= q
  <2> SUFFICES ASSUME NEW q \in DollarEnds(t, s) PROVE q \in 1..n /\ p + Len(tag) + 1 <= q
    OBVIOUS
  <2>1. q \in open + 1..n /\ q - Len(tag) - 1 > open /\ Looks(t, q - Len(tag) - 1, Delimiter(tag))
    BY <1>6
  <2>2. PICK d \in Int : d = q - Len(tag) - 1
    BY <1>5, <2>1
  <2>3. ~(d \in open + 1..p - 1)
    BY <2>1, <2>2 DEF OpenedDollarAt
  <2>4. d > open
    BY <2>1, <2>2
  <2> QED BY <1>1, <1>5, <2>1, <2>2, <2>3, <2>4
<1>8. ASSUME Looks(t, p, Delimiter(tag)) PROVE f = p + Len(tag) + 1
  <2>1. PICK e : e = p + Len(tag) + 1
    OBVIOUS
  <2>2. e \in p + 1..n
    BY <1>8, <2>1, DelimiterInText
  <2>3. e - Len(tag) - 1 = p
    BY <1>5, <2>1
  <2>4. e \in DollarEnds(t, s)
    BY <1>1, <1>6, <1>8, <2>2, <2>3
  <2>5. f \in DollarEnds(t, s) /\ f <= e
    <3>1. DollarEnds(t, s) \in SUBSET (1..n)
      BY <1>7
    <3> QED BY <1>3, <2>4, <3>1, FirstOfIndices
  <2>6. f \in Int /\ e <= f
    BY <1>7, <2>1, <2>5
  <2> QED BY <2>1, <2>2, <2>5, <2>6
<1>9. p <= f
  <2>1. DollarEnds(t, s) \in SUBSET (1..n)
    BY <1>7
  <2>2. f = n \/ f \in DollarEnds(t, s)
    BY <1>3, <2>1, FirstOfIndices
  <2>3. CASE f = n
    BY <2>3
  <2>4. CASE f \in DollarEnds(t, s)
    <3>1. f \in 1..n /\ p + Len(tag) + 1 <= f
      BY <1>7, <2>4
    <3> QED BY <1>5, <3>1
  <2> QED BY <2>2, <2>3, <2>4
<1> QED BY <1>1, <1>2, <1>4, <1>8, <1>9

(* After the delimiter the next token begins. *)
LEMMA DollarCloses ==
  ASSUME NEW t, NEW n \in Nat, Len(t) = n, NEW p \in 1..n, NEW tag \in Seq(Char),
         OpenedDollar(t, p, tag), Looks(t, p, Delimiter(tag)), p + Len(tag) + 1 < n
  PROVE  Begins(t, p + Len(tag) + 2)
<1>1. PICK s, open : OpenedDollarAt(t, p, tag, s, open)
  BY DEF OpenedDollar
<1>2. Begins(t, s) /\ TokenEnd(t, s) = p + Len(tag) + 1
  BY <1>1, DollarTokenEnd
<1>3. Begins(t, TokenEnd(t, s) + 1)
  BY <1>2, NextBegins
<1>4. (p + Len(tag) + 1) + 1 = p + Len(tag) + 2
  BY LenProperties
<1> QED BY <1>2, <1>3, <1>4

(* It is the token the lexer is in. *)
LEMMA DollarInToken ==
  ASSUME NEW t, NEW n \in Nat, Len(t) = n, NEW p \in 1..n, NEW tag \in Seq(Char), OpenedDollar(t, p, tag)
  PROVE  LET s == TokenStart(t)[p] IN s < p /\ Kind(t, s) = "dollar"
<1>1. PICK s, open : OpenedDollarAt(t, p, tag, s, open)
  BY DEF OpenedDollar
<1>2. s \in 1..n /\ s < p /\ Begins(t, s) /\ Kind(t, s) = "dollar" /\ p <= TokenEnd(t, s)
  BY <1>1, DollarTokenEnd
<1>3. p \in s..TokenEnd(t, s)
  BY <1>2, TokenEndInside
<1>4. TokenStart(t)[p] = s
  BY <1>2, <1>3, TokenPositions
<1> QED BY <1>2, <1>4

-------------------------------------------------------------------------------
InIdentifier(t, p) ==
  \E s \in 1..Len(t) : s < p /\ Begins(t, s) /\ Kind(t, s) = "identifier" /\ p <= TokenEnd(t, s)

(* Where the scanner is at no literal: at a token or within an identifier. *)
AtPlain(t, p) == Begins(t, p) \/ InIdentifier(t, p)

(* An identifier goes on with the characters that may be in it, and with no others. *)
AtIdentifier(t, p) == InIdentifier(t, p) \/ (Begins(t, p) /\ Kind(t, p) = "identifier")

(* It goes on with the characters that may be in it, and with no others. *)
LEMMA IdentifierOn ==
  ASSUME NEW t, NEW n \in Nat, Len(t) = n, NEW p \in 1..n, p < n, AtIdentifier(t, p)
  PROVE  IF t[p + 1] \in {"x", "1", "$"} THEN InIdentifier(t, p + 1) ELSE Begins(t, p + 1)
<1>1. PICK s \in 1..n : s <= p /\ Begins(t, s) /\ Kind(t, s) = "identifier" /\ p <= TokenEnd(t, s)
  <2>1. CASE InIdentifier(t, p)
    BY <2>1 DEF InIdentifier
  <2>2. CASE Begins(t, p) /\ Kind(t, p) = "identifier"
    <3>1. p <= TokenEnd(t, p)
      BY TokenEndInside
    <3> QED BY <2>2, <3>1
  <2> QED BY <2>1, <2>2 DEF AtIdentifier
<1>2. PICK e \in s..n : e = TokenEnd(t, s) /\ e = IdentifierEnd(t, s) /\ IsLetter(t[s])
  BY <1>1, TokenEndInside, TokenEnds
<1>3. CASE e = p
  <2>1. Begins(t, p + 1)
    BY <1>1, <1>2, <1>3, NextBegins
  <2>2. ~IsLetter(t[p + 1]) /\ t[p + 1] \notin {"1", "$"}
    BY <1>2, <1>3, IdentifierEndOf
  <2> QED BY <2>1, <2>2 DEF IsLetter
<1>4. CASE e # p
  <2>1. s < p + 1 /\ p + 1 <= e
    BY <1>1, <1>2, <1>4
  <2>2. InIdentifier(t, p + 1)
    BY <1>1, <1>2, <2>1 DEF InIdentifier
  <2>3. t[p + 1] \in {"x", "1", "$"}
    <3>1. p + 1 \in s..e
      BY <1>1, <1>2, <2>1
    <3> QED BY <1>2, <3>1, IdentifierEndOf DEF IsLetter
  <2> QED BY <2>2, <2>3
<1> QED BY <1>3, <1>4

(* After a character of an identifier the scanner is at no literal. *)
LEMMA IdentifierGoesOn ==
  ASSUME NEW t, NEW n \in Nat, Len(t) = n, NEW p \in 1..n, p < n, AtIdentifier(t, p)
  PROVE  AtPlain(t, p + 1)
BY IdentifierOn DEF AtPlain

(* An identifier is the token the lexer is in. *)
LEMMA IdentifierInToken ==
  ASSUME NEW t, NEW n \in Nat, Len(t) = n, NEW p \in 1..n, InIdentifier(t, p)
  PROVE  /\ Kind(t, TokenStart(t)[p]) = "identifier"
         /\ t[p] \in {"x", "1", "$"}
<1>1. PICK s \in 1..n : s < p /\ Begins(t, s) /\ Kind(t, s) = "identifier" /\ p <= TokenEnd(t, s)
  BY DEF InIdentifier
<1>2. TokenEnd(t, s) = IdentifierEnd(t, s) /\ IsLetter(t[s])
  BY <1>1, TokenEnds
<1>3. p \in s..TokenEnd(t, s)
  BY <1>1, TokenEndInside
<1>4. IsLetter(t[p]) \/ t[p] \in {"1", "$"}
  BY <1>2, <1>3, IdentifierEndOf
<1>5. TokenStart(t)[p] = s
  BY <1>1, <1>3, TokenPositions
<1> QED BY <1>1, <1>4, <1>5 DEF IsLetter

(* Any other character is a token of its own. *)
LEMMA OtherGoesOn ==
  ASSUME NEW t, NEW n \in Nat, Len(t) = n, NEW p \in 1..n, p < n, Begins(t, p), Kind(t, p) = "other"
  PROVE  Begins(t, p + 1)
<1>1. TokenEnd(t, p) = p
  BY TokenEnds
<1> QED BY <1>1, NextBegins

(* After a comment the newline is a token. *)
LEMMA CommentSkipped ==
  ASSUME NEW t, NEW n \in Nat, Len(t) = n, NEW p \in 1..n, LineEnd(t, p) < n, Begins(t, p),
         Kind(t, p) = "slash comment"
  PROVE  Begins(t, LineEnd(t, p) + 1)
<1>1. TokenEnd(t, p) = LineEnd(t, p)
  BY TokenEnds
<1> QED BY <1>1, NextBegins

DoubleQuote == "\""

(* The first of two double quotes has been taken for the end of the literal. *)
BetweenQuotes(t, p) == t[p] = DoubleQuote /\ Opened(t, p, DoubleQuote, 1)

FlagsFollow ==
  /\ single => Opened(text, pos, "'", 0)
  /\ double => Opened(text, pos, DoubleQuote, 0)
  /\ inDollar => OpenedDollar(text, pos, dollarTag)
  /\ ~single /\ ~double /\ ~inDollar => AtPlain(text, pos) \/ BetweenQuotes(text, pos)

FInv == Plain(text) /\ (pos <= Len(text) => FlagsFollow)

(* Where the scanner stands at a character of the text. *)
Standing == /\ text \in Seq(Char) /\ Len(text) \in Nat /\ pos \in 1..Len(text) /\ text[pos] \in Char
            /\ dollarTag \in Seq(Char)
            /\ Plain(text) /\ FlagsFollow /\ OneLiteralAtATime

Outside == ~single /\ ~double /\ ~inDollar

(* The quotes are told from all other characters. *)
LEMMA Marks ==
  /\ DoubleQuote \in QuoteMarks /\ "'" \in QuoteMarks /\ DoubleQuote # "'"
  /\ DoubleQuote \notin {"$", "/", "-", "x", "1", "blank", "newline"}
BY DEF DoubleQuote, QuoteMarks

(* All characters there are. *)
LEMMA Characters ==
  \A c \in Char : c \in {"'", DoubleQuote, "$", "/", "-", "x", "1", "blank", "newline"}
BY DEF Char, DoubleQuote

(* Outside of literals the scanner is at a token, unless it is at a character that *)
(* an identifier goes on with or at the second of two double quotes.               *)
LEMMA AtToken ==
  ASSUME Standing, Outside, text[pos] \notin {"x", "1", DoubleQuote}
  PROVE  Begins(text, pos)
<1>1. text[pos] # DoubleQuote
  OBVIOUS
<1>2. AtPlain(text, pos)
  BY <1>1 DEF Standing, Outside, FlagsFollow, BetweenQuotes
<1>3. ASSUME InIdentifier(text, pos) PROVE FALSE
  <2>1. text[pos] = "$" /\ Kind(text, TokenStart(text)[pos]) = "identifier"
    BY <1>3, IdentifierInToken DEF Standing
  <2>2. pos \in PositionsOf(text, {"identifier"})
    BY <2>1 DEF PositionsOf, Standing
  <2> QED BY <2>1, <2>2 DEF Standing, Plain, NoDollarInIdentifier
<1> QED BY <1>2, <1>3 DEF AtPlain

(* The tags that the scanner sees are the ones of the lexer. *)
LEMMA SameTags ==
  ASSUME Standing, Outside, text[pos] = "$"
  PROVE  DollarTagEnds(pos) = TagEnds(text, pos)
<1>1. Begins(text, pos)
  BY AtToken, Marks
<1>2. TagEnds(text, pos) \subseteq DollarTagEnds(pos)
  BY DEF TagEnds, DollarTagEnds, IsDollarTagChar
<1>3. CASE TagEnds(text, pos) = {}
  <2>1. Kind(text, pos) = "other"
    BY <1>3, KindByCharacter DEF Standing
  <2>2. pos \in PositionsOf(text, {"other"})
    BY <1>1, <2>1 DEF PositionsOf, Begins, Standing
  <2>3. ~ \E q \in pos + 1..Len(text) : text[q] = "$" /\ \A r \in pos + 1..q - 1 : IsDollarTagChar(text[r])
    BY <2>2 DEF Standing, Plain, NoParameterAsTag
  <2> QED BY <1>3, <2>3 DEF DollarTagEnds
<1>4. CASE TagEnds(text, pos) # {}
  <2>1. PICK e : e \in TagEnds(text, pos)
    BY <1>4
  <2>2. e \in pos + 1..Len(text) /\ text[e] = "$" /\ \A r \in pos + 1..e - 1 : IsDollarTagChar(text[r])
    BY <2>1 DEF TagEnds, IsDollarTagChar
  <2>3. ASSUME NEW q \in DollarTagEnds(pos) PROVE q = e
    <3>1. q \in pos + 1..Len(text) /\ text[q] = "$" /\ \A r \in pos + 1..q - 1 : IsDollarTagChar(text[r])
      BY <2>3 DEF DollarTagEnds
    <3>2. ~IsDollarTagChar("$")
      BY DEF IsDollarTagChar, IsLetter
    <3>3. q \notin pos + 1..e - 1 /\ e \notin pos + 1..q - 1
      BY <2>2, <3>1, <3>2
    <3> QED BY <2>2, <3>1, <3>3 DEF Standing
  <2> QED BY <1>2, <2>1, <2>3
<1> QED BY <1>3, <1>4

-------------------------------------------------------------------------------
(* One lemma for each branch: after it, at a character, the flags still follow. *)

(* Where the flags stay and one character is passed. *)
SameFlags == single' = single /\ double' = double /\ inDollar' = inDollar /\ dollarTag' = dollarTag

(* One lemma for each branch of stripDoubleSlashComment: the flags follow the lexer. *)
LEMMA CopyDollarQuotedFollows ==
  ASSUME Standing, CopyDollarQuoted PROVE FlagsFollow'
<1>1. inDollar /\ ~Looks(text, pos, Delimiter(dollarTag)) /\ text' = text /\ pos' = pos + 1 /\ SameFlags
  BY DEF CopyDollarQuoted, HasDollarTerminator, quoteState, SameFlags
<1>2. ~single /\ ~double
  BY <1>1 DEF Standing, OneLiteralAtATime
<1>3. OpenedDollar(text, pos + 1, dollarTag)
  BY <1>1, DollarGoesOn DEF Standing, FlagsFollow
<1> QED BY <1>1, <1>2, <1>3 DEF FlagsFollow, SameFlags

(* The terminator is the lexer's. *)
LEMMA CloseDollarQuotedFollows ==
  ASSUME Standing, CloseDollarQuoted, pos' <= Len(text) PROVE FlagsFollow'
<1>1. /\ inDollar /\ Looks(text, pos, Delimiter(dollarTag)) /\ text' = text /\ pos' = pos + Len(dollarTag) + 2
      /\ ~inDollar' /\ single' = single /\ double' = double
  BY DEF CloseDollarQuoted, HasDollarTerminator
<1>2. ~single /\ ~double
  BY <1>1 DEF Standing, OneLiteralAtATime
<1>3. pos + Len(dollarTag) + 1 < Len(text)
  BY <1>1, LenProperties DEF Standing
<1>4. Begins(text, pos + Len(dollarTag) + 2)
  BY <1>1, <1>3, DollarCloses DEF Standing, FlagsFollow
<1> QED BY <1>1, <1>2, <1>4 DEF FlagsFollow, AtPlain

(* A tag outside of literals is the lexer's. *)
LEMMA OpenDollarQuotedFollows ==
  ASSUME Standing, OpenDollarQuoted PROVE FlagsFollow'
<1> DEFINE q == Min(DollarTagEnds(pos))
<1>1. /\ Outside /\ text[pos] = "$" /\ DollarTagEnds(pos) # {} /\ text' = text
      /\ pos' = q + 1 /\ inDollar' /\ dollarTag' = SubSeq(text, pos + 1, q - 1)
      /\ single' = single /\ double' = double
  BY DEF OpenDollarQuoted, Scanning, IsAt, Outside
<1>2. DollarTagEnds(pos) = TagEnds(text, pos) /\ Begins(text, pos)
  BY <1>1, SameTags, AtToken, Marks
<1>3. OpenedDollar(text, Min(TagEnds(text, pos)) + 1, SubSeq(text, pos + 1, Min(TagEnds(text, pos)) - 1))
  BY <1>1, <1>2, DollarOpens DEF Standing
<1>4. OpenedDollar(text', pos', dollarTag')
  BY <1>1, <1>2, <1>3
<1> HIDE DEF q
<1> QED BY <1>1, <1>4 DEF FlagsFollow, Outside

(* A doubled quote does not close the string for the lexer either. *)
LEMMA CopyEscapedQuoteFollows ==
  ASSUME Standing, CopyEscapedQuote PROVE FlagsFollow'
<1>1. /\ single /\ text[pos] = "'" /\ IsAt(text, pos + 1, "'") /\ ~inDollar /\ ~double
      /\ text' = text /\ pos' = pos + 2 /\ SameFlags
  BY DEF CopyEscapedQuote, Scanning, IsEscapedQuote, IsAt, quoteState, SameFlags
<1>2. pos + 1 \in 1..Len(text) /\ text[pos + 1] = "'" /\ (pos + 1) + 1 = pos + 2
  BY <1>1 DEF Standing, IsAt
<1>3. Opened(text, pos + 1, "'", 1 - 0)
  BY <1>1, QuotedGoesOn DEF Standing, FlagsFollow
<1>4. Opened(text, (pos + 1) + 1, "'", 1 - 1)
  BY <1>2, <1>3, QuotedGoesOn DEF Standing
<1>5. Opened(text, pos + 2, "'", 0)
  BY <1>2, <1>4
<1> QED BY <1>1, <1>5 DEF FlagsFollow, SameFlags

(* A single quote outside of identifiers. *)
LEMMA ToggleSingleFollows ==
  ASSUME Standing, ToggleSingle, pos' <= Len(text) PROVE FlagsFollow'
<1>1. /\ text[pos] = "'" /\ ~inDollar /\ ~double /\ (single => ~IsAt(text, pos + 1, "'"))
      /\ text' = text /\ pos' = pos + 1 /\ single' = ~single
      /\ double' = double /\ inDollar' = inDollar
  BY DEF ToggleSingle, Scanning, IsEscapedQuote, IsAt
<1>2. pos < Len(text)
  BY <1>1 DEF Standing
<1>3. CASE single
  <2>1. Begins(text, pos + 1)
    BY <1>1, <1>2, <1>3, QuotedCloses, Marks DEF Standing, FlagsFollow
  <2> QED BY <1>1, <1>3, <2>1 DEF FlagsFollow, AtPlain
<1>4. CASE ~single
  <2>1. Begins(text, pos)
    BY <1>1, <1>4, AtToken, Marks DEF Outside
  <2>2. Opened(text, pos + 1, "'", 0)
    BY <1>1, <2>1, QuoteOpens DEF Standing
  <2> QED BY <1>1, <1>4, <2>2 DEF FlagsFollow
<1> QED BY <1>3, <1>4

(* A double quote outside of strings; of two in a row the first closes and the second opens. *)
LEMMA ToggleDoubleFollows ==
  ASSUME Standing, ToggleDouble, pos' <= Len(text) PROVE FlagsFollow'
<1>1. /\ text[pos] = DoubleQuote /\ ~inDollar /\ ~single
      /\ text' = text /\ pos' = pos + 1 /\ double' = ~double
      /\ single' = single /\ inDollar' = inDollar
  BY DEF ToggleDouble, Scanning, IsAt, DoubleQuote
<1>2. pos < Len(text) /\ pos + 1 \in 1..Len(text)
  BY <1>1 DEF Standing
<1>3. CASE double /\ IsAt(text, pos + 1, DoubleQuote)
  <2>1. Opened(text, pos + 1, DoubleQuote, 1 - 0)
    BY <1>1, <1>3, QuotedGoesOn DEF Standing, FlagsFollow
  <2>2. text[pos + 1] = DoubleQuote
    BY <1>3 DEF IsAt
  <2>3. BetweenQuotes(text', pos')
    BY <1>1, <2>1, <2>2 DEF BetweenQuotes
  <2>4. ~single' /\ ~double' /\ ~inDollar'
    BY <1>1, <1>3
  <2> QED BY <2>3, <2>4 DEF FlagsFollow
<1>4. CASE double /\ ~IsAt(text, pos + 1, DoubleQuote)
  <2>1. Begins(text, pos + 1)
    BY <1>1, <1>2, <1>4, QuotedCloses, Marks DEF Standing, FlagsFollow
  <2> QED BY <1>1, <1>4, <2>1 DEF FlagsFollow, AtPlain
<1>5. CASE ~double
  <2>1. Opened(text, pos + 1, DoubleQuote, 0)
    <3>1. AtPlain(text, pos) \/ Opened(text, pos, DoubleQuote, 1)
      BY <1>1, <1>5 DEF Standing, FlagsFollow, BetweenQuotes
    <3>2. ~InIdentifier(text, pos)
      BY <1>1, IdentifierInToken, Marks DEF Standing
    <3>3. CASE Begins(text, pos)
      BY <1>1, <3>3, QuoteOpens DEF Standing
    <3>4. CASE Opened(text, pos, DoubleQuote, 1)
      <4>1. Opened(text, pos + 1, DoubleQuote, 1 - 1)
        BY <1>1, <3>4, QuotedGoesOn DEF Standing
      <4> QED BY <4>1
    <3> QED BY <3>1, <3>2, <3>3, <3>4 DEF AtPlain
  <2> QED BY <1>1, <1>5, <2>1 DEF FlagsFollow
<1> QED BY <1>3, <1>4, <1>5

(* The rest of the line is one token. *)
LEMMA SkipCommentFollows ==
  ASSUME Standing, SkipComment, pos' <= Len(text) PROVE FlagsFollow'
<1>1. /\ Outside /\ text[pos] = "/" /\ IsAt(text, pos + 1, "/")
      /\ text' = text /\ pos' = LineEnd(text, pos) + 1 /\ SameFlags
  BY DEF SkipComment, AtComment, Scanning, IsAt, quoteState, SameFlags, Outside
<1>2. Begins(text, pos)
  BY <1>1, AtToken, Marks
<1>3. Kind(text, pos) = "slash comment"
  BY <1>1, KindByCharacter DEF Standing
<1>4. LineEnd(text, pos) < Len(text)
  <2>1. LineEnd(text, pos) \in pos - 1..Len(text)
    BY LineEndOf DEF Standing
  <2> QED BY <1>1, <2>1 DEF Standing
<1>5. Begins(text, LineEnd(text, pos) + 1)
  BY <1>2, <1>3, <1>4, CommentSkipped DEF Standing
<1> QED BY <1>1, <1>5 DEF FlagsFollow, SameFlags, Outside, AtPlain

(* A character inside of a literal that is no quote of it. *)
LEMMA InsideQuotedFollows ==
  ASSUME Standing, text' = text, pos' = pos + 1, SameFlags, ~inDollar,
         single => text[pos] # "'", double => text[pos] # DoubleQuote, single \/ double
  PROVE  FlagsFollow'
<1>1. single => Opened(text, pos + 1, "'", 0)
  BY QuotedGoesOn DEF Standing, FlagsFollow
<1>2. double => Opened(text, pos + 1, DoubleQuote, 0)
  BY QuotedGoesOn DEF Standing, FlagsFollow
<1> QED BY <1>1, <1>2 DEF FlagsFollow, SameFlags

(* A character of no literal. *)
LEMMA OutsideFollows ==
  ASSUME Standing, text' = text, pos' = pos + 1, SameFlags, Outside, AtPlain(text, pos + 1)
  PROVE  FlagsFollow'
BY DEF FlagsFollow, SameFlags, Outside

(* A character the scanner has no branch for. *)
LEMMA CopyPlainFollows ==
  ASSUME Standing, CopyPlain, pos' <= Len(text) PROVE FlagsFollow'
<1>1. /\ ~inDollar /\ text[pos] # "newline"
      /\ text[pos] = "'" => double
      /\ text[pos] = DoubleQuote => single
      /\ text[pos] = "$" => single \/ double \/ DollarTagEnds(pos) = {}
      /\ text[pos] = "/" => single \/ double \/ ~IsAt(text, pos + 1, "/")
      /\ text' = text /\ pos' = pos + 1 /\ SameFlags
  <2>1. pos <= Len(text)
    BY DEF Standing
  <2> QED BY <2>1 DEF CopyPlain, AtComment, Scanning, IsAt, quoteState, SameFlags, DoubleQuote
<1>2. ~(single /\ double)
  BY DEF Standing, OneLiteralAtATime
<1>3. CASE single \/ double
  <2>1. (single => text[pos] # "'") /\ (double => text[pos] # DoubleQuote)
    BY <1>1, <1>2
  <2> QED BY <1>1, <1>3, <2>1, InsideQuotedFollows
<1>4. CASE ~single /\ ~double
  <2>1. Outside /\ pos < Len(text)
    BY <1>1, <1>4 DEF Outside, Standing
  <2>2. AtPlain(text, pos)
    BY <1>1, <1>4 DEF Standing, FlagsFollow, BetweenQuotes
  <2>3. CASE InIdentifier(text, pos)
    <3>1. AtPlain(text, pos + 1)
      BY <2>1, <2>3, IdentifierGoesOn DEF Standing, AtIdentifier
    <3> QED BY <1>1, <2>1, <3>1, OutsideFollows
  <2>4. CASE Begins(text, pos)
    <3>1. text[pos] \in {"$", "/", "-", "x", "1", "blank"}
      BY <1>1, <1>4, Characters DEF Standing
    <3>2. Kind(text, pos) \in {"identifier", "other"}
      <4>1. CASE text[pos] = "$"
        <5>1. TagEnds(text, pos) = {}
          BY <1>1, <2>1, <4>1, SameTags DEF Outside
        <5> QED BY <4>1, <5>1, KindByCharacter DEF Standing
      <4>2. CASE text[pos] = "-"
        <5>1. Kind(text, pos) \in {"line comment", "other"}
          BY <4>2, KindByCharacter DEF Standing
        <5>2. Kind(text, pos) # "line comment"
          <6>1. Kind(text, pos) = "line comment" => pos \in PositionsOf(text, {"line comment"})
            BY <2>4 DEF PositionsOf, Begins
          <6> QED BY <6>1 DEF Standing, Plain, NoLineComment
        <5> QED BY <5>1, <5>2
      <4>3. CASE text[pos] = "/"
        BY <1>1, <1>4, <4>3, KindByCharacter DEF Standing
      <4>4. CASE text[pos] \in {"x", "1", "blank"}
        BY <4>4, KindByCharacter DEF Standing
      <4> QED BY <3>1, <4>1, <4>2, <4>3, <4>4
    <3>3. AtPlain(text, pos + 1)
      <4>1. CASE Kind(text, pos) = "identifier"
        BY <2>1, <2>4, <4>1, IdentifierGoesOn DEF Standing, AtIdentifier
      <4>2. CASE Kind(text, pos) = "other"
        <5>1. Begins(text, pos + 1)
          BY <2>1, <2>4, <4>2, OtherGoesOn DEF Standing
        <5> QED BY <5>1 DEF AtPlain
      <4> QED BY <3>2, <4>1, <4>2
    <3> QED BY <1>1, <2>1, <3>3, OutsideFollows
  <2> QED BY <2>2, <2>3, <2>4 DEF AtPlain
<1> QED BY <1>3, <1>4

(* A newline. *)
LEMMA EndLineFollows ==
  ASSUME Standing, EndLine, pos' <= Len(text) PROVE FlagsFollow'
<1>1. text[pos] = "newline" /\ text' = text /\ pos' = pos + 1 /\ SameFlags
  BY DEF EndLine, IsAt, quoteState, SameFlags
<1>2. CASE inDollar
  <2>1. ~single /\ ~double
    BY <1>2 DEF Standing, OneLiteralAtATime
  <2>2. ~Looks(text, pos, Delimiter(dollarTag))
    BY <1>1, DelimiterInText DEF Standing
  <2>3. OpenedDollar(text, pos + 1, dollarTag)
    BY <1>2, <2>2, DollarGoesOn DEF Standing, FlagsFollow
  <2> QED BY <1>1, <1>2, <2>1, <2>3 DEF FlagsFollow, SameFlags
<1>3. CASE ~inDollar /\ (single \/ double)
  BY <1>1, <1>3, InsideQuotedFollows, Marks
<1>4. CASE Outside
  <2>1. Begins(text, pos)
    BY <1>1, <1>4, AtToken, Marks
  <2>2. Kind(text, pos) = "other"
    BY <1>1, KindByCharacter DEF Standing
  <2>3. pos < Len(text)
    BY <1>1 DEF Standing
  <2>4. AtPlain(text, pos + 1)
    BY <2>1, <2>2, <2>3, OtherGoesOn DEF Standing, AtPlain
  <2> QED BY <1>1, <1>4, <2>4, OutsideFollows
<1> QED BY <1>2, <1>3, <1>4 DEF Outside

-------------------------------------------------------------------------------

(* Every step keeps the flags with the lexer. *)
LEMMA FollowsAlong ==
  ASSUME IInv, OneLiteralAtATime, FInv, [Next]_vars
  PROVE  FInv'
<1>1. text' = text
  BY DEF Next, vars, CopyDollarQuoted, CloseDollarQuoted, OpenDollarQuoted, CopyEscapedQuote, ToggleSingle,
         ToggleDouble, SkipComment, CopyPlain, EndLine, Finish
<1>2. Plain(text')
  BY <1>1 DEF FInv
<1>3. ASSUME pos' <= Len(text), Next PROVE FlagsFollow'
  <2>1. Len(text) \in Nat /\ pos \in 1..Len(text) + 1
    BY LenProperties DEF IInv, ScannerTypeOK
  <2>2. pos <= Len(text)
    <3>1. CASE pos = Len(text) + 1
      <4>1. Finish
        <5>1. ~(pos <= Len(text))
          BY <2>1, <3>1
        <5> QED BY <1>3, <5>1 DEF Next, CopyDollarQuoted, CloseDollarQuoted, OpenDollarQuoted, CopyEscapedQuote,
              ToggleSingle, ToggleDouble, SkipComment, AtComment, CopyPlain, EndLine, Scanning, IsAt
      <4>2. pos' = pos
        BY <4>1 DEF Finish
      <4> QED BY <1>3, <2>1, <3>1, <4>2
    <3> QED BY <2>1, <3>1
  <2>3. Standing
    <3>1. text \in Seq(Char) /\ dollarTag \in Seq(Char) /\ pos \in 1..Len(text)
      BY <2>1, <2>2 DEF IInv, ScannerTypeOK
    <3>2. text[pos] \in Char
      BY <3>1, ElementOfSeq
    <3> QED BY <2>1, <2>2, <3>1, <3>2 DEF Standing, FInv
  <2>4. ~Finish
    BY <2>1, <2>2 DEF Finish
  <2> QED BY <1>3, <2>3, <2>4, CopyDollarQuotedFollows, CloseDollarQuotedFollows, OpenDollarQuotedFollows,
             CopyEscapedQuoteFollows, ToggleSingleFollows, ToggleDoubleFollows, SkipCommentFollows,
             CopyPlainFollows, EndLineFollows DEF Next
<1>4. ASSUME UNCHANGED vars PROVE FInv'
  BY <1>4 DEF vars, FInv, FlagsFollow
<1>5. CASE Next
  BY <1>1, <1>2, <1>3, <1>5 DEF FInv
<1> QED BY <1>4, <1>5

(* Inside of a literal for the scanner is inside of one for the lexer. *)
LEMMA FollowingAgrees ==
  ASSUME IInv, OneLiteralAtATime, FInv
  PROVE  ScannerFollowsLexer
<1> DEFINE s == TokenStart(text)[pos]
           kind == Kind(text, s)
<1>1. SUFFICES ASSUME ~done, pos <= Len(text), text[pos] # DoubleQuote
               PROVE  /\ single <=> s < pos /\ kind = "quoted" /\ text[s] = "'"
                      /\ double <=> s < pos /\ kind = "quoted" /\ text[s] = DoubleQuote
                      /\ inDollar <=> s < pos /\ kind = "dollar"
  BY DEF ScannerFollowsLexer, DoubleQuote
<1>2. Len(text) \in Nat /\ pos \in 1..Len(text) /\ dollarTag \in Seq(Char)
  BY <1>1, LenProperties DEF IInv, ScannerTypeOK
<1>3. FlagsFollow /\ single \in BOOLEAN /\ double \in BOOLEAN /\ inDollar \in BOOLEAN
  BY <1>1 DEF FInv, IInv, ScannerTypeOK
<1>4. ~(single /\ double) /\ (inDollar => ~single /\ ~double)
  BY DEF OneLiteralAtATime
<1>5. CASE single
  <2>1. s < pos /\ kind = "quoted" /\ text[s] = "'"
    BY <1>2, <1>3, <1>5, QuotedInToken, Marks DEF FlagsFollow
  <2> HIDE DEF s, kind
  <2> QED BY <1>4, <1>5, <2>1, Marks
<1>6. CASE double
  <2>1. s < pos /\ kind = "quoted" /\ text[s] = DoubleQuote
    BY <1>2, <1>3, <1>6, QuotedInToken, Marks DEF FlagsFollow
  <2> HIDE DEF s, kind
  <2> QED BY <1>4, <1>6, <2>1, Marks
<1>7. CASE inDollar
  <2>1. s < pos /\ kind = "dollar"
    BY <1>2, <1>3, <1>7, DollarInToken DEF FlagsFollow
  <2> HIDE DEF s, kind
  <2> QED BY <1>4, <1>7, <2>1
<1>8. CASE Outside
  <2>1. AtPlain(text, pos)
    BY <1>1, <1>3, <1>8 DEF FlagsFollow, Outside, BetweenQuotes
  <2>2. ~(s < pos) \/ kind = "identifier"
    <3>1. CASE Begins(text, pos)
      BY <1>2, <3>1 DEF Begins
    <3>2. CASE InIdentifier(text, pos)
      BY <1>2, <3>2, IdentifierInToken
    <3> QED BY <2>1, <3>1, <3>2 DEF AtPlain
  <2> HIDE DEF s, kind
  <2> QED BY <1>8, <2>2 DEF Outside
<1> QED BY <1>5, <1>6, <1>7, <1>8 DEF Outside

(* At the first character the scanner and the lexer are in no literal. *)
LEMMA FollowsFirst ==
  ASSUME Init, \A t \in Inputs : Plain(t)
  PROVE  FInv
<1>1. Plain(text) /\ Len(text) \in Nat
  BY InputsAssumption, LenProperties DEF Init
<1>2. pos = 1 /\ ~single /\ ~double /\ ~inDollar
  BY DEF Init
<1>3. pos <= Len(text) => Begins(text, pos)
  BY <1>1, <1>2, FirstBegins
<1> QED BY <1>1, <1>2, <1>3 DEF FInv, FlagsFollow, AtPlain

(* On plain texts of any length the scanner of preprocess.go:63-98 is in a *)
(* literal where the lexer is in one, of the same kind.                    *)
THEOREM FollowsLexer ==
  ASSUME \A t \in Inputs : Plain(t)
  PROVE  Spec => []ScannerFollowsLexer
<1>1. Init => FInv
  BY FollowsFirst
<1>2. IInv /\ OneLiteralAtATime /\ FInv /\ [Next]_vars => FInv'
  BY FollowsAlong
<1>3. IInv /\ OneLiteralAtATime /\ FInv => ScannerFollowsLexer
  BY FollowingAgrees
<1> QED BY <1>1, <1>2, <1>3, InvariantHolds, FlagsExclusive, PTL DEF Spec

-------------------------------------------------------------------------------
(* What the sequences of positions hold. *)
Places(ps) == {ps[k] : k \in DOMAIN ps}

(* The order of positions is the order in which they are written. *)
LEMMA AscendingOrder ==
  ASSUME NEW n \in Nat, NEW b, NEW ps, Ascending(ps, n, b)
  PROVE  \A k, l \in 1..Len(ps) : k <= l <=> ps[k] <= ps[l]
<1>1. Len(ps) \in Nat /\ DOMAIN ps = 1..Len(ps) /\ \A k \in 1..Len(ps) : ps[k] \in Int
  BY LenProperties, ElementOfSeq DEF Ascending
<1>2. \A k, l \in 1..Len(ps) : k < l => ps[k] < ps[l]
  BY <1>1 DEF Ascending
<1> SUFFICES ASSUME NEW k \in 1..Len(ps), NEW l \in 1..Len(ps) PROVE k <= l <=> ps[k] <= ps[l]
  OBVIOUS
<1>3. k < l \/ k = l \/ l < k
  OBVIOUS
<1>4. ps[k] \in Int /\ ps[l] \in Int
  BY <1>1
<1> QED BY <1>2, <1>3, <1>4

(* Write adds the positions from pos to q. *)
LEMMA WritePlaces ==
  ASSUME IInv, pos <= Len(text), NEW q \in pos..Len(text)
  PROVE  Places(Write(q)) = Places(kept) \cup pos..q
<1> DEFINE n == Len(text)
           run == [k \in 1..q - pos + 1 |-> pos + k - 1]
<1>1. n \in Nat /\ pos \in 1..n /\ kept \in Seq(1..n)
  BY LenProperties DEF IInv, ScannerTypeOK
<1>2. run \in Seq(1..n) /\ Len(run) = q - pos + 1 /\ \A k \in 1..Len(run) : run[k] = pos + k - 1
  <2>1. q - pos + 1 \in Nat /\ \A k \in 1..q - pos + 1 : pos + k - 1 \in 1..n
    BY <1>1
  <2> QED BY <2>1
<1>3. Write(q) = kept \o run
  BY DEF Write
<1> HIDE DEF run, n
<1>4. PICK T : T = 1..n
  OBVIOUS
<1>5. kept \in Seq(T) /\ run \in Seq(T)
  BY <1>1, <1>2, <1>4
<1>6. /\ \A i \in 1..Len(kept) : i \in DOMAIN (kept \o run) /\ (kept \o run)[i] = kept[i]
      /\ \A k \in 1..Len(run) : Len(kept) + k \in DOMAIN (kept \o run) /\ (kept \o run)[Len(kept) + k] = run[k]
      /\ \A i \in DOMAIN (kept \o run) : i \in 1..Len(kept) \/ \E k \in 1..Len(run) : i = Len(kept) + k
  BY <1>5, ConcatPlaces
<1>7. DOMAIN kept = 1..Len(kept)
  BY <1>1, LenProperties
<1>8. \A x \in Places(kept \o run) : x \in Places(kept) \/ x \in pos..q
  <2> SUFFICES ASSUME NEW i \in DOMAIN (kept \o run)
               PROVE  (kept \o run)[i] \in Places(kept) \/ (kept \o run)[i] \in pos..q
    BY DEF Places
  <2>1. CASE i \in 1..Len(kept)
    BY <1>6, <1>7, <2>1 DEF Places
  <2>2. CASE i \notin 1..Len(kept)
    <3>1. PICK k \in 1..Len(run) : i = Len(kept) + k
      BY <1>6, <2>2
    <3>2. (kept \o run)[i] = pos + k - 1
      BY <1>2, <1>6, <3>1
    <3>3. pos + k - 1 \in pos..q
      BY <1>1, <1>2
    <3> QED BY <3>2, <3>3
  <2> QED BY <2>1, <2>2
<1>9. \A x \in Places(kept) : x \in Places(kept \o run)
  BY <1>6, <1>7 DEF Places
<1>10. \A x \in pos..q : x \in Places(kept \o run)
  <2> SUFFICES ASSUME NEW x \in pos..q PROVE x \in Places(kept \o run)
    OBVIOUS
  <2>1. PICK k \in 1..Len(run) : k = x - pos + 1
    BY <1>1, <1>2
  <2>2. run[k] = x
    BY <1>1, <1>2, <2>1
  <2> QED BY <1>6, <2>2 DEF Places
<1> QED BY <1>3, <1>8, <1>9, <1>10

(* Append adds one. *)
LEMMA AppendPlaces ==
  ASSUME NEW S, NEW ps \in Seq(S), NEW p \in S
  PROVE  Places(Append(ps, p)) = Places(ps) \cup {p}
<1>1. Len(ps) \in Nat /\ DOMAIN ps = 1..Len(ps)
  BY LenProperties
<1>2. /\ DOMAIN Append(ps, p) = 1..Len(ps) + 1
      /\ \A k \in 1..Len(ps) + 1 : Append(ps, p)[k] = IF k <= Len(ps) THEN ps[k] ELSE p
  BY <1>1
<1>3. \A k \in 1..Len(ps) + 1 : k \in 1..Len(ps) \/ k = Len(ps) + 1
  BY <1>1
<1>4. Len(ps) + 1 \in 1..Len(ps) + 1 /\ \A k \in 1..Len(ps) : k \in 1..Len(ps) + 1
  BY <1>1
<1>5. \A k \in 1..Len(ps) : Append(ps, p)[k] = ps[k]
  BY <1>1, <1>2, <1>4
<1>6. Append(ps, p)[Len(ps) + 1] = p
  BY <1>1, <1>2, <1>4
<1> QED BY <1>1, <1>2, <1>3, <1>4, <1>5, <1>6 DEF Places

(* A part of a sequence. *)
LEMMA PartPlaces ==
  ASSUME NEW n \in Nat, NEW b \in Int, NEW ps, Ascending(ps, n, b),
         NEW i \in 1..Len(ps), NEW j \in 1..Len(ps)
  PROVE  Places(SubSeq(ps, i, j)) = {ps[k] : k \in i..j}
<1>1. ps \in Seq(1..n) /\ Len(ps) \in Nat
  BY LenProperties DEF Ascending
<1>2. \A k \in i..j : ps[k] \in 1..n
  BY <1>1, ElementOfSeq
<1>3. /\ SubSeq(ps, i, j) \in Seq(1..n)
      /\ Len(SubSeq(ps, i, j)) = IF i <= j THEN j - i + 1 ELSE 0
      /\ \A k \in 1..j - i + 1 : SubSeq(ps, i, j)[k] = ps[i + k - 1]
  BY <1>1, <1>2, SubSeqProperties
<1>4. DOMAIN SubSeq(ps, i, j) = 1..j - i + 1
  BY <1>1, <1>3, LenProperties
<1>5. ASSUME NEW k \in 1..j - i + 1 PROVE SubSeq(ps, i, j)[k] \in {ps[m] : m \in i..j}
  <2>1. i + k - 1 \in i..j
    OBVIOUS
  <2> QED BY <1>3, <2>1
<1>6. ASSUME NEW m \in i..j PROVE ps[m] \in Places(SubSeq(ps, i, j))
  <2>1. PICK k \in 1..j - i + 1 : k = m - i + 1
    OBVIOUS
  <2>2. i + k - 1 = m
    BY <2>1
  <2>3. SubSeq(ps, i, j)[k] = ps[m]
    BY <1>3, <2>2
  <2> QED BY <1>4, <2>3 DEF Places
<1> QED BY <1>4, <1>5, <1>6 DEF Places

(* Trimming leaves what stands before something solid. *)
LEMMA TrimRightPlaces ==
  ASSUME NEW n \in Nat, NEW b \in Int, NEW ps, Ascending(ps, n, b), NEW space
  PROVE  Places(TrimRight(ps, space)) = {x \in Places(ps) : \E y \in Places(ps) : x <= y /\ text[y] \notin space}
<1> DEFINE solid == {k \in DOMAIN ps : text[ps[k]] \notin space}
<1>1. Len(ps) \in Nat /\ DOMAIN ps = 1..Len(ps) /\ \A k \in 1..Len(ps) : ps[k] \in Int
  BY LenProperties, ElementOfSeq DEF Ascending
<1>2. CASE solid = {}
  <2>1. Places(TrimRight(ps, space)) = {}
    BY <1>2 DEF TrimRight, Places
  <2>2. \A y \in Places(ps) : text[y] \in space
    BY <1>2 DEF Places
  <2> QED BY <2>1, <2>2
<1>3. CASE solid # {}
  <2>1. PICK m : m = Max(solid)
    OBVIOUS
  <2>2. m \in solid /\ \A k \in solid : m >= k
    <3>1. solid \in SUBSET (1..Len(ps))
      BY <1>1
    <3> HIDE DEF solid
    <3> QED BY <1>1, <1>3, <2>1, <3>1, MaxOfIndices
  <2>3. m \in 1..Len(ps) /\ 1 \in 1..Len(ps)
    BY <1>1, <2>2
  <2>4. TrimRight(ps, space) = SubSeq(ps, 1, m)
    BY <1>3, <2>1 DEF TrimRight
  <2>5. Places(TrimRight(ps, space)) = {ps[k] : k \in 1..m}
    <3>1. PICK one : one = 1
      OBVIOUS
    <3>2. Places(SubSeq(ps, one, m)) = {ps[k] : k \in one..m}
      BY <2>3, <3>1, PartPlaces
    <3> QED BY <2>4, <3>1, <3>2
  <2>6. \A k, l \in 1..Len(ps) : k <= l <=> ps[k] <= ps[l]
    BY AscendingOrder
  <2>7. \A k \in 1..m : k \in 1..Len(ps) /\ ps[k] <= ps[m] /\ text[ps[m]] \notin space
    BY <2>2, <2>3, <2>6
  <2>8. \A k, l \in 1..Len(ps) : ps[k] <= ps[l] /\ text[ps[l]] \notin space => k \in 1..m
    <3> SUFFICES ASSUME NEW k \in 1..Len(ps), NEW l \in 1..Len(ps), ps[k] <= ps[l], text[ps[l]] \notin space
                 PROVE  k \in 1..m
      OBVIOUS
    <3>1. k <= l
      BY <2>6
    <3>2. l \in solid
      BY <1>1
    <3>3. l <= m
      BY <2>2, <2>3, <3>2
    <3> QED BY <2>3, <3>1, <3>3
  <2> QED BY <1>1, <2>3, <2>5, <2>7, <2>8 DEF Places
<1> QED BY <1>2, <1>3

White == {"blank", "newline"}

(* Trimming on both sides. *)
LEMMA TrimSpacePlaces ==
  ASSUME NEW n \in Nat, NEW b \in Int, NEW ps, Ascending(ps, n, b)
  PROVE  Places(TrimSpace(ps)) =
           {x \in Places(ps) : /\ \E y \in Places(ps) : x <= y /\ text[y] \notin White
                               /\ \E y \in Places(ps) : y <= x /\ text[y] \notin White}
<1> DEFINE right == TrimRight(ps, White)
           solid == {k \in DOMAIN right : text[right[k]] \notin White}
<1>1. Ascending(right, n, b)
  BY TrimRightAscending
<1>2. Places(right) = {x \in Places(ps) : \E y \in Places(ps) : x <= y /\ text[y] \notin White}
  BY TrimRightPlaces
<1>3. TrimSpace(ps) = IF solid = {} THEN << >> ELSE SubSeq(right, Min(solid), Len(right))
  BY DEF TrimSpace, White
<1> HIDE DEF right
<1>4. Len(right) \in Nat /\ DOMAIN right = 1..Len(right) /\ \A k \in 1..Len(right) : right[k] \in Int
  BY <1>1, LenProperties, ElementOfSeq DEF Ascending
<1>5. \A x \in Places(ps) : x \in Int
  BY LenProperties, ElementOfSeq DEF Ascending, Places
<1>6. \A y \in Places(ps) : text[y] \notin White => y \in Places(right)
  BY <1>2, <1>5
<1>7. Places(TrimSpace(ps)) = {x \in Places(right) : \E y \in Places(right) : y <= x /\ text[y] \notin White}
  <2>1. CASE solid = {}
    <3>1. Places(TrimSpace(ps)) = {}
      BY <1>3, <2>1 DEF Places
    <3>2. \A y \in Places(right) : text[y] \in White
      BY <2>1 DEF Places
    <3> QED BY <3>1, <3>2
  <2>2. CASE solid # {}
    <3>1. PICK m : m = Min(solid)
      OBVIOUS
    <3>2. m \in solid /\ \A k \in solid : m <= k
      <4>1. solid \in SUBSET (1..Len(right))
        BY <1>4
      <4> HIDE DEF solid
      <4> QED BY <1>4, <2>2, <3>1, <4>1, MinOfIndices
    <3>3. m \in 1..Len(right) /\ Len(right) \in 1..Len(right)
      BY <1>4, <3>2
    <3>4. TrimSpace(ps) = SubSeq(right, m, Len(right))
      BY <1>3, <2>2, <3>1
    <3>5. Places(TrimSpace(ps)) = {right[k] : k \in m..Len(right)}
      BY <1>1, <3>3, <3>4, PartPlaces
    <3>6. \A k, l \in 1..Len(right) : k <= l <=> right[k] <= right[l]
      BY <1>1, AscendingOrder
    <3>7. \A k \in m..Len(right) : k \in 1..Len(right) /\ right[m] <= right[k] /\ text[right[m]] \notin White
      BY <3>2, <3>3, <3>6
    <3>8. \A k, l \in 1..Len(right) : right[l] <= right[k] /\ text[right[l]] \notin White => k \in m..Len(right)
      <4> SUFFICES ASSUME NEW k \in 1..Len(right), NEW l \in 1..Len(right),
                          right[l] <= right[k], text[right[l]] \notin White
                   PROVE  k \in m..Len(right)
        OBVIOUS
      <4>1. l <= k
        BY <3>6
      <4>2. l \in solid
        BY <1>4
      <4>3. m <= l
        BY <3>2, <4>2
      <4> QED BY <3>3, <4>1, <4>3
    <3> QED BY <1>4, <3>3, <3>5, <3>7, <3>8 DEF Places
  <2> QED BY <2>1, <2>2
<1> QED BY <1>2, <1>6, <1>7

-------------------------------------------------------------------------------
Dropped == PositionsOf(text, {"slash comment"})

(* The blanks at the end of a line, with or without a comment after them. *)
Trimmed(p) == text[p] = "blank" /\ BlankBetween(Dropped, p, LineEnd(text, p))

(* What is kept of the text before b, where the lines that have ended are trimmed. *)
Written(b) == {p \in 1..Len(text) : p < b /\ p \notin Dropped /\ (LineEnd(text, p) + 1 < b => ~Trimmed(p))}

(* What the code keeps of literals, too: all but the blanks at line ends.   *)
KeptExactly ==
  done =>
    LET dropped == PositionsOf(text, {"slash comment"}) IN
    /\ KeptPositions =
         {p \in 1..Len(text) \ dropped :
            /\ ~BlankBetween(dropped, 1, p) /\ ~BlankBetween(dropped, p, Len(text))
            /\ text[p] = "blank" => ~BlankBetween(dropped, p, LineEnd(text, p))}

KInv == (~done => Places(kept) = Written(pos)) /\ KeptExactly

(* While a line goes on nothing is trimmed. *)
LEMMA WrittenOn ==
  ASSUME NEW n \in Nat, Len(text) = n, NEW b \in 1..n + 1, NEW c \in b..n + 1,
         \A r \in b..c - 1 : text[r] # "newline"
  PROVE  Written(c) = Written(b) \cup ((b..c - 1) \ Dropped)
<1>1. ASSUME NEW p \in 1..n, LineEnd(text, p) + 1 < c PROVE LineEnd(text, p) + 1 < b
  <2>1. PICK e \in p - 1..n : e = LineEnd(text, p)
    BY LineEndOf
  <2>2. e < n
    BY <1>1, <2>1
  <2>3. text[e + 1] = "newline"
    BY <2>1, <2>2, LineEndOf
  <2>4. e + 1 \notin b..c - 1
    BY <2>3
  <2> QED BY <1>1, <2>1, <2>4
<1>2. ASSUME NEW p \in 1..n, p >= b PROVE ~(LineEnd(text, p) + 1 < c)
  <2>1. PICK e \in p - 1..n : e = LineEnd(text, p)
    BY LineEndOf
  <2> QED BY <1>1, <1>2, <2>1
<1>3. \A p \in 1..n : p < c <=> p < b \/ p \in b..c - 1
  OBVIOUS
<1>4. ASSUME NEW p \in 1..n, p < b PROVE LineEnd(text, p) + 1 < b => LineEnd(text, p) + 1 < c
  <2>1. PICK e \in p - 1..n : e = LineEnd(text, p)
    BY LineEndOf
  <2> QED BY <2>1
<1>5. \A p \in b..c - 1 : p \in 1..n /\ p >= b /\ p < c /\ ~(p < b)
  OBVIOUS
<1>6. \A p \in 1..n : p < b => p < c
  OBVIOUS
<1> QED BY <1>1, <1>2, <1>3, <1>4, <1>5, <1>6 DEF Written

(* The line is trimmed. *)
LEMMA LineTrimmed ==
  ASSUME NEW n \in Nat, Len(text) = n, NEW b \in 1..n + 1, b = n + 1 \/ text[b] = "newline",
         NEW ps, Ascending(ps, n, b), Places(ps) = Written(b)
  PROVE  Places(TrimLine(ps)) = {p \in 1..n : p < b /\ p \notin Dropped /\ ~Trimmed(p)}
<1>1. Places(TrimLine(ps)) = {x \in Written(b) : \E y \in Written(b) : x <= y /\ text[y] \notin {"blank"}}
  BY TrimRightPlaces DEF TrimLine
<1>2. ASSUME NEW x \in Written(b), NEW y \in Written(b), x <= y, text[y] # "blank"
      PROVE  ~Trimmed(x)
  <2> SUFFICES ASSUME Trimmed(x), ~(LineEnd(text, x) + 1 < b) PROVE FALSE
    BY <1>2 DEF Written
  <2>1. x \in 1..n /\ y \in 1..n /\ y < b /\ y \notin Dropped
    BY DEF Written
  <2>2. PICK e \in x - 1..n : e = LineEnd(text, x)
    BY <2>1, LineEndOf
  <2>3. y \in x..e
    BY <1>2, <2>1, <2>2
  <2>4. text[y] \in {"blank", "newline"}
    BY <2>1, <2>2, <2>3 DEF Trimmed, BlankBetween
  <2>5. text[y] # "newline"
    BY <2>1, <2>2, <2>3, LineEndOf
  <2> QED BY <1>2, <2>4, <2>5
<1>3. ASSUME NEW x \in 1..n, x < b, x \notin Dropped, ~Trimmed(x)
      PROVE  x \in Written(b) /\ \E y \in Written(b) : x <= y /\ text[y] # "blank"
  <2>1. x \in Written(b)
    BY <1>3 DEF Written
  <2>2. CASE text[x] # "blank"
    BY <2>1, <2>2
  <2>3. CASE text[x] = "blank"
    <3>1. PICK e \in x - 1..n : e = LineEnd(text, x)
      BY LineEndOf
    <3>2. PICK r \in x..e : r \notin Dropped /\ text[r] \notin {"blank", "newline"}
      BY <1>3, <2>3, <3>1 DEF Trimmed, BlankBetween
    <3>3. e < b
      <4>1. CASE b = n + 1
        BY <4>1
      <4>2. CASE text[b] = "newline" /\ b # n + 1
        <5>1. b \notin x..e
          BY <3>1, <4>2, LineEndOf
        <5> QED BY <1>3, <3>1, <5>1
      <4> QED BY <4>1, <4>2
    <3>4. r \in Written(b)
      BY <3>1, <3>2, <3>3 DEF Written, Trimmed
    <3> QED BY <2>1, <3>2, <3>4
  <2> QED BY <2>2, <2>3
<1>4. \A x \in Written(b) : x \in 1..n /\ x < b /\ x \notin Dropped
  BY DEF Written
<1> QED BY <1>1, <1>2, <1>3, <1>4

-------------------------------------------------------------------------------
(* Where the code does not begin to skip, the character is not of a comment. *)
LEMMA NotOfComment ==
  ASSUME Standing, ~(Outside /\ text[pos] = "/" /\ IsAt(text, pos + 1, "/"))
  PROVE  pos \notin Dropped
<1>1. SUFFICES Kind(text, TokenStart(text)[pos]) # "slash comment"
  BY DEF Dropped, PositionsOf
<1>2. CASE single
  BY <1>2, QuotedInToken, Marks DEF Standing, FlagsFollow
<1>3. CASE double
  BY <1>3, QuotedInToken, Marks DEF Standing, FlagsFollow
<1>4. CASE inDollar
  BY <1>4, DollarInToken DEF Standing, FlagsFollow
<1>5. CASE Outside /\ BetweenQuotes(text, pos)
  BY <1>5, QuotedInToken, Marks DEF Standing, BetweenQuotes
<1>6. CASE Outside /\ InIdentifier(text, pos)
  BY <1>6, IdentifierInToken DEF Standing
<1>7. CASE Outside /\ Begins(text, pos)
  <2>1. TokenStart(text)[pos] = pos
    BY <1>7 DEF Begins
  <2>2. text[pos] \in {"'", DoubleQuote, "$", "/", "-", "x", "1", "blank", "newline"}
    BY Characters DEF Standing
  <2>3. text[pos] \in {"'", DoubleQuote} => Kind(text, pos) = "quoted"
    BY Marks, KindByCharacter DEF Standing
  <2>4. text[pos] \in {"$", "/", "-", "x", "1", "blank", "newline"} => Kind(text, pos) # "slash comment"
    BY <1>7, KindByCharacter DEF Standing
  <2> QED BY <2>1, <2>2, <2>3, <2>4
<1> QED BY <1>2, <1>3, <1>4, <1>5, <1>6, <1>7 DEF Outside, Standing, FlagsFollow, AtPlain

(* After a run of characters of no comment has been written. *)
LEMMA WriteKeeps ==
  ASSUME IInv, Standing, Places(kept) = Written(pos), NEW q \in pos..Len(text),
         \A r \in pos..q : r \notin Dropped /\ text[r] # "newline"
  PROVE  Places(Write(q)) = Written(q + 1)
<1>1. Len(text) \in Nat /\ pos \in 1..Len(text)
  BY DEF Standing
<1>2. q + 1 \in pos..Len(text) + 1 /\ pos \in 1..Len(text) + 1 /\ (q + 1) - 1 = q
  BY <1>1
<1>3. Written(q + 1) = Written(pos) \cup ((pos..q) \ Dropped)
  BY <1>1, <1>2, WrittenOn
<1>4. Places(Write(q)) = Places(kept) \cup pos..q
  BY <1>1, WritePlaces
<1> QED BY <1>3, <1>4

(* For one character, wherever no comment begins. *)
LEMMA WriteOneKeeps ==
  ASSUME IInv, Standing, Places(kept) = Written(pos), text[pos] # "newline",
         ~(Outside /\ text[pos] = "/" /\ IsAt(text, pos + 1, "/"))
  PROVE  Places(Write(pos)) = Written(pos + 1)
<1>1. pos \in pos..Len(text) /\ \A r \in pos..pos : r = pos
  BY DEF Standing
<1> QED BY <1>1, NotOfComment, WriteKeeps

(* The characters of a dollar-quoted literal's delimiters. *)
LEMMA TagCharacters ==
  ASSUME NEW t \in Seq(Char), NEW n \in Nat, Len(t) = n, NEW s \in 1..n, TagEnds(t, s) # {},
         NEW r \in s..Min(TagEnds(t, s))
  PROVE  t[r] # "newline"
<1>1. PICK open : open = Min(TagEnds(t, s)) /\ open \in TagEnds(t, s) /\ open \in s + 1..n
  BY TagEndsOf
<1>2. t[s] = "$" /\ t[open] = "$" /\ \A i \in s + 1..open - 1 : IsLetter(t[i]) \/ t[i] = "1"
  BY <1>1 DEF TagEnds
<1>3. r = s \/ r = open \/ r \in s + 1..open - 1
  BY <1>1
<1> QED BY <1>2, <1>3 DEF IsLetter

(* The same for the terminator. *)
LEMMA DelimiterCharacters ==
  ASSUME NEW t \in Seq(Char), NEW n \in Nat, Len(t) = n, NEW p \in 1..n, NEW tag,
         OpenedDollar(t, p, tag), Looks(t, p, Delimiter(tag))
  PROVE  \A r \in p..p + Len(tag) + 1 : t[r] \in {"$", "x", "1"}
<1>1. PICK s, open : OpenedDollarAt(t, p, tag, s, open)
  BY DEF OpenedDollar
<1> DEFINE C == {"$", "x", "1"}
<1>2. s \in 1..n /\ open \in TagEnds(t, s) /\ open \in s + 1..n /\ tag = SubSeq(t, s + 1, open - 1)
  BY <1>1, TagEndsOf DEF OpenedDollarAt
<1>3. \A i \in s + 1..open - 1 : t[i] \in C
  BY <1>2 DEF TagEnds, IsLetter
<1>4. tag \in Seq(C) /\ Len(tag) \in Nat
  <2>1. PICK a, z \in Int : a = s + 1 /\ z = open - 1 /\ a \in 1..n /\ z \in 0..n
    BY <1>2
  <2>2. \A i \in a..z : t[i] \in C
    BY <1>3, <2>1
  <2>3. tag = SubSeq(t, a, z)
    BY <1>2, <2>1
  <2> HIDE DEF C
  <2>4. tag \in Seq(C)
    BY <2>1, <2>2, <2>3
  <2> QED BY <2>4, LenProperties
<1>5. /\ Delimiter(tag) \in Seq(C) /\ Len(Delimiter(tag)) = Len(tag) + 2
  <2>1. <<"$">> \in Seq(C) /\ Len(<<"$">>) = 1
    OBVIOUS
  <2> HIDE DEF C
  <2>2. <<"$">> \o tag \in Seq(C) /\ Len(<<"$">> \o tag) = Len(tag) + 1
    BY <1>4, <2>1, ConcatProperties
  <2>3. /\ (<<"$">> \o tag) \o <<"$">> \in Seq(C)
        /\ Len((<<"$">> \o tag) \o <<"$">>) = Len(tag) + 2
    BY <1>4, <2>1, <2>2, ConcatProperties
  <2> QED BY <2>3 DEF Delimiter
<1>6. PICK e \in Int : e = p + Len(tag) + 1 /\ e >= p
  BY <1>4
<1>7. SubSeq(t, p, e) = Delimiter(tag)
  <2>1. p + Len(Delimiter(tag)) - 1 = e
    BY <1>4, <1>5, <1>6
  <2> QED BY <2>1 DEF Looks
<1>8. ASSUME NEW r \in p..e PROVE t[r] \in C
  <2>1. PICK i \in 1..Len(tag) + 2 : i = r - p + 1
    BY <1>4, <1>6
  <2>2. SubSeq(t, p, e)[i] = t[r]
    BY <1>4, <1>6, <2>1
  <2>3. Delimiter(tag)[i] \in C
    <3> HIDE DEF C
    <3> QED BY <1>5, <2>1, ElementOfSeq
  <2> QED BY <1>7, <2>2, <2>3
<1> QED BY <1>6, <1>8

-------------------------------------------------------------------------------
(* What each branch has written. *)

WrittenNext == Places(kept') = Written(pos')

(* One lemma for each branch: it has written what is to be kept. *)
LEMMA CopyDollarQuotedWrites ==
  ASSUME IInv, Standing, Places(kept) = Written(pos), CopyDollarQuoted
  PROVE  WrittenNext
<1>1. kept' = Write(pos) /\ pos' = pos + 1 /\ text[pos] # "newline" /\ ~Outside
  BY DEF CopyDollarQuoted, Outside
<1> QED BY <1>1, WriteOneKeeps DEF WrittenNext

(* The terminator is kept as a whole. *)
LEMMA CloseDollarQuotedWrites ==
  ASSUME IInv, Standing, Places(kept) = Written(pos), CloseDollarQuoted
  PROVE  WrittenNext
<1> DEFINE q == pos + Len(dollarTag) + 1
<1>1. /\ inDollar /\ Looks(text, pos, Delimiter(dollarTag)) /\ kept' = Write(q) /\ pos' = pos + Len(dollarTag) + 2
  BY DEF CloseDollarQuoted, HasDollarTerminator
<1>2. OpenedDollar(text, pos, dollarTag)
  BY <1>1 DEF Standing, FlagsFollow
<1>3. q \in pos + 1..Len(text)
  BY <1>1, DelimiterInText DEF Standing
<1>4. q \in pos..Len(text) /\ pos' = q + 1
  <2>1. Len(dollarTag) \in Nat
    BY LenProperties DEF Standing
  <2> QED BY <1>1, <1>3, <2>1 DEF Standing
<1>5. \A r \in pos..q : text[r] # "newline"
  BY <1>1, <1>2, DelimiterCharacters DEF Standing
<1>6. ASSUME NEW r \in pos..q PROVE r \notin Dropped
  <2>1. PICK s, open : OpenedDollarAt(text, pos, dollarTag, s, open)
    BY <1>2 DEF OpenedDollar
  <2>2. /\ s \in 1..Len(text) /\ s < pos /\ Begins(text, s) /\ Kind(text, s) = "dollar"
        /\ TokenEnd(text, s) = q
    BY <1>1, <2>1, DollarTokenEnd DEF Standing
  <2>3. r \in s..TokenEnd(text, s)
    BY <1>4, <2>2 DEF Standing
  <2>4. TokenStart(text)[r] = s
    BY <2>2, <2>3, TokenPositions DEF Standing
  <2> QED BY <2>2, <2>4 DEF Dropped, PositionsOf
<1> HIDE DEF q
<1> QED BY <1>1, <1>4, <1>5, <1>6, WriteKeeps DEF WrittenNext

(* So is the opening tag. *)
LEMMA OpenDollarQuotedWrites ==
  ASSUME IInv, Standing, Places(kept) = Written(pos), OpenDollarQuoted
  PROVE  WrittenNext
<1>1. PICK q : q = Min(DollarTagEnds(pos))
  OBVIOUS
<1>2. /\ Outside /\ text[pos] = "$" /\ DollarTagEnds(pos) # {}
      /\ kept' = Write(q) /\ pos' = q + 1
  BY <1>1 DEF OpenDollarQuoted, Scanning, IsAt, Outside
<1>3. DollarTagEnds(pos) = TagEnds(text, pos) /\ Begins(text, pos)
  BY <1>2, SameTags, AtToken, Marks
<1>4. q \in pos + 1..Len(text)
  BY <1>1, <1>2, <1>3, TagEndsOf DEF Standing
<1>5. \A r \in pos..q : text[r] # "newline"
  BY <1>1, <1>2, <1>3, TagCharacters DEF Standing
<1>6. Kind(text, pos) = "dollar" /\ TokenEnd(text, pos) = FirstOf(DollarEnds(text, pos), Len(text))
  BY <1>2, <1>3, KindByCharacter, TokenEnds DEF Standing
<1>7. q <= TokenEnd(text, pos)
  <2>1. DollarEnds(text, pos) \subseteq q + 1..Len(text)
    BY <1>1, <1>3 DEF DollarEnds
  <2>2. DollarEnds(text, pos) \in SUBSET (1..Len(text))
    BY <1>4, <2>1 DEF Standing
  <2>3. PICK f : f = FirstOf(DollarEnds(text, pos), Len(text))
    OBVIOUS
  <2>4. f = Len(text) \/ f \in DollarEnds(text, pos)
    BY <2>2, <2>3, FirstOfIndices DEF Standing
  <2> QED BY <1>4, <1>6, <2>1, <2>3, <2>4 DEF Standing
<1>8. ASSUME NEW r \in pos..q PROVE r \notin Dropped
  <2>1. TokenEnd(text, pos) \in pos..Len(text)
    BY TokenEndInside DEF Standing
  <2>2. r \in pos..TokenEnd(text, pos)
    BY <1>4, <1>7, <2>1
  <2>3. TokenStart(text)[r] = pos
    BY <1>3, <2>2, TokenPositions DEF Standing
  <2> QED BY <1>6, <2>3 DEF Dropped, PositionsOf
<1>9. q \in pos..Len(text)
  BY <1>4 DEF Standing
<1> QED BY <1>2, <1>5, <1>8, <1>9, WriteKeeps DEF WrittenNext

(* Both of two single quotes are kept. *)
LEMMA CopyEscapedQuoteWrites ==
  ASSUME IInv, Standing, Places(kept) = Written(pos), CopyEscapedQuote
  PROVE  WrittenNext
<1>1. /\ single /\ text[pos] = "'" /\ IsAt(text, pos + 1, "'")
      /\ kept' = Write(pos + 1) /\ pos' = pos + 2
  BY DEF CopyEscapedQuote, Scanning, IsEscapedQuote, IsAt
<1>2. pos + 1 \in 1..Len(text) /\ text[pos + 1] = "'" /\ pos + 1 \in pos..Len(text)
  BY <1>1 DEF Standing, IsAt
<1>3. Opened(text, pos + 1, "'", 1 - 0)
  BY <1>1, QuotedGoesOn DEF Standing, FlagsFollow
<1>4. pos + 1 \notin Dropped
  <2>1. PICK p \in 1..Len(text) : p = pos + 1
    BY <1>2
  <2>2. Kind(text, TokenStart(text)[p]) = "quoted"
    BY <1>3, <2>1, QuotedInToken, Marks DEF Standing
  <2> QED BY <2>1, <2>2 DEF Dropped, PositionsOf
<1>5. pos \notin Dropped
  BY <1>1, NotOfComment DEF Outside
<1>6. \A r \in pos..pos + 1 : r = pos \/ r = pos + 1
  BY DEF Standing
<1>7. Places(Write(pos + 1)) = Written((pos + 1) + 1)
  BY <1>1, <1>2, <1>4, <1>5, <1>6, WriteKeeps
<1>8. (pos + 1) + 1 = pos + 2
  BY DEF Standing
<1> QED BY <1>1, <1>7, <1>8 DEF WrittenNext

(* A quote is kept. *)
LEMMA TogglesWrite ==
  ASSUME IInv, Standing, Places(kept) = Written(pos), ToggleSingle \/ ToggleDouble
  PROVE  WrittenNext
<1>1. kept' = Write(pos) /\ pos' = pos + 1 /\ text[pos] \in {"'", DoubleQuote}
  BY DEF ToggleSingle, ToggleDouble, Scanning, IsAt, DoubleQuote
<1>2. text[pos] # "/" /\ text[pos] # "newline"
  BY <1>1, Marks
<1> QED BY <1>1, <1>2, WriteOneKeeps DEF WrittenNext

(* So is any other character outside of comments. *)
LEMMA CopyPlainWrites ==
  ASSUME IInv, Standing, Places(kept) = Written(pos), CopyPlain
  PROVE  WrittenNext
<1>1. /\ kept' = Write(pos) /\ pos' = pos + 1 /\ text[pos] # "newline"
      /\ ~(Outside /\ text[pos] = "/" /\ IsAt(text, pos + 1, "/"))
  <2>1. pos <= Len(text)
    BY DEF Standing
  <2> QED BY <2>1 DEF CopyPlain, AtComment, Scanning, IsAt, Outside
<1> QED BY <1>1, WriteOneKeeps DEF WrittenNext

(* Of a comment nothing is kept. *)
LEMMA SkipCommentWrites ==
  ASSUME IInv, Standing, Places(kept) = Written(pos), SkipComment
  PROVE  WrittenNext
<1>1. /\ Outside /\ text[pos] = "/" /\ IsAt(text, pos + 1, "/")
      /\ pos' = LineEnd(text, pos) + 1 /\ kept' = kept
  BY DEF SkipComment, AtComment, Scanning, IsAt, Outside
<1>2. Begins(text, pos) /\ Kind(text, pos) = "slash comment"
  BY <1>1, AtToken, Marks, KindByCharacter DEF Standing
<1>3. TokenEnd(text, pos) = LineEnd(text, pos) /\ TokenEnd(text, pos) \in pos..Len(text)
  BY <1>2, TokenEnds, TokenEndInside DEF Standing
<1>4. PICK e \in pos..Len(text) : e = LineEnd(text, pos)
  BY <1>3
<1>5. \A r \in pos..e : text[r] # "newline"
  BY <1>4, LineEndOf DEF Standing
<1>6. ASSUME NEW r \in pos..e PROVE r \in Dropped
  <2>1. r \in 1..Len(text) /\ TokenStart(text)[r] = pos
    BY <1>2, <1>3, <1>4, TokenPositions DEF Standing
  <2> QED BY <1>2, <2>1 DEF Dropped, PositionsOf
<1>7. e + 1 \in pos..Len(text) + 1 /\ (e + 1) - 1 = e /\ pos \in 1..Len(text) + 1
  BY DEF Standing
<1>8. Written(e + 1) = Written(pos) \cup ((pos..e) \ Dropped)
  BY <1>5, <1>7, WrittenOn DEF Standing
<1> QED BY <1>1, <1>4, <1>6, <1>8 DEF WrittenNext

(* At its newline a line is trimmed. *)
LEMMA EndLineWrites ==
  ASSUME IInv, Standing, Places(kept) = Written(pos), EndLine
  PROVE  WrittenNext
<1> DEFINE n == Len(text)
<1>1. text[pos] = "newline" /\ kept' = Append(TrimLine(kept), pos) /\ pos' = pos + 1
  BY DEF EndLine, IsAt
<1>2. n \in Nat /\ pos \in 1..n /\ pos \in 1..n + 1 /\ Ascending(kept, n, pos)
  BY DEF Standing, IInv
<1>3. Ascending(TrimLine(kept), n, pos)
  BY <1>2, TrimRightAscending DEF TrimLine
<1>4. Places(Append(TrimLine(kept), pos)) = Places(TrimLine(kept)) \cup {pos}
  BY <1>2, <1>3, AppendPlaces DEF Ascending
<1>5. Places(TrimLine(kept)) = {p \in 1..n : p < pos /\ p \notin Dropped /\ ~Trimmed(p)}
  BY <1>1, <1>2, LineTrimmed
<1>6. pos \notin Dropped /\ ~Trimmed(pos)
  BY <1>1, NotOfComment DEF Trimmed
<1>7. ASSUME NEW p \in 1..n, p < pos PROVE LineEnd(text, p) + 1 < pos + 1
  <2>1. PICK e \in p - 1..n : e = LineEnd(text, p)
    BY LineEndOf
  <2>2. pos \notin p..e
    BY <1>1, <2>1, LineEndOf
  <2> QED BY <1>2, <1>7, <2>1, <2>2
<1>8. \A p \in 1..n : p < pos + 1 <=> p < pos \/ p = pos
  BY <1>2
<1>9. Written(pos + 1) = {p \in 1..n : p < pos /\ p \notin Dropped /\ ~Trimmed(p)} \cup {pos}
  BY <1>2, <1>6, <1>7, <1>8 DEF Written
<1> QED BY <1>1, <1>4, <1>5, <1>9 DEF WrittenNext

(* The last line is trimmed, and then the whole text. *)
LEMMA FinishKeeps ==
  ASSUME IInv, Places(kept) = Written(pos), Finish
  PROVE  KeptExactly'
<1> DEFINE n == Len(text)
           line == TrimLine(kept)
<1>1. pos > n /\ kept' = TrimSpace(line) /\ text' = text
  BY DEF Finish
<1>2. n \in Nat /\ pos = n + 1 /\ Ascending(kept, n, pos)
  BY <1>1, LenProperties DEF IInv, ScannerTypeOK
<1>3. Ascending(line, n, pos)
  BY <1>2, TrimRightAscending DEF TrimLine
<1>4. Places(line) = {p \in 1..n : p \notin Dropped /\ ~Trimmed(p)}
  <2>1. pos \in 1..n + 1 /\ \A p \in 1..n : p < pos
    BY <1>2
  <2>2. Places(line) = {p \in 1..n : p < pos /\ p \notin Dropped /\ ~Trimmed(p)}
    BY <1>2, <2>1, LineTrimmed
  <2> QED BY <2>1, <2>2
<1>5. Places(TrimSpace(line)) =
           {x \in Places(line) : /\ \E y \in Places(line) : x <= y /\ text[y] \notin White
                                 /\ \E y \in Places(line) : y <= x /\ text[y] \notin White}
  <2> HIDE DEF line
  <2> QED BY <1>2, <1>3, TrimSpacePlaces
<1> HIDE DEF line, n
<1>6. \A y \in 1..n : y \in Places(line) /\ text[y] \notin White <=> y \notin Dropped /\ text[y] \notin White
  BY <1>4 DEF Trimmed, White
<1>7. ASSUME NEW x \in 1..n
      PROVE  /\ (\E y \in Places(line) : x <= y /\ text[y] \notin White) <=> ~BlankBetween(Dropped, x, n)
             /\ (\E y \in Places(line) : y <= x /\ text[y] \notin White) <=> ~BlankBetween(Dropped, 1, x)
  <2>1. \A y \in Places(line) : y \in 1..n
    BY <1>4
  <2>2. \A y : y \in x..n <=> y \in 1..n /\ x <= y
    BY <1>2
  <2>3. \A y : y \in 1..x <=> y \in 1..n /\ y <= x
    BY <1>2
  <2> QED BY <1>6, <2>1, <2>2, <2>3 DEF BlankBetween, White
<1>8. Places(TrimSpace(line)) =
        {p \in 1..n \ Dropped :
           /\ ~BlankBetween(Dropped, 1, p) /\ ~BlankBetween(Dropped, p, n)
           /\ text[p] = "blank" => ~BlankBetween(Dropped, p, LineEnd(text, p))}
  BY <1>4, <1>5, <1>7 DEF Trimmed
<1>9. KeptPositions' = Places(TrimSpace(line))
  BY <1>1 DEF KeptPositions, Places
<1> QED BY <1>1, <1>8, <1>9 DEF KeptExactly, BlankBetween, Dropped, n

(* What the invariants say at a character. *)
LEMMA StandsAt ==
  ASSUME IInv, OneLiteralAtATime, FInv, pos <= Len(text)
  PROVE  Standing
<1>1. Len(text) \in Nat /\ pos \in 1..Len(text) + 1
  BY LenProperties DEF IInv, ScannerTypeOK
<1>2. text \in Seq(Char) /\ dollarTag \in Seq(Char) /\ pos \in 1..Len(text)
  BY <1>1 DEF IInv, ScannerTypeOK
<1>3. text[pos] \in Char
  BY <1>2, ElementOfSeq
<1> QED BY <1>1, <1>2, <1>3 DEF Standing, FInv

(* Written depends on the text and the position only. *)
LEMMA WrittenSame ==
  ASSUME text' = text, WrittenNext
  PROVE  Places(kept)' = Written(pos)'
BY DEF WrittenNext, Places, Written, Dropped, Trimmed, BlankBetween

(* Every step has written what is to be kept. *)
LEMMA KeptAlong ==
  ASSUME IInv, OneLiteralAtATime, FInv, KInv, [Next]_vars
  PROVE  KInv'
<1>1. CASE UNCHANGED vars
  <2>1. text' = text /\ pos' = pos /\ kept' = kept /\ done' = done
    BY <1>1 DEF vars
  <2>2. KeptExactly' <=> KeptExactly
    BY <2>1 DEF KeptExactly, KeptPositions, BlankBetween
  <2>3. Places(kept)' = Places(kept) /\ Written(pos)' = Written(pos)
    BY <2>1 DEF Places, Written, Dropped, Trimmed, BlankBetween
  <2> QED BY <2>1, <2>2, <2>3 DEF KInv
<1>2. CASE Finish
  <2>1. ~done /\ done'
    BY <1>2 DEF Finish
  <2> QED BY <1>2, <2>1, FinishKeeps DEF KInv
<1>3. CASE Next /\ ~Finish
  <2>1. text' = text /\ ~done /\ done' = done
    BY <1>3 DEF Next, CopyDollarQuoted, CloseDollarQuoted, OpenDollarQuoted, CopyEscapedQuote, ToggleSingle,
         ToggleDouble, SkipComment, AtComment, CopyPlain, EndLine, Scanning, quoteState
  <2>2. pos <= Len(text)
    BY <1>3 DEF Next, CopyDollarQuoted, CloseDollarQuoted, OpenDollarQuoted, CopyEscapedQuote, ToggleSingle,
         ToggleDouble, SkipComment, AtComment, CopyPlain, EndLine, Scanning, IsAt
  <2>3. Standing /\ Places(kept) = Written(pos)
    BY <2>1, <2>2, StandsAt DEF KInv
  <2>4. WrittenNext
    BY <1>3, <2>3, CopyDollarQuotedWrites, CloseDollarQuotedWrites, OpenDollarQuotedWrites,
       CopyEscapedQuoteWrites, TogglesWrite, SkipCommentWrites, CopyPlainWrites, EndLineWrites DEF Next
  <2>5. Places(kept)' = Written(pos)'
    BY <2>1, <2>4, WrittenSame
  <2>6. KeptExactly'
    BY <2>1 DEF KeptExactly
  <2> QED BY <2>5, <2>6 DEF KInv
<1> QED BY <1>1, <1>2, <1>3

-------------------------------------------------------------------------------
(* What the answer holds, at the end. *)
Finished == done /\ ScannerTypeOK /\ KeptInOrder /\ KeptExactly /\ Plain(text)

Kept(p) == p \in KeptPositions

(* The answer's positions. *)
LEMMA KeptFacts ==
  ASSUME Finished
  PROVE  /\ text \in Seq(Char) /\ Len(text) \in Nat /\ \A p \in 1..Len(text) : text[p] \in Char
         /\ Len(kept) \in Nat /\ DOMAIN kept = 1..Len(kept)
         /\ \A k \in 1..Len(kept) : kept[k] \in 1..Len(text) /\ Kept(kept[k])
         /\ \A k, l \in 1..Len(kept) : k < l <=> kept[k] < kept[l]
         /\ \A p \in 1..Len(text) : Kept(p) => p \notin Dropped /\ \E k \in 1..Len(kept) : kept[k] = p
         /\ \A p \in 1..Len(text) : p \notin Dropped /\ text[p] \notin White => Kept(p)
<1>1. text \in Seq(Char) /\ kept \in Seq(1..Len(text))
  BY DEF Finished, ScannerTypeOK
<1>2. /\ Len(text) \in Nat /\ \A p \in 1..Len(text) : text[p] \in Char
      /\ Len(kept) \in Nat /\ DOMAIN kept = 1..Len(kept)
  BY <1>1, LenProperties, ElementOfSeq
<1>3. \A k \in 1..Len(kept) : kept[k] \in 1..Len(text) /\ Kept(kept[k])
  BY <1>1, <1>2, ElementOfSeq DEF Kept, KeptPositions
<1>4. \A k, l \in 1..Len(kept) : k < l <=> kept[k] < kept[l]
  <2> SUFFICES ASSUME NEW k \in 1..Len(kept), NEW l \in 1..Len(kept) PROVE k < l <=> kept[k] < kept[l]
    OBVIOUS
  <2>1. (k < l => kept[k] < kept[l]) /\ (l < k => kept[l] < kept[k])
    BY <1>2 DEF Finished, KeptInOrder
  <2>2. kept[k] \in Int /\ kept[l] \in Int /\ (k < l \/ k = l \/ l < k)
    BY <1>3
  <2> QED BY <2>1, <2>2
<1>5. KeptPositions = {p \in 1..Len(text) \ Dropped :
            /\ ~BlankBetween(Dropped, 1, p) /\ ~BlankBetween(Dropped, p, Len(text))
            /\ text[p] = "blank" => ~BlankBetween(Dropped, p, LineEnd(text, p))}
  BY DEF Finished, KeptExactly, Dropped
<1>6. ASSUME NEW p \in 1..Len(text), Kept(p) PROVE p \notin Dropped /\ \E k \in 1..Len(kept) : kept[k] = p
  BY <1>2, <1>5, <1>6 DEF Kept, KeptPositions
<1>7. ASSUME NEW p \in 1..Len(text), p \notin Dropped, text[p] \notin White PROVE Kept(p)
  <2>1. p \in 1..p /\ p \in p..Len(text)
    BY <1>2
  <2> QED BY <1>5, <1>7, <2>1 DEF Kept, BlankBetween, White
<1> QED BY <1>1, <1>2, <1>3, <1>4, <1>6, <1>7

(* Between two characters that are kept nothing is white space around the text. *)
LEMMA BetweenKept ==
  ASSUME Finished, NEW p \in 1..Len(text), NEW q \in 1..Len(text), NEW r \in p..q, Kept(p), Kept(q), r \notin Dropped,
         text[r] = "blank" => ~BlankBetween(Dropped, r, LineEnd(text, r))
  PROVE  Kept(r)
<1>1. KeptPositions = {x \in 1..Len(text) \ Dropped :
            /\ ~BlankBetween(Dropped, 1, x) /\ ~BlankBetween(Dropped, x, Len(text))
            /\ text[x] = "blank" => ~BlankBetween(Dropped, x, LineEnd(text, x))}
  BY DEF Finished, KeptExactly, Dropped
<1>2. Len(text) \in Nat
  BY KeptFacts
<1>3. \A x \in 1..p : x \in 1..r
  OBVIOUS
<1>4. \A x \in q..Len(text) : x \in r..Len(text)
  BY <1>2
<1>5. ~BlankBetween(Dropped, 1, p) /\ ~BlankBetween(Dropped, q, Len(text))
  BY <1>1 DEF Kept
<1>6. ~BlankBetween(Dropped, 1, r) /\ ~BlankBetween(Dropped, r, Len(text))
  BY <1>3, <1>4, <1>5 DEF BlankBetween
<1>7. r \in 1..Len(text)
  BY <1>2
<1> QED BY <1>1, <1>6, <1>7 DEF Kept

(* A comment goes from its start to the end of the line. *)
LEMMA CommentExtent ==
  ASSUME Finished, NEW p \in Dropped
  PROVE  /\ p \in 1..Len(text)
         /\ \E s \in 1..p : /\ Begins(text, s) /\ Kind(text, s) = "slash comment"
                            /\ TokenEnd(text, s) = LineEnd(text, s) /\ p <= LineEnd(text, s)
                            /\ \A r \in s..LineEnd(text, s) : r \in Dropped /\ text[r] # "newline"
<1>1. Len(text) \in Nat
  BY KeptFacts
<1>2. p \in 1..Len(text) /\ Kind(text, TokenStart(text)[p]) = "slash comment"
  BY DEF Dropped, PositionsOf
<1>3. PICK s : s = TokenStart(text)[p]
  OBVIOUS
<1>4. Begins(text, s) /\ s <= p /\ p <= TokenEnd(text, s) /\ s \in 1..Len(text)
  BY <1>1, <1>2, <1>3, InItsToken DEF Begins
<1>5. s \in 1..p
  <2>1. p \in 1..Len(text) /\ s \in 1..Len(text)
    BY <1>2, <1>4
  <2>2. s <= p
    BY <1>4
  <2>3. PICK n : n = Len(text)
    OBVIOUS
  <2> QED BY <1>1, <2>1, <2>2, <2>3
<1>6. TokenEnd(text, s) = LineEnd(text, s)
  BY <1>1, <1>2, <1>3, <1>4, TokenEnds
<1>7. ASSUME NEW r \in s..LineEnd(text, s) PROVE r \in Dropped /\ text[r] # "newline"
  <2>1. r \in 1..Len(text) /\ TokenStart(text)[r] = s
    BY <1>1, <1>4, <1>6, TokenPositions
  <2>2. text[r] # "newline"
    BY <1>1, <1>4, LineEndOf
  <2> QED BY <1>2, <1>3, <2>1, <2>2 DEF Dropped, PositionsOf
<1> QED BY <1>2, <1>3, <1>4, <1>5, <1>6, <1>7

(* No newline goes with a comment. *)
LEMMA NewlineStays ==
  ASSUME Finished, NEW p \in 1..Len(text), text[p] = "newline"
  PROVE  p \notin Dropped
<1>1. SUFFICES ASSUME p \in Dropped PROVE FALSE
  OBVIOUS
<1>2. PICK s \in 1..p : p <= LineEnd(text, s) /\ \A r \in s..LineEnd(text, s) : text[r] # "newline"
  BY <1>1, CommentExtent
<1>3. LineEnd(text, s) \in Int
  <2>1. s \in 1..Len(text) /\ Len(text) \in Nat
    BY KeptFacts
  <2> QED BY <2>1, LineEndOf
<1>4. p \in s..LineEnd(text, s)
  BY <1>2, <1>3
<1> QED BY <1>2, <1>4

(* The newlines between two characters of the answer are those of the text. *)
LEMMA FinishedKeepsLines ==
  ASSUME Finished
  PROVE  LinesKept
<1>1. SUFFICES ASSUME NEW k \in DOMAIN kept, NEW l \in DOMAIN kept, k < l
               PROVE  Newlines(kept[k], kept[l]) = Cardinality({m \in k..l : text[kept[m]] = "newline"})
  BY DEF LinesKept
<1> DEFINE A == {m \in k..l : text[kept[m]] = "newline"}
           B == {r \in kept[k]..kept[l] : text[r] = "newline"}
           f == [m \in A |-> kept[m]]
<1>2. /\ k \in 1..Len(kept) /\ l \in 1..Len(kept)
      /\ kept[k] \in 1..Len(text) /\ kept[l] \in 1..Len(text) /\ Kept(kept[k]) /\ Kept(kept[l])
  BY KeptFacts
<1>3. \A m \in k..l : m \in 1..Len(kept) /\ kept[m] \in kept[k]..kept[l]
  <2> SUFFICES ASSUME NEW m \in k..l PROVE m \in 1..Len(kept) /\ kept[m] \in kept[k]..kept[l]
    OBVIOUS
  <2>1. m \in 1..Len(kept)
    BY <1>2
  <2>2. kept[m] \in 1..Len(text) /\ (k < m => kept[k] < kept[m]) /\ (m < l => kept[m] < kept[l])
    BY <1>2, <2>1, KeptFacts
  <2>3. (k < m \/ k = m) /\ (m < l \/ m = l)
    BY <1>2, <2>1, KeptFacts
  <2> QED BY <1>2, <2>1, <2>2, <2>3
<1>4. \A m \in A : f[m] \in B
  BY <1>3
<1>5. \A m, i \in A : f[m] = f[i] => m = i
  <2> SUFFICES ASSUME NEW m \in A, NEW i \in A, kept[m] = kept[i] PROVE m = i
    OBVIOUS
  <2>1. m \in 1..Len(kept) /\ i \in 1..Len(kept) /\ kept[m] \in Int
    BY <1>3, KeptFacts
  <2>2. ~(m < i) /\ ~(i < m)
    BY <2>1, KeptFacts
  <2> QED BY <2>1, <2>2
<1>6. \A r \in B : \E m \in A : f[m] = r
  <2> SUFFICES ASSUME NEW r \in B PROVE \E m \in A : f[m] = r
    OBVIOUS
  <2>1. r \in 1..Len(text) /\ r \in kept[k]..kept[l] /\ text[r] = "newline"
    BY <1>2
  <2>2. r \notin Dropped
    BY <2>1, NewlineStays
  <2>3. Kept(r)
    BY <1>2, <2>1, <2>2, BetweenKept
  <2>4. PICK m \in 1..Len(kept) : kept[m] = r
    BY <2>1, <2>3, KeptFacts
  <2>5. (m < k => kept[m] < kept[k]) /\ (l < m => kept[l] < kept[m])
    BY <1>2, <2>4, KeptFacts
  <2>6. m \in k..l
    BY <1>2, <2>1, <2>4, <2>5
  <2>7. m \in A
    BY <2>1, <2>4, <2>6
  <2> QED BY <2>4, <2>7
<1>7. f \in Bijection(A, B)
  <2>1. f \in [A -> B]
    BY <1>4
  <2> HIDE DEF A, B
  <2> QED BY <2>1, <1>5, <1>6 DEF Bijection, Injection, Surjection, IsInjective
<1>8. IsFiniteSet(A)
  <2>1. k \in Int /\ l \in Int
    BY <1>2
  <2>2. IsFiniteSet(k..l)
    BY <2>1, FS_Interval
  <2>3. A \subseteq k..l
    OBVIOUS
  <2> HIDE DEF A
  <2> QED BY <2>2, <2>3, FS_Subset
<1> HIDE DEF f
<1>9. Cardinality(B) = Cardinality(A)
  <2>1. ExistsBijection(A, B)
    BY <1>7 DEF ExistsBijection
  <2> HIDE DEF A, B
  <2> QED BY <1>8, <2>1, FS_Bijection
<1> QED BY <1>9 DEF Newlines

-------------------------------------------------------------------------------
(* The answer, character by character. *)

IsAnswer(a) == Finished /\ a = Answer

(* The answer as a text of its own. *)
LEMMA AnswerForm ==
  ASSUME NEW a, IsAnswer(a)
  PROVE  /\ Finished /\ a \in Seq(Char) /\ Len(a) = Len(kept) /\ Len(kept) \in Nat /\ Len(text) \in Nat
         /\ \A k \in 1..Len(kept) : /\ a[k] = text[kept[k]] /\ a[k] \in Char
                                    /\ kept[k] \in 1..Len(text) /\ kept[k] \notin Dropped
         /\ \A k, l \in 1..Len(kept) : k < l <=> kept[k] < kept[l]
<1>1. Finished /\ a = Answer
  BY DEF IsAnswer
<1>2. /\ Len(text) \in Nat /\ (\A p \in 1..Len(text) : text[p] \in Char) /\ Len(kept) \in Nat
      /\ DOMAIN kept = 1..Len(kept)
      /\ \A k \in 1..Len(kept) : kept[k] \in 1..Len(text) /\ Kept(kept[k])
      /\ \A k, l \in 1..Len(kept) : k < l <=> kept[k] < kept[l]
      /\ \A p \in 1..Len(text) : Kept(p) => p \notin Dropped
  BY <1>1, KeptFacts
<1>3. a = [k \in 1..Len(kept) |-> text[kept[k]]]
  BY <1>1, <1>2 DEF Answer
<1>4. a \in Seq(Char) /\ Len(a) = Len(kept)
  <2>1. PICK m : m = Len(kept)
    OBVIOUS
  <2>2. a \in [1..m -> Char]
    BY <1>2, <1>3, <2>1
  <2> QED BY <1>2, <2>1, <2>2
<1> QED BY <1>1, <1>2, <1>3, <1>4

(* The line goes on with the character after one that is no newline. *)
LEMMA LineGoesOn ==
  ASSUME NEW t, NEW n \in Nat, Len(t) = n, NEW p \in 1..n, p < n, t[p] # "newline"
  PROVE  LineEnd(t, p) = LineEnd(t, p + 1)
<1>1. {q \in p..n : t[q] = "newline"} = {q \in p + 1..n : t[q] = "newline"}
  <2>1. \A q \in p..n : q = p \/ q \in p + 1..n
    OBVIOUS
  <2>2. \A q \in p + 1..n : q \in p..n
    OBVIOUS
  <2> QED BY <2>1, <2>2
<1> QED BY <1>1 DEF LineEnd

(* Where one character of the answer is not the next of the text after the one *)
(* before it, it is a newline, and comments and blanks have been in between.   *)
LEMMA BeforeNewline ==
  ASSUME Finished, NEW k \in 1..Len(kept), k < Len(kept)
  PROVE  /\ k + 1 \in 1..Len(kept) /\ kept[k] < kept[k + 1]
         /\ \A r \in kept[k] + 1..kept[k + 1] - 1 : r \in Dropped \/ text[r] = "blank"
         /\ text[kept[k + 1]] # "newline" => kept[k + 1] = kept[k] + 1
<1>1. PICK n : n = Len(text)
  OBVIOUS
<1>2. /\ n \in Nat /\ Len(kept) \in Nat /\ k + 1 \in 1..Len(kept)
      /\ \A i \in 1..Len(kept) : kept[i] \in 1..n /\ Kept(kept[i])
      /\ \A i, l \in 1..Len(kept) : i < l <=> kept[i] < kept[l]
      /\ \A p \in 1..n : Kept(p) => p \notin Dropped /\ \E i \in 1..Len(kept) : kept[i] = p
  BY <1>1, KeptFacts
<1>3. PICK p \in 1..n, q \in 1..n : p = kept[k] /\ q = kept[k + 1]
  BY <1>2
<1>4. p < q /\ Kept(p) /\ Kept(q) /\ q \notin Dropped
  BY <1>2, <1>3
<1>5. \A r \in p + 1..q - 1 : ~Kept(r)
  <2> SUFFICES ASSUME NEW r \in p + 1..q - 1, Kept(r) PROVE FALSE
    OBVIOUS
  <2>1. r \in 1..n /\ p < r /\ r < q
    BY <1>2
  <2>2. PICK i \in 1..Len(kept) : kept[i] = r
    BY <1>2, <2>1
  <2>3. k < i /\ i < k + 1
    BY <1>2, <1>3, <2>1, <2>2
  <2> QED BY <1>2, <2>3
<1>6. \A r \in p + 1..q - 1 : r \in Dropped \/ (text[r] = "blank" /\ BlankBetween(Dropped, r, LineEnd(text, r)))
  <2> SUFFICES ASSUME NEW r \in p + 1..q - 1, r \notin Dropped
               PROVE  text[r] = "blank" /\ BlankBetween(Dropped, r, LineEnd(text, r))
    OBVIOUS
  <2>1. r \in p..q
    BY <1>2
  <2> QED BY <1>1, <1>4, <1>5, <2>1, BetweenKept
<1>7. ASSUME q # p + 1, text[q] # "newline" PROVE FALSE
  <2>1. PICK r \in 1..n : r = q - 1 /\ r \in p + 1..q - 1 /\ r + 1 = q /\ r < n
    BY <1>2, <1>4, <1>7
  <2>2. CASE r \in Dropped
    <3>1. PICK s \in 1..r : /\ r <= LineEnd(text, s)
                            /\ \A i \in s..LineEnd(text, s) : i \in Dropped
      BY <2>2, CommentExtent
    <3>2. s \in 1..n /\ LineEnd(text, s) \in s - 1..n
      <4>1. s \in 1..n
        BY <1>2
      <4> QED BY <1>1, <1>2, <4>1, LineEndOf
    <3>3. LineEnd(text, s) < n => text[LineEnd(text, s) + 1] = "newline"
      BY <1>1, <1>2, <3>2, LineEndOf
    <3>4. LineEnd(text, s) # r
      BY <1>7, <2>1, <3>3
    <3>5. q \in s..LineEnd(text, s)
      <4>1. PICK e : e = LineEnd(text, s)
        OBVIOUS
      <4>2. s \in 1..n /\ e \in s - 1..n /\ r <= e /\ e # r /\ q = r + 1 /\ s <= r
        BY <2>1, <3>1, <3>2, <3>4, <4>1
      <4>3. q \in s..e
        BY <1>2, <4>2
      <4> QED BY <4>1, <4>3
    <3> QED BY <1>4, <3>1, <3>5
  <2>3. CASE r \notin Dropped
    <3>1. text[r] = "blank" /\ BlankBetween(Dropped, r, LineEnd(text, r))
      BY <1>6, <2>1, <2>3
    <3>2. LineEnd(text, r) = LineEnd(text, q)
      BY <1>1, <1>2, <2>1, <3>1, LineGoesOn
    <3>3. LineEnd(text, q) \in q..n
      BY <1>1, <1>2, <1>7, LineEndOf
    <3>4. \A i \in q..LineEnd(text, q) : i \in r..LineEnd(text, r)
      BY <1>2, <2>1, <3>2, <3>3
    <3>5. BlankBetween(Dropped, q, LineEnd(text, q))
      BY <3>1, <3>4 DEF BlankBetween
    <3>6. text[q] \in {"blank", "newline"}
      <4>1. q \in q..LineEnd(text, q)
        BY <1>2, <3>3
      <4> QED BY <1>4, <3>5, <4>1 DEF BlankBetween
    <3>7. text[q] = "blank" => ~BlankBetween(Dropped, q, LineEnd(text, q))
      BY <1>4 DEF Finished, KeptExactly, Dropped, Kept
    <3> QED BY <1>7, <3>5, <3>6, <3>7
  <2> QED BY <2>2, <2>3
<1> QED BY <1>2, <1>3, <1>4, <1>6, <1>7

(* A character that is neither white space nor begins a comment is kept. *)
LEMMA NextKept ==
  ASSUME Finished, NEW k \in 1..Len(kept), kept[k] < Len(text),
         text[kept[k] + 1] \notin {"blank", "newline", "/"}
  PROVE  k < Len(kept) /\ kept[k + 1] = kept[k] + 1
<1>1. PICK n : n = Len(text)
  OBVIOUS
<1>2. /\ n \in Nat /\ Len(kept) \in Nat
      /\ \A i \in 1..Len(kept) : kept[i] \in 1..n /\ Kept(kept[i])
      /\ \A i, l \in 1..Len(kept) : i < l <=> kept[i] < kept[l]
      /\ \A p \in 1..n : Kept(p) => p \notin Dropped /\ \E i \in 1..Len(kept) : kept[i] = p
      /\ \A p \in 1..n : p \notin Dropped /\ text[p] \notin White => Kept(p)
  BY <1>1, KeptFacts
<1>3. PICK p \in 1..n, q \in 1..n : p = kept[k] /\ q = p + 1 /\ p \notin Dropped
  BY <1>1, <1>2
<1>4. q \notin Dropped
  <2> SUFFICES ASSUME q \in Dropped PROVE FALSE
    OBVIOUS
  <2>1. PICK s \in 1..q : /\ Begins(text, s) /\ Kind(text, s) = "slash comment"
                          /\ q <= LineEnd(text, s)
                          /\ \A i \in s..LineEnd(text, s) : i \in Dropped
    BY CommentExtent
  <2>2. s \in 1..n
    BY <1>2
  <2>3. LineEnd(text, s) \in s - 1..n
    BY <1>1, <1>2, <2>2, LineEndOf
  <2>4. CASE s = q
    <3>1. text[q] = "/"
      <4>1. Looks(text, q, <<"/", "/">>)
        BY <2>1, <2>4 DEF Kind
      <4> QED BY <1>1, <1>2, <4>1, LooksTwice
    <3> QED BY <1>3, <3>1
  <2>5. CASE s # q
    <3>1. p \in s..LineEnd(text, s)
      <4>1. PICK e : e = LineEnd(text, s)
        OBVIOUS
      <4>2. s \in 1..n /\ s # q /\ q = p + 1 /\ q <= e /\ e \in s - 1..n
        BY <1>3, <2>1, <2>2, <2>3, <2>5, <4>1
      <4>3. p \in s..e
        BY <1>2, <4>2
      <4> QED BY <4>1, <4>3
    <3> QED BY <1>3, <2>1, <3>1
  <2> QED BY <2>4, <2>5
<1>5. PICK l \in 1..Len(kept) : kept[l] = q
  BY <1>2, <1>3, <1>4 DEF White
<1>6. k < l
  BY <1>2, <1>3, <1>5
<1>7. k < Len(kept) /\ k + 1 \in 1..Len(kept)
  BY <1>2, <1>6
<1>8. kept[k] < kept[k + 1] /\ ~(l < k + 1) /\ ~(kept[l] < kept[k + 1])
  BY <1>2, <1>6, <1>7
<1>9. kept[k + 1] \in Int
  BY <1>2, <1>7
<1> QED BY <1>3, <1>5, <1>7, <1>8, <1>9

(* From the k-th to the e-th character the answer is the text, nothing left out. *)
Run(k, e) == \A i \in k..e : kept[i] = kept[k] + (i - k)

(* Without a newline nothing has been left out. *)
LEMMA RunInAnswer ==
  ASSUME NEW a, IsAnswer(a), NEW k \in 1..Len(kept), NEW e \in k..Len(kept),
         \A i \in k + 1..e : a[i] # "newline"
  PROVE  Run(k, e)
<1>1. PICK K \in Nat : K = Len(kept)
  BY AnswerForm
<1> DEFINE Bad == {i \in k..e : kept[i] # kept[k] + (i - k)}
<1>2. SUFFICES ASSUME Bad # {} PROVE FALSE
  BY DEF Run
<1>3. k \in 1..K /\ e \in k..K /\ (\A i \in 1..K : kept[i] \in Int)
  <2>1. Len(text) \in Nat /\ \A i \in 1..K : kept[i] \in 1..Len(text)
    BY <1>1, AnswerForm
  <2>2. \A i \in 1..K : kept[i] \in Int
    BY <2>1
  <2> QED BY <1>1, <2>2
<1>4. PICK m : m \in Bad /\ \A y \in Bad : m <= y
  <2>1. Bad \in SUBSET (1..K)
    BY <1>3
  <2> HIDE DEF Bad
  <2> QED BY <1>2, <2>1, MinOfIndices
<1>5. m # k /\ m \in k + 1..e
  <2>1. kept[k] = kept[k] + (k - k)
    BY <1>3
  <2> QED BY <1>3, <1>4, <2>1
<1>6. m - 1 \in k..e /\ ~(m <= m - 1) /\ m - 1 \in 1..K /\ m - 1 < K /\ m \in 1..K
  BY <1>3, <1>5
<1>7. kept[m - 1] = kept[k] + ((m - 1) - k)
  BY <1>4, <1>6
<1>8. a[m] = text[kept[m]] /\ (m - 1) + 1 = m
  BY <1>1, <1>6, AnswerForm
<1>9. kept[m] = kept[m - 1] + 1
  <2>1. PICK j \in 1..K : j = m - 1
    BY <1>6
  <2>2. text[kept[j + 1]] # "newline" /\ j < K /\ j + 1 = m
    BY <1>5, <1>6, <1>8, <2>1
  <2>3. kept[j + 1] = kept[j] + 1
    BY <1>1, <2>2, BeforeNewline DEF IsAnswer
  <2> QED BY <2>1, <2>2, <2>3
<1>10. kept[m] = kept[k] + (m - k)
  BY <1>3, <1>5, <1>7, <1>9
<1> QED BY <1>4, <1>10

(* Nothing is left out without white space and slashes. *)
LEMMA RunInText ==
  ASSUME NEW a, IsAnswer(a), NEW k \in 1..Len(kept), NEW q \in kept[k]..Len(text),
         \A r \in kept[k] + 1..q : text[r] \notin {"blank", "newline", "/"}
  PROVE  k + (q - kept[k]) \in k..Len(kept) /\ Run(k, k + (q - kept[k]))
<1>1. PICK K \in Nat, n \in Nat : K = Len(kept) /\ n = Len(text)
  BY AnswerForm
<1>2. PICK p \in 1..n : p = kept[k]
  BY <1>1, AnswerForm
<1> DEFINE Good(d) == k + d \in k..K /\ kept[k + d] = p + d
           Bad == {d \in 1..q - p : ~Good(d)}
<1>3. k \in 1..K /\ q \in p..n
  BY <1>1, <1>2
<1>4. Bad = {}
  <2> SUFFICES ASSUME Bad # {} PROVE FALSE
    OBVIOUS
  <2>1. PICK m : m \in Bad /\ \A y \in Bad : m <= y
    <3>1. q - p \in Nat /\ Bad \in SUBSET (1..q - p)
      BY <1>3
    <3> HIDE DEF Bad
    <3> QED BY <3>1, MinOfIndices
  <2>2. Good(m - 1)
    <3>1. CASE m = 1
      BY <1>2, <1>3, <3>1
    <3>2. CASE m # 1
      <4>1. m - 1 \in 1..q - p /\ ~(m <= m - 1)
        BY <1>3, <2>1, <3>2
      <4> QED BY <2>1, <4>1
    <3> QED BY <3>1, <3>2
  <2>3. PICK j \in 1..K : j = k + (m - 1) /\ kept[j] = p + (m - 1)
    BY <1>3, <2>1, <2>2
  <2>4. kept[j] + 1 = p + m /\ p + m \in p + 1..q /\ kept[j] < n /\ j + 1 = k + m
    BY <1>3, <2>1, <2>3
  <2>5. text[kept[j] + 1] \notin {"blank", "newline", "/"}
    BY <1>2, <2>4
  <2>6. j < K /\ kept[j + 1] = kept[j] + 1
    BY <1>1, <2>4, <2>5, NextKept DEF IsAnswer
  <2>7. k + m \in k..K
    BY <1>3, <2>1, <2>4, <2>6
  <2> QED BY <2>1, <2>4, <2>6, <2>7
<1>5. \A d \in 0..q - p : Good(d)
  <2>1. Good(0)
    BY <1>2, <1>3
  <2>2. \A d \in 0..q - p : d = 0 \/ d \in 1..q - p
    BY <1>3
  <2> QED BY <1>4, <2>1, <2>2
<1>6. q - p \in 0..q - p
  BY <1>3
<1>7. k + (q - p) \in k..K
  BY <1>5, <1>6
<1>8. ASSUME NEW i \in k..k + (q - p) PROVE kept[i] = p + (i - k)
  <2>1. i - k \in 0..q - p /\ k + (i - k) = i
    BY <1>3
  <2> QED BY <1>5, <2>1
<1> QED BY <1>1, <1>2, <1>7, <1>8 DEF Run

(* Parts of two texts with the same characters are the same text. *)
LEMMA SameParts ==
  ASSUME NEW s, NEW t, NEW i \in Int, NEW j \in Int, NEW k \in Int, NEW l \in Int, j - i = l - k,
         \A x \in i..j : s[x] = t[x + (k - i)]
  PROVE  SubSeq(s, i, j) = SubSeq(t, k, l)
<1>1. SubSeq(s, i, j) = [x \in 1..(1 + j - i) |-> s[x + i - 1]]
  BY DEF SubSeq
<1>2. SubSeq(t, k, l) = [x \in 1..(1 + l - k) |-> t[x + k - 1]]
  BY DEF SubSeq
<1>3. ASSUME NEW x \in 1..(1 + j - i) PROVE s[x + i - 1] = t[x + k - 1]
  <2>1. x + i - 1 \in i..j /\ (x + i - 1) + (k - i) = x + k - 1
    OBVIOUS
  <2> QED BY <2>1
<1>4. 1 + j - i = 1 + l - k
  OBVIOUS
<1> QED BY <1>1, <1>2, <1>3, <1>4

(* Along a run the answer's characters are the text's. *)
LEMMA RunCharacters ==
  ASSUME NEW a, IsAnswer(a), NEW k \in 1..Len(kept), NEW e \in k..Len(kept), Run(k, e)
  PROVE  /\ kept[e] = kept[k] + (e - k) /\ kept[k] + (e - k) \in kept[k]..Len(text)
         /\ \A i \in k..e : a[i] = text[kept[k] + (i - k)]
         /\ SubSeq(a, k, e) = SubSeq(text, kept[k], kept[k] + (e - k))
         /\ SubSeq(a, k + 1, e - 1) = SubSeq(text, kept[k] + 1, kept[e] - 1)
<1>1. PICK K \in Nat, n \in Nat : /\ K = Len(kept) /\ n = Len(text)
                                  /\ \A i \in 1..K : a[i] = text[kept[i]] /\ kept[i] \in 1..n
  BY AnswerForm
<1>2. PICK p \in 1..n : p = kept[k]
  BY <1>1
<1>3. k \in 1..K /\ e \in k..K /\ e \in k..e
  BY <1>1
<1>4. \A i \in k..e : kept[i] = p + (i - k)
  BY <1>2 DEF Run
<1>5. \A i \in k..e : a[i] = text[p + (i - k)]
  <2> SUFFICES ASSUME NEW i \in k..e PROVE a[i] = text[p + (i - k)]
    OBVIOUS
  <2>1. i \in 1..K
    BY <1>3
  <2> QED BY <1>1, <1>4, <2>1
<1>6. kept[e] = p + (e - k) /\ p + (e - k) \in 1..n /\ p + (e - k) \in p..n
  <2>1. kept[e] = p + (e - k)
    BY <1>3, <1>4
  <2>2. kept[e] \in 1..n
    BY <1>1, <1>3
  <2>3. p + (e - k) \in p..n
    BY <1>3, <2>1, <2>2
  <2> QED BY <2>1, <2>2, <2>3
<1>7. PICK z \in Int : z = p + (e - k)
  BY <1>6
<1>8. SubSeq(a, k, e) = SubSeq(text, p, z)
  <2>1. e - k = z - p /\ k \in Int /\ e \in Int /\ p \in Int
    BY <1>3, <1>7
  <2>2. \A x \in k..e : a[x] = text[x + (p - k)]
    <3>1. \A x \in k..e : p + (x - k) = x + (p - k)
      BY <1>3
    <3> QED BY <1>5, <3>1
  <2> QED BY <2>1, <2>2, SameParts
<1>9. SubSeq(a, k + 1, e - 1) = SubSeq(text, p + 1, z - 1)
  <2>1. PICK i \in Int, j \in Int, c \in Int, d \in Int : i = k + 1 /\ j = e - 1 /\ c = p + 1 /\ d = z - 1
    BY <1>3
  <2>2. j - i = d - c /\ i..j \subseteq k..e
    BY <1>3, <1>7, <2>1
  <2>3. \A x \in i..j : a[x] = text[x + (c - i)]
    <3>1. \A x \in k..e : p + (x - k) = x + (c - i)
      BY <1>3, <2>1
    <3> QED BY <1>5, <2>2, <3>1
  <2>4. SubSeq(a, i, j) = SubSeq(text, c, d)
    BY <2>2, <2>3, SameParts
  <2> QED BY <2>1, <2>4
<1>10. /\ kept[e] = z /\ z \in p..n /\ \A i \in k..e : a[i] = text[p + (i - k)]
  BY <1>5, <1>6, <1>7
<1> QED
  <2>1. kept[k] = p /\ kept[k] + (e - k) = z /\ Len(text) = n /\ kept[e] = z
    BY <1>1, <1>2, <1>7, <1>10
  <2> QED BY <1>8, <1>9, <1>10, <2>1

-------------------------------------------------------------------------------
(* Comments and blanks that are left out do not change what the lexer is in. *)

LeftOut(g, h) == /\ g \in 1..Len(text) /\ h \in g..Len(text) /\ h \notin Dropped
                 /\ \A r \in g..h - 1 : r \in Dropped \/ text[r] = "blank"

(* What is dropped is of a comment. *)
LEMMA DroppedKind ==
  ASSUME NEW r \in Dropped
  PROVE  r \in 1..Len(text) /\ Kind(text, TokenStart(text)[r]) = "slash comment"
BY DEF Dropped, PositionsOf

(* At a token: the next one begins after them. *)
LEMMA BeginsAcross ==
  ASSUME NEW n \in Nat, Len(text) = n, NEW g, NEW h, LeftOut(g, h), Begins(text, g)
  PROVE  Begins(text, h)
<1>1. g \in 1..n /\ h \in g..n /\ h \in 1..n /\ h \notin Dropped
  BY DEF LeftOut
<1>2. PICK s : s = TokenStart(text)[h]
  OBVIOUS
<1>3. Begins(text, s) /\ s <= h /\ h <= TokenEnd(text, s) /\ s \in 1..n
  BY <1>1, <1>2, InItsToken DEF Begins
<1>4. SUFFICES ASSUME s # h PROVE FALSE
  BY <1>2, <1>3
<1>5. TokenEnd(text, s) \in s..n
  BY <1>3, TokenEndInside
<1>6. ~(s < g)
  <2> SUFFICES ASSUME s < g PROVE FALSE
    OBVIOUS
  <2>1. g \in s..TokenEnd(text, s)
    <3>1. PICK e \in s..n : e = TokenEnd(text, s) /\ h <= e
      BY <1>3, <1>5
    <3>2. g \in s..e
      BY <1>1, <1>3, <3>1
    <3> QED BY <3>1, <3>2
  <2>2. TokenStart(text)[g] = s
    BY <1>3, <2>1, TokenPositions
  <2> QED BY <1>1, <1>3, <2>2 DEF Begins
<1>7. s \in g..h - 1
  BY <1>1, <1>3, <1>4, <1>6
<1>8. CASE s \in Dropped
  <2>1. Kind(text, s) = "slash comment"
    BY <1>3, <1>8, DroppedKind DEF Begins
  <2> QED BY <1>1, <1>2, <2>1 DEF Dropped, PositionsOf
<1>9. CASE text[s] = "blank"
  <2>1. Kind(text, s) = "other"
    BY <1>3, <1>9, KindByCharacter
  <2>2. TokenEnd(text, s) = s
    BY <1>3, <2>1, TokenEnds
  <2> QED BY <1>1, <1>3, <1>4, <2>2
<1> QED BY <1>7, <1>8, <1>9 DEF LeftOut

(* A blank closes no quoted literal. *)
LEMMA BlankNoQuote == "blank" \notin QuoteMarks
BY Zenon DEF QuoteMarks

(* In a quoted literal: it goes on over blanks, and has no comments. *)
LEMMA QuotedAcross ==
  ASSUME NEW n \in Nat, Len(text) = n, NEW g, NEW h, LeftOut(g, h),
         NEW quote \in QuoteMarks, NEW parity \in {0, 1}, Opened(text, g, quote, parity)
  PROVE  Opened(text, h, quote, parity)
<1>1. g \in 1..n /\ h \in g..n /\ h \in 1..n /\ h \notin Dropped
  BY DEF LeftOut
<1> DEFINE Bad == {r \in g..h : ~Opened(text, r, quote, parity)}
<1>2. SUFFICES ASSUME Bad # {} PROVE FALSE
  BY <1>1
<1>3. PICK m : m \in Bad /\ \A y \in Bad : m <= y
  <2>1. Bad \in SUBSET (1..n)
    BY <1>1
  <2> HIDE DEF Bad
  <2> QED BY <1>2, <2>1, MinOfIndices
<1>4. m \in g + 1..h
  BY <1>1, <1>3
<1>5. PICK r \in 1..n : r = m - 1 /\ r \in g..h - 1 /\ r + 1 = m /\ r \in g..h /\ ~(m <= r)
  BY <1>1, <1>4
<1>6. Opened(text, r, quote, parity)
  BY <1>3, <1>5
<1>7. r \notin Dropped
  <2>1. Kind(text, TokenStart(text)[r]) = "quoted"
    BY <1>6, QuotedInToken
  <2> QED BY <2>1, DroppedKind
<1>8. text[r] = "blank"
  BY <1>5, <1>7 DEF LeftOut
<1>9. text[r] # quote
  BY <1>8, BlankNoQuote
<1>10. Opened(text, r + 1, quote, parity)
  BY <1>6, <1>9, QuotedGoesOn
<1> QED BY <1>3, <1>5, <1>10

(* In a dollar-quoted literal: likewise. *)
LEMMA DollarAcross ==
  ASSUME NEW n \in Nat, Len(text) = n, NEW g, NEW h, LeftOut(g, h),
         NEW tag \in Seq(Char), OpenedDollar(text, g, tag)
  PROVE  OpenedDollar(text, h, tag)
<1>1. g \in 1..n /\ h \in g..n /\ h \in 1..n /\ h \notin Dropped
  BY DEF LeftOut
<1> DEFINE Bad == {r \in g..h : ~OpenedDollar(text, r, tag)}
<1>2. SUFFICES ASSUME Bad # {} PROVE FALSE
  BY <1>1
<1>3. PICK m : m \in Bad /\ \A y \in Bad : m <= y
  <2>1. Bad \in SUBSET (1..n)
    BY <1>1
  <2> HIDE DEF Bad
  <2> QED BY <1>2, <2>1, MinOfIndices
<1>4. m \in g + 1..h
  BY <1>1, <1>3
<1>5. PICK r \in 1..n : r = m - 1 /\ r \in g..h - 1 /\ r + 1 = m /\ r \in g..h /\ ~(m <= r)
  BY <1>1, <1>4
<1>6. OpenedDollar(text, r, tag)
  BY <1>3, <1>5
<1>7. r \notin Dropped
  <2>1. Kind(text, TokenStart(text)[r]) = "dollar"
    BY <1>6, DollarInToken
  <2> QED BY <2>1, DroppedKind
<1>8. text[r] = "blank"
  BY <1>5, <1>7 DEF LeftOut
<1>9. ~Looks(text, r, Delimiter(tag))
  BY <1>8, DelimiterInText
<1>10. OpenedDollar(text, r + 1, tag)
  BY <1>6, <1>9, DollarGoesOn
<1> QED BY <1>3, <1>5, <1>10

(* In an identifier nothing is left out. *)
LEMMA IdentifierAcross ==
  ASSUME NEW n \in Nat, Len(text) = n, NEW g, NEW h, LeftOut(g, h), InIdentifier(text, g)
  PROVE  g = h
<1>1. g \in 1..n /\ h \in g..n
  BY DEF LeftOut
<1>2. Kind(text, TokenStart(text)[g]) = "identifier" /\ text[g] \in {"x", "1", "$"}
  BY <1>1, IdentifierInToken
<1>3. g \notin Dropped /\ text[g] # "blank"
  BY <1>2, DroppedKind
<1>4. g \notin g..h - 1
  BY <1>3 DEF LeftOut
<1> QED BY <1>1, <1>4

-------------------------------------------------------------------------------
(* The lexer is in the same at the k-th character of the answer as at p in the text. *)
Matched(a, k, p) ==
  \/ Begins(a, k) /\ Begins(text, p)
  \/ \E quote \in QuoteMarks, parity \in {0, 1} : Opened(a, k, quote, parity) /\ Opened(text, p, quote, parity)
  \/ \E tag \in Seq(Char) : OpenedDollar(a, k, tag) /\ OpenedDollar(text, p, tag)
  \/ InIdentifier(a, k) /\ InIdentifier(text, p)

(* After the k-th character, before anything is left out. *)
Ahead(a, k) == k < Len(kept) => Matched(a, k + 1, kept[k] + 1)

(* Within one of the `$tag$` around a literal, which the scanner takes at once. *)
Skipping(a, k) ==
  \E e \in k..Len(kept) : Run(k, e) /\ (\A i \in k..e : a[i] # "/") /\ Ahead(a, e)

(* So the answer and the text still match at its next character. *)
LEMMA MatchedAcross ==
  ASSUME NEW a, IsAnswer(a), NEW k \in 1..Len(kept), k < Len(kept), Ahead(a, k)
  PROVE  Matched(a, k + 1, kept[k + 1])
<1>1. PICK n \in Nat, K \in Nat : n = Len(text) /\ K = Len(kept)
  BY AnswerForm
<1>2. /\ k + 1 \in 1..K /\ kept[k] < kept[k + 1]
      /\ \A r \in kept[k] + 1..kept[k + 1] - 1 : r \in Dropped \/ text[r] = "blank"
  BY <1>1, BeforeNewline DEF IsAnswer
<1>3. PICK g, h : g = kept[k] + 1 /\ h = kept[k + 1]
  OBVIOUS
<1>4. kept[k] \in 1..n /\ h \in 1..n /\ h \notin Dropped
  BY <1>1, <1>2, <1>3, AnswerForm
<1>5. LeftOut(g, h)
  BY <1>1, <1>2, <1>3, <1>4 DEF LeftOut
<1>6. Matched(a, k + 1, g)
  BY <1>3 DEF Ahead
<1>7. CASE Begins(a, k + 1) /\ Begins(text, g)
  BY <1>1, <1>3, <1>5, <1>7, BeginsAcross DEF Matched
<1>8. CASE \E quote \in QuoteMarks, parity \in {0, 1} :
             Opened(a, k + 1, quote, parity) /\ Opened(text, g, quote, parity)
  BY <1>1, <1>3, <1>5, <1>8, QuotedAcross DEF Matched
<1>9. CASE \E tag \in Seq(Char) : OpenedDollar(a, k + 1, tag) /\ OpenedDollar(text, g, tag)
  BY <1>1, <1>3, <1>5, <1>9, DollarAcross DEF Matched
<1>10. CASE InIdentifier(a, k + 1) /\ InIdentifier(text, g)
  BY <1>1, <1>3, <1>5, <1>10, IdentifierAcross DEF Matched
<1> QED BY <1>6, <1>7, <1>8, <1>9, <1>10 DEF Matched

(* The text goes on after all but the last character of the answer. *)
LEMMA NotLast ==
  ASSUME NEW a, IsAnswer(a), NEW k \in 1..Len(kept)
  PROVE  /\ Len(text) \in Nat /\ Len(a) \in Nat /\ Len(a) = Len(kept) /\ k \in 1..Len(a)
         /\ kept[k] \in 1..Len(text) /\ kept[k] \notin Dropped /\ a[k] = text[kept[k]] /\ a[k] \in Char
         /\ k < Len(a) => /\ kept[k] < Len(text) /\ k + 1 \in 1..Len(a) /\ kept[k] + 1 \in 1..Len(text)
                          /\ kept[k + 1] \in 1..Len(text) /\ a[k + 1] = text[kept[k + 1]]
<1>1. PICK n \in Nat, K \in Nat : n = Len(text) /\ K = Len(kept) /\ Len(a) = K
  BY AnswerForm
<1>2. kept[k] \in 1..n /\ kept[k] \notin Dropped /\ a[k] = text[kept[k]] /\ a[k] \in Char
  BY <1>1, AnswerForm
<1>3. ASSUME k < K PROVE /\ kept[k] < n /\ k + 1 \in 1..K /\ kept[k] + 1 \in 1..n
                         /\ kept[k + 1] \in 1..n /\ a[k + 1] = text[kept[k + 1]]
  <2>1. k + 1 \in 1..K /\ k < k + 1
    BY <1>1, <1>3
  <2>2. kept[k + 1] \in 1..n /\ kept[k] < kept[k + 1] /\ a[k + 1] = text[kept[k + 1]]
    BY <1>1, <2>1, AnswerForm
  <2> QED BY <1>2, <2>1, <2>2
<1> QED BY <1>1, <1>2, <1>3

(* What follows a character in the answer is what follows it in the text, when *)
(* it is neither white space nor a comment.                                    *)
LEMMA SameNext ==
  ASSUME NEW a, IsAnswer(a), NEW k \in 1..Len(kept), NEW c, c \notin {"blank", "newline", "/"}
  PROVE  IsAt(a, k + 1, c) <=> IsAt(text, kept[k] + 1, c)
<1>1. PICK n \in Nat, K \in Nat : n = Len(text) /\ K = Len(kept) /\ K = Len(a)
  BY AnswerForm
<1>2. PICK p \in 1..n : p = kept[k]
  BY <1>1, NotLast
<1>3. ASSUME k + 1 <= K, a[k + 1] = c PROVE p + 1 <= n /\ text[p + 1] = c
  <2>1. k < K /\ text[kept[k + 1]] = c
    BY <1>1, <1>3, NotLast
  <2>2. kept[k + 1] = p + 1
    BY <1>1, <1>2, <2>1, BeforeNewline DEF IsAnswer
  <2>3. kept[k + 1] \in 1..n
    BY <1>1, <2>1, NotLast
  <2> QED BY <1>1, <2>1, <2>2, <2>3
<1>4. ASSUME p + 1 <= n, text[p + 1] = c PROVE k + 1 <= K /\ a[k + 1] = c
  <2>1. p < n
    BY <1>4
  <2>2. k < K /\ kept[k + 1] = p + 1
    BY <1>1, <1>2, <1>4, <2>1, NextKept DEF IsAnswer
  <2>3. a[k + 1] = text[kept[k + 1]]
    BY <1>1, <2>2, NotLast
  <2> QED BY <1>1, <1>4, <2>2, <2>3
<1> QED BY <1>1, <1>2, <1>3, <1>4 DEF IsAt

(* A slash that follows in the answer follows in the text. *)
LEMMA SlashNext ==
  ASSUME NEW a, IsAnswer(a), NEW k \in 1..Len(kept), IsAt(a, k + 1, "/")
  PROVE  IsAt(text, kept[k] + 1, "/")
<1>1. PICK n \in Nat, K \in Nat : n = Len(text) /\ K = Len(kept) /\ K = Len(a)
  BY AnswerForm
<1>2. k + 1 <= K /\ a[k + 1] = "/" /\ k < K
  BY <1>1 DEF IsAt
<1>3. text[kept[k + 1]] = "/" /\ kept[k + 1] \in 1..n
  BY <1>1, <1>2, NotLast
<1>4. kept[k + 1] = kept[k] + 1
  BY <1>1, <1>2, <1>3, BeforeNewline DEF IsAnswer
<1> QED BY <1>1, <1>3, <1>4 DEF IsAt

(* A dash begins a comment only with another. *)
LEMMA DashKind ==
  ASSUME NEW t, NEW n \in Nat, Len(t) = n, NEW p \in 1..n, t[p] = "-"
  PROVE  Kind(t, p) = IF IsAt(t, p + 1, "-") THEN "line comment" ELSE "other"
<1>1. TagEnds(t, p) = {}
  BY DEF TagEnds
<1>2. /\ Looks(t, p, <<"-", "-">>) <=> t[p] = "-" /\ IsAt(t, p + 1, "-")
      /\ Looks(t, p, <<"/", "/">>) <=> t[p] = "/" /\ IsAt(t, p + 1, "/")
  BY LooksTwice
<1>3. t[p] \notin QuoteMarks
  <2>1. "-" \notin QuoteMarks
    BY Zenon DEF QuoteMarks
  <2> QED BY <2>1
<1>4. ~IsLetter(t[p])
  BY DEF IsLetter
<1> QED BY <1>1, <1>2, <1>3, <1>4 DEF Kind

(* There is one place at most where a tag ends. *)
LEMMA OneTagEnd ==
  ASSUME NEW t, NEW n \in Nat, Len(t) = n, NEW p \in 1..n, NEW q \in TagEnds(t, p)
  PROVE  Min(TagEnds(t, p)) = q
<1>1. PICK m : m = Min(TagEnds(t, p)) /\ m \in TagEnds(t, p)
  BY TagEndsOf
<1>2. /\ q \in p + 1..n /\ t[q] = "$" /\ \A r \in p + 1..q - 1 : t[r] \in {"x", "1"}
      /\ m \in p + 1..n /\ t[m] = "$" /\ \A r \in p + 1..m - 1 : t[r] \in {"x", "1"}
  BY <1>1 DEF TagEnds, IsLetter
<1>3. m \notin p + 1..q - 1 /\ q \notin p + 1..m - 1
  BY <1>2
<1> QED BY <1>1, <1>2, <1>3

(* The characters of an opening delimiter. *)
LEMMA OpeningCharacters ==
  ASSUME NEW t, NEW n \in Nat, Len(t) = n, NEW p \in 1..n, NEW q \in TagEnds(t, p)
  PROVE  q \in p + 1..n /\ \A r \in p..q : t[r] \in {"$", "x", "1"}
<1>1. q \in p + 1..n /\ t[p] = "$" /\ t[q] = "$" /\ \A r \in p + 1..q - 1 : t[r] \in {"x", "1"}
  BY DEF TagEnds, IsLetter
<1>2. \A r \in p..q : r = p \/ r = q \/ r \in p + 1..q - 1
  BY <1>1
<1> QED BY <1>1, <1>2

-------------------------------------------------------------------------------
(* One character of the answer and of the text. *)

(* A token of one character. *)
LEMMA OtherAhead ==
  ASSUME NEW a, IsAnswer(a), NEW k \in 1..Len(kept), Begins(a, k), Begins(text, kept[k]),
         Kind(a, k) = "other", Kind(text, kept[k]) = "other"
  PROVE  Ahead(a, k)
<1> SUFFICES ASSUME k < Len(kept) PROVE Matched(a, k + 1, kept[k] + 1)
  BY DEF Ahead
<1>1. PICK n \in Nat, K \in Nat : n = Len(text) /\ K = Len(kept) /\ K = Len(a)
  BY AnswerForm
<1>2. kept[k] \in 1..n /\ kept[k] < n
  BY <1>1, NotLast
<1>3. Begins(text, kept[k] + 1)
  BY <1>1, <1>2, OtherGoesOn
<1>4. Begins(a, k + 1)
  BY <1>1, OtherGoesOn
<1> QED BY <1>3, <1>4 DEF Matched

(* A quote that opens a literal. *)
LEMMA QuoteAhead ==
  ASSUME NEW a, IsAnswer(a), NEW k \in 1..Len(kept), Begins(a, k), Begins(text, kept[k]), a[k] \in QuoteMarks
  PROVE  Ahead(a, k)
<1>1. PICK n \in Nat, K \in Nat : n = Len(text) /\ K = Len(kept) /\ K = Len(a)
  BY AnswerForm
<1>2. kept[k] \in 1..n /\ a[k] = text[kept[k]]
  BY <1>1, NotLast
<1>3. Opened(a, k + 1, a[k], 0)
  BY <1>1, QuoteOpens
<1>4. Opened(text, kept[k] + 1, a[k], 0)
  BY <1>1, <1>2, QuoteOpens
<1> QED BY <1>3, <1>4 DEF Ahead, Matched

(* A character of a quoted literal. *)
LEMMA InsideQuotedAhead ==
  ASSUME NEW a, IsAnswer(a), NEW k \in 1..Len(kept), NEW quote \in QuoteMarks, NEW parity \in {0, 1},
         Opened(a, k, quote, parity), Opened(text, kept[k], quote, parity)
  PROVE  Ahead(a, k)
<1> SUFFICES ASSUME k < Len(kept) PROVE Matched(a, k + 1, kept[k] + 1)
  BY DEF Ahead
<1>1. PICK n \in Nat, K \in Nat : n = Len(text) /\ K = Len(kept) /\ K = Len(a)
  BY AnswerForm
<1>2. kept[k] \in 1..n /\ kept[k] < n /\ a[k] = text[kept[k]]
  BY <1>1, NotLast
<1>3. IsAt(a, k + 1, quote) <=> IsAt(text, kept[k] + 1, quote)
  <2>1. quote \notin {"blank", "newline", "/"}
    BY Zenon DEF QuoteMarks
  <2> QED BY <2>1, SameNext
<1>4. CASE parity = 1 \/ a[k] # quote \/ IsAt(a, k + 1, quote)
  <2>1. PICK q \in {0, 1} : q = IF a[k] = quote THEN 1 - parity ELSE parity
    OBVIOUS
  <2>2. Opened(a, k + 1, quote, q)
    BY <1>1, <1>4, <2>1, QuotedGoesOn
  <2>3. Opened(text, kept[k] + 1, quote, q)
    BY <1>1, <1>2, <1>3, <1>4, <2>1, QuotedGoesOn
  <2> QED BY <2>2, <2>3 DEF Matched
<1>5. CASE ~(parity = 1 \/ a[k] # quote \/ IsAt(a, k + 1, quote))
  <2>1. parity = 0 /\ a[k] = quote /\ ~IsAt(a, k + 1, quote)
    BY <1>5
  <2>2. Begins(a, k + 1)
    BY <1>1, <2>1, QuotedCloses
  <2>3. Begins(text, kept[k] + 1)
    BY <1>1, <1>2, <1>3, <2>1, QuotedCloses
  <2> QED BY <2>2, <2>3 DEF Matched
<1> QED BY <1>4, <1>5

(* A character of an identifier. *)
LEMMA IdentifierAhead ==
  ASSUME NEW a, IsAnswer(a), NEW k \in 1..Len(kept), AtIdentifier(a, k), AtIdentifier(text, kept[k])
  PROVE  Ahead(a, k)
<1> SUFFICES ASSUME k < Len(kept) PROVE Matched(a, k + 1, kept[k] + 1)
  BY DEF Ahead
<1>1. PICK n \in Nat, K \in Nat : n = Len(text) /\ K = Len(kept) /\ K = Len(a)
  BY AnswerForm
<1>2. PICK p \in 1..n : p = kept[k] /\ p < n
  BY <1>1, NotLast
<1>3. \A c \in {"x", "1", "$"} : a[k + 1] = c <=> text[p + 1] = c
  <2> SUFFICES ASSUME NEW c \in {"x", "1", "$"} PROVE a[k + 1] = c <=> text[p + 1] = c
    OBVIOUS
  <2>1. IsAt(a, k + 1, c) <=> IsAt(text, p + 1, c)
    <3>1. c \notin {"blank", "newline", "/"}
      OBVIOUS
    <3> QED BY <1>2, <3>1, SameNext
  <2>2. k + 1 <= K /\ p + 1 <= n
    BY <1>1, <1>2
  <2> QED BY <1>1, <2>1, <2>2 DEF IsAt
<1>4. a[k + 1] \in {"x", "1", "$"} <=> text[p + 1] \in {"x", "1", "$"}
  BY <1>3
<1>5. IF a[k + 1] \in {"x", "1", "$"} THEN InIdentifier(a, k + 1) ELSE Begins(a, k + 1)
  BY <1>1, IdentifierOn
<1>6. IF text[p + 1] \in {"x", "1", "$"} THEN InIdentifier(text, p + 1) ELSE Begins(text, p + 1)
  BY <1>1, <1>2, IdentifierOn
<1> QED BY <1>2, <1>4, <1>5, <1>6 DEF Matched

(* A tag ends in the answer where it ends in the text. *)
LEMMA TagsMatch ==
  ASSUME NEW a, IsAnswer(a), NEW k \in 1..Len(kept)
  PROVE  /\ TagEnds(a, k) = {} <=> TagEnds(text, kept[k]) = {}
         /\ \A e \in TagEnds(a, k) : e \in k..Len(kept) /\ Run(k, e) /\ kept[e] \in TagEnds(text, kept[k])
<1>1. PICK n \in Nat, K \in Nat : n = Len(text) /\ K = Len(kept) /\ K = Len(a)
  BY AnswerForm
<1>2. PICK p \in 1..n : p = kept[k]
  BY <1>1, NotLast
<1>3. k \in 1..K
  BY <1>1
<1>4. ASSUME NEW e \in TagEnds(a, k) PROVE e \in k..K /\ Run(k, e) /\ kept[e] \in TagEnds(text, p)
  <2>1. e \in k + 1..K /\ \A r \in k..e : a[r] \in {"$", "x", "1"}
    BY <1>1, OpeningCharacters
  <2>2. e \in k..K /\ \A r \in k + 1..e : a[r] # "newline"
    BY <1>3, <2>1
  <2>3. Run(k, e)
    BY <1>1, <2>2, RunInAnswer
  <2>4. /\ kept[e] = p + (e - k) /\ p + (e - k) \in p..n
        /\ \A i \in k..e : a[i] = text[p + (i - k)]
    <3>1. e \in k..Len(kept)
      BY <1>1, <2>2
    <3>2. /\ kept[e] = kept[k] + (e - k) /\ kept[k] + (e - k) \in kept[k]..Len(text)
          /\ \A i \in k..e : a[i] = text[kept[k] + (i - k)]
      BY <2>3, <3>1, RunCharacters
    <3> QED BY <1>1, <1>2, <3>2
  <2>5. PICK q \in Int : q = p + (e - k) /\ q \in p + 1..n
    BY <1>3, <2>1, <2>4
  <2>6. text[p] = "$" /\ text[q] = "$"
    <3>1. a[k] = "$" /\ a[e] = "$"
      BY DEF TagEnds
    <3>2. k \in k..e /\ e \in k..e /\ p + (k - k) = p
      BY <1>3, <2>1
    <3> QED BY <2>4, <2>5, <3>1, <3>2
  <2>7. \A r \in p + 1..q - 1 : IsLetter(text[r]) \/ text[r] = "1"
    <3> SUFFICES ASSUME NEW r \in p + 1..q - 1 PROVE IsLetter(text[r]) \/ text[r] = "1"
      OBVIOUS
    <3>1. PICK i \in k + 1..e - 1 : p + (i - k) = r /\ i \in k..e
      <4>1. k + (r - p) \in k + 1..e - 1 /\ p + ((k + (r - p)) - k) = r /\ k + (r - p) \in k..e
        BY <1>3, <2>1, <2>5
      <4> QED BY <4>1
    <3>2. IsLetter(a[i]) \/ a[i] = "1"
      BY DEF TagEnds
    <3> QED BY <2>4, <3>1, <3>2
  <2>8. q > p + 1 => IsLetter(text[p + 1])
    <3> SUFFICES ASSUME q > p + 1 PROVE IsLetter(text[p + 1])
      OBVIOUS
    <3>1. e > k + 1 /\ k + 1 \in k..e /\ p + ((k + 1) - k) = p + 1
      BY <1>3, <2>1, <2>5
    <3>2. IsLetter(a[k + 1])
      BY <3>1 DEF TagEnds
    <3>3. a[k + 1] = text[p + 1]
      BY <2>4, <3>1
    <3> QED BY <3>2, <3>3
  <2>9. kept[e] \in TagEnds(text, p)
    BY <1>1, <2>4, <2>5, <2>6, <2>7, <2>8 DEF TagEnds
  <2> QED BY <2>2, <2>3, <2>9
<1>5. ASSUME NEW q \in TagEnds(text, p) PROVE TagEnds(a, k) # {}
  <2>1. q \in p + 1..n /\ \A r \in p..q : text[r] \in {"$", "x", "1"}
    BY <1>1, OpeningCharacters
  <2>2. q \in p..n /\ \A r \in p + 1..q : text[r] \notin {"blank", "newline", "/"}
    <3>1. \A r \in p + 1..q : r \in p..q
      OBVIOUS
    <3> QED BY <2>1, <3>1
  <2>3. PICK e \in Int : e = k + (q - p) /\ e \in k..K /\ Run(k, e)
    <3>1. k + (q - p) \in k..K /\ Run(k, k + (q - p))
      BY <1>1, <1>2, <2>2, RunInText
    <3> QED BY <1>3, <3>1
  <2>4. \A i \in k..e : a[i] = text[p + (i - k)]
    <3>1. e \in k..Len(kept) /\ Run(k, e)
      BY <1>1, <2>3
    <3>2. \A i \in k..e : a[i] = text[kept[k] + (i - k)]
      BY <3>1, RunCharacters
    <3> QED BY <1>2, <3>2
  <2>5. a[k] = "$" /\ a[e] = "$"
    <3>1. text[p] = "$" /\ text[q] = "$"
      BY DEF TagEnds
    <3>2. k \in k..e /\ e \in k..e /\ p + (k - k) = p /\ p + (e - k) = q
      BY <1>3, <2>1, <2>3
    <3> QED BY <2>4, <3>1, <3>2
  <2>6. \A i \in k + 1..e - 1 : IsLetter(a[i]) \/ a[i] = "1"
    <3> SUFFICES ASSUME NEW i \in k + 1..e - 1 PROVE IsLetter(a[i]) \/ a[i] = "1"
      OBVIOUS
    <3>1. i \in k..e /\ p + (i - k) \in p + 1..q - 1
      BY <1>3, <2>1, <2>3
    <3>2. IsLetter(text[p + (i - k)]) \/ text[p + (i - k)] = "1"
      BY <3>1 DEF TagEnds
    <3> QED BY <2>4, <3>1, <3>2
  <2>7. e > k + 1 => IsLetter(a[k + 1])
    <3> SUFFICES ASSUME e > k + 1 PROVE IsLetter(a[k + 1])
      OBVIOUS
    <3>1. q > p + 1 /\ k + 1 \in k..e /\ p + ((k + 1) - k) = p + 1
      BY <1>3, <2>1, <2>3
    <3>2. IsLetter(text[p + 1])
      BY <3>1 DEF TagEnds
    <3> QED BY <2>4, <3>1, <3>2
  <2>8. e \in k + 1..K
    BY <1>3, <2>1, <2>3
  <2> QED BY <1>1, <2>5, <2>6, <2>7, <2>8 DEF TagEnds
<1> QED BY <1>1, <1>2, <1>4, <1>5

(* An opening `$tag$` is in both, in one run. *)
LEMMA DollarBegins ==
  ASSUME NEW a, IsAnswer(a), NEW k \in 1..Len(kept), Begins(a, k), Begins(text, kept[k]), TagEnds(a, k) # {}
  PROVE  Skipping(a, k)
<1>1. PICK n \in Nat, K \in Nat : n = Len(text) /\ K = Len(kept) /\ K = Len(a) /\ a \in Seq(Char)
  BY AnswerForm
<1>2. PICK p \in 1..n : p = kept[k]
  BY <1>1, NotLast
<1>3. PICK e : e = Min(TagEnds(a, k)) /\ e \in TagEnds(a, k)
  BY <1>1, TagEndsOf
<1>4. e \in k + 1..K /\ \A r \in k..e : a[r] \in {"$", "x", "1"}
  BY <1>1, <1>3, OpeningCharacters
<1>5. e \in k..Len(kept) /\ Run(k, e) /\ kept[e] \in TagEnds(text, p)
  BY <1>2, <1>3, TagsMatch
<1>6. PICK z : z = kept[e]
  OBVIOUS
<1>7. z = p + (e - k) /\ SubSeq(a, k + 1, e - 1) = SubSeq(text, p + 1, z - 1)
  <2>1. /\ kept[e] = kept[k] + (e - k)
        /\ SubSeq(a, k + 1, e - 1) = SubSeq(text, kept[k] + 1, kept[e] - 1)
    BY <1>5, RunCharacters
  <2> QED BY <1>2, <1>6, <2>1
<1>8. PICK tag : tag = SubSeq(a, k + 1, e - 1)
  OBVIOUS
<1>9. tag \in Seq(Char)
  <2>1. PICK i \in Int, j \in Int : i = k + 1 /\ j = e - 1 /\ i..j \subseteq 1..K
    BY <1>1, <1>4
  <2>2. \A r \in i..j : a[r] \in Char
    BY <1>1, <2>1, ElementOfSeq
  <2>3. SubSeq(a, i, j) \in Seq(Char)
    BY <2>1, <2>2, SubSeqProperties
  <2> QED BY <1>8, <2>1, <2>3
<1>10. OpenedDollar(a, e + 1, tag)
  BY <1>1, <1>3, <1>8, DollarOpens
<1>11. OpenedDollar(text, z + 1, tag)
  <2>1. Min(TagEnds(text, p)) = z
    BY <1>1, <1>5, <1>6, OneTagEnd
  <2>2. TagEnds(text, p) # {}
    BY <1>5
  <2>3. OpenedDollar(text, z + 1, SubSeq(text, p + 1, z - 1))
    BY <1>1, <1>2, <2>1, <2>2, DollarOpens
  <2> QED BY <1>7, <1>8, <2>3
<1>12. Ahead(a, e)
  BY <1>6, <1>9, <1>10, <1>11 DEF Ahead, Matched
<1>13. \A r \in k..e : a[r] # "/"
  BY <1>4
<1> QED BY <1>5, <1>12, <1>13 DEF Skipping

(* A delimiter stands in the answer where it stands in the text. *)
LEMMA DelimitersMatch ==
  ASSUME NEW a, IsAnswer(a), NEW k \in 1..Len(kept), NEW tag \in Seq(Char),
         OpenedDollar(a, k, tag), OpenedDollar(text, kept[k], tag)
  PROVE  /\ Looks(a, k, Delimiter(tag)) <=> Looks(text, kept[k], Delimiter(tag))
         /\ Looks(a, k, Delimiter(tag)) =>
              \E e \in k..Len(kept) : /\ e = k + Len(tag) + 1 /\ Run(k, e) /\ kept[e] = kept[k] + Len(tag) + 1
                                      /\ \A i \in k..e : a[i] # "/"
<1>1. PICK n \in Nat, K \in Nat : n = Len(text) /\ K = Len(kept) /\ K = Len(a) /\ a \in Seq(Char)
  BY AnswerForm
<1>2. PICK p \in 1..n : p = kept[k]
  BY <1>1, NotLast
<1>3. text \in Seq(Char)
  BY DEF IsAnswer, Finished, ScannerTypeOK
<1>4. PICK L \in Nat : L = Len(tag) /\ Len(Delimiter(tag)) = L + 2
  BY DelimiterForm
<1>5. PICK D : D = Delimiter(tag)
  OBVIOUS
<1>6. ASSUME NEW t, NEW r \in Int
      PROVE  Looks(t, r, D) <=> r + L + 1 <= Len(t) /\ SubSeq(t, r, r + L + 1) = D
  <2>1. r + Len(D) - 1 = r + L + 1
    BY <1>4, <1>5
  <2> QED BY <2>1 DEF Looks
<1>7. ASSUME Looks(a, k, D)
      PROVE  \E e \in k..K : /\ e = k + L + 1 /\ Run(k, e) /\ kept[e] = p + L + 1 /\ \A i \in k..e : a[i] # "/"
                             /\ Looks(text, p, D)
  <2>1. k + L + 1 \in k + 1..K
    BY <1>1, <1>4, <1>5, <1>7, DelimiterInText
  <2>2. PICK e \in k..K : e = k + L + 1
    BY <2>1
  <2>3. \A r \in k..e : a[r] \in {"$", "x", "1"}
    BY <1>1, <1>4, <1>5, <1>7, <2>2, DelimiterCharacters
  <2>4. Run(k, e)
    <3>1. \A r \in k + 1..e : r \in k..e
      BY <1>1
    <3>2. e \in k..Len(kept) /\ \A r \in k + 1..e : a[r] # "newline"
      BY <1>1, <2>3, <3>1
    <3> QED BY <3>2, RunInAnswer
  <2>5. /\ kept[e] = p + (e - k) /\ p + (e - k) \in p..n
        /\ SubSeq(a, k, e) = SubSeq(text, p, p + (e - k))
    <3>1. e \in k..Len(kept)
      BY <1>1
    <3>2. /\ kept[e] = kept[k] + (e - k) /\ kept[k] + (e - k) \in kept[k]..Len(text)
          /\ SubSeq(a, k, e) = SubSeq(text, kept[k], kept[k] + (e - k))
      BY <2>4, <3>1, RunCharacters
    <3> QED BY <1>1, <1>2, <3>2
  <2>6. p + (e - k) = p + L + 1 /\ k \in Int /\ p \in Int
    BY <1>1, <2>2
  <2>7. Looks(text, p, D)
    <3>1. SubSeq(a, k, k + L + 1) = D
      BY <1>6, <1>7, <2>6
    <3>2. SubSeq(text, p, p + L + 1) = D
      BY <2>2, <2>5, <2>6, <3>1
    <3>3. p + L + 1 <= Len(text)
      BY <1>1, <2>5, <2>6
    <3> QED BY <1>6, <2>6, <3>2, <3>3
  <2> QED BY <2>2, <2>3, <2>4, <2>5, <2>6, <2>7
<1>8. ASSUME Looks(text, p, D) PROVE Looks(a, k, D)
  <2>1. p + L + 1 \in p + 1..n
    BY <1>1, <1>3, <1>4, <1>5, <1>8, DelimiterInText
  <2>2. PICK q \in p..n : q = p + L + 1
    BY <2>1
  <2>3. \A r \in p..q : text[r] \in {"$", "x", "1"}
    BY <1>1, <1>2, <1>3, <1>4, <1>5, <1>8, <2>2, DelimiterCharacters
  <2>4. k + (q - p) \in k..Len(kept) /\ Run(k, k + (q - p))
    <3>1. \A r \in p + 1..q : r \in p..q
      OBVIOUS
    <3>2. q \in kept[k]..Len(text) /\ \A r \in kept[k] + 1..q : text[r] \notin {"blank", "newline", "/"}
      BY <1>1, <1>2, <2>3, <3>1
    <3>3. k + (q - kept[k]) \in k..Len(kept) /\ Run(k, k + (q - kept[k]))
      BY <3>2, RunInText
    <3> QED BY <1>2, <3>3
  <2>5. PICK e \in k..Len(kept) : e = k + (q - p) /\ Run(k, e)
    BY <2>4
  <2>6. SubSeq(a, k, e) = SubSeq(text, kept[k], kept[k] + (e - k))
    BY <2>5, RunCharacters
  <2>7. k \in Int /\ p \in Int /\ e = k + L + 1 /\ kept[k] + (e - k) = p + L + 1 /\ e \in k..K
    <3>1. k \in 1..K /\ e \in k..K
      BY <1>1, <2>5
    <3>2. k \in Int /\ p \in Int /\ e = k + L + 1 /\ p + (e - k) = p + L + 1
      BY <2>2, <2>5, <3>1
    <3>3. kept[k] + (e - k) = p + L + 1
      BY <1>2, <3>2, Zenon
    <3> QED BY <3>1, <3>2, <3>3
  <2>8. SubSeq(text, p, p + L + 1) = D
    BY <1>6, <1>8, <2>7
  <2>9. SubSeq(a, k, k + L + 1) = D
    BY <1>2, <2>6, <2>7, <2>8
  <2>10. k + L + 1 <= Len(a)
    BY <1>1, <2>7
  <2> QED BY <1>6, <2>7, <2>9, <2>10
<1> QED BY <1>1, <1>2, <1>4, <1>5, <1>7, <1>8

(* A character of a dollar-quoted literal, or its terminator. *)
LEMMA InsideDollarAhead ==
  ASSUME NEW a, IsAnswer(a), NEW k \in 1..Len(kept), NEW tag \in Seq(Char),
         OpenedDollar(a, k, tag), OpenedDollar(text, kept[k], tag)
  PROVE  Ahead(a, k) \/ Skipping(a, k)
<1>1. PICK n \in Nat, K \in Nat : n = Len(text) /\ K = Len(kept) /\ K = Len(a) /\ a \in Seq(Char)
  BY AnswerForm
<1>2. PICK p \in 1..n : p = kept[k]
  BY <1>1, NotLast
<1>3. CASE Looks(a, k, Delimiter(tag))
  <2>1. PICK e \in k..Len(kept) : /\ e = k + Len(tag) + 1 /\ Run(k, e) /\ kept[e] = kept[k] + Len(tag) + 1
                                  /\ \A i \in k..e : a[i] # "/"
    BY <1>3, DelimitersMatch
  <2>2. Looks(text, kept[k], Delimiter(tag))
    BY <1>3, DelimitersMatch
  <2>3. ASSUME e < K PROVE Matched(a, e + 1, kept[e] + 1)
    <3>1. PICK L \in Nat : L = Len(tag)
      BY DelimiterForm
    <3>2. Begins(a, e + 1)
      <4>1. e + 1 = k + L + 2 /\ k + L + 1 < K
        BY <1>1, <2>1, <2>3, <3>1
      <4>2. Begins(a, k + L + 2)
        BY <1>1, <1>3, <3>1, <4>1, DollarCloses
      <4> QED BY <4>1, <4>2
    <3>3. Begins(text, kept[e] + 1)
      <4>1. e \in 1..Len(kept)
        BY <1>1
      <4>2. kept[e] < n
        BY <1>1, <2>3, <4>1, NotLast
      <4>3. kept[e] + 1 = p + L + 2 /\ p + L + 1 < n
        BY <1>2, <2>1, <3>1, <4>2
      <4>4. Begins(text, p + L + 2)
        BY <1>1, <1>2, <2>2, <3>1, <4>3, DollarCloses
      <4> QED BY <4>3, <4>4
    <3> QED BY <3>2, <3>3 DEF Matched
  <2> QED BY <1>1, <2>1, <2>3 DEF Skipping, Ahead
<1>4. CASE ~Looks(a, k, Delimiter(tag))
  <2>1. ~Looks(text, kept[k], Delimiter(tag))
    BY <1>4, DelimitersMatch
  <2>2. OpenedDollar(a, k + 1, tag)
    BY <1>1, <1>4, DollarGoesOn
  <2>3. OpenedDollar(text, kept[k] + 1, tag)
    BY <1>1, <1>2, <2>1, DollarGoesOn
  <2> QED BY <2>2, <2>3 DEF Ahead, Matched
<1> QED BY <1>3, <1>4

(* Whatever the lexer is in, it is after the next character. *)
LEMMA MatchedOn ==
  ASSUME NEW a, IsAnswer(a), NEW k \in 1..Len(kept), Matched(a, k, kept[k])
  PROVE  Ahead(a, k) \/ Skipping(a, k)
<1>1. PICK n \in Nat, K \in Nat : n = Len(text) /\ K = Len(kept) /\ K = Len(a)
  BY AnswerForm
<1>2. PICK p \in 1..n : p = kept[k] /\ p \notin Dropped /\ a[k] = text[p] /\ a[k] \in Char
  BY <1>1, NotLast
<1>3. CASE Begins(a, k) /\ Begins(text, p)
  <2>1. CASE a[k] \in QuoteMarks
    BY <1>2, <1>3, <2>1, QuoteAhead
  <2>2. CASE a[k] = "$"
    <3>1. CASE TagEnds(a, k) = {}
      <4>1. Kind(a, k) = "other"
        BY <1>1, <2>2, <3>1, KindByCharacter
      <4>2. TagEnds(text, p) = {}
        BY <1>2, <3>1, TagsMatch
      <4>3. Kind(text, p) = "other"
        BY <1>1, <1>2, <2>2, <4>2, KindByCharacter
      <4> QED BY <1>2, <1>3, <4>1, <4>3, OtherAhead
    <3>2. CASE TagEnds(a, k) # {}
      BY <1>2, <1>3, <3>2, DollarBegins
    <3> QED BY <3>1, <3>2
  <2>3. CASE a[k] = "/"
    <3>1. ~IsAt(text, p + 1, "/")
      <4> SUFFICES ASSUME IsAt(text, p + 1, "/") PROVE FALSE
        OBVIOUS
      <4>1. Kind(text, p) = "slash comment"
        BY <1>1, <1>2, <2>3, KindByCharacter
      <4> QED BY <1>1, <1>2, <1>3, <4>1 DEF Begins, Dropped, PositionsOf
    <3>2. ~IsAt(a, k + 1, "/")
      BY <1>2, <3>1, SlashNext
    <3>3. Kind(a, k) = "other" /\ Kind(text, p) = "other"
      BY <1>1, <1>2, <2>3, <3>1, <3>2, KindByCharacter
    <3> QED BY <1>2, <1>3, <3>3, OtherAhead
  <2>4. CASE a[k] = "-"
    <3>1. ~IsAt(text, p + 1, "-")
      <4> SUFFICES ASSUME IsAt(text, p + 1, "-") PROVE FALSE
        OBVIOUS
      <4>1. Kind(text, p) = "line comment"
        BY <1>1, <1>2, <2>4, DashKind
      <4>2. p \in PositionsOf(text, {"line comment"})
        BY <1>1, <1>3, <4>1 DEF Begins, PositionsOf
      <4> QED BY <4>2 DEF IsAnswer, Finished, Plain, NoLineComment
    <3>2. ~IsAt(a, k + 1, "-")
      BY <1>2, <3>1, SameNext
    <3>3. Kind(a, k) = "other" /\ Kind(text, p) = "other"
      BY <1>1, <1>2, <2>4, <3>1, <3>2, DashKind
    <3> QED BY <1>2, <1>3, <3>3, OtherAhead
  <2>5. CASE a[k] = "x"
    <3>1. Kind(a, k) = "identifier" /\ Kind(text, p) = "identifier"
      BY <1>1, <1>2, <2>5, KindByCharacter
    <3> QED BY <1>2, <1>3, <3>1, IdentifierAhead DEF AtIdentifier
  <2>6. CASE a[k] \in {"1", "blank", "newline"}
    <3>1. Kind(a, k) = "other" /\ Kind(text, p) = "other"
      BY <1>1, <1>2, <2>6, KindByCharacter
    <3> QED BY <1>2, <1>3, <3>1, OtherAhead
  <2>7. a[k] \in QuoteMarks \/ a[k] \in {"$", "/", "-", "x", "1", "blank", "newline"}
    BY <1>2, Characters, Marks
  <2> QED BY <2>1, <2>2, <2>3, <2>4, <2>5, <2>6, <2>7
<1>4. CASE \E quote \in QuoteMarks, parity \in {0, 1} : Opened(a, k, quote, parity) /\ Opened(text, p, quote, parity)
  BY <1>2, <1>4, InsideQuotedAhead
<1>5. CASE \E tag \in Seq(Char) : OpenedDollar(a, k, tag) /\ OpenedDollar(text, p, tag)
  BY <1>2, <1>5, InsideDollarAhead
<1>6. CASE InIdentifier(a, k) /\ InIdentifier(text, p)
  BY <1>2, <1>6, IdentifierAhead DEF AtIdentifier
<1> QED BY <1>2, <1>3, <1>4, <1>5, <1>6 DEF Matched

(* In front of the answer there are only comments and white space, after which a token begins. *)
LEMMA AnswerBegins ==
  ASSUME NEW a, IsAnswer(a), Len(kept) >= 1
  PROVE  Matched(a, 1, kept[1])
<1>1. PICK n \in Nat, K \in Nat : n = Len(text) /\ K = Len(kept) /\ K = Len(a) /\ 1 \in 1..K
  BY AnswerForm
<1>2. Begins(a, 1)
  BY <1>1, FirstBegins
<1>3. PICK h \in 1..n : h = kept[1] /\ h \notin Dropped
  BY <1>1, AnswerForm
<1>4. PICK s : s = TokenStart(text)[h]
  OBVIOUS
<1>5. Begins(text, s) /\ s <= h /\ h <= TokenEnd(text, s) /\ s \in 1..n
  BY <1>1, <1>3, <1>4, InItsToken DEF Begins
<1>6. ASSUME s # h PROVE FALSE
  <2>1. s < h
    BY <1>5, <1>6
  <2>2. s \notin Dropped
    <3>1. Kind(text, s) # "slash comment"
      BY <1>1, <1>3, <1>4 DEF Dropped, PositionsOf
    <3> QED BY <1>5, <3>1, DroppedKind DEF Begins
  <2>3. ~Kept(s)
    <3> SUFFICES ASSUME Kept(s) PROVE FALSE
      OBVIOUS
    <3>1. PICK l \in 1..K : kept[l] = s
      BY <1>1, <1>5, KeptFacts DEF IsAnswer
    <3>2. l < 1
      BY <1>1, <1>3, <2>1, <3>1, AnswerForm
    <3> QED BY <3>2
  <2>4. text[s] \in White
    BY <1>1, <1>5, <2>2, <2>3, KeptFacts DEF IsAnswer
  <2>5. TokenEnd(text, s) = s
    <3>1. Kind(text, s) = "other"
      BY <1>1, <1>5, <2>4, KindByCharacter DEF White
    <3> QED BY <1>1, <1>5, <3>1, TokenEnds
  <2> QED BY <1>5, <2>1, <2>5
<1> QED BY <1>2, <1>3, <1>5, <1>6 DEF Matched

(* Lexing the answer, the lexer is in what it was in at that character of the text. *)
LEMMA AnswerFollows ==
  ASSUME NEW a, IsAnswer(a)
  PROVE  \A k \in 1..Len(kept) : Matched(a, k, kept[k]) \/ Skipping(a, k)
<1>1. PICK K \in Nat : K = Len(kept)
  BY AnswerForm
<1> DEFINE Bad == {k \in 1..K : ~(Matched(a, k, kept[k]) \/ Skipping(a, k))}
<1>2. SUFFICES ASSUME Bad # {} PROVE FALSE
  BY <1>1
<1>3. PICK m : m \in Bad /\ \A y \in Bad : m <= y
  <2>1. Bad \in SUBSET (1..K)
    OBVIOUS
  <2> HIDE DEF Bad
  <2> QED BY <1>2, <2>1, MinOfIndices
<1>4. CASE m = 1
  <2>1. Len(kept) >= 1
    BY <1>1, <1>3, <1>4
  <2> QED BY <1>3, <1>4, <2>1, AnswerBegins
<1>5. CASE m # 1
  <2>1. PICK k \in 1..K : k = m - 1 /\ k + 1 = m /\ k < K /\ ~(m <= k)
    BY <1>3, <1>5
  <2>2. Matched(a, k, kept[k]) \/ Skipping(a, k)
    BY <1>3, <2>1
  <2>3. Ahead(a, k) \/ Skipping(a, k)
    BY <1>1, <2>1, <2>2, MatchedOn
  <2>4. CASE Ahead(a, k)
    BY <1>1, <1>3, <2>1, <2>4, MatchedAcross
  <2>5. CASE ~Ahead(a, k)
    <3>1. PICK e \in k..K : Run(k, e) /\ (\A i \in k..e : a[i] # "/") /\ Ahead(a, e)
      BY <1>1, <2>3, <2>5 DEF Skipping
    <3>2. e \in m..K /\ \A i \in m..e : i \in k..e
      BY <2>1, <2>5, <3>1
    <3>3. Run(m, e)
      <4>1. kept[m] = kept[k] + (m - k)
        <5>1. m \in k..e
          BY <2>1, <3>2
        <5> QED BY <3>1, <5>1 DEF Run
      <4>2. \A i \in m..e : kept[i] = kept[k] + (i - k)
        BY <3>1, <3>2 DEF Run
      <4>3. PICK x \in Int : x = kept[k]
        <5>1. Len(text) \in Nat /\ kept[k] \in 1..Len(text)
          BY <1>1, <2>1, AnswerForm
        <5> QED BY <5>1
      <4>4. \A i \in m..e : x + (i - k) = (x + (m - k)) + (i - m)
        <5>1. m \in Int /\ k \in Int
          BY <2>1
        <5> QED BY <4>3, <5>1
      <4> QED BY <4>1, <4>2, <4>3, <4>4 DEF Run
    <3>4. Skipping(a, m)
      BY <1>1, <3>1, <3>2, <3>3 DEF Skipping
    <3> QED BY <1>3, <3>4
  <2> QED BY <2>4, <2>5
<1> QED BY <1>4, <1>5

(* A comment of the answer would be one of the text, which is dropped. *)
LEMMA FinishedIsClean ==
  ASSUME Finished
  PROVE  AnswerIsClean
<1>1. PICK a : a = Answer /\ IsAnswer(a)
  BY DEF IsAnswer
<1>2. PICK n \in Nat, K \in Nat : n = Len(text) /\ K = Len(kept) /\ K = Len(a)
  BY <1>1, AnswerForm
<1>3. ASSUME NEW q \in 1..K, Kind(a, TokenStart(a)[q]) = "slash comment" PROVE FALSE
  <2>1. PICK k : k = TokenStart(a)[q] /\ Begins(a, k) /\ k \in 1..K
    BY <1>2, InItsToken DEF Begins
  <2>2. a[k] = "/" /\ IsAt(a, k + 1, "/")
    <3>1. Looks(a, k, <<"/", "/">>)
      BY <1>3, <2>1 DEF Kind
    <3> QED BY <1>2, <2>1, <3>1, LooksTwice
  <2>3. PICK p \in 1..n : p = kept[k] /\ p \notin Dropped /\ text[p] = "/"
    BY <1>1, <1>2, <2>1, <2>2, NotLast
  <2>4. IsAt(text, p + 1, "/")
    BY <1>1, <1>2, <2>1, <2>2, <2>3, SlashNext
  <2>5. Matched(a, k, p)
    <3>1. ~Skipping(a, k)
      <4>1. \A e \in k..K : k \in k..e
        BY <2>1
      <4> QED BY <1>2, <2>2, <4>1 DEF Skipping
    <3> QED BY <1>1, <1>2, <2>1, <2>3, <3>1, AnswerFollows
  <2>6. CASE Begins(text, p)
    <3>1. Kind(text, p) = "slash comment"
      BY <1>2, <2>3, <2>4, KindByCharacter
    <3> QED BY <1>2, <2>3, <2>6, <3>1 DEF Begins, Dropped, PositionsOf
  <2>7. CASE \E quote \in QuoteMarks, parity \in {0, 1} : Opened(a, k, quote, parity)
    <3>1. TokenStart(a)[k] < k /\ k \in Nat
      BY <1>2, <2>1, <2>7, QuotedInToken
    <3> QED BY <2>1, <3>1 DEF Begins
  <2>8. CASE \E tag \in Seq(Char) : OpenedDollar(a, k, tag)
    <3>1. TokenStart(a)[k] < k /\ k \in Nat
      BY <1>2, <2>1, <2>8, DollarInToken
    <3> QED BY <2>1, <3>1 DEF Begins
  <2>9. CASE InIdentifier(a, k)
    BY <1>2, <2>1, <2>2, <2>9, IdentifierInToken
  <2> QED BY <2>5, <2>6, <2>7, <2>8, <2>9 DEF Matched
<1> QED BY <1>1, <1>2, <1>3 DEF AnswerIsClean, PositionsOf

(* Of plain texts of any length preprocess.go:17-60 removes the comments, and    *)
(* the blanks at the ends of lines and the white space around the text that are  *)
(* in no literal; of all else nothing but blanks at the ends of lines; what is   *)
(* left has no comment and keeps its lines.                                      *)
THEOREM OnlyCommentsRemoved ==
  ASSUME \A t \in Inputs : Plain(t)
  PROVE  Spec => []OnlyCommentsAndBlanksRemoved
<1>1. Init => FInv /\ KInv
  <2> SUFFICES ASSUME Init PROVE FInv /\ KInv
    OBVIOUS
  <2>1. Len(text) \in Nat
    BY InputsAssumption, LenProperties DEF Init
  <2>2. pos = 1 /\ kept = << >> /\ ~done
    BY DEF Init
  <2>3. FInv
    BY FollowsFirst
  <2>4. Places(kept) = {}
    BY <2>2 DEF Places
  <2>5. Written(pos) = {}
    BY <2>1, <2>2 DEF Written
  <2> QED BY <2>2, <2>3, <2>4, <2>5 DEF KInv, KeptExactly
<1>2. IInv /\ OneLiteralAtATime /\ FInv /\ KInv /\ [Next]_vars => FInv' /\ KInv'
  BY FollowsAlong, KeptAlong
<1>3. IInv /\ KeptInOrder /\ FInv /\ KInv => OnlyCommentsAndBlanksRemoved
  <2> SUFFICES ASSUME IInv, KeptInOrder, FInv, KInv PROVE OnlyCommentsAndBlanksRemoved
    OBVIOUS
  <2>0. KeptExactly
    BY DEF KInv
  <2>1. AllElseKept
    BY <2>0 DEF KeptExactly, AllElseKept
  <2>2. CASE done
    <3>1. Finished
      BY <2>0, <2>2 DEF Finished, IInv, FInv
    <3> QED BY <2>1, <3>1, FinishedIsClean, FinishedKeepsLines DEF OnlyCommentsAndBlanksRemoved
  <2>3. CASE ~done
    BY <2>1, <2>3 DEF OnlyCommentsAndBlanksRemoved, AnswerIsClean, LinesKept
  <2> QED BY <2>2, <2>3
<1> QED BY <1>1, <1>2, <1>3, InvariantHolds, FlagsExclusive, OrderKept, PTL DEF Spec
===============================================================================
