--------------------------- MODULE ParseBatchProofs ---------------------------
(***************************************************************************)
(* Proofs about ParseBatch for every value of its constants: the inductive *)
(* invariant IInv, the types of the state and of the answers, the          *)
(* placement of syntax errors and which of them are lost, the agreement of *)
(* the three entry points, and the refinement of BatchContract.            *)
(***************************************************************************)
EXTENDS ParseBatch, LeastElement, SequenceTheorems, TLAPS

-------------------------------------------------------------------------------
(* Facts about the parser's output and the operators on it.                *)

(* What Init enumerates is a well-formed element of Source. *)
LEMMA SourceIsWellFormed ==
  ASSUME NEW src, WellFormedSource(src)
  PROVE  src \in Source /\ WellFormed(src)
<1> DEFINE Stmts(eof) == {s \in Stmt : StmtWellFormed(s, eof)}
           Errs(eof, lines) == {e \in SyntaxError : ErrorWellFormed(e, eof, lines)}
           Fits(eof, lines, stmts, errs, params) ==
             /\ params \subseteq 0..eof - 1
             /\ errs = << >> => CleanParse(stmts, params)
             /\ src = [eof |-> eof, lines |-> lines, stmts |-> stmts, errs |-> errs, params |-> params]
           WithErrs(eof, lines, stmts) ==
             \E m \in 0..MaxErrs : \E errs \in [1..m -> Errs(eof, lines)] : \E params \in Params :
               Fits(eof, lines, stmts, errs, params)
           WithStmts(eof, lines) ==
             \E n \in 0..MaxStmts : \E stmts \in [1..n -> Stmts(eof)] :
               InSourceOrder(stmts) /\ WithErrs(eof, lines, stmts)
<1>1. PICK eof \in 0..MaxTok, lines \in [0..MaxTok -> 1..MaxLine] :
        Monotone(lines, eof) /\ WithStmts(eof, lines)
  BY Zenon DEF WellFormedSource
<1>2. PICK n \in 0..MaxStmts : \E stmts \in [1..n -> Stmts(eof)] :
        InSourceOrder(stmts) /\ WithErrs(eof, lines, stmts)
  BY <1>1, Zenon
<1>3. PICK stmts \in [1..n -> Stmts(eof)] : InSourceOrder(stmts) /\ WithErrs(eof, lines, stmts)
  BY <1>2, Zenon
<1>4. PICK m \in 0..MaxErrs : \E errs \in [1..m -> Errs(eof, lines)] : \E params \in Params :
        Fits(eof, lines, stmts, errs, params)
  BY <1>3, Zenon
<1>5. PICK errs \in [1..m -> Errs(eof, lines)], params \in Params :
        Fits(eof, lines, stmts, errs, params)
  BY <1>4, Zenon
<1>6. stmts \in [1..n -> Stmt] /\ errs \in [1..m -> SyntaxError]
  OBVIOUS
<1>7. src \in Source
  BY <1>5, <1>6 DEF Source
<1>8. WellFormed(src)
  BY <1>1, <1>3, <1>5 DEF WellFormed
<1> QED BY <1>7, <1>8

(* The statements and errors of an input are sequences of bounded length. *)
LEMMA SourceSequences ==
  ASSUME source \in Source
  PROVE  /\ source.stmts \in Seq(Stmt) /\ Len(source.stmts) <= MaxStmts
         /\ source.errs \in Seq(SyntaxError) /\ Len(source.errs) <= MaxErrs
         /\ source.lines \in [0..MaxTok -> 1..MaxLine]
         /\ source.eof \in 0..MaxTok
         /\ source.params \in Params
         /\ DOMAIN source.stmts = 1..Len(source.stmts)
         /\ DOMAIN source.errs = 1..Len(source.errs)
<1>1. PICK n \in 0..MaxStmts : source.stmts \in [1..n -> Stmt]
  BY DEF Source
<1>2. PICK m \in 0..MaxErrs : source.errs \in [1..m -> SyntaxError]
  BY DEF Source
<1>3. n \in Nat /\ m \in Nat /\ n <= MaxStmts /\ m <= MaxErrs
  BY BoundsAssumption
<1>4. source.stmts \in Seq(Stmt) /\ Len(source.stmts) = n
  BY <1>1, <1>3
<1>5. source.errs \in Seq(SyntaxError) /\ Len(source.errs) = m
  BY <1>2, <1>3
<1> QED BY <1>3, <1>4, <1>5 DEF Source

(* statementIndexForSyntaxError returns a statement that has the token, or *)
(* touches the line, or is the first; 0 only if nothing fits.              *)
LEMMA IndexPlacement ==
  ASSUME source \in Source, source.stmts # << >>, NEW e \in SyntaxError
  PROVE  LET idx == StatementIndexForSyntaxError(source, e) IN
         /\ idx \in 0..Len(source.stmts)
         /\ ByToken(source, e) # {} => idx \in ByToken(source, e)
         /\ ByToken(source, e) = {} /\ ByLine(source, e) # {} => idx \in ByLine(source, e)
         /\ ByToken(source, e) = {} /\ ByLine(source, e) = {} =>
              idx = IF e.line < StartLine(source, source.stmts[1]) THEN 1 ELSE 0
<1> DEFINE n == Len(source.stmts)
<1>1. n \in Nat /\ n >= 1 /\ DOMAIN source.stmts = 1..n
  BY SourceSequences
<1>2. ByToken(source, e) \in SUBSET (1..n) /\ ByLine(source, e) \in SUBSET (1..n)
  BY <1>1 DEF ByToken, ByLine
<1>3. ByToken(source, e) # {} => Min(ByToken(source, e)) \in ByToken(source, e)
  BY <1>1, <1>2, MinOfIndices
<1>4. ByLine(source, e) # {} => Min(ByLine(source, e)) \in ByLine(source, e)
  BY <1>1, <1>2, MinOfIndices
<1>5. CASE ByToken(source, e) # {}
  BY <1>1, <1>2, <1>3, <1>5 DEF StatementIndexForSyntaxError
<1>6. CASE ByToken(source, e) = {} /\ ByLine(source, e) # {}
  BY <1>1, <1>2, <1>4, <1>6 DEF StatementIndexForSyntaxError
<1>7. CASE ByToken(source, e) = {} /\ ByLine(source, e) = {}
  BY <1>1, <1>7 DEF StatementIndexForSyntaxError
<1> QED BY <1>5, <1>6, <1>7

(* A converted statement yields a query; ParseStatementToIR never returns anything else. *)
LEMMA ConversionType ==
  ASSUME source \in Source, NEW s \in Stmt, NEW text \in Text
  PROVE  ParseStatementToIR(source, s, text) \in ParsedQuery \cup {Nil}
<1>1. s.branch \in AllBranches
  BY BranchesAssumption DEF Stmt
<1>2. ParamsIn(source, text) \in SUBSET (0..MaxTok)
  BY SourceSequences, ParamsAssumption DEF ParamsIn
<1> QED BY <1>1, <1>2 DEF ParseStatementToIR, ParsedQuery

LEMMA QueryOfType ==
  ASSUME source \in Source, NEW k \in DOMAIN source.stmts
  PROVE  /\ StatementText(source.stmts[k]) \in Text
         /\ QueryOf(source, k) \in ParsedQuery \cup {Nil}
<1>1. source.stmts[k] \in Stmt
  BY SourceSequences
<1>2. StatementText(source.stmts[k]) \in Text
  BY <1>1, BoundsAssumption DEF Stmt, StatementText, Text
<1> QED BY <1>1, <1>2, ConversionType DEF QueryOf

-------------------------------------------------------------------------------
(* The replies of the one-step calls are replies.                          *)

LEMMA FirstReplyType ==
  ASSUME source \in Source
  PROVE  FirstReply(source) \in Replies /\ StrictReply(source) \in Replies
<1>1. PrepareParseState(source, FALSE) \in {"ok", "ParseErrors", "ErrNoStatements"}
  BY DEF PrepareParseState
<1>2. ASSUME PrepareParseState(source, FALSE) = "ok"
      PROVE  Reply(ParseStatementToIR(source, source.stmts[1], WholeText(source))) \in Replies
  <2>1. source.stmts # << >>
    BY <1>2 DEF PrepareParseState
  <2>2. source.stmts[1] \in Stmt
    BY <2>1, SourceSequences
  <2>3. WholeText(source) \in Text
    BY SourceSequences, BoundsAssumption DEF WholeText, Text
  <2>4. ParseStatementToIR(source, source.stmts[1], WholeText(source)) \in ParsedQuery \cup {Nil}
    BY <2>2, <2>3, ConversionType
  <2> QED BY <2>4 DEF Reply, Replies, Fail
<1>3. Fail("ErrMultipleStatements") \in Replies
  BY DEF Fail, Replies
<1>4. PrepareParseState(source, FALSE) # "ok" => Fail(PrepareParseState(source, FALSE)) \in Replies
  BY <1>1 DEF Fail, Replies
<1> QED BY <1>2, <1>3, <1>4 DEF FirstReply, StrictReply

(* Every element of the batch under construction is a statement result. *)
LEMMA ResultType ==
  ASSUME statements \in Seq(StatementParseResult), NEW k \in DOMAIN statements
  PROVE  statements[k] \in StatementParseResult /\ statements[k].warnings \in Seq(1..MaxErrs)
<1>1. statements[k] \in StatementParseResult
  BY ElementOfSeq
<1> QED BY <1>1 DEF StatementParseResult

LEMMA InitIInv == Init => IInv
<1> SUFFICES ASSUME Init PROVE IInv
  OBVIOUS
<1>1. source \in Source /\ WellFormed(source)
  BY SourceIsWellFormed DEF Init
<1>2. statements = << >> /\ i = 0 /\ j = 1 /\ first = Nil /\ strict = Nil /\ answer = Nil
  BY DEF Init
<1>3. DOMAIN source.errs = 1..Len(source.errs) /\ Len(source.errs) \in Nat
  BY <1>1, SourceSequences
<1>4. TypeOK
  BY <1>1, <1>2, BoundsAssumption DEF TypeOK
<1>5. RepliesComputed /\ AnswerComputed /\ ConvertedSoFar /\ WarningsAreAttributed
  BY <1>2 DEF RepliesComputed, AnswerComputed, ConvertedSoFar, WarningsAreAttributed
<1>6. LoopPositions
  BY <1>2, <1>3 DEF LoopPositions
<1>7. ReadErrorsAttributed
  BY <1>2, <1>3 DEF ReadErrorsAttributed
<1> QED BY <1>1, <1>4, <1>5, <1>6, <1>7 DEF IInv

-------------------------------------------------------------------------------
(* Every action preserves the invariant.                                   *)

LEMMA StutterIInv ==
  ASSUME IInv, UNCHANGED vars
  PROVE  IInv'
<1>1. UNCHANGED <<source, first, strict, statements, i, j, answer>>
  BY DEF vars
<1>2. TypeOK' /\ WellFormed(source)'
  BY <1>1 DEF IInv, TypeOK
<1>3. RepliesComputed' /\ LoopPositions'
  BY <1>1 DEF IInv, RepliesComputed, LoopPositions, Converted
<1>4. ConvertedSoFar' /\ WarningsAreAttributed'
  BY <1>1 DEF IInv, ConvertedSoFar, WarningsAreAttributed
<1>5. ReadErrorsAttributed' /\ AnswerComputed'
  BY <1>1 DEF IInv, ReadErrorsAttributed, AnswerComputed, Converted
<1> QED BY <1>2, <1>3, <1>4, <1>5 DEF IInv

LEMMA ParseSQLIInv ==
  ASSUME IInv, ParseSQL \/ ParseSQLStrict
  PROVE  IInv'
<1>1. UNCHANGED <<source, statements, i, j, answer>>
  BY DEF ParseSQL, ParseSQLStrict
<1>2. FirstReply(source) \in Replies /\ StrictReply(source) \in Replies
  BY FirstReplyType DEF IInv, TypeOK
<1>3. TypeOK'
  BY <1>1, <1>2 DEF IInv, TypeOK, ParseSQL, ParseSQLStrict
<1>4. RepliesComputed'
  BY <1>1 DEF IInv, RepliesComputed, ParseSQL, ParseSQLStrict
<1>5. LoopPositions' /\ ConvertedSoFar'
  BY <1>1 DEF IInv, LoopPositions, ConvertedSoFar, Converted
<1>6. WarningsAreAttributed'
  BY <1>1 DEF IInv, WarningsAreAttributed
<1>7. ReadErrorsAttributed' /\ AnswerComputed'
  BY <1>1 DEF IInv, ReadErrorsAttributed, AnswerComputed, Converted
<1> QED BY <1>1, <1>3, <1>4, <1>5, <1>6, <1>7 DEF IInv

LEMMA RejectBatchIInv ==
  ASSUME IInv, RejectBatch
  PROVE  IInv'
<1>1. UNCHANGED <<source, first, strict, statements, i, j>>
  BY DEF RejectBatch
<1>2. PrepareParseState(source, TRUE) # "ok" /\ i = 0 /\ answer' = Fail(PrepareParseState(source, TRUE))
  BY DEF RejectBatch
<1>3. answer' \in BatchReplies
  BY <1>2 DEF PrepareParseState, Fail, BatchReplies
<1>4. TypeOK'
  BY <1>1, <1>3 DEF IInv, TypeOK
<1>5. AnswerComputed'
  BY <1>1, <1>2 DEF AnswerComputed
<1>6. RepliesComputed' /\ LoopPositions' /\ ConvertedSoFar' /\ WarningsAreAttributed' /\ ReadErrorsAttributed'
  BY <1>1 DEF IInv, RepliesComputed, LoopPositions, ConvertedSoFar, WarningsAreAttributed,
              ReadErrorsAttributed, Converted
<1> QED BY <1>1, <1>4, <1>5, <1>6 DEF IInv

LEMMA PrepareBatchIInv ==
  ASSUME IInv, PrepareBatch
  PROVE  IInv'
<1> DEFINE n == Len(source.stmts)
<1>1. /\ UNCHANGED <<source, first, strict, j, answer>>
      /\ answer = Nil /\ i = 0 /\ i' = 1 /\ j = 1
      /\ source.stmts # << >>
      /\ statements' = [k \in DOMAIN source.stmts |-> ZeroResult]
  BY DEF PrepareBatch, PrepareParseState, IInv, LoopPositions
<1>2. n \in Nat /\ n >= 1 /\ n <= MaxStmts /\ DOMAIN source.stmts = 1..n
  BY <1>1, SourceSequences DEF IInv, TypeOK
<1>3. ZeroResult \in StatementParseResult /\ ZeroResult.warnings = << >>
  BY BoundsAssumption DEF ZeroResult, StatementParseResult, Text
<1>4. statements' \in Seq(StatementParseResult)
  BY <1>1, <1>2, <1>3, IsASeq
<1>5. TypeOK'
  BY <1>1, <1>2, <1>4, BoundsAssumption DEF IInv, TypeOK
<1>6. LoopPositions'
  BY <1>1, <1>2 DEF IInv, LoopPositions
<1>7. ConvertedSoFar'
  BY <1>1, <1>2 DEF ConvertedSoFar
<1>8. WarningsAreAttributed'
  BY <1>1, <1>3 DEF WarningsAreAttributed
<1>9. DOMAIN source.errs = 1..Len(source.errs)
  BY SourceSequences DEF IInv, TypeOK
<1>10. ReadErrorsAttributed'
  BY <1>1, <1>9 DEF ReadErrorsAttributed
<1>11. RepliesComputed' /\ AnswerComputed'
  BY <1>1 DEF IInv, RepliesComputed, AnswerComputed
<1> QED BY <1>1, <1>5, <1>6, <1>7, <1>8, <1>10, <1>11 DEF IInv

LEMMA ConvertStatementIInv ==
  ASSUME IInv, ConvertStatement
  PROVE  IInv'
<1> DEFINE n == Len(source.stmts)
           r == [index |-> i, rawSQL |-> StatementText(source.stmts[i]),
                 query |-> QueryOf(source, i), warnings |-> << >>]
<1>1. /\ UNCHANGED <<source, first, strict, j, answer>>
      /\ statements' = [statements EXCEPT ![i] = r]
      /\ i \in DOMAIN source.stmts /\ i' = i + 1
  BY DEF ConvertStatement
<1>2. n \in Nat /\ n <= MaxStmts /\ DOMAIN source.stmts = 1..n /\ i \in 1..n
  BY <1>1, SourceSequences DEF IInv, TypeOK
<1>3. /\ statements \in Seq(StatementParseResult) /\ DOMAIN statements = 1..n
      /\ j = 1 /\ answer = Nil
  <2>1. ~Converted
    BY <1>2 DEF Converted
  <2>2. j = 1
    BY <2>1 DEF IInv, LoopPositions, TypeOK
  <2>3. i # 0
    BY <1>2
  <2>4. answer = Nil
    BY <2>1, <2>3 DEF IInv, AnswerComputed
  <2>5. statements \in Seq(StatementParseResult) /\ DOMAIN statements = 1..n
    BY <1>2 DEF IInv, LoopPositions, TypeOK
  <2> QED BY <2>2, <2>4, <2>5
<1>4. r \in StatementParseResult
  <2>1. StatementText(source.stmts[i]) \in Text /\ QueryOf(source, i) \in ParsedQuery \cup {Nil}
    BY <1>1, QueryOfType DEF IInv, TypeOK
  <2> QED BY <1>2, <2>1, BoundsAssumption DEF StatementParseResult
<1>5. /\ statements' \in Seq(StatementParseResult) /\ DOMAIN statements' = 1..n
      /\ statements'[i] = r
      /\ \A k \in 1..n : k # i => statements'[k] = statements[k]
  BY <1>1, <1>2, <1>3, <1>4
<1> HIDE DEF r
<1>6. TypeOK'
  BY <1>1, <1>2, <1>3, <1>5, BoundsAssumption DEF IInv, TypeOK
<1>7. LoopPositions'
  BY <1>1, <1>2, <1>3, <1>5, SourceSequences DEF IInv, TypeOK, LoopPositions
<1>8. ConvertedSoFar'
  BY <1>1, <1>2, <1>3, <1>5 DEF IInv, ConvertedSoFar, r
<1>9. \A k \in 1..n : statements[k].warnings = << >>
  <2> SUFFICES ASSUME NEW k \in 1..n PROVE statements[k].warnings = << >>
    OBVIOUS
  <2>1. statements[k].warnings \in Seq(1..MaxErrs)
    BY <1>3, ResultType
  <2>2. \A w \in DOMAIN statements[k].warnings :
          statements[k].warnings[w] \in DOMAIN source.errs /\ statements[k].warnings[w] < 1
    BY <1>3 DEF IInv, WarningsAreAttributed
  <2>3. \A e \in DOMAIN source.errs : e \in Nat /\ ~(e < 1)
    BY SourceSequences DEF IInv, TypeOK
  <2>4. DOMAIN statements[k].warnings = {}
    BY <2>2, <2>3
  <2>5. Len(statements[k].warnings) = 0
    <3>1. DOMAIN statements[k].warnings = 1..Len(statements[k].warnings)
      BY <2>1
    <3>2. Len(statements[k].warnings) \in Nat
      BY <2>1
    <3>3. ~(1 \in 1..Len(statements[k].warnings))
      BY <2>4, <3>1
    <3> QED BY <3>2, <3>3
  <2> QED BY <2>1, <2>5, EmptySeq
<1>10. \A k \in 1..n : statements'[k].warnings = << >>
  BY <1>5, <1>9 DEF r
<1>11. WarningsAreAttributed'
  BY <1>5, <1>10 DEF WarningsAreAttributed
<1>12. ReadErrorsAttributed'
  BY <1>1, <1>3, SourceSequences DEF IInv, TypeOK, ReadErrorsAttributed
<1>13. RepliesComputed' /\ AnswerComputed'
  BY <1>1, <1>3 DEF IInv, RepliesComputed, AnswerComputed
<1> QED BY <1>1, <1>6, <1>7, <1>8, <1>11, <1>12, <1>13 DEF IInv

LEMMA AttributeErrorIInv ==
  ASSUME IInv, AttributeError
  PROVE  IInv'
<1> DEFINE n == Len(source.stmts)
           m == Len(source.errs)
           idx == StatementIndexForSyntaxError(source, source.errs[j])
           ws(k) == statements[k].warnings
<1>1. /\ UNCHANGED <<source, first, strict, i, answer>>
      /\ j' = j + 1
      /\ Converted /\ j \in DOMAIN source.errs
      /\ statements' = IF idx = 0 THEN statements
                       ELSE [statements EXCEPT ![idx].warnings = Append(@, j)]
  BY DEF AttributeError
<1>2. /\ n \in Nat /\ m \in Nat /\ m <= MaxErrs
      /\ DOMAIN source.stmts = 1..n /\ DOMAIN source.errs = 1..m
      /\ j \in 1..m /\ source.errs[j] \in SyntaxError
  BY <1>1, SourceSequences DEF IInv, TypeOK
<1>3. /\ statements \in Seq(StatementParseResult) /\ DOMAIN statements = 1..n
      /\ source.stmts # << >>
  BY <1>1, <1>2 DEF IInv, TypeOK, LoopPositions, Converted
<1>4. idx \in 0..n
  BY <1>2, <1>3, IndexPlacement DEF IInv, TypeOK
<1>5. answer = Nil
  <2>1. i # 0 /\ ~(j > Len(source.errs))
    BY <1>1, <1>2 DEF Converted
  <2> QED BY <2>1 DEF IInv, AnswerComputed
<1>6. \A k \in 1..n : ws(k) \in Seq(1..MaxErrs)
  BY <1>3, ResultType
<1> HIDE DEF idx
<1>7. /\ statements' \in Seq(StatementParseResult) /\ DOMAIN statements' = 1..n
      /\ \A k \in 1..n : k # idx => statements'[k] = statements[k]
      /\ \A k \in 1..n : /\ statements'[k].index = statements[k].index
                         /\ statements'[k].query = statements[k].query
      /\ idx # 0 => statements'[idx].warnings = Append(ws(idx), j)
  <2>1. CASE idx = 0
    BY <1>1, <1>2, <1>3, <2>1
  <2>2. CASE idx # 0
    <3>1. idx \in 1..n
      BY <1>4, <2>2
    <3>2. Append(ws(idx), j) \in Seq(1..MaxErrs)
      BY <1>2, <1>6, <3>1, BoundsAssumption
    <3> DEFINE r == [statements[idx] EXCEPT !.warnings = Append(ws(idx), j)]
    <3>a. statements[idx] \in StatementParseResult
      BY <1>3, <3>1, ResultType
    <3>3. r \in StatementParseResult /\ r.warnings = Append(ws(idx), j)
          /\ r.index = statements[idx].index /\ r.query = statements[idx].query
      BY <3>2, <3>a DEF StatementParseResult
    <3>4. statements' = [statements EXCEPT ![idx] = r]
      BY <1>1, <2>2
    <3> HIDE DEF r
    <3> QED BY <1>2, <1>3, <3>1, <3>3, <3>4
  <2> QED BY <2>1, <2>2
<1>8. TypeOK'
  <2>1. j + 1 \in 1..MaxErrs + 1
    BY <1>2, BoundsAssumption
  <2>2. TypeOK
    BY DEF IInv
  <2>3. statements' \in Seq(StatementParseResult)
    BY <1>7
  <2> QED BY <1>1, <2>1, <2>2, <2>3 DEF TypeOK
<1>9. LoopPositions'
  BY <1>1, <1>2, <1>7 DEF IInv, LoopPositions, Converted, TypeOK
<1>10. ConvertedSoFar'
  BY <1>1, <1>3, <1>7 DEF IInv, ConvertedSoFar
<1>11. WarningsAreAttributed'
  <2> SUFFICES ASSUME NEW k \in 1..n, NEW w \in DOMAIN statements'[k].warnings
               PROVE  /\ statements'[k].warnings[w] \in DOMAIN source.errs
                      /\ statements'[k].warnings[w] < j + 1
                      /\ StatementIndexForSyntaxError(source, source.errs[statements'[k].warnings[w]]) = k
                      /\ \A v \in DOMAIN statements'[k].warnings :
                           v < w => statements'[k].warnings[v] < statements'[k].warnings[w]
    BY <1>1, <1>7 DEF WarningsAreAttributed
  <2>1. \A u \in DOMAIN ws(k) :
          /\ ws(k)[u] \in DOMAIN source.errs /\ ws(k)[u] < j
          /\ StatementIndexForSyntaxError(source, source.errs[ws(k)[u]]) = k
          /\ \A v \in DOMAIN ws(k) : v < u => ws(k)[v] < ws(k)[u]
    BY <1>3 DEF IInv, WarningsAreAttributed
  <2>2. CASE k # idx
    <3>1. statements'[k].warnings = ws(k)
      BY <1>7, <2>2
    <3> QED BY <1>2, <2>1, <3>1
  <2>3. CASE k = idx
    <3>1. statements'[k].warnings = Append(ws(k), j) /\ ws(k) \in Seq(1..MaxErrs)
      BY <1>6, <1>7, <2>3, <1>4
    <3>2. /\ DOMAIN ws(k) = 1..Len(ws(k)) /\ Len(ws(k)) \in Nat
          /\ DOMAIN statements'[k].warnings = 1..Len(ws(k)) + 1
          /\ statements'[k].warnings[Len(ws(k)) + 1] = j
          /\ \A u \in 1..Len(ws(k)) : statements'[k].warnings[u] = ws(k)[u]
      BY <3>1
    <3> DEFINE new == statements'[k].warnings
    <3>3. CASE w = Len(ws(k)) + 1
      <4>1. new[w] = j /\ StatementIndexForSyntaxError(source, source.errs[j]) = k
        BY <2>3, <3>2, <3>3 DEF idx
      <4>2. \A v \in DOMAIN new : v < w => v \in 1..Len(ws(k))
        BY <3>2, <3>3
      <4>3. \A v \in DOMAIN new : v < w => new[v] < new[w]
        BY <2>1, <3>2, <4>1, <4>2
      <4> QED BY <1>2, <4>1, <4>3
    <3>4. CASE w \in 1..Len(ws(k))
      <4>1. new[w] = ws(k)[w]
        BY <3>2, <3>4
      <4>2. \A v \in DOMAIN new : v < w => v \in 1..Len(ws(k)) /\ new[v] = ws(k)[v]
        BY <3>2, <3>4
      <4>3. \A v \in DOMAIN new : v < w => new[v] < new[w]
        BY <2>1, <3>2, <3>4, <4>1, <4>2
      <4>4. /\ new[w] \in DOMAIN source.errs /\ new[w] < j + 1
            /\ StatementIndexForSyntaxError(source, source.errs[new[w]]) = k
        BY <1>2, <2>1, <3>2, <3>4, <4>1
      <4> QED BY <4>3, <4>4
    <3> QED BY <3>2, <3>3, <3>4
  <2> QED BY <2>2, <2>3
<1>12. ReadErrorsAttributed'
  <2> SUFFICES ASSUME NEW e \in 1..m, e < j + 1,
                      StatementIndexForSyntaxError(source, source.errs[e]) # 0
               PROVE  LET at == StatementIndexForSyntaxError(source, source.errs[e]) IN
                      \E w \in DOMAIN statements'[at].warnings : statements'[at].warnings[w] = e
    BY <1>1, <1>2 DEF ReadErrorsAttributed
  <2> DEFINE at == StatementIndexForSyntaxError(source, source.errs[e])
  <2>1. at \in 1..n
    BY <1>2, <1>3, IndexPlacement, SourceSequences DEF IInv, TypeOK
  <2>2. CASE e = j
    <3>1. at = idx
      BY <2>2 DEF idx
    <3>2. statements'[at].warnings = Append(ws(at), j) /\ ws(at) \in Seq(1..MaxErrs)
      BY <1>6, <1>7, <2>1, <3>1
    <3>3. Len(ws(at)) + 1 \in DOMAIN Append(ws(at), j) /\ Append(ws(at), j)[Len(ws(at)) + 1] = j
      BY <3>2
    <3> QED BY <2>2, <3>2, <3>3
  <2>3. CASE e < j
    <3>1. PICK w \in DOMAIN ws(at) : ws(at)[w] = e
      BY <1>2, <2>3 DEF IInv, ReadErrorsAttributed
    <3>2. CASE at # idx
      BY <1>7, <2>1, <3>1, <3>2
    <3>3. CASE at = idx
      <4>1. statements'[at].warnings = Append(ws(at), j) /\ ws(at) \in Seq(1..MaxErrs)
        BY <1>6, <1>7, <2>1, <3>3
      <4>2. w \in DOMAIN Append(ws(at), j) /\ Append(ws(at), j)[w] = e
        BY <3>1, <4>1
      <4> QED BY <4>1, <4>2
    <3> QED BY <3>2, <3>3
  <2> HIDE DEF at
  <2> QED BY <1>2, <2>2, <2>3 DEF at
<1>13. RepliesComputed' /\ AnswerComputed'
  BY <1>1, <1>5 DEF IInv, RepliesComputed, AnswerComputed
<1> QED BY <1>1, <1>8, <1>9, <1>10, <1>11, <1>12, <1>13 DEF IInv

LEMMA ReturnBatchIInv ==
  ASSUME IInv, ReturnBatch
  PROVE  IInv'
<1>1. /\ UNCHANGED <<source, first, strict, statements, i, j>>
      /\ Converted /\ j > Len(source.errs)
      /\ answer' = [kind |-> "Batch", statements |-> statements, hasFailures |-> HasFailures(statements)]
  BY DEF ReturnBatch
<1>2. answer' \in BatchReplies
  BY <1>1 DEF IInv, TypeOK, BatchReplies, HasFailures
<1>3. TypeOK'
  BY <1>1, <1>2 DEF IInv, TypeOK
<1>4. AnswerComputed'
  BY <1>1 DEF AnswerComputed, Converted
<1>5. RepliesComputed' /\ LoopPositions' /\ ConvertedSoFar' /\ WarningsAreAttributed' /\ ReadErrorsAttributed'
  BY <1>1 DEF IInv, RepliesComputed, LoopPositions, ConvertedSoFar, WarningsAreAttributed,
              ReadErrorsAttributed, Converted
<1> QED BY <1>1, <1>3, <1>4, <1>5 DEF IInv

(* IInv is an invariant of the three calls: types, loop positions, and what *)
(* has been converted and attributed so far (entry.go:23-111).              *)
THEOREM Inductive == Spec => []IInv
<1>1. IInv /\ [Next]_vars => IInv'
  <2> SUFFICES ASSUME IInv, [Next]_vars PROVE IInv'
    OBVIOUS
  <2>1. CASE ParseSQL \/ ParseSQLStrict
    BY <2>1, ParseSQLIInv
  <2>2. CASE RejectBatch
    BY <2>2, RejectBatchIInv
  <2>3. CASE PrepareBatch
    BY <2>3, PrepareBatchIInv
  <2>4. CASE ConvertStatement
    BY <2>4, ConvertStatementIInv
  <2>5. CASE AttributeError
    BY <2>5, AttributeErrorIInv
  <2>6. CASE ReturnBatch
    BY <2>6, ReturnBatchIInv
  <2>7. CASE UNCHANGED vars
    BY <2>7, StutterIInv
  <2> QED BY <2>1, <2>2, <2>3, <2>4, <2>5, <2>6, <2>7 DEF Next
<1> QED BY InitIInv, <1>1, PTL DEF Spec

-------------------------------------------------------------------------------
(* The properties the runs check, for every value of the constants.        *)

(* Type correctness of the three calls. *)
THEOREM TypeCorrect == Spec => []TypeOK
<1>1. IInv => TypeOK
  BY DEF IInv
<1> QED BY <1>1, Inductive, PTL

(* A syntax error is never a warning of a statement while its token belongs *)
(* to another one, nor while some other rule of statementIndexForSyntaxError *)
(* would have placed it.                                                    *)
THEOREM WarningsArePlaced == Spec => []WarningsWellPlaced
<1>1. IInv => WarningsWellPlaced
  <2> SUFFICES ASSUME IInv, NEW k \in DOMAIN statements, NEW w \in DOMAIN statements[k].warnings
               PROVE  LET e == source.errs[statements[k].warnings[w]] IN
                      \/ k \in ByToken(source, e)
                      \/ ByToken(source, e) = {} /\ k \in ByLine(source, e)
                      \/ /\ k = 1 /\ ByToken(source, e) \cup ByLine(source, e) = {}
                         /\ e.line < StartLine(source, source.stmts[1])
    BY DEF WarningsWellPlaced
  <2> DEFINE e == source.errs[statements[k].warnings[w]]
  <2>1. statements[k].warnings[w] \in DOMAIN source.errs /\ StatementIndexForSyntaxError(source, e) = k
    BY DEF IInv, WarningsAreAttributed
  <2>2. source \in Source /\ e \in SyntaxError
    BY <2>1, SourceSequences, ElementOfSeq DEF IInv, TypeOK
  <2>3. source.stmts # << >> /\ k # 0
    <3>1. statements \in Seq(StatementParseResult)
      BY DEF IInv, TypeOK
    <3>2. statements # << >> /\ k \in 1..Len(statements)
      BY <3>1
    <3> QED BY <3>2 DEF IInv, LoopPositions, TypeOK
  <2> HIDE DEF e
  <2>4. /\ ByToken(source, e) # {} => k \in ByToken(source, e)
        /\ ByToken(source, e) = {} /\ ByLine(source, e) # {} => k \in ByLine(source, e)
        /\ ByToken(source, e) = {} /\ ByLine(source, e) = {} =>
             k = IF e.line < StartLine(source, source.stmts[1]) THEN 1 ELSE 0
    BY <2>1, <2>2, <2>3, IndexPlacement
  <2> QED BY <2>3, <2>4 DEF e
<1> QED BY <1>1, Inductive, PTL

-------------------------------------------------------------------------------
(* What the invariant says of an answered batch.                           *)

LEMMA BatchAnswered ==
  ASSUME IInv, answer # Nil, answer.kind = "Batch"
  PROVE  /\ Converted /\ j > Len(source.errs)
         /\ answer.statements = statements
         /\ answer.hasFailures <=> HasFailures(statements)
         /\ PrepareParseState(source, TRUE) = "ok"
         /\ source.stmts # << >>
         /\ statements \in Seq(StatementParseResult)
         /\ DOMAIN statements = DOMAIN source.stmts
         /\ Len(statements) = Len(source.stmts)
         /\ \A k \in DOMAIN statements : statements[k].index = k /\ statements[k].query = QueryOf(source, k)
<1>1. ~(answer = Fail(PrepareParseState(source, TRUE)))
  BY DEF Fail, PrepareParseState
<1>2. /\ Converted /\ j > Len(source.errs)
      /\ answer = [kind |-> "Batch", statements |-> statements, hasFailures |-> HasFailures(statements)]
  BY <1>1 DEF IInv, AnswerComputed
<1>3. source.stmts # << >> /\ DOMAIN statements = DOMAIN source.stmts
  BY <1>2 DEF IInv, LoopPositions, Converted
<1>4. statements \in Seq(StatementParseResult) /\ source.stmts \in Seq(Stmt)
  BY SourceSequences DEF IInv, TypeOK
<1>5. Len(statements) = Len(source.stmts)
  BY <1>3, <1>4
<1>6. \A k \in DOMAIN statements : k < i
  BY <1>2, <1>3, <1>4 DEF Converted, IInv, TypeOK
<1>7. \A k \in DOMAIN statements : statements[k].index = k /\ statements[k].query = QueryOf(source, k)
  BY <1>6 DEF IInv, ConvertedSoFar
<1> QED BY <1>2, <1>3, <1>4, <1>5, <1>7 DEF PrepareParseState

(* A refused batch. *)
LEMMA BatchRefused ==
  ASSUME IInv, answer # Nil, answer.kind # "Batch"
  PROVE  /\ PrepareParseState(source, TRUE) # "ok"
         /\ answer.kind = PrepareParseState(source, TRUE)
<1>1. AnswerComputed
  BY DEF IInv
<1>2. answer # [kind |-> "Batch", statements |-> statements, hasFailures |-> HasFailures(statements)]
  OBVIOUS
<1>3. PrepareParseState(source, TRUE) # "ok" /\ answer = Fail(PrepareParseState(source, TRUE))
  BY <1>1, <1>2, Zenon DEF AnswerComputed
<1> QED BY <1>3 DEF Fail

(* An error that maps to a statement is a warning of it once all are read. *)
LEMMA ErrorReported ==
  ASSUME IInv, answer # Nil, answer.kind = "Batch", NEW e \in DOMAIN source.errs,
         StatementIndexForSyntaxError(source, source.errs[e]) # 0
  PROVE  LET idx == StatementIndexForSyntaxError(source, source.errs[e]) IN
         /\ idx \in DOMAIN statements
         /\ \E w \in DOMAIN statements[idx].warnings : statements[idx].warnings[w] = e
         /\ Reported(e)
<1> DEFINE idx == StatementIndexForSyntaxError(source, source.errs[e])
<1>1. e < j
  <2>1. j > Len(source.errs)
    BY BatchAnswered
  <2>2. e \in 1..Len(source.errs) /\ Len(source.errs) \in Nat /\ j \in Int
    BY SourceSequences DEF IInv, TypeOK
  <2> QED BY <2>1, <2>2
<1>2. source \in Source /\ source.errs[e] \in SyntaxError
  BY SourceSequences, ElementOfSeq DEF IInv, TypeOK
<1>3. idx \in 0..Len(source.stmts)
  BY <1>2, BatchAnswered, IndexPlacement
<1>4. idx \in DOMAIN statements
  BY <1>2, <1>3, BatchAnswered, SourceSequences
<1>5. \E w \in DOMAIN statements[idx].warnings : statements[idx].warnings[w] = e
  BY <1>1 DEF IInv, ReadErrorsAttributed
<1> HIDE DEF idx
<1>6. Reported(e)
  BY <1>4, <1>5, BatchAnswered DEF Reported
<1> QED BY <1>4, <1>5, <1>6 DEF idx

(* Whatever the number of statements and errors, the errors that are not   *)
(* reported lie behind the first statement and touch no statement          *)
(* (entry.go:114-153).                                                     *)
THEOREM OnlyOutsideLost == Spec => []OnlyOutsideErrorsLost
<1>1. IInv => OnlyOutsideErrorsLost
  <2> SUFFICES ASSUME IInv, answer # Nil, answer.kind = "Batch",
                      NEW e \in DOMAIN source.errs, ~Reported(e)
               PROVE  /\ ByToken(source, source.errs[e]) \cup ByLine(source, source.errs[e]) = {}
                      /\ source.errs[e].line > StartLine(source, source.stmts[1])
    BY DEF OnlyOutsideErrorsLost
  <2> DEFINE err == source.errs[e]
             start == StartLine(source, source.stmts[1])
  <2>1. StatementIndexForSyntaxError(source, err) = 0
    BY ErrorReported
  <2>2. source \in Source /\ err \in SyntaxError /\ source.stmts # << >>
    BY SourceSequences, ElementOfSeq, BatchAnswered DEF IInv, TypeOK
  <2>3. 0 \notin ByToken(source, err) /\ 0 \notin ByLine(source, err)
    BY <2>2, SourceSequences DEF ByToken, ByLine
  <2>4. ByToken(source, err) = {} /\ ByLine(source, err) = {} /\ ~(err.line < start)
    BY <2>1, <2>2, <2>3, IndexPlacement
  <2>5. source.stmts[1] \in Stmt /\ 1 \in DOMAIN source.stmts
    BY <2>2, SourceSequences
  <2>6. start \in 1..MaxLine /\ source.lines[source.stmts[1].stop] \in 1..MaxLine /\ err.line \in 1..MaxLine
    BY <2>2, <2>5, SourceSequences DEF StartLine, Stmt, SyntaxError
  <2>7. err.line # start
    <3> SUFFICES ASSUME err.line = start PROVE FALSE
      OBVIOUS
    <3>1. start <= StopLine(source, source.stmts[1])
      BY <2>6, BoundsAssumption DEF StopLine, StartLine
    <3>2. TouchesLine(source, source.stmts[1], err.line)
      BY <2>6, <3>1, BoundsAssumption DEF TouchesLine
    <3> QED BY <2>4, <2>5, <3>2 DEF ByLine
  <2> QED BY <2>4, <2>6, <2>7, BoundsAssumption
<1> QED BY <1>1, Inductive, PTL

-------------------------------------------------------------------------------
(* The three entry points on the same text.                                *)

LEMMA NoElements ==
  ASSUME NEW S, NEW seq \in Seq(S), DOMAIN seq = {}
  PROVE  seq = << >>
<1>1. DOMAIN seq = 1..Len(seq) /\ Len(seq) \in Nat
  OBVIOUS
<1>2. ~(1 \in 1..Len(seq))
  BY <1>1
<1>3. Len(seq) = 0
  BY <1>1, <1>2
<1> QED BY <1>3, EmptySeq

(* A conversion fails for the statements that do not convert, whatever     *)
(* their text; the command depends on the statement alone.                 *)
LEMMA ConversionFacts ==
  ASSUME source \in Source, NEW s \in Stmt, NEW text \in Text
  PROVE  LET q == ParseStatementToIR(source, s, text) IN
         /\ q # Nil <=> s.converts
         /\ q # Nil => /\ q.command = Command[s.branch]
                       /\ q.params = IF s.branch = "other" THEN {} ELSE ParamsIn(source, text)
<1> DEFINE q == [ command |-> Command[s.branch], rawSQL |-> text,
                  params  |-> IF s.branch = "other" THEN {} ELSE ParamsIn(source, text) ]
<1>1. s.converts \in BOOLEAN
  BY DEF Stmt
<1>2. CASE ~s.converts
  BY <1>2 DEF ParseStatementToIR
<1>3. CASE s.converts
  <2>1. ParseStatementToIR(source, s, text) = q
    BY <1>3 DEF ParseStatementToIR
  <2>2. s.branch \in AllBranches /\ ParamsIn(source, text) \in SUBSET (0..MaxTok)
    BY BranchesAssumption, SourceSequences, ParamsAssumption DEF Stmt, ParamsIn
  <2>3. q \in ParsedQuery
    BY <2>2 DEF ParsedQuery
  <2>4. q # Nil
    BY <2>3, NilAssumption
  <2> QED BY <1>3, <2>1, <2>4
<1> QED BY <1>1, <1>2, <1>3

(* The text of a statement that has been parsed is not empty. *)
LEMMA FirstStatement ==
  ASSUME IInv, source.stmts # << >>
  PROVE  /\ 1 \in DOMAIN source.stmts /\ source.stmts[1] \in Stmt
         /\ StmtWellFormed(source.stmts[1], source.eof)
         /\ WholeText(source) \in Text /\ StatementText(source.stmts[1]) \in Text
<1>1. source \in Source /\ WellFormed(source)
  BY DEF IInv, TypeOK
<1>2. 1 \in DOMAIN source.stmts /\ source.stmts[1] \in Stmt
  BY <1>1, SourceSequences
<1>3. WholeText(source) \in Text
  <2>1. source.eof \in 0..MaxTok
    BY <1>1, SourceSequences
  <2>2. source.eof - 1 \in -1..MaxTok /\ 0 \in 0..MaxTok
    BY <2>1, BoundsAssumption
  <2> QED BY <2>1, <2>2 DEF WholeText, Text
<1>4. StmtWellFormed(source.stmts[1], source.eof)
  BY <1>1, <1>2 DEF WellFormed
<1>5. StatementText(source.stmts[1]) \in Text
  BY <1>1, <1>2, QueryOfType
<1> QED BY <1>2, <1>3, <1>4, <1>5

(* ParseSQL's answer, once it is there. *)
LEMMA FirstAnswered ==
  ASSUME IInv, first # Nil
  PROVE  LET q == ParseStatementToIR(source, source.stmts[1], WholeText(source)) IN
         IF PrepareParseState(source, FALSE) # "ok" THEN first.kind = PrepareParseState(source, FALSE)
         ELSE IF q = Nil THEN first.kind = "ConversionError"
         ELSE first.kind = "Query" /\ first.query = q
<1>1. first = FirstReply(source)
  BY DEF IInv, RepliesComputed
<1> QED BY <1>1 DEF FirstReply, Reply, Fail

(* ParseSQLStrict's answer: ParseSQL's, but for the number of statements. *)
LEMMA StrictAnswered ==
  ASSUME IInv, strict # Nil
  PROVE  /\ PrepareParseState(source, FALSE) = "ok" /\ Len(source.stmts) > 1 => strict.kind = "ErrMultipleStatements"
         /\ ~(PrepareParseState(source, FALSE) = "ok" /\ Len(source.stmts) > 1) => strict = FirstReply(source)
         /\ strict.kind = "ErrMultipleStatements" => PrepareParseState(source, FALSE) = "ok" /\ Len(source.stmts) > 1
<1>1. strict = StrictReply(source)
  BY DEF IInv, RepliesComputed
<1>2. PrepareParseState(source, FALSE) \in {"ok", "ParseErrors", "ErrNoStatements"}
  BY DEF PrepareParseState
<1> QED BY <1>1, <1>2 DEF StrictReply, FirstReply, Reply, Fail

(* A text that is parsed without errors: all that ParseSQLAll answers of   *)
(* its first statement is what ParseSQL answers, but for the parameters of *)
(* other statements.                                                       *)
LEMMA CleanTexts ==
  ASSUME IInv, source.errs = << >>, source.stmts # << >>, answer # Nil
  PROVE  LET q == ParseStatementToIR(source, source.stmts[1], WholeText(source))
             r == answer.statements[1] IN
         /\ answer.kind = "Batch"
         /\ \A k \in DOMAIN answer.statements : answer.statements[k].warnings = << >>
         /\ r.query = Nil <=> q = Nil
         /\ q # Nil => /\ r.query.command = q.command
                       /\ r.query.params \subseteq q.params
                       /\ Len(source.stmts) = 1 => r.query.params = q.params
<1> DEFINE s == source.stmts[1]
           q == ParseStatementToIR(source, s, WholeText(source))
           own == ParseStatementToIR(source, s, StatementText(s))
<1>1. PrepareParseState(source, TRUE) = "ok"
  BY DEF PrepareParseState
<1>2. answer.kind = "Batch"
  BY <1>1, BatchRefused
<1>3. /\ statements \in Seq(StatementParseResult) /\ answer.statements = statements
      /\ 1 \in DOMAIN statements /\ statements[1].query = QueryOf(source, 1)
  BY <1>2, BatchAnswered, FirstStatement
<1>4. \A k \in DOMAIN statements : statements[k].warnings = << >>
  <2> SUFFICES ASSUME NEW k \in DOMAIN statements PROVE statements[k].warnings = << >>
    OBVIOUS
  <2>1. statements[k].warnings \in Seq(1..MaxErrs)
    BY <1>3, ResultType
  <2>2. \A w \in DOMAIN statements[k].warnings : statements[k].warnings[w] \in DOMAIN source.errs
    BY DEF IInv, WarningsAreAttributed
  <2>3. DOMAIN source.errs = {}
    OBVIOUS
  <2>4. DOMAIN statements[k].warnings = {}
    BY <2>2, <2>3
  <2> QED BY <2>1, <2>4, NoElements
<1>5. /\ s \in Stmt /\ s.start <= s.stop /\ s.stop < source.eof
      /\ WholeText(source) \in Text /\ StatementText(s) \in Text
  BY FirstStatement DEF StmtWellFormed
<1>6. ~Empty(s)
  BY <1>5 DEF Empty, Stmt
<1>7. statements[1].query = own
  BY <1>3, <1>6 DEF QueryOf
<1>8. source \in Source
  BY DEF IInv, TypeOK
<1>9. ParamsIn(source, StatementText(s)) \subseteq ParamsIn(source, WholeText(source))
  <2>1. s.start \in 0..MaxTok /\ s.stop \in 0..MaxTok /\ source.eof \in 0..MaxTok
        /\ source.params \subseteq 0..MaxTok
    BY <1>5, <1>8, SourceSequences, ParamsAssumption DEF Stmt
  <2> QED BY <1>5, <2>1, BoundsAssumption DEF ParamsIn, StatementText, WholeText
<1>10. ASSUME Len(source.stmts) = 1
       PROVE  ParamsIn(source, StatementText(s)) = source.params /\ ParamsIn(source, WholeText(source)) = source.params
  <2>1. DOMAIN source.stmts = {1}
    BY <1>8, <1>10, SourceSequences
  <2>2. CleanParse(source.stmts, source.params)
    BY DEF IInv, WellFormed
  <2>3. \A t \in source.params : Covers(s, t)
    BY <2>1, <2>2 DEF CleanParse
  <2>4. ParamsIn(source, StatementText(s)) = source.params
    BY <2>3 DEF ParamsIn, StatementText, Covers
  <2> QED BY <1>9, <2>4 DEF ParamsIn
<1> HIDE DEF s
<1>11. /\ q # Nil <=> own # Nil
       /\ q # Nil => own.command = q.command
  BY <1>5, <1>8, ConversionFacts
<1>12. q # Nil => own.params \subseteq q.params
  BY <1>5, <1>8, <1>9, <1>11, ConversionFacts
<1>13. q # Nil /\ Len(source.stmts) = 1 => own.params = q.params
  BY <1>5, <1>8, <1>10, <1>11, ConversionFacts
<1> HIDE DEF q, own
<1> QED BY <1>2, <1>3, <1>4, <1>7, <1>11, <1>12, <1>13 DEF q, s

(* What ParseSQLStrict and ParseSQL accept is accepted by ParseSQLAll with *)
(* the same result, and what they refuse it refuses or reports, for every  *)
(* number of statements and errors (entry.go:14-111).                      *)
THEOREM EntriesAgree == Spec => []EntryPointsAgree
<1>1. IInv => StrictAgrees
  <2> SUFFICES ASSUME IInv PROVE StrictAgrees
    OBVIOUS
  <2> DEFINE q == ParseStatementToIR(source, source.stmts[1], WholeText(source))
  <2>0. Len(source.stmts) \in Nat /\ (source.stmts # << >> => Len(source.stmts) >= 1)
    BY SourceSequences DEF IInv, TypeOK
  <2>1. ASSUME strict # Nil, first # Nil, answer # Nil, strict.kind = "Query"
        PROVE  /\ first = strict
               /\ answer.kind = "Batch" /\ ~answer.hasFailures
               /\ Len(answer.statements) = 1
               /\ answer.statements[1].query.command = strict.query.command
               /\ answer.statements[1].query.params = strict.query.params
    <3>1. strict = FirstReply(source) /\ ~(PrepareParseState(source, FALSE) = "ok" /\ Len(source.stmts) > 1)
      BY <2>1, StrictAnswered
    <3>2. first = strict
      BY <2>1, <3>1 DEF IInv, RepliesComputed
    <3>3. PrepareParseState(source, FALSE) \in {"ok", "ParseErrors", "ErrNoStatements"}
      BY DEF PrepareParseState
    <3>4. PrepareParseState(source, FALSE) = "ok" /\ q # Nil /\ strict.query = q
      BY <2>1, <3>2, <3>3, FirstAnswered
    <3>5. source.errs = << >> /\ source.stmts # << >> /\ Len(source.stmts) = 1
      <4>1. source.errs = << >> /\ source.stmts # << >>
        BY <3>4 DEF PrepareParseState
      <4>2. ~(Len(source.stmts) > 1)
        BY <3>1, <3>4, Zenon
      <4> DEFINE n == Len(source.stmts)
      <4>3. n \in Nat /\ n >= 1 /\ ~(n > 1)
        BY <2>0, <4>1, <4>2, Zenon
      <4> HIDE DEF n
      <4>4. n = 1
        BY <4>3
      <4> QED BY <4>1, <4>4 DEF n
    <3>6. /\ answer.kind = "Batch"
          /\ \A k \in DOMAIN answer.statements : answer.statements[k].warnings = << >>
          /\ answer.statements[1].query # Nil
          /\ answer.statements[1].query.command = q.command
          /\ answer.statements[1].query.params = q.params
      BY <2>1, <3>4, <3>5, CleanTexts
    <3>7. Len(answer.statements) = 1 /\ DOMAIN answer.statements = {1} /\ answer.statements = statements
      BY <2>1, <3>5, <3>6, BatchAnswered
    <3>8. ~HasFailures(statements)
      BY <3>6, <3>7 DEF HasFailures
    <3>9. ~answer.hasFailures
      BY <2>1, <3>6, <3>8, BatchAnswered
    <3> QED BY <3>2, <3>4, <3>6, <3>7, <3>9
  <2>2. ASSUME strict # Nil, answer # Nil
        PROVE  strict.kind = "ErrMultipleStatements" <=>
                 answer.kind = "Batch" /\ Len(answer.statements) > 1 /\ source.errs = << >>
    <3>1. strict.kind = "ErrMultipleStatements" <=> PrepareParseState(source, FALSE) = "ok" /\ Len(source.stmts) > 1
      BY <2>2, StrictAnswered
    <3>2. PrepareParseState(source, FALSE) = "ok" <=> source.errs = << >> /\ source.stmts # << >>
      BY DEF PrepareParseState
    <3>3. source.errs = << >> /\ source.stmts # << >> => answer.kind = "Batch"
      BY <2>2, CleanTexts
    <3>4. answer.kind = "Batch" => Len(answer.statements) = Len(source.stmts) /\ source.stmts # << >>
      BY <2>2, BatchAnswered
    <3> QED BY <3>1, <3>2, <3>3, <3>4
  <2> QED BY <2>1, <2>2 DEF StrictAgrees
<1>2. IInv => FirstAgrees
  <2> SUFFICES ASSUME IInv, first # Nil, answer # Nil PROVE FirstAgrees
    BY DEF FirstAgrees
  <2> DEFINE q == ParseStatementToIR(source, source.stmts[1], WholeText(source))
  <2>1. /\ PrepareParseState(source, FALSE) =
             IF source.errs # << >> THEN "ParseErrors" ELSE IF source.stmts = << >> THEN "ErrNoStatements" ELSE "ok"
        /\ PrepareParseState(source, TRUE) =
             IF source.stmts # << >> THEN "ok" ELSE IF source.errs # << >> THEN "ParseErrors" ELSE "ErrNoStatements"
    BY DEF PrepareParseState
  <2>2. answer.kind = IF source.stmts # << >> THEN "Batch" ELSE PrepareParseState(source, TRUE)
    BY <2>1, BatchRefused, BatchAnswered
  <2>3. first.kind = "ErrNoStatements" <=> answer.kind = "ErrNoStatements"
    BY <2>1, <2>2, FirstAnswered
  <2>4. answer.kind = "ParseErrors" => first.kind = "ParseErrors"
    BY <2>1, <2>2, FirstAnswered
  <2>5. ASSUME first.kind = "Query"
        PROVE  /\ \A k \in DOMAIN answer.statements : answer.statements[k].warnings = << >>
               /\ answer.statements[1].query.command = first.query.command
               /\ answer.statements[1].query.params \subseteq first.query.params
    <3>1. source.errs = << >> /\ source.stmts # << >> /\ q # Nil /\ first.query = q
      BY <2>1, <2>5, FirstAnswered
    <3> QED BY <3>1, CleanTexts
  <2>6. ASSUME answer.kind = "Batch", ~answer.hasFailures, \A e \in DOMAIN source.errs : Reported(e)
        PROVE  first.kind = "Query"
    <3>1. /\ ~HasFailures(statements) /\ answer.statements = statements
          /\ statements \in Seq(StatementParseResult) /\ source.stmts # << >>
      BY <2>6, BatchAnswered
    <3>2. \A k \in DOMAIN statements : statements[k].query # Nil /\ statements[k].warnings = << >>
      BY <3>1 DEF HasFailures
    <3>3. \A e : ~Reported(e)
      BY <3>1, <3>2 DEF Reported
    <3>4. source.errs = << >>
      <4>1. DOMAIN source.errs = {}
        BY <2>6, <3>3
      <4> QED BY <4>1, SourceSequences, NoElements DEF IInv, TypeOK
    <3>5. 1 \in DOMAIN statements
      BY <2>6, <3>1, BatchAnswered, FirstStatement
    <3>6. q # Nil
      BY <3>1, <3>2, <3>4, <3>5, CleanTexts
    <3> QED BY <2>1, <3>1, <3>4, <3>6, FirstAnswered
  <2> QED BY <2>3, <2>4, <2>5, <2>6 DEF FirstAgrees
<1>3. IInv => EntryPointsAgree
  BY <1>1, <1>2 DEF EntryPointsAgree
<1> QED BY <1>3, Inductive, PTL

-------------------------------------------------------------------------------
(* ParseSQLAll implements BatchContract.                                   *)

(* The contract speaks of the same texts. *)
LEMMA SameTexts ==
  /\ Contract!Source = Source
  /\ \A src : Contract!WellFormed(src) <=> WellFormed(src)
  /\ \A s, t : Contract!Covers(s, t) <=> Covers(s, t)
  /\ \A s : Contract!Empty(s) <=> Empty(s)
<1>1. Contract!Source = Source
  BY DEF Contract!Source, Source, Contract!Stmt, Stmt, Contract!SyntaxError, SyntaxError
<1>2. \A s, t : (Contract!Covers(s, t) <=> Covers(s, t)) /\ (Contract!Empty(s) <=> Empty(s))
  BY DEF Contract!Covers, Covers, Contract!Empty, Empty
<1>3. ASSUME NEW src PROVE Contract!WellFormed(src) <=> WellFormed(src)
  <2>1. Contract!Monotone(src.lines, src.eof) <=> Monotone(src.lines, src.eof)
    BY DEF Contract!Monotone, Monotone
  <2>2. \A s : Contract!StmtWellFormed(s, src.eof) <=> StmtWellFormed(s, src.eof)
    BY DEF Contract!StmtWellFormed, StmtWellFormed
  <2>3. Contract!InSourceOrder(src.stmts) <=> InSourceOrder(src.stmts)
    BY DEF Contract!InSourceOrder, InSourceOrder
  <2>4. \A e : Contract!ErrorWellFormed(e, src.eof, src.lines) <=> ErrorWellFormed(e, src.eof, src.lines)
    BY DEF Contract!ErrorWellFormed, ErrorWellFormed
  <2>5. Contract!CleanParse(src.stmts, src.params) <=> CleanParse(src.stmts, src.params)
    BY <1>2 DEF Contract!CleanParse, CleanParse
  <2> QED BY <2>1, <2>2, <2>3, <2>4, <2>5, Zenon DEF Contract!WellFormed, WellFormed
<1> QED BY <1>1, <1>2, <1>3

(* A token belongs to one statement at most, so an error at it maps there. *)
LEMMA InnerErrorIndex ==
  ASSUME IInv, NEW e \in DOMAIN source.errs, NEW k \in DOMAIN source.stmts,
         source.errs[e].tok >= 0, Covers(source.stmts[k], source.errs[e].tok)
  PROVE  StatementIndexForSyntaxError(source, source.errs[e]) = k
<1> DEFINE err == source.errs[e]
<1>1. source \in Source /\ err \in SyntaxError /\ source.stmts # << >>
  BY SourceSequences, ElementOfSeq DEF IInv, TypeOK
<1>2. \A m \in DOMAIN source.stmts :
        /\ source.stmts[m].start \in Int /\ source.stmts[m].stop \in Int
        /\ source.stmts[m].start <= source.stmts[m].stop
  <2> SUFFICES ASSUME NEW m \in DOMAIN source.stmts
               PROVE  /\ source.stmts[m].start \in Int /\ source.stmts[m].stop \in Int
                      /\ source.stmts[m].start <= source.stmts[m].stop
    OBVIOUS
  <2>1. source.stmts[m] \in Stmt
    BY <1>1, SourceSequences, ElementOfSeq
  <2>2. StmtWellFormed(source.stmts[m], source.eof)
    BY DEF IInv, WellFormed
  <2> QED BY <2>1, <2>2 DEF Stmt, StmtWellFormed
<1>3. err.tok \in Int
  BY <1>1 DEF SyntaxError
<1>4. \A m \in ByToken(source, err) : m = k
  <2> SUFFICES ASSUME NEW m \in ByToken(source, err), m # k PROVE FALSE
    OBVIOUS
  <2>1. /\ m \in DOMAIN source.stmts /\ Covers(source.stmts[m], err.tok)
        /\ m \in Int /\ k \in Int
    BY <1>1, SourceSequences DEF ByToken
  <2>2. \A x, y \in DOMAIN source.stmts : x < y => source.stmts[y].start > source.stmts[x].stop + 1
    BY DEF IInv, WellFormed, InSourceOrder
  <2> QED BY <1>2, <1>3, <2>1, <2>2 DEF Covers
<1>5. k \in ByToken(source, err)
  BY <1>2 DEF ByToken, Empty
<1> HIDE DEF err
<1>6. StatementIndexForSyntaxError(source, err) = k
  BY <1>1, <1>4, <1>5, IndexPlacement
<1> QED BY <1>6 DEF err

(* The answer of ParseSQLAll is one that the contract allows. *)
LEMMA PromiseKept ==
  ASSUME IInv, answer # Nil
  PROVE  Contract!Promise(answer)
<1>1. CASE answer.kind # "Batch"
  <2>1. /\ answer.kind = PrepareParseState(source, TRUE) /\ PrepareParseState(source, TRUE) # "ok"
    BY <1>1, BatchRefused
  <2>2. \/ answer.kind = "ParseErrors" /\ source.errs # << >> /\ source.stmts = << >>
        \/ answer.kind = "ErrNoStatements" /\ source.errs = << >> /\ source.stmts = << >>
    BY <2>1 DEF PrepareParseState
  <2> QED BY <2>2 DEF Contract!Promise
<1>2. CASE answer.kind = "Batch"
  <2>1. /\ answer.statements = statements /\ source.stmts # << >>
        /\ answer.hasFailures <=> HasFailures(statements)
        /\ DOMAIN statements = DOMAIN source.stmts
        /\ \A k \in DOMAIN statements : statements[k].index = k /\ statements[k].query = QueryOf(source, k)
        /\ statements \in Seq(StatementParseResult)
    BY <1>2, BatchAnswered
  <2>2. Contract!ResultsCorrelate(statements)
    <3>1. ASSUME NEW k \in DOMAIN statements
          PROVE  QueryOf(source, k) # Nil <=> ~Empty(source.stmts[k]) /\ source.stmts[k].converts
      <4>1. source \in Source /\ source.stmts[k] \in Stmt /\ StatementText(source.stmts[k]) \in Text
        BY <2>1, <3>1, SourceSequences, ElementOfSeq, QueryOfType DEF IInv, TypeOK
      <4>2. CASE Empty(source.stmts[k])
        BY <4>2 DEF QueryOf
      <4>3. CASE ~Empty(source.stmts[k])
        BY <4>1, <4>3, ConversionFacts DEF QueryOf
      <4> QED BY <4>2, <4>3
    <3> QED BY <2>1, <3>1, SameTexts DEF Contract!ResultsCorrelate
  <2>3. Contract!WarnedAtMostOnce(statements)
    <3> SUFFICES ASSUME NEW m \in DOMAIN statements, NEW n \in DOMAIN statements,
                        NEW k \in DOMAIN statements[m].warnings, NEW l \in DOMAIN statements[n].warnings,
                        statements[m].warnings[k] = statements[n].warnings[l]
                 PROVE  m = n /\ k = l
      BY DEF Contract!WarnedAtMostOnce
    <3>1. m = n
      BY DEF IInv, WarningsAreAttributed
    <3>2. statements[m].warnings \in Seq(1..MaxErrs)
      BY <2>1, ResultType
    <3>3. \A x, y \in DOMAIN statements[m].warnings : x < y => statements[m].warnings[x] < statements[m].warnings[y]
      BY DEF IInv, WarningsAreAttributed
    <3> DEFINE ws == statements[m].warnings
    <3>4. k \in DOMAIN ws /\ l \in DOMAIN ws /\ ws[k] = ws[l]
      BY <3>1
    <3>5. ws \in Seq(1..MaxErrs) /\ \A x, y \in DOMAIN ws : x < y => ws[x] < ws[y]
      BY <3>2, <3>3
    <3> HIDE DEF ws
    <3>6. k \in Int /\ l \in Int /\ ws[k] \in Int /\ ws[l] \in Int
      <4>1. DOMAIN ws = 1..Len(ws) /\ Len(ws) \in Nat
        BY <3>5
      <4>2. ws[k] \in 1..MaxErrs /\ ws[l] \in 1..MaxErrs
        BY <3>4, <3>5, <4>1, ElementOfSeq
      <4> QED BY <3>4, <4>1, <4>2
    <3>7. k = l
      BY <3>4, <3>5, <3>6
    <3> QED BY <3>1, <3>7
  <2>4. Contract!InnerErrorsReported(statements)
    <3> SUFFICES ASSUME NEW e \in DOMAIN source.errs, NEW k \in DOMAIN statements,
                        source.errs[e].tok >= 0, Covers(source.stmts[k], source.errs[e].tok)
                 PROVE  \E w \in DOMAIN statements[k].warnings : statements[k].warnings[w] = e
      BY SameTexts DEF Contract!InnerErrorsReported
    <3>1. StatementIndexForSyntaxError(source, source.errs[e]) = k
      BY <2>1, InnerErrorIndex
    <3>2. k # 0
      BY <2>1
    <3> QED BY <1>2, <3>1, <3>2, ErrorReported
  <2>5. answer.hasFailures <=> \E k \in DOMAIN statements : Contract!IsFailure(statements[k])
    BY <2>1 DEF HasFailures, Contract!IsFailure
  <2> QED BY <1>2, <2>1, <2>2, <2>3, <2>4, <2>5 DEF Contract!Promise
<1> QED BY <1>1, <1>2

(* Whatever ParseSQLAll has answered is what the contract allows. *)
PromiseHolds == answer # Nil => Contract!Promise(answer)

LEMMA AnswersArePromised == IInv => PromiseHolds
  BY PromiseKept DEF PromiseHolds

(* Every step of the three calls is the contract's answer or does not touch *)
(* what the caller of ParseSQLAll sees (entry.go:67-111).                   *)
THEOREM Implemented == Spec => ImplementsContract
<1>1. Init => Contract!Init
  BY SourceIsWellFormed, SameTexts DEF Init, Contract!Init
<1>2. ASSUME PromiseHolds', [Next]_vars
      PROVE  [Contract!Next]_(Contract!contractVars)
  <2>1. CASE RejectBatch \/ ReturnBatch
    <3>1. answer = Nil /\ UNCHANGED source
      BY <2>1 DEF RejectBatch, ReturnBatch
    <3>2. CASE answer' = Nil
      BY <3>1, <3>2 DEF Contract!contractVars
    <3>3. CASE answer' # Nil
      <4>1. (Contract!Promise(answer))'
        BY <1>2, <3>3 DEF PromiseHolds
      <4>2. Contract!Promise(answer')
        BY <3>1, <4>1 DEF Contract!Promise, Contract!ResultsCorrelate, Contract!WarnedAtMostOnce,
                          Contract!InnerErrorsReported
      <4> QED BY <3>1, <3>3, <4>2 DEF Contract!Next, Contract!Answer
    <3> QED BY <3>2, <3>3
  <2>2. CASE ParseSQL \/ ParseSQLStrict \/ PrepareBatch \/ ConvertStatement \/ AttributeError \/ UNCHANGED vars
    <3>1. UNCHANGED <<source, answer>>
      BY <2>2 DEF ParseSQL, ParseSQLStrict, PrepareBatch, ConvertStatement, AttributeError, vars
    <3> QED BY <3>1 DEF Contract!contractVars
  <2> QED BY <1>2, <2>1, <2>2 DEF Next
<1> QED BY <1>1, <1>2, AnswersArePromised, Inductive, PTL DEF Spec, ImplementsContract, Contract!Spec
===============================================================================
