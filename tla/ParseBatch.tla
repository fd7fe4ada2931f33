------------------------------ MODULE ParseBatch ------------------------------
(***************************************************************************)
(* entry.go: the three entry points ParseSQL, ParseSQLStrict and           *)
(* ParseSQLAll called on the same text.  ParseSQL and ParseSQLStrict       *)
(* answer in one step; ParseSQLAll prepares, converts one statement per    *)
(* step, attributes one syntax error per step and returns.                 *)
(***************************************************************************)
EXTENDS ParseInput, FiniteSetsExt

CONSTANT Nil                  \* Go's nil

VARIABLES
  source,        \* the parser's output for the text (the same for all calls)
  first,         \* what ParseSQL returned, Nil before
  strict,        \* what ParseSQLStrict returned, Nil before
  statements,    \* ParseSQLAll's local `statements`
  i, j,          \* its loop counters over statements and errors; i = 0: not prepared
  answer         \* what ParseSQLAll returned, Nil before

vars == <<source, first, strict, statements, i, j, answer>>

-------------------------------------------------------------------------------
(* Conversion of one statement.                                            *)

(* The dispatch switch of parseStatementToIR and the Command each branch sets. *)
Command ==
  [ b \in AllBranches |->
      CASE b = "Selectstmt" -> "SELECT" [] b = "Insertstmt" -> "INSERT"
        [] b = "Updatestmt" -> "UPDATE" [] b = "Deletestmt" -> "DELETE"
        [] b = "Mergestmt" -> "MERGE"   [] b = "other" -> "UNKNOWN"
        [] OTHER -> "DDL" ]

(* A piece of the source text, by its first and last token. *)
Text == (0..MaxTok) \X (-1..MaxTok)

WholeText(src) == <<0, src.eof - 1>>

(* Mutant: the stop token taken as an exclusive end. *)
StatementTextExclusive(s) == <<s.start, s.stop - 1>>

StatementText(s) == <<s.start, s.stop>>

ParamsIn(src, text) == {t \in src.params : text[1] <= t /\ t <= text[2]}

ParsedQuery ==
  [command : {Command[b] : b \in AllBranches}, rawSQL : Text, params : SUBSET (0..MaxTok)]

(* Nil stands for the error; the default branch returns before the parameters are read. *)
ParseStatementToIR(src, s, text) ==
  IF ~s.converts THEN Nil
  ELSE [ command |-> Command[s.branch],
         rawSQL  |-> text,
         params  |-> IF s.branch = "other" THEN {} ELSE ParamsIn(src, text) ]

-------------------------------------------------------------------------------
(* Attribution of syntax errors.                                           *)

StartLine(src, s) == src.lines[s.start]

StopLine(src, s) == IF src.lines[s.stop] < StartLine(src, s) THEN StartLine(src, s) ELSE src.lines[s.stop]

TouchesLine(src, s, line) == StartLine(src, s) <= line /\ line <= StopLine(src, s)

ByToken(src, e) ==
  {k \in DOMAIN src.stmts :
     e.tok >= 0 /\ ~Empty(src.stmts[k]) /\ Covers(src.stmts[k], e.tok)}

ByLine(src, e) == {k \in DOMAIN src.stmts : TouchesLine(src, src.stmts[k], e.line)}

(* Mutants: lines compared before tokens; errors without a token dropped. *)
IndexByLineFirst(src, e) ==
  IF ByLine(src, e) # {} THEN Min(ByLine(src, e))
  ELSE IF ByToken(src, e) # {} THEN Min(ByToken(src, e))
  ELSE IF e.line < StartLine(src, src.stmts[1]) THEN 1
  ELSE 0

IndexByTokenOnly(src, e) == IF ByToken(src, e) # {} THEN Min(ByToken(src, e)) ELSE 0

(* The first statement that has the error's token, else the first one that *)
(* touches its line, else the first statement of all if the error comes    *)
(* before it; 0 is the code's -1.                                          *)
StatementIndexForSyntaxError(src, e) ==
  IF ByToken(src, e) # {} THEN Min(ByToken(src, e))
  ELSE IF ByLine(src, e) # {} THEN Min(ByLine(src, e))
  ELSE IF e.line < StartLine(src, src.stmts[1]) THEN 1
  ELSE 0

-------------------------------------------------------------------------------
(* Mutant: syntax errors tolerated for every caller. *)
PrepareTolerant(src, tolerateSyntaxErrors) ==
  IF src.stmts # << >> THEN "ok" ELSE IF src.errs # << >> THEN "ParseErrors" ELSE "ErrNoStatements"

(* prepareParseState: "ok" when there are statements to work on. *)
PrepareParseState(src, tolerateSyntaxErrors) ==
  IF src.errs # << >> /\ (~tolerateSyntaxErrors \/ src.stmts = << >>) THEN "ParseErrors"
  ELSE IF src.stmts = << >> THEN "ErrNoStatements"
  ELSE "ok"

StatementParseResult ==
  [ index : 0..MaxStmts, rawSQL : Text, query : ParsedQuery \cup {Nil},
    warnings : Seq(1..MaxErrs) ]

(* An element of Go's make([]StatementParseResult, n). *)
ZeroResult == [index |-> 0, rawSQL |-> <<0, -1>>, query |-> Nil, warnings |-> << >>]

(* The query statement k of the batch yields; one without text is not converted. *)
QueryOf(src, k) ==
  LET s == src.stmts[k] IN
    IF Empty(s) THEN Nil ELSE ParseStatementToIR(src, s, StatementText(s))

Replies ==
  [kind : {"ParseErrors", "ErrNoStatements", "ErrMultipleStatements", "ConversionError"}]
    \cup [kind : {"Query"}, query : ParsedQuery]

BatchReplies ==
  [kind : {"ParseErrors", "ErrNoStatements"}]
    \cup [kind : {"Batch"}, statements : Seq(StatementParseResult), hasFailures : BOOLEAN]

ASSUME NilAssumption == Nil \notin ParsedQuery \cup Replies \cup BatchReplies

Fail(err) == [kind |-> err]

(* Mutant: the conversion error ignored. *)
ReplyIgnoringError(q) == [kind |-> "Query", query |-> q]

Reply(q) == IF q = Nil THEN Fail("ConversionError") ELSE [kind |-> "Query", query |-> q]

(* Mutant: only missing queries count as failures. *)
HasMissingQueries(rs) == \E k \in DOMAIN rs : rs[k].query = Nil

HasFailures(rs) == \E k \in DOMAIN rs : rs[k].query = Nil \/ rs[k].warnings # << >>

Init ==
  /\ WellFormedSource(source)
  /\ first = Nil /\ strict = Nil /\ answer = Nil
  /\ statements = << >>
  /\ i = 0 /\ j = 1

(* ParseSQL: the first statement, converted with the whole text as its RawSQL. *)
FirstReply(src) ==
  IF PrepareParseState(src, FALSE) # "ok" THEN Fail(PrepareParseState(src, FALSE))
  ELSE Reply(ParseStatementToIR(src, src.stmts[1], WholeText(src)))

ParseSQL ==
  /\ first = Nil
  /\ first' = FirstReply(source)
  /\ UNCHANGED <<source, strict, statements, i, j, answer>>

(* Mutant: the statement count not checked. *)
StrictReplyUncounted(src) == FirstReply(src)

(* ParseSQLStrict: as ParseSQL, but only for a single statement. *)
StrictReply(src) ==
  IF PrepareParseState(src, FALSE) # "ok" THEN Fail(PrepareParseState(src, FALSE))
  ELSE IF Len(src.stmts) > 1 THEN Fail("ErrMultipleStatements")
  ELSE Reply(ParseStatementToIR(src, src.stmts[1], WholeText(src)))

ParseSQLStrict ==
  /\ strict = Nil
  /\ strict' = StrictReply(source)
  /\ UNCHANGED <<source, first, statements, i, j, answer>>

(* ParseSQLAll, before its loops: nothing to convert. *)
RejectBatch ==
  /\ answer = Nil /\ i = 0
  /\ PrepareParseState(source, TRUE) # "ok"
  /\ answer' = Fail(PrepareParseState(source, TRUE))
  /\ UNCHANGED <<source, first, strict, statements, i, j>>

PrepareBatch ==
  /\ answer = Nil /\ i = 0
  /\ PrepareParseState(source, TRUE) = "ok"
  /\ statements' = [k \in DOMAIN source.stmts |-> ZeroResult]
  /\ i' = 1
  /\ UNCHANGED <<source, first, strict, j, answer>>

(* One turn of the first loop. *)
ConvertStatement ==
  /\ i \in DOMAIN source.stmts
  /\ statements' = [statements EXCEPT ![i] =
       [ index    |-> i,
         rawSQL   |-> StatementText(source.stmts[i]),
         query    |-> QueryOf(source, i),
         warnings |-> << >> ]]
  /\ i' = i + 1
  /\ UNCHANGED <<source, first, strict, j, answer>>

Converted == i > Len(source.stmts) /\ i > 0

(* Mutant: an error that maps to no statement is not passed over. *)
AttributeErrorStuck ==
  /\ Converted
  /\ j \in DOMAIN source.errs
  /\ LET idx == StatementIndexForSyntaxError(source, source.errs[j]) IN
       /\ idx # 0
       /\ statements' = [statements EXCEPT ![idx].warnings = Append(@, j)]
  /\ j' = j + 1
  /\ UNCHANGED <<source, first, strict, i, answer>>

(* One turn of the second loop; an error that maps to no statement is skipped. *)
AttributeError ==
  /\ Converted
  /\ j \in DOMAIN source.errs
  /\ LET idx == StatementIndexForSyntaxError(source, source.errs[j]) IN
       statements' = IF idx = 0 THEN statements
                     ELSE [statements EXCEPT ![idx].warnings = Append(@, j)]
  /\ j' = j + 1
  /\ UNCHANGED <<source, first, strict, i, answer>>

ReturnBatch ==
  /\ Converted
  /\ j > Len(source.errs)
  /\ answer = Nil
  /\ answer' = [kind |-> "Batch", statements |-> statements, hasFailures |-> HasFailures(statements)]
  /\ UNCHANGED <<source, first, strict, statements, i, j>>

Next ==
  \/ ParseSQL \/ ParseSQLStrict
  \/ RejectBatch \/ PrepareBatch \/ ConvertStatement \/ AttributeError \/ ReturnBatch

(* Each call is a terminating sequential procedure its caller lets run. *)
Fairness ==
  /\ WF_vars(ParseSQL) /\ WF_vars(ParseSQLStrict)
  /\ WF_vars(RejectBatch \/ PrepareBatch \/ ConvertStatement \/ AttributeError \/ ReturnBatch)

Spec == Init /\ [][Next]_vars /\ Fairness

-------------------------------------------------------------------------------
(* Properties.                                                             *)

(* The type invariant of the three calls.                                  *)
TypeOK ==
  /\ source \in Source
  /\ first \in Replies \cup {Nil}
  /\ strict \in Replies \cup {Nil}
  /\ statements \in Seq(StatementParseResult)
  /\ i \in 0..MaxStmts + 1
  /\ j \in 1..MaxErrs + 1
  /\ answer \in BatchReplies \cup {Nil}

(* A warning never lands on a statement while the offending token belongs  *)
(* to another one; without a token to go by it lands on a statement that   *)
(* touches the error's line, or on the first statement if the error comes  *)
(* before all of them (statementIndexForSyntaxError).                      *)
WarningsWellPlaced ==
  \A k \in DOMAIN statements : \A w \in DOMAIN statements[k].warnings :
    LET e == source.errs[statements[k].warnings[w]] IN
      \/ k \in ByToken(source, e)
      \/ ByToken(source, e) = {} /\ k \in ByLine(source, e)
      \/ k = 1 /\ ByToken(source, e) \cup ByLine(source, e) = {} /\ e.line < StartLine(source, source.stmts[1])

Reported(e) ==
  \E k \in DOMAIN answer.statements : \E w \in DOMAIN answer.statements[k].warnings :
    answer.statements[k].warnings[w] = e

(* The errors ParseSQLAll swallows lie after the first statement, on lines *)
(* and tokens of no statement: nothing a statement contains is lost.       *)
OnlyOutsideErrorsLost ==
  answer # Nil /\ answer.kind = "Batch" =>
    \A e \in DOMAIN source.errs :
      ~Reported(e) =>
        /\ ByToken(source, source.errs[e]) \cup ByLine(source, source.errs[e]) = {}
        /\ source.errs[e].line > StartLine(source, source.stmts[1])

(* A text ParseSQLStrict accepts is accepted by ParseSQL with the same IR  *)
(* and by ParseSQLAll as one statement with the same command and           *)
(* parameters, no warnings and no failure; it refuses for their number     *)
(* exactly the texts without errors that ParseSQLAll splits into several.  *)
StrictAgrees ==
  /\ strict # Nil /\ first # Nil /\ answer # Nil /\ strict.kind = "Query" =>
       /\ first = strict
       /\ answer.kind = "Batch" /\ ~answer.hasFailures
       /\ Len(answer.statements) = 1
       /\ answer.statements[1].query.command = strict.query.command
       /\ answer.statements[1].query.params = strict.query.params
  /\ strict # Nil /\ answer # Nil =>
       (strict.kind = "ErrMultipleStatements" <=>
          answer.kind = "Batch" /\ Len(answer.statements) > 1 /\ source.errs = << >>)

(* ParseSQL's answer is the batch's first statement, or the same failure;  *)
(* its parameters (of the whole text) contain that statement's.            *)
FirstAgrees ==
  first # Nil /\ answer # Nil =>
    /\ first.kind = "ErrNoStatements" <=> answer.kind = "ErrNoStatements"
    /\ answer.kind = "ParseErrors" => first.kind = "ParseErrors"
    /\ answer.kind = "Batch" /\ ~answer.hasFailures /\ (\A e \in DOMAIN source.errs : Reported(e))
         => first.kind = "Query"
    /\ first.kind = "Query" =>
         /\ \A k \in DOMAIN answer.statements : answer.statements[k].warnings = << >>
         /\ answer.statements[1].query.command = first.query.command
         /\ answer.statements[1].query.params \subseteq first.query.params

(* The three entry points agree wherever the inputs they take overlap      *)
(* (entry.go:14-111).                                                      *)
EntryPointsAgree == StrictAgrees /\ FirstAgrees

Contract == INSTANCE BatchContract

(* ParseSQLAll keeps the promises its documentation makes (BatchContract). *)
ImplementsContract == Contract!Spec

(* Every call returns.                                                     *)
AllReturn == <>(first # Nil /\ strict # Nil /\ answer # Nil)

-------------------------------------------------------------------------------
(* The inductive invariant of ParseBatchProofs.                            *)

RepliesComputed ==
  /\ first # Nil => first = FirstReply(source)
  /\ strict # Nil => strict = StrictReply(source)

LoopPositions ==
  /\ i = 0 => statements = << >> /\ j = 1
  /\ i > 0 => /\ source.stmts # << >>
              /\ DOMAIN statements = DOMAIN source.stmts
              /\ i <= Len(source.stmts) + 1
  /\ j > 1 => Converted
  /\ j <= Len(source.errs) + 1

ConvertedSoFar ==
  \A k \in DOMAIN statements : k < i => statements[k].index = k /\ statements[k].query = QueryOf(source, k)

(* The warnings of k are errors already read that map to k, in the order read. *)
WarningsAreAttributed ==
  \A k \in DOMAIN statements : \A w \in DOMAIN statements[k].warnings :
    /\ statements[k].warnings[w] \in DOMAIN source.errs
    /\ statements[k].warnings[w] < j
    /\ StatementIndexForSyntaxError(source, source.errs[statements[k].warnings[w]]) = k
    /\ \A v \in DOMAIN statements[k].warnings :
         v < w => statements[k].warnings[v] < statements[k].warnings[w]

ReadErrorsAttributed ==
  \A e \in DOMAIN source.errs :
    LET idx == StatementIndexForSyntaxError(source, source.errs[e]) IN
      e < j /\ idx # 0 =>
        \E w \in DOMAIN statements[idx].warnings : statements[idx].warnings[w] = e

AnswerComputed ==
  answer # Nil =>
    \/ i = 0 /\ PrepareParseState(source, TRUE) # "ok" /\ answer = Fail(PrepareParseState(source, TRUE))
    \/ /\ Converted /\ j > Len(source.errs)
       /\ answer = [ kind |-> "Batch", statements |-> statements,
                     hasFailures |-> HasFailures(statements) ]

IInv ==
  /\ TypeOK /\ WellFormed(source)
  /\ RepliesComputed /\ LoopPositions /\ ConvertedSoFar
  /\ WarningsAreAttributed /\ ReadErrorsAttributed /\ AnswerComputed

===============================================================================
