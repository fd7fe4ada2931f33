----------------------------- MODULE BatchContract -----------------------------
(***************************************************************************)
(* What ParseSQLAll promises its caller, without saying how: one result    *)
(* per statement in source order, a nil Query on failure, syntax errors as *)
(* warnings of statements, and one flag that sums it up (README.md,        *)
(* "Statement Count Handling"; docs/parsed-query.md, "ParseBatchResult").  *)
(* ParseBatch implements this specification.                               *)
(***************************************************************************)
EXTENDS ParseInput

CONSTANT Nil   \* Go's nil

VARIABLES
  source,      \* the parser's output for the caller's text
  answer       \* Nil while the call runs, then what it returned

contractVars == <<source, answer>>

IsFailure(r) == r.query = Nil \/ r.warnings # << >>

(* One result per statement, numbered from 1; a Query only where conversion succeeded. *)
ResultsCorrelate(rs) ==
  /\ DOMAIN rs = DOMAIN source.stmts
  /\ \A i \in DOMAIN rs :
       /\ rs[i].index = i
       /\ rs[i].query # Nil <=> (~Empty(source.stmts[i]) /\ source.stmts[i].converts)

(* No error is reported twice, and those of one statement keep their order. *)
WarnedAtMostOnce(rs) ==
  \A i, j \in DOMAIN rs :
    \A k \in DOMAIN rs[i].warnings : \A l \in DOMAIN rs[j].warnings :
      rs[i].warnings[k] = rs[j].warnings[l] => i = j /\ k = l

(* An error at a token of a statement is a warning of that statement. *)
InnerErrorsReported(rs) ==
  \A e \in DOMAIN source.errs : \A i \in DOMAIN rs :
    source.errs[e].tok >= 0 /\ Covers(source.stmts[i], source.errs[e].tok)
      => \E k \in DOMAIN rs[i].warnings : rs[i].warnings[k] = e

Promise(a) ==
  \/ a.kind = "ParseErrors" /\ source.errs # << >> /\ source.stmts = << >>
  \/ a.kind = "ErrNoStatements" /\ source.errs = << >> /\ source.stmts = << >>
  \/ /\ a.kind = "Batch"
     /\ source.stmts # << >>
     /\ ResultsCorrelate(a.statements)
     /\ WarnedAtMostOnce(a.statements)
     /\ InnerErrorsReported(a.statements)
     /\ a.hasFailures <=> \E i \in DOMAIN a.statements : IsFailure(a.statements[i])

Init == source \in Source /\ WellFormed(source) /\ answer = Nil

Answer ==
  /\ answer = Nil
  /\ answer' # Nil
  /\ Promise(answer')
  /\ UNCHANGED source

Next == Answer

Spec == Init /\ [][Next]_contractVars
===============================================================================
