------------------------------ MODULE ParseInput ------------------------------
(***************************************************************************)
(* What one run of the ANTLR parser leaves behind for entry.go: the        *)
(* statement contexts of `stmtmulti`, the syntax errors the listener       *)
(* collected, and where both of them lie in the token stream.  The         *)
(* generated parser and the ANTLR runtime are external; WellFormed states  *)
(* the facts about them that entry.go relies on.                           *)
(*                                                                         *)
(* Tokens are the default-channel tokens, numbered 0 .. eof, with EOF at   *)
(* index eof.  Comments and spaces also consume token indices in ANTLR,    *)
(* but entry.go only compares indices and hidden tokens are never the      *)
(* start, the stop or the offending token, so the numbering is faithful.   *)
(***************************************************************************)
EXTENDS Integers, Sequences, FiniteSets

CONSTANTS
  MaxTok,      \* bound on the index of the EOF token
  MaxLine,     \* bound on line numbers
  MaxStmts,    \* bound on the statement contexts of one input
  MaxErrs,     \* bound on the syntax errors of one input
  Branches,    \* the statement alternatives entry.go dispatches on, "other" for the rest
  Params       \* the sets of PARAM tokens ($1, ?) an input may have

ASSUME BoundsAssumption ==
  /\ MaxTok \in Nat
  /\ MaxLine \in Nat \ {0}
  /\ MaxStmts \in Nat
  /\ MaxErrs \in Nat

ASSUME ParamsAssumption == \A ps \in Params : ps \subseteq 0..MaxTok

AllBranches ==
  {"Selectstmt", "Insertstmt", "Updatestmt", "Deletestmt", "Mergestmt",
   "Createstmt", "Dropstmt", "Altertablestmt", "Indexstmt", "Truncatestmt",
   "Commentstmt", "other"}

ASSUME BranchesAssumption == Branches \subseteq AllBranches

(* The parser rule `stmt`: GetStart is the token the rule was entered at,  *)
(* GetStop the last token consumed before it was left.  `converts` says    *)
(* whether the populate function of the branch finds the contexts it needs *)
(* (error recovery may have dropped them).                                 *)
Stmt == [start : 0..MaxTok, stop : 0..MaxTok, branch : Branches, converts : BOOLEAN]

(* errors.go SyntaxError; tok = -1 is an error of the lexer, which has no  *)
(* offending token.                                                        *)
SyntaxError == [tok : -1..MaxTok, line : 1..MaxLine]

Source ==
  [ eof    : 0..MaxTok,
    lines  : [0..MaxTok -> 1..MaxLine],
    stmts  : UNION {[1..n -> Stmt] : n \in 0..MaxStmts},
    errs   : UNION {[1..n -> SyntaxError] : n \in 0..MaxErrs},
    params : Params ]

(* A context without text.                                                 *)
Empty(s) == s.stop < s.start

(* The token lies between the first and the last token of the statement.   *)
Covers(s, t) == t >= s.start /\ t <= s.stop

(* `stmt` has no empty alternative and is entered on a token it can start  *)
(* with; recovery skips at least that token.  EOF is never consumed.       *)
StmtWellFormed(s, eof) ==
  /\ s.start <= s.stop /\ s.stop < eof
  /\ s.branch = "other" => s.converts

(* `stmt? (SEMI stmt?)*`: contexts come in source order with a `;` between. *)
InSourceOrder(stmts) ==
  \A i, j \in DOMAIN stmts : i < j => stmts[j].start > stmts[i].stop + 1

(* Without errors all other tokens are `;`, which is no parameter. *)
CleanParse(stmts, params) ==
  \A t \in params : \E i \in DOMAIN stmts : Covers(stmts[i], t)

Monotone(lines, eof) ==
  /\ \A t, u \in 0..MaxTok : t <= u => lines[t] <= lines[u]
  /\ \A t \in eof..MaxTok : lines[t] = lines[eof]

(* The line of a parser error is the line of its offending token. *)
ErrorWellFormed(e, eof, lines) ==
  /\ e.tok <= eof /\ e.line <= lines[eof]
  /\ e.tok >= 0 => e.line = lines[e.tok]

WellFormed(src) ==
  /\ Monotone(src.lines, src.eof)
  /\ src.params \subseteq 0..src.eof - 1
  /\ \A i \in DOMAIN src.stmts : StmtWellFormed(src.stmts[i], src.eof)
  /\ InSourceOrder(src.stmts)
  /\ \A e \in DOMAIN src.errs : ErrorWellFormed(src.errs[e], src.eof, src.lines)
  /\ src.errs = << >> => CleanParse(src.stmts, src.params)

(* The well-formed elements of Source, written so that TLC can enumerate them. *)
WellFormedSource(src) ==
  \E eof \in 0..MaxTok :
    \E lines \in {f \in [0..MaxTok -> 1..MaxLine] : Monotone(f, eof)} :
      LET stmt == {s \in Stmt : StmtWellFormed(s, eof)}
          err  == {e \in SyntaxError : ErrorWellFormed(e, eof, lines)} IN
      \E n \in 0..MaxStmts : \E stmts \in [1..n -> stmt] :
        /\ InSourceOrder(stmts)
        /\ \E m \in 0..MaxErrs : \E errs \in [1..m -> err] : \E params \in Params :
             /\ params \subseteq 0..eof - 1
             /\ errs = << >> => CleanParse(stmts, params)
             /\ src = [eof |-> eof, lines |-> lines, stmts |-> stmts, errs |-> errs, params |-> params]
===============================================================================
