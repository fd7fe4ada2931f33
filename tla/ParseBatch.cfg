\* Two statements of two kinds and two errors over four tokens and EOF, on two lines.
CONSTANTS
  Nil = Nil
  MaxTok = 4
  MaxLine = 2
  MaxStmts = 2
  MaxErrs = 2
  Branches <- BranchSample
  Params <- ParamSample
SPECIFICATION Spec
INVARIANTS TypeOK WarningsWellPlaced OnlyOutsideErrorsLost EntryPointsAgree
PROPERTIES ImplementsContract AllReturn
CHECK_DEADLOCK FALSE
