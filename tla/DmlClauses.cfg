\* Every statement with up to two relations, two assignments, three items in RETURNING and conditions of three words.
CONSTANTS
  Names <- TwoNames
  Cte = "c"
  Inner = "b"
  MaxItems = 2
  MaxAssignments = 2
  MaxCondition = 3
  Expressions <- SomeExpressions
  MaxReturning = 3
SPECIFICATION Spec
INVARIANTS TargetAndReadsKnown AssignmentsKnown MergeAsWritten ReturningAsWritten
CHECK_DEADLOCK FALSE
