\* FROM clauses of up to four references of every kind, joined inside and outside of parentheses.
CONSTANTS
  MaxRefs = 4
  Kinds = {"relation", "function", "subquery", "xmltable", "paren"}
  Joins <- OuterAndCross
  CteChoices <- SecondIsCte
SPECIFICATION Spec
INVARIANTS TablesInSourceOrder JoinMetaOnItsTable EveryQualOnce LateralCallsCorrelated
CHECK_DEADLOCK FALSE
