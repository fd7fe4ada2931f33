\* All texts of up to four pieces of plain SQL.
CONSTANT Inputs <- PlainTexts
SPECIFICATION Spec
INVARIANTS ScannerTypeOK OneLiteralAtATime KeptInOrder ScannerFollowsLexer OnlyCommentsAndBlanksRemoved
PROPERTY Returns
CHECK_DEADLOCK FALSE
