\* Clauses of up to five nodes that some listener looks at, and HAVING with every operator.
CONSTANT Inputs <- MCInputs
SPECIFICATION Spec
INVARIANT InnerColumnsKeptOut
CHECK_DEADLOCK FALSE
