\* Clauses of up to five nodes that some listener looks at, and HAVING with every operator.
CONSTANT Inputs <- MCInputs
SPECIFICATION Spec
INVARIANTS DepthCountsSubqueries InnerSelectsIgnored EveryColumnInItsRole DirectSubqueriesOnce ComparisonsOnce
CHECK_DEADLOCK FALSE
