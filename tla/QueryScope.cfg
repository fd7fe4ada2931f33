\* Every shape of up to three SELECTs in one another, with up to three arms.
CONSTANTS
  MaxQueries = 3
  MaxArms <- ArmsOfEach
  Reads <- ReadsOfEach
SPECIFICATION Spec
INVARIANTS TypeOK TablesSurface NamesOfTheirScope OperatorsInSourceOrder OwnPartsOnce
CHECK_DEADLOCK FALSE
