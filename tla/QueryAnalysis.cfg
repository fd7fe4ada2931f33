\* Every query with up to two of the conditions, in each of the lists of tables.
CONSTANTS
  TableLists <- Lists
  Conditions <- Joins
  Schema <- Keys
  MaxConditions = 2
  MaxColumns = 4
  Filters <- FilterLists
SPECIFICATION Spec
INVARIANTS TypeOK EachOnceInOrder ConditionsAsWritten
PROPERTY ImplementsPromise
CHECK_DEADLOCK FALSE
