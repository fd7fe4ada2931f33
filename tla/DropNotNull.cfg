\* ALTER COLUMN ... DROP NOT NULL beside DROP COLUMN.
CONSTANTS
  MaxItems = 1
  Columns = {c1, c2}
  MaxUnits = 0
  Identifiers <- SomeIdentifiers
  MaxParts = 1
  Commands <- ColumnDrops
SPECIFICATION Spec
INVARIANT ReplayGivesTheColumns
CHECK_DEADLOCK FALSE
