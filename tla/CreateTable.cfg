\* Keys, nullability and comments: tables of up to three elements.
CONSTANTS
  MaxElements = 3
  Elements <- AllElements
SPECIFICATION Spec
INVARIANTS NullableAsInPostgres KeysInSourceOrder CommentsOfTheirColumn
CHECK_DEADLOCK FALSE
