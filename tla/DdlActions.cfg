\* Statements of up to three sub-commands or names, comments of up to three characters, without the sub-commands of DropNotNull.cfg.
CONSTANTS
  MaxItems = 3
  Columns = {c1, c2}
  MaxUnits = 3
  Identifiers <- SomeIdentifiers
  MaxParts = 3
  Commands <- FaithfullyReplayed
SPECIFICATION Spec
INVARIANTS ReplayGivesTheColumns OneActionPerItem CommentAsWritten
CHECK_DEADLOCK FALSE
