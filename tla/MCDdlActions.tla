----------------------------- MODULE MCDdlActions -----------------------------
(* Sub-commands for DdlActions, and identifiers: plain, with a dot or a    *)
(* quote in quotes.                                                        *)
EXTENDS DdlActions

(* Without the sub-commands that DROP something else of a column. *)
FaithfullyReplayed == AlterKinds \ {"DROP NOT NULL", "DROP IDENTITY", "DROP EXPRESSION"}

ColumnDrops == {"DROP COLUMN", "DROP NOT NULL"}
ColumnAdditions == {"ADD COLUMN", "ADD GENERATED"}
SomeIdentifiers == { <<"x">>, <<"\"", "x", ".", "n", "\"">>, <<"\"", "\"", "\"", ".", "\"">> }

==============================================================================
