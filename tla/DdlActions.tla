------------------------------ MODULE DdlActions ------------------------------
(***************************************************************************)
(* ddl.go and ddl_comment.go: the DDL actions and the tables reported for  *)
(* ALTER TABLE, DROP, TRUNCATE, CREATE INDEX and COMMENT ON.  One step     *)
(* reports one sub-command of ALTER TABLE, or one name of the list of the  *)
(* others; CREATE INDEX and COMMENT ON have one item.                      *)
(***************************************************************************)
EXTENDS CommentText

CONSTANTS
  MaxItems,         \* bound on the sub-commands or names of a statement
  Columns,          \* columns of the tables
  Commands,         \* the sub-commands of ALTER TABLE in use
  MaxUnits,         \* bound on the characters of a comment
  Identifiers,      \* the identifiers that names in COMMENT ON consist of
  MaxParts          \* bound on those of one name

AlterKinds ==
  {"ADD COLUMN", "ADD COLUMN IF NOT EXISTS", "ADD KEY", "ADD CHECK", "ADD EXCLUDE", "DROP COLUMN",
   "DROP COLUMN IF EXISTS", "DROP CONSTRAINT", "SET DEFAULT", "DROP DEFAULT", "SET NOT NULL", "DROP NOT NULL", "DROP IDENTITY",
   "DROP EXPRESSION", "ADD GENERATED", "ALTER CONSTRAINT", "OWNER TO"}

TableConstraints == {"ADD KEY", "ADD CHECK", "ADD EXCLUDE"}

ASSUME CommandsAssumption ==
  /\ {MaxItems, MaxUnits, MaxParts} \subseteq Nat
  /\ Commands \subseteq AlterKinds

ASSUME IdentifiersAssumption == Identifiers \subseteq Seq(STRING) /\ \A id \in Identifiers : IsIdentifier(id)

Names == 1..MaxItems

(* Commands name one column, a primary or foreign key two; the columns of  *)
(* UNIQUE and CHECK are not collected, and the other kinds name none.      *)
AlterCommand == [kind : AlterKinds, columns : Seq(Columns)]

Behaviors == {"", "CASCADE", "RESTRICT"}

Kinds == {"ALTER TABLE", "DROP TABLE", "DROP INDEX", "DROP INDEX CONCURRENTLY", "DROP VIEW", "TRUNCATE"}

(* CREATE INDEX; a name is its schema, if any, and the name proper, which   *)
(* the index may lack without IF NOT EXISTS.                                *)
Index ==
  {x \in [ index : {<<"", "">>, <<"", "i">>, <<"s", "i">>}, table : {"", "s", "r"} \X {"t"},
           concurrently : BOOLEAN, unique : BOOLEAN, ifNotExists : BOOLEAN ] :
     x.ifNotExists => x.index[2] # ""}

(* COMMENT ON, of the kinds of object that branches tell apart. *)
Comment ==
  [ object : {"COLUMN", "TABLE", "FOREIGN TABLE", "INDEX", "SCHEMA", "TYPE", "DOMAIN", "FUNCTION"},
    name : SeqOf(Identifiers, MaxParts) \ {<< >>}, literal : Literals(MaxUnits) \cup {Null} ]

VARIABLES
  statement,      \* its kind, its list, and for a list of names the modifiers all of them share
  next,           \* the item under way
  ddlActions,     \* result.DDLActions
  tables          \* result.Tables, by name

vars == <<statement, next, ddlActions, tables>>

-------------------------------------------------------------------------------
(* The words of a sub-command that the switch of populateAlterTableCmd     *)
(* looks for, as far as they are tokens of alter_table_cmd itself.         *)
Words(kind) ==
  CASE kind \in {"ADD COLUMN"} \cup TableConstraints      -> {"ADD"}
    [] kind = "ADD COLUMN IF NOT EXISTS"                 -> {"ADD", "IF", "NOT", "EXISTS"}
    [] kind = "DROP COLUMN"                              -> {"DROP"}
    [] kind = "DROP COLUMN IF EXISTS"                    -> {"DROP", "IF", "EXISTS"}
    [] kind = "DROP CONSTRAINT"                          -> {"DROP", "CONSTRAINT"}
    [] kind \in {"SET DEFAULT", "DROP DEFAULT"}          -> {"ALTER"}
    [] kind = "SET NOT NULL"                             -> {"ALTER", "SET", "NOT"}
    [] kind = "DROP NOT NULL"                            -> {"ALTER", "DROP", "NOT"}
    [] kind \in {"DROP IDENTITY", "DROP EXPRESSION"}     -> {"ALTER", "DROP"}
    [] kind = "ADD GENERATED"                            -> {"ALTER", "ADD"}
    [] kind = "ALTER CONSTRAINT"                         -> {"ALTER", "CONSTRAINT"}
    [] kind = "OWNER TO"                                 -> {"OWNER"}

(* A columnDef's column is no Colid of the sub-command. *)
DefinesColumn(kind) == kind \in {"ADD COLUMN", "ADD COLUMN IF NOT EXISTS"}

Item == statement.items[next]

Has(word) == word \in Words(Item.kind)

Action(type, columns, flags) ==
  [type |-> type, item |-> next, name |-> << >>, columns |-> columns, flags |-> flags, comment |-> << >>]

Flag(word) == IF word = "" THEN << >> ELSE <<word>>

(* Mutant: every column of the keys. *)
AllKeyColumns(columns) == columns

(* collectAlterTableConstraintColumns: each column once, in order. *)
ConstraintColumns(columns) ==
  LET upTo[n \in 0..Len(columns)] ==
        IF n = 0 THEN << >>
        ELSE IF Contains(upTo[n - 1], columns[n]) THEN upTo[n - 1] ELSE Append(upTo[n - 1], columns[n])
  IN upTo[Len(columns)]

Report(action) == ddlActions' = Append(ddlActions, action)

-------------------------------------------------------------------------------
(* The sub-commands that the grammar has for each kind. *)
CommandsOf(kind) ==
  LET columns == CASE kind = "ADD KEY" -> Columns \X Columns
                   [] kind \in {"ADD CHECK", "ADD EXCLUDE", "DROP CONSTRAINT", "ALTER CONSTRAINT", "OWNER TO"} -> {<< >>}
                   [] OTHER -> {<<c>> : c \in Columns}
      behaviors == IF kind \in {"DROP COLUMN", "DROP COLUMN IF EXISTS", "DROP CONSTRAINT"} THEN Behaviors ELSE {""}
  IN [kind : {kind}, columns : columns, behavior : behaviors]

Lists(S) == UNION {[1..n -> S] : n \in 1..MaxItems}

Init ==
  /\ \/ statement \in
       [kind : {"ALTER TABLE"}, items : Lists(UNION {CommandsOf(k) : k \in Commands}), modifiers : {<<"", "">>}]
       \cup [kind : Kinds \ {"ALTER TABLE"}, items : Lists(Names), modifiers : {"", "FIRST"} \X Behaviors]
     \/ statement \in [kind : {"CREATE INDEX"}, items : {<<x>> : x \in Index}, modifiers : {<<"", "">>}]
     \/ statement \in [kind : {"COMMENT"}, items : {<<c>> : c \in Comment}, modifiers : {<<"", "">>}]
  /\ next = 1
  /\ ddlActions = << >>
  /\ tables = IF statement.kind = "ALTER TABLE" THEN <<1>> ELSE << >>

Altering == statement.kind = "ALTER TABLE" /\ next <= Len(statement.items)

Advance == next' = next + 1 /\ UNCHANGED statement

AlterDropConstraint ==
  /\ Altering /\ Has("DROP") /\ Has("CONSTRAINT")
  /\ Advance /\ UNCHANGED <<ddlActions, tables>>

(* Mutant: IF EXISTS not passed on. *)
AlterDropUnconditionally ==
  /\ Altering /\ Has("DROP") /\ ~Has("CONSTRAINT")
  /\ Report(Action("DROP_COLUMN", Item.columns, Flag(Item.behavior)))
  /\ Advance /\ UNCHANGED tables

AlterDrop ==
  /\ Altering /\ Has("DROP") /\ ~Has("CONSTRAINT")
  /\ Report(Action("DROP_COLUMN", Item.columns,
                   Flag(Item.behavior) \o Flag(IF Has("IF") /\ Has("EXISTS") THEN "IF_EXISTS" ELSE "")))
  /\ Advance /\ UNCHANGED tables

(* EXCLUDE yields no constraint and is ignored. *)
AlterAddConstraint ==
  /\ Altering /\ ~Has("DROP") /\ Has("ADD") /\ Item.kind \in TableConstraints
  /\ IF Item.kind = "ADD EXCLUDE" THEN UNCHANGED ddlActions
     ELSE Report(Action("ALTER_TABLE", ConstraintColumns(Item.columns), <<"ADD_CONSTRAINT">>))
  /\ Advance /\ UNCHANGED tables

(* Without a columnDef there is nothing to report. *)
AlterAdd ==
  /\ Altering /\ ~Has("DROP") /\ Has("ADD") /\ Item.kind \notin TableConstraints
  /\ IF ~DefinesColumn(Item.kind) THEN UNCHANGED ddlActions
     ELSE Report(Action("ALTER_TABLE", Item.columns,
                        <<"ADD_COLUMN">> \o Flag(IF Has("IF") THEN "IF_NOT_EXISTS" ELSE "")))
  /\ Advance /\ UNCHANGED tables

AlterColumn ==
  /\ Altering /\ ~Has("DROP") /\ ~Has("ADD") /\ Has("ALTER")
  /\ IF Item.columns = << >> THEN UNCHANGED ddlActions
     ELSE Report(Action("ALTER_TABLE", Item.columns, <<"ALTER_COLUMN">>))
  /\ Advance /\ UNCHANGED tables

(* Mutant: other sub-commands ignored. *)
AlterOtherIgnored ==
  /\ Altering /\ ~Has("DROP") /\ ~Has("ADD") /\ ~Has("ALTER")
  /\ Advance /\ UNCHANGED <<ddlActions, tables>>

AlterOther ==
  /\ Altering /\ ~Has("DROP") /\ ~Has("ADD") /\ ~Has("ALTER")
  /\ Report(Action("ALTER_TABLE", << >>, << >>))
  /\ Advance /\ UNCHANGED tables

Naming(kinds) == statement.kind \in kinds /\ next <= Len(statement.items)

SharedFlags(first) ==
  Flag(IF statement.modifiers[1] = "" THEN "" ELSE first) \o Flag(statement.modifiers[2])

(* Mutant: the first table alone registered. *)
DropTableFirst ==
  /\ Naming({"DROP TABLE"})
  /\ Report(Action("DROP_TABLE", << >>, SharedFlags("IF_EXISTS")))
  /\ tables' = IF next = 1 THEN Append(tables, Item) ELSE tables
  /\ Advance

DropTable ==
  /\ Naming({"DROP TABLE"})
  /\ Report(Action("DROP_TABLE", << >>, SharedFlags("IF_EXISTS")))
  /\ tables' = Append(tables, Item)
  /\ Advance

DropIndex ==
  /\ Naming({"DROP INDEX", "DROP INDEX CONCURRENTLY"})
  /\ Report(Action("DROP_INDEX", << >>,
            SharedFlags("IF_EXISTS") \o Flag(IF statement.kind = "DROP INDEX" THEN "" ELSE "CONCURRENTLY")))
  /\ Advance /\ UNCHANGED tables

(* Objects other than tables and indexes are not reported. *)
DropOther ==
  /\ Naming({"DROP VIEW"})
  /\ Advance /\ UNCHANGED <<ddlActions, tables>>

Truncate ==
  /\ Naming({"TRUNCATE"})
  /\ Report(Action("TRUNCATE", << >>, SharedFlags("RESTART_IDENTITY")))
  /\ tables' = Append(tables, Item)
  /\ Advance

(* populateCreateIndex: an index without schema gets that of its table. *)
CreateIndex ==
  /\ Naming({"CREATE INDEX"})
  /\ Report([Action("CREATE_INDEX", << >>,
                     Flag(IF Item.concurrently THEN "CONCURRENTLY" ELSE "") \o Flag(IF Item.unique THEN "UNIQUE" ELSE "")
                       \o Flag(IF Item.ifNotExists THEN "IF_NOT_EXISTS" ELSE ""))
              EXCEPT !.name = <<IF Item.index[1] = "" THEN Item.table[1] ELSE Item.index[1], Item.index[2]>>])
  /\ tables' = Append(tables, Item.table)
  /\ Advance

(* The object, its schema and the tables registered; what the branches do  *)
(* not know is UNKNOWN, without a name.                                    *)
CommentOn(name, comment) == [Action("COMMENT", << >>, << >>) EXCEPT !.name = name, !.comment = comment]

Commenting(objects) == Naming({"COMMENT"}) /\ Item.object \in objects

Decoded == DecodeCommentText(LiteralText(Item.literal))

CommentOnColumn ==
  /\ Commenting({"COLUMN"})
  /\ LET name == SplitQualifiedColumnName(NameText(Item.name)) IN
       /\ Report([CommentOn(<<"COLUMN", name.schema, name.table>>, Decoded) EXCEPT !.columns = <<name.column>>])
       /\ tables' = IF name.table = << >> THEN tables ELSE Append(tables, <<name.schema, name.table>>)
  /\ Advance

CommentOnObject ==
  /\ Commenting({"TABLE", "FOREIGN TABLE", "INDEX", "SCHEMA", "TYPE", "DOMAIN"})
  /\ LET name == SplitQualifiedName(NameText(Item.name)) IN
       /\ Report(CommentOn(<<Item.object, name.schema, name.name>>, Decoded))
       /\ tables' = IF Item.object \in {"TABLE", "FOREIGN TABLE"} THEN Append(tables, <<name.schema, name.name>>) ELSE tables
  /\ Advance

CommentOnOther ==
  /\ Commenting({"FUNCTION"})
  /\ Report(CommentOn(<<"UNKNOWN", << >>, << >> >>, Decoded))
  /\ Advance /\ UNCHANGED tables

Next ==
  \/ AlterDropConstraint \/ AlterDrop \/ AlterAddConstraint \/ AlterAdd \/ AlterColumn \/ AlterOther
  \/ DropTable \/ DropIndex \/ DropOther \/ Truncate
  \/ CreateIndex \/ CommentOnColumn \/ CommentOnObject \/ CommentOnOther

Spec == Init /\ [][Next]_vars

-------------------------------------------------------------------------------
(* Properties.                                                             *)

(* A column added to or dropped from a table of the columns `had`; a table *)
(* without columns to tell apart any longer is Failed.                     *)
Failed == {"failed"}

Added(had, c, tolerant) ==
  IF had = Failed \/ (c \in had /\ ~tolerant) THEN Failed ELSE had \cup {c}

Dropped(had, c, tolerant) ==
  IF had = Failed \/ (c \notin had /\ ~tolerant) THEN Failed ELSE had \ {c}

CommandEffect(had, command) ==
  CASE command.kind = "ADD COLUMN"               -> Added(had, command.columns[1], FALSE)
    [] command.kind = "ADD COLUMN IF NOT EXISTS" -> Added(had, command.columns[1], TRUE)
    [] command.kind = "DROP COLUMN"              -> Dropped(had, command.columns[1], FALSE)
    [] command.kind = "DROP COLUMN IF EXISTS"    -> Dropped(had, command.columns[1], TRUE)
    [] OTHER                                     -> had

ActionEffect(had, action) ==
  CASE action.type = "DROP_COLUMN" ->
         Dropped(had, action.columns[1], Contains(action.flags, "IF_EXISTS"))
    [] action.type # "DROP_COLUMN" /\ Contains(action.flags, "ADD_COLUMN") ->
         Added(had, action.columns[1], Contains(action.flags, "IF_NOT_EXISTS"))
    [] OTHER -> had

(* The columns after the first n commands, and after all of the actions. *)
AfterCommands(commands, n, had) ==
  LET after[k \in 0..Len(commands)] == IF k = 0 THEN had ELSE CommandEffect(after[k - 1], commands[k])
  IN after[n]

AfterActions(actions, had) ==
  LET after[k \in 0..Len(actions)] == IF k = 0 THEN had ELSE ActionEffect(after[k - 1], actions[k])
  IN after[Len(actions)]

(* Whoever replays the reported actions on the columns of a table gets the *)
(* columns that the commands leave, at every point of the statement, and   *)
(* fails where they fail.                                                  *)
ReplayGivesTheColumns ==
  statement.kind = "ALTER TABLE" =>
    \A had \in SUBSET Columns : AfterActions(ddlActions, had) = AfterCommands(statement.items, next - 1, had)

(* No item is reported twice or out of turn, and the tables are those that *)
(* are dropped, truncated or indexed, one entry to one action, an index in *)
(* the schema of its table unless it names one; an action on a key names   *)
(* each column of it once.                                                 *)
NoneTwice ==
  /\ \A k, l \in DOMAIN ddlActions : k < l => ddlActions[k].item < ddlActions[l].item
  /\ statement.kind \in {"DROP TABLE", "TRUNCATE"} =>
       tables = [k \in DOMAIN ddlActions |-> statement.items[ddlActions[k].item]]
  /\ statement.kind = "CREATE INDEX" =>
       /\ tables = [k \in DOMAIN ddlActions |-> statement.items[ddlActions[k].item].table]
       /\ \A k \in DOMAIN ddlActions :
            LET own == statement.items[k].index[1] schema == ddlActions[k].name[1] IN
            (schema # own => own = "") /\ (own = "" => schema = tables[k][1])
  /\ \A k \in DOMAIN ddlActions : Contains(ddlActions[k].flags, "ADD_CONSTRAINT") =>
       /\ IsInjective(ddlActions[k].columns)
       /\ Range(ddlActions[k].columns) = Range(statement.items[ddlActions[k].item].columns)

(* A sub-command is reported, "OWNER TO, SET, etc." as a generic action     *)
(* (ddl.go:692), unless it is skipped on purpose (DROP CONSTRAINT and      *)
(* EXCLUDE) or takes a branch that looks for a column where it has none.   *)
CommandsReported ==
  statement.kind = "ALTER TABLE" => \A i \in 1..next - 1 :
    (\E k \in DOMAIN ddlActions : ddlActions[k].item = i) <=>
      statement.items[i].kind \notin
        {"DROP CONSTRAINT", "ADD EXCLUDE", "ADD GENERATED", "ALTER CONSTRAINT"}

(* Items and actions correspond, one to one but for the items known to     *)
(* have none.                                                              *)
OneActionPerItem == NoneTwice /\ CommandsReported

(* The comment is what its literal means, and its object is the one named: *)
(* the identifiers of the name are told apart though they have dots in     *)
(* them, the table of a column is registered as it would be by itself, and *)
(* a comment on anything but a table or a column registers none            *)
(* (ddl_comment.go:23, 109, 188).                                          *)
CommentAsWritten ==
  statement.kind = "COMMENT" /\ next = 2 =>
    LET comment == statement.items[1]
        action  == ddlActions[1]
        named   == CASE comment.object = "COLUMN" -> Front(comment.name)
                     [] comment.object \in {"TABLE", "FOREIGN TABLE"} -> comment.name
                     [] OTHER -> << >> IN
    /\ action.comment = Meaning(comment.literal)
    /\ comment.object = "COLUMN" => action.columns = <<Last(comment.name)>>
    /\ tables = IF named = << >> THEN << >> ELSE << <<NameText(Front(named)), Last(named)>> >>
    /\ named # << >> => Tail(action.name) = tables[1]
==============================================================================
