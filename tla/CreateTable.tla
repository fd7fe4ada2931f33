------------------------------ MODULE CreateTable ------------------------------
(***************************************************************************)
(* ddl.go populateCreateTable: the table elements of a CREATE TABLE are    *)
(* read three times, for the constraints (extractCreateTableConstraints),  *)
(* for the comments in front of columns                                    *)
(* (extractCreateTableFieldCommentsByColumn) and for the columns, which    *)
(* the first two passes are matched with by normalized name.               *)
(***************************************************************************)
EXTENDS Integers, SequencesExt

CONSTANTS
  MaxElements,      \* bound on the elements of a table
  Elements          \* the table elements in use

(* A column's name as it is written. *)
ColumnName == [letters : {"a", "A"}, quoted : BOOLEAN]

ColumnQual == {"NOT NULL", "NULL", "PRIMARY KEY", "UNIQUE", "REFERENCES", "CHECK", "DEFAULT"}

TableKinds == {"PRIMARY KEY", "UNIQUE", "FOREIGN KEY", "CHECK", "EXCLUDE", "LIKE"}

(* What stands between an element and the token before it: comments of a   *)
(* line, with ("line") or without text ("bare"), and block comments.       *)
Hidden == {"line", "bare", "block"}

ASSUME ElementsAssumption ==
  /\ MaxElements \in Nat
  /\ \A e \in Elements :
       /\ e.kind \in {"column"} \cup TableKinds
       /\ e.names \in Seq(ColumnName) /\ (e.kind = "column" => Len(e.names) = 1)
       /\ e.quals \in Seq(ColumnQual)
       /\ e.hidden \in Seq(Hidden)

VARIABLES
  elements, includeComments,    \* the statement and opts.IncludeCreateTableFieldComments
  pass, next,                   \* the loop under way and its position
  primaryKey, foreignKeys, uniqueKeys, checkConstraints,    \* tableConstraints
  comments,                     \* commentsByColumn
  columnDetails                 \* action.ColumnDetails

constraints == <<primaryKey, foreignKeys, uniqueKeys, checkConstraints>>
vars == <<elements, includeComments, pass, next, constraints, comments, columnDetails>>

-------------------------------------------------------------------------------
LowerCase(letters) == IF letters = "A" THEN "a" ELSE letters

(* Mutant: quotes dropped before the case is folded. *)
NormalizeAlways(name) == LowerCase(name.letters)

(* normalizeCreateTableColumnName *)
Normalize(name) == IF name.quoted THEN name.letters ELSE LowerCase(name.letters)

Keys == {"a", "A"}

Name(i) == elements[i].names[1]

IsColumn(i) == elements[i].kind = "column"

NoKey == [at |-> <<0, 0>>, columns |-> << >>]

(* The places of a word in a sequence up to n, in order. *)
PlacesUpTo(seq, word, n) ==
  LET upTo[m \in 0..Len(seq)] ==
        IF m = 0 THEN << >> ELSE IF seq[m] = word THEN Append(upTo[m - 1], m) ELSE upTo[m - 1]
  IN upTo[n]

PlacesOf(seq, word) == PlacesUpTo(seq, word, Len(seq))

(* Mutant: one constraint of a kind, as for the primary key. *)
InlineFirst(i, qual) ==
  IF Contains(elements[i].quals, qual)
  THEN <<[at |-> <<i, SelectInSeq(elements[i].quals, LAMBDA q : q = qual)>>, columns |-> <<Name(i)>>]>>
  ELSE << >>

(* The inline constraints of a kind, each at its place among the qualifiers of column i. *)
Inline(i, qual) ==
  LET places == PlacesOf(elements[i].quals, qual)
  IN [k \in DOMAIN places |-> [at |-> <<i, places[k]>>, columns |-> <<Name(i)>>]]

(* A constraint of the table names its columns. *)
TableLevel(i, kind) ==
  IF elements[i].kind = kind THEN <<[at |-> <<i, 0>>, columns |-> elements[i].names]>> ELSE << >>

(* UNIQUE USING INDEX names none, and is left out. *)
WithColumns(i, kind) == IF elements[i].names = << >> THEN << >> ELSE TableLevel(i, kind)

(* Mutant: the last primary key wins. *)
LastKey(key, found) == IF found = << >> THEN key ELSE found[1]

(* merge: the first primary key wins. *)
FirstKey(key, found) == IF key = NoKey /\ found # << >> THEN found[1] ELSE key

(* extractLineCommentsFromHiddenTokens *)
LineComments(i) ==
  LET lines == PlacesOf(elements[i].hidden, "line")
  IN [k \in DOMAIN lines |-> <<i, lines[k]>>]

(* createTablePrimaryKeyColumnSet *)
PrimaryKeyColumns == {Normalize(primaryKey.columns[k]) : k \in DOMAIN primaryKey.columns}

NotNullInline(i) ==
  Contains(elements[i].quals, "NOT NULL") \/ Contains(elements[i].quals, "PRIMARY KEY")

-------------------------------------------------------------------------------
Init ==
  /\ elements \in UNION {[1..n -> Elements] : n \in 1..MaxElements}
  /\ includeComments \in BOOLEAN
  /\ pass = "constraints" /\ next = 1
  /\ primaryKey = NoKey
  /\ foreignKeys = << >> /\ uniqueKeys = << >> /\ checkConstraints = << >>
  /\ comments = [key \in Keys |-> << >>]
  /\ columnDetails = << >>

In(p) == pass = p /\ next <= Len(elements)

MergeColumnConstraints ==
  /\ In("constraints") /\ IsColumn(next)
  /\ primaryKey' = FirstKey(primaryKey, Inline(next, "PRIMARY KEY"))
  /\ uniqueKeys' = uniqueKeys \o Inline(next, "UNIQUE")
  /\ foreignKeys' = foreignKeys \o Inline(next, "REFERENCES")
  /\ checkConstraints' = checkConstraints \o Inline(next, "CHECK")
  /\ next' = next + 1
  /\ UNCHANGED <<elements, includeComments, pass, comments, columnDetails>>

(* EXCLUDE and LIKE leave the constraints alone. *)
MergeTableConstraint ==
  /\ In("constraints") /\ ~IsColumn(next)
  /\ primaryKey' = FirstKey(primaryKey, WithColumns(next, "PRIMARY KEY"))
  /\ uniqueKeys' = uniqueKeys \o WithColumns(next, "UNIQUE")
  /\ foreignKeys' = foreignKeys \o TableLevel(next, "FOREIGN KEY")
  /\ checkConstraints' = checkConstraints \o TableLevel(next, "CHECK")
  /\ next' = next + 1
  /\ UNCHANGED <<elements, includeComments, pass, comments, columnDetails>>

AfterConstraints ==
  /\ pass = "constraints" /\ next > Len(elements)
  /\ pass' = IF includeComments THEN "comments" ELSE "columns"
  /\ next' = 1
  /\ UNCHANGED <<elements, includeComments, constraints, comments, columnDetails>>

(* Mutant: the comments of a table constraint kept for the column it names. *)
ReadAnyComments ==
  /\ In("comments")
  /\ comments' = IF LineComments(next) = << >> \/ elements[next].names = << >> THEN comments
                 ELSE [comments EXCEPT ![Normalize(Name(next))] = LineComments(next)]
  /\ next' = next + 1
  /\ UNCHANGED <<elements, includeComments, pass, constraints, columnDetails>>

ReadFieldComments ==
  /\ In("comments")
  /\ comments' = IF IsColumn(next) /\ LineComments(next) # << >>
                 THEN [comments EXCEPT ![Normalize(Name(next))] = LineComments(next)]
                 ELSE comments
  /\ next' = next + 1
  /\ UNCHANGED <<elements, includeComments, pass, constraints, columnDetails>>

AfterComments ==
  /\ pass = "comments" /\ next > Len(elements)
  /\ pass' = "columns" /\ next' = 1
  /\ UNCHANGED <<elements, includeComments, constraints, comments, columnDetails>>

(* The last default wins. *)
Default(i) == LET places == PlacesOf(elements[i].quals, "DEFAULT") IN IF places = << >> THEN 0 ELSE Last(places)

(* extractCreateTableColumn, and the primary key of the table. *)
Column(i) ==
  [ name     |-> Name(i),
    nullable |-> ~NotNullInline(i) /\ Normalize(Name(i)) \notin PrimaryKeyColumns,
    default  |-> Default(i),
    comment  |-> comments[Normalize(Name(i))] ]

AddColumn ==
  /\ In("columns") /\ IsColumn(next)
  /\ columnDetails' = Append(columnDetails, Column(next))
  /\ next' = next + 1
  /\ UNCHANGED <<elements, includeComments, pass, constraints, comments>>

SkipElement ==
  /\ In("columns") /\ ~IsColumn(next)
  /\ next' = next + 1
  /\ UNCHANGED <<elements, includeComments, pass, constraints, comments, columnDetails>>

Return ==
  /\ pass = "columns" /\ next > Len(elements)
  /\ pass' = "done"
  /\ UNCHANGED <<elements, includeComments, next, constraints, comments, columnDetails>>

Next ==
  \/ MergeColumnConstraints \/ MergeTableConstraint \/ AfterConstraints
  \/ ReadFieldComments \/ AfterComments
  \/ AddColumn \/ SkipElement \/ Return

(* A sequential function: it goes on until it returns. *)
Spec == Init /\ [][Next]_vars

-------------------------------------------------------------------------------
(* Properties.                                                             *)

(* PostgreSQL folds the names that are not quoted. *)
SameColumn(m, n) ==
  LET folded(name) == IF ~name.quoted /\ name.letters = "A" THEN "a" ELSE name.letters
  IN folded(m) = folded(n)

(* Where the keys of a kind are declared, inline or for the table. *)
PlacesIn(i, kind, qual) ==
  IF IsColumn(i) THEN {<<i, j>> : j \in {j \in DOMAIN elements[i].quals : elements[i].quals[j] = qual}}
  ELSE IF elements[i].kind = kind /\ (kind \in {"PRIMARY KEY", "UNIQUE"} => elements[i].names # << >>) THEN {<<i, 0>>}
  ELSE {}

KeyPlaces(kind, qual) == UNION {PlacesIn(i, kind, qual) : i \in DOMAIN elements}

PrimaryKeyPlaces == KeyPlaces("PRIMARY KEY", "PRIMARY KEY")

MayBeNull(i) ==
  /\ ~Contains(elements[i].quals, "NOT NULL") /\ ~Contains(elements[i].quals, "PRIMARY KEY")
  /\ \A k \in DOMAIN elements : elements[k].kind = "PRIMARY KEY" =>
       \A j \in DOMAIN elements[k].names : ~SameColumn(elements[k].names[j], Name(i))

Columns == PlacesOf([i \in DOMAIN elements |-> elements[i].kind], "column")

Done == pass = "done"

(* What PostgreSQL accepts: no column twice, and one primary key at most. *)
Accepted ==
  /\ \A k, l \in DOMAIN Columns : k # l => ~SameColumn(Name(Columns[k]), Name(Columns[l]))
  /\ \A p, q \in PrimaryKeyPlaces : p = q

(* Wherever and in whatever spelling the primary key is declared, a column *)
(* is nullable exactly when PostgreSQL lets it be NULL (ddl.go:72-79,      *)
(* 112-124); identity and serial columns are not modelled.                 *)
NullableAsInPostgres ==
  Done /\ Accepted =>
    /\ Len(columnDetails) = Len(Columns)
    /\ \A k \in DOMAIN Columns : columnDetails[k].nullable = MayBeNull(Columns[k])

Before(p, q) == p[1] < q[1] \/ (p[1] = q[1] /\ p[2] < q[2])

(* However many primary keys are declared, the one that is reported is the *)
(* first, with its columns, and these are reported NOT NULL.               *)
FirstPrimaryKeyWins ==
  Done =>
    /\ primaryKey = NoKey <=> PrimaryKeyPlaces = {}
    /\ \A p \in PrimaryKeyPlaces :
         /\ primaryKey.at = p \/ Before(primaryKey.at, p)
         /\ primaryKey.columns = elements[primaryKey.at[1]].names
    /\ \A k \in DOMAIN columnDetails : \A j \in DOMAIN primaryKey.columns :
         SameColumn(columnDetails[k].name, primaryKey.columns[j]) => ~columnDetails[k].nullable

(* Inline keys and keys of the table are reported together in source order, *)
(* none twice and none lost, and each with the columns it is declared for.  *)
InOrder(found, kind, qual) ==
  /\ \A k, l \in DOMAIN found : k < l => Before(found[k].at, found[l].at)
  /\ \A k \in DOMAIN found : found[k].columns = elements[found[k].at[1]].names
  /\ Done => {found[k].at : k \in DOMAIN found} = KeyPlaces(kind, qual)

AllKeysInOrder ==
  /\ InOrder(foreignKeys, "FOREIGN KEY", "REFERENCES")
  /\ InOrder(uniqueKeys, "UNIQUE", "UNIQUE")
  /\ InOrder(checkConstraints, "CHECK", "CHECK")

(* Keys are merged in source order, and the first primary key stays        *)
(* (ddl.go:146-182).                                                       *)
KeysInSourceOrder == AllKeysInOrder /\ FirstPrimaryKeyWins

(* A comment goes to the column it stands before, to every other column of *)
(* that name at most, and never from a table constraint to a column.       *)
CommentsOfTheirColumn ==
  Done => \A k \in DOMAIN columnDetails :
    /\ \A c \in DOMAIN columnDetails[k].comment :
         LET i == columnDetails[k].comment[c][1]
         IN includeComments /\ IsColumn(i) /\ SameColumn(Name(i), columnDetails[k].name)
    /\ (includeComments /\ \A l \in DOMAIN columnDetails : l # k => ~SameColumn(columnDetails[l].name, columnDetails[k].name))
       => columnDetails[k].comment = LineComments(Columns[k])
===============================================================================
