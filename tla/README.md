# A TLA+ development of postgresparser

postgresparser is a Go library that turns PostgreSQL text into an intermediate
representation (`ParsedQuery`, `ir.go`): tables, columns, joins, CTEs, DDL
actions and so on. A generated ANTLR lexer and parser (`gen/`) build a parse
tree; the hand-written part prepares the text, walks the tree and fills the
representation; `analysis/` derives joins and conditions from it.

This directory holds TLA+ models of the hand-written part, the TLC
configurations that check them on small instances, and theorems about them
that TLAPS proves for every value of the constants.

- `tlc -config X.cfg M` runs one configuration; `PROJECT.json` lists which module
  goes with which configuration and what it is expected to find.
- `tlapm M.tla` checks the proofs of `LeastElement`, `ParseBatchProofs`,
  `PreprocessProofs`, `JoinTreeProofs`, `UsageWalkProofs`, `CreateTableProofs`,
  `DdlActionsProofs` and `QueryAnalysisProofs`.
- `PROJECT.json` maps every definition to the lines of source it stands for.

## The system

The library is sequential: no goroutines, no files, no network, no state that
outlives a call. What makes it hard is elsewhere: several passes over one tree
that have to agree by name or by position, recursive walks that append to one
shared result, indices kept across calls, error recovery in the generated
parser, and scanners that have to follow a lexer they do not share code with.

| component | state | operations | interacts with | hard behaviour | what makes it correct |
|---|---|---|---|---|---|
| entry points (`entry.go`, `errors.go`, `options.go`) | statement contexts, collected syntax errors, results so far | `ParseSQL`, `ParseSQLStrict`, `ParseSQLAll` | preprocessing, generated parser, all populate functions | one bad statement among good ones; errors without a token; errors between statements | the three calls agree; each error goes to the statement it is in; one result per statement |
| preprocessing (`preprocess.go`) | quote state carried over lines | `preprocessSQLInput`, `stripDoubleSlashComment` | its output is what the lexer reads and what `RawSQL` shows | literals over lines, doubled quotes, dollar tags | follows the lexer; removes comments and blanks only; keeps line numbers |
| join trees (`select.go`, part of `setops.go` and `helpers.go`) | `Tables`, `JoinConditions`, USING usage, `Correlations` | `collectTableRefs`, `resolveJoinMeta`, `appendSetOpTables`, `recordUsingJoin`, `detectLateralCorrelation` | subqueries (recursion), analysis (reads join usage) | recursion with an index taken before the call | tables in source order; join metadata on the table it joins |
| SELECT bodies (`select.go`) | the lists of a `ParsedQuery` | `populateSelect`, projection, WHERE to LIMIT | join trees, column usage | order of clauses, flags for nested queries | every clause once, in its scope |
| CTEs, set operations, subqueries (`setops.go`, `select.go`) | `CTEs`, `SetOperations`, `Subqueries`, set of CTE names | `extractCTEs`, `extractSetOperationsWithResult`, `buildSubqueryRef` | SELECT bodies (recursion) | scopes of names; first arm visited twice | a name is a CTE where it is in scope; usage recorded once |
| column usage (`helpers.go`, `helpers_comparison.go`) | depth counters and lists of listeners | `findAndRecordUsage`, `findAndRecordComparisons`, `extractWindowFunctions` | all populate functions | Enter/Exit callbacks must balance; inner queries belong to inner scopes | no column of an inner query in the outer one |
| INSERT, UPDATE, DELETE (`dml_*.go`), MERGE (`merge.go`) | as SELECT, with targets, SET, RETURNING, actions | `populateInsert`, `populateUpdate`, `populateDelete`, `populateMerge` | column usage, subqueries | optional parts told apart by position (MERGE's aliases) | target and source get their own alias and role |
| DDL (`ddl.go`) | `DDLActions`, `Tables` | `populateCreateTable`, `populateAlterTable`, `populateDropStmt`, `populateTruncate`, `populateCreateIndex` | DDL comments | three passes that meet by column name; one branch per first matching word | nullability and keys fit; one action per command; replay gives the columns |
| DDL comments (`ddl_comment.go`) | map from column to comment lines | `extractCreateTableFieldCommentsByColumn`, `populateCommentStmt` | hidden tokens of the lexer | same column twice, comment before a constraint | a comment goes to the column it stands before |
| analysis (`analysis/`) | maps by alias and by context | join relationships, WHERE conditions, combined extraction | reads `ParsedQuery` only | iteration over Go maps, text matching, aliases that hide each other | each relationship once and between the right tables |
| generated code (`gen/`), grammar (`grammar/`) | - | external | everything | error recovery | assumed as stated in `ParseInput` and `FromClause` |
| identifier quoting (`internal/ident`), examples, benchmarks | - | `TrimQuotes` | analysis | - | not modelled |

`PROJECT.json` repeats this list under `components` with what is modelled of
each, and lists under `hazards` each place in the code where this is hard to
test, with the properties that cover it.

## The modules

| module | role | models |
|---|---|---|
| `ParseInput` | what the parser hands to `entry.go`: statement contexts, errors, lines, with the facts about ANTLR that the code relies on (`WellFormed`) | external |
| `BatchContract` | abstract specification of `ParseSQLAll`: one answer, what it promises | README and docs of the library |
| `ParseBatch` | the three entry points; implements `BatchContract` | `entry.go` |
| `Ordering` | finite sets of numbers as ascending sequences | - |
| `LeastElement` | lemmas about `Min` and `Max` of finite sets of numbers, about recursive functions on intervals, about enumerations and their concatenation, and about sequences by their elements | - |
| `ParseBatchProofs` | theorems of `ParseBatch` | - |
| `SqlText` | text as the lexer grammar sees it: where tokens begin and end | `PostgreSQLLexer.g4` |
| `Preprocess` | the line scanner | `preprocess.go` |
| `PreprocessProofs` | theorems of `Preprocess` | - |
| `FromClause` | the FROM clauses that the grammar derives | `PostgreSQLParser.g4` |
| `JoinTree` | the walk over a FROM clause | `select.go`, `setops.go`, `helpers.go` |
| `JoinTreeProofs` | theorems of `JoinTree` | - |
| `UsageWalk` | the listeners over the tree of a clause | `helpers.go`, `helpers_comparison.go`, `select.go` |
| `UsageWalkProofs` | theorems of `UsageWalk` | - |
| `SelectStatement` | the SELECTs that the grammar derives, down to what scopes are made of | `PostgreSQLParser.g4`, `setops.go` |
| `QueryScope` | the answers for SELECTs in one another: CTEs, set operations, subqueries | `select.go`, `setops.go` |
| `Texts` | texts as sequences; ends trimmed | package `strings`, external |
| `DmlStatement` | the INSERT, UPDATE, DELETE and MERGE statements that the grammar derives | `PostgreSQLParser.g4` |
| `DmlClauses` | the populate functions for them, one step per clause | `dml_*.go`, `merge.go` |
| `ReturningList` | the items cut out of the text of RETURNING | `analysis/analysis.go` |
| `CreateTable` | the three passes over table elements | `ddl.go`, `ddl_comment.go` |
| `CreateTableProofs` | theorems of `CreateTable` | - |
| `CommentText` | literals and names of COMMENT ON, and their decoding | `ddl_comment.go`, `helpers.go`, both grammars |
| `DdlActions` | ALTER TABLE, DROP, TRUNCATE, CREATE INDEX, COMMENT ON | `ddl.go`, `ddl_comment.go` |
| `DdlActionsProofs` | theorems of `DdlActions` | - |
| `ConditionValue` | the value of a condition, out of the text of the comparison | `analysis/where_conditions.go` |
| `JoinQuery` | what `analysis/` reads of a query, and the relationship one pair of columns gives | `analysis/join_parser.go` |
| `RelationshipSet` | abstract specification of the relationships that are answered | promise of `ExtractQueryAnalysisWithSchema` |
| `QueryAnalysis` | the loops over filters, conditions and contexts; implements `RelationshipSet` | `analysis/*.go` |
| `QueryAnalysisProofs` | theorems of `QueryAnalysis` | - |
| `MC...` | values and bounds for TLC | - |

How they are composed: `JoinTree`, `UsageWalk`, `QueryScope` and `DmlClauses` are
the same recursion at four places, each with what the others do reduced to
its result. `JoinTree` walks one FROM clause, where a subquery is the table it
reads; `UsageWalk` walks one clause, where a subquery is its node;
`QueryScope` is the recursion itself, where a clause is what it yields; and
`DmlClauses` embeds a SELECT as the relation it reads. The pure modules
(`SqlText`, `CommentText`, `ReturningList`, `ConditionValue`) are used by the
state machines whose data they compute. `QueryAnalysis` starts from what the
others produce: tables, conditions and usages.

A definition whose comment begins with *Mutant* is the code with one plausible
bug; it is used by no specification. Each property has a mutant that breaks it.

### ParseBatch

`source` is the parser's output, the same for three calls that may run in any
order (they share nothing, so the order shows that the answers depend on the
text alone). `first` and `strict` are the answers of `ParseSQL` and
`ParseSQLStrict`, each a single step because neither has an intermediate state
a caller could see. `ParseSQLAll` is stepwise: `PrepareBatch` (or `RejectBatch`)
is `prepareParseState` and `make([]StatementParseResult, n)`, `ConvertStatement`
one turn of the first loop, `AttributeError` one turn of the second,
`ReturnBatch` the computation of `HasFailures` and the return. `Nil` is Go's nil.

Tokens are numbered on the default channel, `EOF` at index `eof`. A statement
is its first and last token, the branch of the dispatch switch and whether its
populate function succeeds. `WellFormed` is what is assumed of ANTLR: contexts
in source order with a `;` between, errors on the line of their offending
token, -1 where there is no token.

- `WarningsWellPlaced`, `OnlyOutsideErrorsLost`: an error with a token inside a
  statement is reported there, once; only errors on lines of no statement are lost.
- `EntryPointsAgree`: what the three calls have to do with each other.
- `ImplementsContract`: refinement of `BatchContract` with `statements` and the
  loop counters hidden.
- `AllReturn`: every call returns.

The run `parse_batch` has two statements, two errors, four tokens and `EOF` on two
lines: two of each is enough for an error inside, between, before and after
statements on shared and separate lines. Divergences that the model has and no run shows:
an error of no statement is dropped, so that a text with syntax errors may come
back without a failure, which the comment on `prepareParseState` does not suggest
(entry.go:66; `OnlyOutsideErrorsLost` says which errors these are); an error
outside all statements goes to the first statement on its line and not to the
"nearest" one (entry.go:298); an UNKNOWN statement has no parameters because
its branch returns before they are read (entry.go:230).

### Preprocess

`pos` is the index `i` of the scanning loop over the whole text rather than per
line; the split into lines is the action `EndLine`, the last line and the final
trim are `Finish`. `kept` holds the positions of the characters written so far
rather than the characters, so that order and loss can be expressed.
There is one action for each branch of the loop in `stripDoubleSlashComment`.
The alphabet has one character for each class that any branch tells apart.

`SqlText` is a second description of the same text, from the lexer grammar, and
`ScannerFollowsLexer` and `OnlyCommentsAndBlanksRemoved` compare the two: the scanner is
in a literal where the lexer is, all comments are gone, and outside of literals nothing else is
but blanks at line ends and around the text; in literals at most these are; no line break is
lost in between, and the lexer finds no comment in the answer. They hold for plain texts (`Plain`): without `--` comments, without `$` in identifiers and without a
`$` that only the scanner takes for the start of a tag, as in `$1$2`. Block comments
and `E'...'` strings are left out of the alphabet. The run has all plain texts of up to four
pieces, and of up to three when `--` and a parameter are among the pieces. Four pieces,
some of them doubled quotes, allow a literal to
be opened, to hold a character of another kind or a doubled quote and a comment, and to be
closed, or to be closed and followed by a comment. `Returns` is termination.

Divergences from the function's comment that the model has: an apostrophe in a `--`
comment turns the scanner round, and a later literal with `//` in it is cut
(preprocess.go:64); blanks at the end of a line are trimmed inside literals
too (preprocess.go:31), though the comment promises to preserve literals (preprocess.go:19-21):
a literal with a blank before a line break is another string afterwards, and
`OnlyCommentsAndBlanksRemoved` leaves open whether a literal keeps such blanks; a `$` in an identifier may open
a dollar-quoted string for the scanner alone (preprocess.go:81), and so may the `$1$` of
two parameters without a blank between them, since a tag may begin with a digit (preprocess.go:120).

### JoinTree

A table_ref tree is a parent function over nodes numbered in source order
(`FromClause`). The recursion of `collectTableRefs` is a stack of frames, each
with the call's local variables: `before` is the index taken before the nested
call (select.go:383), `child` and `quals` are its two loops; `child` and `item` are the nodes begun last,
0 where none is. `Register...` are the
branches for the kinds of reference, `VisitNested` the nested call,
`Return` the return to the caller and the assignment of the join metadata after
it, `RecordQual` one turn of the loop over the qualifications. Names are numbers
of nodes; `raw` says which reference an entry came from. Subqueries read one
table, which may bear the name of the first reference of the outer clause, so
that the deduplication by `tableKey` has something to do. Functions are LATERAL
calls that mention the columns of the first reference. Correlations are a set: their
order is not modelled.

- `TablesInSourceOrder`: the list of tables, with those that subqueries read.
- `JoinMetaOnItsTable`: each join is recorded on the table that the operand of
  that join begins with, in chains, in parentheses and before subqueries.
- `EveryQualOnce`: each qualification once, inner before outer, and the last USING between its operands.
- `LateralCallsCorrelated`: correlation with what stands to the left, and only that.

The run `join_tree` has four references of every kind: four are needed for a
join inside a join's right operand followed by another join. Divergences: the first
USING of a chain is recorded between the tables of the last one (select.go:390;
`EveryQualOnce` is about the last one); an XMLTABLE registers no table and passes its
join on to the next entry (`JoinMetaOnItsTable` is about clauses without one); and
`JoinType` has values that ir.go:62 does not list (`JOIN`, `NATURAL LEFT`).

### UsageWalk

A clause is a tree of nodes numbered in the order the ANTLR walker enters them,
with `last[m]` the last node below `m`; rules that no listener looks at are
left out. `Enter...` and `Exit` are the callbacks, `open` is what the walker has
entered and not yet left, and `subqueryDepth` the counter that the code keeps
instead. `frames` holds the walk under way and, above it, the walk that
`extractColumnsFromContext` makes from inside of the callback of a predicate.
`todo` are the walks that `extractProjection` and the `extract...Clause`
functions make, in order; `RecordWindows` adds those over the parts of the
windows it has found. A subquery is recorded as the number of its node: its own
`ParsedQuery` is another parse. Columns are an alias and a name; the operator of
a predicate is its sequence of words, and two predicates have the same text when
their trees are the same.

- `DepthCountsSubqueries`: the counter says what `open` says.
- `InnerSelectsIgnored`: no column of an inner SELECT is recorded for an expression.
- `EveryColumnInItsRole`: all others are, in their order, and those of windows outside of
  inner SELECTs once for each window and part.
- `DirectSubqueriesOnce`: the subqueries of the scope, and none in another.
- `ComparisonsOnce`: one usage for each column, operator and text
  of a comparison, whichever of several callbacks finds it, and never without its NOT.

The run `usage_walk` has clauses of up to five nodes: enough for two SELECTs in one
another with columns in and after them, for a window with both parts in an inner
SELECT, and for a comparison in a comparison with a column of the same name; HAVING
has each operator in turn, with up to four nodes. One divergence, in the run
`inner_columns_kept_out`: the listener for OVER clauses has no counter, so that the columns of a
window inside of a scalar subquery are recorded for the outer query (helpers.go:57). The
properties of `usage_walk` leave it open what is recorded of these.

### QueryScope

The SELECTs of a statement are numbered so that each stands in one with a smaller number
(`SelectStatement`); `place` says in which, in which of its arms and where: the body of a
CTE, a derived table, an expression of the select list or of WHERE, or an arm in
parentheses. The answer for a SELECT depends on nothing outside of it, so `QueryScope`
fills them in from the last to the first, in three steps each: `WithClause`
(`extractCTEs`), `Clauses` (the body of `populateSelectFromResolvedNested`) and
`ArmsClause` (`extractSetOperationsWithResult` with all it calls). `nested` is what
`collectNestedSetOperationsFromPrimary` returns for an arm in parentheses, for every set
of CTE names it may be handed.

- `TablesSurface`: a relation read at any depth is among the tables found from the answer,
  unless its SELECT is one of those whose answers go nowhere (`GoesOut`).
- `NamesOfTheirScope`: what is taken for a CTE is bound by a WITH around it, and what is not is
  not bound in its own SELECT. Between the two is the divergence that a nested
  query starts without the names of the outer ones (setops.go:333): a CTE of an outer WITH is a
  base table there. A name with a schema is taken for a CTE as well (select.go:326).
- `OperatorsInSourceOrder`: `SetOperations` is flat, and from left to right.
- `OwnPartsOnce`: the double walk over the first arm records nothing twice.

The run `query_scope` has all shapes of three SELECTs with up to three, two and one arms: a set
operation in an arm of another whose arm has a derived table is the deepest of the code's
cases, and three arms are needed for INTERSECT between UNIONs. Divergences that the model has and
the properties except: a comment says of a sole arm that it was "already processed" (setops.go:65),
but one that is `TABLE t`, or a SELECT in parentheses that is unwrapped no further, is walked
neither by the one function nor by the other, and its tables are not in the answer;
sub-selects in expressions of later arms are lost, as are the comparisons of
INTERSECT's arms (setops.go:213, 281), and so is the WITH in parentheses (select.go:123).

### DmlClauses

A statement is a record of what the branches ask of it (`DmlStatement`), and `left` the
clauses that its populate function still has to visit. One action per clause;
`TargetRef`, `SetTargets`, `SetValues`, `RelationRef` are the shared functions of
`dml_common.go` and `select.go`. A MERGE has its target, source, condition and one step for
each action. Usages are numbered by the assignment or condition they come from.

- `TargetAndReadsKnown`: the target is a base table even where WITH binds its name, and
  what is read is a CTE exactly where WITH binds it.
- `AssignmentsKnown`: texts, targets and values of SET, in all three kinds of statement.
- `MergeAsWritten`: actions, conditions, and aliases where they can be told apart.
- `ReturningAsWritten`: cutting the text that `ReturningClause` kept into items
  gives the items back (`ReturningList`), be there commas and parentheses in
  literals and calls.

The run `dml_clauses` has two relations, two assignments, two actions of MERGE, conditions of
three words, and three items of RETURNING. Divergences, of which `MergeAsWritten` excepts the
first two: MERGE takes aliases by position, so that an alias on the source alone goes to the
target (merge.go:33), against "metadata for target, source" in the comment (merge.go:14); the
condition of DELETE ends at the first word that begins like THEN or DELETE (merge.go:207), as in
`AND NOT deleted THEN DELETE` or a CASE, a way that is taken because the generated parser does not
expose the expression of `merge_delete_clause` (merge.go:185), though its tables accept one
(`gen/PostgreSQLParser.interp`); the columns of a list in SET have no usage (dml_common.go:61); usages of the kinds
`MergeTarget`, `MergeSource` and `UpsertTarget` are not recorded for plain names;
RETURNING followed by a line break keeps the keyword in its first item, and brackets and
double-quoted names are split at their commas (analysis.go:380).

### CreateTable

The elements of a CREATE TABLE go through three loops that share the variable
`next`: constraints (`In("constraints")`), comments and columns. A name is its letters
and whether it is quoted; `Normalize` is `normalizeCreateTableColumnName`, by
what it does to spellings. `PlacesOf` is the loop over the qualifiers of a column, and over
its hidden tokens, that takes one kind of them: a recursive function, so that the proofs
can speak of it. `NullableAsInPostgres` compares the
nullability of each column with the PostgreSQL rule: not null if declared so or if in the primary
key, where names match as PostgreSQL matches them. `KeysInSourceOrder` relates the lists of
keys to the source, inline and table-level keys mixed, and has the rule of the comment at
`ddl.go:147` that the first primary key stays; `CommentsOfTheirColumn` the comments to the columns they stand before. Identity
and serial columns are left out. The run `create_table` has three elements: two
columns that may clash and a constraint before, between or after them.

### DdlActions

One action per branch of `populateAlterTableCmd`, in the order of its switch, and
one per kind of DROP, for TRUNCATE, for CREATE INDEX and for the branches of COMMENT ON. A
command is its kind, and `Words` says which of the words the switch asks for the
grammar has in it. `ReplayGivesTheColumns` replays the reported actions on any set of
columns and compares with what the commands do to it, one after the other in the order
written (PostgreSQL's own reordering in passes is not meant): `AfterCommands` and `AfterActions`
are the two loops of such a replay. `OneActionPerItem`
relates actions, items and tables one to one; it names the two kinds that are lost because
their branch looks for a column where they have none: ADD GENERATED and ALTER CONSTRAINT.
The first names a column, so that "Full IR extraction" (README.md:112) is not what ALTER COLUMN c
ADD GENERATED gets: it takes the branch of ADD COLUMN and returns there (ddl.go:660).
`CommentAsWritten` compares what COMMENT ON reports with what PostgreSQL means: the
characters that the literal stands for, and the identifiers of the name.

`CommentText` has five forms of literals, with units that stand for one character each and
their spelling, and names whose quoted identifiers may have dots. Identifiers are those of the
lexer: `IdentifiersAssumption` says that their quotes come in pairs and that dots stand only
between the two of a pair. What is not
decoded is left out of the units: `\x41`, `\101`, `\u0041` and other letters after a
backslash, escapes of `U&''`, UESCAPE, and literals continued on another line.

`ddl_actions` has up to three items of every kind except DROP NOT NULL, DROP IDENTITY
and DROP EXPRESSION, literals of up to three units and names of up to three identifiers,
which is a column with table and schema; two units are enough for an escape next
to a quote. `drop_not_null` shows that ALTER COLUMN c DROP NOT NULL is
reported as DROP_COLUMN of c, and the two others take the same branch.
CONTINUE IDENTITY is left out of TRUNCATE's modifiers.

### QueryAnalysis

`ExtractQueryAnalysisWithSchema` is four loops, over filters, join conditions, contexts
and the relationships found; `step` says which runs, `i` and `p` where it is. The Go map
of usages by context is `contexts`, a set any member of which may come next
(`VisitContext`). `JoinQuery` has the data: a condition is its columns in order and
the places where it equates two of them, an alias is resolved in the map as the code builds it, the
last table winning. The columns of USING have the text of
the whole clause as their context (helpers.go:270), so that only its first two are related. A query has join conditions or filters, since different loops read
them. `RelationshipSet` promises that every relationship the conditions give is in the
answer once.

- `ImplementsPromise`: the loops implement `RelationshipSet` for every order of the map.
- `EachOnceInOrder`: no duplicates, and the first of each kept. The order of the answer itself
  depends on the map.
- `ConditionsAsWritten`: every filter with an operator gives a condition of a table that declares its alias,
  and its value is the one in the text. `Misread` lists the texts where it is
  not: a line break within NOT IN or NOT LIKE, LIKE in the name of a column, a part `in` or
  `between` of a qualified name before that keyword, a comma in an
  item of IN, AND in a lower bound, quotes at the ends of a literal, and two literals
  around the AND of a NOT BETWEEN. `LosesBlanks` adds the bounds of BETWEEN that have blanks
  next to their quotes: `Bound` trims them after the quotes (where_conditions.go:264). SYMMETRIC and ESCAPE stay in the value; they are not modelled.

A comparison is one of `IsComparison`: its operator is one of `Symbols`, LIKE, IN or BETWEEN,
the last three also with NOT; the name of its column, qualified or not, has no blank and no symbol
of an operator in it; and what it is compared with is either in quotes, with anything between them, or
a text without blanks and quotes (a number, a parameter, a column). `FiltersAssumption` asks this of
all filters but those with an operator of JSON, IS, or none.

`query_analysis` has up to two of 24 join conditions on five lists of tables, and every operator
with eleven values, five names of columns and one or two values, also in pairs.
`accurate_relationships` shows what the fallback by context does: two columns
that a condition compares with `<>`, or that are merely its first two, become a relationship,
where the documents say "no heuristic guessing". Other divergences: BETWEEN ' a' AND 'b '
is answered with `a` and `b`, while the other operators keep the blanks in quotes (where_conditions.go:264); an alias of the query that a
derived table declares again is resolved to a table of the latter, since these come after the
query's own in `Tables` and the last one wins (where_conditions.go:77), so that
`ConditionsAsWritten` only says that the table declares the alias; and a comment says that
USING is skipped (join_parser.go:85), but its columns are related by the fallback, and
any condition with the letters USING in it is only looked at there.

## Fairness

Every modelled function is sequential and called on a finite input, so the only
fairness used is weak fairness of the next-state relation: a function that has
been called goes on until it returns. `ParseBatch` and `Preprocess` state it: their
loops move indices by more than one or wait for one another, and `AllReturn` and
`Returns` say that no loop gets stuck at a step no action covers. The other modules
take each step over a list or a tree once and state no liveness; their properties
about the end of a walk would fail in the mutants that end it early.
Termination is not a deadlock, hence `CHECK_DEADLOCK FALSE` everywhere.

## Proofs

- `LeastElement` proves that `Min` and `Max` of the community modules, which
  are defined by `CHOOSE`, pick a member of the set that is least or greatest; that a
  recursive function on an interval, which is a `CHOOSE` as well, exists and keeps its values
  in a set that its steps do not leave; that a finite set of numbers has one ascending
  enumeration (`Enumeration`, `OnlyEnumeration`), the `FromLeast` of `Ordering`; and what
  `FlattenSeq` yields: every element of the sequences, in order, at a place of its own
  (`FlattenPlaces`), by a least number of sequences for which it would not. Such a sequence
  is a row (`IsRow`): the last part of the module reads rows from either end, part by part.
- `ParseBatchProofs` proves `TypeOK`, `WarningsWellPlaced`, `OnlyOutsideErrorsLost`,
  `EntryPointsAgree` and the refinement `ImplementsContract` for all bounds. None
  is inductive as it stands: `WarningsWellPlaced` speaks of all warnings, and to
  show that a step keeps it one has to know which errors have been
  attributed so far and that the results correlate with the contexts. The
  invariant `IInv` (theorem `Inductive`) says this: where the two loop counters are, that results below
  `i` are converted and the ones from `i` on are zero, that warnings are numbers of
  errors below `j`, each put where `StatementIndexForSyntaxError` puts it. What
  is lost follows because that function finds a statement wherever one is on
  the error's line; the agreement because `IInv` says of each answer which function of `source`
  it is; the refinement because what is answered is what the contract promises, and
  every other step leaves the abstract state alone. The
  assumptions are those of `ParseInput` and that `Nil` is no answer.
- `PreprocessProofs` proves the five invariants of `preprocess` for texts of any length over the alphabet,
  the last two under the assumption that all `Inputs` are plain.
  `OneLiteralAtATime` is inductive as it stands, by the guards of each branch.
  For `ScannerTypeOK` and `KeptInOrder` the invariant is
  `IInv == ScannerTypeOK /\ Ascending(kept, Len(text), pos)`: what is written are
  positions in ascending order and all before `pos`. The last part is what
  `KeptInOrder` lacks to be inductive: the next character written is greater than
  all before it only because they lie before `pos`. Lemmas show that appending, trimming
  and cutting out a middle part keep a sequence ascending.

  `ScannerFollowsLexer` is not inductive: it speaks of the token a character is in, and
  the flags change at places where the lexer only knows later where the token ends. `FInv`
  says instead what has happened up to `pos`. A quoted literal has begun and may not have ended,
  with an even number of its quotes since (`Opened`); a dollar-quoted one has begun
  and its delimiter has not been seen (`OpenedDollar`); or the scanner is at a token or in an identifier
  (`AtPlain`). At the second of two double quotes, where the scanner believes the
  literal to be over, the number is odd (`BetweenQuotes`). There is one lemma about these notions
  for each way to go on, and one for each branch of the loop that uses them. That the function `TokenStart` is what its
  recursion says, and that tokens lie side by side, is shown by the least position for which it would not be so.

  For `OnlyCommentsAndBlanksRemoved`, `KInv` says what is written at any moment: what stands before
  `pos` outside of comments, without the blanks at the ends of the lines that are over
  (`Written`). At the end this is all that is kept (`KeptExactly`), from which the first conjunct follows. The third, about newlines, follows by a
  bijection between those of the text and those of the answer. The second, that the answer
  has no comments, compares two runs of the lexer: at each character of the answer the lexer is in
  what it was in at that character of the text (`Matched`), or within a delimiter (`Skipping`), since what is
  left out before a newline are blanks and comments, which change nothing (`MatchedAcross`), and
  two characters that make a token together stay together (`SameNext`, `SlashNext`). A comment in the answer would
  therefore be one of the text, and dropped.
- `JoinTreeProofs` proves the four properties of `JoinTree` for clauses of any size and
  nesting, from the facts of `FromClause` about trees. The invariant `IInv` is
  that there are two numbers, of the nodes and of the references begun so far, for
  which the walk is where it has to be: the calls on the stack are nested as their nodes
  (`StackOK`), the references begun are the first ones in source order (`VisitOrder`), each
  with its entry and in its place (`EntriesOK`, `KeysOK`), and each call's `before` parts
  the entries that its nested call appends from those before it (`BeforeOK`). That is the
  hazard of the code: the index is taken before a recursion that appends any number of tables.
  `EntryJoined` then says which join an entry carries, the one of the outermost reference that
  begins with it among those returned. `QualsOK` and `LateralOK` carry the other two.
  Where one would use induction over the tree or the stack, the proofs take the least or the
  greatest member of a set of counterexamples (`LeastElement`).

- `UsageWalkProofs` proves all five properties of `UsageWalk` for clauses of any size, from the
  one assumption of the module, on the form of `Inputs`: that a clause is of a kind the
  code walks, its nodes a tree with the rules of that kind, and that the words of a qualified
  operator are some and do not begin with NOT, which is the predicate's own word.
  Two invariants carry them. For `DepthCountsSubqueries` and `InnerSelectsIgnored`, `IInv`:
  a usage is outside of inner SELECTs because the counter was 0
  when its column was entered. To use this one has to know that the counter is the number of
  open SELECTs (`FrameOK`) and that every node entered and not passed is open
  (`UnderWay`): then no SELECT encloses the column. `FoundOK` carries the
  fact from the listener's list to the usages.
  The other three say that nothing is missing, and so their invariant `JInv` speaks of the
  walks to come as well. Every walk is one that the functions of the clause make
  (`Walks`, `IsWalk`), and has collected what it has passed (`Collected`). The walks
  ahead that have the same listener and role are over nodes apart and in order (`Before`, `Ordered`):
  so the nodes that none of them has (`Settled`) are those recorded
  (`SubqueriesGot`, `ColumnsGot`), and they stand before all that are to come
  (`SettledFirst`), which is why appending keeps the order. The columns of a
  window part are one run of the list of usages, without a gap (`RunOf`), or none while
  its walk is ahead (`WindowsGot`). A comparison is known at every moment
  (`Known`): its walk is to come, or it is recorded, or it is on the way, in the callback of its
  predicate or in the walk made from there (`Pursued`); and no two usages have the same key.
  When no walk is ahead the three properties follow. What the invariant says of the inner
  walk (`IsInner`) is what makes a column found from several callbacks count once.
- `CreateTableProofs` proves `KeysInSourceOrder`, `NullableAsInPostgres` and
  `CommentsOfTheirColumn` for tables of any size over any elements of the form assumed in
  `CreateTable`. The recursive function behind `PlacesOf` is first shown to exist and then
  to find the places of a word, all of them and in order (`PlacesFound`), each by the least number for
  which it would not. The invariant says which keys the elements passed so far have given
  (`KeysIn`, for three kinds; `PrimaryIn`, the first primary key), that
  the comments under a key are those of a column of that name that has been read (`CommentsOK`), and which
  columns have their details (`DetailsOK`). Nullability needs all of it: that the key
  reported is the only one, and that names which fold alike are one column.
- `DdlActionsProofs` proves `OneActionPerItem` for statements with any number of items, and
  `ReplayGivesTheColumns` for every set of `Commands` without DROP NOT NULL, DROP IDENTITY and
  DROP EXPRESSION, which `drop_not_null` shows to be misreported. The invariant `IInv` adds
  to `OneActionPerItem` the shape of the statement (what a command of each kind names, and that flags
  are not mistaken for others) and that actions are about items before `next`: without the latter a
  new action could be about an item that already has one. Each branch of the switch is
  shown to be a step that reports (`Reports`) or passes over (`PassesOver`) the item under way.
  For the replay, `SameEffect` says that the action does to any set of columns what
  the command does; `KindsByWords` tells the commands apart that reach a branch by their words, and
  `TwoFlags` what their flags are. An action appended leaves the replay of those before it alone
  (`ActionAppended`), by the least number for which it would not. `CommentAsWritten` is proved
  for literals of any length and names of any number of identifiers. `Replace` and
  `SplitQuotedDot` are recursive functions, shown to exist first. The text of a literal is a row of
  spellings: from the last unit backwards, halving doubled quotes leaves each unit's spelling
  halved (`DoubledReplaced`), and replacing escapes then leaves the character the unit
  stands for (`EscapesReplaced`); the other
  order would take two escaped quotes for a doubled one. `LiteralDecoded` is the result for each of
  the forms. `NameSplit` reads a name one identifier after another (`ReadUpTo`): no dot in one
  splits it, and after it the loop is outside of quotes. `CommentInv` adds what the statement
  under way is and what of it has been reported.
- `QueryAnalysisProofs` proves `TypeOK`, `EachOnceInOrder` and `ImplementsPromise` for all
  queries, schemas and conditions, from the assumptions of `JoinQuery` that conditions and
  lists are well-formed. The refinement is shown the usual way: an initial state maps to
  an initial state, and every step maps to `Find`, `Reply` or a stutter. That
  `Reply` may happen needs an invariant about all loops (`Progress`): the
  conditions before `i` and the columns before `p` have given what they give,
  and so has every context that is no longer in `contexts`; when the last loop starts, all
  is found. `Deduplicated` says that the answer holds exactly what stands before `i`, each at
  the place where it first stood.

  `ConditionsAsWritten` is proved for filters with names, values and lists of any length, from
  `FiltersAssumption`. Its invariant `FiltersKept` says that the conditions so far are
  those of the filters before `i` that are kept, and in their order; the rest is about
  the data, and by far the longer part. `ValueFound` shows that the first place where the text has the
  operator is the one between column and value (`ValueAfter`, `KeywordAfter`): this is
  where LIKE in a name and a part `in` have to be excluded, and where a second operator in the value does no harm.
  `ListExtracted` shows that the commas of a list are those put between its items, which are all
  found again (`CutsOfList`), and `RangeExtracted` that the first AND is the one
  between the bounds (`BoundsExtracted`), which come back whole unless they have blanks next
  to their quotes (`LosesBlanks`, `OperandTrimmed`). The table of a condition is the last of those that declare its alias (`TableOfAlias`).

Model-checked only: the properties of `DmlClauses` and `QueryScope`. They compare folds
and recursive functions over trees on both sides: a proof would need an induction of
its own for each kind of tree, which has not been attempted. All liveness properties are model-checked only as
well: fairness and ENABLED are beyond the prover.

## Not modelled

- Generated code and the ANTLR runtime: what they hand over is enumerated. The generated
  listeners, visitors and tables are about 18,000 of the 25,000 lines of Go; each rule has
  four callbacks there that do nothing, and no definition stands for them. The map therefore
  covers a small share of all lines, and most of the hand-written ones.
- Options: they select DDL comment extraction (`CreateTable` models it both on and off).
- Logging, error texts and the text of expressions, types, defaults and checks.
- `AnalyzeSQL...` copies a `ParsedQuery` into exported records field by field
  (`analysis/analysis.go`, `types.go`), and `analysis/helpers.go` filters lists of them;
  the two patterns for JSONB access in `where_conditions.go`, which a regular expression finds
  in the text of a comparison and which change the column of a condition.
- `extractFunctionsFromContext` (helpers.go:499) and `extractOperatorFromExpression` (helpers.go:441),
  which guess functions and, outside of filters, operators from the text of an expression.
- `internal/ident`, examples and benchmarks.

## Plan

What is left, in order:

1. Proofs: `TargetAndReadsKnown` and `AssignmentsKnown` of `DmlClauses`.
2. The text-level functions as lemmas where no induction is needed: what `Trim` and
   `DecodeSingleQuoted` return for texts without quotes.
3. The filters of `analysis/helpers.go`, with the rule that unqualified columns belong to the
   only base table.
