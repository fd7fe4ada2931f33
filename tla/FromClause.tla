------------------------------ MODULE FromClause ------------------------------
(***************************************************************************)
(* The FROM clauses the parser hands to select.go: from_list and table_ref *)
(* of grammar/PostgreSQLParser.g4.  The table_ref nodes are numbered in    *)
(* source order; each is nested directly in its parent, 0 for an item of   *)
(* the from_list.                                                          *)
(***************************************************************************)
EXTENDS Integers, Sequences, FiniteSets

CONSTANTS
  MaxRefs,      \* bound on the table_ref nodes of one clause
  Kinds,        \* the alternatives of table_ref in use
  Joins         \* the ways of joining in use, see Join

ASSUME MaxRefsAssumption == MaxRefs \in Nat

AllKinds == {"relation", "function", "subquery", "xmltable", "paren"}

ASSUME KindsAssumption == Kinds \subseteq AllKinds

(* How a table_ref is joined to what is left of it: the words before JOIN  *)
(* ("" for none) and the join_qual after it.                               *)
Join == [words : {"", "LEFT", "CROSS", "NATURAL", "NATURAL LEFT"}, qual : {"none", "ON", "USING"}]

Unqualified(words) == words \in {"CROSS", "NATURAL", "NATURAL LEFT"}

ASSUME JoinsAssumption ==
  /\ Joins \subseteq Join
  /\ \A j \in Joins : j.qual = "none" <=> Unqualified(j.words)

NoJoin == [words |-> "", qual |-> "none"]

(* The tables subqueries read; 1 is also what the first reference names.   *)
InnerNames == {1, MaxRefs + 1}

From == UNION {
  [ parent   : [1..n -> 0..n - 1],
    kind     : [1..n -> Kinds],
    join     : [1..n -> Joins \cup {NoJoin}],
    cteNames : SUBSET (1..n),        \* the references that name a CTE
    inner    : [1..n -> InnerNames] ] : n \in 1..MaxRefs}

RefsIn(from) == DOMAIN from.parent

(* AllTable_ref() of a node, or the items of the from_list for 0. *)
Nested(from, p) == {m \in RefsIn(from) : from.parent[m] = p}

(* The references that lie in each other: with each one what it is nested in. *)
UpwardClosed(from, S) == \A k \in S : from.parent[k] # 0 => from.parent[k] \in S

(* What m lies in: what no such set that holds m can do without. *)
Ancestors(from, m) ==
  {a \in RefsIn(from) \ {m} : \A S \in SUBSET RefsIn(from) : m \in S /\ UpwardClosed(from, S) => a \in S}

(* The base table inside parentheses; it is the first one nested. *)
InParens(from, m) ==
  from.parent[m] # 0 /\ from.kind[from.parent[m]] = "paren" /\ m = from.parent[m] + 1

(* Nodes are numbered as in a parse in source order: what begins after a   *)
(* reference and before one nested in it lies in it too.                   *)
SourceOrder(from) ==
  \A m \in RefsIn(from) :
    /\ from.parent[m] < m
    /\ \A k \in from.parent[m] + 1..m - 1 : from.parent[k] >= from.parent[m]

ParensFilled(from) == \A m \in RefsIn(from) : from.kind[m] = "paren" => m + 1 \in Nested(from, m)

(* The references that are joined to what is left of them. *)
Joined(from) == {m \in RefsIn(from) : from.parent[m] # 0 /\ ~InParens(from, m)}

(* The innermost table_ref takes every join it can: after a join without a *)
(* qualification nothing is left for the outer one.                        *)
InnermostFirst(from) ==
  \A m \in RefsIn(from) :
    from.join[m] # NoJoin /\ from.join[m].qual = "none" =>
      \A k \in Nested(from, from.parent[m]) : k <= m

(* All functions on S that are `otherwise` outside of T. *)
Padded(S, T, values, otherwise) ==
  {[m \in S |-> IF m \in T THEN f[m] ELSE otherwise] : f \in [T -> values]}

(* The clauses of From that the grammar derives, written so that TLC can enumerate them. *)
IsFromClause(from, cteChoices) ==
  \E n \in 1..MaxRefs :
  \E parent \in {p \in [1..n -> 0..n - 1] : SourceOrder([parent |-> p])} :
  \E kind \in {k \in [1..n -> Kinds] : ParensFilled([parent |-> parent, kind |-> k])} :
    LET relations  == {m \in 1..n : kind[m] = "relation"}
        subqueries == {m \in 1..n : kind[m] = "subquery"}
        joined     == Joined([parent |-> parent, kind |-> kind])
        joins      == {j \in Padded(1..n, joined, Joins, NoJoin) :
                         InnermostFirst([parent |-> parent, join |-> j])} IN
    \E join \in joins, ctes \in {c \in cteChoices : c \subseteq relations},
       inner \in Padded(1..n, subqueries, InnerNames, 1) :
      from = [parent |-> parent, kind |-> kind, join |-> join, cteNames |-> ctes, inner |-> inner]

===============================================================================
