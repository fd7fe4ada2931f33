---------------------------- MODULE SelectStatement ----------------------------
(***************************************************************************)
(* The SELECT statements the parser hands to select.go and setops.go, down *)
(* to what scopes are made of: select_no_parens with its WITH clause, the  *)
(* arms of select_clause, and where further SELECTs stand in them.  The    *)
(* SELECTs of a statement are numbered so that each stands in one with a   *)
(* smaller number; 1 is the statement.                                     *)
(***************************************************************************)
EXTENDS Integers, SequencesExt

CONSTANTS
  MaxQueries,   \* bound on the SELECTs of one statement
  MaxArms,      \* MaxArms[q]: bound on the arms of the q-th SELECT
  Reads         \* Reads[q]: what the arms of the q-th SELECT may read, see Relation

ASSUME QueriesAssumption ==
  MaxQueries \in Nat \ {0} /\ MaxArms \in [1..MaxQueries -> Nat \ {0}]

(* The names WITH may bind, in the order it does. *)
CteName == <<"a", "b">>

(* A relation an arm reads: FROM or TABLE, and a name with or without a schema. *)
Relation == [form : {"select", "table"}, schema : {"", "s"}, name : {"a", "b", "t"}]

ASSUME ReadsAssumption == Reads \in [1..MaxQueries -> SUBSET Relation]

(* Where in an arm of the outer one a SELECT stands: it is the body of a   *)
(* CTE, a derived table in FROM, a sub-select of the select list or of     *)
(* WHERE, or the whole arm, in parentheses.                                *)
Slots == {"body", "from", "list", "where", "arm"}

Place == [outer : 0..MaxQueries, arm : Nat, slot : Slots \cup {"statement"}]

TheStatement == [outer |-> 0, arm |-> 1, slot |-> "statement"]

Queries(s) == DOMAIN s.place
Arms(s, q) == DOMAIN s.op[q]

(* The SELECTs in one slot of an arm, in source order. *)
InSlot(s, q, k, slot) == {c \in Queries(s) : s.place[c] = [outer |-> q, arm |-> k, slot |-> slot]}

(* The bodies of the WITH clause of q. *)
Bodies(s, q) == InSlot(s, q, 1, "body")

IsParenthesised(s, q, k) == InSlot(s, q, k, "arm") # {}

(* The SELECT in parentheses that is an arm. *)
InParentheses(s, q, k) == CHOOSE c \in Queries(s) : c \in InSlot(s, q, k, "arm")

(* An arm reads its relation unless it is a SELECT in parentheses; one with *)
(* other SELECTs in it is no TABLE.                                         *)
ReadsRelation(s, q, k) == ~IsParenthesised(s, q, k)

IsTable(s, q, k) ==
  /\ s.reads[q].form = "table" /\ ReadsRelation(s, q, k)
  /\ \A slot \in {"from", "list", "where"} : InSlot(s, q, k, slot) = {}

(* Any other arm is a SELECT, with a WHERE clause that has one comparison of its own. *)
IsSelect(s, q, k) == ReadsRelation(s, q, k) /\ ~IsTable(s, q, k)

(* The arms are joined by operators; "" stands before the first. *)
Operators(n) ==
  {op \in SeqOf({"", "UNION", "INTERSECT"}, n) : op # << >> /\ \A k \in DOMAIN op : op[k] = "" <=> k = 1}

(* The grammar's order of the slots of an arm; WITH comes before the arms. *)
Rank(place) ==
  CASE place.slot = "body" -> 0
    [] place.slot = "list" -> 4 * place.arm + 1
    [] place.slot = "from" -> 4 * place.arm + 2
    [] place.slot = "where" -> 4 * place.arm + 3
    [] OTHER -> 4 * place.arm

(* Every SELECT but the first stands in an earlier one, at an arm that is   *)
(* there, those of one SELECT in source order; an arm in parentheses holds  *)
(* one SELECT and nothing else; there are names for two CTEs.               *)
PlacesAllowed(op, place) ==
  /\ place[1] = TheStatement
  /\ \A q \in DOMAIN place \ {1} :
       /\ place[q].outer \in 1..q - 1 /\ place[q].arm \in DOMAIN op[place[q].outer]
       /\ place[q].slot = "body" => place[q].arm = 1
       /\ \A p \in 2..q - 1 :
            place[p].outer = place[q].outer =>
              /\ Rank(place[p]) <= Rank(place[q])
              /\ place[p].arm = place[q].arm /\ "arm" \in {place[p].slot, place[q].slot} =>
                   "body" \in {place[p].slot, place[q].slot}
  /\ \A q \in DOMAIN place : Cardinality({c \in DOMAIN place : place[c].outer = q /\ place[c].slot = "body"}) <= 2

(* The statements, written so that TLC can enumerate them.  A statement and *)
(* the body of a CTE may stand in parentheses, as every other SELECT does;  *)
(* `wrapped` has those that do and have a WITH clause of their own.         *)
IsSelectStatement(s) ==
  \E n \in 1..MaxQueries :
    \E op \in {f \in [1..n -> Operators(Max(Range(MaxArms)))] : \A q \in 1..n : Len(f[q]) <= MaxArms[q]} :
    LET arms   == 1..Max({Len(op[q]) : q \in 1..n})
        places == {<<TheStatement>> \o p : p \in [1..n - 1 -> [outer : 1..n, arm : arms, slot : Slots]]} IN
    \E place \in {p \in places : PlacesAllowed(op, p)} :
    \E reads \in {f \in [1..n -> {r \in Relation : \E q \in 1..n : r \in Reads[q]}] : \A q \in 1..n : f[q] \in Reads[q]} :
    \E wrapped \in SUBSET {q \in 1..n : /\ place[q].slot \in {"statement", "body"}
                                        /\ \E c \in 1..n : place[c].outer = q /\ place[c].slot = "body"} :
      s = [op |-> op, place |-> place, reads |-> reads, wrapped |-> wrapped]

================================================================================
