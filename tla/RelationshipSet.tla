---------------------------- MODULE RelationshipSet ----------------------------
(***************************************************************************)
(* What ExtractQueryAnalysisWithSchema promises of JoinRelationships: the  *)
(* relationships that the conditions give are found one by one, in any     *)
(* order, and the answer has all of them, each once.                       *)
(***************************************************************************)
EXTENDS Functions

CONSTANTS
  Queries,       \* the queries
  Derivable(_)   \* the relationships the conditions of a query give

VARIABLES
  query,   \* the query
  found,   \* the relationships found so far
  reply    \* the answer, << >> before there is one

Init == query \in Queries /\ found = {} /\ reply = << >>

Find ==
  /\ \E r \in Derivable(query) \ found : found' = found \cup {r}
  /\ UNCHANGED <<query, reply>>

Reply ==
  /\ found = Derivable(query)
  /\ Range(reply') = found /\ IsInjective(reply')
  /\ UNCHANGED <<query, found>>

Next == Find \/ Reply

Spec == Init /\ [][Next]_<<query, found, reply>>

================================================================================
