-------------------------------- MODULE Ordering --------------------------------
(* Sets of numbers as the sequences of their elements from the least to the greatest. *)
EXTENDS Integers, FiniteSets

FromLeast(S) ==
  [k \in 1..Cardinality(S) |-> CHOOSE x \in S : Cardinality({y \in S : y <= x}) = k]
=================================================================================
