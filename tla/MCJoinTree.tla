------------------------------ MODULE MCJoinTree ------------------------------
(* Model values for JoinTree. *)
EXTENDS JoinTree

J(words, qual) == [words |-> words, qual |-> qual]

OuterAndCross == {J("LEFT", "ON"), J("", "USING"), J("CROSS", "none")}

SecondIsCte == {{}, {2}}
===============================================================================
