--------------------------------- MODULE Texts ---------------------------------
(* Texts as sequences of characters, or of words where their letters do not *)
(* matter, and what package strings does to their ends.                     *)
EXTENDS Integers, SequencesExt, FiniteSetsExt

Space == " "

Blanks == {Space, "\n"}

(* strings.Trim. *)
Trim(text, cut) ==
  LET kept == {i \in DOMAIN text : text[i] \notin cut} IN
  IF kept = {} THEN << >> ELSE SubSeq(text, Min(kept), Max(kept))

(* strings.TrimSpace. *)
TrimSpace(text) == Trim(text, Blanks)

(* Texts with something between them. *)
Joined(texts, between) ==
  FlattenSeq([i \in DOMAIN texts |-> IF i = 1 THEN texts[i] ELSE between \o texts[i]])

================================================================================
