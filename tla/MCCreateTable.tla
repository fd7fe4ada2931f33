---------------------------- MODULE MCCreateTable ----------------------------
(* Table elements for CreateTable. *)
EXTENDS CreateTable

Names == {[letters |-> "a", quoted |-> FALSE], [letters |-> "A", quoted |-> FALSE],
          [letters |-> "a", quoted |-> TRUE], [letters |-> "A", quoted |-> TRUE]}

Lower == [letters |-> "a", quoted |-> FALSE]
Upper == [letters |-> "A", quoted |-> TRUE]

Element(kind, names, quals, hidden) == [kind |-> kind, names |-> names, quals |-> quals, hidden |-> hidden]

(* Every spelling, with keys inline, for the table, twice and not at all. *)
KeyElements ==
  {Element("column", <<n>>, q, << >>) : n \in Names,
     q \in {<< >>, <<"PRIMARY KEY">>, <<"REFERENCES", "NOT NULL", "UNIQUE">>, <<"REFERENCES", "CHECK", "REFERENCES">>}}
  \cup {Element("PRIMARY KEY", <<n>>, << >>, << >>) : n \in Names}
  \cup {Element("PRIMARY KEY", <<Upper, Lower>>, << >>, << >>), Element("FOREIGN KEY", <<Lower>>, << >>, << >>),
        Element("UNIQUE", << >>, << >>, << >>), Element("LIKE", << >>, << >>, << >>)}

(* Spellings of two columns, with comments in front, and constraints between them. *)
Folded == [letters |-> "A", quoted |-> FALSE]

CommentElements ==
  {Element("column", <<n>>, << >>, h) : n \in {Lower, Folded, Upper}, h \in {<<"bare">>, <<"line", "block", "line">>}}
  \cup {Element("UNIQUE", <<Lower>>, << >>, <<"line">>), Element("LIKE", << >>, << >>, <<"line">>)}

AllElements == KeyElements \cup CommentElements
==============================================================================
