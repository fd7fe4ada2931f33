----------------------------- MODULE MCQueryScope -----------------------------
(* Model values for QueryScope. *)
EXTENDS QueryScope

R(form, schema, name) == [form |-> form, schema |-> schema, name |-> name]

ArmsOfEach == <<3, 2, 1>>

(* The statement and the SELECTs in it read what the first CTE is named, or *)
(* that in a schema, or by TABLE; the innermost what a second one would be. *)
ReadsOfEach ==
  << {R("select", "", "a"), R("table", "", "a")},
     {R("select", "", "a"), R("select", "s", "a")},
     {R("select", "", "b")} >>
===============================================================================
