------------------------------- MODULE MCQueryLog ------------------------------
(***************************************************************************)
(* An instance of QueryLog for TLC: two resources, pages of two entries.   *)
(***************************************************************************)
EXTENDS QueryLog

Resources == {"police", "shop"}
Samples == {[text |-> 1, time |-> 2], [text |-> 2, time |-> 1]}
Searches == ("" :> {1, 2}) @@ ("a" :> {1})
Sorts == {None, [id |-> "executionTime", desc |-> FALSE], [id |-> "query", desc |-> TRUE]}
LogSizes == {1, 2}
================================================================================
