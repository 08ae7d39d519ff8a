------------------------------ MODULE MCBootstrap ------------------------------
(***************************************************************************)
(* Instances of Bootstrap for TLC: two queries, two configurations, a      *)
(* database that may be up or down at start and go away once.              *)
(***************************************************************************)
EXTENDS Bootstrap, TLC

CONSTANTS q1, q2, defaults, changed
Queries == {q1, q2}
Configs == {defaults, changed}
================================================================================
