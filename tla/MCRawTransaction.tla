---------------------------- MODULE MCRawTransaction ---------------------------
(***************************************************************************)
(* Instances of RawTransaction for TLC.  Two texts that are batched and    *)
(* one that is not; lists long enough for a group of more than one chunk   *)
(* and for a window of the profiler that is flushed within the list.       *)
(***************************************************************************)
EXTENDS RawTransaction

CONSTANTS insert, update, create

Texts == {insert, update, create}
BatchedTexts == {insert, update}

\* A batch fails with nothing done, or at a row that is rejected anyway.
CleanFaults == {"parse", "acquire", "begin", "row", "lost", "end", "deadlock", "bulk"}
DeadlockFaults == {"bulkDeadlock"}
================================================================================
