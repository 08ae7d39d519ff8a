--------------------------- MODULE MCStartTransaction --------------------------
(***************************************************************************)
(* Instances of StartTransaction for TLC: two transactions that compete    *)
(* for connections.                                                        *)
(***************************************************************************)
EXTENDS StartTransaction, TLC

CONSTANTS t1, t2, k1, k2
Transactions == {t1, t2}
Threads == {k1, k2}

\* Every fault but one; the faults under which every connection has an end;
\* and one fault alone.
AllButStray == {"begin", "query", "deadlock", "end", "request", "death"}
OrderlyFaults == {"query", "deadlock", "end", "death", "stray"}
BeginFaults == {"begin"}
StrayCallbacks == {"stray"}

Interchangeable == Permutations(Transactions) \cup Permutations(Threads)
================================================================================
