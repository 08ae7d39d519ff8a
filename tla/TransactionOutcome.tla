--------------------------- MODULE TransactionOutcome --------------------------
(***************************************************************************)
(* What a transaction of oxmysql promises the resource that asked for it,  *)
(* with MySQL.startTransaction (src/fivem/index.ts) and MySQL.transaction  *)
(* (src/worker/database/rawTransaction.ts) alike.  The statements of a     *)
(* transaction become durable together or not at all, at most once, and a  *)
(* caller that is told "false" has had, and will have, nothing written.    *)
(***************************************************************************)
CONSTANTS Txn,        \* the transactions of one run
          Statement,  \* their statements
          Of(_)      \* the statements of a transaction

VARIABLES durable,    \* the statements whose effect is committed
          told        \* per transaction: "none", "true", "false" or "threw"

vars == <<durable, told>>

Init == durable = {} /\ told = [t \in Txn |-> "none"]

Written(t) == durable \cap Of(t)

\* The death of the worker may leave several commits done at once.
Commit == /\ durable' \in SUBSET Statement
          /\ durable \subseteq durable'
          /\ \A t \in Txn : durable' \cap Of(t) # Written(t) =>
                Written(t) = {} /\ told[t] # "false"
          /\ UNCHANGED told

Tell(t) == /\ told[t] = "none"
           /\ \/ told' = [told EXCEPT ![t] = "true"]
              \/ told' = [told EXCEPT ![t] = "threw"]
              \/ Written(t) = {} /\ told' = [told EXCEPT ![t] = "false"]
           /\ UNCHANGED durable

Next == Commit \/ \E t \in Txn : Tell(t)

Spec == Init /\ [][Next]_vars
================================================================================
