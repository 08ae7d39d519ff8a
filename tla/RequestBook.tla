------------------------------ MODULE RequestBook ------------------------------
(***************************************************************************)
(* What the parent thread may rely on when it asks the worker for          *)
(* something, whatever the worker does: the contract src/fivem/channel.ts  *)
(* states in its header.  A call is open from the moment it is asked until *)
(* it is answered by the worker or failed by the book, and it is closed    *)
(* exactly once.  The book may fail an open call only for one of two       *)
(* reasons: the call has a timeout, or the worker is gone.                 *)
(***************************************************************************)
CONSTANTS Call,        \* the calls of send() in one life of the resource
          Timed,       \* those whose effective timeout is positive
          Unclonable   \* those whose data postMessage refuses to clone

VARIABLES status,      \* per call: "idle", "open", "answered" or "failed"
          serviceUp    \* FALSE once the worker thread is gone

vars == <<status, serviceUp>>

TypeOK == /\ status \in [Call -> {"idle", "open", "answered", "failed"}]
          /\ serviceUp \in BOOLEAN

Init == /\ status = [c \in Call |-> "idle"]
        /\ serviceUp = TRUE

Move(c, from, to) == /\ status[c] = from
                     /\ status' = [status EXCEPT ![c] = to]
                     /\ UNCHANGED serviceUp

Ask(c) == Move(c, "idle", "open")

\* A call that never reaches the worker.
Refuse(c) == /\ c \in Unclonable \/ ~serviceUp
             /\ Move(c, "idle", "failed")

Answer(c) == Move(c, "open", "answered")

Fail(c) == /\ c \in Timed \/ ~serviceUp
           /\ Move(c, "open", "failed")

ServiceStops == /\ serviceUp
                /\ serviceUp' = FALSE
                /\ UNCHANGED status

Next == \/ \E c \in Call : Ask(c) \/ Refuse(c) \/ Answer(c) \/ Fail(c)
        \/ ServiceStops

Fairness == \A c \in Call : WF_vars(Fail(c))

\* The safety half, which the proofs use, and the whole contract.
SafeSpec == Init /\ [][Next]_vars
Spec == SafeSpec /\ Fairness
================================================================================
