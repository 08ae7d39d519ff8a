----------------------------- MODULE WorkerChannel -----------------------------
(***************************************************************************)
(* src/fivem/channel.ts: the parent's book of pending requests, with the   *)
(* worker thread it talks to (worker.ts handleIncoming) and the ways that  *)
(* thread can end.                                                         *)
(*                                                                         *)
(* The parent is one JavaScript thread: a message, a timer or the exit     *)
(* event is a turn that runs to completion.  One turn is not atomic here:  *)
(* handleExit and the timeout callback call onSynthesizedError, which      *)
(* emits the FiveM event oxmysql:error synchronously, and a handler of     *)
(* that event may call send again before the loop has settled the rest.    *)
(* So entries taken out of the book wait in synth until their turn, and    *)
(* while synth is not empty only re-entrant sends run on the parent.       *)
(*                                                                         *)
(* Messages in flight are sets: ids never repeat and no property here      *)
(* depends on the order of two requests (StartTransaction keeps order).    *)
(*                                                                         *)
(* A definition named Slip... is a faulty variant of the one that follows  *)
(* it, kept to test that a property notices it; no specification uses it.  *)
(***************************************************************************)
EXTENDS Naturals, FiniteSets

CONSTANTS Call,        \* the calls of send() in one life of the resource
          Timed,       \* the calls with effectiveTimeout > 0
          Unclonable,  \* the calls whose data structured clone refuses
          NoCall       \* the "of" field of an answer no worker computed

ASSUME CallAssumption == /\ Timed \subseteq Call
                         /\ Unclonable \subseteq Call
                         /\ NoCall \notin Call

VARIABLES sent,        \* the calls made so far
          answer,      \* what each call's promise is settled with
          settles,     \* how often each call's entry.settle ran
          nextId,      \* channel.nextId
          exited,      \* channel.exited
          pending,     \* channel.pending: its entries, by id
          timers,      \* the ids whose setTimeout is armed
          synth,       \* entries out of the book, not yet settled this turn
          workerUp,    \* the worker thread runs
          inbox,       \* requests posted, not yet taken by the worker
          serving,     \* requests the worker is handling
          outbox       \* responses posted, not yet received by the parent

parent == <<sent, answer, settles, nextId, exited, pending, timers, synth>>
worker == <<workerUp, inbox, serving, outbox>>
vars == <<sent, answer, settles, nextId, exited, pending, timers, synth,
          workerUp, inbox, serving, outbox>>

Kinds == {"none", "reply", "timeout", "exit", "undispatched", "rejected"}

NoAnswer == [kind |-> "none", of |-> NoCall]
Reply(d) == [kind |-> "reply", of |-> d]
SlipReasonLost(k) == [kind |-> "error", of |-> NoCall]
Error(k) == [kind |-> k, of |-> NoCall]

\* A book entry and the message that carries its id; "call" in a message
\* stands for the action and data, and in a response for what the worker
\* computed from them.
Entry == [id : Nat, call : Call]

\* An entry on its way to be settled, with the reason.
Doomed == [id : Nat, call : Call, why : {"timeout", "exit"}]

TypeOK == /\ sent \subseteq Call
          /\ answer \in [Call -> [kind : Kinds, of : Call \cup {NoCall}]]
          /\ settles \in [Call -> Nat]
          /\ nextId \in Nat
          /\ exited \in BOOLEAN
          /\ pending \subseteq Entry
          /\ timers \subseteq Nat
          /\ synth \subseteq Doomed
          /\ workerUp \in BOOLEAN
          /\ inbox \subseteq Entry
          /\ serving \subseteq Entry
          /\ outbox \subseteq Entry

Init == /\ sent = {}
        /\ answer = [c \in Call |-> NoAnswer]
        /\ settles = [c \in Call |-> 0]
        /\ nextId = 0
        /\ exited = FALSE
        /\ pending = {}
        /\ timers = {}
        /\ synth = {}
        /\ workerUp = TRUE
        /\ inbox = {}
        /\ serving = {}
        /\ outbox = {}

\* Resolving or rejecting a promise: only the first one counts.
Settled(c, a) == IF answer[c] = NoAnswer THEN [answer EXCEPT ![c] = a] ELSE answer

-----------------------------------------------------------------------------
(* The parent *)

SendAfterExit(c) ==
    /\ c \notin sent
    /\ exited
    /\ sent' = sent \cup {c}
    /\ answer' = Settled(c, Error("undispatched"))
    /\ UNCHANGED <<settles, nextId, exited, pending, timers, synth, worker>>

\* The entry is in the book and its timer armed before postMessage, so when
\* the clone fails the promise rejects and the entry stays behind.
Post(c, id, arm) ==
    LET e == [id |-> id, call |-> c] IN
    /\ c \notin sent
    /\ sent' = sent \cup {c}
    /\ nextId' = nextId + 1
    /\ pending' = pending \cup {e}
    /\ timers' = IF arm THEN timers \cup {id} ELSE timers
    /\ \/ /\ c \notin Unclonable
          /\ inbox' = IF workerUp THEN inbox \cup {e} ELSE inbox
          /\ UNCHANGED answer
       \/ /\ c \in Unclonable
          /\ answer' = Settled(c, Error("rejected"))
          /\ UNCHANGED inbox
    /\ UNCHANGED <<settles, exited, synth, workerUp, serving, outbox>>

SlipIdReused(c) == ~exited /\ Post(c, Cardinality(pending), c \in Timed)
SlipExitUnchecked(c) == Post(c, nextId, c \in Timed)
SlipNoTimer(c) == ~exited /\ Post(c, nextId, FALSE)
SlipZeroArms(c) == ~exited /\ Post(c, nextId, TRUE)

Send(c) == ~exited /\ Post(c, nextId, c \in Timed)

SlipTimerNotCleared(m) ==
    /\ synth = {}
    /\ m \in outbox
    /\ outbox' = outbox \ {m}
    /\ \E e \in pending :
          /\ e.id = m.id
          /\ pending' = pending \ {e}
          /\ answer' = Settled(e.call, Reply(m.call))
          /\ settles' = [settles EXCEPT ![e.call] = @ + 1]
    /\ UNCHANGED <<sent, nextId, exited, timers, synth, workerUp, inbox, serving>>

\* deliver: a response whose id is not in the book is dropped.
Deliver(m) ==
    /\ synth = {}
    /\ m \in outbox
    /\ outbox' = outbox \ {m}
    /\ \/ \E e \in pending :
             /\ e.id = m.id
             /\ timers' = timers \ {e.id}
             /\ pending' = pending \ {e}
             /\ answer' = Settled(e.call, Reply(m.call))
             /\ settles' = [settles EXCEPT ![e.call] = @ + 1]
       \/ /\ \A e \in pending : e.id # m.id
          /\ UNCHANGED <<timers, pending, answer, settles>>
    /\ UNCHANGED <<sent, nextId, exited, synth, workerUp, inbox, serving>>

SlipEntryKept(i) ==
    /\ synth = {}
    /\ i \in timers
    /\ timers' = timers \ {i}
    /\ synth' = {[id |-> e.id, call |-> e.call, why |-> "timeout"] :
                    e \in {f \in pending : f.id = i}}
    /\ UNCHANGED <<sent, answer, settles, nextId, exited, pending, worker>>

\* The setTimeout callback of send, up to its report.
TimerFires(i) ==
    /\ synth = {}
    /\ i \in timers
    /\ timers' = timers \ {i}
    /\ pending' = {e \in pending : e.id # i}
    /\ synth' = {[id |-> e.id, call |-> e.call, why |-> "timeout"] :
                    e \in {f \in pending : f.id = i}}
    /\ UNCHANGED <<sent, answer, settles, nextId, exited, worker>>

SlipDrainAfterClear ==
    /\ synth = {}
    /\ ~workerUp
    /\ ~exited
    /\ exited' = TRUE
    /\ pending' = {}
    /\ UNCHANGED <<sent, answer, settles, nextId, timers, synth, worker>>

\* handleExit, up to its loop: the flag goes up and the book is emptied first.
HandleExit ==
    /\ synth = {}
    /\ ~workerUp
    /\ ~exited
    /\ exited' = TRUE
    /\ synth' = {[id |-> e.id, call |-> e.call, why |-> "exit"] : e \in pending}
    /\ pending' = {}
    /\ UNCHANGED <<sent, answer, settles, nextId, timers, worker>>

\* One iteration of the exit loop, or the rest of the timeout callback:
\* clear the timer, report, settle.
SettleNext(e) ==
    /\ e \in synth
    /\ synth' = synth \ {e}
    /\ timers' = timers \ {e.id}
    /\ answer' = Settled(e.call, Error(e.why))
    /\ settles' = [settles EXCEPT ![e.call] = @ + 1]
    /\ UNCHANGED <<sent, nextId, exited, pending, worker>>

-----------------------------------------------------------------------------
(* The worker thread *)

Take(m) ==
    /\ workerUp
    /\ m \in inbox
    /\ inbox' = inbox \ {m}
    /\ serving' = serving \cup {m}
    /\ UNCHANGED <<parent, workerUp, outbox>>

\* handleIncoming answers a request once, from dispatch or from its catch.
Respond(m) ==
    /\ workerUp
    /\ m \in serving
    /\ serving' = serving \ {m}
    /\ outbox' = outbox \cup {m}
    /\ UNCHANGED <<parent, workerUp, inbox>>

\* A fatal error, process.exit or terminate: what was not posted is lost,
\* and so may be any part of what was.
WorkerDies ==
    /\ workerUp
    /\ workerUp' = FALSE
    /\ inbox' = {}
    /\ serving' = {}
    /\ outbox' \in SUBSET outbox
    /\ UNCHANGED parent

-----------------------------------------------------------------------------
Next == \/ \E c \in Call : SendAfterExit(c) \/ Send(c)
        \/ \E m \in outbox : Deliver(m)
        \/ \E i \in timers : TimerFires(i)
        \/ HandleExit
        \/ \E e \in synth : SettleNext(e)
        \/ \E m \in inbox : Take(m)
        \/ \E m \in serving : Respond(m)
        \/ WorkerDies

\* Node runs armed timers, finishes a turn it started and emits the exit
\* event.  Nothing makes the worker answer: a query may wait for a pool that
\* never opens.
Fairness == /\ WF_vars(\E i \in timers : TimerFires(i))
            /\ WF_vars(\E e \in synth : SettleNext(e))
            /\ WF_vars(HandleExit)

SafeSpec == Init /\ [][Next]_vars
Spec == SafeSpec /\ Fairness

-----------------------------------------------------------------------------
(* Properties *)

Waiting(c) == c \in sent /\ answer[c] = NoAnswer

\* A reply reaches the call it was computed for, even when the book has
\* meanwhile dropped that call and given out newer ids.
AnswersMatch == \A c \in Call : answer[c].kind = "reply" => answer[c].of = c

\* No entry is settled twice: of the response, the timeout and the exit
\* handler, whichever takes the entry out of the book is the only one.
SettledAtMostOnce == \A c \in Call : settles[c] <= 1

\* A call nobody has answered is still in the book or in the turn that is
\* settling it; the exit handler leaves no entry behind and no later send
\* adds one, so no caller waits on a worker that is gone.
NoCallIsForgotten ==
    /\ \A c \in Call : Waiting(c) => \E e \in pending \cup synth : e.call = c
    /\ exited => pending = {}

\* Every entry with a timeout has its timer armed, and no timer outlives its
\* entry.
TimersFollowBook ==
    /\ \A e \in pending : e.call \in Timed <=> e.id \in timers
    /\ \A i \in timers : \E e \in pending \cup synth : e.id = i

\* With a timeout every call is settled, whatever the worker does.
TimedCallsSettle == \A c \in Timed : Waiting(c) ~> ~Waiting(c)

\* Once the worker is gone every call is settled, with or without a timeout.
ExitSettlesAll == \A c \in Call : (Waiting(c) /\ ~workerUp) ~> ~Waiting(c)

\* How far a call has come, in the terms of RequestBook.
Status == [c \in Call |->
             CASE c \notin sent -> "idle"
               [] c \in sent /\ answer[c].kind = "none" -> "open"
               [] c \in sent /\ answer[c].kind = "reply" -> "answered"
               [] OTHER -> "failed"]

Book == INSTANCE RequestBook WITH status <- Status, serviceUp <- workerUp

\* The channel keeps the contract of RequestBook, its liveness included.
ImplementsBook == Book!Spec
================================================================================
