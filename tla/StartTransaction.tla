---------------------------- MODULE StartTransaction ---------------------------
(***************************************************************************)
(* MySQL.startTransaction: the parent's coroutine (src/fivem/index.ts),    *)
(* the worker's three handlers (src/worker/database/startTransaction.ts),  *)
(* the connection wrapper they share (connection.ts), the connection pool  *)
(* and the database sessions behind it.                                    *)
(*                                                                         *)
(* The caller's callback issues queries through queryFn, awaited or not,   *)
(* and ends whenever it likes; the 30 second timer, a request timeout or   *)
(* the death of the worker may come between any two of these steps.        *)
(* Messages keep their order both ways.  Which request a response belongs  *)
(* to is WorkerChannel's business: here a request is named by what it is.  *)
(*                                                                         *)
(* A definition named Slip... is a faulty variant of the one that follows  *)
(* it, kept to test that a property notices it; no specification uses it.  *)
(***************************************************************************)
EXTENDS Naturals, Sequences, FiniteSets

CONSTANTS Txn,        \* the calls of startTransaction
          MaxQueries, \* bound: queryFn calls per transaction
          Conn,       \* the thread ids the server may hand out
          PoolSize,   \* connectionLimit of the pool
          Propagate,  \* mysql_start_transaction_propagate_errors
          Faults,     \* what may go wrong in this instance, see below
          NoTxn,      \* the holder of a connection nobody holds
          NoConn      \* the connectionId of a transaction without one

\* "begin": acquiring a connection or BEGIN may fail; "query": a query may
\* fail alone; "deadlock": the server may end a query by rolling the whole
\* transaction back; "end": COMMIT or ROLLBACK may fail; "request": requests
\* have a timeout (mysql_request_timeout_ms > 0); "death": the worker may
\* exit; "stray": a callback may call queryFn after it has ended.
FaultKinds == {"begin", "query", "deadlock", "end", "request", "death", "stray"}

ASSUME StartTransactionAssumption ==
    /\ MaxQueries \in Nat /\ PoolSize \in Nat \ {0}
    /\ Propagate \in BOOLEAN /\ Faults \subseteq FaultKinds
    /\ NoTxn \notin Txn /\ NoConn \notin Conn

VARIABLES phase,      \* where the coroutine of each transaction is
          connOf,     \* its connectionId
          aborted,    \* transactions whose AbortController is aborted
          finalized,  \* transactions whose finalize() has run
          verdict,    \* its local "commit"
          told,       \* what startTransaction returned
          asked,      \* what each queryFn call came to
          open,       \* requests the channel has pending
          exited,     \* the channel saw the worker's exit
          inbox,      \* messages to the worker, in order
          outbox,     \* messages to the parent, in order
          workerUp,   \* the worker thread runs
          acquiring,  \* transactions waiting in pool.getConnection
          starting,   \* connections with BEGIN in flight
          holder,     \* activeConnections: the transaction of each wrapper
          closed,     \* wrappers marked closed
          running,    \* the queries in flight on each connection
          enders,     \* endTransaction handlers under way
          slot,       \* the pool's view of each connection
          inTxn,      \* sessions with an open transaction
          work,       \* statements done in each session's open transaction
          durable,    \* statements committed
          applied,    \* history: statements the server has executed
          undone      \* history: queries the server ended by rolling their
                      \* transaction back

parentVars == <<phase, connOf, aborted, finalized, verdict, told, asked, open, exited>>
workerVars == <<acquiring, starting, holder, closed, running, enders>>
serverVars == <<inTxn, work, durable, applied, undone>>
vars == <<phase, connOf, aborted, finalized, verdict, told, asked, open, exited,
          inbox, outbox, workerUp, acquiring, starting, holder, closed, running,
          enders, slot, inTxn, work, durable, applied, undone>>

Query == Txn \X (1 .. MaxQueries)
Of(t) == {t} \X (1 .. MaxQueries)

\* Requests, by what they are.
BeginOf(t) == <<"beginTransaction", t, 0>>
QueryOf(q) == <<"transactionQuery", q[1], q[2]>>
EndOf(t) == <<"endTransaction", t, 0>>
Request == {BeginOf(t) : t \in Txn} \cup {QueryOf(q) : q \in Query} \cup {EndOf(t) : t \in Txn}

Message == [req : Request, conn : Conn \cup {NoConn}, commit : BOOLEAN, wants : BOOLEAN]
Response == [req : Request, ok : BOOLEAN, conn : Conn \cup {NoConn}]

\* An endTransaction handler: waiting in waitUntilIdle, or with its COMMIT
\* or ROLLBACK in flight.
Ender == [txn : Txn, conn : Conn, commit : BOOLEAN, wants : BOOLEAN,
          stage : {"waiting", "finishing"}]

TypeOK == /\ phase \in [Txn -> {"idle", "beginning", "running", "ending", "done"}]
          /\ connOf \in [Txn -> Conn \cup {NoConn}]
          /\ aborted \subseteq finalized /\ finalized \subseteq Txn
          /\ verdict \in [Txn -> BOOLEAN]
          /\ told \in [Txn -> {"none", "true", "false", "threw"}]
          /\ asked \in [Query -> {"new", "sent", "ok", "failed", "aborted"}]
          /\ open \subseteq Request
          /\ exited \in BOOLEAN /\ workerUp \in BOOLEAN
          /\ inbox \in Seq(Message)
          /\ outbox \in Seq(Response)
          /\ acquiring \subseteq Txn
          /\ starting \subseteq Conn /\ closed \subseteq Conn /\ inTxn \subseteq Conn
          /\ holder \in [Conn -> Txn \cup {NoTxn}]
          /\ running \in [Conn -> SUBSET Query]
          /\ enders \subseteq Ender
          /\ slot \in [Conn -> {"unopened", "idle", "held", "destroyed"}]
          /\ work \in [Conn -> SUBSET Query]
          /\ durable \subseteq Query /\ applied \subseteq Query /\ undone \subseteq Query

Init == /\ phase = [t \in Txn |-> "idle"]
        /\ connOf = [t \in Txn |-> NoConn]
        /\ aborted = {} /\ finalized = {}
        /\ verdict = [t \in Txn |-> FALSE]
        /\ told = [t \in Txn |-> "none"]
        /\ asked = [q \in Query |-> "new"]
        /\ open = {}
        /\ exited = FALSE /\ workerUp = TRUE
        /\ inbox = <<>> /\ outbox = <<>>
        /\ acquiring = {} /\ starting = {} /\ closed = {} /\ inTxn = {}
        /\ holder = [k \in Conn |-> NoTxn]
        /\ running = [k \in Conn |-> {}]
        /\ enders = {}
        /\ slot = [k \in Conn |-> "unopened"]
        /\ work = [k \in Conn |-> {}]
        /\ durable = {} /\ applied = {} /\ undone = {}

-----------------------------------------------------------------------------
(* The parent: src/fivem/index.ts *)

\* postMessage to a thread that is gone is lost.
Post(m) == inbox' = IF workerUp THEN Append(inbox, m) ELSE inbox

\* startTransaction returns or throws.
Return(t, outcome) == /\ phase' = [phase EXCEPT ![t] = "done"]
                      /\ told' = [told EXCEPT ![t] = outcome]

BeginFailed == IF Propagate THEN "threw" ELSE "false"

StartTransaction(t) ==
    /\ phase[t] = "idle"
    /\ \/ /\ exited
          /\ Return(t, BeginFailed)
          /\ UNCHANGED <<open, inbox>>
       \/ /\ ~exited
          /\ phase' = [phase EXCEPT ![t] = "beginning"]
          /\ open' = open \cup {BeginOf(t)}
          /\ Post([req |-> BeginOf(t), conn |-> NoConn, commit |-> FALSE, wants |-> TRUE])
          /\ UNCHANGED told
    /\ UNCHANGED <<connOf, aborted, finalized, verdict, asked, exited, outbox,
                   workerUp, workerVars, slot, serverVars>>

SlipSignalUnchecked(q) ==
    LET t == q[1] IN
    /\ asked[q] = "new"
    /\ phase[t] = "running"
    /\ q[2] > 1 => asked[<<t, q[2] - 1>>] # "new"
    /\ ~exited
    /\ asked' = [asked EXCEPT ![q] = "sent"]
    /\ open' = open \cup {QueryOf(q)}
    /\ Post([req |-> QueryOf(q), conn |-> connOf[t], commit |-> FALSE, wants |-> TRUE])
    /\ UNCHANGED <<phase, connOf, aborted, finalized, verdict, told, exited, outbox,
                   workerUp, workerVars, slot, serverVars>>

\* queryFn, up to its await.  Nothing but the abort signal stops a callback
\* that kept queryFn from calling it after it has ended.
QueryFn(q) ==
    LET t == q[1] IN
    /\ asked[q] = "new"
    /\ phase[t] = "running" \/ ("stray" \in Faults /\ phase[t] \in {"ending", "done"})
    /\ connOf[t] # NoConn
    /\ q[2] > 1 => asked[<<t, q[2] - 1>>] # "new"
    /\ \/ /\ t \in aborted
          /\ asked' = [asked EXCEPT ![q] = "aborted"]
          /\ UNCHANGED <<open, inbox>>
       \/ /\ t \notin aborted /\ exited
          /\ asked' = [asked EXCEPT ![q] = "failed"]
          /\ UNCHANGED <<open, inbox>>
       \/ /\ t \notin aborted /\ ~exited
          /\ asked' = [asked EXCEPT ![q] = "sent"]
          /\ open' = open \cup {QueryOf(q)}
          /\ Post([req |-> QueryOf(q), conn |-> connOf[t], commit |-> FALSE, wants |-> TRUE])
    /\ UNCHANGED <<phase, connOf, aborted, finalized, verdict, told, exited, outbox,
                   workerUp, workerVars, slot, serverVars>>

SlipFlagForgotten(t, commit) ==
    /\ open' = IF Propagate THEN open \cup {EndOf(t)} ELSE open
    /\ Post([req |-> EndOf(t), conn |-> connOf[t], commit |-> commit, wants |-> Propagate])
    /\ UNCHANGED finalized

\* finalize: endTransaction is a request when errors propagate and a
\* fire-and-forget message otherwise.
Finalize(t, commit) ==
    /\ finalized' = finalized \cup {t}
    /\ \/ /\ t \in finalized \/ exited
          /\ UNCHANGED <<open, inbox>>
       \/ /\ t \notin finalized /\ ~exited
          /\ open' = IF Propagate THEN open \cup {EndOf(t)} ELSE open
          /\ Post([req |-> EndOf(t), conn |-> connOf[t], commit |-> commit,
                   wants |-> Propagate])

\* The 30 second timer; clearTimeout disarms it when the callback ends.
Timeout(t) ==
    /\ phase[t] = "running"
    /\ t \notin finalized
    /\ aborted' = aborted \cup {t}
    /\ Finalize(t, FALSE)
    /\ UNCHANGED <<phase, connOf, verdict, told, asked, exited, outbox,
                   workerUp, workerVars, slot, serverVars>>

\* The callback ends: commit is FALSE when it returned false or threw.
CallbackEnds(t, commit) ==
    /\ phase[t] = "running"
    /\ \/ /\ t \in aborted
          /\ Return(t, "false")
          /\ UNCHANGED <<verdict, finalized, open, inbox>>
       \/ /\ t \notin aborted
          /\ verdict' = [verdict EXCEPT ![t] = commit]
          /\ Finalize(t, commit)
          /\ IF ~Propagate THEN Return(t, IF commit THEN "true" ELSE "false")
             ELSE IF exited THEN Return(t, "threw")
             ELSE phase' = [phase EXCEPT ![t] = "ending"] /\ UNCHANGED told
    /\ UNCHANGED <<connOf, aborted, asked, exited, outbox, workerUp, workerVars,
                   slot, serverVars>>

SlipOneCheck(t, ok) == IF ok THEN "ok" ELSE "failed"

\* queryFn, after its await: the signal is checked a second time.
QueryResult(t, ok) == IF t \in aborted THEN "aborted" ELSE IF ok THEN "ok" ELSE "failed"

\* The code awaiting a request goes on with its payload.
Resume(r, ok, k) ==
    LET t == r[2] IN
    \/ /\ r = BeginOf(t)
       /\ \/ /\ ok
             /\ phase' = [phase EXCEPT ![t] = "running"]
             /\ connOf' = [connOf EXCEPT ![t] = k]
             /\ UNCHANGED told
          \/ /\ ~ok
             /\ Return(t, BeginFailed)
             /\ UNCHANGED connOf
       /\ UNCHANGED asked
    \/ /\ r[1] = "transactionQuery"
       /\ asked' = [asked EXCEPT ![<<t, r[3]>>] = QueryResult(t, ok)]
       /\ UNCHANGED <<phase, connOf, told>>
    \/ /\ r = EndOf(t)
       /\ IF t \in aborted THEN UNCHANGED <<phase, told>>
          ELSE Return(t, IF ~ok THEN "threw" ELSE IF verdict[t] THEN "true" ELSE "false")
       /\ UNCHANGED <<connOf, asked>>

\* A response settles its request if the channel still has it pending.
Deliver ==
    LET m == Head(outbox) IN
    /\ outbox # <<>>
    /\ outbox' = Tail(outbox)
    /\ open' = open \ {m.req}
    /\ IF m.req \in open THEN Resume(m.req, m.ok, m.conn)
       ELSE UNCHANGED <<phase, connOf, told, asked>>
    /\ UNCHANGED <<aborted, finalized, verdict, exited, inbox, workerUp, workerVars,
                   slot, serverVars>>

\* The channel settles a request with an error of its own.
Synthesize(r) ==
    /\ r \in open
    /\ exited \/ "request" \in Faults
    /\ open' = open \ {r}
    /\ Resume(r, FALSE, NoConn)
    /\ UNCHANGED <<aborted, finalized, verdict, exited, inbox, outbox, workerUp,
                   workerVars, slot, serverVars>>

SeeExit ==
    /\ ~workerUp /\ ~exited
    /\ exited' = TRUE
    /\ UNCHANGED <<phase, connOf, aborted, finalized, verdict, told, asked, open,
                   inbox, outbox, workerUp, workerVars, slot, serverVars>>

-----------------------------------------------------------------------------
(* The worker: startTransaction.ts, connection.ts, and the pool *)

Active(k) == holder[k] # NoTxn
Live == {k \in Conn : slot[k] \in {"idle", "held"}}

Respond(r, ok, k) == outbox' = Append(outbox, [req |-> r, ok |-> ok, conn |-> k])

\* The wrapper leaves activeConnections; its connection goes back to the
\* pool, or is destroyed when COMMIT or ROLLBACK failed.
Dispose(k, failed) ==
    /\ holder' = [holder EXCEPT ![k] = NoTxn]
    /\ closed' = closed \ {k}
    /\ slot' = [slot EXCEPT ![k] = IF failed THEN "destroyed" ELSE "idle"]

TakeBegin(m) ==
    /\ acquiring' = acquiring \cup {m.req[2]}
    /\ UNCHANGED <<outbox, starting, holder, closed, running, enders>>

\* runTransactionQuery, to its first await: the connection is looked up by
\* thread id, refused when absent or closed, and the query is counted in
\* flight before anything else runs.
TakeQuery(m) ==
    \/ /\ Active(m.conn) /\ m.conn \notin closed
       /\ running' = [running EXCEPT ![m.conn] = @ \cup {<<m.req[2], m.req[3]>>}]
       /\ UNCHANGED <<outbox, acquiring, starting, holder, closed, enders>>
    \/ /\ \/ ~Active(m.conn) \/ m.conn \in closed
          \/ "query" \in Faults       \* parseArguments throws
       /\ Respond(m.req, FALSE, NoConn)
       /\ UNCHANGED workerVars

SlipNoWait(m) ==
    /\ Active(m.conn)
    /\ closed' = closed \cup {m.conn}
    /\ enders' = enders \cup {[txn |-> m.req[2], conn |-> m.conn, commit |-> m.commit,
                               wants |-> m.wants, stage |-> "finishing"]}
    /\ UNCHANGED <<outbox, acquiring, starting, holder, running>>

\* endTransaction, to its first await that has something to wait for.
TakeEnd(m) ==
    \/ /\ ~Active(m.conn)
       /\ IF m.wants THEN Respond(m.req, TRUE, NoConn) ELSE UNCHANGED outbox
       /\ UNCHANGED workerVars
    \/ /\ Active(m.conn)
       /\ closed' = closed \cup {m.conn}
       /\ enders' = enders \cup {[txn |-> m.req[2], conn |-> m.conn, commit |-> m.commit,
                                  wants |-> m.wants,
                                  stage |-> IF running[m.conn] = {} THEN "finishing"
                                            ELSE "waiting"]}
       /\ UNCHANGED <<outbox, acquiring, starting, holder, running>>

\* handleIncoming takes the next message and runs its handler up to the
\* first await.
Take ==
    LET m == Head(inbox) IN
    /\ workerUp
    /\ inbox # <<>>
    /\ inbox' = Tail(inbox)
    /\ \/ m.req[1] = "beginTransaction" /\ TakeBegin(m)
       \/ m.req[1] = "transactionQuery" /\ TakeQuery(m)
       \/ m.req[1] = "endTransaction" /\ TakeEnd(m)
    /\ UNCHANGED <<parentVars, workerUp, slot, serverVars>>

\* pool.getConnection yields an idle connection or opens one, the wrapper
\* registers itself, and BEGIN is sent.
Acquire(t, k) ==
    /\ t \in acquiring
    /\ slot[k] = "idle" \/ (slot[k] = "unopened" /\ Cardinality(Live) < PoolSize)
    /\ acquiring' = acquiring \ {t}
    /\ slot' = [slot EXCEPT ![k] = "held"]
    /\ holder' = [holder EXCEPT ![k] = t]
    /\ starting' = starting \cup {k}
    /\ UNCHANGED <<parentVars, inbox, outbox, workerUp, closed, running, enders, serverVars>>

\* The pool gives up; no connection is held.
AcquireFails(t) ==
    /\ "begin" \in Faults
    /\ t \in acquiring
    /\ acquiring' = acquiring \ {t}
    /\ Respond(BeginOf(t), FALSE, NoConn)
    /\ UNCHANGED <<parentVars, inbox, workerUp, starting, holder, closed, running, enders,
                   slot, serverVars>>

BeginDone(k) ==
    /\ k \in starting
    /\ starting' = starting \ {k}
    /\ inTxn' = inTxn \cup {k}
    /\ Respond(BeginOf(holder[k]), TRUE, k)
    /\ UNCHANGED <<parentVars, inbox, workerUp, acquiring, holder, closed, running, enders,
                   slot, work, durable, applied, undone>>

\* BEGIN fails: the catch answers with the error, and the wrapper and its
\* connection stay as they are.
BeginFails(k) ==
    /\ "begin" \in Faults
    /\ k \in starting
    /\ starting' = starting \ {k}
    /\ Respond(BeginOf(holder[k]), FALSE, NoConn)
    /\ UNCHANGED <<parentVars, inbox, workerUp, acquiring, holder, closed, running, enders,
                   slot, serverVars>>

SlipNoWake(k, q) ==
    /\ running' = [running EXCEPT ![k] = @ \ {q}]
    /\ UNCHANGED enders

\* MySql.track's finally: the last query out wakes the waiters, and the
\* handler they belong to sends its COMMIT or ROLLBACK.
Untrack(k, q) ==
    /\ running' = [running EXCEPT ![k] = @ \ {q}]
    /\ enders' = {IF e.conn = k /\ running[k] = {q} THEN [e EXCEPT !.stage = "finishing"]
                  ELSE e : e \in enders}

\* The server answers the queries of a session in the order they were sent,
\* behind its BEGIN.
Answered(k, q, ok) ==
    /\ k \notin starting
    /\ \A p \in running[k] : p[1] = q[1] => q[2] <= p[2]
    /\ Untrack(k, q)
    /\ Respond(QueryOf(q), ok, NoConn)
    /\ UNCHANGED <<parentVars, inbox, workerUp, acquiring, starting, holder, closed, slot>>

\* The server executes a query: inside the session's open transaction, or
\* committed at once when there is none.
QueryDone(k, q) ==
    /\ q \in running[k]
    /\ applied' = applied \cup {q}
    /\ IF k \in inTxn
       THEN work' = [work EXCEPT ![k] = @ \cup {q}] /\ UNCHANGED durable
       ELSE durable' = durable \cup {q} /\ UNCHANGED work
    /\ Answered(k, q, TRUE)
    /\ UNCHANGED <<inTxn, undone>>

\* A statement with an error fails alone.
QueryFails(k, q) ==
    /\ "query" \in Faults
    /\ q \in running[k]
    /\ Answered(k, q, FALSE)
    /\ UNCHANGED serverVars

\* The victim of a deadlock loses its whole transaction: the session is left
\* outside any.  The worker answers as for every other error, and leaves the
\* connection registered and open.
QueryRolledBack(k, q) ==
    /\ "deadlock" \in Faults
    /\ q \in running[k]
    /\ k \in inTxn
    /\ inTxn' = inTxn \ {k}
    /\ work' = [work EXCEPT ![k] = {}]
    /\ undone' = undone \cup {q}
    /\ Answered(k, q, FALSE)
    /\ UNCHANGED <<durable, applied>>

QueryEnds(k, q) == QueryDone(k, q) \/ QueryFails(k, q) \/ QueryRolledBack(k, q)

SlipErrorSwallowed(e, failed) ==
    /\ enders' = enders \ {e}
    /\ Dispose(e.conn, failed)
    /\ inTxn' = inTxn \ {e.conn}
    /\ work' = [work EXCEPT ![e.conn] = {}]
    /\ IF e.wants THEN Respond(EndOf(e.txn), TRUE, NoConn) ELSE UNCHANGED outbox
    /\ UNCHANGED <<parentVars, inbox, workerUp, acquiring, starting, running, applied, undone>>

\* endTransaction's finally and its response.
EndHandler(e, failed) ==
    /\ enders' = enders \ {e}
    /\ Dispose(e.conn, failed)
    /\ inTxn' = inTxn \ {e.conn}
    /\ work' = [work EXCEPT ![e.conn] = {}]
    /\ IF e.wants THEN Respond(EndOf(e.txn), ~failed, NoConn) ELSE UNCHANGED outbox
    /\ UNCHANGED <<parentVars, inbox, workerUp, acquiring, starting, running, applied, undone>>

SlipAlwaysCommit(e) ==
    /\ e.stage = "finishing"
    /\ e.conn \notin starting
    /\ durable' = durable \cup work[e.conn]
    /\ EndHandler(e, FALSE)

EndDone(e) ==
    /\ e.stage = "finishing"
    /\ e.conn \notin starting
    /\ durable' = IF e.commit THEN durable \cup work[e.conn] ELSE durable
    /\ EndHandler(e, FALSE)

SlipReleaseTainted(e) ==
    /\ "end" \in Faults
    /\ e.stage = "finishing"
    /\ enders' = enders \ {e}
    /\ Dispose(e.conn, FALSE)
    /\ IF e.wants THEN Respond(EndOf(e.txn), FALSE, NoConn) ELSE UNCHANGED outbox
    /\ UNCHANGED <<parentVars, inbox, workerUp, acquiring, starting, running, serverVars>>

\* COMMIT or ROLLBACK reports an error.  Whether the server had committed is
\* not known; the connection is destroyed, which ends its session.
EndFails(e) ==
    /\ "end" \in Faults
    /\ e.stage = "finishing"
    /\ e.conn \notin starting
    /\ durable' \in IF e.commit THEN {durable, durable \cup work[e.conn]} ELSE {durable}
    /\ EndHandler(e, TRUE)

\* The worker exits.  Its sessions end; a COMMIT under way may have been done.
WorkerDies ==
    /\ "death" \in Faults
    /\ workerUp
    /\ workerUp' = FALSE
    /\ inbox' = <<>>
    /\ acquiring' = {} /\ starting' = {} /\ closed' = {} /\ enders' = {} /\ inTxn' = {}
    /\ holder' = [k \in Conn |-> NoTxn]
    /\ running' = [k \in Conn |-> {}]
    /\ work' = [k \in Conn |-> {}]
    /\ slot' = [k \in Conn |-> IF slot[k] = "unopened" THEN "unopened" ELSE "destroyed"]
    /\ \E C \in SUBSET {e.conn : e \in {f \in enders : f.stage = "finishing" /\ f.commit}} :
          durable' = durable \cup UNION {work[k] : k \in C}
    /\ UNCHANGED <<parentVars, outbox, applied, undone>>

-----------------------------------------------------------------------------
Next == \/ \E t \in Txn : StartTransaction(t) \/ Timeout(t)
        \/ \E q \in Query : QueryFn(q)
        \/ \E t \in Txn, commit \in BOOLEAN : CallbackEnds(t, commit)
        \/ Deliver
        \/ \E r \in open : Synthesize(r)
        \/ SeeExit
        \/ Take
        \/ \E t \in Txn : AcquireFails(t) \/ \E k \in Conn : Acquire(t, k)
        \/ \E k \in Conn : BeginDone(k) \/ BeginFails(k)
        \/ \E k \in Conn : \E q \in running[k] : QueryEnds(k, q)
        \/ \E e \in enders : EndDone(e) \/ EndFails(e)
        \/ WorkerDies

SafeSpec == Init /\ [][Next]_vars

\* Both event loops run, the 30 second timer fires, and the server answers
\* what it was sent.  Nothing makes a callback issue a query or end.
Fairness ==
    /\ WF_vars(Deliver)
    /\ WF_vars(Take)
    /\ WF_vars(SeeExit)
    /\ \A r \in Request : WF_vars(exited /\ Synthesize(r))
    /\ \A t \in Txn : WF_vars(Timeout(t))
    /\ \A k \in Conn : WF_vars(BeginDone(k) \/ BeginFails(k))
    /\ \A k \in Conn : WF_vars(\E q \in running[k] : QueryEnds(k, q))
    /\ WF_vars(\E e \in enders : EndDone(e) \/ EndFails(e))

Spec == SafeSpec /\ Fairness

-----------------------------------------------------------------------------
(* Properties *)

\* COMMIT or ROLLBACK is never in flight on a connection together with a
\* query, whatever the timer, the callback and the messages do.
NoQueryBesideEnd ==
    \A e \in enders : e.stage = "finishing" => running[e.conn] = {}

\* A connection the pool may lend is registered to no wrapper, runs nothing
\* and has no transaction open at the server.
IdleIsClean ==
    \A k \in Conn : slot[k] = "idle" =>
        /\ holder[k] = NoTxn /\ running[k] = {} /\ k \notin inTxn \cup starting
        /\ \A e \in enders : e.conn # k

\* Every statement at work on a connection is one of the transaction that
\* holds it, so no transaction commits or rolls back another's work.
OwnWorkOnly == \A k \in Conn : running[k] \cup work[k] \subseteq Of(holder[k])

\* The transactions for which oxmysql promises nothing.  The worker does not
\* notice that the server has rolled a transaction back: what the callback
\* sends after that is committed query by query, and COMMIT succeeds.  It
\* takes a callback that issued another query after the one the server ended
\* (not awaiting it, or catching its error), or that still asks for a commit.
Broken ==
    {t \in Txn : \E q \in undone \cap Of(t) :
                    \/ verdict[t]
                    \/ \E p \in Of(t) : p[2] > q[2] /\ asked[p] # "new"}

\* What is durable of a transaction is all the server executed of it, or
\* nothing, and nothing after a rollback by the server, unless its callback
\* went on past that rollback.
AllOrNothing ==
    \A t \in Txn \ Broken :
        /\ durable \cap Of(t) \in {{}, applied \cap Of(t)}
        /\ undone \cap Of(t) # {} => durable \cap Of(t) = {}

\* With propagated errors, "true" means that every query whose result the
\* callback received is durable, with the same exception.
TrueIsDurable ==
    Propagate => \A q \in Query : /\ q[1] \notin Broken
                                  /\ told[q[1]] = "true" /\ asked[q] = "ok"
                                  => q \in durable

\* After the abort queryFn hands out no result, not even one already on its
\* way (index.ts:657).
NoResultAfterAbort ==
    [][\A q \in Query : asked[q] # "ok" /\ asked'[q] = "ok" => q[1] \notin aborted]_vars

\* compat-matrix.md 7.1: a connection is held until endTransaction, whether
\* it comes from a commit, a rollback or the timeout.
ConnectionsComeBack == \A k \in Conn : holder[k] # NoTxn ~> holder[k] = NoTxn

Outcome == INSTANCE TransactionOutcome
               WITH Statement <- Query, durable <- {q \in durable : q[1] \notin Broken}

\* startTransaction keeps the promise of TransactionOutcome to every caller
\* whose callback lets an error of queryFn end it.
ImplementsOutcome == Outcome!Spec
================================================================================
