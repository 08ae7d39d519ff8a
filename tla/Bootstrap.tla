-------------------------------- MODULE Bootstrap ------------------------------
(***************************************************************************)
(* From resource start to resource stop: the parent posts initialize and   *)
(* the configuration (src/fivem/index.ts), the worker applies them and     *)
(* retries until its pool opens (worker.ts, pool.ts), queries that come    *)
(* early poll for the pool (awaitPool, getConnection), the parent learns   *)
(* that the database is there (isReady, awaitConnection), and a stop asks  *)
(* the worker to end its pool and exit, with terminate as a fallback.      *)
(*                                                                         *)
(* The worker is one JavaScript thread: a handler runs to its first await. *)
(* Polls are the sleep(0) timers of Node: one list, the oldest fires       *)
(* first, and a poll that finds no pool goes to the end of the list.       *)
(*                                                                         *)
(* A definition named Slip... is a faulty variant of the one that follows  *)
(* it, kept to test that a property notices it; no specification uses it.  *)
(***************************************************************************)
EXTENDS Naturals, Sequences, FiniteSets

CONSTANTS Query,        \* queries the resources send
          Config,       \* values of the convars readConfig reads
          DefaultConfig,\* what the initialize handler applies
          HasPassword,  \* the connection string carries a password
          MaxBoots,     \* bound: initialize messages
          MaxChanges,   \* bound: convar changes
          MaxOutages    \* bound: times the database goes away

ASSUME BootstrapAssumption == /\ DefaultConfig \in Config
                              /\ HasPassword \in BOOLEAN
                              /\ MaxBoots \in Nat \ {0}
                              /\ MaxChanges \in Nat /\ MaxOutages \in Nat

VARIABLES patched,      \* named-placeholders passes its check
          boots,        \* initialize messages posted
          convars,      \* the convars as readConfig last read them
          changes,      \* convar changes so far
          asked,        \* the queries sent, in order
          isReady,      \* the parent's isReady
          awaiting,     \* an awaitConnection call: "none", "polling", "resolved"
          stopping,     \* onResourceStop ran
          inbox,        \* messages to the worker
          outbox,       \* messages to the parent
          workerUp,     \* the worker thread runs
          config,       \* the worker's copy of the configuration
          loop,         \* the retry loop: "off", "connecting" or "sleeping"
          attempt,      \* its attempt counter, 2 standing for "more than one"
          password,     \* connectionOptions.password, as the loop will use it
          pool,         \* "null", "open", or "ending" once shutdown calls end()
          pollers,      \* queries in awaitPool, in the order their timers fire
          ran,          \* queries given to the pool, in order
          dbUp,         \* the database accepts connections
          outages       \* times it went away

parentVars == <<patched, boots, convars, changes, asked, isReady, awaiting, stopping>>
loopVars == <<loop, attempt, password>>
queryVars == <<pollers, ran>>
dbVars == <<dbUp, outages>>
vars == <<patched, boots, convars, changes, asked, isReady, awaiting, stopping, inbox, outbox,
          workerUp, config, loop, attempt, password, pool, pollers, ran, dbUp, outages>>

\* worker.ts: a second initialize is ignored exactly while the loop runs.
initializing == loop # "off"

Message == [action : {"initialize", "shutdown"}]
           \cup [action : {"updateConfig"}, config : Config]
           \cup [action : {"query"}, query : Query]

TypeOK == /\ patched \in BOOLEAN /\ boots \in 0 .. MaxBoots
          /\ convars \in Config /\ changes \in 0 .. MaxChanges
          /\ asked \in Seq(Query) /\ isReady \in BOOLEAN
          /\ awaiting \in {"none", "polling", "resolved"} /\ stopping \in BOOLEAN
          /\ inbox \in Seq(Message) /\ outbox \in Seq({"dbVersion"})
          /\ workerUp \in BOOLEAN /\ config \in Config
          /\ loop \in {"off", "connecting", "sleeping"} /\ attempt \in 0 .. 2
          /\ password \in {"none", "real", "masked"}
          /\ pool \in {"null", "open", "ending"}
          /\ pollers \in Seq(Query) /\ ran \in Seq(Query)
          /\ dbUp \in BOOLEAN /\ outages \in 0 .. MaxOutages

GivenPassword == IF HasPassword THEN "real" ELSE "none"

Init == /\ patched \in BOOLEAN /\ boots = 0 /\ convars \in Config /\ changes = 0
        /\ asked = <<>> /\ isReady = FALSE /\ awaiting = "none" /\ stopping = FALSE
        /\ inbox = <<>> /\ outbox = <<>>
        /\ workerUp = TRUE /\ config = DefaultConfig
        /\ loop = "off" /\ attempt = 0
        /\ password = GivenPassword
        /\ pool = "null" /\ pollers = <<>> /\ ran = <<>>
        /\ dbUp \in BOOLEAN /\ outages = 0

SeqSet(s) == {s[i] : i \in DOMAIN s}

-----------------------------------------------------------------------------
(* The parent *)

\* postMessage to a thread that is gone is lost.
Post(msgs) == inbox' = IF workerUp THEN inbox \o msgs ELSE inbox

UpdateConfig(c) == [action |-> "updateConfig", config |-> c]

\* The script posts initialize and then runs readConfig, in one turn.  It
\* runs once per worker; the worker's handler is written to be told again
\* (worker.ts:91, tests/16-worker-dispatch.test.ts), so it may be.
Boot == /\ boots < MaxBoots
        /\ boots' = boots + 1
        /\ Post(<<[action |-> "initialize"], UpdateConfig(convars)>>)
        /\ UNCHANGED <<patched, convars, changes, asked, isReady, awaiting,
                       stopping, outbox, workerUp, config, loopVars, pool,
                       queryVars, dbVars>>

\* The convar change listener: readConfig.
ConvarChanges(c) ==
    /\ boots > 0 /\ changes < MaxChanges
    /\ convars' = c
    /\ changes' = changes + 1
    /\ Post(<<UpdateConfig(c)>>)
    /\ UNCHANGED <<patched, boots, asked, isReady, awaiting, stopping, outbox,
                   workerUp, config, loopVars, pool, queryVars, dbVars>>

SendQuery(q) ==
    /\ boots > 0 /\ q \notin SeqSet(asked)
    /\ asked' = Append(asked, q)
    /\ Post(<<[action |-> "query", query |-> q]>>)
    /\ UNCHANGED <<patched, boots, convars, changes, isReady, awaiting, stopping,
                   outbox, workerUp, config, loopVars, pool, queryVars, dbVars>>

AwaitConnection ==
    /\ boots > 0 /\ awaiting = "none"
    /\ awaiting' = IF isReady THEN "resolved" ELSE "polling"
    /\ UNCHANGED <<patched, boots, convars, changes, asked, isReady, stopping,
                   inbox, outbox, workerUp, config, loopVars, pool, queryVars,
                   dbVars>>

\* One turn of awaitConnection's loop that finds isReady.
AwaitReturns ==
    /\ awaiting = "polling" /\ isReady
    /\ awaiting' = "resolved"
    /\ UNCHANGED <<patched, boots, convars, changes, asked, isReady, stopping,
                   inbox, outbox, workerUp, config, loopVars, pool, queryVars,
                   dbVars>>

DeliverVersion ==
    /\ outbox # <<>>
    /\ outbox' = Tail(outbox)
    /\ isReady' = TRUE
    /\ UNCHANGED <<patched, boots, convars, changes, asked, awaiting, stopping,
                   inbox, workerUp, config, loopVars, pool, queryVars, dbVars>>

ResourceStops ==
    /\ boots > 0 /\ ~stopping
    /\ stopping' = TRUE
    /\ Post(<<[action |-> "shutdown"]>>)
    /\ UNCHANGED <<patched, boots, convars, changes, asked, isReady, awaiting,
                   outbox, workerUp, config, loopVars, pool, queryVars, dbVars>>

\* The worker thread ends: what it had not taken or finished is lost.
WorkerEnds ==
    /\ workerUp' = FALSE
    /\ inbox' = <<>>
    /\ pollers' = <<>>
    /\ loop' = "off"
    /\ UNCHANGED <<parentVars, outbox, config, attempt, password, pool, ran, dbVars>>

SlipGraceCancelled == stopping /\ workerUp /\ pool # "ending" /\ WorkerEnds

\* SHUTDOWN_GRACE_MS after the stop.
Terminate == stopping /\ workerUp /\ WorkerEnds

-----------------------------------------------------------------------------
(* The worker *)

Taken(action) == workerUp /\ inbox # <<>> /\ Head(inbox).action = action

\* initialize, to its first await.  Reapplying the configuration is not
\* undone by a pool that is there already.
TakeInitialize ==
    /\ Taken("initialize")
    /\ \/ /\ initializing
          /\ inbox' = Tail(inbox)
          /\ UNCHANGED <<parentVars, outbox, workerUp, config, loopVars, pool,
                         queryVars, dbVars>>
       \/ /\ ~initializing /\ ~patched
          /\ WorkerEnds                             \* process.exit(1)
       \/ /\ ~initializing /\ patched
          /\ inbox' = Tail(inbox)
          /\ config' = DefaultConfig
          /\ IF pool = "null"
             THEN loop' = "connecting" /\ attempt' = 1 /\ password' = GivenPassword
             ELSE UNCHANGED <<loop, attempt, password>>
          /\ UNCHANGED <<parentVars, outbox, workerUp, pool, queryVars, dbVars>>

SlipWholeMessage ==
    /\ Taken("updateConfig")
    /\ inbox' = Tail(inbox)
    /\ config' = Head(inbox)
    /\ UNCHANGED <<parentVars, outbox, workerUp, loopVars, pool, queryVars, dbVars>>

TakeConfig ==
    /\ Taken("updateConfig")
    /\ inbox' = Tail(inbox)
    /\ config' = Head(inbox).config
    /\ UNCHANGED <<parentVars, outbox, workerUp, loopVars, pool, queryVars, dbVars>>

SlipPoolUnchecked ==
    /\ Taken("query")
    /\ inbox' = Tail(inbox)
    /\ ran' = Append(ran, Head(inbox).query)
    /\ UNCHANGED <<parentVars, outbox, workerUp, config, loopVars, pool, pollers,
                   dbVars>>

\* rawQuery and the others, to awaitPool: a pool that is there is used at
\* once, ahead of the polls still asleep.
TakeQuery ==
    LET q == Head(inbox).query IN
    /\ Taken("query")
    /\ inbox' = Tail(inbox)
    /\ \/ pool = "null" /\ pollers' = Append(pollers, q) /\ UNCHANGED ran
       \/ pool = "open" /\ ran' = Append(ran, q) /\ UNCHANGED pollers
       \/ pool = "ending" /\ UNCHANGED <<pollers, ran>>    \* the ended pool refuses it
    /\ UNCHANGED <<parentVars, outbox, workerUp, config, loopVars, pool, dbVars>>

SlipStalePool ==
    /\ pollers # <<>>
    /\ pollers' = Append(Tail(pollers), Head(pollers))
    /\ UNCHANGED <<parentVars, inbox, outbox, workerUp, config, loopVars, pool, ran,
                   dbVars>>

\* The oldest poll's timer fires.
PollerWakes ==
    LET q == Head(pollers) IN
    /\ pollers # <<>>
    /\ \/ pool = "null" /\ pollers' = Append(Tail(pollers), q) /\ UNCHANGED ran
       \/ pool = "open" /\ pollers' = Tail(pollers) /\ ran' = Append(ran, q)
       \/ pool = "ending" /\ pollers' = Tail(pollers) /\ UNCHANGED ran
    /\ UNCHANGED <<parentVars, inbox, outbox, workerUp, config, loopVars, pool, dbVars>>

SlipVersionFirst ==
    /\ loop = "connecting"
    /\ ~(dbUp /\ password # "masked")
    /\ outbox' = Append(outbox, "dbVersion")
    /\ loop' = "sleeping"
    /\ password' = IF password = "real" THEN "masked" ELSE password
    /\ UNCHANGED <<parentVars, inbox, workerUp, config, attempt, pool, queryVars,
                   dbVars>>

\* createConnectionPool's catch hides the password for the log, in the
\* object the next attempt will use.
ConnectFails ==
    /\ loop = "connecting"
    /\ ~(dbUp /\ password # "masked")
    /\ loop' = "sleeping"
    /\ password' = IF password = "real" THEN "masked" ELSE password
    /\ UNCHANGED <<parentVars, inbox, outbox, workerUp, config, attempt, pool,
                   queryVars, dbVars>>

SlipDefaultsLast ==
    /\ loop = "connecting"
    /\ dbUp /\ password # "masked"
    /\ outbox' = Append(outbox, "dbVersion")
    /\ pool' = "open"
    /\ loop' = "off"
    /\ config' = DefaultConfig
    /\ UNCHANGED <<parentVars, inbox, workerUp, attempt, password, queryVars, dbVars>>

\* SELECT VERSION() answers: dbVersion is posted and the pool set in one turn.
ConnectSucceeds ==
    /\ loop = "connecting"
    /\ dbUp /\ password # "masked"
    /\ outbox' = Append(outbox, "dbVersion")
    /\ pool' = "open"
    /\ loop' = "off"
    /\ UNCHANGED <<parentVars, inbox, workerUp, config, attempt, password,
                   queryVars, dbVars>>

SlipNoRetry ==
    /\ loop = "sleeping"
    /\ attempt = 1
    /\ loop' = "connecting"
    /\ attempt' = 2
    /\ UNCHANGED <<parentVars, inbox, outbox, workerUp, config, password, pool,
                   queryVars, dbVars>>

Retry ==
    /\ loop = "sleeping"
    /\ loop' = "connecting"
    /\ attempt' = 2
    /\ UNCHANGED <<parentVars, inbox, outbox, workerUp, config, password, pool,
                   queryVars, dbVars>>

\* shutdown: pool?.end(), then process.exit(0).
TakeShutdown ==
    /\ Taken("shutdown")
    /\ \/ pool = "null" /\ WorkerEnds
       \/ /\ pool # "null"
          /\ inbox' = Tail(inbox)
          /\ pool' = "ending"
          /\ UNCHANGED <<parentVars, outbox, workerUp, config, loopVars, queryVars,
                         dbVars>>

PoolEnded == pool = "ending" /\ workerUp /\ WorkerEnds

-----------------------------------------------------------------------------
(* The database *)

DatabaseUp == /\ ~dbUp /\ dbUp' = TRUE
              /\ UNCHANGED <<parentVars, inbox, outbox, workerUp, config, loopVars,
                             pool, queryVars, outages>>

DatabaseDown == /\ dbUp /\ outages < MaxOutages
                /\ dbUp' = FALSE /\ outages' = outages + 1
                /\ UNCHANGED <<parentVars, inbox, outbox, workerUp, config,
                               loopVars, pool, queryVars>>

-----------------------------------------------------------------------------
Parent == \/ Boot
          \/ \E c \in Config : ConvarChanges(c)
          \/ \E q \in Query : SendQuery(q)
          \/ AwaitConnection \/ AwaitReturns \/ DeliverVersion
          \/ ResourceStops \/ Terminate

Take == TakeInitialize \/ TakeConfig \/ TakeQuery \/ TakeShutdown

Worker == Take \/ PollerWakes \/ ConnectFails \/ ConnectSucceeds \/ Retry \/ PoolEnded

Next == Parent \/ Worker \/ DatabaseUp \/ DatabaseDown

SafeSpec == Init /\ [][Next]_vars

\* Both event loops run, the script boots, connection attempts and sleeps
\* end, and the grace period of a stop ends.  pool.end() may stall.
Fairness == /\ WF_vars(boots = 0 /\ Boot)
            /\ WF_vars(DeliverVersion) /\ WF_vars(AwaitReturns)
            /\ WF_vars(Take)
            /\ WF_vars(PollerWakes)
            /\ WF_vars(ConnectFails \/ ConnectSucceeds) /\ WF_vars(Retry)
            /\ WF_vars(Terminate)

Spec == SafeSpec /\ Fairness

-----------------------------------------------------------------------------
(* Properties *)

\* Once it has read its mail the worker works with the configuration the
\* parent read last: initialize's defaults never outlive an updateConfig.
ConfigMirrored == boots > 0 /\ workerUp /\ inbox = <<>> => config = convars

\* No query reaches the pool before it is open, and none runs twice
\* (pool.ts awaitPool: an early query must not dereference null).
RunsOnceOnOpenPool == /\ ran # <<>> => pool # "null"
                      /\ Len(ran) = Cardinality(SeqSet(ran))
                      /\ SeqSet(ran) \cap SeqSet(pollers) = {}

\* isReady is not announced, nor awaitConnection resolved, before the pool
\* takes queries (compat-matrix.md 10.1 and 10.2).
ReadyMeansPool == isReady \/ awaiting = "resolved" => pool # "null"

\* worker.ts:150 and compat-matrix.md 10.2: the loop retries until it
\* succeeds, so a database that comes and stays is found.
PoolOpensOnceDatabaseStays == (<>[]dbUp) => <>(pool # "null" \/ ~workerUp)

\* A query that was waiting for the pool is run once there is one, unless
\* the worker is shut down.
BlockedQueriesRun ==
    \A q \in Query : q \in SeqSet(pollers) /\ pool = "open"
                        ~> q \in SeqSet(ran) \/ pool = "ending" \/ ~workerUp

\* A stopped resource leaves no worker behind, whether or not the pool's
\* end() returns.
StopEndsWorker == stopping ~> ~workerUp
================================================================================
