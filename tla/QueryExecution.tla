----------------------------- MODULE QueryExecution ----------------------------
(***************************************************************************)
(* The worker's handlers of query and execute: database/rawQuery.ts and    *)
(* rawExecute.ts, with profiler/index.ts and the calls of logger/index.ts. *)
(* Calls run side by side over one pool, mysql_debug changes under way.    *)
(*                                                                         *)
(* With mysql_debug off a call sends its statements through the pool, each *)
(* on whatever session is idle; otherwise it holds one connection, turns   *)
(* the profiler on if the resource is listed, and sends them one by one.   *)
(* The pool is open: the wait for it is modelled in Bootstrap.             *)
(*                                                                         *)
(* What the server finds is decided by the first value bound: Matches says *)
(* how many rows it selects.  Sessions, pool and server are external.      *)
(***************************************************************************)
EXTENDS QueryArguments, ResultValues, FiniteSets, SequencesExt

CONSTANTS Call,        \* the query and execute messages
          Request,     \* per call, what the message may ask for
          Resource,    \* the resources that ask
          Conn,        \* the pool's connections
          NoConn,
          Matches,     \* per plain value, the rows it selects
          AllRows,     \* the rows a text without placeholders selects
          Window,      \* profiling_history_size, 100
          Changes      \* bound: how often mysql_debug changes

\* What rawQuery is asked for; "rows" is MySQL.query, whose type is null.
QueryType == {"insert", "update", "single", "scalar", "rows"}

ASSUME ExecutionAssumption ==
    /\ NoConn \notin Conn
    /\ Window \in Nat \ {0}
    /\ {AllRows, Changes} \subseteq Nat
    /\ \A v \in DOMAIN Matches : Matches[v] \in Nat
    /\ \A c \in Call : \A r \in Request[c] :
          /\ \/ r.via = "query" /\ r.type \in QueryType
             \/ r.via = "execute" /\ r.unpack \in BOOLEAN
          /\ r.q.marks \in Nat
          /\ IsSequence(r.q.names) /\ IsSequence(r.q.columns) /\ IsArgument(r.p)

VARIABLES job,         \* per call, the locals of its handler
          queue,       \* statements waiting for the pool
          running,     \* statements the pool has lent a connection for
          session,     \* per connection, the session's profiler
          debug,       \* mysql_debug of the worker
          changes      \* how often it has changed

vars == <<job, queue, running, session, debug, changes>>

\* mysql_debug is false, true, or a list; an empty list counts as on.
Off == [on |-> FALSE, listed |-> {}]
Settings == {Off} \cup {[on |-> TRUE, listed |-> S] : S \in SUBSET Resource}

NoAnswer == [t |-> "none"]
Failure == [t |-> "error"]
NoRequest == [via |-> "none"]
NewJob == [pc |-> "idle", req |-> NoRequest, sets |-> <<>>, slow |-> FALSE,
           conn |-> NoConn, profiled |-> FALSE, at |-> 1, response |-> <<>>,
           results |-> <<>>, executed |-> <<>>, logged |-> <<>>, answer |-> NoAnswer]

Places == {"idle", "fast", "acquire", "setup", "statement", "probe", "flush", "done"}

TypeOK == /\ DOMAIN job = Call
          /\ \A c \in Call : /\ DOMAIN job[c] = DOMAIN NewJob
                             /\ job[c].pc \in Places
                             /\ job[c].req \in Request[c] \cup {NoRequest}
                             /\ job[c].conn \in Conn \cup {NoConn}
                             /\ job[c].slow \in BOOLEAN /\ job[c].profiled \in BOOLEAN
                             /\ job[c].at \in 1..Len(job[c].sets) + 1
          /\ queue \subseteq Call \X Nat
          /\ running \subseteq Call \X Nat \X Conn
          /\ session \in [Conn -> [on : BOOLEAN, history : Seq(Call \X Nat)]]
          /\ \A k \in Conn : Len(session[k].history) <= Window
          /\ debug \in Settings
          /\ changes \in 0..Changes

Init == /\ job = [c \in Call |-> NewJob]
        /\ queue = {}
        /\ running = {}
        /\ session = [k \in Conn |-> [on |-> FALSE, history |-> <<>>]]
        /\ debug = Off
        /\ changes = 0

Becomes(c, j) == job' = [job EXCEPT ![c] = j]

-----------------------------------------------------------------------------
(* What a call asks for *)

Type(r) == IF r.via = "query" THEN r.type ELSE ExecuteType(r.q)
Parse(r) == IF r.via = "query" THEN ParseArguments(r.q, r.p) ELSE ParseExecute(r.q, r.p)
Placeholders(r) == IF r.via = "query" /\ Converts(r.q, r.p) THEN Len(r.q.names)
                   ELSE r.q.marks

\* parameters[index], or none at all.
SetAt(j, i) == IF i <= Len(j.sets) THEN j.sets[i] ELSE <<>>
Count(j) == IF j.sets = <<>> THEN 1 ELSE Len(j.sets)

\* A write with several sets goes out as one batch, item 0.
IsWrite(j) == Type(j.req) \in {"insert", "update"} /\ j.req.via = "execute"
SlipItems(j) == 1..Count(j)
Items(j) == IF IsWrite(j) /\ Count(j) > 1 THEN {0} ELSE 1..Count(j)
SetsOf(j, item) == IF item = 0 THEN [i \in 1..Count(j) |-> i] ELSE <<item>>

\* The server's result for one set; a value Matches does not name finds nothing.
Cell(b, i, n) == [t |-> "cell", of |-> b, row |-> i, column |-> n]
Selected(b) == CASE b = <<>> -> AllRows
                 [] b # <<>> /\ b[1].t = "value" /\ b[1].v \in DOMAIN Matches -> Matches[b[1].v]
                 [] OTHER -> 0
ResultOf(j, i) ==
    LET b == Bound(SetAt(j, i), Placeholders(j.req)) IN
    IF j.req.q.verb = "select"
    THEN Array([n \in 1..Selected(b) |->
                  Row([m \in DOMAIN j.req.q.columns |-> Cell(b, n, m)])])
    ELSE Upsert(Number(1), Number(i))

Sendable(j, i) == Binds(SetAt(j, i), Placeholders(j.req))
Execution(j, i) == [set |-> i, bound |-> Bound(SetAt(j, i), Placeholders(j.req))]

\* One logQuery call: about set 0, the whole list, or about one set, with the
\* statements its execution time is made of.
Entry(set, time) == [set |-> set, time |-> time]
Clock(c, item) == Entry(item, <<<<c, item>>>>)

SlipLatest(h) == h
Latest(h) == IF Len(h) <= Window THEN h ELSE SubSeq(h, Len(h) - Window + 1, Len(h))

\* A session that profiles keeps the last Window statements.
Profile(k, statement) ==
    session' = IF session[k].on
               THEN [session EXCEPT ![k].history = Latest(Append(@, statement))]
               ELSE session

Idle(k) == /\ \A w \in running : w[3] # k
           /\ \A c \in Call : job[c].conn # k

-----------------------------------------------------------------------------
(* The start of both handlers, to their first await *)

Enter(c, r) ==
    /\ job[c].pc = "idle"
    /\ LET parsed == Parse(r)
           j == [NewJob EXCEPT !.req = r, !.sets = parsed.sets]
       IN  \/ /\ ~parsed.ok
              /\ Becomes(c, [j EXCEPT !.pc = "done", !.answer = Failure])
              /\ UNCHANGED queue
           \/ /\ parsed.ok
              /\ ~debug.on
              /\ Becomes(c, [j EXCEPT !.pc = "fast"])
              /\ queue' = queue \cup {<<c, i>> : i \in Items(j)}
           \/ /\ parsed.ok
              /\ debug.on
              /\ Becomes(c, [j EXCEPT !.pc = "acquire", !.slow = TRUE])
              /\ UNCHANGED queue
    /\ UNCHANGED <<running, session, debug, changes>>

Answered(c) == job[c].answer # NoAnswer

\* catch: the error is the answer, and using gives the connection back.
SlipThrow(c) == Becomes(c, [job[c] EXCEPT !.pc = "done", !.answer = Failure])
Throw(c) ==
    Becomes(c, IF Answered(c) THEN [job[c] EXCEPT !.conn = NoConn]
               ELSE [job[c] EXCEPT !.pc = "done", !.conn = NoConn, !.answer = Failure])

-----------------------------------------------------------------------------
(* The fast paths *)

Lend(c, item, k) ==
    /\ <<c, item>> \in queue
    /\ Idle(k)
    /\ queue' = queue \ {<<c, item>>}
    /\ running' = running \cup {<<c, item, k>>}
    /\ UNCHANGED <<job, session, debug, changes>>

\* What a call has once the sets in "ran" are done: a result for each.
ResultsWith(j, ran) == [i \in DOMAIN j.results \cup ran |->
                           IF i \in ran THEN ResultOf(j, i) ELSE j.results[i]]

\* The result of a call once every item is there, by type and unpack.
FastResult(j) ==
    LET got == [i \in 1..Count(j) |-> j.results[i]]
        all == [i \in DOMAIN got |->
                  CASE j.req.via = "query" -> parseResponse(Type(j.req), got[i])
                    [] j.req.via = "execute" /\ ~j.req.unpack -> got[i]
                    [] IsWrite(j) /\ j.req.unpack -> parseResponse(Type(j.req), got[i])
                    [] OTHER -> Unwrapped(First(got[i]))]
    IN  IF Len(all) = 1 THEN all[1] ELSE Array(all)

Done(c, item, k) ==
    /\ <<c, item, k>> \in running
    /\ \A n \in DOMAIN SetsOf(job[c], item) : Sendable(job[c], SetsOf(job[c], item)[n])
    /\ running' = running \ {<<c, item, k>>}
    /\ Profile(k, <<c, item>>)
    /\ LET j == job[c]
           ran == SetsOf(j, item)
           j2 == [j EXCEPT
                    !.executed = @ \o [n \in DOMAIN ran |-> Execution(j, ran[n])],
                    !.results = ResultsWith(j, Range(ran))]
       IN  IF Answered(c) \/ DOMAIN j2.results # 1..Count(j) THEN Becomes(c, j2)
           ELSE Becomes(c, [j2 EXCEPT !.pc = "done",
                                      !.logged = Append(@, Clock(c, 0)),
                                      !.answer = FastResult(j2)])
    /\ UNCHANGED <<queue, debug, changes>>

\* A statement that fails, or gets no connection, rejects the call: of a batch
\* some sets may have been executed, and with Promise.all the other statements
\* stay where they are.  The server's profiler counts a statement that fails.
Fails(c, item, k) ==
    /\ <<c, item, k>> \in running
    /\ running' = running \ {<<c, item, k>>}
    /\ LET j == job[c] IN
       \E n \in 0..(IF item = 0 THEN Count(j) - 1 ELSE 0) :
          /\ \A i \in 1..n : Sendable(j, i)
          /\ Becomes(c, [j EXCEPT !.executed = @ \o [i \in 1..n |-> Execution(j, i)],
                                  !.pc = "done",
                                  !.answer = IF Answered(c) THEN @ ELSE Failure])
    /\ UNCHANGED session \/ Profile(k, <<c, item>>)
    /\ UNCHANGED <<queue, debug, changes>>

NotLent(c, item) ==
    /\ <<c, item>> \in queue
    /\ queue' = queue \ {<<c, item>>}
    /\ Throw(c)
    /\ UNCHANGED <<running, session, debug, changes>>

-----------------------------------------------------------------------------
(* The dedicated connection *)

\* runProfiler asks for mysql_debug again, after the connection has come.
Acquire(c, k) ==
    /\ job[c].pc = "acquire"
    /\ Idle(k)
    /\ Becomes(c, [job[c] EXCEPT !.conn = k,
                                 !.pc = IF debug.on /\ job[c].req.resource \in debug.listed
                                        THEN "setup" ELSE "statement"])
    /\ UNCHANGED <<queue, running, session, debug, changes>>

AcquireFails(c) ==
    /\ job[c].pc = "acquire"
    /\ Throw(c)
    /\ UNCHANGED <<queue, running, session, debug, changes>>

SlipProfilerSet(c) ==
    /\ job[c].pc = "setup"
    /\ Becomes(c, [job[c] EXCEPT !.pc = "statement", !.profiled = TRUE])
    /\ session' = [session EXCEPT ![job[c].conn].on = TRUE]
    /\ UNCHANGED <<queue, running, debug, changes>>

\* The four profilerStatements: history dropped, profiling on.
ProfilerSet(c) ==
    /\ job[c].pc = "setup"
    /\ Becomes(c, [job[c] EXCEPT !.pc = "statement", !.profiled = TRUE])
    /\ session' = [session EXCEPT ![job[c].conn] = [on |-> TRUE, history |-> <<>>]]
    /\ UNCHANGED <<queue, running, debug, changes>>

\* One of the four fails: the session is as before, emptied, or switched off.
PartlyReset(k) ==
    \E s \in {session[k], [on |-> session[k].on, history |-> <<>>], [on |-> FALSE, history |-> <<>>]} :
        session' = [session EXCEPT ![k] = s]

ProfilerFails(c) ==
    /\ job[c].pc = "setup"
    /\ Throw(c)
    /\ PartlyReset(job[c].conn)
    /\ UNCHANGED <<queue, running, debug, changes>>

IsLast(j) == j.at = Count(j)

\* What one result adds to the response: an array of more than one row is
\* taken for an array of results.
Pushed(j, result) ==
    LET shaped(x) == IF j.req.unpack THEN parseResponse(Type(j.req), x) ELSE x IN
    IF Length(result) > 1 THEN [n \in DOMAIN result.items |-> shaped(result.items[n])]
    ELSE <<shaped(result)>>

\* The last lines of rawExecute, after the loop.
SlowResult(j) ==
    LET r == j.response[1] IN
    CASE Len(j.response) > 1 -> Array(j.response)
      [] Len(j.response) = 1 /\ j.req.unpack /\ Type(j.req) = "select" ->
            IF Length(r) = 0 THEN Undefined ELSE Unwrapped(First(r))
      [] OTHER -> r

\* After a statement and what is logged of it: the next one, or the answer.
Continue(j) ==
    IF IsLast(j)
    THEN [j EXCEPT !.pc = "done", !.conn = NoConn, !.answer = SlowResult(j)]
    ELSE [j EXCEPT !.pc = "statement", !.at = @ + 1]

\* rawExecute: index > 0 and a multiple of the window, or the last one.
FlushDue(j) == (j.at > 1 /\ (j.at - 1) % Window = 0) \/ IsLast(j)

StatementDone(c) ==
    /\ job[c].pc = "statement"
    /\ Sendable(job[c], job[c].at)
    /\ Profile(job[c].conn, <<c, job[c].at>>)
    /\ LET j == job[c]
           result == ResultOf(j, j.at)
           j2 == [j EXCEPT !.executed = Append(@, Execution(j, j.at)),
                           !.results = ResultsWith(j, {j.at})]
           j3 == [j2 EXCEPT !.response = @ \o Pushed(j, result)]
       IN  \/ /\ j.req.via = "query"
              /\ Becomes(c, [j2 EXCEPT !.pc = "probe"])
           \/ /\ j.req.via = "execute"
              /\ j.profiled /\ FlushDue(j)
              /\ Becomes(c, [j3 EXCEPT !.pc = "flush"])
           \/ /\ j.req.via = "execute"
              /\ j.profiled /\ ~FlushDue(j)
              /\ Becomes(c, Continue(j3))
           \/ /\ j.req.via = "execute"
              /\ ~j.profiled
              /\ Becomes(c, Continue([j3 EXCEPT !.logged = Append(@, Clock(c, j.at))]))
    /\ UNCHANGED <<queue, running, debug, changes>>

\* A statement, the query of the profiler after it, or one of the four that
\* then reset the profiler fails.
SlowFails(c) ==
    /\ job[c].pc \in {"statement", "probe", "flush"}
    /\ Throw(c)
    /\ \/ UNCHANGED session
       \/ Profile(job[c].conn, <<c, IF job[c].pc = "statement" THEN job[c].at ELSE 0>>)
       \/ job[c].pc = "flush" /\ PartlyReset(job[c].conn)
    /\ UNCHANGED <<queue, running, debug, changes>>

\* rawQuery asks for the sum of the history whether or not it is profiled.
ProbeDone(c) ==
    /\ job[c].pc = "probe"
    /\ LET j == job[c] IN
       Becomes(c, [j EXCEPT !.pc = "done", !.conn = NoConn,
                            !.logged = Append(@, Entry(1, session[j.conn].history)),
                            !.answer = parseResponse(Type(j.req), j.results[1])])
    /\ Profile(job[c].conn, <<c, 0>>)
    /\ UNCHANGED <<queue, running, debug, changes>>

\* profileBatchStatements: one entry per statement in the history, with the
\* parameters found from the offset on.
FlushDone(c) ==
    /\ job[c].pc = "flush"
    /\ LET j == job[c]
           h == session[j.conn].history
           offset == IF j.at - 1 < Window THEN 0 ELSE j.at - 1
       IN  Becomes(c, Continue([j EXCEPT !.logged =
              @ \o [n \in DOMAIN h |-> Entry(offset + n, <<h[n]>>)]]))
    /\ session' = [session EXCEPT ![job[c].conn] = [on |-> TRUE, history |-> <<>>]]
    /\ UNCHANGED <<queue, running, debug, changes>>

UpdateDebug ==
    /\ changes < Changes
    /\ changes' = changes + 1
    /\ debug' \in Settings \ {debug}
    /\ UNCHANGED <<job, queue, running, session>>

-----------------------------------------------------------------------------
Next == \/ \E c \in Call : \E r \in Request[c] : Enter(c, r)
        \/ \E q \in queue, k \in Conn : Lend(q[1], q[2], k)
        \/ \E q \in queue : NotLent(q[1], q[2])
        \/ \E w \in running : Done(w[1], w[2], w[3]) \/ Fails(w[1], w[2], w[3])
        \/ \E c \in Call, k \in Conn : Acquire(c, k)
        \/ \E c \in Call : \/ AcquireFails(c) \/ ProfilerSet(c) \/ ProfilerFails(c)
                           \/ StatementDone(c) \/ ProbeDone(c) \/ FlushDone(c)
                           \/ SlowFails(c)
        \/ UpdateDebug

\* As long as a call waits for the pool or the server, one of them gets on: the
\* pool lends an idle connection, or the server answers what it was sent.
Progress == \/ \E q \in queue, k \in Conn : Lend(q[1], q[2], k)
            \/ \E w \in running : Done(w[1], w[2], w[3]) \/ Fails(w[1], w[2], w[3])
            \/ \E c \in Call, k \in Conn : Acquire(c, k)
            \/ \E c \in Call : \/ ProfilerSet(c) \/ ProfilerFails(c) \/ StatementDone(c)
                               \/ ProbeDone(c) \/ FlushDone(c) \/ SlowFails(c)

SafeSpec == Init /\ [][Next]_vars
Spec == SafeSpec /\ WF_vars(Progress)

-----------------------------------------------------------------------------
(* Properties *)

\* The parameter sets the caller meant, by compat-matrix 2.6 and 3: an object
\* binds by name where names are converted, else by number; a list binds by
\* position; what is not given is NULL.  (A '?' of a text that is converted
\* takes the number the library gives it; 3.3 numbers from 1.)
Meant(r, x) ==
    CASE x.t = "list" -> Expected(x.items, Placeholders(r))
      [] x.t = "table" /\ r.via = "query" /\ Converts(r.q, x) -> ByName(r.q, x)
      [] x.t = "table" /\ ~(r.via = "query" /\ Converts(r.q, x)) ->
            ByNumber(x, Placeholders(r))
      [] OTHER -> Nils(Placeholders(r))
MeantSets(r) ==
    IF r.via = "execute" /\ r.p.t = "list" /\ r.p.items # <<>>
       /\ \A i \in DOMAIN r.p.items : r.p.items[i].t \in {"list", "table"}
    THEN [i \in DOMAIN r.p.items |-> Meant(r, r.p.items[i])]
    ELSE <<Meant(r, r.p)>>

Told(c) == Answered(c) /\ job[c].answer # Failure

\* Whatever the path: every statement the server executes carries the values
\* the caller meant for its set, no set is executed twice, the sets of a write
\* are executed in their order, and a call that is told a result had every set
\* executed.
ExecutedAsAsked ==
    \A c \in Call : LET ran == job[c].executed IN
        /\ \A n \in DOMAIN ran : ran[n].bound = MeantSets(job[c].req)[ran[n].set]
        /\ \A m, n \in DOMAIN ran : ran[m].set = ran[n].set => m = n
        /\ ran # <<>> /\ IsWrite(job[c]) => \A n \in DOMAIN ran : ran[n].set = n
        /\ Told(c) => Len(ran) = Len(MeantSets(job[c].req))

\* Whatever a column that a call has read may hold, the call was given it as
\* the flags promise.
ValuesSurvive ==
    \A c \in Call : Told(c) => \A column \in Range(job[c].req.q.columns) : Survives(column)

\* The tables of compat-matrix 2.1 to 2.7; insert and update of what writes
\* nothing have no number to give.
PromisedOne(j, g) ==
    LET want == CASE j.req.via = "query" -> j.req.type
                  [] j.req.via = "execute" /\ j.req.unpack -> Type(j.req)
                  [] OTHER -> "raw"
    IN  CASE want = "insert" -> IF g.t = "upsert" THEN g.insertId ELSE Null
          [] want = "update" -> IF g.t = "upsert" THEN g.affectedRows ELSE Null
          [] want = "single" -> First(g)
          [] want = "scalar" -> IF Length(g) = 0 THEN Null ELSE g.items[1].columns[1]
          [] want = "select" -> Unwrapped(First(g))
          [] OTHER -> g
Promised(j) ==
    LET all == [i \in 1..Count(j) |-> PromisedOne(j, j.results[i])] IN
    IF Len(all) = 1 THEN all[1] ELSE Array(all)

\* compat-matrix 2.6 and 2.7: the answer has the form of the table for its
\* method, whatever mysql_debug is set to.  (undefined is let pass for null.)
TableAlways ==
    \A c \in Call : Told(c) => LET a == job[c].answer IN
        (IF a = Undefined THEN Null ELSE a) = Promised(job[c])

\* Where the dedicated connection changes the form of a SELECT: with several
\* sets, when it is prepare or a set finds more than one row; with one set,
\* when it is prepare and does not find exactly one row.
Distorted(j) ==
    /\ j.slow /\ j.req.via = "execute" /\ Type(j.req) = "select"
    /\ IF Count(j) = 1 THEN j.req.unpack /\ Length(j.results[1]) # 1
       ELSE j.req.unpack \/ \E i \in DOMAIN j.results : Length(j.results[i]) > 1

\* The answer has the form of the table except in exactly those cases.
AnswerFollowsTable ==
    \A c \in Call :
        Told(c) => (job[c].answer = Promised(job[c]) <=> ~Distorted(job[c]))

\* A call that holds a connection logs each statement once, in order and with
\* that statement's own time, whatever other calls have left in the session's
\* profiler; for rawQuery only when its resource is listed, for the profiler's
\* batches as long as the call fits its window.
LoggedOnceWithOwnTime ==
    \A c \in Call :
        LET j == job[c] IN
        Told(c) /\ j.slow /\ (j.req.via = "query" => j.profiled)
                /\ (j.profiled => Count(j) <= Window)
            => j.logged = [n \in 1..Count(j) |-> Entry(n, <<<<c, n>>>>)]

\* Once a call has its answer, a result or an error, nothing more is executed
\* for it.  Only the statements of a concurrent SELECT may still run, and what
\* executeType takes for one.
NothingAfterAnswer ==
    [][\A c \in Call : Answered(c) /\ (IsWrite(job[c]) \/ Count(job[c]) = 1)
          => job'[c].executed = job[c].executed]_vars

\* Every call is answered and gives its connection back, however many calls
\* compete for the pool.
EveryCallAnswered ==
    \A c \in Call : job[c].pc # "idle" ~> Answered(c) /\ job[c].conn = NoConn
================================================================================
