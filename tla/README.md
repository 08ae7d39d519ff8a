# oxmysql in TLA+

oxmysql is a FiveM resource that gives other resources access to MariaDB. It
runs on two JavaScript threads. The **parent** (`src/fivem/`) lives in the
FXServer and holds the exports; the **worker** (`src/worker/`) is a
`worker_threads` thread that holds the connection pool. They share nothing but
messages, and everything that is hard about the program comes from there:
what is in flight when a timer fires, a statement fails, a connection breaks
or the worker exits.

This directory models that core in TLA+, and around it the way of a query
from the caller's wrapper to the server and back: arguments, execution, results
and their form, the log and the window that shows it. TLC checks the models on
small instances; TLAPS proves every safety property they check for any
number of calls, transactions, connections, queries or rows. Paths below are
relative to the repository.

## The system

| Component | State | Operations | Depends on |
|---|---|---|---|
| Worker channel, `src/fivem/channel.ts` | `pending`, `nextId`, `exited`, one timer per entry | `send`, `emit`, `deliver`, timeout callback, `handleExit` | the worker's messages and its `exit` event |
| startTransaction, `src/fivem/index.ts:624-756` | per call: `connectionId`, `finalized`, abort signal, `commit` | begin, `queryFn`, 30 s timer, `finalize` | the channel |
| its handlers, `src/worker/database/startTransaction.ts`, `connection.ts` | `activeConnections`; per wrapper `closed`, `inFlight`, `idleWaiters`, `failed`, `transaction` | `beginTransaction`, `runTransactionQuery`, `endTransaction`, `track`, `waitUntilIdle`, dispose | the pool, the database |
| transaction, `src/worker/database/rawTransaction.ts`, `src/worker/profiler/index.ts` | the list, the wrapper, the profiler's history at the server | group, batch, fall back, flush the profiler, commit, roll back | the pool, the database |
| Bootstrap, `src/worker/worker.ts`, `pool.ts`, `index.ts:166-321,539-544` | `initializing`, `pool`, the options, the configuration, `isReady` | `initialize` and its retry loop, `updateConfig`, `awaitPool`, `awaitConnection`, `shutdown` | the database, the convars |
| Dispatcher, `src/worker/worker.ts:30-306` | none of its own | one handler per message; catches and answers | all handlers |
| query and execute, `rawQuery.ts`, `rawExecute.ts`, `src/worker/profiler/index.ts` | the session's profiler | run on the pool or on a connection of their own, log, unpack | the pool, parameters, values, `mysql_debug` |
| Parameters, `parseArguments.ts`, `parseExecute.ts`, `parseTransaction.ts` | none | pad, convert, reject | named-placeholders |
| Values, `typeCast.ts`, `parseResponse.ts` | three flags | convert columns and results | the connector |
| Query log, `src/worker/logger/`, `index.ts:132-142,213-228,325-491` | `logStorage` per resource, `mysql_ui`, `mysql_log_size` | append and drop, `oxmysql_debug`, `mysql`, `fetchResource` | the worker's `logQuery`, the convars |
| Window, `ui.lua`, `web/src/` | visibility, route, page, search, sorting, `maxPage`, one timer per table | open, visit, page, search, sort, fetch after 300 ms | the events of the query log |
| Exports and wrappers, `index.ts:495-829`, `src/compatibility/`, `lib/MySQL.ts`, `lib/MySQL.lua` | a query store per wrapper, the caller's promise | callback, `_async` and `Sync` form of each method, `await`, `store`, aliases | the channel |

How they interact. An export calls `channel.send`, which enters the request in
the book and posts it. The worker's `handleIncoming` takes messages in order,
but every handler is asynchronous: it runs to its first `await` and the next
message is taken meanwhile. A response goes back through `deliver`. `emit`
posts without an entry. The worker also posts unasked (`dbVersion`,
`triggerEvent`, `logQuery`). The channel settles requests itself on a timeout
and on the worker's exit, and calls `onSynthesizedError` in the middle of it,
which triggers a FiveM event and thereby code of other resources.

Behaviours that are hard, and where the line-by-line list is: `PROJECT.json`
lists every hazard found, each with the properties that watch it. In short:

- *Channel*: response against timeout against exit; a response that comes late;
  sends from inside the exit handler; data that cannot be cloned.
- *startTransaction*: the 30 s timer against the callback's own end; queries
  in flight or still on their way when the transaction ends; failure of BEGIN,
  COMMIT or ROLLBACK; thread ids that return with another transaction; the death
  of the worker.
- *transaction*: what a batch that failed has left behind; chunk boundaries;
  a COMMIT or ROLLBACK that fails; the profiler's window.
- *query, execute*: a dozen ways through two handlers that must bind the same
  values and give the same answer; `mysql_debug` changing under way; what the
  profiler finds in a pooled session; statements still running after an error.
- *Values*: integers at the width of a double, NULL in every branch.
- *Exports and wrappers*: who hears an error, and who hears at all.
- *Log and window*: the bound of the buffers; answers that do not say what they
  answer, and fetches that outlive their page.
- *Bootstrap*: queries before the pool; repeated `initialize`; configuration
  changes during the retry loop; a database that comes, goes and comes back; a
  stop at any point.

## Modules

| Module | What it is |
|---|---|
| `RequestBook` | Abstract: a call is asked, then answered or failed, once, and failed only for a reason |
| `WorkerChannel` | `channel.ts` with the worker's side of it and the worker's death |
| `WorkerChannelProofs` | Theorems about `WorkerChannel` |
| `Calls` | The exports and the wrappers of `lib/`, on top of `WorkerChannel` |
| `CallsProofs` | Theorems about `Calls` |
| `TransactionOutcome` | Abstract: a transaction's statements become durable together, and never for a caller that was told `false` |
| `StartTransaction` | `MySQL.startTransaction` on both threads, pool and sessions included |
| `StartTransactionProofs` | Theorems about `StartTransaction` |
| `RawTransaction` | `MySQL.transaction` on the worker, session and profiler included |
| `RawTransactionProofs` | Theorems about `RawTransaction`, and about what it sends for a list |
| `QueryArguments` | `parseArguments`, `parseExecute`, the connector's binding: operators |
| `ResultValues` | `typeCast`, `parseResponse`: operators, and what is promised of a column type |
| `QueryExecution` | The handlers of `query` and `execute`, on top of the two |
| `QueryExecutionProofs` | Theorems about the three |
| `Induction` | Two lemmas about the natural numbers that the proofs use |
| `QueryLog` | The log buffers and the window |
| `QueryLogProofs` | Theorems about `QueryLog` |
| `Bootstrap` | From resource start to resource stop |
| `BootstrapProofs` | Theorems about `Bootstrap` |
| `MC*` | Instances for TLC |

A definition named `Slip…` in a module is a plausible bug: a variant of the
definition after it. No specification uses one; they serve to test that each
property would notice (`PROJECT.json`, "mutants").

### WorkerChannel

`pending` is the Map, as a set of entries `[id, call]`; `nextId`, `exited` and
`timers` are the fields of the code. An action of the parent is one turn of its
event loop, with one exception. `handleExit` and the timeout callback take
entries out of the book first and then, entry by entry, report and settle. The
report runs foreign code, so it may call `send`: the entries that were taken
out wait in `synth`, `SettleNext` settles one, and only sends run in between.
`Post` keeps the order of `send`: entry, timer, `postMessage`, so a clone that
fails leaves the entry behind (`Unclonable`). Requests and responses in flight
are sets: an id never repeats and no property of this module is about the order
of two messages. The worker takes, serves and answers in any order and dies
between any two steps; a part of what it had posted may be lost with it.

### StartTransaction

One record of the parent's coroutine per transaction (`phase`, `connOf`,
`aborted`, `finalized`, `verdict`, `told`), one of the worker's wrapper per
connection (`holder` is `activeConnections`, `closed`, `running` is `inFlight`
by name), the pool's `slot`, and the session at the server (`inTxn`, `work`,
`durable`). Messages keep their order both ways. The callback is arbitrary: it
calls `queryFn` whenever it likes, awaited or not, and ends whenever it likes.
An `endTransaction` handler is an `Ender` record: it waits in `waitUntilIdle`
or has its COMMIT or ROLLBACK in flight. `Take` runs a handler to its first
`await`; `Acquire`, `BeginDone`, `QueryDone`, `EndDone` and their failures are
the continuations. A query ends in one of three ways (`QueryEnds`): with a
result, with an error of its own, or with one by which the server rolls the
whole transaction back, a deadlock above all (`QueryRolledBack`). The worker
does not tell the last two apart: it answers the error and keeps the wrapper
open, and what the session is sent afterwards runs outside any transaction.
`Faults` says what may go wrong in an instance, so that a
run can show a property under all faults that do not refute it. `applied` and
`undone` record what the server has executed and what it has rolled back; they
influence nothing. A callback's own statements are assumed to be none that end
a transaction (DDL, COMMIT).

### RawTransaction

One call, statement by statement. `Plan` is the grouping and chunking of the
fast path, or one statement at a time under the profiler; `todo` and `rest` are
what is left of it and of a failed batch. Each send has an outcome action and a
failure action that goes to the catch block, `Leave` is `using`'s dispose
followed by the response. What a failed batch leaves behind is decided by the
server and therefore by `Faults`: nothing (`bulk`), the rows before the bad one
(`row`), some rows although the failure was a passing one (`bulkPartial`), or no
transaction at all (`bulkDeadlock`). COMMIT has two steps, at the server and
back, so a connection can break between them. `history` is the profiler's, with
BEGIN in it and only as long as the server keeps it, and `logged` pairs a row
with the statement whose duration it is logged with. Statement parameters,
the durations themselves and the fast path's own `logQuery` calls are left out;
implicit commits by DDL statements are left out.

### Bootstrap

The parent's and the worker's copies of the configuration are one value each.
`TakeInitialize` is the handler to its first attempt; the retry loop is
`loop`, and `password` is the field of the options object that
`createConnectionPool` overwrites when it logs a failure. `pollers` is Node's
list of expired `sleep(0)` timers: the oldest fires, and goes to the end of the
list when there is no pool yet. `boots` allows a second `initialize`, which the
handler is written and tested for (`worker.ts:91`,
`tests/16-worker-dispatch.test.ts`).

### Calls

Extends `WorkerChannel` by what happens before `send` and after its promise is
settled. `Asks` says through which door each call comes: an export with a
callback, its `_async` form, `lib/MySQL.ts`, or `lib/MySQL.lua` with a callback
or with `.await`. `Make` is safeArgs, setCallback and `Send` in one turn;
`Refuse` is an assertion of safeArgs. `.then(invokeCb)` is a microtask of the
parent: `Then` runs before the next turn of its loop (`ChannelTurn`), which is
why a call that is settled is told before anything else can happen on that
thread. `stored` is the query store of either wrapper and `ran` the text a call
went out with.

### QueryArguments, ResultValues, QueryExecution

`QueryArguments` reads a parameter as plain, null, missing, a list or a table,
and an SQL text as its verb, its number of placeholders and its names. `IsArgument`
says what can be handed over at all, and `ExecutionAssumption` that every
request carries such parameters; `Matches` says how many rows a value selects.
`ResultValues` scales the widths down: a byte has 4 values, `readUIntBE` reads
2 of them and 31 is the last safe integer, so every value on both sides of
every boundary can be enumerated; a number beyond it is rounded as a double of
that width would be.

A call of `QueryExecution` is one invocation of `rawQuery` or `rawExecute`;
`pc` names the await it stands at. With `mysql_debug` off its statements are in
`queue` until the pool lends a connection, then in `running`; several of one
call at once when it is a SELECT with several sets, one batch when it is a
write. With `mysql_debug` on it holds one connection (`acquire`, `setup` for the
four profiler statements, `statement`, `probe` or `flush`), and every one of
those awaits may fail; a failure among the four leaves the session as it was,
emptied or switched off (`PartlyReset`). `session` is the profiler of a pooled connection, which
is never switched off and is what the next call on it finds. `executed`,
`logged` and `answer` record what the call did, to be compared with the tables
of `docs/compat-matrix.md` 2 and 3 (`MeantSets`, `Promised`).

### QueryLog

`log` is `logStorage`, `ui` and `logSize` are the parent's copies of two
convars. The window is `view` (visible, route, resources) and `table` (page,
search, sorting, `maxPage`, rows). Every change of the table arms its timer
anew (`Arm`); a page that goes away leaves its timer armed (`Move`). Such a late
timer asks for the resource and sorting of its own page, but for the page number
and the search of the filter object that all pages share (`store/resource.ts`),
as they are when it fires (`TimerFires`): after `onDestroy` page 0 and the last
search, and with another page open the ones chosen there. The rows of an answer carry the
fetch they answer in the model, so that the property can ask for it; the
program's answer does not, and no action reads it. A search is the set of places
it finds in the buffer, and sorting puts each of them as far on as there are
others before it (`Smaller`, `Before`, `sortQueries`), which is what the code's
comparator and `reverse()` make of ties, too.

## What is checked

| Run | Instance | Shows |
|---|---|---|
| `calls` | 4 calls, one by `await`, `lib/MySQL.ts`, a Lua callback and `_async`; 2 timed, 1 unclonable; 2 stored texts | of the channel: type, `AnswersMatch`, `SettledAtMostOnce`, `NoCallIsForgotten`, `TimersFollowBook`; timed calls settle, every call settles after the exit; refines `RequestBook` with its liveness. Of the callers: `HeardWhatWasAnswered`, and promises are settled (`CallersHearBack`) |
| `start_live` | 2 transactions, 1 query each, pool of 1, 2 thread ids; callbacks may outlive their transaction, queries and ends fail, the worker dies; errors propagate | `NoQueryBesideEnd`, `IdleIsClean`, `NoResultAfterAbort`, `ConnectionsComeBack` |
| `start_atomic` | the same with 2 queries each; every fault but stray callbacks | type; `OwnWorkOnly`; unless the callback went on past a rollback by the server (`Broken`), `AllOrNothing`, `TrueIsDurable`, and it refines `TransactionOutcome` |
| `raw` | every list of up to 4 statements of 3 texts (2 of them batched), chunks of 2, window of 2 | type; `GroupedLikeUngrouped`, `ReleasedClean`, `DurationsLogged`; refines `TransactionOutcome` |
| `boot` | 2 queries, 2 configurations, 2 boots, 1 change, 1 outage, no password | type; `ConfigMirrored`, `RunsOnceOnOpenPool`, `ReadyMeansPool`; the pool opens once the database stays, blocked queries run, a stop ends the worker |
| `query` | 2 calls over 2 connections: any of 15 requests beside any of 4; `mysql_debug` changes once; window of 2 | type; `ExecutedAsAsked`, `ValuesSurvive`, `AnswerFollowsTable`, `LoggedOnceWithOwnTime`, `NothingAfterAnswer`; `EveryCallAnswered` |
| `log` | 2 resources, 4 entries of 2 kinds, sizes 1 and 2 (3 under `mysql_debug`), pages of 2, 3 sortings; 1 convar change, 4 clicks | `BufferKeepsNewest`, `QuietShowsOwnPage` |

The invariants that relate two actors are the ones to read first.
`NoQueryBesideEnd` is the race the source calls M1: a `closed` flag, a count
and a waiter list must together keep COMMIT and ROLLBACK from overtaking a
query. `TrueIsDurable` and `AllOrNothing` are what a caller buys a transaction
for. `GroupedLikeUngrouped` is the promise of `docs/compat-matrix.md` 2.8 that
batching cannot be observed. `ExecutedAsAsked` and `AnswerFollowsTable` say that
the four ways through the handlers cannot be told apart; the second one says in
`Distorted` exactly when they can. `DurationsLogged` says exactly what the profiler
path logs, right or wrong, so that a change of it is noticed.

### Runs that refute a stated promise

Each of these checks one property that a comment or a document of the
repository states, and TLC finds a behaviour of the code that breaks it.

| Run | Property | The behaviour |
|---|---|---|
| `start_leak` | `ConnectionsComeBack` | BEGIN fails; the connection is neither released nor destroyed, and nobody knows its id |
| `start_stray` | `OwnWorkOnly` | `queryFn` after a normal end runs inside the transaction that holds the same thread id now; the abort signal is only raised by the timer |
| `raw_deadlock` | `GroupedLikeUngrouped` | a deadlock ends the transaction inside `batch()`; the fallback repeats the chunk outside any transaction and the call answers `true` |
| `boot_password` | `PoolOpensOnceDatabaseStays` | the catch masks the password in the object the next attempt uses |
| `query_shape` | `TableAlways` | with `mysql_debug` on, `prepare` of one set whose SELECT finds two rows answers with an array of rows instead of the first one |

The other cases of `Distorted` are of the same kind: under `mysql_debug`,
`prepare` of a SELECT with several sets does not unwrap single columns, a set
that finds several rows spreads them over the answer, and a single set that
finds nothing answers `undefined`.

More that the models show of the code and that has no run of its own:

- With `Faults = {"bulkPartial"}` (a lock wait timeout in the middle of a bulk
  UPDATE) `RawTransaction` executes rows again that were already executed, and
  commits them twice.
- A deadlock inside `startTransaction` rolls the whole transaction back at the
  server, but `runTransactionQuery` (`startTransaction.ts:64`) answers it like any
  error and `queryFn` (`index.ts:712`) only throws. A callback that catches the
  error, or had not awaited that query, goes on: the results it has seen are gone,
  its later queries are committed one by one, a COMMIT succeeds and the caller is
  told `true`; if the callback then returns `false`, those queries stay.
  `Broken` names these transactions; with it replaced by the empty set TLC finds
  `AllOrNothing`, `TrueIsDurable` and `ImplementsOutcome` violated. A callback that
  lets the error end it is safe.
- `profiler/index.ts:14` speaks of "accurate query profiling results", but the
  profiler path of `RawTransaction` pairs durations with rows by position
  (`LogOf`). BEGIN is in the history, so a list shorter than 100 logs every row
  with the duration of the statement before it, the first with BEGIN's. A list
  longer than 100 never logs its first hundred rows: the flush after row 101
  passes offset 100, so the durations of rows 2 to 101 are given to rows 101 and
  on, and a later flush may log the last row a second time. Only a list of
  exactly 100 is right. `LoggedOnceWithOwnTime` excepts the same window in
  `execute`, where there is no BEGIN.
- A buffer holds one entry more than `mysql_log_size`, which `src/README.md:39`
  calls its size, and does not shrink when the size is lowered or `mysql_debug`
  is switched off. `BufferKeepsNewest` states what the code keeps.
- `docs/compat-matrix.md` 3.1 wants an error for a parameter list longer than the
  placeholders; `parseArguments` throws, but `parseExecute` does not look, and the
  surplus values are ignored. `ExecutedAsAsked` is about the values that have a
  placeholder.
- A text with a `:` or `@` and a table goes through the library also when it
  names nothing. What the library finds outside strings is bound; a `?` there is
  read as a name too, the number of it counted from 0 (`Converts`), where
  `docs/compat-matrix.md` 3.3 counts from 1.
- Data that cannot be cloned makes `postMessage` throw inside the Promise
  executor: the promise rejects, although `channel.ts:17` says it never does,
  its entry stays in the book, and as `.then` has no catch the caller's own
  promise is pending for ever. `CallersHearBack` excepts exactly this.
- Queries that wait for the pool poll independently of each other, so they may
  overtake each other (`pool.ts:21`), which `docs/compat-matrix.md:539` excludes.
- `store` of `lib/MySQL.ts` returns the new length of the store and safeArgs
  reads it as an index from zero, so a stored query runs the text stored next,
  or is refused. `StoredRight` states what happens. The Lua store is right.
- `prepare` and `rawExecute` throw on a list of nothing but nulls, which is taken
  for a list of objects.
- `rawQuery` ignores what `runProfiler` returns: for a resource that is not
  listed it logs whatever the session's profiler holds.
- REPLACE, and a verb followed by a newline, are taken for a SELECT: several sets
  run concurrently and may still be executed after the caller has an error.
- The `>>` button leads to page -1 when there is nothing to show, and beyond the
  last page when the number of pages is still that of another resource.

### Bounds, and why they are enough

- *Channel and callers*: three calls are what a late response needs to meet a
  dropped entry and a newer id; the fourth is the unclonable one. Each comes
  through another door, two of them with a stored query. Ids are not bounded and do
  not wrap: `nextId` is a double and cannot reach 2^53 in a server's life.
- *StartTransaction*: two transactions over a pool of one make the second wait
  for the first and take over its thread id; two queries make one finish while
  another is in flight. A second thread id is what the pool opens after it had
  to destroy the first.
- *RawTransaction*: four statements with chunks of two give a group with two
  full chunks, groups with a remainder, single statements in between, and every
  order of those. `ChunkSize` stands for 1000 and `Window` for 100; both only
  matter relative to the length of the list. With a window of two a list falls
  short of it, fills it, passes it by one and reaches the next flush; the theorem
  has any window and any length.
- *QueryExecution*: the 15 requests take every branch of the parsers and both
  handlers; three sets under a window of two reach past it. The second call
  competes for a pool of two and leaves behind, or finds, the profiler of a
  shared session, so no third call is needed to see either.
- *QueryLog*: three entries with a size of one overflow a buffer, and with pages
  of two they fill one and begin another; the fourth is the other resource's.
  The sortings are none, one ascending and one descending; four clicks
  open the window, visit a resource, leave it and visit another, or change page,
  search or sorting twice, while events of each are under way. `PageSize` stands
  for 10 and `DebugSize` for 10000.
- *Bootstrap*: one outage puts the database down before, during or after the
  connection; one change puts `updateConfig` anywhere around `initialize`;
  `attempt` stops at 2, which stands for more than one.

### Fairness

- `WorkerChannel`: armed timers fire, a turn that began ends, the exit event
  comes. Nothing makes the worker answer.
- `Calls`: also, Node runs its microtasks.
- `QueryExecution`: as long as any call waits, the pool lends an idle connection
  or the server answers some statement (`Progress`, for the calls together). It
  is not fair to each call: what helps a call is that the others end.
- `StartTransaction`: both event loops run, the 30 s timer fires, the server
  answers what it was sent, the channel drains on exit. Nothing makes a callback
  call `queryFn` or end.
- `Bootstrap`: both event loops run, attempts and sleeps end, the grace timer
  fires. `pool.end()` may stall, and the database need not ever come.

All of it is weak fairness: each of these steps, once possible, stays possible
until it is taken, because nothing else consumes a fired timer or a message at
the head of a queue. `QueryLog` states safety only. Deadlock checking is off in the runs whose system may
rightly come to rest (all calls settled, all transactions done, resource
stopped); `RawTransaction` ends in an explicit `Over`.

## What is proved

Eight modules hold theorems, each about every value of its component's
constants that the named assumption there admits: any set of calls,
transactions, connections, resources or rows, any size of pool, chunk, window
and buffer, any number of restarts and changes. The assumptions
(`CallAssumption`, `CallsAssumption`, `StartTransactionAssumption`,
`RawTransactionAssumption`, `BootstrapAssumption`, `LogAssumption`,
`ConvertNamedAssumption`, `ExecutionAssumption`, `WidthAssumption`) only say
what kind of value a constant is. Two hypotheses say more, that callbacks are not stray
and that `Clean`; they stand in the theorems that need them, and a run for
each shows that it is needed.

| Theorem | States |
|---|---|
| *WorkerChannelProofs* | |
| `InvariantHolds` | `SafeSpec => []IInv` |
| `TypeCorrect` | `SafeSpec => []TypeOK` |
| `AnswersAlwaysMatch` | `SafeSpec => []AnswersMatch` |
| `AlwaysSettledAtMostOnce` | `SafeSpec => []SettledAtMostOnce` |
| `NeverForgotten` | `SafeSpec => []NoCallIsForgotten` |
| `TimersAlwaysFollowBook` | `SafeSpec => []TimersFollowBook` |
| `ChannelImplementsBook` | `SafeSpec => Book!SafeSpec` |
| *CallsProofs* | |
| `CallsKeepChannel` | `CallsSafeSpec => SafeSpec` |
| `CallersHearRight` | `CallsSafeSpec => []HeardRight` |
| `CallersHeardAndStored` | `CallsSafeSpec => []HeardWhatWasAnswered` |
| *StartTransactionProofs* | |
| `TypeCorrect` | `SafeSpec => []TypeOK` |
| `EndsAlone` | `SafeSpec => []NoQueryBesideEnd` |
| `LentClean` | `SafeSpec => []IdleIsClean` |
| `AbortedGetsNoResult` | `SafeSpec => NoResultAfterAbort` |
| `WorksForItself` | without stray callbacks, `SafeSpec => []OwnWorkOnly` |
| `Atomic` | without stray callbacks, `SafeSpec => []AllOrNothing` |
| `TrueKept` | without stray callbacks, `SafeSpec => []TrueIsDurable` |
| `OutcomeImplemented` | without stray callbacks, `SafeSpec => ImplementsOutcome` |
| *RawTransactionProofs* | |
| `PlanSendsTheList` | `Plan(list)` is every row once, in order, in batches that may be |
| `TypeCorrect` | `Spec => []TypeOK` |
| `ReleasedIsClean` | `Spec => []ReleasedClean` |
| `GroupedAsUngrouped` | if `Clean`, `Spec => []GroupedLikeUngrouped` |
| `OutcomeImplemented` | if `Clean`, `Spec => ImplementsOutcome` |
| `LoggedAsTold` | `Spec => []DurationsLogged` |
| *BootstrapProofs* | |
| `TypeCorrect` | `SafeSpec => []TypeOK` |
| `ConfigReachesWorker` | `SafeSpec => []ConfigMirrored` |
| `RunsOnce` | `SafeSpec => []RunsOnceOnOpenPool` |
| `ReadyIsTrue` | `SafeSpec => []ReadyMeansPool` |
| *QueryLogProofs* | |
| `BuffersKeepNewest` | `Spec => []BufferKeepsNewest` |
| `QuietShowsTheAnswer` | `Spec => []QuietShowsOwnPage` |
| *QueryExecutionProofs* | |
| `TypeCorrect` | `SafeSpec => []TypeOK` |
| `RunsAsAsked` | `SafeSpec => []ExecutedAsAsked` |
| `NothingRunsAfterwards` | `SafeSpec => NothingAfterAnswer` |
| `LogsOwnTime` | `SafeSpec => []LoggedOnceWithOwnTime` |
| `AnswersByTheTable` | `SafeSpec => []AnswerFollowsTable` |
| `BigintsExact`, `BitsExact` | `BigintSurvives`, `BitSurvives` |
| `ValuesAreKept` | `SafeSpec => []ValuesSurvive` |

`SafeSpec` is a specification without its fairness. Every proof of an invariant
has one lemma per action, then one for `Next`, then the theorem by PTL. The
arguments, component by component:

**WorkerChannel.** None of the properties is inductive. That a response finds
its own call depends on messages that are already under way when the book drops
an entry. `IInv` therefore says, of entries in the book, of entries being
settled and of messages anywhere: their ids have been given out, two of them
with the same id are of the same call, every entry's call has been sent and not
been settled, and after the exit the book is empty. The refinement uses `IInv`
too: a step that settles an entry is a `Fail` of `RequestBook` only because
timed entries and the exit are the only reasons to be in `synth`.

**Calls.** `CallsKeepChannel` carries all of this over to the composition: every
step of `Calls` is a step of the channel or leaves its variables alone, so each
theorem above is one about `CallsSafeSpec` too. `CallersHearRight` rests on it:
that a result is the reply to the caller's own call needs `AnswersMatch` of the
channel, that it is heard once needs that a call is `handled` before it is
told, and that an answer once given stays (`AnswerStays`) needs the channel's
invariant. `CallersHeardAndStored` adds that a store only grows (`SInv`).

**StartTransaction.** `IInv` follows a connection through the hands of its
transaction. From the response that names it until `finalize` has posted its
one `endTransaction`, and from there until the handler has taken that message,
its wrapper is registered, open and inside its transaction (`UnfinishedHas`,
`BegunHas`, `MailNames`, `EndsDue`, `EndsOnce`); afterwards it has one ender
(`EndersHave`) and then nobody (`UnheldClean`). `NoQueryBesideEnd` is inductive
only with all of it, and all of it holds under every fault. `AInv` is about the
same transaction's work: messages of a connection are in the order begin,
queries, end (`EndsInOrder`, `QueriesBeforeEnd`, `BeginsOnce`), a query that runs
is the holder's own (`OwnInTxn`, `WorkInProgress`), the session has all of the
work or has lost all of it (`Whole`), and COMMIT is sent on a verdict only
(`CommitsOnVerdict`, `ResultsTrue`). It needs `"stray" \notin Faults`: run
`start_stray` is the counterexample without it. `RInv` is about rollbacks by the
server: the session of a transaction under way is inside it unless the server
has undone it (`OpenUntilUndone`), and of an undone one nothing is durable unless
it is `Broken` (`OnlyBroken`). That needs that queries are asked and served in
the order of their numbers (`AskedInOrder`, `ServedInOrder`): what runs after the
rollback was issued after it. `OutcomeStep` maps every step to one of
`TransactionOutcome`.

**RawTransaction.** `CallInv` follows the flag, the connection and the session,
under every fault. `BatchInv` says which rows the open transaction contains and
that `todo` and `rest` hold the others, in order; it holds initially because of
`PlanSendsTheList`, which is an induction over the folds of `Groups` and
`FlattenSeq`: a set of numbers with 0 and every successor is `Nat`
(`SetInduction`). `Clean` excludes the two faults with which a batch leaves
something else behind than the code's fallback expects: `bulkDeadlock`, with
which run `raw_deadlock` refutes the property, and `bulkPartial`, which has no run
of its own. `LogInv` is about the profiler path, for any
length and window: after how many rows the last flush was, what the server's
history holds since (`Progress`, `AtStatement`, `AtFlush`), and that what is logged is
`LogOf` up to there; a flush within the list, the one of a full window, and the
last one each add what `LogOf` says (`FlushWithin`, `FlushShort`, `FlushLast`).

**Bootstrap.** `Inv` says that a worker without the parent's configuration has an
`updateConfig` with it in its mail, and no message after that one changes the
configuration again (`ConfigDue`); that a query is in the mail, polling or given
to the pool, and once (`MailOnce`, `PlacesApart`); and that whatever says that
there is a pool says so because there is one (`PoolFirst`).

**QueryLog.** `BufferInv` is the property together with the sizes there can be.
For the window, `FetchUnderWay` says that a table which does not show the answer
to its own last fetch has an armed timer, a request or an answer under way that
will lead to it, and that the last one of them is the one that counts. That the
rows answer it (`PagesKnown`) is true of an answer from the moment it is made
(`PageAnswers`), for any integer as the page number, because the `>>` button can
make it negative: the order of entries is strict and total (`BeforeIsOrder`), so
the map from the places found to their ranks is one-to-one and, by the pigeonhole
principle, onto; sorting therefore moves every entry it is given and repeats
none (`SortMoves`), a slice takes each place at most once (`SliceShape`), and two
entries of a buffer differ in their number because of `BufferKeepsNewest`. The
order needs texts and times that can be compared, which is what `EntriesKnown`
carries from the log message to the buffer.

**QueryExecution.** `ParsedAsMeant` is about the parsers: for everything that
`IsArgument` admits, the sets that `parseArguments` and `parseExecute` yield
bind, at every placeholder, what `docs/compat-matrix.md` 3 says is bound there.
`IInv` carries this to the server: a call's sets are those of its request, each
is in the queue, running or executed, and never two of these (`JobsOK`, `PendingOK`,
`RanOK`, `ProgressOK`), and a connection is lent to one call or one statement
(`Exclusive`). `LInv` says that the session of a profiled call that fits the window holds
exactly the statements the call has executed, and what has been logged by each
place in the handler. `AInv` says what is collected so far: results are those of the
statements, `response` is the array as the loop has built it. From the four
shapes of an answer (`QueryShape`, `ExecuteShape`; `FastAnswer`, `SlowAnswer`)
it follows that the caller is told what the tables say, `Distorted` excepted.
`ValuesSurvive` is about no state, but about every integer column of one bit more than
the safe range and every buffer up to the width of BIT(64): that the
loop of `decodeBitFullInteger` computes anything at all is an induction over the
bytes (`ReadExists`), that up to `NarrowBytes` of them are a safe integer needs
`Base^NarrowBytes <= SafeMax + 1` (`NarrowIsSafe`), and that the first byte is all
of the value only of a single one is `FirstByte`.

### What is model-checked only

- Every liveness property, and the fairness of `RequestBook` in `ImplementsBook`
  (`ChannelImplementsBook` is its safety half): fairness and ENABLED are out of the
  prover's reach.
- The five refuted properties, of course.

## Plan

Done: the inventory, all modules, and a proof of every safety and action property
that a passing run checks. Nothing of it is open; what
the models leave out is listed next.

## Not modelled

Custom logger services, the update check, performance counters,
connection-string parsing, build and benchmark code keep no state the modelled
behaviour depends on. Of the window, the chart, the tooltip, the totals and the
debounced search among resources are presentation. The 150 ms in which a closed
window fades out (`App.svelte:73`), and a page that is opened again keeps its
state, are left out: the window is gone at once. `fetchResource` answers only a
player with the right to the `mysql` command (`index.ts:453`); as the window
was opened with the same right, it is assumed to last, and without it a page
would wait for an answer. The resource in a late fetch is the one its page was
opened for. Of the values, dates depend
on the time zone of the process and on text, and JSON and other types pass
through unchanged. `parseTransaction`'s three forms are one success or failure;
`parseValues` is called by nothing. `isReady_async`, `awaitConnectionSync` and the
like are generated for methods that never call back, and never settle; nothing
is concurrent about that and it has no property. `mysql_slow_query_warning` and
every other decision about what is printed is left out.

The connector's pool, the server and Node's event loop are external and
modelled from how the code uses them: a pool lends an idle connection or opens
one up to its limit; a session executes its commands in order, rolls back when
its connection ends and may have committed when the answer is lost; its profiler
counts a statement that fails or not, and none of the SET statements that switch
it; timers with
the same delay fire in the order they were armed; microtasks run before the
next turn; events between a client and the server keep their order. Formatting
and log lines are abstracted everywhere.
