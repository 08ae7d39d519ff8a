----------------------------- MODULE RawTransaction ----------------------------
(***************************************************************************)
(* MySQL.transaction on the worker: rawTransaction.ts with the connection  *)
(* wrapper it disposes of (connection.ts), the profiler it turns on under  *)
(* mysql_debug (profiler/index.ts), and the database session it drives.    *)
(*                                                                         *)
(* One call, statement by statement.  A statement of the list is named by  *)
(* its place in the list, its row; its text decides how it is grouped.     *)
(*                                                                         *)
(* A definition named Slip... is a faulty variant of the one that follows  *)
(* it, kept to test that a property notices it; no specification uses it.  *)
(***************************************************************************)
EXTENDS Naturals, Sequences, FiniteSets, SequencesExt

CONSTANTS Sql,        \* statement texts
          Dml,        \* those isDML accepts
          MaxLength,  \* bound: statements in the list
          ChunkSize,  \* BATCH_CHUNK_SIZE
          Window,     \* profiling_history_size, and rawTransaction's "% 100"
          Faults      \* what may go wrong in this instance, see below

\* "parse": the list is malformed; "acquire": no connection to be had;
\* "begin": BEGIN fails; "row": the server rejects a statement; "lost": the
\* connection breaks; "end": COMMIT or ROLLBACK fails; "deadlock": the server
\* rolls the whole transaction back under a single statement.  Three ways a
\* batch fails though every row of it is good: "bulk", with no effect;
\* "bulkPartial", with its first rows done; "bulkDeadlock", as "deadlock".
FaultKinds == {"parse", "acquire", "begin", "row", "lost", "end", "deadlock",
               "bulk", "bulkPartial", "bulkDeadlock"}

ASSUME RawTransactionAssumption ==
    /\ Dml \subseteq Sql /\ MaxLength \in Nat
    /\ ChunkSize \in Nat \ {0} /\ Window \in Nat \ {0}
    /\ Faults \subseteq FaultKinds

VARIABLES input,      \* the texts of the parsed list
          bad,        \* the rows the server rejects
          hasProfiler,\* mysql_debug covers the invoking resource
          pc,         \* the await the call is at
          todo,       \* what is still to be sent, see Plan
          rest,       \* rows of a failed batch still to be sent one by one
          conn,       \* the connection: "none", "held", "idle", "destroyed"
          flag,       \* wrapper.transaction
          inTxn,      \* the session has a transaction open
          lost,       \* the session is gone
          work,       \* rows executed in the open transaction, in order
          durable,    \* rows committed, in order
          history,    \* the profiler's record of the last statements, 0 for BEGIN
          logged,     \* <<row, statement whose duration it is logged with>>
          caught,     \* err: "none", or what threw: "statement" or "commit"
          answer      \* what the caller is told: "none", "true", "error"

call    == <<input, bad, hasProfiler>>
session == <<inTxn, lost, work, durable>>
trace   == <<history, logged>>
vars    == <<call, pc, todo, rest, conn, flag, session, trace, caught, answer>>

Places == {"parse", "acquire", "profiler", "begin", "statement", "flush", "committed",
           "rollback", "done"}
Row == 1 .. MaxLength
Lists == UNION {[1 .. n -> Sql] : n \in 0 .. MaxLength}

\* Every variable has its type, the flag is down once the call is over, and a
\* connection that was asked for has an end by then (the "unreachable" branch
\* of dispose, connection.ts).
TypeOK == /\ input \in Lists /\ bad \subseteq Row
          /\ hasProfiler \in BOOLEAN /\ flag \in BOOLEAN /\ inTxn \in BOOLEAN /\ lost \in BOOLEAN
          /\ pc \in Places
          /\ todo \in Seq([batched : BOOLEAN, rows : Seq(Row)]) /\ rest \in Seq(Row)
          /\ conn \in {"none", "held", "idle", "destroyed"}
          /\ work \in Seq(Row) /\ durable \in Seq(Row)
          /\ history \in Seq(Row \cup {0}) /\ logged \subseteq Row \X (Row \cup {0})
          /\ caught \in {"none", "statement", "commit"}
          /\ answer \in {"none", "true", "error"}
          /\ pc = "done" => ~flag /\ conn # "held"

-----------------------------------------------------------------------------
(* Grouping *)

Rows(list) == [i \in 1 .. Len(list) |-> i]

SlipGroupAnywhere(list) ==
    FoldLeft(LAMBDA groups, i :
                LET same == {g \in DOMAIN groups : list[groups[g][1]] = list[i]} IN
                IF same = {} THEN Append(groups, <<i>>)
                ELSE LET g == CHOOSE h \in same : TRUE
                     IN  [groups EXCEPT ![g] = Append(@, i)],
             <<>>, Rows(list))

\* groupTransactions: consecutive rows with the same text.
Groups(list) ==
    FoldLeft(LAMBDA groups, i :
                IF groups # <<>> /\ list[Last(groups)[1]] = list[i]
                THEN Append(Front(groups), Append(Last(groups), i))
                ELSE Append(groups, <<i>>),
             <<>>, Rows(list))

SlipChunkEndLost(group) ==
    [c \in 1 .. ((Len(group) + ChunkSize - 1) \div ChunkSize) |->
        SubSeq(group, (c - 1) * ChunkSize + 1,
                      IF c * ChunkSize < Len(group) THEN c * ChunkSize - 1 ELSE Len(group))]

\* The slices of a group, ChunkSize rows each and the rest.
Chunks(group) ==
    [c \in 1 .. ((Len(group) + ChunkSize - 1) \div ChunkSize) |->
        SubSeq(group, (c - 1) * ChunkSize + 1,
                      IF c * ChunkSize < Len(group) THEN c * ChunkSize ELSE Len(group))]

\* What is sent, in order.  Without the profiler a DML group of several rows
\* goes out in batches; everything else goes out row by row.
Plan(list) ==
    LET Single(row) == [batched |-> FALSE, rows |-> <<row>>]
        Sent(group) == IF Len(group) > 1 /\ list[group[1]] \in Dml
                       THEN [c \in DOMAIN Chunks(group) |->
                                [batched |-> TRUE, rows |-> Chunks(group)[c]]]
                       ELSE [i \in DOMAIN group |-> Single(group[i])]
    IN  IF hasProfiler THEN [i \in 1 .. Len(list) |-> Single(i)]
        ELSE FlattenSeq([g \in DOMAIN Groups(list) |-> Sent(Groups(list)[g])])

-----------------------------------------------------------------------------
(* The session at the server, and the end of the call *)

\* A statement outside a transaction commits by itself.
Execute(rows) == IF inTxn THEN work' = work \o rows /\ UNCHANGED durable
                 ELSE durable' = durable \o rows /\ UNCHANGED work

RolledBack == work' = <<>> /\ inTxn' = FALSE /\ UNCHANGED <<lost, durable>>

LastOf(n, seq) == IF Len(seq) <= n THEN seq ELSE SubSeq(seq, Len(seq) - n + 1, Len(seq))

Recorded(statement) == IF hasProfiler THEN LastOf(Window, Append(history, statement)) ELSE history

\* `using connection`: dispose, then the response.
Leave(result, failed) ==
    /\ answer' = result /\ pc' = "done"
    /\ conn' = IF failed \/ flag' THEN "destroyed" ELSE "idle"

-----------------------------------------------------------------------------
Init == /\ input \in Lists
        /\ bad \in SUBSET (1 .. Len(input)) /\ ("row" \notin Faults => bad = {})
        /\ hasProfiler \in BOOLEAN
        /\ pc = "parse" /\ todo = <<>> /\ rest = <<>> /\ conn = "none" /\ flag = FALSE
        /\ inTxn = FALSE /\ lost = FALSE /\ work = <<>> /\ durable = <<>>
        /\ history = <<>> /\ logged = {} /\ caught = "none" /\ answer = "none"

\* parseTransaction, then getConnection.
Parse == /\ pc = "parse"
         /\ \/ pc' = "acquire" /\ UNCHANGED answer
            \/ "parse" \in Faults /\ pc' = "done" /\ answer' = "error"
         /\ UNCHANGED <<call, todo, rest, conn, flag, session, trace, caught>>

\* getConnection throws when the pool's acquire times out: the dispatcher
\* answers for the call.
Acquire == /\ pc = "acquire"
           /\ \/ /\ conn' = "held" /\ pc' = IF hasProfiler THEN "profiler" ELSE "begin"
                 /\ UNCHANGED answer
              \/ "acquire" \in Faults /\ pc' = "done" /\ answer' = "error" /\ UNCHANGED conn
           /\ UNCHANGED <<call, todo, rest, flag, session, trace, caught>>

\* The connection breaks under the call, and the server rolls back.
Lose == /\ "lost" \in Faults /\ conn = "held" /\ ~lost
        /\ lost' = TRUE /\ inTxn' = FALSE /\ work' = <<>>
        /\ UNCHANGED <<call, pc, todo, rest, conn, flag, durable, trace, caught, answer>>

\* What the catch block sees when the operation under way throws.
Throws(what) == pc' = "rollback" /\ caught' = what /\ UNCHANGED <<call, conn, answer>>

\* The four SET statements of runProfiler.
ProfilerSet == /\ pc = "profiler"
               /\ \/ ~lost /\ pc' = "begin" /\ UNCHANGED <<call, conn, caught, answer>>
                  \/ lost /\ Throws("statement")
               /\ UNCHANGED <<todo, rest, flag, session, trace>>

Begin == /\ pc = "begin" /\ ~lost
         /\ flag' = TRUE /\ inTxn' = TRUE
         /\ history' = Recorded(0)
         /\ todo' = Plan(input) /\ pc' = "statement"
         /\ UNCHANGED <<call, rest, conn, lost, work, durable, logged, caught, answer>>

SlipBeginUnawaited ==
    /\ pc = "begin" /\ (lost \/ "begin" \in Faults)
    /\ flag' = TRUE /\ todo' = Plan(input) /\ pc' = "statement"
    /\ UNCHANGED <<call, rest, conn, session, trace, caught, answer>>

\* beginTransaction raises its flag before it knows.
BeginFails == /\ pc = "begin" /\ (lost \/ "begin" \in Faults)
              /\ flag' = TRUE
              /\ Throws("statement")
              /\ UNCHANGED <<todo, rest, session, trace>>

InFallback == rest # <<>>
NextIsBatch == ~InFallback /\ todo # <<>> /\ Head(todo).batched
NextIsRow == InFallback \/ (todo # <<>> /\ ~Head(todo).batched)
NextRow == IF InFallback THEN Head(rest) ELSE Head(todo).rows[1]

\* connection.batch for one chunk.
BatchDone == /\ pc = "statement" /\ NextIsBatch /\ ~lost
             /\ bad \cap ToSet(Head(todo).rows) = {}
             /\ Execute(Head(todo).rows)
             /\ todo' = Tail(todo)
             /\ UNCHANGED <<call, pc, rest, conn, flag, inTxn, lost, trace, caught, answer>>

\* A batch that fails may have executed its first n rows: none, or those
\* before one that is bad or fails in passing.
MayStopAfter(n, chunk) ==
    \/ n = 0 /\ (lost \/ "bulk" \in Faults \/ bad \cap ToSet(chunk) # {})
    \/ /\ n > 0 /\ ~lost
       /\ "bulkPartial" \in Faults \/ chunk[n + 1] \in bad
       /\ bad \cap {chunk[i] : i \in 1 .. n} = {}

\* What it leaves of the session: those rows, or nothing of its transaction.
AfterFailedBatch(chunk) ==
    {IF inTxn THEN [work |-> work \o SubSeq(chunk, 1, n), inTxn |-> TRUE, durable |-> durable]
     ELSE [work |-> work, inTxn |-> FALSE, durable |-> durable \o SubSeq(chunk, 1, n)] :
        n \in {m \in 0 .. Len(chunk) - 1 : MayStopAfter(m, chunk)}}
    \cup IF "bulkDeadlock" \notin Faults \/ lost THEN {}
         ELSE {[work |-> <<>>, inTxn |-> FALSE, durable |-> durable]}

\* ... and its catch: the rows of the chunk are then sent one by one.
BatchFails ==
    /\ pc = "statement" /\ NextIsBatch
    /\ \E after \in AfterFailedBatch(Head(todo).rows) :
          /\ work' = after.work /\ inTxn' = after.inTxn /\ durable' = after.durable
    /\ rest' = Head(todo).rows /\ todo' = Tail(todo)
    /\ UNCHANGED <<call, pc, conn, flag, lost, trace, caught, answer>>

\* The profiler path reports after every Window rows but the first, and at
\* the end of the list.
FlushDue(row) == hasProfiler /\ (row = Len(input) \/ (row > 1 /\ (row - 1) % Window = 0))

\* connection.query for one row.
RowDone == /\ pc = "statement" /\ NextIsRow /\ ~lost /\ NextRow \notin bad
           /\ Execute(<<NextRow>>)
           /\ IF InFallback THEN rest' = Tail(rest) /\ UNCHANGED todo
                            ELSE todo' = Tail(todo) /\ UNCHANGED rest
           /\ history' = Recorded(NextRow)
           /\ pc' = IF FlushDue(NextRow) THEN "flush" ELSE "statement"
           /\ UNCHANGED <<call, conn, flag, inTxn, lost, logged, caught, answer>>

RowFails == /\ pc = "statement" /\ NextIsRow
            /\ \/ (lost \/ NextRow \in bad) /\ UNCHANGED session
               \/ "deadlock" \in Faults /\ ~lost /\ RolledBack
            /\ Throws("statement")
            /\ UNCHANGED <<todo, rest, flag, trace>>

\* The rows sent so far; the last of them is the i of the loop, plus one.
Sent == Len(input) - Len(todo)

SlipOffset == Sent - 1

Offset == IF Sent - 1 < Window THEN 0 ELSE Sent - 1

\* profileBatchStatements: each duration in the history is logged with the
\* row at its place after the offset, as far as there are rows.
Flush == /\ pc = "flush" /\ ~lost
         /\ logged' = logged \cup
                {<<Offset + j, history[j]>> : j \in {k \in DOMAIN history : Offset + k <= Len(input)}}
         /\ history' = <<>>
         /\ pc' = "statement"
         /\ UNCHANGED <<call, todo, rest, conn, flag, session, caught, answer>>

FlushFails == /\ pc = "flush" /\ lost
              /\ Throws("statement")
              /\ UNCHANGED <<todo, rest, flag, session, trace>>

AllSent == todo = <<>> /\ ~InFallback

SlipFlagKept ==
    /\ pc = "statement" /\ AllSent /\ ~lost
    /\ durable' = durable \o work /\ work' = <<>> /\ inTxn' = FALSE /\ pc' = "committed"
    /\ UNCHANGED <<call, todo, rest, conn, flag, lost, trace, caught, answer>>

\* The server executes COMMIT, then its reply arrives.
CommitAtServer == /\ pc = "statement" /\ AllSent /\ ~lost
                  /\ durable' = durable \o work /\ work' = <<>> /\ inTxn' = FALSE
                  /\ flag' = FALSE /\ pc' = "committed"
                  /\ UNCHANGED <<call, todo, rest, conn, lost, trace, caught, answer>>

CommitDone == /\ pc = "committed" /\ ~lost
              /\ UNCHANGED <<call, todo, rest, flag, session, trace, caught>>
              /\ Leave("true", FALSE)

\* COMMIT fails, or the connection breaks before the reply.
CommitFails == /\ \/ pc = "statement" /\ AllSent /\ (lost \/ "end" \in Faults)
                  \/ pc = "committed" /\ lost
               /\ flag' = FALSE
               /\ Throws("commit")
               /\ UNCHANGED <<todo, rest, session, trace>>

\* The catch block.  A connector that knows of no transaction answers a
\* rollback by itself, so this can be the outcome on a lost session too.
RollbackDone == /\ pc = "rollback"
                /\ flag' = FALSE /\ RolledBack
                /\ Leave("error", FALSE)
                /\ UNCHANGED <<call, todo, rest, trace, caught>>

SlipFailedIgnored == /\ pc = "rollback" /\ (lost \/ "end" \in Faults)
                     /\ flag' = FALSE
                     /\ Leave("error", FALSE)
                     /\ UNCHANGED <<call, todo, rest, session, trace, caught>>

\* A connection whose rollback failed is destroyed.
RollbackFails == /\ pc = "rollback" /\ (lost \/ "end" \in Faults)
                 /\ flag' = FALSE
                 /\ Leave("error", TRUE)
                 /\ UNCHANGED <<call, todo, rest, session, trace, caught>>

\* Over: the call makes no further step.
Over == pc = "done" /\ UNCHANGED vars

Next == \/ Parse \/ Acquire \/ Lose \/ ProfilerSet \/ Begin \/ BeginFails
        \/ BatchDone \/ BatchFails \/ RowDone \/ RowFails \/ Flush \/ FlushFails
        \/ CommitAtServer \/ CommitDone \/ CommitFails \/ RollbackDone \/ RollbackFails \/ Over

Spec == Init /\ [][Next]_vars

-----------------------------------------------------------------------------
(* Properties *)

\* Batches and their fallback do not show: what is durable is nothing, or
\* every row of the list once and in order, and "true" is only answered for
\* the latter.  (The grouping of rawTransaction.)
GroupedLikeUngrouped == /\ durable \in {<<>>, Rows(input)}
                        /\ answer = "true" => durable = Rows(input)

\* A connection goes back to the pool only when its session has no
\* transaction open and nothing of this call pending.  (The catch block and
\* dispose.)
ReleasedClean == conn = "idle" => ~inTxn /\ work = <<>>

\* What a list of n statements has in the log: a row, and the statement whose
\* duration is given for it.  BEGIN is in the history too, so a list shorter
\* than the window logs each row with the duration of the statement before; a
\* full window has pushed BEGIN out.  A longer list logs no row of the first
\* window, each later one with a duration from Window - 1 rows before, and the
\* last a second time when the last flush but one left some statements to it.
LogOf(n) ==
    LET left == (n - 1) % Window IN
    IF n < Window THEN {<<row, row - 1>> : row \in 1 .. n}
    ELSE IF n = Window THEN {<<row, row>> : row \in 1 .. n}
    ELSE {<<row, row - Window + 1>> : row \in Window + 1 .. n}
         \cup (IF left = 0 THEN {} ELSE {<<n, n + 1 - left>>})

\* Under mysql_debug a committed list has logged these rows, with these
\* durations, and no others.  (The flushes of the profiler path, the offset it
\* passes, and the pairing of profileBatchStatements.)
DurationsLogged == hasProfiler /\ answer = "true" => logged = LogOf(Len(input))

Told == IF answer # "error" THEN answer ELSE IF caught = "commit" THEN "threw" ELSE "false"

Outcome == INSTANCE TransactionOutcome
               WITH Txn <- {"call"}, Statement <- Row, Of <- LAMBDA t : Row,
                    durable <- ToSet(durable), told <- [t \in {"call"} |-> Told]

\* One call is a transaction as the caller knows it: its statements become
\* durable together, and never for a caller that is told of an error other
\* than that of COMMIT.
ImplementsOutcome == Outcome!Spec
================================================================================
