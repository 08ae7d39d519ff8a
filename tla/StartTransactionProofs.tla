--------------------------- MODULE StartTransactionProofs -------------------------
(***************************************************************************)
(* Proofs about StartTransaction for every set of transactions, every      *)
(* connection, every number of queries and every size of the pool.         *)
(*                                                                         *)
(* The first invariant, IInv, holds under every fault.  It follows a       *)
(* connection through the hands of its transaction: from the response that *)
(* names it until finalize() has posted the one endTransaction, and from   *)
(* there until the handler has taken that message, the wrapper is          *)
(* registered and open.                                                    *)
(*                                                                         *)
(* The second, AInv, is about callbacks that do not call queryFn after     *)
(* they have ended ("stray" is no fault of the instance): then a query     *)
(* always meets the wrapper of its own transaction.                        *)
(*                                                                         *)
(* The third, RInv, is about transactions the server rolls back by itself: *)
(* such a transaction never opens again, and since queries are served in   *)
(* the order they were issued, whatever of it is durable was issued after  *)
(* the query that ended it.                                                *)
(***************************************************************************)
EXTENDS StartTransaction, TLAPS

Kind(m) == m.req[1]
TxnOf(m) == m.req[2]

\* Transaction t has connection k, has sent its BEGIN, and no end has come.
Has(t, k) == holder[k] = t /\ k \notin starting \cup closed

\* A worker that is gone has nothing left, and the parent cannot see an exit
\* that did not happen.
DownIsEmpty ==
    /\ exited => ~workerUp
    /\ ~workerUp => /\ inbox = <<>> /\ acquiring = {} /\ starting = {} /\ closed = {}
                    /\ enders = {} /\ inTxn = {}
                    /\ \A k \in Conn : holder[k] = NoTxn

\* A transaction has a connectionId while its callback runs and from its
\* finalize on, and none before.
ConnFollowsPhase ==
    \A t \in Txn : /\ BeginOf(t) \in open => phase[t] = "beginning"
                   /\ EndOf(t) \in open => t \in finalized
                   /\ phase[t] \in {"idle", "beginning"} => connOf[t] = NoConn
                   /\ phase[t] = "running" \/ t \in finalized => connOf[t] \in Conn

\* Until finalize, a transaction with a connectionId has that connection.
UnfinishedHas ==
    \A t \in Txn : workerUp /\ t \notin finalized /\ connOf[t] # NoConn => Has(t, connOf[t])

\* A beginTransaction is answered with a connection that is the transaction's.
BegunHas ==
    \A i \in DOMAIN outbox : Kind(outbox[i]) = "beginTransaction" /\ outbox[i].ok =>
        /\ outbox[i].conn \in Conn
        /\ workerUp /\ TxnOf(outbox[i]) \notin finalized => Has(TxnOf(outbox[i]), outbox[i].conn)

\* A query or an end names its transaction's connection; an endTransaction
\* is sent once, and finds the connection as the transaction left it.
MailNames ==
    \A i \in DOMAIN inbox : Kind(inbox[i]) # "beginTransaction" =>
        inbox[i].conn \in Conn /\ inbox[i].conn = connOf[TxnOf(inbox[i])]
EndsDue ==
    \A i \in DOMAIN inbox : Kind(inbox[i]) = "endTransaction" =>
        TxnOf(inbox[i]) \in finalized /\ Has(TxnOf(inbox[i]), inbox[i].conn)
EndsOnce ==
    \A i, j \in DOMAIN inbox :
        /\ Kind(inbox[i]) = "endTransaction" /\ Kind(inbox[j]) = "endTransaction"
        /\ TxnOf(inbox[i]) = TxnOf(inbox[j])
        => i = j

\* A handler works on the closed wrapper of its transaction, and alone.
EndersHave ==
    /\ \A e \in enders : /\ holder[e.conn] = e.txn /\ e.conn \in closed
                         /\ e.txn \in finalized
    /\ \A e, f \in enders : e.conn = f.conn => e = f
    /\ \A k \in closed : \E e \in enders : e.conn = k

\* A connection without a wrapper is clean, and the pool has lent exactly
\* those with one.
UnheldClean ==
    \A k \in Conn : /\ slot[k] = "held" <=> holder[k] # NoTxn
                    /\ holder[k] = NoTxn =>
                          /\ running[k] = {} /\ work[k] = {}
                          /\ k \notin starting \cup inTxn \cup closed
                          /\ \A e \in enders : e.conn # k

IInv == /\ TypeOK
        /\ DownIsEmpty
        /\ ConnFollowsPhase
        /\ UnfinishedHas
        /\ BegunHas
        /\ MailNames
        /\ EndsDue
        /\ EndsOnce
        /\ EndersHave
        /\ UnheldClean
        /\ NoQueryBesideEnd

-----------------------------------------------------------------------------
(* Without stray calls *)

\* Up to its abort or its end nothing has finalized a transaction; a verdict
\* is reached at the end, and not by one that was aborted.
EndsInOrder ==
    \A t \in Txn : /\ t \in finalized /\ phase[t] = "running" => t \in aborted
                   /\ verdict[t] => phase[t] \in {"ending", "done"} /\ t \notin aborted
                   /\ told[t] # "none" => phase[t] = "done"
                   /\ told[t] = "false" => ~verdict[t]
                   /\ told[t] = "true" => verdict[t]
                   /\ EndOf(t) \in open => t \in aborted \/ phase[t] = "ending"

\* A query is posted ahead of the end of its transaction.
QueriesBeforeEnd ==
    \A i \in DOMAIN inbox : Kind(inbox[i]) = "transactionQuery" /\ TxnOf(inbox[i]) \in finalized =>
        \E j \in DOMAIN inbox : j > i /\ inbox[j].req = EndOf(TxnOf(inbox[i]))

\* The transactions that still wait for a connection.
Asking(t) == t \in acquiring \/ \E i \in DOMAIN inbox : inbox[i].req = BeginOf(t)

\* A transaction asks for a connection once, and gets one.
BeginsOnce ==
    /\ \A t \in Txn : Asking(t) => /\ connOf[t] = NoConn /\ \A k \in Conn : holder[k] # t
                                   /\ \A i \in DOMAIN outbox : outbox[i].req # BeginOf(t)
    /\ \A t \in Txn : phase[t] = "idle" => /\ ~Asking(t) /\ \A k \in Conn : holder[k] # t
                                           /\ \A i \in DOMAIN outbox : outbox[i].req # BeginOf(t)
    /\ \A i \in DOMAIN inbox : Kind(inbox[i]) = "beginTransaction" => TxnOf(inbox[i]) \notin acquiring
    /\ \A i, j \in DOMAIN inbox :
          Kind(inbox[i]) = "beginTransaction" /\ inbox[i].req = inbox[j].req => i = j
    /\ \A k, l \in Conn : holder[k] # NoTxn /\ holder[k] = holder[l] => k = l

\* A connection has only queries of its transaction.
OwnHere ==
    \A k \in Conn : /\ \A q \in running[k] \cup work[k] : q[1] = holder[k]
                    /\ \A q \in running[k] : connOf[q[1]] # NoConn

\* The server has rolled transaction t back by itself.
Undone(t) == \E q \in undone : q[1] = t

\* While a transaction has its connection all the server has executed of it
\* is at work there; nothing has been executed for one that has none yet.
WorkInProgress ==
    /\ durable \subseteq applied
    /\ \A k \in Conn : work[k] \subseteq applied
    /\ \A q \in applied : connOf[q[1]] # NoConn
    /\ \A k \in Conn : \A q \in applied :
          q[1] = holder[k] => (q \in work[k] /\ q \notin durable) \/ Undone(q[1])

\* All the server has executed of a transaction is durable, or nothing is.
Whole == \A p \in applied, q \in durable : p[1] = q[1] => p \in durable \/ Undone(p[1])

\* What an end was sent with is the verdict, and only a verdict commits.
CommitsOnVerdict ==
    /\ \A i \in DOMAIN inbox : Kind(inbox[i]) = "endTransaction" =>
          inbox[i].commit = verdict[TxnOf(inbox[i])]
    /\ \A e \in enders : e.commit = verdict[e.txn]
    /\ \A q \in durable : verdict[q[1]] \/ Undone(q[1])

\* A transaction is over for good and all of it is durable.
Sealed(t) == /\ connOf[t] # NoConn
             /\ \A k \in Conn : holder[k] # t
             /\ \A q \in applied : q[1] = t => q \in durable \/ Undone(t)

\* A caller is told what has happened.
ResultsTrue ==
    /\ \A q \in Query : asked[q] = "ok" => q \in applied
    /\ \A i \in DOMAIN outbox : outbox[i].ok =>
          /\ \A q \in Query : outbox[i].req = QueryOf(q) => q \in applied
          /\ Kind(outbox[i]) = "endTransaction" /\ verdict[TxnOf(outbox[i])] =>
                Sealed(TxnOf(outbox[i]))
    /\ \A i \in DOMAIN outbox : Kind(outbox[i]) = "endTransaction" =>
          TxnOf(outbox[i]) \in finalized
    /\ Propagate => \A t \in Txn : told[t] = "true" => Sealed(t)

AInv == /\ EndsInOrder
        /\ QueriesBeforeEnd
        /\ BeginsOnce
        /\ OwnHere
        /\ WorkInProgress
        /\ Whole
        /\ CommitsOnVerdict
        /\ ResultsTrue

-----------------------------------------------------------------------------
(* Rollbacks by the server *)

\* A transaction that has its connection is open at the server, until the
\* server rolls it back, and then it does not open again.
OpenUntilUndone ==
    /\ \A k \in Conn : k \notin inTxn => work[k] = {}
    /\ \A k \in Conn : holder[k] # NoTxn /\ connOf[holder[k]] # NoConn =>
          k \in inTxn \/ Undone(holder[k])
    /\ \A i \in DOMAIN outbox : Kind(outbox[i]) = "beginTransaction" /\ outbox[i].ok =>
          \A k \in Conn : holder[k] = TxnOf(outbox[i]) => k \in inTxn \/ Undone(holder[k])
    /\ \A q \in undone : /\ connOf[q[1]] # NoConn
                         /\ \A k \in Conn : holder[k] = q[1] => k \notin inTxn \cup starting

\* The query a transactionQuery asks for.
Asks(m) == <<m.req[2], m.req[3]>>

\* A callback issues its queries in their order, and only what it has issued
\* is under way.
AskedInOrder ==
    /\ \A p, q \in Query : p[1] = q[1] /\ p[2] < q[2] /\ asked[q] # "new" => asked[p] # "new"
    /\ \A q \in Query : QueryOf(q) \in open => asked[q] # "new"
    /\ \A q \in undone : asked[q] # "new"
    /\ \A k \in Conn : \A q \in running[k] : asked[q] # "new"
    /\ \A i \in DOMAIN inbox : Kind(inbox[i]) = "transactionQuery" => asked[Asks(inbox[i])] # "new"

\* Of two queries of one transaction p comes first.
Before(p, q) == p[1] = q[1] => p[2] < q[2]

\* Mailbox, worker and server keep that order.
ServedInOrder ==
    /\ \A p \in undone : /\ \A k \in Conn : \A q \in running[k] : Before(p, q)
                         /\ \A i \in DOMAIN inbox : Kind(inbox[i]) = "transactionQuery" =>
                               Before(p, Asks(inbox[i]))
    /\ \A k \in Conn : \A p \in running[k] :
          \A i \in DOMAIN inbox : Kind(inbox[i]) = "transactionQuery" => Before(p, Asks(inbox[i]))
    /\ \A i, j \in DOMAIN inbox :
          i < j /\ Kind(inbox[i]) = "transactionQuery" /\ Kind(inbox[j]) = "transactionQuery" =>
             Before(Asks(inbox[i]), Asks(inbox[j]))

\* What is durable of a transaction that the server has rolled back was done
\* by queries the callback issued after that.
OnlyBroken == \A q \in durable : Undone(q[1]) => q[1] \in Broken

RInv == OpenUntilUndone /\ AskedInOrder /\ ServedInOrder /\ OnlyBroken

-----------------------------------------------------------------------------
(* Requests and mailboxes *)

USE StartTransactionAssumption

\* What a request says of itself.
LEMMA RequestShape ==
    ASSUME NEW r \in Request
    PROVE  /\ r[2] \in Txn
           /\ \/ r[1] = "beginTransaction" /\ r = BeginOf(r[2])
              \/ r[1] = "transactionQuery" /\ <<r[2], r[3]>> \in Query
                 /\ r = QueryOf(<<r[2], r[3]>>)
              \/ r[1] = "endTransaction" /\ r = EndOf(r[2])
<1>1. CASE \E t \in Txn : r = BeginOf(t)
  BY <1>1 DEF BeginOf
<1>2. CASE \E q \in Query : r = QueryOf(q)
  <2>1. PICK q \in Query : r = QueryOf(q)
    BY <1>2
  <2>2. q = <<q[1], q[2]>> /\ q[1] \in Txn
    BY DEF Query
  <2> QED
    BY <2>1, <2>2 DEF QueryOf
<1>3. CASE \E t \in Txn : r = EndOf(t)
  BY <1>3 DEF EndOf
<1> QED
  BY <1>1, <1>2, <1>3 DEF Request

LEMMA RequestParts ==
    /\ \A t \in Txn : /\ BeginOf(t) \in Request /\ BeginOf(t)[1] = "beginTransaction"
                      /\ BeginOf(t)[2] = t
                      /\ EndOf(t) \in Request /\ EndOf(t)[1] = "endTransaction"
                      /\ EndOf(t)[2] = t
    /\ \A q \in Query : /\ QueryOf(q) \in Request /\ QueryOf(q)[1] = "transactionQuery"
                        /\ QueryOf(q)[2] = q[1] /\ <<q[1], QueryOf(q)[3]>> = q
                        /\ q[1] \in Txn
  BY DEF Request, BeginOf, EndOf, QueryOf, Query

LEMMA RequestsDiffer ==
    /\ \A t, s \in Txn : /\ BeginOf(t) # EndOf(s)
                         /\ BeginOf(t) = BeginOf(s) => t = s
                         /\ EndOf(t) = EndOf(s) => t = s
    /\ \A q \in Query : \A t \in Txn : QueryOf(q) # BeginOf(t) /\ QueryOf(q) # EndOf(t)
    /\ \A p, q \in Query : QueryOf(p) = QueryOf(q) => p = q
<1>1. \A p, q \in Query : QueryOf(p) = QueryOf(q) => p = q
  <2> SUFFICES ASSUME NEW p \in Query, NEW q \in Query, QueryOf(p) = QueryOf(q)
               PROVE  p = q
    OBVIOUS
  <2>1. p = <<p[1], QueryOf(p)[3]>> /\ q = <<q[1], QueryOf(q)[3]>>
    BY RequestParts
  <2>2. p[1] = q[1]
    BY RequestParts
  <2> QED
    BY <2>1, <2>2
<1> QED
  BY <1>1, RequestParts

\* A message at the end of a mailbox, and the mailbox after its first.
LEMMA Appended ==
    ASSUME NEW S, NEW s \in Seq(S), NEW m \in S
    PROVE  /\ Append(s, m) \in Seq(S)
           /\ DOMAIN Append(s, m) = DOMAIN s \cup {Len(s) + 1}
           /\ Append(s, m)[Len(s) + 1] = m
           /\ \A i \in DOMAIN s : i \in Nat /\ i < Len(s) + 1 /\ Append(s, m)[i] = s[i]
  OBVIOUS

LEMMA Shifted ==
    ASSUME NEW S, NEW s \in Seq(S), s # <<>>
    PROVE  /\ Tail(s) \in Seq(S)
           /\ 1 \in DOMAIN s /\ Head(s) = s[1] /\ Head(s) \in S
           /\ \A i \in DOMAIN Tail(s) : i \in Nat /\ i > 0 /\ i + 1 \in DOMAIN s /\ Tail(s)[i] = s[i + 1]
           /\ \A i \in DOMAIN s : i \in Nat /\ (i > 1 => i - 1 \in DOMAIN Tail(s) /\ Tail(s)[i - 1] = s[i])
  OBVIOUS

\* What the mailboxes hold after a post, a response or a take, entry by entry.
LEMMA AfterPost ==
    ASSUME inbox \in Seq(Message), NEW m \in Message, Post(m)
    PROVE  /\ inbox' \in Seq(Message)
           /\ inbox # <<>> => inbox' # <<>>
           /\ \A i \in DOMAIN inbox : i \in DOMAIN inbox' /\ inbox'[i] = inbox[i]
           /\ \A i \in DOMAIN inbox' :
                 \/ i \in DOMAIN inbox /\ i < Len(inbox) + 1 /\ inbox'[i] = inbox[i]
                 \/ i = Len(inbox) + 1 /\ inbox'[i] = m
           /\ workerUp => Len(inbox) + 1 \in DOMAIN inbox' /\ inbox'[Len(inbox) + 1] = m
           /\ ~workerUp => inbox' = inbox
<1>1. CASE workerUp
  BY <1>1, Appended DEF Post
<1>2. CASE ~workerUp
  BY <1>2, Appended DEF Post
<1> QED
  BY <1>1, <1>2

\* A message in the mail is about a transaction.
LEMMA MailShape ==
    ASSUME inbox \in Seq(Message), NEW i \in DOMAIN inbox
    PROVE  /\ inbox[i] \in Message /\ inbox[i].req \in Request /\ TxnOf(inbox[i]) \in Txn
           /\ Kind(inbox[i]) \in {"beginTransaction", "transactionQuery", "endTransaction"}
<1>1. inbox[i] \in Message
  OBVIOUS
<1>2. inbox[i].req \in Request
  BY <1>1 DEF Message
<1> QED
  BY <1>1, <1>2, RequestShape DEF Kind, TxnOf

LEMMA QueryFnKeepsIInv ==
    ASSUME IInv, NEW q \in Query, QueryFn(q)
    PROVE  IInv'
<1> DEFINE t == q[1]
           m == [req |-> QueryOf(q), conn |-> connOf[t], commit |-> FALSE, wants |-> TRUE]
<1> USE DEF IInv, workerVars, serverVars
<1>1. /\ t \in Txn /\ connOf[t] \in Conn /\ m \in Message
      /\ Kind(m) = "transactionQuery" /\ TxnOf(m) = t /\ m.conn = connOf[t]
      /\ QueryOf(q) \in Request
  BY RequestParts DEF QueryFn, TypeOK, Message, Kind, TxnOf
<1>2. /\ inbox' \in Seq(Message)
      /\ ~workerUp => inbox' = inbox
      /\ \A i \in DOMAIN inbox' : \/ i \in DOMAIN inbox /\ inbox'[i] = inbox[i]
                                  \/ i = Len(inbox) + 1 /\ inbox'[i] = m
  BY <1>1, AfterPost DEF QueryFn, TypeOK
<1>3. TypeOK'
  <2>1. asked' \in [Query -> {"new", "sent", "ok", "failed", "aborted"}] /\ open' \subseteq Request
    BY <1>1 DEF QueryFn, TypeOK
  <2>2. UNCHANGED <<phase, connOf, aborted, finalized, verdict, told, exited, outbox, workerUp, workerVars, slot, serverVars>>
    BY DEF QueryFn
  <2> QED
    BY <1>2, <2>1, <2>2 DEF TypeOK
<1>4. DownIsEmpty'
  BY <1>2 DEF QueryFn, DownIsEmpty
<1>5. ConnFollowsPhase'
  BY RequestsDiffer DEF QueryFn, ConnFollowsPhase
<1>6. UnfinishedHas' /\ BegunHas'
  BY DEF QueryFn, UnfinishedHas, BegunHas, Has
<1>7. MailNames'
  BY <1>1, <1>2 DEF QueryFn, MailNames
<1>71. EndsDue'
  BY <1>1, <1>2 DEF QueryFn, EndsDue, Has
<1>8. EndsOnce'
  BY <1>1, <1>2 DEF QueryFn, EndsOnce
<1>9. EndersHave' /\ UnheldClean' /\ NoQueryBesideEnd'
  BY DEF QueryFn, EndersHave, UnheldClean, NoQueryBesideEnd
<1> QED
  BY <1>3, <1>4, <1>5, <1>6, <1>7, <1>71, <1>8, <1>9

LEMMA StartTransactionKeepsIInv ==
    ASSUME IInv, NEW t \in Txn, StartTransaction(t)
    PROVE  IInv'
<1> DEFINE m == [req |-> BeginOf(t), conn |-> NoConn, commit |-> FALSE, wants |-> TRUE]
<1> USE DEF IInv, workerVars, serverVars
<1>1. /\ m \in Message /\ Kind(m) = "beginTransaction" /\ BeginOf(t) \in Request
      /\ \A r \in Txn : BeginOf(r) = BeginOf(t) => r = t
  BY RequestParts DEF Message, Kind
<1>2. /\ inbox' \in Seq(Message)
      /\ ~workerUp => inbox' = inbox
      /\ \A i \in DOMAIN inbox' : \/ i \in DOMAIN inbox /\ inbox'[i] = inbox[i]
                                  \/ i = Len(inbox) + 1 /\ inbox'[i] = m
  <2>1. CASE Post(m)
    BY <1>1, <2>1, AfterPost DEF TypeOK
  <2>2. CASE UNCHANGED inbox
    BY <2>2 DEF TypeOK
  <2> QED
    BY <2>1, <2>2 DEF StartTransaction
<1>3. TypeOK'
  <2>1. /\ phase' \in [Txn -> {"idle", "beginning", "running", "ending", "done"}]
        /\ told' \in [Txn -> {"none", "true", "false", "threw"}]
        /\ open' \subseteq Request
    BY <1>1 DEF StartTransaction, TypeOK, Return, BeginFailed
  <2> QED
    BY <1>2, <2>1 DEF StartTransaction, TypeOK
<1>4. DownIsEmpty'
  BY <1>2 DEF StartTransaction, DownIsEmpty
<1>5. ConnFollowsPhase'
  BY <1>1, RequestsDiffer DEF StartTransaction, ConnFollowsPhase, TypeOK, Return
<1>6. UnfinishedHas' /\ BegunHas'
  BY DEF StartTransaction, UnfinishedHas, BegunHas, Has
<1>7. MailNames' /\ EndsOnce'
  BY <1>1, <1>2 DEF StartTransaction, MailNames, EndsOnce
<1>8. EndsDue'
  BY <1>1, <1>2 DEF StartTransaction, EndsDue, Has
<1>9. EndersHave' /\ UnheldClean' /\ NoQueryBesideEnd'
  BY DEF StartTransaction, EndersHave, UnheldClean, NoQueryBesideEnd
<1> QED
  BY <1>3, <1>4, <1>5, <1>6, <1>7, <1>8, <1>9

\* finalize, whoever calls it: the one message that ends the transaction.
LEMMA FinalizeKeeps ==
    ASSUME IInv, NEW t \in Txn, NEW commit \in BOOLEAN, phase[t] = "running",
           Finalize(t, commit),
           UNCHANGED <<connOf, exited, outbox, workerUp, workerVars, slot, serverVars>>
    PROVE  /\ finalized' \subseteq Txn /\ finalized \cup {t} = finalized'
           /\ open' \subseteq Request /\ open' \subseteq open \cup {EndOf(t)}
           /\ inbox' \in Seq(Message)
           /\ DownIsEmpty' /\ UnfinishedHas' /\ BegunHas' /\ MailNames' /\ EndsDue' /\ EndsOnce'
           /\ EndersHave' /\ UnheldClean' /\ NoQueryBesideEnd'
<1> DEFINE m == [req |-> EndOf(t), conn |-> connOf[t], commit |-> commit, wants |-> Propagate]
<1> USE DEF IInv, workerVars, serverVars
<1>1. /\ m \in Message /\ Kind(m) = "endTransaction" /\ TxnOf(m) = t /\ m.conn = connOf[t]
      /\ connOf[t] \in Conn /\ EndOf(t) \in Request
  BY RequestParts DEF Message, Kind, TxnOf, ConnFollowsPhase, TypeOK
<1>2. \/ UNCHANGED <<open, inbox>>
      \/ t \notin finalized /\ Post(m) /\ open' \subseteq open \cup {EndOf(t)}
  BY DEF Finalize
<1>3. finalized' = finalized \cup {t}
  BY DEF Finalize
<1>4. /\ inbox' \in Seq(Message)
      /\ ~workerUp => inbox' = inbox
      /\ \A i \in DOMAIN inbox' : \/ i \in DOMAIN inbox /\ inbox'[i] = inbox[i]
                                  \/ /\ i = Len(inbox) + 1 /\ inbox'[i] = m
                                     /\ t \notin finalized /\ workerUp
  <2>1. CASE t \notin finalized /\ Post(m)
    BY <1>1, <2>1, AfterPost DEF TypeOK
  <2>2. CASE UNCHANGED inbox
    BY <2>2 DEF TypeOK
  <2> QED
    BY <1>2, <2>1, <2>2
<1>5. finalized' \subseteq Txn /\ open' \subseteq Request /\ open' \subseteq open \cup {EndOf(t)}
  BY <1>1, <1>2, <1>3 DEF TypeOK
<1>6. DownIsEmpty'
  BY <1>4 DEF DownIsEmpty
<1>7. UnfinishedHas' /\ BegunHas'
  BY <1>3 DEF UnfinishedHas, BegunHas, Has
<1>8. MailNames'
  BY <1>1, <1>4 DEF MailNames
<1>9. EndsDue'
  <2>1. t \notin finalized /\ workerUp => Has(t, connOf[t])
    BY <1>1 DEF UnfinishedHas, TypeOK
  <2> QED
    BY <1>1, <1>3, <1>4, <2>1 DEF EndsDue, Has
<1>10. EndsOnce'
  BY <1>1, <1>4 DEF EndsOnce, EndsDue
<1>11. EndersHave' /\ UnheldClean' /\ NoQueryBesideEnd'
  BY <1>3 DEF EndersHave, UnheldClean, NoQueryBesideEnd
<1> QED
  BY <1>3, <1>4, <1>5, <1>6, <1>7, <1>8, <1>9, <1>10, <1>11

LEMMA TimeoutKeepsIInv ==
    ASSUME IInv, NEW t \in Txn, Timeout(t)
    PROVE  IInv'
<1> USE DEF IInv
<1>1. /\ finalized' \subseteq Txn /\ finalized \cup {t} = finalized'
      /\ open' \subseteq Request /\ open' \subseteq open \cup {EndOf(t)}
      /\ inbox' \in Seq(Message)
      /\ DownIsEmpty' /\ UnfinishedHas' /\ BegunHas' /\ MailNames' /\ EndsDue' /\ EndsOnce'
      /\ EndersHave' /\ UnheldClean' /\ NoQueryBesideEnd'
  BY FinalizeKeeps DEF Timeout
<1>2. TypeOK'
  BY <1>1 DEF Timeout, TypeOK, workerVars, serverVars
<1>3. ConnFollowsPhase'
  BY <1>1, RequestsDiffer DEF Timeout, ConnFollowsPhase
<1> QED
  BY <1>1, <1>2, <1>3

LEMMA CallbackEndsKeepsIInv ==
    ASSUME IInv, NEW t \in Txn, NEW commit \in BOOLEAN, CallbackEnds(t, commit)
    PROVE  IInv'
<1> USE DEF IInv
<1>1. /\ phase' \in [Txn -> {"idle", "beginning", "running", "ending", "done"}]
      /\ told' \in [Txn -> {"none", "true", "false", "threw"}]
      /\ \A r \in Txn : phase'[r] # phase[r] => phase[r] = "running" /\ phase'[r] \in {"ending", "done"}
      /\ verdict' \in [Txn -> BOOLEAN]
  <2>1. \/ UNCHANGED <<phase, told>>
        \/ \E o \in {"true", "false", "threw"} : Return(t, o)
        \/ phase' = [phase EXCEPT ![t] = "ending"] /\ UNCHANGED told
    BY DEF CallbackEnds
  <2>2. phase[t] = "running" /\ verdict' \in [Txn -> BOOLEAN]
    BY DEF CallbackEnds, TypeOK
  <2>3. /\ phase \in [Txn -> {"idle", "beginning", "running", "ending", "done"}]
        /\ told \in [Txn -> {"none", "true", "false", "threw"}]
    BY DEF TypeOK
  <2> HIDE DEF IInv
  <2> QED
    BY <2>1, <2>2, <2>3 DEF Return
<1>2. CASE t \in aborted
  <2>1. UNCHANGED <<connOf, aborted, finalized, open, asked, exited, inbox, outbox, workerUp,
                    workerVars, slot, serverVars>>
    BY <1>2 DEF CallbackEnds
  <2>2. TypeOK' /\ ConnFollowsPhase'
    BY <1>1, <2>1 DEF TypeOK, ConnFollowsPhase, workerVars, serverVars
  <2>3. DownIsEmpty' /\ UnfinishedHas' /\ BegunHas' /\ MailNames' /\ EndsDue' /\ EndsOnce'
    BY <2>1 DEF DownIsEmpty, UnfinishedHas, BegunHas, MailNames, EndsDue, EndsOnce, Has,
                workerVars, serverVars
  <2>4. EndersHave' /\ UnheldClean' /\ NoQueryBesideEnd'
    BY <2>1 DEF EndersHave, UnheldClean, NoQueryBesideEnd, workerVars, serverVars
  <2> QED
    BY <2>2, <2>3, <2>4
<1>3. CASE t \notin aborted
  <2>1. /\ finalized' \subseteq Txn /\ finalized \cup {t} = finalized'
        /\ open' \subseteq Request /\ open' \subseteq open \cup {EndOf(t)}
        /\ inbox' \in Seq(Message)
        /\ DownIsEmpty' /\ UnfinishedHas' /\ BegunHas' /\ MailNames' /\ EndsDue' /\ EndsOnce'
        /\ EndersHave' /\ UnheldClean' /\ NoQueryBesideEnd'
    BY <1>3, FinalizeKeeps DEF CallbackEnds
  <2>2. TypeOK'
    BY <1>1, <2>1 DEF CallbackEnds, TypeOK, workerVars, serverVars
  <2>3. ConnFollowsPhase'
    BY <1>1, <2>1, RequestsDiffer DEF CallbackEnds, ConnFollowsPhase
  <2> QED
    BY <2>1, <2>2, <2>3
<1> QED
  BY <1>2, <1>3

\* What the code behind a request does with its answer, one disjunct each.
LEMMA ResumeCases ==
    ASSUME TypeOK, NEW r \in Request, NEW ok \in BOOLEAN, NEW k, Resume(r, ok, k)
    PROVE  /\ r[2] \in Txn
           /\ \/ /\ r = BeginOf(r[2]) /\ ok /\ UNCHANGED <<told, asked>>
                 /\ phase' = [phase EXCEPT ![r[2]] = "running"]
                 /\ connOf' = [connOf EXCEPT ![r[2]] = k]
              \/ /\ r = BeginOf(r[2]) /\ ~ok /\ UNCHANGED <<connOf, asked>>
                 /\ Return(r[2], BeginFailed)
              \/ /\ r = EndOf(r[2]) /\ r[2] \in aborted
                 /\ UNCHANGED <<phase, connOf, told, asked>>
              \/ /\ r = EndOf(r[2]) /\ r[2] \notin aborted /\ UNCHANGED <<connOf, asked>>
                 /\ Return(r[2], IF ~ok THEN "threw" ELSE IF verdict[r[2]] THEN "true" ELSE "false")
              \/ \E q \in Query : /\ r = QueryOf(q) /\ q[1] = r[2]
                                  /\ UNCHANGED <<phase, connOf, told>>
                                  /\ asked' = [asked EXCEPT ![q] = QueryResult(r[2], ok)]
<1>1. CASE r[1] = "beginTransaction"
  <2>1. r = BeginOf(r[2]) /\ r # EndOf(r[2]) /\ r[2] \in Txn
    BY <1>1, RequestShape, RequestParts
  <2> QED
    BY <1>1, <2>1 DEF Resume
<1>2. CASE r[1] = "endTransaction"
  <2>1. r = EndOf(r[2]) /\ r # BeginOf(r[2]) /\ r[2] \in Txn
    BY <1>2, RequestShape, RequestParts
  <2> QED
    BY <1>2, <2>1 DEF Resume
<1>3. CASE r[1] = "transactionQuery"
  <2>1. /\ r # EndOf(r[2]) /\ r # BeginOf(r[2]) /\ r[2] \in Txn
        /\ <<r[2], r[3]>> \in Query /\ r = QueryOf(<<r[2], r[3]>>) /\ <<r[2], r[3]>>[1] = r[2]
    BY <1>3, RequestShape, RequestParts
  <2> QED
    BY <1>3, <2>1 DEF Resume
<1> QED
  BY <1>1, <1>2, <1>3, RequestShape

LEMMA ResumeKeeps ==
    ASSUME IInv, NEW r \in open, NEW ok \in BOOLEAN, NEW k, Resume(r, ok, k),
           r = BeginOf(r[2]) /\ ok =>
               k \in Conn /\ (workerUp /\ r[2] \notin finalized => Has(r[2], k)),
           open' = open \ {r},
           UNCHANGED <<aborted, finalized, verdict, exited, inbox, workerUp, workerVars,
                       slot, serverVars>>
    PROVE  /\ outbox' \in Seq(Response) => TypeOK'
           /\ DownIsEmpty' /\ ConnFollowsPhase' /\ UnfinishedHas' /\ MailNames'
           /\ EndsDue' /\ EndsOnce' /\ EndersHave' /\ UnheldClean' /\ NoQueryBesideEnd'
<1> DEFINE t == r[2]
<1> USE DEF IInv, workerVars, serverVars
<1>1. t \in Txn /\ r \in Request /\ (r = BeginOf(t) => phase[t] = "beginning" /\ connOf[t] = NoConn)
  BY ResumeCases DEF ConnFollowsPhase, TypeOK
<1>2. /\ phase' \in [Txn -> {"idle", "beginning", "running", "ending", "done"}]
      /\ connOf' \in [Txn -> Conn \cup {NoConn}]
      /\ told' \in [Txn -> {"none", "true", "false", "threw"}]
      /\ asked' \in [Query -> {"new", "sent", "ok", "failed", "aborted"}]
  <2>1. \A o \in {"true", "false", "threw"} : Return(t, o) =>
            /\ phase' \in [Txn -> {"idle", "beginning", "running", "ending", "done"}]
            /\ told' \in [Txn -> {"none", "true", "false", "threw"}]
    BY <1>1 DEF TypeOK, Return
  <2>2. /\ BeginFailed \in {"true", "false", "threw"}
        /\ (IF ~ok THEN "threw" ELSE IF verdict[t] THEN "true" ELSE "false") \in {"true", "false", "threw"}
        /\ QueryResult(t, ok) \in {"new", "sent", "ok", "failed", "aborted"}
    BY DEF BeginFailed, QueryResult
  <2>3. /\ phase' \in [Txn -> {"idle", "beginning", "running", "ending", "done"}]
        /\ told' \in [Txn -> {"none", "true", "false", "threw"}]
    BY <1>1, <2>1, <2>2, ResumeCases DEF TypeOK
  <2>4. /\ TypeOK /\ connOf \in [Txn -> Conn \cup {NoConn}]
        /\ asked \in [Query -> {"new", "sent", "ok", "failed", "aborted"}]
    BY DEF TypeOK
  <2>5. connOf' \in [Txn -> Conn \cup {NoConn}]
    BY <1>1, <2>4, ResumeCases
  <2>6. asked' \in [Query -> {"new", "sent", "ok", "failed", "aborted"}]
    BY <1>1, <2>2, <2>4, ResumeCases
  <2> QED
    BY <2>3, <2>5, <2>6
<1>3. \A s \in Txn : s # t => phase'[s] = phase[s] /\ connOf'[s] = connOf[s]
  BY <1>1, ResumeCases DEF TypeOK, Return
<1>4. \/ /\ r = BeginOf(t) /\ ok /\ phase'[t] = "running" /\ connOf'[t] = k /\ k \in Conn
         /\ connOf[t] = NoConn /\ (workerUp /\ t \notin finalized => Has(t, k))
      \/ connOf'[t] = connOf[t] /\ (phase'[t] = phase[t] \/ phase'[t] = "done")
  BY <1>1, ResumeCases DEF TypeOK, Return
<1>5. outbox' \in Seq(Response) => TypeOK'
  BY <1>2 DEF TypeOK
<1>6. DownIsEmpty' /\ EndsOnce' /\ EndersHave' /\ UnheldClean' /\ NoQueryBesideEnd'
  BY DEF DownIsEmpty, EndsOnce, EndersHave, UnheldClean, NoQueryBesideEnd
<1>7. EndsDue'
  BY DEF EndsDue, Has
<1>8. ConnFollowsPhase'
  <2>1. NoConn \notin Conn
    BY DEF StartTransactionAssumption
  <2>2. r = BeginOf(t) \/ (BeginOf(t) \in open => phase'[t] = phase[t])
    <3>1. r # BeginOf(t) /\ phase'[t] # phase[t] => r = EndOf(t)
      BY <1>1, ResumeCases DEF TypeOK
    <3>2. r = EndOf(t) => BeginOf(t) \notin open
      BY <1>1, <2>1 DEF ConnFollowsPhase
    <3> QED
      BY <3>1, <3>2
  <2>3. \A s \in Txn : BeginOf(s) \in open' => phase'[s] = "beginning"
    BY <1>3, <2>2 DEF ConnFollowsPhase
  <2>4. \A s \in Txn : EndOf(s) \in open' => s \in finalized'
    BY DEF ConnFollowsPhase
  <2> QED
    BY <1>3, <1>4, <2>3, <2>4 DEF ConnFollowsPhase
<1>9. UnfinishedHas'
  BY <1>1, <1>3, <1>4 DEF UnfinishedHas, Has
<1>10. MailNames'
  <2>1. \A i \in DOMAIN inbox : TxnOf(inbox[i]) \in Txn
    BY MailShape DEF TypeOK
  <2>2. NoConn \notin Conn
    BY DEF StartTransactionAssumption
  <2> QED
    BY <1>1, <1>3, <1>4, <2>1, <2>2 DEF MailNames
<1> QED
  BY <1>5, <1>6, <1>7, <1>8, <1>9, <1>10

LEMMA DeliverKeepsIInv ==
    ASSUME IInv, Deliver
    PROVE  IInv'
<1> DEFINE m == Head(outbox)
<1> USE DEF IInv
<1>1. /\ m \in Response /\ m = outbox[1] /\ 1 \in DOMAIN outbox
      /\ outbox' \in Seq(Response)
      /\ \A i \in DOMAIN outbox' : i + 1 \in DOMAIN outbox /\ outbox'[i] = outbox[i + 1]
  <2>1. outbox \in Seq(Response) /\ outbox # <<>> /\ outbox' = Tail(outbox)
    BY DEF Deliver, TypeOK
  <2> QED
    BY <2>1, Shifted
<1>2. m.req \in Request /\ m.ok \in BOOLEAN
  BY <1>1 DEF Response
<1>3. BegunHas'
  BY <1>1 DEF Deliver, BegunHas, Has, workerVars, serverVars
<1>4. UNCHANGED <<aborted, finalized, verdict, exited, inbox, workerUp, workerVars, slot, serverVars>>
  BY DEF Deliver
<1>5. CASE m.req \in open
  <2>1. open' = open \ {m.req} /\ Resume(m.req, m.ok, m.conn)
    BY <1>5 DEF Deliver
  <2>2. m.req = BeginOf(m.req[2]) /\ m.ok =>
            m.conn \in Conn /\ (workerUp /\ m.req[2] \notin finalized => Has(m.req[2], m.conn))
    <3>1. m.req = BeginOf(m.req[2]) => Kind(m) = "beginTransaction"
      BY <1>2, RequestShape, RequestParts DEF Kind
    <3> QED
      BY <1>1, <3>1 DEF BegunHas, TxnOf
  <2>3. /\ TypeOK'
        /\ DownIsEmpty' /\ ConnFollowsPhase' /\ UnfinishedHas' /\ MailNames'
        /\ EndsDue' /\ EndsOnce' /\ EndersHave' /\ UnheldClean' /\ NoQueryBesideEnd'
    BY <1>1, <1>2, <1>4, <1>5, <2>1, <2>2, ResumeKeeps
  <2> QED
    BY <1>3, <2>3
<1>6. CASE m.req \notin open
  <2>1. UNCHANGED <<phase, connOf, told, asked>> /\ open' = open
    BY <1>6 DEF Deliver
  <2>2. TypeOK' /\ DownIsEmpty' /\ ConnFollowsPhase'
    BY <1>1, <1>4, <2>1 DEF TypeOK, DownIsEmpty, ConnFollowsPhase, workerVars, serverVars
  <2>3. UnfinishedHas' /\ MailNames' /\ EndsDue' /\ EndsOnce'
    BY <1>4, <2>1 DEF UnfinishedHas, MailNames, EndsDue, EndsOnce, Has, workerVars, serverVars
  <2>4. EndersHave' /\ UnheldClean' /\ NoQueryBesideEnd'
    BY <1>4 DEF EndersHave, UnheldClean, NoQueryBesideEnd, workerVars, serverVars
  <2> QED
    BY <1>3, <2>2, <2>3, <2>4
<1> QED
  BY <1>5, <1>6

LEMMA SynthesizeKeepsIInv ==
    ASSUME IInv, NEW r \in open, Synthesize(r)
    PROVE  IInv'
<1> USE DEF IInv
<1>1. /\ TypeOK'
      /\ DownIsEmpty' /\ ConnFollowsPhase' /\ UnfinishedHas' /\ MailNames'
      /\ EndsDue' /\ EndsOnce' /\ EndersHave' /\ UnheldClean' /\ NoQueryBesideEnd'
  BY ResumeKeeps DEF Synthesize, TypeOK
<1>2. BegunHas'
  BY DEF Synthesize, BegunHas, Has, workerVars, serverVars
<1> QED
  BY <1>1, <1>2

LEMMA SeeExitKeepsIInv ==
    ASSUME IInv, SeeExit
    PROVE  IInv'
<1> USE DEF IInv, SeeExit, workerVars, serverVars
<1>1. TypeOK' /\ DownIsEmpty' /\ ConnFollowsPhase'
  BY DEF TypeOK, DownIsEmpty, ConnFollowsPhase
<1>2. UnfinishedHas' /\ BegunHas' /\ MailNames' /\ EndsDue' /\ EndsOnce'
  BY DEF UnfinishedHas, BegunHas, MailNames, EndsDue, EndsOnce, Has
<1>3. EndersHave' /\ UnheldClean' /\ NoQueryBesideEnd'
  BY DEF EndersHave, UnheldClean, NoQueryBesideEnd
<1> QED
  BY <1>1, <1>2, <1>3

\* The parent's variables at a step of the worker.
LEMMA WorkerStepKeeps ==
    ASSUME IInv, UNCHANGED parentVars
    PROVE  /\ ConnFollowsPhase'
           /\ phase' = phase /\ connOf' = connOf /\ finalized' = finalized
  BY DEF IInv, parentVars, ConnFollowsPhase

\* A response at the end of the outbox.
LEMMA AfterRespond ==
    ASSUME outbox \in Seq(Response), NEW r \in Request, NEW ok \in BOOLEAN,
           NEW k \in Conn \cup {NoConn}, Respond(r, ok, k)
    PROVE  /\ outbox' \in Seq(Response)
           /\ \A i \in DOMAIN outbox' :
                 \/ i \in DOMAIN outbox /\ outbox'[i] = outbox[i]
                 \/ outbox'[i].req = r /\ outbox'[i].ok = ok /\ outbox'[i].conn = k
<1> DEFINE m == [req |-> r, ok |-> ok, conn |-> k]
<1>1. m \in Response /\ m.req = r /\ m.ok = ok /\ m.conn = k
  BY DEF Response
<1>2. outbox' = Append(outbox, m)
  BY DEF Respond
<1> QED
  BY <1>1, <1>2, Appended

LEMMA AfterTake ==
    ASSUME inbox \in Seq(Message), inbox # <<>>, inbox' = Tail(inbox)
    PROVE  /\ inbox' \in Seq(Message)
           /\ 1 \in DOMAIN inbox /\ Head(inbox) = inbox[1]
           /\ \A i \in DOMAIN inbox' : /\ i \in Nat /\ i > 0 /\ i + 1 \in DOMAIN inbox
                                       /\ inbox'[i] = inbox[i + 1]
  BY Shifted

LEMMA TakeKeepsIInv ==
    ASSUME IInv, Take
    PROVE  IInv'
<1> DEFINE m == Head(inbox)
           t == TxnOf(m)
<1> USE DEF IInv, workerVars, serverVars
<1>1. /\ UNCHANGED <<workerUp, slot, serverVars>> /\ workerUp
      /\ inbox # <<>> /\ inbox' = Tail(inbox) /\ UNCHANGED parentVars
  BY DEF Take
<1>2. /\ inbox' \in Seq(Message) /\ 1 \in DOMAIN inbox /\ m = inbox[1]
      /\ \A i \in DOMAIN inbox' : /\ i \in Nat /\ i > 0 /\ i + 1 \in DOMAIN inbox
                                  /\ inbox'[i] = inbox[i + 1]
  BY <1>1, AfterTake DEF TypeOK
<1>3. /\ ConnFollowsPhase' /\ connOf' = connOf /\ finalized' = finalized
  BY <1>1, WorkerStepKeeps
<1>4. MailNames' /\ EndsOnce'
  BY <1>2, <1>3 DEF MailNames, EndsOnce
<1>5. m \in Message /\ m.req \in Request /\ t \in Txn /\ m.req[2] = t
  BY <1>2, MailShape DEF TypeOK, TxnOf
<1>6. CASE Kind(m) = "beginTransaction"
  <2>1. TakeBegin(m)
    BY <1>6 DEF Take, Kind
  <2>2. TypeOK' /\ DownIsEmpty'
    BY <1>1, <1>2, <1>5, <2>1 DEF TakeBegin, TypeOK, DownIsEmpty, parentVars
  <2>3. UnfinishedHas' /\ BegunHas' /\ EndsDue'
    BY <1>1, <1>2, <1>3, <2>1 DEF TakeBegin, UnfinishedHas, BegunHas, EndsDue, Has
  <2>4. EndersHave' /\ UnheldClean' /\ NoQueryBesideEnd'
    BY <1>1, <1>3, <2>1 DEF TakeBegin, EndersHave, UnheldClean, NoQueryBesideEnd
  <2> QED
    BY <1>3, <1>4, <2>2, <2>3, <2>4
<1>7. CASE Kind(m) = "transactionQuery"
  <2>1. TakeQuery(m) /\ m.conn \in Conn /\ <<m.req[2], m.req[3]>> \in Query
    BY <1>2, <1>5, <1>7, RequestShape DEF Take, Kind, MailNames
  <2>2. CASE /\ Active(m.conn) /\ m.conn \notin closed
             /\ running' = [running EXCEPT ![m.conn] = @ \cup {<<m.req[2], m.req[3]>>}]
             /\ UNCHANGED <<outbox, acquiring, starting, holder, closed, enders>>
    <3>1. TypeOK' /\ DownIsEmpty'
      BY <1>1, <1>2, <2>1, <2>2 DEF TypeOK, DownIsEmpty, parentVars
    <3>2. UnfinishedHas' /\ BegunHas' /\ EndsDue'
      BY <1>1, <1>2, <1>3, <2>2 DEF UnfinishedHas, BegunHas, EndsDue, Has
    <3>3. EndersHave' /\ UnheldClean' /\ NoQueryBesideEnd'
      BY <1>1, <1>3, <2>1, <2>2 DEF EndersHave, UnheldClean, NoQueryBesideEnd, Active, TypeOK
    <3> QED
      BY <1>3, <1>4, <3>1, <3>2, <3>3
  <2>3. CASE Respond(m.req, FALSE, NoConn) /\ UNCHANGED workerVars
    <3>1. /\ outbox' \in Seq(Response)
          /\ \A i \in DOMAIN outbox' : \/ i \in DOMAIN outbox /\ outbox'[i] = outbox[i]
                                       \/ outbox'[i].ok = FALSE
      BY <1>5, <2>3, AfterRespond DEF TypeOK
    <3>2. TypeOK' /\ DownIsEmpty'
      BY <1>1, <1>2, <2>3, <3>1 DEF TypeOK, DownIsEmpty, parentVars
    <3>3. UnfinishedHas' /\ BegunHas' /\ EndsDue'
      BY <1>1, <1>2, <1>3, <2>3, <3>1 DEF UnfinishedHas, BegunHas, EndsDue, Has
    <3>4. EndersHave' /\ UnheldClean' /\ NoQueryBesideEnd'
      BY <1>1, <1>3, <2>3 DEF EndersHave, UnheldClean, NoQueryBesideEnd
    <3> QED
      BY <1>3, <1>4, <3>2, <3>3, <3>4
  <2> QED
    BY <2>1, <2>2, <2>3 DEF TakeQuery
<1>8. CASE Kind(m) = "endTransaction"
  <2>1. TakeEnd(m) /\ m.conn \in Conn /\ t \in finalized /\ Has(t, m.conn)
    BY <1>2, <1>5, <1>8 DEF Take, Kind, MailNames, EndsDue
  <2>2. PICK e : /\ e \in Ender /\ e.txn = t /\ e.conn = m.conn /\ enders' = enders \cup {e}
                 /\ e.stage = "finishing" => running[m.conn] = {}
                 /\ closed' = closed \cup {m.conn}
                 /\ UNCHANGED <<outbox, acquiring, starting, holder, running>>
    <3> DEFINE e == [txn |-> m.req[2], conn |-> m.conn, commit |-> m.commit, wants |-> m.wants,
                     stage |-> IF running[m.conn] = {} THEN "finishing" ELSE "waiting"]
    <3>1. Active(m.conn)
      BY <1>5, <2>1 DEF Has, Active, StartTransactionAssumption
    <3>2. e \in Ender /\ e.txn = t /\ e.conn = m.conn
          /\ (e.stage = "finishing" => running[m.conn] = {})
      BY <1>5, <2>1 DEF Ender, Message
    <3> QED
      BY <2>1, <3>1, <3>2 DEF TakeEnd
  <2>3. TypeOK' /\ DownIsEmpty'
    BY <1>1, <1>2, <2>1, <2>2 DEF TypeOK, DownIsEmpty, parentVars
  <2>4. \A k \in Conn, s \in Txn : s # t /\ Has(s, k) => Has(s, k)'
    BY <1>1, <2>1, <2>2 DEF Has
  <2>5. UnfinishedHas'
    BY <1>1, <1>3, <2>1, <2>4 DEF UnfinishedHas, TypeOK
  <2>6. BegunHas'
    <3>1. \A i \in DOMAIN outbox : TxnOf(outbox[i]) \in Txn
      <4>1. \A i \in DOMAIN outbox : outbox[i] \in Response
        BY DEF TypeOK
      <4>2. \A i \in DOMAIN outbox : outbox[i].req \in Request
        BY <4>1 DEF Response
      <4> QED
        BY <4>2, RequestShape DEF TxnOf
    <3> QED
      BY <1>1, <1>3, <2>1, <2>2, <2>4, <3>1 DEF BegunHas
  <2>7. EndsDue'
    <3>1. \A i \in DOMAIN inbox' : Kind(inbox'[i]) = "endTransaction" => TxnOf(inbox'[i]) # t
      BY <1>2, <1>8 DEF EndsOnce
    <3>2. \A i \in DOMAIN inbox' : TxnOf(inbox'[i]) \in Txn
      BY <1>2, MailShape DEF TypeOK
    <3> QED
      BY <1>2, <1>3, <2>4, <3>1, <3>2 DEF EndsDue, MailNames
  <2>8. EndersHave' /\ NoQueryBesideEnd'
    BY <1>3, <2>1, <2>2 DEF EndersHave, NoQueryBesideEnd, Has
  <2>9. UnheldClean'
    BY <1>1, <1>5, <2>1, <2>2 DEF UnheldClean, Has, StartTransactionAssumption
  <2> QED
    BY <1>3, <1>4, <2>3, <2>5, <2>6, <2>7, <2>8, <2>9
<1> QED
  BY <1>2, <1>6, <1>7, <1>8, MailShape DEF TypeOK

LEMMA AcquireKeepsIInv ==
    ASSUME IInv, NEW t \in Txn, NEW k \in Conn, Acquire(t, k)
    PROVE  IInv'
<1> USE DEF IInv, serverVars
<1>1. holder[k] = NoTxn /\ t # NoTxn
  BY DEF Acquire, UnheldClean, StartTransactionAssumption
<1>2. ConnFollowsPhase' /\ connOf' = connOf /\ finalized' = finalized
  BY WorkerStepKeeps DEF Acquire
<1>3. TypeOK'
  BY DEF Acquire, TypeOK, parentVars
<1>4. DownIsEmpty'
  BY DEF Acquire, DownIsEmpty, parentVars
<1>5. \A l \in Conn, s \in Txn : Has(s, l) => Has(s, l)'
  BY <1>1 DEF Acquire, Has, TypeOK, StartTransactionAssumption
<1>6. UnfinishedHas'
  BY <1>2, <1>5 DEF Acquire, UnfinishedHas, TypeOK
<1>7. BegunHas'
  <2>1. UNCHANGED <<outbox, workerUp>>
    BY DEF Acquire
  <2>2. \A i \in DOMAIN outbox : TxnOf(outbox[i]) \in Txn
    <3>1. \A i \in DOMAIN outbox : outbox[i] \in Response
      BY DEF TypeOK
    <3>2. \A i \in DOMAIN outbox : outbox[i].req \in Request
      BY <3>1 DEF Response
    <3> QED
      BY <3>2, RequestShape DEF TxnOf
  <2> QED
    BY <1>2, <1>5, <2>1, <2>2 DEF BegunHas
<1>8. MailNames' /\ EndsOnce'
  BY <1>2 DEF Acquire, MailNames, EndsOnce
<1>9. EndsDue'
  BY <1>2, <1>5, MailShape DEF Acquire, EndsDue, MailNames, TypeOK
<1>10. EndersHave' /\ NoQueryBesideEnd'
  BY <1>1, <1>2 DEF Acquire, EndersHave, NoQueryBesideEnd, UnheldClean, TypeOK, Ender
<1>11. UnheldClean'
  BY <1>1 DEF Acquire, UnheldClean, TypeOK
<1> QED
  BY <1>2, <1>3, <1>4, <1>6, <1>7, <1>8, <1>9, <1>10, <1>11

\* A response that is no beginTransaction's, or one that says it failed.
LEMMA RespondKeepsBegun ==
    ASSUME IInv, NEW r \in Request, NEW ok \in BOOLEAN, Respond(r, ok, NoConn),
           r[1] # "beginTransaction" \/ ~ok,
           UNCHANGED <<workerUp, finalized>>,
           \A k \in Conn, s \in Txn : s \notin finalized /\ Has(s, k) => Has(s, k)'
    PROVE  outbox' \in Seq(Response) /\ BegunHas'
<1> USE DEF IInv
<1>1. /\ outbox' \in Seq(Response)
      /\ \A i \in DOMAIN outbox' : \/ i \in DOMAIN outbox /\ outbox'[i] = outbox[i]
                                   \/ outbox'[i].req = r /\ outbox'[i].ok = ok
  BY AfterRespond DEF TypeOK
<1>2. \A i \in DOMAIN outbox : TxnOf(outbox[i]) \in Txn
  <2>1. \A i \in DOMAIN outbox : outbox[i] \in Response
    BY DEF TypeOK
  <2>2. \A i \in DOMAIN outbox : outbox[i].req \in Request
    BY <2>1 DEF Response
  <2> QED
    BY <2>2, RequestShape DEF TxnOf
<1>3. \A i \in DOMAIN outbox' : Kind(outbox'[i]) = "beginTransaction" /\ outbox'[i].ok =>
          i \in DOMAIN outbox /\ outbox'[i] = outbox[i]
  BY <1>1 DEF Kind
<1> QED
  BY <1>1, <1>2, <1>3 DEF BegunHas

LEMMA AcquireFailsKeepsIInv ==
    ASSUME IInv, NEW t \in Txn, AcquireFails(t)
    PROVE  IInv'
<1> USE DEF IInv, serverVars
<1>1. ConnFollowsPhase' /\ connOf' = connOf /\ finalized' = finalized
  BY WorkerStepKeeps DEF AcquireFails
<1>2. \A k \in Conn, s \in Txn : Has(s, k) => Has(s, k)'
  BY DEF AcquireFails, Has
<1>3. outbox' \in Seq(Response) /\ BegunHas'
  BY <1>1, <1>2, RequestParts, RespondKeepsBegun DEF AcquireFails
<1>4. TypeOK' /\ DownIsEmpty'
  BY <1>3 DEF AcquireFails, TypeOK, DownIsEmpty, parentVars
<1>5. UnfinishedHas' /\ EndsDue' /\ MailNames' /\ EndsOnce'
  BY <1>1 DEF AcquireFails, UnfinishedHas, EndsDue, MailNames, EndsOnce, Has
<1>6. EndersHave' /\ UnheldClean' /\ NoQueryBesideEnd'
  BY <1>1 DEF AcquireFails, EndersHave, UnheldClean, NoQueryBesideEnd
<1> QED
  BY <1>1, <1>3, <1>4, <1>5, <1>6

\* A connection with BEGIN in flight has a wrapper.
LEMMA StartingIsHeld ==
    ASSUME IInv, NEW k \in starting
    PROVE  k \in Conn /\ holder[k] \in Txn /\ BeginOf(holder[k]) \in Request
<1>1. k \in Conn /\ holder[k] \in Txn
  BY DEF IInv, TypeOK, UnheldClean
<1> QED
  BY <1>1, RequestParts

LEMMA BeginDoneKeepsIInv ==
    ASSUME IInv, NEW k \in Conn, BeginDone(k)
    PROVE  IInv'
<1> USE DEF IInv
<1>1. holder[k] \in Txn /\ BeginOf(holder[k]) \in Request /\ Kind([req |-> BeginOf(holder[k])]) = "beginTransaction"
      /\ BeginOf(holder[k])[2] = holder[k]
  BY StartingIsHeld, RequestParts DEF BeginDone, Kind
<1>2. ConnFollowsPhase' /\ connOf' = connOf /\ finalized' = finalized
  BY WorkerStepKeeps DEF BeginDone
<1>3. /\ outbox' \in Seq(Response)
      /\ \A i \in DOMAIN outbox' :
            \/ i \in DOMAIN outbox /\ outbox'[i] = outbox[i]
            \/ outbox'[i].req = BeginOf(holder[k]) /\ outbox'[i].ok = TRUE /\ outbox'[i].conn = k
  BY <1>1, AfterRespond DEF BeginDone, TypeOK
<1>4. TypeOK' /\ DownIsEmpty'
  BY <1>3 DEF BeginDone, TypeOK, DownIsEmpty, parentVars
<1>5. UnfinishedHas' /\ EndsDue' /\ MailNames' /\ EndsOnce'
  BY <1>2 DEF BeginDone, UnfinishedHas, EndsDue, MailNames, EndsOnce, Has
<1>6. BegunHas'
  <2>1. workerUp /\ holder[k] \notin finalized => Has(holder[k], k)'
    <3>1. k \in closed => holder[k] \in finalized
      BY DEF EndersHave
    <3> QED
      BY <1>1, <3>1 DEF BeginDone, Has
  <2> QED
    BY <1>1, <1>2, <1>3, <2>1 DEF BeginDone, BegunHas, Has, TxnOf
<1>7. EndersHave' /\ UnheldClean' /\ NoQueryBesideEnd'
  BY <1>2 DEF BeginDone, EndersHave, UnheldClean, NoQueryBesideEnd
<1> QED
  BY <1>2, <1>3, <1>4, <1>5, <1>6, <1>7

LEMMA BeginFailsKeepsIInv ==
    ASSUME IInv, NEW k \in Conn, BeginFails(k)
    PROVE  IInv'
<1> USE DEF IInv, serverVars
<1>1. BeginOf(holder[k]) \in Request
  BY StartingIsHeld DEF BeginFails
<1>2. ConnFollowsPhase' /\ connOf' = connOf /\ finalized' = finalized
  BY WorkerStepKeeps DEF BeginFails
<1>3. outbox' \in Seq(Response) /\ BegunHas'
  <2>1. \A l \in Conn, s \in Txn : Has(s, l) => Has(s, l)'
    BY DEF BeginFails, Has
  <2> QED
    BY <1>1, <1>2, <2>1, RespondKeepsBegun DEF BeginFails
<1>4. TypeOK' /\ DownIsEmpty'
  BY <1>3 DEF BeginFails, TypeOK, DownIsEmpty, parentVars
<1>5. UnfinishedHas' /\ EndsDue' /\ MailNames' /\ EndsOnce'
  BY <1>2 DEF BeginFails, UnfinishedHas, EndsDue, MailNames, EndsOnce, Has
<1>6. EndersHave' /\ UnheldClean' /\ NoQueryBesideEnd'
  BY <1>2 DEF BeginFails, EndersHave, UnheldClean, NoQueryBesideEnd
<1> QED
  BY <1>2, <1>3, <1>4, <1>5, <1>6

\* A query leaves its connection, answered one way or the other.
LEMMA UntrackKeepsIInv ==
    ASSUME IInv, NEW k \in Conn, NEW q \in running[k], NEW ok \in BOOLEAN,
           Answered(k, q, ok), inTxn' \subseteq inTxn,
           work' \in [Conn -> SUBSET Query],
           \A l \in Conn : k # l => work'[l] = work[l],
           applied' \subseteq Query, durable' \subseteq Query, undone' \subseteq Query
    PROVE  IInv'
<1> USE DEF IInv, Answered
<1>1. q \in Query /\ QueryOf(q) \in Request /\ QueryOf(q)[1] # "beginTransaction"
      /\ holder[k] # NoTxn
  BY RequestParts DEF TypeOK, UnheldClean
<1>2. ConnFollowsPhase' /\ connOf' = connOf /\ finalized' = finalized
  BY WorkerStepKeeps
<1>3. outbox' \in Seq(Response) /\ BegunHas'
  <2>1. \A l \in Conn, s \in Txn : Has(s, l) => Has(s, l)'
    BY DEF Has
  <2> QED
    BY <1>1, <1>2, <2>1, RespondKeepsBegun
<1>4. /\ enders' \subseteq Ender
      /\ \A f \in enders' : \E e \in enders : /\ f.conn = e.conn /\ f.txn = e.txn
                                              /\ f.commit = e.commit
                                              /\ \/ f = e
                                                 \/ e.conn = k /\ running[k] = {q}
      /\ \A e \in enders : \E f \in enders' : f.conn = e.conn
  <2> DEFINE g(e) == IF e.conn = k /\ running[k] = {q} THEN [e EXCEPT !.stage = "finishing"] ELSE e
  <2>1. \A e \in Ender : /\ g(e) \in Ender /\ g(e).conn = e.conn /\ g(e).txn = e.txn
                         /\ g(e).commit = e.commit
                         /\ g(e) = e \/ (e.conn = k /\ running[k] = {q})
    BY DEF Ender
  <2>2. enders' = {g(e) : e \in enders} /\ enders \subseteq Ender
    BY DEF Untrack, TypeOK
  <2> HIDE DEF g
  <2> QED
    BY <2>1, <2>2
<1>5. /\ running' = [running EXCEPT ![k] = @ \ {q}]
      /\ running' \in [Conn -> SUBSET Query]
  BY DEF Untrack, TypeOK
<1>6. TypeOK' /\ DownIsEmpty'
  <2>1. TypeOK'
    BY <1>3, <1>4, <1>5 DEF TypeOK, parentVars
  <2> QED
    BY <1>1, <2>1 DEF DownIsEmpty, parentVars
<1>7. UnfinishedHas' /\ EndsDue' /\ MailNames' /\ EndsOnce'
  BY <1>2 DEF UnfinishedHas, EndsDue, MailNames, EndsOnce, Has
<1>8. EndersHave'
  <2>1. \A e, f \in enders' : e.conn = f.conn => e = f
    <3> DEFINE g(e) == IF e.conn = k /\ running[k] = {q} THEN [e EXCEPT !.stage = "finishing"] ELSE e
    <3>1. \A e \in Ender : g(e).conn = e.conn
      BY DEF Ender
    <3>2. enders' = {g(e) : e \in enders} /\ enders \subseteq Ender
      BY DEF Untrack, TypeOK
    <3> HIDE DEF g
    <3> QED
      BY <3>1, <3>2 DEF EndersHave
  <2>2. \A e \in enders' : holder[e.conn] = e.txn /\ e.conn \in closed /\ e.txn \in finalized
    BY <1>4 DEF EndersHave
  <2>3. \A l \in closed : \E e \in enders' : e.conn = l
    BY <1>4 DEF EndersHave
  <2> QED
    BY <1>2, <2>1, <2>2, <2>3 DEF EndersHave
<1>9. NoQueryBesideEnd'
  BY <1>4, <1>5 DEF NoQueryBesideEnd, TypeOK, Ender
<1>10. UnheldClean'
  BY <1>1, <1>4, <1>5 DEF UnheldClean, TypeOK
<1> QED
  BY <1>2, <1>3, <1>6, <1>7, <1>8, <1>9, <1>10

LEMMA QueryEndsKeepsIInv ==
    ASSUME IInv, NEW k \in Conn, NEW q \in running[k], QueryEnds(k, q)
    PROVE  IInv'
<1>1. /\ q \in Query /\ work \in [Conn -> SUBSET Query]
      /\ applied \subseteq Query /\ durable \subseteq Query /\ undone \subseteq Query
  BY DEF IInv, TypeOK
<1>2. CASE QueryDone(k, q)
  <2>1. /\ applied' \subseteq Query /\ durable' \subseteq Query /\ undone' \subseteq Query
        /\ work' \in [Conn -> SUBSET Query]
        /\ \A l \in Conn : k # l => work'[l] = work[l]
    BY <1>1, <1>2 DEF QueryDone
  <2> QED
    BY <1>2, <2>1, UntrackKeepsIInv DEF QueryDone
<1>3. CASE QueryFails(k, q)
  BY <1>1, <1>3, UntrackKeepsIInv DEF QueryFails, serverVars
<1>4. CASE QueryRolledBack(k, q)
  BY <1>1, <1>4, UntrackKeepsIInv DEF QueryRolledBack
<1> QED
  BY <1>2, <1>3, <1>4 DEF QueryEnds

LEMMA EndHandlerKeepsIInv ==
    ASSUME IInv, NEW e \in enders, NEW failed \in BOOLEAN, EndHandler(e, failed),
           e.stage = "finishing", e.conn \notin starting, durable' \subseteq Query
    PROVE  IInv'
<1> DEFINE k == e.conn
<1> USE DEF IInv
<1>1. /\ k \in Conn /\ e.txn \in Txn /\ holder[k] = e.txn /\ k \in closed /\ running[k] = {}
      /\ e.txn \in finalized /\ e.txn # NoTxn /\ e \in Ender
  BY DEF TypeOK, EndersHave, NoQueryBesideEnd, Ender, StartTransactionAssumption
<1>2. ConnFollowsPhase' /\ connOf' = connOf /\ finalized' = finalized
  BY WorkerStepKeeps DEF EndHandler
<1>3. /\ UNCHANGED <<parentVars, inbox, workerUp, acquiring, starting, running, applied, undone>>
      /\ enders' = enders \ {e}
      /\ holder' = [holder EXCEPT ![k] = NoTxn] /\ closed' = closed \ {k}
      /\ slot' = [slot EXCEPT ![k] = IF failed THEN "destroyed" ELSE "idle"]
      /\ inTxn' = inTxn \ {k} /\ work' = [work EXCEPT ![k] = {}]
  BY DEF EndHandler, Dispose
<1>4. \A l \in Conn, s \in Txn : Has(s, l) => Has(s, l)'
  BY <1>1, <1>3 DEF Has, TypeOK
<1>5. outbox' \in Seq(Response) /\ BegunHas'
  <2>1. CASE e.wants
    BY <1>1, <1>2, <1>3, <1>4, <2>1, RequestParts, RespondKeepsBegun DEF EndHandler
  <2>2. CASE ~e.wants
    <3>1. UNCHANGED outbox
      BY <2>2 DEF EndHandler
    <3>2. \A i \in DOMAIN outbox : TxnOf(outbox[i]) \in Txn
      <4>1. \A i \in DOMAIN outbox : outbox[i] \in Response
        BY DEF TypeOK
      <4>2. \A i \in DOMAIN outbox : outbox[i].req \in Request
        BY <4>1 DEF Response
      <4> QED
        BY <4>2, RequestShape DEF TxnOf
    <3> QED
      BY <1>2, <1>3, <1>4, <3>1, <3>2 DEF BegunHas, TypeOK
  <2> QED
    BY <2>1, <2>2
<1>6. TypeOK'
  BY <1>1, <1>3, <1>5 DEF TypeOK, parentVars
<1>7. DownIsEmpty'
  BY <1>1, <1>3 DEF DownIsEmpty, parentVars, TypeOK
<1>8. UnfinishedHas'
  BY <1>2, <1>3, <1>4 DEF UnfinishedHas, TypeOK
<1>9. EndsDue'
  BY <1>2, <1>3, <1>4, MailShape DEF EndsDue, MailNames, TypeOK
<1>10. MailNames' /\ EndsOnce'
  BY <1>2, <1>3 DEF MailNames, EndsOnce
<1>11. EndersHave' /\ NoQueryBesideEnd'
  BY <1>1, <1>2, <1>3 DEF EndersHave, NoQueryBesideEnd, TypeOK, Ender
<1>12. UnheldClean'
  BY <1>1, <1>3 DEF UnheldClean, TypeOK, EndersHave
<1> QED
  BY <1>2, <1>5, <1>6, <1>7, <1>8, <1>9, <1>10, <1>11, <1>12

LEMMA EndKeepsIInv ==
    ASSUME IInv, NEW e \in enders, EndDone(e) \/ EndFails(e)
    PROVE  IInv'
<1>1. e \in Ender /\ work[e.conn] \subseteq Query /\ durable \subseteq Query
  BY DEF IInv, TypeOK, Ender
<1>2. CASE EndDone(e)
  BY <1>1, <1>2, EndHandlerKeepsIInv DEF EndDone
<1>3. CASE EndFails(e)
  BY <1>1, <1>3, EndHandlerKeepsIInv DEF EndFails
<1> QED
  BY <1>2, <1>3

LEMMA WorkerDiesKeepsIInv ==
    ASSUME IInv, WorkerDies
    PROVE  IInv'
<1> USE DEF IInv
<1>1. ConnFollowsPhase' /\ connOf' = connOf /\ finalized' = finalized
  BY WorkerStepKeeps DEF WorkerDies
<1>2. durable' \subseteq Query
  <2>1. PICK C \in SUBSET {e.conn : e \in {f \in enders : f.stage = "finishing" /\ f.commit}} :
            durable' = durable \cup UNION {work[k] : k \in C}
    BY DEF WorkerDies
  <2>2. C \subseteq Conn
    BY <2>1 DEF TypeOK, Ender
  <2> QED
    BY <2>1, <2>2 DEF TypeOK
<1>3. slot' \in [Conn -> {"unopened", "idle", "held", "destroyed"}]
  BY DEF WorkerDies
<1>4. TypeOK'
  <2>1. inbox' \in Seq(Message) /\ outbox' \in Seq(Response) /\ workerUp' \in BOOLEAN
        /\ applied' \subseteq Query /\ undone' \subseteq Query
    <3>1. /\ inbox' = <<>> /\ outbox' = outbox /\ workerUp' = FALSE
          /\ applied' = applied /\ undone' = undone
      BY DEF WorkerDies
    <3>2. <<>> \in Seq(Message)
      OBVIOUS
    <3>3. outbox \in Seq(Response) /\ applied \subseteq Query /\ undone \subseteq Query
      BY DEF TypeOK
    <3> QED
      BY <3>1, <3>2, <3>3
  <2>2. /\ holder' \in [Conn -> Txn \cup {NoTxn}] /\ running' \in [Conn -> SUBSET Query]
        /\ work' \in [Conn -> SUBSET Query]
    BY DEF WorkerDies
  <2>3. /\ acquiring' = {} /\ starting' = {} /\ closed' = {} /\ enders' = {} /\ inTxn' = {}
        /\ UNCHANGED parentVars
    BY DEF WorkerDies
  <2> QED
    BY <1>2, <1>3, <2>1, <2>2, <2>3 DEF TypeOK, parentVars
<1>5. DownIsEmpty'
  BY DEF WorkerDies, DownIsEmpty, parentVars
<1>6. UnfinishedHas' /\ BegunHas' /\ MailNames' /\ EndsDue' /\ EndsOnce'
  BY <1>1 DEF WorkerDies, UnfinishedHas, BegunHas, MailNames, EndsDue, EndsOnce
<1>7. EndersHave' /\ UnheldClean' /\ NoQueryBesideEnd'
  BY DEF WorkerDies, EndersHave, UnheldClean, NoQueryBesideEnd
<1> QED
  BY <1>1, <1>4, <1>5, <1>6, <1>7

LEMMA InitIInv == Init => IInv
<1> SUFFICES ASSUME Init PROVE IInv
  OBVIOUS
<1> USE DEF Init
<1>1. TypeOK
  <2>1. /\ phase \in [Txn -> {"idle", "beginning", "running", "ending", "done"}]
        /\ connOf \in [Txn -> Conn \cup {NoConn}] /\ verdict \in [Txn -> BOOLEAN]
        /\ told \in [Txn -> {"none", "true", "false", "threw"}]
        /\ asked \in [Query -> {"new", "sent", "ok", "failed", "aborted"}]
    OBVIOUS
  <2>2. /\ holder \in [Conn -> Txn \cup {NoTxn}] /\ running \in [Conn -> SUBSET Query]
        /\ slot \in [Conn -> {"unopened", "idle", "held", "destroyed"}]
        /\ work \in [Conn -> SUBSET Query]
    OBVIOUS
  <2>3. inbox \in Seq(Message) /\ outbox \in Seq(Response)
    OBVIOUS
  <2> QED
    BY <2>1, <2>2, <2>3 DEF TypeOK
<1>2. DownIsEmpty /\ ConnFollowsPhase /\ UnfinishedHas /\ BegunHas
  BY DEF DownIsEmpty, ConnFollowsPhase, UnfinishedHas, BegunHas
<1>3. MailNames /\ EndsDue /\ EndsOnce /\ EndersHave /\ UnheldClean /\ NoQueryBesideEnd
  BY DEF MailNames, EndsDue, EndsOnce, EndersHave, UnheldClean, NoQueryBesideEnd
<1> QED
  BY <1>1, <1>2, <1>3 DEF IInv

LEMMA NextIInv == IInv /\ [Next]_vars => IInv'
<1> SUFFICES ASSUME IInv, [Next]_vars PROVE IInv'
  OBVIOUS
<1>1. CASE UNCHANGED vars
  <2> USE <1>1 DEF vars, IInv
  <2>1. TypeOK' /\ DownIsEmpty' /\ ConnFollowsPhase' /\ MailNames' /\ EndsOnce'
    BY DEF TypeOK, DownIsEmpty, ConnFollowsPhase, MailNames, EndsOnce
  <2>2. UnfinishedHas' /\ BegunHas' /\ EndsDue' /\ EndersHave' /\ UnheldClean' /\ NoQueryBesideEnd'
    BY DEF UnfinishedHas, BegunHas, EndsDue, Has, EndersHave, UnheldClean, NoQueryBesideEnd
  <2> QED
    BY <2>1, <2>2
<1>2. ASSUME NEW t \in Txn, StartTransaction(t) PROVE IInv'
  BY <1>2, StartTransactionKeepsIInv
<1>3. ASSUME NEW t \in Txn, Timeout(t) PROVE IInv'
  BY <1>3, TimeoutKeepsIInv
<1>4. ASSUME NEW q \in Query, QueryFn(q) PROVE IInv'
  BY <1>4, QueryFnKeepsIInv
<1>5. ASSUME NEW t \in Txn, NEW commit \in BOOLEAN, CallbackEnds(t, commit) PROVE IInv'
  BY <1>5, CallbackEndsKeepsIInv
<1>6. CASE Deliver
  BY <1>6, DeliverKeepsIInv
<1>7. ASSUME NEW r \in open, Synthesize(r) PROVE IInv'
  BY <1>7, SynthesizeKeepsIInv
<1>8. CASE SeeExit
  BY <1>8, SeeExitKeepsIInv
<1>9. CASE Take
  BY <1>9, TakeKeepsIInv
<1>10. ASSUME NEW t \in Txn, NEW k \in Conn, Acquire(t, k) PROVE IInv'
  BY <1>10, AcquireKeepsIInv
<1>11. ASSUME NEW t \in Txn, AcquireFails(t) PROVE IInv'
  BY <1>11, AcquireFailsKeepsIInv
<1>12. ASSUME NEW k \in Conn, BeginDone(k) \/ BeginFails(k) PROVE IInv'
  BY <1>12, BeginDoneKeepsIInv, BeginFailsKeepsIInv
<1>13. ASSUME NEW k \in Conn, NEW q \in running[k], QueryEnds(k, q) PROVE IInv'
  BY <1>13, QueryEndsKeepsIInv
<1>14. ASSUME NEW e \in enders, EndDone(e) \/ EndFails(e) PROVE IInv'
  BY <1>14, EndKeepsIInv
<1>15. CASE WorkerDies
  BY <1>15, WorkerDiesKeepsIInv
<1> QED
  BY <1>1, <1>2, <1>3, <1>4, <1>5, <1>6, <1>7, <1>8, <1>9, <1>10, <1>11, <1>12, <1>13, <1>14,
     <1>15 DEF Next

LEMMA IInvHolds == SafeSpec => []IInv
<1> QED
  BY InitIInv, NextIInv, PTL DEF SafeSpec

\* The model's variables have their types, in every instance.
THEOREM TypeCorrect == SafeSpec => []TypeOK
<1>1. IInv => TypeOK
  BY DEF IInv
<1> QED
  BY <1>1, IInvHolds, PTL

\* However the timer, the callback and the messages interleave, COMMIT and
\* ROLLBACK wait for the queries of their connection (waitUntilIdle), and no
\* query gets in behind them (markClosed).
THEOREM EndsAlone == SafeSpec => []NoQueryBesideEnd
<1>1. IInv => NoQueryBesideEnd
  BY DEF IInv
<1> QED
  BY <1>1, IInvHolds, PTL

\* What the pool may lend next is clean: the dispose of a connection leaves
\* no wrapper, no query and no open transaction behind it.
THEOREM LentClean == SafeSpec => []IdleIsClean
<1>1. IInv => IdleIsClean
  <2> SUFFICES ASSUME IInv, NEW k \in Conn, slot[k] = "idle"
               PROVE  /\ holder[k] = NoTxn /\ running[k] = {} /\ k \notin inTxn \cup starting
                      /\ \A e \in enders : e.conn # k
    BY DEF IdleIsClean
  <2> QED
    BY DEF IInv, UnheldClean
<1> QED
  BY <1>1, IInvHolds, PTL

\* The second look at the signal, after the await: once a transaction is
\* aborted none of its queries comes to a result any more.
THEOREM AbortedGetsNoResult == SafeSpec => NoResultAfterAbort
<1> DEFINE Silent == \A q \in Query : asked[q] # "ok" /\ asked'[q] = "ok" => q[1] \notin aborted
<1>1. IInv /\ [Next]_vars => [Silent]_vars
  <2> SUFFICES ASSUME IInv, [Next]_vars, NEW q \in Query, asked[q] # "ok", asked'[q] = "ok"
               PROVE  q[1] \notin aborted
    OBVIOUS
  <2> USE DEF IInv
  <2>1. ASSUME NEW r \in open, NEW ok \in BOOLEAN, NEW k, Resume(r, ok, k) PROVE q[1] \notin aborted
    <3>1. r \in Request
      BY DEF TypeOK
    <3>2. PICK p \in Query : p[1] = r[2] /\ asked' = [asked EXCEPT ![p] = QueryResult(r[2], ok)]
      BY <2>1, <3>1, ResumeCases
    <3>3. p = q /\ QueryResult(r[2], ok) = "ok"
      BY <3>2 DEF TypeOK
    <3> QED
      BY <3>2, <3>3 DEF QueryResult
  <2>2. CASE Deliver
    <3>1. Head(outbox) \in Response
      BY <2>2, Shifted DEF Deliver, TypeOK
    <3>2. Head(outbox).ok \in BOOLEAN
      BY <3>1 DEF Response
    <3> QED
      BY <2>1, <2>2, <3>2 DEF Deliver
  <2>3. ASSUME NEW r \in open, Synthesize(r) PROVE q[1] \notin aborted
    BY <2>1, <2>3 DEF Synthesize
  <2>4. ASSUME NEW p \in Query, QueryFn(p) PROVE q[1] \notin aborted
    BY <2>4 DEF QueryFn, TypeOK
  <2>5. CASE \/ \E t \in Txn : StartTransaction(t) \/ Timeout(t)
             \/ \E t \in Txn, commit \in BOOLEAN : CallbackEnds(t, commit)
             \/ SeeExit \/ UNCHANGED vars
    BY <2>5 DEF StartTransaction, Timeout, CallbackEnds, SeeExit, vars
  <2>6. CASE \/ Take
             \/ \E t \in Txn : AcquireFails(t) \/ \E k \in Conn : Acquire(t, k)
             \/ \E k \in Conn : BeginDone(k) \/ BeginFails(k)
             \/ \E k \in Conn : \E p \in running[k] : QueryEnds(k, p)
             \/ \E e \in enders : EndDone(e) \/ EndFails(e)
             \/ WorkerDies
    BY <2>6 DEF Take, AcquireFails, Acquire, BeginDone, BeginFails, QueryEnds, QueryDone,
                QueryFails, QueryRolledBack, Answered, EndDone, EndFails, EndHandler, WorkerDies,
                parentVars
  <2> QED
    BY <2>2, <2>3, <2>4, <2>5, <2>6 DEF Next
<1> QED
  BY <1>1, IInvHolds, PTL DEF NoResultAfterAbort, SafeSpec

-----------------------------------------------------------------------------
(* The second invariant, action by action *)

\* A response in the outbox is about a transaction.
LEMMA ResponseShape ==
    ASSUME outbox \in Seq(Response), NEW i \in DOMAIN outbox
    PROVE  /\ outbox[i] \in Response /\ outbox[i].req \in Request /\ outbox[i].ok \in BOOLEAN
           /\ TxnOf(outbox[i]) \in Txn
<1>1. outbox[i] \in Response
  OBVIOUS
<1>2. outbox[i].req \in Request /\ outbox[i].ok \in BOOLEAN
  BY <1>1 DEF Response
<1> QED
  BY <1>1, <1>2, RequestShape DEF TxnOf

\* What the worker and the server have done does not depend on the parent.
LEMMA ParentStepKeeps ==
    ASSUME AInv, UNCHANGED <<connOf, workerVars, slot, serverVars>>
    PROVE  OwnHere' /\ WorkInProgress' /\ Whole'
  BY DEF AInv, OwnHere, WorkInProgress, Whole, workerVars, serverVars, Undone

LEMMA StartTransactionKeepsAInv ==
    ASSUME IInv, AInv, NEW t \in Txn, StartTransaction(t)
    PROVE  AInv'
<1> DEFINE m == [req |-> BeginOf(t), conn |-> NoConn, commit |-> FALSE, wants |-> TRUE]
<1> USE DEF AInv, workerVars, serverVars
<1>1. /\ m \in Message /\ Kind(m) = "beginTransaction" /\ BeginOf(t) \in Request /\ TxnOf(m) = t
      /\ m.req = BeginOf(t)
  BY RequestParts DEF Message, Kind, TxnOf
<1>2. /\ inbox' \in Seq(Message)
      /\ \A i \in DOMAIN inbox : i \in DOMAIN inbox' /\ inbox'[i] = inbox[i]
      /\ \A i \in DOMAIN inbox' : \/ i \in DOMAIN inbox /\ inbox'[i] = inbox[i]
                                  \/ i = Len(inbox) + 1 /\ inbox'[i] = m
  <2>1. CASE Post(m)
    BY <1>1, <2>1, AfterPost DEF IInv, TypeOK
  <2>2. CASE UNCHANGED inbox
    BY <2>2 DEF IInv, TypeOK
  <2> QED
    BY <2>1, <2>2 DEF StartTransaction
<1>3. OwnHere' /\ WorkInProgress' /\ Whole'
  BY ParentStepKeeps DEF StartTransaction
<1>4. EndsInOrder'
  <2>1. \A s \in Txn : phase'[s] # phase[s] => s = t /\ phase'[s] \in {"beginning", "done"}
    BY DEF StartTransaction, Return, IInv, TypeOK
  <2>2. \A s \in Txn : told'[s] # told[s] => s = t /\ phase'[s] = "done" /\ told'[s] # "true"
    BY DEF StartTransaction, Return, BeginFailed, IInv, TypeOK
  <2>3. phase[t] = "idle" /\ t \notin finalized /\ ~verdict[t] /\ NoConn \notin Conn
    BY DEF StartTransaction, EndsInOrder, IInv, ConnFollowsPhase, StartTransactionAssumption, TypeOK
  <2>4. \A s \in Txn : EndOf(s) \in open' => EndOf(s) \in open
    BY RequestsDiffer DEF StartTransaction
  <2>5. EndOf(t) \notin open
    BY <2>3 DEF IInv, ConnFollowsPhase
  <2> QED
    BY <2>1, <2>2, <2>3, <2>4, <2>5 DEF StartTransaction, EndsInOrder
<1>5. QueriesBeforeEnd'
  BY <1>1, <1>2 DEF StartTransaction, QueriesBeforeEnd
<1>6. BeginsOnce'
  <2>1. \A s \in Txn : Asking(s)' => Asking(s) \/ s = t
    BY <1>1, <1>2, RequestsDiffer DEF StartTransaction, Asking
  <2>2. \A s \in Txn : phase'[s] = "idle" => phase[s] = "idle" /\ s # t
    BY DEF StartTransaction, Return, IInv, TypeOK
  <2>3. /\ phase[t] = "idle" /\ ~Asking(t) /\ \A k \in Conn : holder[k] # t
        /\ \A i \in DOMAIN outbox : outbox[i].req # BeginOf(t)
        /\ connOf[t] = NoConn
    BY DEF StartTransaction, BeginsOnce, IInv, ConnFollowsPhase
  <2>4. \A i \in DOMAIN inbox : inbox[i].req # BeginOf(t)
    BY <2>3 DEF Asking
  <2>5. UNCHANGED <<outbox, connOf, holder, acquiring>>
    BY DEF StartTransaction
  <2>6. /\ \A s \in Txn : Asking(s)' => /\ connOf'[s] = NoConn /\ \A k \in Conn : holder'[k] # s
                                        /\ \A i \in DOMAIN outbox' : outbox'[i].req # BeginOf(s)
        /\ \A s \in Txn : phase'[s] = "idle" =>
              /\ ~Asking(s)' /\ \A k \in Conn : holder'[k] # s
              /\ \A i \in DOMAIN outbox' : outbox'[i].req # BeginOf(s)
    BY <2>1, <2>2, <2>3, <2>5 DEF BeginsOnce
  <2>7. \A i \in DOMAIN inbox' : Kind(inbox'[i]) = "beginTransaction" => TxnOf(inbox'[i]) \notin acquiring'
    BY <1>1, <1>2, <2>3, <2>5 DEF BeginsOnce, Asking
  <2>8. \A i, j \in DOMAIN inbox' :
            Kind(inbox'[i]) = "beginTransaction" /\ inbox'[i].req = inbox'[j].req => i = j
    BY <1>1, <1>2, <2>4 DEF BeginsOnce
  <2> QED
    BY <2>5, <2>6, <2>7, <2>8 DEF BeginsOnce
<1>7. CommitsOnVerdict'
  BY <1>1, <1>2 DEF StartTransaction, CommitsOnVerdict, Undone
<1>8. ResultsTrue'
  <2>1. told' = told \/ (Propagate => \A s \in Txn : told'[s] = "true" => told[s] = "true")
    BY DEF StartTransaction, Return, BeginFailed, IInv, TypeOK
  <2> QED
    BY <2>1 DEF StartTransaction, ResultsTrue, Sealed, Undone
<1> QED
  BY <1>3, <1>4, <1>5, <1>6, <1>7, <1>8

LEMMA QueryFnKeepsAInv ==
    ASSUME IInv, AInv, "stray" \notin Faults, NEW q \in Query, QueryFn(q)
    PROVE  AInv'
<1> DEFINE t == q[1]
           m == [req |-> QueryOf(q), conn |-> connOf[t], commit |-> FALSE, wants |-> TRUE]
<1> USE DEF AInv, workerVars, serverVars
<1>1. /\ t \in Txn /\ m \in Message /\ Kind(m) = "transactionQuery" /\ TxnOf(m) = t
      /\ m.req = QueryOf(q)
  BY RequestParts DEF IInv, TypeOK, Message, Kind, TxnOf
<1>2. /\ UNCHANGED inbox \/ t \notin aborted
      /\ \A i \in DOMAIN inbox : i \in DOMAIN inbox' /\ inbox'[i] = inbox[i]
      /\ \A i \in DOMAIN inbox' : \/ i \in DOMAIN inbox /\ inbox'[i] = inbox[i]
                                  \/ /\ i = Len(inbox) + 1 /\ inbox'[i] = m /\ t \notin aborted
  <2>1. CASE Post(m) /\ t \notin aborted
    BY <1>1, <2>1, AfterPost DEF IInv, TypeOK
  <2>2. CASE UNCHANGED inbox
    BY <2>2
  <2> QED
    BY <2>1, <2>2 DEF QueryFn
<1>3. OwnHere' /\ WorkInProgress' /\ Whole'
  BY ParentStepKeeps DEF QueryFn
<1>4. EndsInOrder'
  BY RequestsDiffer DEF QueryFn, EndsInOrder
<1>5. QueriesBeforeEnd'
  <2>1. t \notin aborted => t \notin finalized
    BY <1>1 DEF QueryFn, EndsInOrder
  <2>2. finalized' = finalized
    BY DEF QueryFn
  <2> QED
    <3> SUFFICES ASSUME NEW i \in DOMAIN inbox', Kind(inbox'[i]) = "transactionQuery",
                        TxnOf(inbox'[i]) \in finalized
                 PROVE  \E j \in DOMAIN inbox' : j > i /\ inbox'[j].req = EndOf(TxnOf(inbox'[i]))
      BY <2>2 DEF QueriesBeforeEnd
    <3>1. i \in DOMAIN inbox /\ inbox'[i] = inbox[i]
      BY <1>1, <1>2, <2>1
    <3>2. PICK j \in DOMAIN inbox : j > i /\ inbox[j].req = EndOf(TxnOf(inbox[i]))
      BY <3>1 DEF QueriesBeforeEnd
    <3> QED
      BY <1>2, <3>1, <3>2
<1>6. BeginsOnce'
  <2>1. UNCHANGED <<phase, outbox, connOf, holder, acquiring>>
    BY DEF QueryFn
  <2>2. \A s \in Txn : QueryOf(q) # BeginOf(s)
    BY RequestsDiffer
  <2>3. \A s \in Txn : Asking(s)' => Asking(s)
    BY <1>1, <1>2, <2>1, <2>2 DEF Asking
  <2>4. \A i \in DOMAIN inbox' : Kind(inbox'[i]) = "beginTransaction" =>
            i \in DOMAIN inbox /\ inbox'[i] = inbox[i]
    BY <1>1, <1>2
  <2>5. \A i \in DOMAIN inbox' : \A j \in DOMAIN inbox' :
            Kind(inbox'[i]) = "beginTransaction" /\ inbox'[i].req = inbox'[j].req =>
                Kind(inbox'[j]) = "beginTransaction"
    BY DEF Kind
  <2> QED
    BY <2>1, <2>3, <2>4, <2>5 DEF BeginsOnce
<1>7. CommitsOnVerdict'
  BY <1>1, <1>2 DEF QueryFn, CommitsOnVerdict, Undone
<1>8. ResultsTrue'
  BY DEF QueryFn, ResultsTrue, Sealed, IInv, TypeOK, Undone
<1> QED
  BY <1>3, <1>4, <1>5, <1>6, <1>7, <1>8

\* finalize, seen from the mailbox.
LEMMA FinalizeKeepsMail ==
    ASSUME IInv, AInv, NEW t \in Txn, NEW commit \in BOOLEAN, phase[t] = "running",
           Finalize(t, commit), t \in finalized \/ verdict'[t] = commit,
           \A s \in Txn : s # t => verdict'[s] = verdict[s],
           t \in finalized => verdict'[t] = verdict[t],
           \A s \in Txn : phase'[s] = "idle" => phase[s] = "idle",
           UNCHANGED <<connOf, outbox, workerVars>>
    PROVE  /\ QueriesBeforeEnd' /\ BeginsOnce'
           /\ \A i \in DOMAIN inbox' : Kind(inbox'[i]) = "endTransaction" =>
                 inbox'[i].commit = verdict'[TxnOf(inbox'[i])]
<1> DEFINE m == [req |-> EndOf(t), conn |-> connOf[t], commit |-> commit, wants |-> Propagate]
<1> USE DEF AInv, workerVars
<1>1. /\ m \in Message /\ Kind(m) = "endTransaction" /\ TxnOf(m) = t /\ m.req = EndOf(t)
      /\ m.commit = commit /\ inbox \in Seq(Message)
  BY RequestParts DEF IInv, TypeOK, ConnFollowsPhase, Message, Kind, TxnOf
<1>2. /\ finalized' = finalized \cup {t}
      /\ \/ UNCHANGED inbox /\ (t \in finalized \/ exited)
         \/ t \notin finalized /\ Post(m)
  BY DEF Finalize
<1>3. inbox # <<>> => workerUp /\ ~exited
  BY DEF IInv, DownIsEmpty
<1>4. /\ \A i \in DOMAIN inbox : i \in DOMAIN inbox' /\ inbox'[i] = inbox[i]
      /\ \A i \in DOMAIN inbox' : \/ i \in DOMAIN inbox /\ inbox'[i] = inbox[i]
                                  \/ i = Len(inbox) + 1 /\ inbox'[i] = m /\ t \notin finalized
  <2>1. CASE Post(m) /\ t \notin finalized
    BY <1>1, <2>1, AfterPost
  <2>2. CASE UNCHANGED inbox
    BY <2>2
  <2> QED
    BY <1>2, <2>1, <2>2
<1>5. QueriesBeforeEnd'
  <2> SUFFICES ASSUME NEW i \in DOMAIN inbox', Kind(inbox'[i]) = "transactionQuery",
                      TxnOf(inbox'[i]) \in finalized'
               PROVE  \E j \in DOMAIN inbox' : j > i /\ inbox'[j].req = EndOf(TxnOf(inbox'[i]))
    BY DEF QueriesBeforeEnd
  <2>1. i \in DOMAIN inbox /\ inbox'[i] = inbox[i] /\ workerUp /\ ~exited
    BY <1>1, <1>3, <1>4
  <2>2. CASE TxnOf(inbox[i]) \in finalized
    BY <1>4, <2>1, <2>2 DEF QueriesBeforeEnd
  <2>3. CASE TxnOf(inbox[i]) \notin finalized
    <3>1. TxnOf(inbox[i]) = t /\ Post(m)
      BY <1>2, <2>1, <2>3
    <3>2. Len(inbox) + 1 \in DOMAIN inbox' /\ inbox'[Len(inbox) + 1] = m /\ i < Len(inbox) + 1
      BY <1>1, <2>1, <3>1, AfterPost
    <3> QED
      BY <1>1, <2>1, <3>1, <3>2
  <2> QED
    BY <2>2, <2>3
<1>6. BeginsOnce'
  <2>1. \A s \in Txn : EndOf(t) # BeginOf(s)
    BY RequestsDiffer
  <2>2. \A s \in Txn : Asking(s)' => Asking(s)
    BY <1>1, <1>4, <2>1 DEF Asking
  <2>3. \A i \in DOMAIN inbox' : Kind(inbox'[i]) = "beginTransaction" =>
            i \in DOMAIN inbox /\ inbox'[i] = inbox[i]
    BY <1>1, <1>4
  <2>4. \A i \in DOMAIN inbox' : \A j \in DOMAIN inbox' :
            Kind(inbox'[i]) = "beginTransaction" /\ inbox'[i].req = inbox'[j].req =>
                Kind(inbox'[j]) = "beginTransaction"
    BY DEF Kind
  <2> QED
    BY <2>2, <2>3, <2>4 DEF BeginsOnce
<1>7. ASSUME NEW i \in DOMAIN inbox', Kind(inbox'[i]) = "endTransaction"
      PROVE  inbox'[i].commit = verdict'[TxnOf(inbox'[i])]
  <2>1. CASE i \in DOMAIN inbox /\ inbox'[i] = inbox[i]
    <3>1. TxnOf(inbox[i]) \in Txn /\ TxnOf(inbox[i]) \in finalized
      BY <1>1, <1>7, <2>1, MailShape DEF IInv, EndsDue
    <3> QED
      BY <1>7, <2>1, <3>1 DEF CommitsOnVerdict, Undone
  <2>2. CASE inbox'[i] = m /\ t \notin finalized
    BY <1>1, <2>2
  <2> QED
    BY <1>4, <2>1, <2>2
<1> QED
  BY <1>5, <1>6, <1>7

LEMMA TimeoutKeepsAInv ==
    ASSUME IInv, AInv, NEW t \in Txn, Timeout(t)
    PROVE  AInv'
<1> USE DEF AInv
<1>1. /\ finalized' = finalized \cup {t} /\ open' \subseteq open \cup {EndOf(t)}
      /\ UNCHANGED <<phase, connOf, verdict, told, asked, exited, outbox, workerUp, workerVars,
                     slot, serverVars>>
      /\ aborted' = aborted \cup {t} /\ phase[t] = "running" /\ t \notin finalized
  BY DEF Timeout, Finalize
<1>2. OwnHere' /\ WorkInProgress' /\ Whole'
  BY <1>1, ParentStepKeeps
<1>3. EndsInOrder'
  BY <1>1, RequestsDiffer DEF EndsInOrder
<1>4. verdict[t] = FALSE
  BY <1>1 DEF EndsInOrder, IInv, TypeOK
<1>5. /\ QueriesBeforeEnd' /\ BeginsOnce'
      /\ \A i \in DOMAIN inbox' : Kind(inbox'[i]) = "endTransaction" =>
             inbox'[i].commit = verdict'[TxnOf(inbox'[i])]
  BY <1>1, <1>4, FinalizeKeepsMail DEF Timeout
<1>6. CommitsOnVerdict'
  BY <1>1, <1>5 DEF CommitsOnVerdict, workerVars, serverVars, Undone
<1>7. ResultsTrue'
  BY <1>1 DEF ResultsTrue, Sealed, workerVars, serverVars, Undone
<1> QED
  BY <1>2, <1>3, <1>5, <1>6, <1>7

LEMMA CallbackEndsKeepsAInv ==
    ASSUME IInv, AInv, NEW t \in Txn, NEW commit \in BOOLEAN, CallbackEnds(t, commit)
    PROVE  AInv'
<1> USE DEF AInv
<1>1. /\ UNCHANGED <<connOf, aborted, asked, exited, outbox, workerUp, workerVars, slot, serverVars>>
      /\ phase[t] = "running"
  BY DEF CallbackEnds
<1>2. OwnHere' /\ WorkInProgress' /\ Whole'
  BY <1>1, ParentStepKeeps
<1>3. /\ phase \in [Txn -> {"idle", "beginning", "running", "ending", "done"}]
      /\ told \in [Txn -> {"none", "true", "false", "threw"}] /\ verdict \in [Txn -> BOOLEAN]
  BY DEF IInv, TypeOK
<1>4. CASE t \in aborted
  <2>1. Return(t, "false") /\ UNCHANGED <<verdict, finalized, open, inbox>>
    BY <1>4 DEF CallbackEnds
  <2>2. \A s \in Txn : phase'[s] = IF s = t THEN "done" ELSE phase[s]
    BY <1>3, <2>1 DEF Return
  <2>3. \A s \in Txn : told'[s] = IF s = t THEN "false" ELSE told[s]
    BY <1>3, <2>1 DEF Return
  <2>4. EndsInOrder'
    BY <1>1, <1>4, <2>1, <2>2, <2>3 DEF EndsInOrder
  <2>5. QueriesBeforeEnd' /\ CommitsOnVerdict'
    BY <1>1, <2>1 DEF QueriesBeforeEnd, CommitsOnVerdict, workerVars, serverVars, Undone
  <2>6. BeginsOnce'
    BY <1>1, <2>1, <2>2 DEF BeginsOnce, Asking, workerVars
  <2>7. ResultsTrue'
    BY <1>1, <2>1, <2>3 DEF ResultsTrue, Sealed, workerVars, serverVars, Undone
  <2> QED
    BY <1>2, <2>4, <2>5, <2>6, <2>7
<1>5. CASE t \notin aborted
  <2>1. /\ verdict' = [verdict EXCEPT ![t] = commit] /\ Finalize(t, commit)
        /\ t \notin finalized /\ finalized' = finalized \cup {t}
    BY <1>1, <1>5 DEF CallbackEnds, Finalize, EndsInOrder
  <2>2. /\ open' \subseteq open \cup {EndOf(t)}
        /\ EndOf(t) \in open' => Propagate /\ ~exited
    <3>1. EndOf(t) \notin open
      BY <2>1 DEF IInv, ConnFollowsPhase
    <3> QED
      BY <2>1, <3>1 DEF Finalize
  <2>3. /\ \A s \in Txn : s # t => phase'[s] = phase[s] /\ told'[s] = told[s]
        /\ \/ phase'[t] = "done" /\ told'[t] \in {"true", "false", "threw"}
           \/ phase'[t] = "ending" /\ told'[t] = told[t]
        /\ EndOf(t) \in open' => phase'[t] = "ending"
        /\ told'[t] = "false" => told[t] = "false" \/ ~commit
        /\ told'[t] = "true" => told[t] = "true" \/ (commit /\ ~Propagate)
    BY <1>3, <1>5, <2>2 DEF CallbackEnds, Return
  <2>4. told[t] = "none"
    BY <1>1, <1>3 DEF EndsInOrder
  <2>5. \A s \in Txn : verdict'[s] = IF s = t THEN commit ELSE verdict[s]
    BY <1>3, <2>1
  <2>6. EndsInOrder'
    BY <1>1, <1>5, <2>1, <2>2, <2>3, <2>4, <2>5, RequestsDiffer DEF EndsInOrder
  <2>7. /\ QueriesBeforeEnd' /\ BeginsOnce'
        /\ \A i \in DOMAIN inbox' : Kind(inbox'[i]) = "endTransaction" =>
               inbox'[i].commit = verdict'[TxnOf(inbox'[i])]
    BY <1>1, <2>1, <2>3, <2>5, FinalizeKeepsMail
  <2>8. CommitsOnVerdict'
    <3>1. \A e \in enders : e.txn \in Txn /\ e.txn # t
      BY <2>1 DEF IInv, TypeOK, EndersHave, Ender
    <3>2. \A q \in durable : q[1] \in Txn /\ (q[1] # t \/ Undone(q[1]))
      BY <1>1, <2>1, RequestParts DEF CommitsOnVerdict, EndsInOrder, IInv, TypeOK, Undone
    <3> QED
      BY <1>1, <2>5, <2>7, <3>1, <3>2 DEF CommitsOnVerdict, workerVars, serverVars, Undone
  <2>9. ResultsTrue'
    <3>1. \A i \in DOMAIN outbox : TxnOf(outbox[i]) \in Txn
      BY ResponseShape DEF IInv, TypeOK
    <3> QED
      BY <1>1, <2>1, <2>3, <2>4, <2>5, <3>1 DEF ResultsTrue, Sealed, workerVars, serverVars, Undone
  <2> QED
    BY <1>2, <2>6, <2>7, <2>8, <2>9
<1> QED
  BY <1>4, <1>5

LEMMA ResumeKeepsAInv ==
    ASSUME IInv, AInv, NEW r \in open, NEW ok \in BOOLEAN, NEW k, Resume(r, ok, k),
           r = BeginOf(r[2]) /\ ok => k \in Conn /\ ~Asking(r[2]),
           ok => \A q \in Query : r = QueryOf(q) => q \in applied,
           ok /\ r = EndOf(r[2]) /\ verdict[r[2]] => Sealed(r[2]),
           open' = open \ {r},
           \A i \in DOMAIN outbox' : \E j \in DOMAIN outbox : outbox'[i] = outbox[j],
           UNCHANGED <<aborted, finalized, verdict, exited, inbox, workerUp, workerVars,
                       slot, serverVars>>
    PROVE  AInv'
<1> DEFINE t == r[2]
<1> USE DEF AInv, workerVars, serverVars
<1>1. /\ t \in Txn /\ r \in Request /\ NoConn \notin Conn
      /\ phase \in [Txn -> {"idle", "beginning", "running", "ending", "done"}]
      /\ told \in [Txn -> {"none", "true", "false", "threw"}]
      /\ connOf \in [Txn -> Conn \cup {NoConn}]
      /\ asked \in [Query -> {"new", "sent", "ok", "failed", "aborted"}]
  BY ResumeCases DEF IInv, TypeOK, StartTransactionAssumption
<1>2. /\ \A s \in Txn : s # t => phase'[s] = phase[s] /\ connOf'[s] = connOf[s] /\ told'[s] = told[s]
      /\ \/ /\ r = BeginOf(t) /\ ok /\ phase[t] = "beginning"
            /\ phase'[t] = "running" /\ connOf'[t] = k /\ told'[t] = told[t] /\ asked' = asked
         \/ /\ r = BeginOf(t) /\ phase[t] = "beginning" /\ connOf'[t] = connOf[t]
            /\ phase'[t] = "done" /\ told'[t] = BeginFailed /\ asked' = asked
         \/ /\ r = EndOf(t) /\ t \notin aborted /\ phase[t] = "ending" /\ connOf'[t] = connOf[t]
            /\ phase'[t] = "done" /\ asked' = asked
            /\ told'[t] = IF ~ok THEN "threw" ELSE IF verdict[t] THEN "true" ELSE "false"
         \/ UNCHANGED <<phase, connOf, told>>
  <2>1. /\ r = BeginOf(t) => phase[t] = "beginning"
        /\ r = EndOf(t) /\ t \notin aborted => phase[t] = "ending"
    BY <1>1 DEF IInv, ConnFollowsPhase, EndsInOrder
  <2> QED
    BY <1>1, <2>1, ResumeCases DEF IInv, Return
<1>3. \A q \in Query : asked'[q] = "ok" => q \in applied
  <2>1. \/ asked' = asked
        \/ \E p \in Query : r = QueryOf(p) /\ asked' = [asked EXCEPT ![p] = QueryResult(t, ok)]
    BY <1>1, ResumeCases DEF IInv
  <2>2. QueryResult(t, ok) = "ok" => ok
    BY DEF QueryResult
  <2> QED
    BY <1>1, <2>1, <2>2 DEF ResultsTrue
<1>4. r = BeginOf(t) => /\ ~verdict[t] /\ t \notin finalized /\ told[t] = "none"
                        /\ connOf[t] = NoConn /\ EndOf(t) \notin open
  BY <1>1 DEF IInv, ConnFollowsPhase, EndsInOrder, TypeOK
<1>5. EndsInOrder'
  <2>1. r = EndOf(t) => EndOf(t) \notin open'
    OBVIOUS
  <2>2. BeginFailed \notin {"none", "true"} /\ \A s \in Txn : EndOf(s) \in open' => EndOf(s) \in open
    BY DEF BeginFailed
  <2>3. ASSUME NEW s \in Txn, s # t
        PROVE  /\ s \in finalized' /\ phase'[s] = "running" => s \in aborted'
               /\ verdict'[s] => phase'[s] \in {"ending", "done"} /\ s \notin aborted'
               /\ told'[s] # "none" => phase'[s] = "done"
               /\ told'[s] = "false" => ~verdict'[s]
               /\ told'[s] = "true" => verdict'[s]
               /\ EndOf(s) \in open' => s \in aborted' \/ phase'[s] = "ending"
    BY <1>2, <2>2, <2>3 DEF EndsInOrder
  <2>4. /\ t \in finalized' /\ phase'[t] = "running" => t \in aborted'
        /\ verdict'[t] => phase'[t] \in {"ending", "done"} /\ t \notin aborted'
        /\ told'[t] # "none" => phase'[t] = "done"
        /\ told'[t] = "false" => ~verdict'[t]
        /\ told'[t] = "true" => verdict'[t]
        /\ EndOf(t) \in open' => t \in aborted' \/ phase'[t] = "ending"
    BY <1>1, <1>2, <1>4, <2>1, <2>2 DEF EndsInOrder
  <2> QED
    BY <2>3, <2>4 DEF EndsInOrder
<1>6. QueriesBeforeEnd' /\ CommitsOnVerdict'
  BY DEF QueriesBeforeEnd, CommitsOnVerdict, Undone
<1>7. \A s \in Txn : connOf[s] # NoConn => connOf'[s] # NoConn
  BY <1>1, <1>2
<1>8. BeginsOnce'
  <2>1. \A s \in Txn : Asking(s)' <=> Asking(s)
    BY DEF Asking
  <2>2. \A s \in Txn : Asking(s) => connOf'[s] = connOf[s]
    BY <1>1, <1>2
  <2>3. \A s \in Txn : phase'[s] = "idle" => phase[s] = "idle"
    BY <1>1, <1>2
  <2> QED
    BY <2>1, <2>2, <2>3 DEF BeginsOnce
<1>9. OwnHere' /\ WorkInProgress' /\ Whole'
  <2>1. \A q \in Query : q[1] \in Txn
    BY RequestParts
  <2>2. applied \subseteq Query /\ \A l \in Conn : running[l] \subseteq Query
    BY DEF IInv, TypeOK
  <2> QED
    BY <1>7, <2>1, <2>2 DEF OwnHere, WorkInProgress, Whole, Undone
<1>10. ResultsTrue'
  <2>1. \A s \in Txn : Sealed(s) => connOf'[s] # NoConn
    BY <1>7 DEF Sealed, Undone
  <2>2. \A i \in DOMAIN outbox : TxnOf(outbox[i]) \in Txn
    BY ResponseShape DEF IInv, TypeOK
  <2>3. ASSUME Propagate, NEW s \in Txn, told'[s] = "true" PROVE Sealed(s)
    <3>1. BeginFailed # "true"
      BY <2>3 DEF BeginFailed
    <3> QED
      BY <1>1, <1>2, <1>4, <2>3, <3>1 DEF ResultsTrue
  <2>4. \A i \in DOMAIN outbox' :
          /\ outbox'[i].ok => \A q \in Query : outbox'[i].req = QueryOf(q) => q \in applied
          /\ Kind(outbox'[i]) = "endTransaction" => TxnOf(outbox'[i]) \in finalized
          /\ outbox'[i].ok /\ Kind(outbox'[i]) = "endTransaction" /\ verdict[TxnOf(outbox'[i])] =>
                /\ connOf'[TxnOf(outbox'[i])] # NoConn
                /\ \A l \in Conn : holder[l] # TxnOf(outbox'[i])
                /\ \A q \in applied : q[1] = TxnOf(outbox'[i]) =>
                      q \in durable \/ Undone(TxnOf(outbox'[i]))
    BY <2>1, <2>2 DEF ResultsTrue, Sealed, Undone
  <2> QED
    BY <1>3, <2>1, <2>3, <2>4 DEF ResultsTrue, Sealed, Undone
<1> QED
  BY <1>5, <1>6, <1>8, <1>9, <1>10

LEMMA DeliverKeepsAInv ==
    ASSUME IInv, AInv, Deliver
    PROVE  AInv'
<1> DEFINE m == Head(outbox)
<1> USE DEF AInv
<1>1. /\ m = outbox[1] /\ 1 \in DOMAIN outbox /\ m \in Response
      /\ \A i \in DOMAIN outbox' : \E j \in DOMAIN outbox : outbox'[i] = outbox[j]
  BY Shifted DEF Deliver, IInv, TypeOK
<1>2. m.req \in Request /\ m.ok \in BOOLEAN /\ TxnOf(m) = m.req[2] /\ TxnOf(m) \in Txn
  BY <1>1, ResponseShape DEF IInv, TypeOK, TxnOf
<1>3. UNCHANGED <<aborted, finalized, verdict, exited, inbox, workerUp, workerVars, slot, serverVars>>
  BY DEF Deliver
<1>4. CASE m.req \in open
  <2>1. open' = open \ {m.req} /\ Resume(m.req, m.ok, m.conn)
    BY <1>4 DEF Deliver
  <2>2. m.req = BeginOf(m.req[2]) /\ m.ok => m.conn \in Conn /\ ~Asking(m.req[2])
    <3>1. m.req = BeginOf(m.req[2]) => Kind(m) = "beginTransaction"
      BY <1>2, RequestParts DEF Kind
    <3> QED
      BY <1>1, <1>2, <3>1 DEF IInv, BegunHas, BeginsOnce
  <2>3. m.ok => \A q \in Query : m.req = QueryOf(q) => q \in applied
    BY <1>1 DEF ResultsTrue
  <2>4. m.ok /\ m.req = EndOf(m.req[2]) /\ verdict[m.req[2]] => Sealed(m.req[2])
    <3>1. m.req = EndOf(m.req[2]) => Kind(m) = "endTransaction"
      BY <1>2, RequestParts DEF Kind
    <3> QED
      BY <1>1, <1>2, <3>1 DEF ResultsTrue
  <2> HIDE DEF m
  <2> QED
    BY <1>1, <1>2, <1>3, <1>4, <2>1, <2>2, <2>3, <2>4, ResumeKeepsAInv
<1>5. CASE m.req \notin open
  <2>1. UNCHANGED <<phase, connOf, told, asked, open>>
    BY <1>5 DEF Deliver
  <2>2. EndsInOrder' /\ QueriesBeforeEnd' /\ CommitsOnVerdict'
    BY <1>3, <2>1 DEF EndsInOrder, QueriesBeforeEnd, CommitsOnVerdict, workerVars, serverVars, Undone
  <2>3. BeginsOnce'
    BY <1>1, <1>3, <2>1 DEF BeginsOnce, Asking, workerVars
  <2>4. OwnHere' /\ WorkInProgress' /\ Whole'
    BY <1>3, <2>1, ParentStepKeeps
  <2>5. ResultsTrue'
    BY <1>1, <1>3, <2>1 DEF ResultsTrue, Sealed, workerVars, serverVars, Undone
  <2> QED
    BY <2>2, <2>3, <2>4, <2>5
<1> QED
  BY <1>4, <1>5

LEMMA SynthesizeKeepsAInv ==
    ASSUME IInv, AInv, NEW r \in open, Synthesize(r)
    PROVE  AInv'
<1>1. \A i \in DOMAIN outbox' : \E j \in DOMAIN outbox : outbox'[i] = outbox[j]
  BY DEF Synthesize
<1> QED
  BY <1>1, ResumeKeepsAInv DEF Synthesize

LEMMA SeeExitKeepsAInv ==
    ASSUME IInv, AInv, SeeExit
    PROVE  AInv'
<1> USE DEF AInv, SeeExit, workerVars, serverVars
<1>1. EndsInOrder' /\ QueriesBeforeEnd' /\ BeginsOnce'
  BY DEF EndsInOrder, QueriesBeforeEnd, BeginsOnce, Asking
<1>2. OwnHere' /\ WorkInProgress' /\ Whole' /\ CommitsOnVerdict'
  BY DEF OwnHere, WorkInProgress, Whole, CommitsOnVerdict, Undone
<1>3. ResultsTrue'
  BY DEF ResultsTrue, Sealed, Undone
<1> QED
  BY <1>1, <1>2, <1>3

\* A transaction with a query or an end in the mail has its connection: the
\* end of one that is finalized comes behind.
LEMMA MailHas ==
    ASSUME IInv, AInv, workerUp, NEW i \in DOMAIN inbox, Kind(inbox[i]) # "beginTransaction"
    PROVE  /\ inbox[i].conn \in Conn /\ Has(TxnOf(inbox[i]), inbox[i].conn)
           /\ inbox[i].conn = connOf[TxnOf(inbox[i])]
<1> USE DEF IInv, AInv
<1> DEFINE m == inbox[i]
           t == TxnOf(m)
<1>1. /\ t \in Txn /\ Kind(m) \in {"transactionQuery", "endTransaction"}
      /\ m.conn \in Conn /\ m.conn = connOf[t] /\ NoConn \notin Conn
  BY MailShape DEF TypeOK, MailNames, StartTransactionAssumption
<1>2. t \notin finalized => Has(t, m.conn)
  BY <1>1 DEF UnfinishedHas
<1>3. ASSUME t \in finalized, Kind(m) = "transactionQuery" PROVE Has(t, m.conn)
  <2>1. PICK j \in DOMAIN inbox : inbox[j].req = EndOf(t)
    BY <1>3 DEF QueriesBeforeEnd
  <2>2. Kind(inbox[j]) = "endTransaction" /\ TxnOf(inbox[j]) = t
    BY <1>1, <2>1, RequestParts DEF Kind, TxnOf
  <2> QED
    BY <1>1, <2>2 DEF EndsDue, MailNames
<1>4. Kind(m) = "endTransaction" => Has(t, m.conn)
  BY DEF EndsDue
<1> QED
  BY <1>1, <1>2, <1>3, <1>4

LEMMA TakeKeepsAInv ==
    ASSUME IInv, AInv, Take
    PROVE  AInv'
<1> DEFINE m == Head(inbox)
           t == TxnOf(m)
<1> USE DEF AInv
<1>1. /\ UNCHANGED <<parentVars, workerUp, slot, serverVars>> /\ workerUp
      /\ inbox # <<>> /\ inbox' = Tail(inbox) /\ inbox \in Seq(Message)
  BY DEF Take, IInv, TypeOK
<1>2. /\ 1 \in DOMAIN inbox /\ m = inbox[1]
      /\ \A i \in DOMAIN inbox' : /\ i \in Nat /\ i > 0 /\ i + 1 \in DOMAIN inbox
                                  /\ inbox'[i] = inbox[i + 1]
      /\ \A i \in DOMAIN inbox : i \in Nat /\ (i > 1 => i - 1 \in DOMAIN inbox' /\ inbox'[i - 1] = inbox[i])
  BY <1>1, Shifted
<1>3. m \in Message /\ m.req \in Request /\ t \in Txn /\ m.req[2] = t
  BY <1>1, <1>2, MailShape DEF TxnOf
<1>4. UNCHANGED <<phase, connOf, aborted, finalized, verdict, told, asked, open, exited>>
  BY <1>1 DEF parentVars
<1>5. EndsInOrder'
  BY <1>4 DEF EndsInOrder
<1>6. QueriesBeforeEnd'
  <2> SUFFICES ASSUME NEW i \in DOMAIN inbox', Kind(inbox'[i]) = "transactionQuery",
                      TxnOf(inbox'[i]) \in finalized
               PROVE  \E j \in DOMAIN inbox' : j > i /\ inbox'[j].req = EndOf(TxnOf(inbox'[i]))
    BY <1>4 DEF QueriesBeforeEnd
  <2>1. i \in Nat /\ i > 0 /\ i + 1 \in DOMAIN inbox /\ inbox'[i] = inbox[i + 1]
    BY <1>2
  <2>2. PICK j \in DOMAIN inbox : j > i + 1 /\ inbox[j].req = EndOf(TxnOf(inbox[i + 1]))
    BY <2>1 DEF QueriesBeforeEnd
  <2>3. j - 1 \in DOMAIN inbox' /\ inbox'[j - 1] = inbox[j] /\ j - 1 > i
    BY <1>2, <2>1, <2>2
  <2> QED
    BY <2>1, <2>2, <2>3
<1>7. \A i \in DOMAIN inbox' : Kind(inbox'[i]) = "endTransaction" =>
          inbox'[i].commit = verdict'[TxnOf(inbox'[i])]
  BY <1>2, <1>4 DEF CommitsOnVerdict, Undone
<1>8. ASSUME acquiring' \subseteq acquiring \cup {t}, m.req = BeginOf(t) \/ acquiring' = acquiring,
             holder' = holder,
             \A s \in Txn : \A i \in DOMAIN outbox' :
                outbox'[i].req = BeginOf(s) => \E j \in DOMAIN outbox : outbox[j].req = BeginOf(s)
      PROVE  BeginsOnce'
  <2>1. \A s \in Txn : Asking(s)' => Asking(s)
    BY <1>2, <1>8 DEF Asking
  <2>2. \A i \in DOMAIN inbox' : Kind(inbox'[i]) = "beginTransaction" => TxnOf(inbox'[i]) \notin acquiring'
    <3> SUFFICES ASSUME NEW i \in DOMAIN inbox', Kind(inbox'[i]) = "beginTransaction"
                 PROVE  TxnOf(inbox'[i]) \notin acquiring'
      OBVIOUS
    <3>1. i + 1 \in DOMAIN inbox /\ inbox'[i] = inbox[i + 1] /\ i + 1 # 1
      BY <1>2
    <3>2. inbox[i + 1].req = BeginOf(TxnOf(inbox[i + 1]))
      BY <1>1, <3>1, MailShape, RequestShape DEF Kind, TxnOf
    <3>3. m.req = BeginOf(t) => TxnOf(inbox[i + 1]) # t
      BY <1>2, <1>3, <3>1, <3>2, RequestParts DEF BeginsOnce, Kind
    <3> QED
      BY <1>8, <3>1, <3>3 DEF BeginsOnce
  <2>3. \A i, j \in DOMAIN inbox' :
            Kind(inbox'[i]) = "beginTransaction" /\ inbox'[i].req = inbox'[j].req => i = j
    BY <1>2 DEF BeginsOnce
  <2>4. \A s \in Txn : Asking(s) \/ phase[s] = "idle" => \A i \in DOMAIN outbox' : outbox'[i].req # BeginOf(s)
    BY <1>8 DEF BeginsOnce
  <2> QED
    BY <1>4, <1>8, <2>1, <2>2, <2>3, <2>4 DEF BeginsOnce
<1>9. CASE Kind(m) = "beginTransaction"
  <2>1. TakeBegin(m) /\ m.req = BeginOf(t)
    BY <1>3, <1>9, RequestShape DEF Take, Kind
  <2>2. BeginsOnce'
    BY <1>3, <1>8, <2>1 DEF TakeBegin
  <2>3. OwnHere' /\ WorkInProgress' /\ Whole'
    BY <1>1, <1>4, <2>1 DEF TakeBegin, OwnHere, WorkInProgress, Whole, serverVars, Undone
  <2>4. CommitsOnVerdict' /\ ResultsTrue'
    BY <1>1, <1>4, <1>7, <2>1 DEF TakeBegin, CommitsOnVerdict, ResultsTrue, Sealed, serverVars, Undone
  <2> QED
    BY <1>5, <1>6, <2>2, <2>3, <2>4
<1>10. CASE Kind(m) = "transactionQuery"
  <2> DEFINE q == <<m.req[2], m.req[3]>>
  <2>1. /\ TakeQuery(m) /\ m.req = QueryOf(q) /\ q \in Query /\ q[1] = t
        /\ holder[m.conn] = t /\ m.conn \in Conn /\ connOf[t] # NoConn
    BY <1>1, <1>2, <1>3, <1>10, RequestShape, MailHas
       DEF Take, Kind, Has, StartTransactionAssumption
  <2>2. CASE /\ running' = [running EXCEPT ![m.conn] = @ \cup {q}]
             /\ UNCHANGED <<outbox, acquiring, starting, holder, closed, enders>>
    <3>1. BeginsOnce'
      BY <1>8, <2>2
    <3>2. OwnHere'
      <4>1. running \in [Conn -> SUBSET Query]
        BY DEF IInv, TypeOK
      <4>2. \A k \in Conn : running'[k] = IF k = m.conn THEN running[k] \cup {q} ELSE running[k]
        BY <2>2, <4>1
      <4> QED
        BY <1>1, <1>4, <2>1, <2>2, <4>2 DEF OwnHere, serverVars
    <3>3. WorkInProgress' /\ Whole'
      BY <1>1, <1>4, <2>2 DEF WorkInProgress, Whole, serverVars, Undone
    <3>4. CommitsOnVerdict' /\ ResultsTrue'
      BY <1>1, <1>4, <1>7, <2>2 DEF CommitsOnVerdict, ResultsTrue, Sealed, serverVars, Undone
    <3> QED
      BY <1>5, <1>6, <3>1, <3>2, <3>3, <3>4
  <2>3. CASE Respond(m.req, FALSE, NoConn) /\ UNCHANGED workerVars
    <3>1. \A i \in DOMAIN outbox' : \/ i \in DOMAIN outbox /\ outbox'[i] = outbox[i]
                                    \/ outbox'[i].req = m.req /\ outbox'[i].ok = FALSE
      <4> DEFINE r == m.req
                 ok == FALSE
      <4>1. outbox \in Seq(Response) /\ ok \in BOOLEAN /\ r \in Request
        BY <1>3 DEF IInv, TypeOK
      <4>2. Respond(r, ok, NoConn)
        BY <2>3
      <4> HIDE DEF m, r, ok
      <4>3. \A i \in DOMAIN outbox' : \/ i \in DOMAIN outbox /\ outbox'[i] = outbox[i]
                                      \/ outbox'[i].req = r /\ outbox'[i].ok = ok
        BY <4>1, <4>2, AfterRespond
      <4> QED
        BY <4>3 DEF r, ok
    <3>2. BeginsOnce'
      BY <1>8, <2>1, <2>3, <3>1, RequestsDiffer DEF workerVars
    <3>3. OwnHere' /\ WorkInProgress' /\ Whole'
      BY <1>1, <1>4, <2>3, ParentStepKeeps
    <3>4. CommitsOnVerdict'
      BY <1>1, <1>4, <1>7, <2>3 DEF CommitsOnVerdict, workerVars, serverVars, Undone
    <3>5. ResultsTrue'
      <4>1. \A i \in DOMAIN outbox' : outbox'[i].req = m.req => Kind(outbox'[i]) # "endTransaction"
        BY <1>10 DEF Kind
      <4> QED
        BY <1>1, <1>4, <2>3, <3>1, <4>1 DEF ResultsTrue, Sealed, workerVars, serverVars, Undone
    <3> QED
      BY <1>5, <1>6, <3>2, <3>3, <3>4, <3>5
  <2> QED
    BY <2>1, <2>2, <2>3 DEF TakeQuery
<1>11. CASE Kind(m) = "endTransaction"
  <2>1. TakeEnd(m) /\ Active(m.conn) /\ m.commit = verdict[t]
    BY <1>1, <1>2, <1>3, <1>11, MailHas
       DEF Take, Kind, Has, Active, StartTransactionAssumption, CommitsOnVerdict, Undone
  <2>2. /\ UNCHANGED <<outbox, acquiring, starting, holder, running>>
        /\ \A e \in enders' : e \in enders \/ (e.txn = t /\ e.commit = m.commit)
    <3> DEFINE e == [txn |-> m.req[2], conn |-> m.conn, commit |-> m.commit, wants |-> m.wants,
                     stage |-> IF running[m.conn] = {} THEN "finishing" ELSE "waiting"]
    <3>1. enders' = enders \cup {e} /\ UNCHANGED <<outbox, acquiring, starting, holder, running>>
      BY <2>1 DEF TakeEnd
    <3>2. e.txn = t /\ e.commit = m.commit
      BY <1>3
    <3> QED
      BY <3>1, <3>2
  <2>3. BeginsOnce'
    BY <1>8, <2>2
  <2>4. OwnHere' /\ WorkInProgress' /\ Whole'
    BY <1>1, <1>4, <2>2 DEF OwnHere, WorkInProgress, Whole, serverVars, Undone
  <2>5. CommitsOnVerdict'
    BY <1>1, <1>4, <1>7, <2>1, <2>2 DEF CommitsOnVerdict, serverVars, Undone
  <2>6. ResultsTrue'
    BY <1>1, <1>4, <2>2 DEF ResultsTrue, Sealed, serverVars, Undone
  <2> QED
    BY <1>5, <1>6, <2>3, <2>4, <2>5, <2>6
<1> QED
  BY <1>1, <1>2, <1>9, <1>10, <1>11, MailShape

LEMMA AcquireKeepsAInv ==
    ASSUME IInv, AInv, NEW t \in Txn, NEW k \in Conn, Acquire(t, k)
    PROVE  AInv'
<1> USE DEF AInv
<1>1. /\ UNCHANGED <<phase, connOf, aborted, finalized, verdict, told, asked, open, exited, inbox, outbox>>
      /\ UNCHANGED <<running, enders, inTxn, work, applied, durable, undone>>
      /\ acquiring' = acquiring \ {t} /\ t \in acquiring
      /\ \A l \in Conn : holder'[l] = IF l = k THEN t ELSE holder[l]
  BY DEF Acquire, parentVars, serverVars, IInv, TypeOK
<1>2. /\ holder[k] = NoTxn /\ t # NoTxn /\ running[k] = {} /\ work[k] = {}
  BY DEF Acquire, IInv, UnheldClean, StartTransactionAssumption
<1>3. /\ Asking(t) /\ connOf[t] = NoConn /\ phase[t] # "idle"
      /\ \A l \in Conn : holder[l] # t
      /\ \A i \in DOMAIN outbox : outbox[i].req # BeginOf(t)
      /\ \A i \in DOMAIN inbox : inbox[i].req # BeginOf(t)
  <2>1. Asking(t)
    BY <1>1 DEF Asking
  <2>2. \A i \in DOMAIN inbox : inbox[i].req # BeginOf(t)
    BY <1>1, RequestParts DEF BeginsOnce, Kind, TxnOf
  <2> QED
    BY <2>1, <2>2 DEF BeginsOnce
<1>4. EndsInOrder' /\ QueriesBeforeEnd' /\ CommitsOnVerdict' /\ Whole'
  BY <1>1 DEF EndsInOrder, QueriesBeforeEnd, CommitsOnVerdict, Whole, Undone
<1>5. BeginsOnce'
  <2>1. \A s \in Txn : Asking(s)' => Asking(s) /\ s # t
    BY <1>1, <1>3 DEF Asking
  <2> QED
    BY <1>1, <1>2, <1>3, <2>1 DEF BeginsOnce
<1>6. OwnHere'
  BY <1>1, <1>2 DEF OwnHere
<1>7. WorkInProgress'
  BY <1>1, <1>3 DEF WorkInProgress, Undone
<1>8. ResultsTrue'
  <2>1. \A s \in Txn : Sealed(s) => connOf'[s] # NoConn /\ \A l \in Conn : holder'[l] # s
    BY <1>1, <1>3 DEF Sealed, Undone
  <2>2. \A i \in DOMAIN outbox : TxnOf(outbox[i]) \in Txn
    BY ResponseShape DEF IInv, TypeOK
  <2> QED
    BY <1>1, <2>1, <2>2 DEF ResultsTrue, Sealed, Undone
<1> QED
  BY <1>4, <1>5, <1>6, <1>7, <1>8

\* The answer to a beginTransaction.
LEMMA BeginAnswerKeepsAInv ==
    ASSUME IInv, AInv, NEW t \in Txn, NEW ok \in BOOLEAN, NEW k \in Conn \cup {NoConn},
           Respond(BeginOf(t), ok, k), phase[t] # "idle",
           \A s \in Txn : Asking(s)' => Asking(s) /\ s # t,
           acquiring' \subseteq acquiring,
           UNCHANGED <<parentVars, inbox, holder, running, enders, work, applied, durable, undone>>
    PROVE  AInv'
<1> USE DEF AInv, parentVars
<1>1. BeginOf(t) \in Request /\ outbox \in Seq(Response)
  BY RequestParts DEF IInv, TypeOK
<1>2. \A i \in DOMAIN outbox' : \/ i \in DOMAIN outbox /\ outbox'[i] = outbox[i]
                                \/ outbox'[i].req = BeginOf(t)
  BY <1>1, AfterRespond
<1>3. EndsInOrder' /\ QueriesBeforeEnd' /\ CommitsOnVerdict' /\ Whole' /\ WorkInProgress'
  BY DEF EndsInOrder, QueriesBeforeEnd, CommitsOnVerdict, Whole, WorkInProgress, Undone
<1>4. OwnHere'
  BY DEF OwnHere
<1>5. BeginsOnce'
  BY <1>2, RequestsDiffer DEF BeginsOnce
<1>6. ResultsTrue'
  <2>1. \A i \in DOMAIN outbox' : outbox'[i].req = BeginOf(t) =>
            /\ Kind(outbox'[i]) # "endTransaction"
            /\ \A q \in Query : outbox'[i].req # QueryOf(q)
    BY RequestParts, RequestsDiffer DEF Kind
  <2> QED
    BY <1>2, <2>1 DEF ResultsTrue, Sealed, Undone
<1> QED
  BY <1>3, <1>4, <1>5, <1>6

LEMMA AcquireFailsKeepsAInv ==
    ASSUME IInv, AInv, NEW t \in Txn, AcquireFails(t)
    PROVE  AInv'
<1>1. Asking(t) /\ phase[t] # "idle"
  BY DEF AcquireFails, Asking, AInv, BeginsOnce
<1>2. \A s \in Txn : Asking(s)' => Asking(s) /\ s # t
  <2>1. \A i \in DOMAIN inbox : inbox[i].req # BeginOf(t)
    BY RequestParts DEF AcquireFails, AInv, BeginsOnce, Kind, TxnOf
  <2> QED
    BY <2>1 DEF AcquireFails, Asking
<1> QED
  BY <1>1, <1>2, BeginAnswerKeepsAInv DEF AcquireFails, serverVars

LEMMA BeginEndsKeepsAInv ==
    ASSUME IInv, AInv, NEW k \in Conn, BeginDone(k) \/ BeginFails(k)
    PROVE  AInv'
<1>1. k \in starting /\ holder[k] \in Txn
  BY StartingIsHeld DEF BeginDone, BeginFails
<1>2. ~Asking(holder[k]) /\ phase[holder[k]] # "idle"
  BY <1>1 DEF AInv, BeginsOnce
<1>3. \A s \in Txn : Asking(s)' => Asking(s) /\ s # holder[k]
  <2>1. inbox' = inbox /\ acquiring' = acquiring
    BY DEF BeginDone, BeginFails
  <2>2. \A s \in Txn : Asking(s)' <=> Asking(s)
    BY <2>1 DEF Asking
  <2>3. \A s \in Txn : Asking(s) => s # holder[k]
    BY <1>2
  <2> QED
    BY <2>2, <2>3
<1>4. CASE BeginDone(k)
  BY <1>1, <1>2, <1>3, <1>4, BeginAnswerKeepsAInv DEF BeginDone
<1>5. CASE BeginFails(k)
  BY <1>1, <1>2, <1>3, <1>5, BeginAnswerKeepsAInv DEF BeginFails, serverVars
<1> QED
  BY <1>4, <1>5

\* The answer to a query, which has left the connection.
LEMMA QueryEndsKeepsAInv ==
    ASSUME IInv, AInv, OpenUntilUndone, NEW k \in Conn, NEW q \in running[k], QueryEnds(k, q)
    PROVE  AInv'
<1> USE DEF AInv
<1>1. /\ q \in Query /\ QueryOf(q) \in Request /\ outbox \in Seq(Response) /\ q[1] \in Txn
      /\ q[1] = holder[k] /\ connOf[q[1]] # NoConn /\ q[1] # NoTxn
      /\ k \notin inTxn => Undone(q[1])
  BY RequestParts DEF OwnHere, IInv, TypeOK, StartTransactionAssumption, OpenUntilUndone
<1>2. /\ UNCHANGED <<inbox, workerUp, acquiring, starting, holder, closed, slot>>
      /\ UNCHANGED <<phase, connOf, aborted, finalized, verdict, told, asked, open, exited>>
      /\ Untrack(k, q)
  BY DEF QueryEnds, QueryDone, QueryFails, QueryRolledBack, Answered, parentVars
<1>3. PICK ok \in BOOLEAN :
         /\ Respond(QueryOf(q), ok, NoConn)
         /\ applied' = IF ok THEN applied \cup {q} ELSE applied
         /\ durable' = IF ok /\ k \notin inTxn THEN durable \cup {q} ELSE durable
         /\ ok /\ k \in inTxn => work' = [work EXCEPT ![k] = @ \cup {q}] /\ undone' = undone
         /\ ~ok \/ k \notin inTxn =>
               \/ UNCHANGED <<work, undone>>
               \/ work' = [work EXCEPT ![k] = {}] /\ undone' = undone \cup {q}
  BY DEF QueryEnds, QueryDone, QueryFails, QueryRolledBack, Answered, serverVars
<1>4. \A l \in Conn : /\ running'[l] \subseteq running[l]
                      /\ l # k => work'[l] = work[l]
                      /\ work'[l] \subseteq work[l] \cup {p \in {q} : ok /\ l = k}
  BY <1>2, <1>3 DEF Untrack, IInv, TypeOK
<1>5. \A f \in enders' : \E e \in enders : f.txn = e.txn /\ f.commit = e.commit
  <2> DEFINE g(e) == IF e.conn = k /\ running[k] = {q} THEN [e EXCEPT !.stage = "finishing"] ELSE e
  <2>1. \A e \in Ender : g(e).txn = e.txn /\ g(e).commit = e.commit
    BY DEF Ender
  <2>2. enders' = {g(e) : e \in enders} /\ enders \subseteq Ender
    BY <1>2 DEF Untrack, IInv, TypeOK
  <2> HIDE DEF g
  <2> QED
    BY <2>1, <2>2
<1>6. \A i \in DOMAIN outbox' : \/ i \in DOMAIN outbox /\ outbox'[i] = outbox[i]
                                \/ outbox'[i].req = QueryOf(q) /\ outbox'[i].ok = ok
  BY <1>1, <1>3, AfterRespond
<1>7. EndsInOrder' /\ QueriesBeforeEnd'
  BY <1>2 DEF EndsInOrder, QueriesBeforeEnd
<1>8. BeginsOnce'
  <2>1. \A s \in Txn : Asking(s)' <=> Asking(s)
    BY <1>2 DEF Asking
  <2> QED
    BY <1>1, <1>2, <1>6, <2>1, RequestsDiffer DEF BeginsOnce
<1>9. OwnHere'
  BY <1>1, <1>2, <1>4 DEF OwnHere
<1>10. \A s : Undone(s) => Undone(s)'
  BY <1>3 DEF Undone
<1>11. \A d \in durable : d[1] = q[1] => Undone(q[1])
  BY <1>1 DEF WorkInProgress
<1>12. \A p \in applied : p[1] = q[1] => p \in work'[k] \/ Undone(q[1])'
  <2> SUFFICES ASSUME NEW p \in applied, p[1] = q[1], ~Undone(q[1])'
               PROVE  p \in work'[k]
    OBVIOUS
  <2>1. undone' # undone \cup {q} /\ work \in [Conn -> SUBSET Query]
    BY DEF Undone, IInv, TypeOK
  <2>2. work' = work \/ work' = [work EXCEPT ![k] = @ \cup {q}]
    BY <1>3, <2>1
  <2> QED
    BY <1>1, <1>10, <2>1, <2>2 DEF WorkInProgress
<1>13. WorkInProgress'
  <2>1. \A l \in Conn : holder[l] = q[1] => l = k
    BY <1>1 DEF BeginsOnce
  <2>2. /\ durable' \subseteq applied' /\ \A l \in Conn : work'[l] \subseteq applied'
        /\ \A p \in applied' : connOf'[p[1]] # NoConn
    BY <1>1, <1>2, <1>3, <1>4 DEF WorkInProgress
  <2>3. ASSUME NEW l \in Conn, NEW p \in applied', p[1] = holder'[l], ~Undone(p[1])'
        PROVE  p \in work'[l] /\ p \notin durable'
    <3>1. CASE l # k
      <4>1. p[1] # q[1] /\ p \in applied /\ p[1] = holder[l]
        BY <1>2, <1>3, <2>1, <2>3, <3>1
      <4> QED
        BY <1>3, <1>4, <1>10, <2>3, <3>1, <4>1 DEF WorkInProgress
    <3>2. CASE l = k
      <4>1. p[1] = q[1] /\ ~Undone(q[1]) /\ k \in inTxn
        BY <1>1, <1>2, <1>10, <2>3, <3>2
      <4>2. durable' = durable /\ p \notin durable
        BY <1>3, <1>11, <4>1
      <4>3. p \in work'[k]
        <5>1. CASE p \in applied
          BY <1>12, <2>3, <4>1, <5>1
        <5>2. CASE p \notin applied
          <6>1. p = q /\ ok
            BY <1>3, <5>2
          <6> QED
            BY <1>3, <4>1, <6>1 DEF IInv, TypeOK
        <5> QED
          BY <5>1, <5>2
      <4> QED
        BY <3>2, <4>2, <4>3
    <3> QED
      BY <3>1, <3>2
  <2> QED
    BY <2>2, <2>3 DEF WorkInProgress
<1>14. Whole'
  <2> SUFFICES ASSUME NEW p \in applied', NEW d \in durable', p[1] = d[1], ~Undone(p[1])'
               PROVE  p \in durable'
    BY DEF Whole
  <2>1. ~Undone(p[1])
    BY <1>10
  <2>2. p[1] # q[1]
    BY <1>1, <1>3, <1>11, <2>1
  <2> QED
    BY <1>3, <2>1, <2>2 DEF Whole
<1>15. CommitsOnVerdict'
  BY <1>1, <1>2, <1>3, <1>5, <1>10 DEF CommitsOnVerdict
<1>16. ResultsTrue'
  <2>1. \A s \in Txn : Sealed(s) => s # q[1]
    BY <1>1 DEF Sealed
  <2>2. \A i \in DOMAIN outbox' : outbox'[i].req = QueryOf(q) =>
            /\ Kind(outbox'[i]) # "endTransaction"
            /\ \A p \in Query : outbox'[i].req = QueryOf(p) => p = q
    BY <1>1, RequestParts, RequestsDiffer DEF Kind
  <2>3. \A i \in DOMAIN outbox : TxnOf(outbox[i]) \in Txn
    BY ResponseShape DEF IInv, TypeOK
  <2>4. \A p \in applied' : p \in applied \/ (p = q /\ ok)
    BY <1>3
  <2>5. applied \subseteq applied' /\ durable \subseteq durable' /\ (ok => q \in applied')
    BY <1>3
  <2>6. \A s \in Txn : Sealed(s) => Sealed(s)'
    BY <1>2, <1>10, <2>1, <2>4, <2>5 DEF Sealed
  <2>7. /\ \A p \in Query : asked'[p] = "ok" => p \in applied'
        /\ Propagate => \A s \in Txn : told'[s] = "true" => Sealed(s)'
    BY <1>2, <2>5, <2>6 DEF ResultsTrue
  <2>8. ASSUME NEW i \in DOMAIN outbox'
        PROVE  /\ outbox'[i].ok => \A p \in Query : outbox'[i].req = QueryOf(p) => p \in applied'
               /\ outbox'[i].ok /\ Kind(outbox'[i]) = "endTransaction" /\ verdict'[TxnOf(outbox'[i])]
                     => Sealed(TxnOf(outbox[i]))' /\ outbox'[i] = outbox[i]
               /\ Kind(outbox'[i]) = "endTransaction" => TxnOf(outbox'[i]) \in finalized'
    BY <1>2, <1>6, <2>2, <2>3, <2>5, <2>6 DEF ResultsTrue
  <2> QED
    BY <2>7, <2>8 DEF ResultsTrue
<1> QED
  BY <1>7, <1>8, <1>9, <1>13, <1>14, <1>15, <1>16

\* The end of an endTransaction handler: its connection is let go, with the
\* work done on it durable when "some" says so.
LEMMA EndKeepsAInv ==
    ASSUME IInv, AInv, NEW e \in enders, EndDone(e) \/ EndFails(e)
    PROVE  AInv'
<1> DEFINE t == e.txn
           k == e.conn
<1> USE DEF AInv
<1>1. /\ e \in Ender /\ t \in Txn /\ k \in Conn /\ e.commit \in BOOLEAN /\ e.wants \in BOOLEAN
      /\ holder[k] = t /\ t \in finalized /\ e.commit = verdict[t] /\ t # NoTxn
      /\ EndOf(t) \in Request
  <2>1. e \in Ender
    BY DEF IInv, TypeOK
  <2> QED
    BY <2>1, RequestParts DEF Ender, IInv, EndersHave, CommitsOnVerdict, StartTransactionAssumption, Undone
<1>2. PICK failed \in BOOLEAN :
         /\ EndHandler(e, failed)
         /\ durable' = durable \/ (e.commit /\ durable' = durable \cup work[k])
         /\ ~failed /\ e.commit => durable' = durable \cup work[k]
  BY <1>1 DEF EndDone, EndFails
<1>3. /\ UNCHANGED <<inbox, workerUp, acquiring, starting, running, applied, undone>>
      /\ UNCHANGED <<phase, connOf, aborted, finalized, verdict, told, asked, open, exited>>
      /\ enders' \subseteq enders
      /\ IF e.wants THEN Respond(EndOf(t), ~failed, NoConn) ELSE UNCHANGED outbox
  BY <1>2 DEF EndHandler, parentVars
<1>4. /\ \A l \in Conn : holder'[l] = IF l = k THEN NoTxn ELSE holder[l]
      /\ \A l \in Conn : work'[l] = IF l = k THEN {} ELSE work[l]
      /\ \A l \in Conn : l # k => (l \in inTxn' <=> l \in inTxn)
  BY <1>1, <1>2 DEF EndHandler, Dispose, IInv, TypeOK
<1>5. \A i \in DOMAIN outbox' : \/ i \in DOMAIN outbox /\ outbox'[i] = outbox[i]
                                \/ outbox'[i].req = EndOf(t) /\ (outbox'[i].ok => ~failed)
  <2>1. CASE Respond(EndOf(t), ~failed, NoConn)
    <3> DEFINE ok == ~failed
    <3>1. outbox \in Seq(Response)
      BY DEF IInv, TypeOK
    <3>2. ok \in BOOLEAN
      OBVIOUS
    <3>3. Respond(EndOf(t), ok, NoConn)
      BY <2>1
    <3> HIDE DEF ok
    <3>4. \A i \in DOMAIN outbox' : \/ i \in DOMAIN outbox /\ outbox'[i] = outbox[i]
                                    \/ outbox'[i].req = EndOf(t) /\ outbox'[i].ok = ok
      BY <1>1, <3>1, <3>2, <3>3, AfterRespond
    <3> QED
      BY <3>4 DEF ok
  <2> QED
    BY <1>3, <2>1
<1>6. running[k] = {} /\ \A l \in Conn : holder[l] = t => l = k
  <2>1. running[k] = {}
    BY <1>1 DEF EndDone, EndFails, IInv, NoQueryBesideEnd
  <2> QED
    BY <1>1, <2>1 DEF BeginsOnce
<1>7. /\ \A q \in work[k] : q[1] = t
      /\ \A q \in applied : q[1] = t => (q \in work[k] /\ q \notin durable) \/ Undone(t)
      /\ connOf[t] # NoConn
      /\ work[k] \subseteq applied
  <2>1. connOf[t] # NoConn
    BY <1>1 DEF IInv, ConnFollowsPhase, StartTransactionAssumption
  <2> QED
    BY <1>1, <2>1 DEF OwnHere, WorkInProgress, Undone
<1>8. EndsInOrder' /\ QueriesBeforeEnd'
  BY <1>3 DEF EndsInOrder, QueriesBeforeEnd
<1>9. BeginsOnce'
  <2>1. \A s \in Txn : Asking(s)' <=> Asking(s)
    BY <1>3 DEF Asking
  <2>2. \A s \in Txn : \A l \in Conn : holder'[l] = s => holder[l] = s
    BY <1>4, StartTransactionAssumption
  <2>3. \A s \in Txn : EndOf(t) # BeginOf(s)
    BY <1>1, RequestsDiffer
  <2>4. /\ \A s \in Txn : Asking(s)' => /\ connOf'[s] = NoConn /\ \A l \in Conn : holder'[l] # s
                                        /\ \A i \in DOMAIN outbox' : outbox'[i].req # BeginOf(s)
        /\ \A s \in Txn : phase'[s] = "idle" =>
              /\ ~Asking(s)' /\ \A l \in Conn : holder'[l] # s
              /\ \A i \in DOMAIN outbox' : outbox'[i].req # BeginOf(s)
    BY <1>3, <1>5, <2>1, <2>2, <2>3 DEF BeginsOnce
  <2>5. \A l, n \in Conn : holder'[l] # NoTxn /\ holder'[l] = holder'[n] => l = n
    BY <1>4 DEF BeginsOnce
  <2> QED
    BY <1>3, <2>4, <2>5 DEF BeginsOnce
<1>10. OwnHere'
  BY <1>3, <1>4, <1>6 DEF OwnHere
<1>11. WorkInProgress'
  <2>1. \A q \in durable' : q \in durable \/ q \in work[k]
    BY <1>2
  <2>2. \A l \in Conn : \A q \in applied : q[1] = holder'[l] => l # k
    BY <1>1, <1>4, StartTransactionAssumption DEF IInv, TypeOK, Query
  <2>3. \A l \in Conn : \A q \in applied :
            q[1] = holder'[l] => (q \in work'[l] /\ q \notin durable') \/ Undone(q[1])
    <3> SUFFICES ASSUME NEW l \in Conn, NEW q \in applied, q[1] = holder'[l], ~Undone(q[1])
                 PROVE  q \in work'[l] /\ q \notin durable'
      OBVIOUS
    <3>1. l # k /\ q[1] = holder[l]
      BY <1>4, <2>2
    <3>2. q \in work[l] /\ q \notin durable
      BY <3>1 DEF WorkInProgress, Undone
    <3>3. q[1] # t
      BY <1>6, <3>1
    <3> QED
      BY <1>4, <1>7, <2>1, <3>1, <3>2, <3>3
  <2>4. durable' \subseteq applied /\ \A l \in Conn : work'[l] \subseteq applied
    BY <1>4, <1>7, <2>1 DEF WorkInProgress, Undone
  <2> QED
    BY <1>3, <2>3, <2>4 DEF WorkInProgress, Undone
<1>12. Whole'
  BY <1>2, <1>3, <1>7 DEF Whole, WorkInProgress, Undone
<1>13. CommitsOnVerdict'
  BY <1>1, <1>2, <1>3, <1>7 DEF CommitsOnVerdict, Undone
<1>14. Sealed(t)' \/ ~(verdict[t] /\ ~failed)
  BY <1>1, <1>2, <1>3, <1>4, <1>6, <1>7, StartTransactionAssumption DEF Sealed, Undone
<1>15. \A s \in Txn : Sealed(s) => Sealed(s)'
  <2>1. durable \subseteq durable'
    BY <1>2
  <2> QED
    BY <1>3, <1>4, <2>1, StartTransactionAssumption DEF Sealed, Undone
<1>16. ResultsTrue'
  <2>1. \A i \in DOMAIN outbox' : outbox'[i].req = EndOf(t) =>
            /\ TxnOf(outbox'[i]) = t /\ \A q \in Query : outbox'[i].req # QueryOf(q)
    BY <1>1, RequestParts, RequestsDiffer DEF TxnOf
  <2>2. \A i \in DOMAIN outbox : TxnOf(outbox[i]) \in Txn
    BY ResponseShape DEF IInv, TypeOK
  <2>3. \A q \in Query : asked'[q] = "ok" => q \in applied'
    BY <1>3 DEF ResultsTrue
  <2>4. ASSUME NEW i \in DOMAIN outbox', outbox'[i].ok, NEW q \in Query, outbox'[i].req = QueryOf(q)
        PROVE  q \in applied'
    BY <1>3, <1>5, <2>1, <2>4 DEF ResultsTrue
  <2>5. ASSUME NEW i \in DOMAIN outbox', outbox'[i].ok, Kind(outbox'[i]) = "endTransaction",
               verdict'[TxnOf(outbox'[i])]
        PROVE  Sealed(TxnOf(outbox[i]))' \/ (outbox'[i].req = EndOf(t) /\ Sealed(t)')
    BY <1>3, <1>5, <1>14, <1>15, <2>1, <2>2, <2>5 DEF ResultsTrue
  <2>6. \A i \in DOMAIN outbox' : Kind(outbox'[i]) = "endTransaction" => TxnOf(outbox'[i]) \in finalized'
    BY <1>1, <1>3, <1>5, <2>1 DEF ResultsTrue
  <2>7. Propagate => \A s \in Txn : told'[s] = "true" => Sealed(s)'
    BY <1>3, <1>15 DEF ResultsTrue
  <2> QED
    BY <2>1, <2>3, <2>4, <2>5, <2>6, <2>7 DEF ResultsTrue
<1> QED
  BY <1>8, <1>9, <1>10, <1>11, <1>12, <1>13, <1>16

\* The worker exits: of its commits under way any may have been done.
LEMMA WorkerDiesKeepsAInv ==
    ASSUME IInv, AInv, WorkerDies
    PROVE  AInv'
<1> USE DEF AInv
<1>1. /\ inbox' = <<>> /\ acquiring' = {} /\ enders' = {} /\ workerUp /\ UNCHANGED <<outbox, applied, undone>>
      /\ \A l \in Conn : holder'[l] = NoTxn /\ running'[l] = {} /\ work'[l] = {}
      /\ UNCHANGED <<phase, connOf, aborted, finalized, verdict, told, asked, open, exited>>
  BY DEF WorkerDies, parentVars
<1>2. \A s \in Txn : s # NoTxn
  BY StartTransactionAssumption
<1>3. PICK C \in SUBSET {e.conn : e \in {f \in enders : f.stage = "finishing" /\ f.commit}} :
         durable' = durable \cup UNION {work[k] : k \in C}
  BY DEF WorkerDies
<1>4. \A k \in C : k \in Conn /\ holder[k] \in Txn /\ verdict[holder[k]] /\ connOf[holder[k]] # NoConn
  <2> SUFFICES ASSUME NEW k \in C
               PROVE  k \in Conn /\ holder[k] \in Txn /\ verdict[holder[k]] /\ connOf[holder[k]] # NoConn
    OBVIOUS
  <2>1. PICK e \in enders : e.conn = k /\ e.commit
    OBVIOUS
  <2>2. e.txn \in Txn /\ e.conn \in Conn /\ holder[k] = e.txn /\ e.txn \in finalized
    BY <2>1 DEF IInv, TypeOK, Ender, EndersHave
  <2>3. verdict[e.txn]
    BY <2>1 DEF CommitsOnVerdict, Undone
  <2>4. connOf[e.txn] \in Conn
    BY <2>2 DEF IInv, ConnFollowsPhase
  <2> QED
    BY <2>1, <2>2, <2>3, <2>4, StartTransactionAssumption
<1>5. \A q \in durable' : q \in durable \/ \E k \in C : q \in work[k] /\ q[1] = holder[k]
  BY <1>3, <1>4 DEF OwnHere
<1>6. durable \subseteq durable' /\ \A k \in C : work[k] \subseteq durable'
  BY <1>3
<1>7. EndsInOrder' /\ QueriesBeforeEnd' /\ OwnHere'
  BY <1>1 DEF EndsInOrder, QueriesBeforeEnd, OwnHere
<1>8. BeginsOnce'
  <2>1. \A s \in Txn : ~Asking(s)'
    BY <1>1 DEF Asking
  <2> QED
    BY <1>1, <1>2, <2>1 DEF BeginsOnce
<1>9. WorkInProgress'
  <2>1. durable' \subseteq applied
    BY <1>4, <1>5 DEF WorkInProgress, Undone
  <2>2. \A q \in applied : q[1] \in Txn
    BY DEF IInv, TypeOK, Query
  <2> QED
    BY <1>1, <1>2, <2>1, <2>2 DEF WorkInProgress, Undone
<1>10. Whole'
  <2> SUFFICES ASSUME NEW p \in applied, NEW q \in durable', p[1] = q[1], ~Undone(p[1])
               PROVE  p \in durable'
    BY <1>1 DEF Whole, Undone
  <2>1. CASE q \in durable
    BY <1>6, <2>1 DEF Whole, Undone
  <2>2. CASE \E k \in C : q \in work[k] /\ q[1] = holder[k]
    BY <1>4, <1>6, <2>2 DEF WorkInProgress, Undone
  <2> QED
    BY <1>5, <2>1, <2>2
<1>11. CommitsOnVerdict'
  BY <1>1, <1>4, <1>5 DEF CommitsOnVerdict, Undone
<1>12. ResultsTrue'
  <2>1. \A s \in Txn : Sealed(s) => Sealed(s)'
    BY <1>1, <1>2, <1>6 DEF Sealed, Undone
  <2>2. \A i \in DOMAIN outbox : TxnOf(outbox[i]) \in Txn
    BY ResponseShape DEF IInv, TypeOK
  <2>3. /\ \A q \in Query : asked'[q] = "ok" => q \in applied'
        /\ \A i \in DOMAIN outbox' : outbox'[i].ok => \A q \in Query : outbox'[i].req = QueryOf(q) => q \in applied'
        /\ \A i \in DOMAIN outbox' : Kind(outbox'[i]) = "endTransaction" => TxnOf(outbox'[i]) \in finalized'
    BY <1>1 DEF ResultsTrue
  <2>4. \A i \in DOMAIN outbox' : outbox'[i].ok /\ Kind(outbox'[i]) = "endTransaction" /\ verdict'[TxnOf(outbox'[i])]
            => Sealed(TxnOf(outbox[i]))'
    BY <1>1, <2>1, <2>2 DEF ResultsTrue
  <2>5. Propagate => \A s \in Txn : told'[s] = "true" => Sealed(s)'
    BY <1>1, <2>1 DEF ResultsTrue
  <2> QED
    BY <2>3, <2>4, <2>5 DEF ResultsTrue
<1> QED
  BY <1>7, <1>8, <1>9, <1>10, <1>11, <1>12

LEMMA InitAInv == Init => AInv
<1> SUFFICES ASSUME Init PROVE AInv
  OBVIOUS
<1>1. /\ inbox = <<>> /\ outbox = <<>> /\ acquiring = {} /\ enders = {} /\ applied = {} /\ durable = {}
      /\ open = {} /\ finalized = {}
      /\ \A k \in Conn : holder[k] = NoTxn /\ running[k] = {} /\ work[k] = {}
      /\ \A t \in Txn : /\ t # NoTxn /\ phase[t] = "idle" /\ connOf[t] = NoConn /\ ~verdict[t]
                        /\ told[t] = "none"
      /\ \A q \in Query : asked[q] = "new"
  BY StartTransactionAssumption DEF Init
<1>2. \A t \in Txn : ~Asking(t)
  BY <1>1 DEF Asking
<1>3. EndsInOrder /\ QueriesBeforeEnd /\ OwnHere /\ WorkInProgress /\ Whole /\ CommitsOnVerdict
  BY <1>1 DEF EndsInOrder, QueriesBeforeEnd, OwnHere, WorkInProgress, Whole, CommitsOnVerdict, Undone
<1>4. BeginsOnce
  BY <1>1, <1>2 DEF BeginsOnce
<1>5. ResultsTrue
  BY <1>1 DEF ResultsTrue
<1> QED
  BY <1>3, <1>4, <1>5 DEF AInv

LEMMA NextAInv == IInv /\ AInv /\ RInv /\ "stray" \notin Faults /\ [Next]_vars => AInv'
<1> SUFFICES ASSUME IInv, AInv, RInv, "stray" \notin Faults, [Next]_vars PROVE AInv'
  OBVIOUS
<1>1. CASE UNCHANGED vars
  <2>1. \A t \in Txn : (Asking(t)' <=> Asking(t)) /\ (Sealed(t)' <=> Sealed(t))
    BY <1>1 DEF vars, Asking, Sealed, Undone
  <2>2. /\ EndsInOrder' /\ QueriesBeforeEnd' /\ OwnHere' /\ WorkInProgress' /\ Whole'
        /\ CommitsOnVerdict'
    BY <1>1 DEF vars, AInv, EndsInOrder, QueriesBeforeEnd, OwnHere, WorkInProgress, Whole,
                CommitsOnVerdict, Undone
  <2>3. BeginsOnce'
    BY <1>1, <2>1 DEF vars, AInv, BeginsOnce
  <2>4. ResultsTrue'
    BY <1>1 DEF vars, AInv, ResultsTrue, Sealed, Undone
  <2> QED
    BY <2>2, <2>3, <2>4 DEF AInv
<1>2. ASSUME NEW t \in Txn, StartTransaction(t) PROVE AInv'
  BY <1>2, StartTransactionKeepsAInv
<1>3. ASSUME NEW t \in Txn, Timeout(t) PROVE AInv'
  BY <1>3, TimeoutKeepsAInv
<1>4. ASSUME NEW q \in Query, QueryFn(q) PROVE AInv'
  BY <1>4, QueryFnKeepsAInv
<1>5. ASSUME NEW t \in Txn, NEW commit \in BOOLEAN, CallbackEnds(t, commit) PROVE AInv'
  BY <1>5, CallbackEndsKeepsAInv
<1>6. CASE Deliver
  BY <1>6, DeliverKeepsAInv
<1>7. ASSUME NEW r \in open, Synthesize(r) PROVE AInv'
  BY <1>7, SynthesizeKeepsAInv
<1>8. CASE SeeExit
  BY <1>8, SeeExitKeepsAInv
<1>9. CASE Take
  BY <1>9, TakeKeepsAInv
<1>10. ASSUME NEW t \in Txn, NEW k \in Conn, Acquire(t, k) PROVE AInv'
  BY <1>10, AcquireKeepsAInv
<1>11. ASSUME NEW t \in Txn, AcquireFails(t) PROVE AInv'
  BY <1>11, AcquireFailsKeepsAInv
<1>12. ASSUME NEW k \in Conn, BeginDone(k) \/ BeginFails(k) PROVE AInv'
  BY <1>12, BeginEndsKeepsAInv
<1>13. ASSUME NEW k \in Conn, NEW q \in running[k], QueryEnds(k, q) PROVE AInv'
  BY <1>13, QueryEndsKeepsAInv DEF RInv
<1>14. ASSUME NEW e \in enders, EndDone(e) \/ EndFails(e) PROVE AInv'
  BY <1>14, EndKeepsAInv
<1>15. CASE WorkerDies
  BY <1>15, WorkerDiesKeepsAInv
<1> QED
  BY <1>1, <1>2, <1>3, <1>4, <1>5, <1>6, <1>7, <1>8, <1>9, <1>10, <1>11, <1>12, <1>13, <1>14,
     <1>15 DEF Next

-----------------------------------------------------------------------------
(* The invariant of rollbacks by the server *)

\* Requests are answered and queries issued once and for all.
LEMMA ResumeKeepsAsked ==
    ASSUME IInv, AskedInOrder, NEW r \in open, NEW ok, NEW k, Resume(r, ok, k)
    PROVE  \A q \in Query : asked'[q] # "new" <=> asked[q] # "new"
<1>1. r \in Request /\ asked \in [Query -> {"new", "sent", "ok", "failed", "aborted"}]
  BY DEF IInv, TypeOK
<1>2. CASE asked' = asked
  BY <1>2
<1>3. CASE r[1] = "transactionQuery" /\ asked' = [asked EXCEPT ![<<r[2], r[3]>>] = QueryResult(r[2], ok)]
  <2> DEFINE p == <<r[2], r[3]>>
  <2>1. p \in Query /\ r = QueryOf(p)
    BY <1>1, <1>3, RequestShape
  <2>2. asked[p] # "new"
    BY <2>1 DEF AskedInOrder
  <2>3. QueryResult(r[2], ok) # "new"
    BY DEF QueryResult
  <2>4. \A q \in Query : asked'[q] = IF q = p THEN QueryResult(r[2], ok) ELSE asked[q]
    BY <1>1, <1>3, <2>1
  <2> HIDE DEF p
  <2> QED
    BY <2>2, <2>3, <2>4
<1> QED
  BY <1>2, <1>3 DEF Resume

\* A step that issues no query, starts none and undoes none.
LEMMA OrderKept ==
    ASSUME IInv, AskedInOrder, ServedInOrder, NEW d \in Nat,
           undone' = undone, \A k \in Conn : running'[k] \subseteq running[k],
           \A q \in Query : asked'[q] # "new" <=> asked[q] # "new",
           \A q \in Query : QueryOf(q) \in open' => QueryOf(q) \in open,
           \A i \in DOMAIN inbox' : Kind(inbox'[i]) = "transactionQuery" =>
              i \in Nat /\ i + d \in DOMAIN inbox /\ inbox'[i] = inbox[i + d]
    PROVE  AskedInOrder' /\ ServedInOrder'
<1>1. /\ undone \subseteq Query /\ \A k \in Conn : running[k] \subseteq Query
      /\ inbox \in Seq(Message)
  BY DEF IInv, TypeOK
<1>2. \A i \in DOMAIN inbox : Kind(inbox[i]) = "transactionQuery" => Asks(inbox[i]) \in Query
  <2> SUFFICES ASSUME NEW i \in DOMAIN inbox, Kind(inbox[i]) = "transactionQuery"
               PROVE  Asks(inbox[i]) \in Query
    OBVIOUS
  <2>1. inbox[i].req \in Request /\ inbox[i].req[1] = "transactionQuery"
    BY <1>1, MailShape DEF Kind
  <2> QED
    BY <2>1, RequestShape DEF Asks
<1>3. AskedInOrder'
  <2>1. \A i \in DOMAIN inbox' : Kind(inbox'[i]) = "transactionQuery" => asked'[Asks(inbox'[i])] # "new"
    BY <1>2 DEF AskedInOrder
  <2>2. /\ \A p, q \in Query : p[1] = q[1] /\ p[2] < q[2] /\ asked'[q] # "new" => asked'[p] # "new"
        /\ \A q \in Query : QueryOf(q) \in open' => asked'[q] # "new"
        /\ \A q \in undone' : asked'[q] # "new"
        /\ \A k \in Conn : \A q \in running'[k] : asked'[q] # "new"
    BY <1>1 DEF AskedInOrder
  <2> QED
    BY <2>1, <2>2 DEF AskedInOrder
<1>4. ServedInOrder'
  <2>1. ASSUME NEW i \in DOMAIN inbox', NEW j \in DOMAIN inbox', i < j,
               Kind(inbox'[i]) = "transactionQuery", Kind(inbox'[j]) = "transactionQuery"
        PROVE  Before(Asks(inbox'[i]), Asks(inbox'[j]))
    <3>1. i + d < j + d /\ i + d \in DOMAIN inbox /\ j + d \in DOMAIN inbox
      BY <2>1
    <3> QED
      BY <2>1, <3>1 DEF ServedInOrder
  <2>2. ASSUME NEW p \in undone'
        PROVE  /\ \A k \in Conn : \A q \in running'[k] : Before(p, q)
               /\ \A i \in DOMAIN inbox' : Kind(inbox'[i]) = "transactionQuery" =>
                     Before(p, Asks(inbox'[i]))
    <3>1. \A k \in Conn : \A q \in running'[k] : Before(p, q)
      BY DEF ServedInOrder
    <3>2. ASSUME NEW i \in DOMAIN inbox', Kind(inbox'[i]) = "transactionQuery"
          PROVE  Before(p, Asks(inbox'[i]))
      <4>1. \A j \in DOMAIN inbox : Kind(inbox[j]) = "transactionQuery" => Before(p, Asks(inbox[j]))
        BY DEF ServedInOrder
      <4>2. i + d \in DOMAIN inbox /\ inbox'[i] = inbox[i + d]
        BY <3>2
      <4> QED
        BY <3>2, <4>1, <4>2
    <3> QED
      BY <3>1, <3>2
  <2>3. \A k \in Conn : \A p \in running'[k] :
           \A i \in DOMAIN inbox' : Kind(inbox'[i]) = "transactionQuery" => Before(p, Asks(inbox'[i]))
    BY DEF ServedInOrder
  <2> QED
    BY <2>1, <2>2, <2>3 DEF ServedInOrder
<1> QED
  BY <1>3, <1>4

\* A step of the parent, or one of the worker that only answers, leaves the
\* server's transactions alone.
LEMMA OpenKept ==
    ASSUME IInv, OpenUntilUndone, UNCHANGED <<inTxn, work, holder, undone>>, starting' \subseteq starting,
           \A s \in Txn : connOf[s] # NoConn => connOf'[s] # NoConn,
           \A k \in Conn : holder[k] # NoTxn /\ connOf'[holder[k]] # NoConn =>
              connOf[holder[k]] # NoConn \/ k \in inTxn \/ Undone(holder[k]),
           \A i \in DOMAIN outbox' : Kind(outbox'[i]) = "beginTransaction" /\ outbox'[i].ok =>
              \E j \in DOMAIN outbox : outbox[j] = outbox'[i]
    PROVE  OpenUntilUndone'
<1>1. \A q \in undone : q[1] \in Txn
  BY DEF IInv, TypeOK, Query
<1> QED
  BY <1>1 DEF OpenUntilUndone, Undone

\* The same for the steps of a callback and of the channel.
LEMMA MailGrowsInOrder ==
    ASSUME inbox \in Seq(Message), NEW m \in Message, Kind(m) # "transactionQuery",
           Post(m) \/ UNCHANGED inbox
    PROVE  \A i \in DOMAIN inbox' : Kind(inbox'[i]) = "transactionQuery" =>
              i \in Nat /\ i + 0 \in DOMAIN inbox /\ inbox'[i] = inbox[i + 0]
<1>1. \A i \in DOMAIN inbox : i \in Nat /\ i + 0 = i
  OBVIOUS
<1>2. CASE Post(m)
  BY <1>1, <1>2, AfterPost
<1>3. CASE UNCHANGED inbox
  BY <1>1, <1>3
<1> QED
  BY <1>2, <1>3

LEMMA StartTransactionKeepsOrder ==
    ASSUME IInv, OpenUntilUndone, AskedInOrder, ServedInOrder, NEW t \in Txn, StartTransaction(t)
    PROVE  OpenUntilUndone' /\ AskedInOrder' /\ ServedInOrder'
<1> DEFINE m == [req |-> BeginOf(t), conn |-> NoConn, commit |-> FALSE, wants |-> TRUE]
<1>1. m \in Message /\ Kind(m) # "transactionQuery" /\ inbox \in Seq(Message)
  BY RequestParts DEF Message, Kind, IInv, TypeOK
<1>2. Post(m) \/ UNCHANGED inbox
  BY DEF StartTransaction
<1>3. \A i \in DOMAIN inbox' : Kind(inbox'[i]) = "transactionQuery" =>
          i \in Nat /\ i + 0 \in DOMAIN inbox /\ inbox'[i] = inbox[i + 0]
  <2> HIDE DEF m
  <2> QED
    BY <1>1, <1>2, MailGrowsInOrder
<1>4. /\ UNCHANGED <<inTxn, work, holder, undone, starting, connOf, outbox, running, asked>>
      /\ \A q \in Query : QueryOf(q) \in open' => QueryOf(q) \in open
  BY RequestsDiffer DEF StartTransaction, workerVars, serverVars
<1>5. AskedInOrder' /\ ServedInOrder'
  BY <1>3, <1>4, OrderKept
<1> QED
  BY <1>4, <1>5, OpenKept

LEMMA FinalizeKeepsOrder ==
    ASSUME IInv, OpenUntilUndone, AskedInOrder, ServedInOrder, NEW t \in Txn, NEW commit \in BOOLEAN,
           phase[t] = "running", Finalize(t, commit) \/ UNCHANGED <<open, inbox>>,
           UNCHANGED <<connOf, asked, outbox, workerVars, serverVars>>
    PROVE  OpenUntilUndone' /\ AskedInOrder' /\ ServedInOrder'
<1> DEFINE m == [req |-> EndOf(t), conn |-> connOf[t], commit |-> commit, wants |-> Propagate]
<1>1. m \in Message /\ Kind(m) # "transactionQuery" /\ inbox \in Seq(Message)
  BY RequestParts DEF Message, Kind, IInv, TypeOK, ConnFollowsPhase
<1>2. Post(m) \/ UNCHANGED inbox
  BY DEF Finalize
<1>3. \A i \in DOMAIN inbox' : Kind(inbox'[i]) = "transactionQuery" =>
          i \in Nat /\ i + 0 \in DOMAIN inbox /\ inbox'[i] = inbox[i + 0]
  <2> HIDE DEF m
  <2> QED
    BY <1>1, <1>2, MailGrowsInOrder
<1>4. /\ UNCHANGED <<inTxn, work, holder, undone, starting, connOf, outbox, running, asked>>
      /\ \A q \in Query : QueryOf(q) \in open' => QueryOf(q) \in open
  BY RequestsDiffer DEF Finalize, workerVars, serverVars
<1>5. AskedInOrder' /\ ServedInOrder'
  BY <1>3, <1>4, OrderKept
<1> QED
  BY <1>4, <1>5, OpenKept

\* A callback issues its next query, behind all it has issued.
LEMMA QueryFnKeepsOrder ==
    ASSUME IInv, OpenUntilUndone, AskedInOrder, ServedInOrder, NEW q \in Query, QueryFn(q)
    PROVE  OpenUntilUndone' /\ AskedInOrder' /\ ServedInOrder'
<1> DEFINE m == [req |-> QueryOf(q), conn |-> connOf[q[1]], commit |-> FALSE, wants |-> TRUE]
<1>1. /\ m \in Message /\ Asks(m) = q /\ inbox \in Seq(Message)
      /\ undone \subseteq Query /\ \A k \in Conn : running[k] \subseteq Query
      /\ asked \in [Query -> {"new", "sent", "ok", "failed", "aborted"}]
  BY RequestParts DEF IInv, TypeOK, Message, Asks
<1>2. /\ UNCHANGED <<inTxn, work, holder, undone, starting, connOf, outbox, running>>
      /\ asked[q] = "new" /\ (q[2] > 1 => asked[<<q[1], q[2] - 1>>] # "new")
      /\ \E end \in {"aborted", "failed", "sent"} : asked' = [asked EXCEPT ![q] = end]
      /\ open' \subseteq open \cup {QueryOf(q)}
      /\ Post(m) \/ UNCHANGED inbox
  BY DEF QueryFn, workerVars, serverVars
<1>3. \A p \in Query : asked'[p] # "new" <=> asked[p] # "new" \/ p = q
  BY <1>1, <1>2
<1>4. \A i \in DOMAIN inbox' : \/ i \in DOMAIN inbox /\ i \in Nat /\ i < Len(inbox) + 1 /\ inbox'[i] = inbox[i]
                               \/ i = Len(inbox) + 1 /\ inbox'[i] = m
  <2>1. \A i \in DOMAIN inbox : i \in Nat /\ i < Len(inbox) + 1
    BY <1>1
  <2>2. CASE Post(m)
    <3> HIDE DEF m
    <3> QED
      BY <1>1, <2>1, <2>2, AfterPost
  <2>3. CASE UNCHANGED inbox
    BY <2>1, <2>3
  <2> QED
    BY <1>2, <2>2, <2>3
<1>5. \A p \in Query : asked[p] # "new" => Before(p, q)
  <2> SUFFICES ASSUME NEW p \in Query, asked[p] # "new", p[1] = q[1]
               PROVE  p[2] < q[2]
    BY DEF Before
  <2>1. p = <<p[1], p[2]>> /\ q = <<q[1], q[2]>> /\ p[2] \in Nat /\ q[2] \in Nat
    BY DEF Query
  <2>2. p[2] # q[2]
    BY <1>2, <2>1
  <2>3. ~(q[2] < p[2])
    BY <1>2 DEF AskedInOrder
  <2> QED
    BY <2>1, <2>2, <2>3
<1>6. \A i \in DOMAIN inbox : Kind(inbox[i]) = "transactionQuery" =>
          /\ Asks(inbox[i]) \in Query /\ asked[Asks(inbox[i])] # "new"
  <2> SUFFICES ASSUME NEW i \in DOMAIN inbox, Kind(inbox[i]) = "transactionQuery"
               PROVE  Asks(inbox[i]) \in Query
    BY DEF AskedInOrder
  <2>1. inbox[i].req \in Request /\ inbox[i].req[1] = "transactionQuery"
    BY <1>1, MailShape DEF Kind
  <2> QED
    BY <2>1, RequestShape DEF Asks
<1> HIDE DEF m
<1>7. AskedInOrder'
  <2>1. ASSUME NEW p \in Query, NEW r \in Query, p[1] = r[1], p[2] < r[2], asked'[r] # "new"
        PROVE  asked'[p] # "new"
    <3>1. CASE r # q
      BY <1>3, <2>1, <3>1 DEF AskedInOrder
    <3>2. CASE r = q
      <4>1. /\ q[2] \in Nat /\ p[2] \in Nat /\ p[2] \in 1 .. MaxQueries /\ q[2] \in 1 .. MaxQueries
            /\ q[1] \in Txn /\ p = <<p[1], p[2]>>
        BY DEF Query
      <4> DEFINE l == <<q[1], q[2] - 1>>
      <4>2. l \in Query /\ l[1] = q[1] /\ l[2] = q[2] - 1 /\ asked[l] # "new"
        BY <1>2, <2>1, <3>2, <4>1 DEF Query
      <4>3. p = l \/ p[2] < l[2]
        BY <2>1, <3>2, <4>1, <4>2
      <4> HIDE DEF l
      <4> QED
        BY <1>3, <2>1, <3>2, <4>2, <4>3 DEF AskedInOrder
    <3> QED
      BY <3>1, <3>2
  <2>2. \A p \in Query : QueryOf(p) \in open' => asked'[p] # "new"
    BY <1>2, <1>3, RequestsDiffer DEF AskedInOrder
  <2>3. /\ \A p \in undone' : asked'[p] # "new"
        /\ \A k \in Conn : \A p \in running'[k] : asked'[p] # "new"
    BY <1>1, <1>2, <1>3 DEF AskedInOrder
  <2>4. \A i \in DOMAIN inbox' : Kind(inbox'[i]) = "transactionQuery" => asked'[Asks(inbox'[i])] # "new"
    BY <1>1, <1>3, <1>4, <1>6
  <2> QED
    BY <2>1, <2>2, <2>3, <2>4 DEF AskedInOrder
<1>8. ServedInOrder'
  <2>1. ASSUME NEW p \in undone'
        PROVE  /\ \A k \in Conn : \A r \in running'[k] : Before(p, r)
               /\ \A i \in DOMAIN inbox' : Kind(inbox'[i]) = "transactionQuery" =>
                     Before(p, Asks(inbox'[i]))
    <3>1. p \in undone /\ Before(p, q)
      BY <1>1, <1>2, <1>5 DEF AskedInOrder
    <3>2. \A k \in Conn : \A r \in running'[k] : Before(p, r)
      BY <1>2, <3>1 DEF ServedInOrder
    <3>3. ASSUME NEW i \in DOMAIN inbox', Kind(inbox'[i]) = "transactionQuery"
          PROVE  Before(p, Asks(inbox'[i]))
      <4>1. \A j \in DOMAIN inbox : Kind(inbox[j]) = "transactionQuery" => Before(p, Asks(inbox[j]))
        BY <3>1 DEF ServedInOrder
      <4>2. (i \in DOMAIN inbox /\ inbox'[i] = inbox[i]) \/ inbox'[i] = m
        BY <1>4
      <4> QED
        BY <1>1, <3>1, <3>3, <4>1, <4>2
    <3> QED
      BY <3>2, <3>3
  <2>2. \A k \in Conn : \A p \in running'[k] :
           \A i \in DOMAIN inbox' : Kind(inbox'[i]) = "transactionQuery" => Before(p, Asks(inbox'[i]))
    BY <1>1, <1>2, <1>4, <1>5 DEF ServedInOrder, AskedInOrder
  <2>3. ASSUME NEW i \in DOMAIN inbox', NEW j \in DOMAIN inbox', i < j,
               Kind(inbox'[i]) = "transactionQuery", Kind(inbox'[j]) = "transactionQuery"
        PROVE  Before(Asks(inbox'[i]), Asks(inbox'[j]))
    <3>1. Len(inbox) \in Nat
      BY <1>1
    <3>2. i \in DOMAIN inbox /\ inbox'[i] = inbox[i]
      BY <1>4, <2>3, <3>1
    <3>3. CASE j \in DOMAIN inbox /\ inbox'[j] = inbox[j]
      BY <2>3, <3>2, <3>3 DEF ServedInOrder
    <3>4. CASE inbox'[j] = m
      BY <1>1, <1>5, <1>6, <2>3, <3>2, <3>4
    <3> QED
      BY <1>4, <3>3, <3>4
  <2> QED
    BY <2>1, <2>2, <2>3 DEF ServedInOrder
<1>9. OpenUntilUndone'
  BY <1>2, OpenKept
<1> QED
  BY <1>7, <1>8, <1>9

LEMMA ResumeKeepsOrder ==
    ASSUME IInv, OpenUntilUndone, AskedInOrder, ServedInOrder, NEW r \in open, NEW ok \in BOOLEAN, NEW k,
           Resume(r, ok, k),
           r = BeginOf(r[2]) /\ ok =>
              \A l \in Conn : holder[l] = r[2] => l \in inTxn \/ Undone(r[2]),
           open' = open \ {r},
           \A i \in DOMAIN outbox' : \E j \in DOMAIN outbox : outbox[j] = outbox'[i],
           UNCHANGED <<inbox, workerVars, serverVars>>
    PROVE  OpenUntilUndone' /\ AskedInOrder' /\ ServedInOrder'
<1> USE DEF workerVars, serverVars
<1>1. /\ r \in Request /\ r[2] \in Txn /\ NoTxn \notin Txn
      /\ connOf \in [Txn -> Conn \cup {NoConn}] /\ holder \in [Conn -> Txn \cup {NoTxn}]
  BY ResumeCases DEF IInv, TypeOK, StartTransactionAssumption
<1>2. \/ UNCHANGED connOf
      \/ /\ r = BeginOf(r[2]) /\ ok /\ connOf[r[2]] = NoConn /\ connOf' = [connOf EXCEPT ![r[2]] = k]
  <2>1. r = BeginOf(r[2]) => connOf[r[2]] = NoConn
    BY <1>1 DEF IInv, ConnFollowsPhase
  <2> QED
    BY <2>1 DEF Resume
<1>3. \A q \in Query : asked'[q] # "new" <=> asked[q] # "new"
  BY ResumeKeepsAsked
<1>4. \A i \in DOMAIN inbox : i \in Nat /\ i + 0 = i
  BY DEF IInv, TypeOK
<1>5. AskedInOrder' /\ ServedInOrder'
  BY <1>3, <1>4, OrderKept
<1>6. \A s \in Txn : connOf'[s] = connOf[s] \/ (s = r[2] /\ r = BeginOf(s) /\ ok /\ connOf[s] = NoConn)
  BY <1>1, <1>2
<1>7. OpenUntilUndone'
  <2>1. \A l \in Conn : holder[l] # NoTxn /\ connOf'[holder[l]] # NoConn =>
            connOf[holder[l]] # NoConn \/ l \in inTxn \/ Undone(holder[l])
    BY <1>1, <1>6
  <2>2. \A s \in Txn : connOf[s] # NoConn => connOf'[s] # NoConn
    BY <1>6
  <2> QED
    BY <2>1, <2>2, OpenKept
<1> QED
  BY <1>5, <1>7

LEMMA DeliverKeepsOrder ==
    ASSUME IInv, OpenUntilUndone, AskedInOrder, ServedInOrder, Deliver
    PROVE  OpenUntilUndone' /\ AskedInOrder' /\ ServedInOrder'
<1> DEFINE m == Head(outbox)
<1>1. /\ m = outbox[1] /\ 1 \in DOMAIN outbox /\ m.req \in Request /\ m.ok \in BOOLEAN
      /\ \A i \in DOMAIN outbox' : \E j \in DOMAIN outbox : outbox[j] = outbox'[i]
  BY Shifted, ResponseShape DEF Deliver, IInv, TypeOK
<1>2. UNCHANGED <<inbox, workerVars, serverVars>> /\ open' = open \ {m.req}
  BY DEF Deliver
<1>3. CASE m.req \in open
  <2>1. Resume(m.req, m.ok, m.conn)
    BY <1>3 DEF Deliver
  <2>2. m.req = BeginOf(m.req[2]) /\ m.ok =>
            \A l \in Conn : holder[l] = m.req[2] => l \in inTxn \/ Undone(m.req[2])
    <3>1. m.req = BeginOf(m.req[2]) => Kind(m) = "beginTransaction" /\ TxnOf(m) = m.req[2]
      <4>1. m.req[2] \in Txn
        BY <1>1, RequestShape
      <4> QED
        BY <4>1, RequestParts DEF Kind, TxnOf
    <3> QED
      BY <1>1, <3>1 DEF OpenUntilUndone
  <2> DEFINE r == m.req
             ok == m.ok
             k == m.conn
  <2>3. r \in open /\ ok \in BOOLEAN /\ Resume(r, ok, k) /\ open' = open \ {r}
    BY <1>1, <1>2, <1>3, <2>1
  <2>4. r = BeginOf(r[2]) /\ ok => \A l \in Conn : holder[l] = r[2] => l \in inTxn \/ Undone(r[2])
    BY <2>2
  <2> HIDE DEF m, r, ok, k
  <2> QED
    BY <1>1, <1>2, <2>3, <2>4, ResumeKeepsOrder
<1>4. CASE m.req \notin open
  <2>1. UNCHANGED <<connOf, asked, inbox, holder, starting, running, inTxn, work, undone>> /\ open' = open
    BY <1>2, <1>4 DEF Deliver, workerVars, serverVars
  <2>2. \A i \in DOMAIN inbox : i \in Nat /\ i + 0 = i
    BY DEF IInv, TypeOK
  <2> HIDE DEF m
  <2>3. AskedInOrder' /\ ServedInOrder'
    BY <2>1, <2>2, OrderKept
  <2> QED
    BY <1>1, <2>1, <2>3, OpenKept
<1> QED
  BY <1>3, <1>4

\* The worker takes a query: it follows what runs, and goes before the mail.
LEMMA TakeKeepsOrder ==
    ASSUME IInv, OpenUntilUndone, AskedInOrder, ServedInOrder, Take
    PROVE  OpenUntilUndone' /\ AskedInOrder' /\ ServedInOrder'
<1> DEFINE m == Head(inbox)
           q == Asks(m)
<1>1. /\ inbox # <<>> /\ inbox' = Tail(inbox) /\ inbox \in Seq(Message) /\ outbox \in Seq(Response)
      /\ running \in [Conn -> SUBSET Query]
      /\ UNCHANGED <<connOf, asked, open, inTxn, work, durable, applied, undone>>
  BY DEF Take, IInv, TypeOK, parentVars, serverVars
<1>2. /\ 1 \in DOMAIN inbox /\ m = inbox[1] /\ m.req \in Request
      /\ \A i \in DOMAIN inbox' : i \in Nat /\ i > 0 /\ i + 1 \in DOMAIN inbox /\ inbox'[i] = inbox[i + 1]
  BY <1>1, Shifted, MailShape
<1>3. UNCHANGED <<holder, starting>>
  BY DEF Take, TakeBegin, TakeQuery, TakeEnd, workerVars
<1>4. \/ UNCHANGED running
      \/ /\ Kind(m) = "transactionQuery" /\ running' = [running EXCEPT ![m.conn] = @ \cup {q}]
         /\ UNCHANGED outbox
  BY DEF Take, TakeBegin, TakeQuery, TakeEnd, workerVars, Kind, Asks
<1>5. \A i \in DOMAIN outbox' : Kind(outbox'[i]) = "beginTransaction" /\ outbox'[i].ok =>
          \E j \in DOMAIN outbox : outbox[j] = outbox'[i]
  <2>1. \/ UNCHANGED outbox
        \/ Kind(m) # "beginTransaction" /\ \E ok \in BOOLEAN : Respond(m.req, ok, NoConn)
    BY DEF Take, TakeBegin, TakeQuery, TakeEnd, Kind
  <2>2. ASSUME Kind(m) # "beginTransaction", NEW ok \in BOOLEAN, Respond(m.req, ok, NoConn)
        PROVE  \A i \in DOMAIN outbox' : Kind(outbox'[i]) = "beginTransaction" /\ outbox'[i].ok =>
                  \E j \in DOMAIN outbox : outbox[j] = outbox'[i]
    <3> DEFINE r == m.req
    <3>1. r \in Request /\ Respond(r, ok, NoConn) /\ r[1] # "beginTransaction"
      BY <1>2, <2>2 DEF Kind
    <3> HIDE DEF m, r
    <3>2. \A i \in DOMAIN outbox' : \/ i \in DOMAIN outbox /\ outbox'[i] = outbox[i]
                                    \/ outbox'[i].req = r
      BY <1>1, <3>1, AfterRespond
    <3> QED
      BY <3>1, <3>2 DEF Kind
  <2> QED
    BY <2>1, <2>2
<1>6. OpenUntilUndone'
  <2> HIDE DEF m
  <2> QED
    BY <1>1, <1>3, <1>5, OpenKept
<1>7. CASE UNCHANGED running
  <2> HIDE DEF m
  <2> QED
    BY <1>1, <1>2, <1>6, <1>7, OrderKept
<1>8. CASE Kind(m) = "transactionQuery" /\ running' = [running EXCEPT ![m.conn] = @ \cup {q}]
  <2>1. asked[q] # "new"
    BY <1>2, <1>8 DEF AskedInOrder
  <2>2. \A k \in Conn : \A p \in running'[k] : p \in running[k] \/ p = q
    BY <1>1, <1>8
  <2>3. \A i \in DOMAIN inbox' : Kind(inbox'[i]) = "transactionQuery" => Before(q, Asks(inbox'[i]))
    <3> SUFFICES ASSUME NEW i \in DOMAIN inbox', Kind(inbox'[i]) = "transactionQuery"
                 PROVE  Before(q, Asks(inbox'[i]))
      OBVIOUS
    <3>1. i + 1 \in DOMAIN inbox /\ inbox'[i] = inbox[i + 1] /\ 1 < i + 1
      BY <1>2
    <3> QED
      BY <1>2, <1>8, <3>1 DEF ServedInOrder
  <2>4. \A p \in undone : Before(p, q)
    BY <1>2, <1>8 DEF ServedInOrder
  <2> HIDE DEF m, q
  <2>5. AskedInOrder'
    <3>1. \A i \in DOMAIN inbox' : Kind(inbox'[i]) = "transactionQuery" => asked[Asks(inbox'[i])] # "new"
      BY <1>2 DEF AskedInOrder
    <3>2. \A k \in Conn : \A p \in running'[k] : asked[p] # "new"
      BY <2>1, <2>2 DEF AskedInOrder
    <3> QED
      BY <1>1, <3>1, <3>2 DEF AskedInOrder
  <2>6. ServedInOrder'
    <3>1. ASSUME NEW p, \A j \in DOMAIN inbox : Kind(inbox[j]) = "transactionQuery" => Before(p, Asks(inbox[j]))
          PROVE  \A i \in DOMAIN inbox' : Kind(inbox'[i]) = "transactionQuery" => Before(p, Asks(inbox'[i]))
      BY <1>2, <3>1
    <3>2. \A p \in undone : \A i \in DOMAIN inbox' :
              Kind(inbox'[i]) = "transactionQuery" => Before(p, Asks(inbox'[i]))
      BY <3>1 DEF ServedInOrder
    <3>3. \A p \in undone : \A k \in Conn : \A r \in running'[k] : Before(p, r)
      BY <2>2, <2>4 DEF ServedInOrder
    <3>4. \A k \in Conn : \A p \in running'[k] :
              \A i \in DOMAIN inbox' : Kind(inbox'[i]) = "transactionQuery" => Before(p, Asks(inbox'[i]))
      <4>1. \A k \in Conn : \A p \in running[k] :
              \A i \in DOMAIN inbox' : Kind(inbox'[i]) = "transactionQuery" => Before(p, Asks(inbox'[i]))
        BY <3>1 DEF ServedInOrder
      <4> QED
        BY <2>2, <2>3, <4>1
    <3>5. ASSUME NEW i \in DOMAIN inbox', NEW j \in DOMAIN inbox', i < j,
                 Kind(inbox'[i]) = "transactionQuery", Kind(inbox'[j]) = "transactionQuery"
          PROVE  Before(Asks(inbox'[i]), Asks(inbox'[j]))
      <4>1. /\ i + 1 < j + 1 /\ i + 1 \in DOMAIN inbox /\ j + 1 \in DOMAIN inbox
            /\ inbox'[i] = inbox[i + 1] /\ inbox'[j] = inbox[j + 1]
        BY <1>2, <3>5
      <4> QED
        BY <3>5, <4>1 DEF ServedInOrder
    <3> QED
      BY <1>1, <3>2, <3>3, <3>4, <3>5 DEF ServedInOrder
  <2> QED
    BY <1>6, <2>5, <2>6
<1> QED
  BY <1>4, <1>7, <1>8

LEMMA MailNumbered ==
    ASSUME IInv, inbox' = inbox
    PROVE  \A i \in DOMAIN inbox' : i \in Nat /\ i + 0 \in DOMAIN inbox /\ inbox'[i] = inbox[i + 0]
<1>1. \A i \in DOMAIN inbox : i \in Nat /\ i + 0 = i
  BY DEF IInv, TypeOK
<1> QED
  BY <1>1

LEMMA AcquireKeepsOrder ==
    ASSUME IInv, AInv, OpenUntilUndone, AskedInOrder, ServedInOrder, NEW t \in Txn, NEW k \in Conn,
           Acquire(t, k)
    PROVE  OpenUntilUndone' /\ AskedInOrder' /\ ServedInOrder'
<1>1. /\ UNCHANGED <<connOf, asked, open, inbox, outbox, running, inTxn, work, undone>>
      /\ starting' = starting \cup {k} /\ t \in acquiring
      /\ \A l \in Conn : holder'[l] = IF l = k THEN t ELSE holder[l]
  BY DEF Acquire, parentVars, serverVars, IInv, TypeOK
<1>2. connOf[t] = NoConn /\ \A i \in DOMAIN outbox : outbox[i].req # BeginOf(t)
  <2>1. Asking(t)
    BY <1>1 DEF Asking
  <2> QED
    BY <2>1 DEF AInv, BeginsOnce
<1>3. \A i \in DOMAIN outbox : Kind(outbox[i]) = "beginTransaction" => TxnOf(outbox[i]) # t
  <2> SUFFICES ASSUME NEW i \in DOMAIN outbox, Kind(outbox[i]) = "beginTransaction"
               PROVE  outbox[i].req = BeginOf(TxnOf(outbox[i]))
    BY <1>2
  <2>1. outbox[i].req \in Request
    BY ResponseShape DEF IInv, TypeOK
  <2> QED
    BY <2>1, RequestShape DEF Kind, TxnOf
<1>4. AskedInOrder' /\ ServedInOrder'
  BY <1>1, MailNumbered, OrderKept
<1>5. OpenUntilUndone'
  <2>1. \A l \in Conn : holder'[l] # NoTxn /\ connOf'[holder'[l]] # NoConn =>
            l \in inTxn' \/ Undone(holder[l])'
    BY <1>1, <1>2 DEF OpenUntilUndone, Undone
  <2>2. \A i \in DOMAIN outbox' : Kind(outbox'[i]) = "beginTransaction" /\ outbox'[i].ok =>
            \A l \in Conn : holder'[l] = TxnOf(outbox'[i]) => l \in inTxn' \/ Undone(holder[l])'
    BY <1>1, <1>3 DEF OpenUntilUndone, Undone
  <2>3. \A q \in undone' : /\ connOf'[q[1]] # NoConn
                           /\ \A l \in Conn : holder'[l] = q[1] => l \notin inTxn' \cup starting'
    BY <1>1, <1>2 DEF OpenUntilUndone
  <2>4. \A l \in Conn : l \notin inTxn' => work'[l] = {}
    BY <1>1 DEF OpenUntilUndone
  <2> QED
    BY <2>1, <2>2, <2>3, <2>4 DEF OpenUntilUndone
<1> QED
  BY <1>4, <1>5

\* A response that is no connection for its transaction.
LEMMA AnswerKeepsOpen ==
    ASSUME outbox \in Seq(Response), NEW r \in Request, NEW ok \in BOOLEAN, NEW k \in Conn \cup {NoConn},
           Respond(r, ok, k), r[1] = "beginTransaction" => ~ok
    PROVE  \A i \in DOMAIN outbox' : Kind(outbox'[i]) = "beginTransaction" /\ outbox'[i].ok =>
              \E j \in DOMAIN outbox : outbox[j] = outbox'[i]
  BY AfterRespond DEF Kind

LEMMA BeginStepsKeepOrder ==
    ASSUME IInv, AInv, OpenUntilUndone, AskedInOrder, ServedInOrder,
           \/ \E t \in Txn : AcquireFails(t)
           \/ \E k \in Conn : BeginDone(k) \/ BeginFails(k)
    PROVE  OpenUntilUndone' /\ AskedInOrder' /\ ServedInOrder'
<1>1. UNCHANGED <<connOf, asked, open, inbox, running, holder, work, undone>> /\ outbox \in Seq(Response)
  BY DEF AcquireFails, BeginDone, BeginFails, parentVars, serverVars, IInv, TypeOK
<1>2. AskedInOrder' /\ ServedInOrder'
  BY <1>1, MailNumbered, OrderKept
<1>3. ASSUME NEW t \in Txn, Respond(BeginOf(t), FALSE, NoConn), starting' \subseteq starting, inTxn' = inTxn
      PROVE  OpenUntilUndone'
  <2> DEFINE ok == FALSE
  <2>1. BeginOf(t) \in Request /\ ok \in BOOLEAN /\ ~ok /\ Respond(BeginOf(t), ok, NoConn)
    BY <1>3, RequestParts
  <2> HIDE DEF ok
  <2>2. \A i \in DOMAIN outbox' : Kind(outbox'[i]) = "beginTransaction" /\ outbox'[i].ok =>
            \E j \in DOMAIN outbox : outbox[j] = outbox'[i]
    BY <1>1, <2>1, AnswerKeepsOpen
  <2> QED
    BY <1>1, <1>3, <2>2, OpenKept
<1>4. ASSUME NEW t \in Txn, AcquireFails(t) PROVE OpenUntilUndone'
  BY <1>3, <1>4 DEF AcquireFails, serverVars
<1>5. ASSUME NEW k \in Conn, BeginFails(k) PROVE OpenUntilUndone'
  <2>1. holder[k] \in Txn
    BY <1>5, StartingIsHeld DEF BeginFails
  <2> QED
    BY <1>3, <1>5, <2>1 DEF BeginFails, serverVars
<1>6. ASSUME NEW k \in Conn, BeginDone(k) PROVE OpenUntilUndone'
  <2> DEFINE t == holder[k]
             ok == TRUE
  <2>1. t \in Txn /\ BeginOf(t) \in Request /\ k \in starting /\ NoTxn \notin Txn
    BY <1>6, StartingIsHeld, RequestParts DEF BeginDone, StartTransactionAssumption
  <2>2. Respond(BeginOf(t), ok, k) /\ inTxn' = inTxn \cup {k} /\ starting' = starting \ {k} /\ ok \in BOOLEAN
    BY <1>6 DEF BeginDone
  <2> HIDE DEF ok
  <2>3. \A i \in DOMAIN outbox' : \/ i \in DOMAIN outbox /\ outbox'[i] = outbox[i]
                                  \/ outbox'[i].req = BeginOf(t)
    BY <1>1, <2>1, <2>2, AfterRespond
  <2>4. \A l \in Conn : holder[l] = t => l = k
    BY <2>1 DEF AInv, BeginsOnce
  <2>5. \A i \in DOMAIN outbox' : outbox'[i].req = BeginOf(t) => TxnOf(outbox'[i]) = t
    BY <2>1, RequestParts DEF TxnOf
  <2>6. \A i \in DOMAIN outbox' : Kind(outbox'[i]) = "beginTransaction" /\ outbox'[i].ok =>
            \A l \in Conn : holder'[l] = TxnOf(outbox'[i]) => l \in inTxn' \/ Undone(holder[l])'
    BY <1>1, <2>2, <2>3, <2>4, <2>5 DEF OpenUntilUndone, Undone
  <2>7. \A q \in undone' : /\ connOf'[q[1]] # NoConn
                           /\ \A l \in Conn : holder'[l] = q[1] => l \notin inTxn' \cup starting'
    BY <1>1, <2>1, <2>2 DEF OpenUntilUndone
  <2>8. /\ \A l \in Conn : l \notin inTxn' => work'[l] = {}
        /\ \A l \in Conn : holder'[l] # NoTxn /\ connOf'[holder'[l]] # NoConn =>
              l \in inTxn' \/ Undone(holder[l])'
    BY <1>1, <2>2 DEF OpenUntilUndone, Undone
  <2> QED
    BY <2>6, <2>7, <2>8 DEF OpenUntilUndone
<1> QED
  BY <1>2, <1>4, <1>5, <1>6

LEMMA QueryEndsKeepsOrder ==
    ASSUME IInv, AInv, OpenUntilUndone, AskedInOrder, ServedInOrder,
           NEW k \in Conn, NEW q \in running[k], QueryEnds(k, q)
    PROVE  OpenUntilUndone' /\ AskedInOrder' /\ ServedInOrder'
<1>1. /\ q \in Query /\ QueryOf(q) \in Request /\ QueryOf(q)[1] = "transactionQuery" /\ q[1] \in Txn
      /\ q[1] = holder[k] /\ connOf[q[1]] # NoConn /\ q[1] # NoTxn /\ outbox \in Seq(Response)
      /\ running \in [Conn -> SUBSET Query] /\ work \in [Conn -> SUBSET Query] /\ undone \subseteq Query
  BY RequestParts DEF AInv, OwnHere, IInv, TypeOK, StartTransactionAssumption
<1>2. /\ UNCHANGED <<connOf, asked, open, inbox, starting, holder>>
      /\ k \notin starting
      /\ \A p \in running[k] : p[1] = q[1] => q[2] <= p[2]
      /\ running' = [running EXCEPT ![k] = @ \ {q}]
      /\ \E ok \in BOOLEAN : Respond(QueryOf(q), ok, NoConn)
  BY DEF QueryEnds, QueryDone, QueryFails, QueryRolledBack, Answered, Untrack, parentVars
<1>3. \A l \in Conn : \A p \in running'[l] : p \in running[l] /\ (l = k => p # q)
  BY <1>1, <1>2
<1>4. \A i \in DOMAIN outbox' : Kind(outbox'[i]) = "beginTransaction" /\ outbox'[i].ok =>
          \E j \in DOMAIN outbox : outbox[j] = outbox'[i]
  BY <1>1, <1>2, AnswerKeepsOpen
<1>5. CASE UNCHANGED <<inTxn, undone>> /\ \A l \in Conn : l \notin inTxn => work'[l] = work[l]
  <2>1. AskedInOrder' /\ ServedInOrder'
    BY <1>2, <1>3, <1>5, MailNumbered, OrderKept
  <2>2. OpenUntilUndone'
    BY <1>2, <1>4, <1>5 DEF OpenUntilUndone, Undone
  <2> QED
    BY <2>1, <2>2
<1>6. CASE /\ inTxn' = inTxn \ {k} /\ undone' = undone \cup {q}
           /\ work' = [work EXCEPT ![k] = {}]
  <2>1. \A l \in Conn : holder[l] = q[1] => l = k
    BY <1>1 DEF AInv, BeginsOnce
  <2>2. asked[q] # "new"
    BY <1>1 DEF AskedInOrder
  <2>3. \A l \in Conn : \A p \in running'[l] : Before(q, p)
    <3> SUFFICES ASSUME NEW l \in Conn, NEW p \in running'[l], p[1] = q[1]
                 PROVE  q[2] < p[2]
      BY DEF Before
    <3>1. p \in running[l] /\ p \in Query /\ p[1] = holder[l]
      BY <1>1, <1>3 DEF AInv, OwnHere
    <3>2. l = k /\ p # q /\ q[2] <= p[2]
      BY <1>2, <1>3, <2>1, <3>1
    <3>3. p = <<p[1], p[2]>> /\ q = <<q[1], q[2]>> /\ p[2] \in Nat /\ q[2] \in Nat
      BY <1>1, <3>1 DEF Query
    <3> QED
      BY <3>2, <3>3
  <2>4. \A i \in DOMAIN inbox : Kind(inbox[i]) = "transactionQuery" => Before(q, Asks(inbox[i]))
    BY DEF ServedInOrder
  <2>5. AskedInOrder'
    BY <1>2, <1>3, <1>6, <2>2 DEF AskedInOrder
  <2>6. ServedInOrder'
    <3>1. \A p \in undone' : \A l \in Conn : \A r \in running'[l] : Before(p, r)
      BY <1>3, <1>6, <2>3 DEF ServedInOrder
    <3>2. \A p \in undone' : \A i \in DOMAIN inbox' :
              Kind(inbox'[i]) = "transactionQuery" => Before(p, Asks(inbox'[i]))
      BY <1>2, <1>6, <2>4 DEF ServedInOrder
    <3>3. /\ \A l \in Conn : \A p \in running'[l] :
                \A i \in DOMAIN inbox' : Kind(inbox'[i]) = "transactionQuery" => Before(p, Asks(inbox'[i]))
          /\ \A i, j \in DOMAIN inbox' :
                i < j /\ Kind(inbox'[i]) = "transactionQuery" /\ Kind(inbox'[j]) = "transactionQuery" =>
                   Before(Asks(inbox'[i]), Asks(inbox'[j]))
      BY <1>2, <1>3 DEF ServedInOrder
    <3> QED
      BY <3>1, <3>2, <3>3 DEF ServedInOrder
  <2>7. OpenUntilUndone'
    <3>1. Undone(q[1])' /\ \A s : Undone(s) => Undone(s)'
      BY <1>6 DEF Undone
    <3>2. \A l \in Conn : l \in inTxn => l \in inTxn' \/ holder[l] = q[1]
      BY <1>1, <1>6
    <3>3. \A l \in Conn : l \notin inTxn' => work'[l] = {}
      BY <1>1, <1>6 DEF OpenUntilUndone
    <3>4. \A l \in Conn : holder'[l] # NoTxn /\ connOf'[holder'[l]] # NoConn =>
              l \in inTxn' \/ Undone(holder[l])'
      BY <1>2, <3>1, <3>2 DEF OpenUntilUndone
    <3>5. \A i \in DOMAIN outbox' : Kind(outbox'[i]) = "beginTransaction" /\ outbox'[i].ok =>
              \A l \in Conn : holder'[l] = TxnOf(outbox'[i]) => l \in inTxn' \/ Undone(holder[l])'
      BY <1>2, <1>4, <3>1, <3>2 DEF OpenUntilUndone
    <3>6. \A p \in undone' : /\ connOf'[p[1]] # NoConn
                             /\ \A l \in Conn : holder'[l] = p[1] => l \notin inTxn' \cup starting'
      BY <1>1, <1>2, <1>6, <2>1 DEF OpenUntilUndone
    <3> QED
      BY <1>2, <3>3, <3>4, <3>5, <3>6 DEF OpenUntilUndone
  <2> QED
    BY <2>5, <2>6, <2>7
<1> QED
  <2>1. \/ UNCHANGED <<inTxn, undone>> /\ (work' = work \/ (k \in inTxn /\ work' = [work EXCEPT ![k] = @ \cup {q}]))
        \/ inTxn' = inTxn \ {k} /\ undone' = undone \cup {q} /\ work' = [work EXCEPT ![k] = {}]
    BY DEF QueryEnds, QueryDone, QueryFails, QueryRolledBack, serverVars
  <2> QED
    BY <1>1, <1>5, <1>6, <2>1

LEMMA EndKeepsOrder ==
    ASSUME IInv, AInv, OpenUntilUndone, AskedInOrder, ServedInOrder,
           NEW e \in enders, EndDone(e) \/ EndFails(e)
    PROVE  OpenUntilUndone' /\ AskedInOrder' /\ ServedInOrder'
<1> DEFINE k == e.conn
<1>1. /\ e.txn \in Txn /\ k \in Conn /\ NoTxn \notin Txn /\ undone \subseteq Query
      /\ holder \in [Conn -> Txn \cup {NoTxn}] /\ work \in [Conn -> SUBSET Query]
      /\ outbox \in Seq(Response) /\ EndOf(e.txn) \in Request /\ EndOf(e.txn)[1] = "endTransaction"
  <2>1. e \in Ender
    BY DEF IInv, TypeOK
  <2> QED
    BY <2>1, RequestParts DEF Ender, IInv, TypeOK, StartTransactionAssumption
<1>2. /\ UNCHANGED <<connOf, asked, open, inbox, starting, running, undone>>
      /\ holder' = [holder EXCEPT ![k] = NoTxn] /\ work' = [work EXCEPT ![k] = {}]
      /\ inTxn' = inTxn \ {k}
      /\ UNCHANGED outbox \/ \E ok \in BOOLEAN : Respond(EndOf(e.txn), ok, NoConn)
  BY DEF EndDone, EndFails, EndHandler, Dispose, parentVars
<1>3. /\ \A l \in Conn : holder'[l] = IF l = k THEN NoTxn ELSE holder[l]
      /\ \A l \in Conn : work'[l] = IF l = k THEN {} ELSE work[l]
  BY <1>1, <1>2
<1>4. \A i \in DOMAIN outbox' : Kind(outbox'[i]) = "beginTransaction" /\ outbox'[i].ok =>
          \E j \in DOMAIN outbox : outbox[j] = outbox'[i]
  BY <1>1, <1>2, AnswerKeepsOpen
<1>5. AskedInOrder' /\ ServedInOrder'
  BY <1>2, MailNumbered, OrderKept
<1>6. OpenUntilUndone'
  <2>1. \A l \in Conn : l \notin inTxn' => work'[l] = {}
    BY <1>2, <1>3 DEF OpenUntilUndone
  <2>2. \A l \in Conn : holder'[l] # NoTxn /\ connOf'[holder'[l]] # NoConn =>
            l \in inTxn' \/ Undone(holder[l])'
    BY <1>2, <1>3 DEF OpenUntilUndone, Undone
  <2>3. \A j \in DOMAIN outbox : TxnOf(outbox[j]) # NoTxn
    BY <1>1, ResponseShape
  <2>4. \A i \in DOMAIN outbox' : Kind(outbox'[i]) = "beginTransaction" /\ outbox'[i].ok =>
            \A l \in Conn : holder'[l] = TxnOf(outbox'[i]) => l \in inTxn' \/ Undone(holder[l])'
    BY <1>2, <1>3, <1>4, <2>3 DEF OpenUntilUndone, Undone
  <2>5. \A q \in undone' : /\ connOf'[q[1]] # NoConn
                           /\ \A l \in Conn : holder'[l] = q[1] => l \notin inTxn' \cup starting'
    <3>1. \A q \in undone : q[1] # NoTxn
      BY <1>1 DEF Query
    <3> QED
      BY <1>2, <1>3, <3>1 DEF OpenUntilUndone
  <2> QED
    BY <2>1, <2>2, <2>4, <2>5 DEF OpenUntilUndone
<1> QED
  BY <1>5, <1>6

LEMMA WorkerDiesKeepsOrder ==
    ASSUME IInv, OpenUntilUndone, AskedInOrder, ServedInOrder, WorkerDies
    PROVE  OpenUntilUndone' /\ AskedInOrder' /\ ServedInOrder'
<1>1. /\ UNCHANGED <<connOf, asked, open, outbox, undone>> /\ inbox' = <<>> /\ inTxn' = {} /\ starting' = {}
      /\ \A l \in Conn : holder'[l] = NoTxn /\ running'[l] = {} /\ work'[l] = {}
  BY DEF WorkerDies, parentVars
<1>2. AskedInOrder' /\ ServedInOrder'
  <2>1. DOMAIN inbox' = {}
    BY <1>1
  <2> QED
    BY <1>1, <2>1, OrderKept
<1>3. OpenUntilUndone'
  <2>1. \A j \in DOMAIN outbox : TxnOf(outbox[j]) # NoTxn
    BY ResponseShape DEF IInv, TypeOK, StartTransactionAssumption
  <2> QED
    BY <1>1, <2>1 DEF OpenUntilUndone
<1> QED
  BY <1>2, <1>3

LEMMA NextKeepsOrder ==
    ASSUME IInv, AInv, OpenUntilUndone, AskedInOrder, ServedInOrder, [Next]_vars
    PROVE  OpenUntilUndone' /\ AskedInOrder' /\ ServedInOrder'
<1> DEFINE Kept == OpenUntilUndone' /\ AskedInOrder' /\ ServedInOrder'
<1> SUFFICES Kept
  OBVIOUS
<1>1. CASE SeeExit \/ UNCHANGED vars
  <2>1. UNCHANGED <<connOf, asked, open, inbox, outbox, running, starting, holder, inTxn, work, undone>>
    BY <1>1 DEF SeeExit, vars, workerVars, serverVars
  <2>2. AskedInOrder' /\ ServedInOrder'
    BY <2>1, MailNumbered, OrderKept
  <2> QED
    BY <2>1, <2>2, OpenKept
<1>2. ASSUME NEW t \in Txn, StartTransaction(t) PROVE Kept
  BY <1>2, StartTransactionKeepsOrder
<1>3. ASSUME NEW t \in Txn, Timeout(t) PROVE Kept
  <2>1. FALSE \in BOOLEAN /\ Finalize(t, FALSE) /\ phase[t] = "running"
        /\ UNCHANGED <<connOf, asked, outbox, workerVars, serverVars>>
    BY <1>3 DEF Timeout
  <2> DEFINE commit == FALSE
  <2>2. commit \in BOOLEAN /\ Finalize(t, commit)
    BY <2>1
  <2> HIDE DEF commit
  <2> QED
    BY <2>1, <2>2, FinalizeKeepsOrder
<1>4. ASSUME NEW t \in Txn, NEW commit \in BOOLEAN, CallbackEnds(t, commit) PROVE Kept
  <2>1. /\ phase[t] = "running" /\ (Finalize(t, commit) \/ UNCHANGED <<open, inbox>>)
        /\ UNCHANGED <<connOf, asked, outbox, workerVars, serverVars>>
    BY <1>4 DEF CallbackEnds
  <2> QED
    BY <2>1, FinalizeKeepsOrder
<1>5. ASSUME NEW q \in Query, QueryFn(q) PROVE Kept
  BY <1>5, QueryFnKeepsOrder
<1>6. CASE Deliver
  BY <1>6, DeliverKeepsOrder
<1>7. ASSUME NEW r \in open, Synthesize(r) PROVE Kept
  <2> DEFINE ok == FALSE
  <2>1. /\ ok \in BOOLEAN /\ ~ok /\ Resume(r, ok, NoConn) /\ open' = open \ {r}
        /\ UNCHANGED <<inbox, outbox, workerVars, serverVars>>
    BY <1>7 DEF Synthesize
  <2> HIDE DEF ok
  <2> QED
    BY <2>1, ResumeKeepsOrder
<1>8. CASE Take
  BY <1>8, TakeKeepsOrder
<1>9. ASSUME NEW t \in Txn, NEW k \in Conn, Acquire(t, k) PROVE Kept
  BY <1>9, AcquireKeepsOrder
<1>10. ASSUME NEW t \in Txn, AcquireFails(t) PROVE Kept
  BY <1>10, BeginStepsKeepOrder
<1>11. ASSUME NEW k \in Conn, BeginDone(k) \/ BeginFails(k) PROVE Kept
  BY <1>11, BeginStepsKeepOrder
<1>12. ASSUME NEW k \in Conn, NEW q \in running[k], QueryEnds(k, q) PROVE Kept
  BY <1>12, QueryEndsKeepsOrder
<1>13. ASSUME NEW e \in enders, EndDone(e) \/ EndFails(e) PROVE Kept
  BY <1>13, EndKeepsOrder
<1>14. CASE WorkerDies
  BY <1>14, WorkerDiesKeepsOrder
<1> HIDE DEF Kept
<1> QED
  BY <1>1, <1>2, <1>3, <1>4, <1>5, <1>6, <1>7, <1>8, <1>9, <1>10, <1>11, <1>12, <1>13, <1>14 DEF Next

\* What makes a transaction broken stays.
LEMMA BrokenWhen ==
    ASSUME IInv, NEW p \in undone,
           verdict[p[1]] \/ \E q \in Query : q[1] = p[1] /\ p[2] < q[2] /\ asked[q] # "new"
    PROVE  p[1] \in Broken
<1>1. p \in Query /\ p[1] \in Txn
  BY DEF IInv, TypeOK, Query
<1>2. \A q \in Query : q[1] = p[1] => q \in Of(p[1])
  BY DEF Query, Of
<1>3. \A q \in Query : p[2] < q[2] => q[2] > p[2]
  BY <1>1 DEF Query
<1>4. verdict[p[1]] \/ \E q \in Of(p[1]) : q[2] > p[2] /\ asked[q] # "new"
  BY <1>2, <1>3
<1>5. p \in undone \cap Of(p[1])
  BY <1>1, <1>2
<1> QED
  BY <1>1, <1>4, <1>5 DEF Broken

LEMMA BrokenGrows ==
    ASSUME IInv, AInv, RInv, [Next]_vars
    PROVE  /\ undone \subseteq undone' /\ Broken \subseteq Broken'
           /\ \A p \in undone' : p \in undone \/ \A q \in durable : q[1] # p[1]
<1>1. /\ undone \subseteq undone'
      /\ \A p \in undone' : p \in undone \/ \A q \in durable : q[1] # p[1]
  <2>1. ASSUME NEW k \in Conn, NEW q \in running[k], QueryRolledBack(k, q)
        PROVE  /\ undone \subseteq undone'
               /\ \A p \in undone' : p \in undone \/ \A d \in durable : d[1] # p[1]
    <3>1. q[1] = holder[k] /\ k \in inTxn /\ undone' = undone \cup {q}
      BY <2>1 DEF AInv, OwnHere, QueryRolledBack
    <3>2. ~Undone(q[1])
      BY <3>1 DEF RInv, OpenUntilUndone, Undone
    <3>3. \A d \in durable : d[1] # q[1]
      BY <3>1, <3>2 DEF AInv, WorkInProgress
    <3> QED
      BY <3>1, <3>3
  <2>2. undone' = undone \/ \E k \in Conn : \E q \in running[k] : QueryRolledBack(k, q)
    BY DEF Next, vars, serverVars, StartTransaction, Timeout, QueryFn, CallbackEnds, Deliver,
           Synthesize, SeeExit, Take, AcquireFails, Acquire, BeginDone, BeginFails, QueryEnds,
           QueryDone, QueryFails, EndDone, EndFails, EndHandler, WorkerDies
  <2> QED
    BY <2>1, <2>2
<1>2. \A q \in Query : asked[q] # "new" => asked'[q] # "new"
  <2>1. ASSUME NEW q \in Query, QueryFn(q)
        PROVE  \A p \in Query : asked[p] # "new" => asked'[p] # "new"
    <3>1. asked[q] = "new" /\ \E end : asked' = [asked EXCEPT ![q] = end]
      BY <2>1 DEF QueryFn
    <3> QED
      BY <3>1 DEF IInv, TypeOK
  <2>2. ASSUME NEW r \in open, NEW ok, NEW k, Resume(r, ok, k)
        PROVE  \A p \in Query : asked[p] # "new" => asked'[p] # "new"
    BY <2>2, ResumeKeepsAsked DEF RInv
  <2>3. \/ asked' = asked
        \/ \E q \in Query : QueryFn(q)
        \/ \E r \in open : \E ok, k : Resume(r, ok, k)
    BY DEF Next, vars, parentVars, StartTransaction, Timeout, CallbackEnds, Deliver,
           Synthesize, SeeExit, Take, AcquireFails, Acquire, BeginDone, BeginFails, QueryEnds, Answered,
           QueryDone, QueryFails, QueryRolledBack, EndDone, EndFails, EndHandler, WorkerDies
  <2> QED
    BY <2>1, <2>2, <2>3
<1>3. \A t \in Txn : verdict[t] => verdict'[t]
  <2>1. ASSUME NEW t \in Txn, NEW commit \in BOOLEAN, CallbackEnds(t, commit)
        PROVE  \A s \in Txn : verdict[s] => verdict'[s]
    <3>1. ~verdict[t] /\ (verdict' = verdict \/ verdict' = [verdict EXCEPT ![t] = commit])
      BY <2>1 DEF CallbackEnds, AInv, EndsInOrder
    <3> QED
      BY <3>1 DEF IInv, TypeOK
  <2>2. verdict' = verdict \/ \E t \in Txn, commit \in BOOLEAN : CallbackEnds(t, commit)
    BY DEF Next, vars, parentVars, StartTransaction, Timeout, QueryFn, Deliver,
           Synthesize, SeeExit, Take, AcquireFails, Acquire, BeginDone, BeginFails, QueryEnds, Answered,
           QueryDone, QueryFails, QueryRolledBack, EndDone, EndFails, EndHandler, WorkerDies
  <2> QED
    BY <2>1, <2>2
<1>4. Broken \subseteq Broken'
  <2>1. \A t \in Txn : Of(t) \subseteq Query
    BY DEF Of, Query
  <2> QED
    BY <1>1, <1>2, <1>3, <2>1 DEF Broken
<1> QED
  BY <1>1, <1>4

LEMMA NextOnlyBroken ==
    ASSUME IInv, AInv, RInv, [Next]_vars
    PROVE  OnlyBroken'
<1> SUFFICES ASSUME NEW q \in durable', Undone(q[1])'
             PROVE  q[1] \in Broken'
  BY DEF OnlyBroken
<1>1. CASE q \in durable
  <2>1. Undone(q[1])
    BY <1>1, BrokenGrows DEF Undone
  <2> QED
    BY <1>1, <2>1, BrokenGrows DEF RInv, OnlyBroken
<1>2. ASSUME q \notin durable, NEW k \in Conn, NEW r \in running[k], QueryDone(k, r)
      PROVE  q[1] \in Broken'
  <2>1. q = r /\ k \notin inTxn
    BY <1>2 DEF QueryDone
  <2>2. q \in Query /\ q[1] = holder[k] /\ holder[k] # NoTxn /\ connOf[holder[k]] # NoConn
    BY <2>1 DEF AInv, OwnHere, IInv, TypeOK, Query, StartTransactionAssumption
  <2>3. PICK p \in undone : p[1] = q[1]
    BY <2>1, <2>2 DEF RInv, OpenUntilUndone, Undone
  <2>4. p[2] < q[2] /\ asked[q] # "new"
    BY <2>1, <2>3 DEF RInv, ServedInOrder, AskedInOrder, Before
  <2>5. p[1] \in Broken
    BY <2>2, <2>3, <2>4, BrokenWhen
  <2> QED
    BY <2>3, <2>5, BrokenGrows
<1>3. ASSUME NEW k \in Conn, q \in work[k], verdict[holder[k]], undone' = undone
      PROVE  q[1] \in Broken'
  <2>1. q[1] = holder[k]
    BY <1>3 DEF AInv, OwnHere
  <2>2. PICK p \in undone : p[1] = q[1]
    BY <1>3 DEF Undone
  <2>3. p[1] \in Broken
    BY <1>3, <2>1, <2>2, BrokenWhen
  <2> QED
    BY <2>2, <2>3, BrokenGrows
<1>4. ASSUME q \notin durable, NEW e \in enders, EndDone(e) \/ EndFails(e)
      PROVE  q[1] \in Broken'
  <2>1. e.conn \in Conn /\ holder[e.conn] = e.txn /\ e.commit = verdict[e.txn]
    BY DEF IInv, TypeOK, Ender, EndersHave, AInv, CommitsOnVerdict
  <2>2. q \in work[e.conn] /\ e.commit /\ undone' = undone
    BY <1>4 DEF EndDone, EndFails, EndHandler
  <2> QED
    BY <1>3, <2>1, <2>2
<1>5. ASSUME q \notin durable, WorkerDies
      PROVE  q[1] \in Broken'
  <2>1. PICK e \in enders : e.commit /\ q \in work[e.conn]
    BY <1>5 DEF WorkerDies
  <2>2. e.conn \in Conn /\ holder[e.conn] = e.txn /\ e.commit = verdict[e.txn]
    BY DEF IInv, TypeOK, Ender, EndersHave, AInv, CommitsOnVerdict
  <2>3. undone' = undone
    BY <1>5 DEF WorkerDies
  <2> QED
    BY <1>3, <2>1, <2>2, <2>3
<1>6. \/ durable' = durable
      \/ \E k \in Conn : \E r \in running[k] : QueryDone(k, r)
      \/ \E e \in enders : EndDone(e) \/ EndFails(e)
      \/ WorkerDies
  BY DEF Next, vars, serverVars, StartTransaction, Timeout, QueryFn, CallbackEnds, Deliver,
         Synthesize, SeeExit, Take, AcquireFails, Acquire, BeginDone, BeginFails, QueryEnds,
         QueryFails, QueryRolledBack
<1> QED
  BY <1>1, <1>2, <1>4, <1>5, <1>6

LEMMA InitRInv == Init => RInv
<1> SUFFICES ASSUME Init PROVE RInv
  OBVIOUS
<1>1. /\ inbox = <<>> /\ outbox = <<>> /\ undone = {} /\ durable = {} /\ open = {}
      /\ \A k \in Conn : holder[k] = NoTxn /\ running[k] = {} /\ work[k] = {}
      /\ \A q \in Query : asked[q] = "new"
  BY DEF Init
<1>2. DOMAIN inbox = {} /\ DOMAIN outbox = {}
  BY <1>1
<1> QED
  BY <1>1, <1>2 DEF RInv, OpenUntilUndone, AskedInOrder, ServedInOrder, OnlyBroken

LEMMA AllHold == ASSUME "stray" \notin Faults PROVE SafeSpec => [](IInv /\ AInv /\ RInv)
<1>1. Init => IInv /\ AInv /\ RInv
  BY InitIInv, InitAInv, InitRInv
<1>2. IInv /\ AInv /\ RInv /\ [Next]_vars => (IInv /\ AInv /\ RInv)'
  BY NextIInv, NextAInv, NextKeepsOrder, NextOnlyBroken DEF RInv
<1> QED
  BY <1>1, <1>2, PTL DEF SafeSpec

\* A connection carries the statements of the transaction that holds it and
\* of no other, as long as no callback outlives its transaction: run
\* start_stray shows what one that does can write into.
THEOREM WorksForItself == ASSUME "stray" \notin Faults PROVE SafeSpec => []OwnWorkOnly
<1>1. IInv /\ AInv => OwnWorkOnly
  <2> SUFFICES ASSUME IInv, AInv, NEW k \in Conn, NEW q \in running[k] \cup work[k]
               PROVE  q \in Of(holder[k])
    BY DEF OwnWorkOnly
  <2>1. q \in Query /\ q[1] = holder[k]
    BY DEF IInv, AInv, TypeOK, OwnHere
  <2> QED
    BY <2>1 DEF Query, Of
<1> QED
  BY <1>1, AllHold, PTL

\* Whatever fails or times out, however the commits of one worker are cut
\* short by its exit, and whenever the server rolls back by itself, the
\* statements of a transaction are durable together or not at all; and none
\* is after such a rollback, unless the callback went on past it.
THEOREM Atomic == ASSUME "stray" \notin Faults PROVE SafeSpec => []AllOrNothing
<1>1. IInv /\ AInv /\ RInv => AllOrNothing
  <2> SUFFICES ASSUME IInv, AInv, RInv, NEW t \in Txn, t \notin Broken, durable \cap Of(t) # {}
               PROVE  durable \cap Of(t) = applied \cap Of(t) /\ undone \cap Of(t) = {}
    BY DEF AllOrNothing
  <2>1. \A q \in Of(t) : q[1] = t
    BY DEF Of
  <2>2. PICK d \in durable : d \in Of(t)
    OBVIOUS
  <2>3. ~Undone(t)
    BY <2>1, <2>2 DEF RInv, OnlyBroken
  <2>4. durable \cap Of(t) = applied \cap Of(t)
    BY <2>1, <2>2, <2>3 DEF AInv, Whole, WorkInProgress
  <2>5. undone \cap Of(t) = {}
    BY <2>1, <2>3 DEF Undone
  <2> QED
    BY <2>4, <2>5
<1> QED
  BY <1>1, AllHold, PTL

\* With mysql_start_transaction_propagate_errors a "true" is the server's
\* word: each query whose result the callback has seen is committed, unless
\* the server had rolled the transaction back and the callback went on.
THEOREM TrueKept == ASSUME "stray" \notin Faults PROVE SafeSpec => []TrueIsDurable
<1>1. IInv /\ AInv => TrueIsDurable
  <2> SUFFICES ASSUME IInv, AInv, Propagate, NEW q \in Query, q[1] \notin Broken,
                      told[q[1]] = "true", asked[q] = "ok"
               PROVE  q \in durable
    BY DEF TrueIsDurable
  <2>1. q[1] \in Txn /\ q \in applied /\ verdict[q[1]]
    BY DEF Query, AInv, ResultsTrue, EndsInOrder
  <2>2. Sealed(q[1])
    BY <2>1 DEF AInv, ResultsTrue
  <2>3. ~Undone(q[1])
    BY <2>1, BrokenWhen DEF Undone
  <2> QED
    BY <2>1, <2>2, <2>3 DEF Sealed
<1> QED
  BY <1>1, AllHold, PTL

-----------------------------------------------------------------------------
(* TransactionOutcome *)

\* What TransactionOutcome sees as durable.
Kept == {q \in durable : q[1] \notin Broken}

\* A transaction that breaks has nothing durable yet.
LEMMA KeptGrows ==
    ASSUME IInv, AInv, RInv, [Next]_vars
    PROVE  Kept \subseteq Kept' /\ (durable' = durable => Kept' = Kept)
<1>1. durable \subseteq durable'
  BY DEF Next, vars, serverVars, StartTransaction, Timeout, QueryFn, CallbackEnds, Deliver,
         Synthesize, SeeExit, Take, AcquireFails, Acquire, BeginDone, BeginFails, QueryEnds,
         QueryDone, QueryFails, QueryRolledBack, EndDone, EndFails, WorkerDies
<1>2. Kept \subseteq Kept'
  <2> SUFFICES ASSUME NEW q \in Kept, q[1] \in Broken'
               PROVE  FALSE
    BY <1>1 DEF Kept
  <2>1. PICK p \in undone' : p \in Of(q[1])
    BY DEF Broken
  <2>2. p[1] = q[1] /\ q \in durable /\ q[1] \notin Broken
    BY <2>1 DEF Of, Kept
  <2>3. p \in undone
    BY <2>2, BrokenGrows
  <2> QED
    BY <2>2, <2>3 DEF RInv, OnlyBroken, Undone
<1>3. durable' = durable => Kept' \subseteq Kept
  BY BrokenGrows DEF Kept
<1> QED
  BY <1>2, <1>3

\* What a step does to what is durable and what a caller is told.
OutcomeStep ==
    \/ UNCHANGED <<durable, told>>
    \/ \E k \in Conn : \E q \in running[k] : QueryDone(k, q) /\ k \notin inTxn
    \/ durable \subseteq durable' /\ UNCHANGED <<told, applied, verdict>>
    \/ /\ UNCHANGED durable
       /\ \E t \in Txn, outcome \in {"true", "false", "threw"} :
             told[t] = "none" /\ told' = [told EXCEPT ![t] = outcome]

LEMMA ReturnIsOutcomeStep ==
    ASSUME AInv, NEW t \in Txn, phase[t] # "done", NEW outcome \in {"true", "false", "threw"},
           Return(t, outcome), UNCHANGED durable, told \in [Txn -> {"none", "true", "false", "threw"}]
    PROVE  OutcomeStep
<1>1. told[t] = "none"
  BY DEF AInv, EndsInOrder
<1> QED
  BY <1>1 DEF Return, OutcomeStep

LEMMA ResumeIsOutcomeStep ==
    ASSUME IInv, AInv, NEW r \in open, NEW ok \in BOOLEAN, NEW k, Resume(r, ok, k), UNCHANGED durable
    PROVE  OutcomeStep
<1> DEFINE t == r[2]
<1>1. r \in Request /\ t \in Txn /\ told \in [Txn -> {"none", "true", "false", "threw"}]
  BY RequestShape DEF IInv, TypeOK
<1>2. CASE UNCHANGED told
  BY <1>2 DEF OutcomeStep
<1>3. CASE r = BeginOf(t) /\ Return(t, BeginFailed)
  <2>1. phase[t] = "beginning"
    BY <1>1, <1>3 DEF IInv, ConnFollowsPhase
  <2> QED
    BY <1>1, <1>3, <2>1, ReturnIsOutcomeStep DEF BeginFailed
<1>4. CASE /\ r = EndOf(t) /\ t \notin aborted
           /\ Return(t, IF ~ok THEN "threw" ELSE IF verdict[t] THEN "true" ELSE "false")
  <2>1. phase[t] = "ending"
    BY <1>1, <1>4 DEF AInv, EndsInOrder
  <2> QED
    BY <1>1, <1>4, <2>1, ReturnIsOutcomeStep
<1> QED
  BY <1>1, <1>2, <1>3, <1>4 DEF Resume

LEMMA NextIsOutcomeStep == IInv /\ AInv /\ [Next]_vars => OutcomeStep
<1> SUFFICES ASSUME IInv, AInv, [Next]_vars PROVE OutcomeStep
  OBVIOUS
<1>1. told \in [Txn -> {"none", "true", "false", "threw"}]
  BY DEF IInv, TypeOK
<1>2. ASSUME NEW t \in Txn, StartTransaction(t) PROVE OutcomeStep
  <2>1. UNCHANGED durable /\ phase[t] # "done" /\ (UNCHANGED told \/ Return(t, BeginFailed))
    BY <1>2 DEF StartTransaction, serverVars
  <2>2. CASE UNCHANGED told
    BY <2>1, <2>2 DEF OutcomeStep
  <2> QED
    BY <1>1, <2>1, <2>2, ReturnIsOutcomeStep DEF BeginFailed
<1>3. ASSUME NEW t \in Txn, NEW commit \in BOOLEAN, CallbackEnds(t, commit) PROVE OutcomeStep
  <2>1. /\ UNCHANGED durable /\ phase[t] # "done"
        /\ \/ UNCHANGED told
           \/ \E outcome \in {"true", "false", "threw"} : Return(t, outcome)
    BY <1>3 DEF CallbackEnds, serverVars
  <2>2. CASE UNCHANGED told
    BY <2>1, <2>2 DEF OutcomeStep
  <2> QED
    BY <1>1, <2>1, <2>2, ReturnIsOutcomeStep
<1>4. CASE Deliver
  <2>1. Head(outbox) \in Response
    BY <1>4, Shifted DEF Deliver, IInv, TypeOK
  <2>2. Head(outbox).ok \in BOOLEAN /\ UNCHANGED durable
    BY <1>4, <2>1 DEF Deliver, Response, serverVars
  <2>3. CASE UNCHANGED told
    BY <2>2, <2>3 DEF OutcomeStep
  <2> QED
    BY <1>4, <2>2, <2>3, ResumeIsOutcomeStep DEF Deliver
<1>5. ASSUME NEW r \in open, Synthesize(r) PROVE OutcomeStep
  BY <1>5, ResumeIsOutcomeStep DEF Synthesize, serverVars
<1>6. CASE \/ \E t \in Txn : Timeout(t)
           \/ \E q \in Query : QueryFn(q)
           \/ SeeExit \/ Take \/ UNCHANGED vars
           \/ \E t \in Txn : AcquireFails(t) \/ \E k \in Conn : Acquire(t, k)
           \/ \E k \in Conn : BeginDone(k) \/ BeginFails(k)
  BY <1>6 DEF Timeout, QueryFn, SeeExit, Take, vars, AcquireFails, Acquire, BeginDone, BeginFails,
              parentVars, serverVars, OutcomeStep
<1>7. ASSUME NEW k \in Conn, NEW q \in running[k], QueryEnds(k, q)
      PROVE  OutcomeStep
  <2>1. UNCHANGED <<durable, told>> \/ (QueryDone(k, q) /\ k \notin inTxn)
    BY <1>7 DEF QueryEnds, QueryDone, QueryFails, QueryRolledBack, Answered, parentVars, serverVars
  <2> QED
    BY <2>1 DEF OutcomeStep
<1>8. ASSUME NEW e \in enders, EndDone(e) \/ EndFails(e) PROVE OutcomeStep
  <2>1. durable \subseteq durable' /\ UNCHANGED <<parentVars, applied>>
    BY <1>8 DEF EndDone, EndFails, EndHandler
  <2> QED
    BY <2>1 DEF parentVars, OutcomeStep
<1>9. CASE WorkerDies
  BY <1>9 DEF WorkerDies, parentVars, OutcomeStep
<1> QED
  BY <1>2, <1>3, <1>4, <1>5, <1>6, <1>7, <1>8, <1>9 DEF Next

\* startTransaction implements TransactionOutcome: one commit, of everything,
\* never after a "false", and one answer to the caller, for every transaction
\* whose callback does not go on past a rollback by the server.
THEOREM OutcomeImplemented == ASSUME "stray" \notin Faults PROVE SafeSpec => ImplementsOutcome
<1>1. Init => Outcome!Init
  BY DEF Init, Outcome!Init
<1>2. ASSUME IInv, AInv, RInv, IInv', AInv', RInv', [Next]_vars
      PROVE  Outcome!Next \/ UNCHANGED Outcome!vars
  <2>1. OutcomeStep /\ Kept \subseteq Kept' /\ (durable' = durable => Kept' = Kept)
    BY <1>2, NextIsOutcomeStep, KeptGrows
  <2>2. CASE Kept' = Kept /\ UNCHANGED told
    BY <2>2 DEF Outcome!vars, Kept
  <2>3. CASE durable \subseteq durable' /\ UNCHANGED <<told, applied, verdict>>
    <3>1. Kept' \in SUBSET Query
      BY <1>2 DEF IInv, TypeOK, Kept
    <3>2. ASSUME NEW t \in Txn, Kept' \cap Of(t) # Kept \cap Of(t)
          PROVE  Kept \cap Of(t) = {} /\ told[t] # "false"
      <4>1. \A q \in Of(t) : q[1] = t
        BY DEF Of
      <4>2. PICK q \in Kept' : q \in Of(t) /\ q \notin Kept
        BY <2>1, <3>2
      <4>3. q \in durable' /\ t \notin Broken'
        BY <4>1, <4>2 DEF Kept
      <4>4. ~Undone(t)' /\ ~Undone(t)
        BY <1>2, <4>1, <4>2, <4>3, BrokenGrows DEF RInv, OnlyBroken, Undone
      <4>5. q \in applied /\ verdict[t] /\ q \notin durable
        <5>1. q \in applied' /\ verdict'[t]
          BY <1>2, <4>1, <4>2, <4>3, <4>4 DEF AInv, WorkInProgress, CommitsOnVerdict
        <5>2. t \notin Broken
          BY <1>2, <4>3, BrokenGrows
        <5> QED
          BY <2>3, <4>1, <4>2, <5>1, <5>2 DEF Kept
      <4>6. \A p \in durable : p[1] # t
        BY <1>2, <4>1, <4>2, <4>4, <4>5 DEF AInv, Whole
      <4> QED
        BY <1>2, <4>1, <4>5, <4>6 DEF AInv, EndsInOrder, Kept
    <3>3. Outcome!Commit
      BY <2>1, <2>3, <3>1, <3>2 DEF Outcome!Commit, Outcome!Written, Kept
    <3> QED
      BY <3>3 DEF Outcome!Next
  <2>4. CASE \E k \in Conn : \E q \in running[k] : QueryDone(k, q) /\ k \notin inTxn
    <3> PICK k \in Conn : \E q \in running[k] : QueryDone(k, q) /\ k \notin inTxn
      BY <2>4
    <3>1. PICK q \in running[k] : QueryDone(k, q) /\ k \notin inTxn
      OBVIOUS
    <3>2. durable' = durable \cup {q} /\ UNCHANGED <<told, undone>>
      BY <3>1 DEF QueryDone, Answered, parentVars
    <3>3. q[1] = holder[k] /\ holder[k] # NoTxn /\ connOf[holder[k]] # NoConn
      BY <1>2 DEF AInv, OwnHere, IInv, TypeOK, Query, StartTransactionAssumption
    <3>4. Undone(q[1])'
      BY <1>2, <3>1, <3>2, <3>3 DEF RInv, OpenUntilUndone, Undone
    <3>5. q[1] \in Broken'
      BY <1>2, <3>2, <3>4 DEF RInv, OnlyBroken
    <3>6. Kept' = Kept
      BY <1>2, <2>1, <3>2, <3>5, BrokenGrows DEF Kept
    <3> QED
      BY <2>2, <3>2, <3>6
  <2>5. CASE /\ UNCHANGED durable
             /\ \E t \in Txn, outcome \in {"true", "false", "threw"} :
                   told[t] = "none" /\ told' = [told EXCEPT ![t] = outcome]
    <3>1. PICK t \in Txn, outcome \in {"true", "false", "threw"} :
             told[t] = "none" /\ told' = [told EXCEPT ![t] = outcome]
      BY <2>5
    <3>2. Kept' = Kept
      BY <2>1, <2>5
    <3>3. outcome = "false" => Kept \cap Of(t) = {}
      <4>1. told'[t] = outcome
        BY <1>2, <3>1 DEF IInv, TypeOK
      <4>2. outcome = "false" => ~verdict'[t]
        BY <1>2, <4>1 DEF AInv, EndsInOrder
      <4>3. \A q \in Kept' : verdict'[q[1]]
        BY <1>2 DEF AInv, CommitsOnVerdict, RInv, OnlyBroken, Kept
      <4> QED
        BY <3>2, <4>2, <4>3 DEF Of
    <3>4. Outcome!Tell(t)
      BY <3>1, <3>2, <3>3 DEF Outcome!Tell, Outcome!Written, Kept
    <3> QED
      BY <3>4 DEF Outcome!Next
  <2> QED
    BY <2>1, <2>2, <2>3, <2>4, <2>5 DEF OutcomeStep
<1> QED
  BY <1>1, <1>2, AllHold, PTL DEF SafeSpec, ImplementsOutcome, Outcome!Spec
================================================================================
