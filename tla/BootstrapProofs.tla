----------------------------- MODULE BootstrapProofs ----------------------------
(***************************************************************************)
(* Proofs about Bootstrap for every set of queries and configurations,     *)
(* every number of initialize messages, convar changes and outages of the  *)
(* database, with and without a password in the connection string.         *)
(***************************************************************************)
EXTENDS Bootstrap, FiniteSetTheorems, TLAPS

Distinct(s) == \A i, j \in DOMAIN s : s[i] = s[j] => i = j

\* A worker that is gone has nothing left to read or to poll.
DownIsEmpty == ~workerUp => inbox = <<>> /\ pollers = <<>>

Reconfigures(m) == m.action \in {"initialize", "updateConfig"}

\* Unless the worker has the parent's configuration and will keep it, the
\* last message that changes its configuration brings that one.
ConfigDue ==
    boots > 0 /\ workerUp =>
        \/ config = convars /\ \A i \in DOMAIN inbox : ~Reconfigures(inbox[i])
        \/ \E i \in DOMAIN inbox : /\ inbox[i].action = "updateConfig"
                                   /\ inbox[i].config = convars
                                   /\ \A j \in DOMAIN inbox : j > i => ~Reconfigures(inbox[j])

\* A query is in one place: in the mail, polling, or given to the pool.
MailOnce ==
    /\ \A i \in DOMAIN inbox : inbox[i].action = "query" =>
          inbox[i].query \in SeqSet(asked) \ (SeqSet(pollers) \cup SeqSet(ran))
    /\ \A i, j \in DOMAIN inbox :
          inbox[i].action = "query" /\ inbox[j].action = "query" /\ inbox[i].query = inbox[j].query
          => i = j
PlacesApart ==
    /\ SeqSet(pollers) \cup SeqSet(ran) \subseteq SeqSet(asked)
    /\ SeqSet(pollers) \cap SeqSet(ran) = {}
    /\ Distinct(pollers) /\ Distinct(ran)

\* What says that there is a pool, or used it, says so because there is one.
PoolFirst == ran # <<>> \/ outbox # <<>> \/ isReady \/ awaiting = "resolved" => pool # "null"

Inv == TypeOK /\ DownIsEmpty /\ ConfigDue /\ MailOnce /\ PlacesApart /\ PoolFirst

USE BootstrapAssumption

-----------------------------------------------------------------------------
(* Sequences *)

LEMMA AppendKeepsDistinct ==
    ASSUME NEW S, NEW s \in Seq(S), NEW x \in S, Distinct(s), x \notin SeqSet(s)
    PROVE  /\ Append(s, x) \in Seq(S) /\ Append(s, x) # <<>>
           /\ Distinct(Append(s, x)) /\ SeqSet(Append(s, x)) = SeqSet(s) \cup {x}
<1> DEFINE a == Append(s, x)
<1>1. /\ a \in Seq(S) /\ a # <<>> /\ DOMAIN a = DOMAIN s \cup {Len(s) + 1}
      /\ a[Len(s) + 1] = x /\ \A i \in DOMAIN s : i < Len(s) + 1 /\ a[i] = s[i]
  OBVIOUS
<1> HIDE DEF a
<1>2. Distinct(a)
  BY <1>1 DEF Distinct, SeqSet
<1>3. SeqSet(a) = SeqSet(s) \cup {x}
  BY <1>1 DEF SeqSet
<1> QED
  BY <1>1, <1>2, <1>3 DEF a

LEMMA TailKeepsDistinct ==
    ASSUME NEW S, NEW s \in Seq(S), s # <<>>, Distinct(s)
    PROVE  /\ Tail(s) \in Seq(S) /\ Head(s) \in S
           /\ Distinct(Tail(s)) /\ SeqSet(Tail(s)) = SeqSet(s) \ {Head(s)} /\ Head(s) \in SeqSet(s)
<1> DEFINE r == Tail(s)
<1>1. /\ r \in Seq(S) /\ 1 \in DOMAIN s /\ Head(s) = s[1] /\ s[1] \in S
      /\ \A i \in DOMAIN r : i \in Nat /\ i > 0 /\ i + 1 \in DOMAIN s /\ r[i] = s[i + 1]
      /\ \A i \in DOMAIN s : i \in Nat /\ (i # 1 => i - 1 \in DOMAIN r /\ r[i - 1] = s[i])
  OBVIOUS
<1> HIDE DEF r
<1>2. Distinct(r)
  BY <1>1 DEF Distinct
<1>3. ASSUME NEW x \in SeqSet(r) PROVE x \in SeqSet(s) \ {Head(s)}
  <2>1. PICK i \in DOMAIN r : x = r[i]
    BY DEF SeqSet
  <2>2. i + 1 # 1 /\ i + 1 \in DOMAIN s /\ x = s[i + 1]
    BY <1>1, <2>1
  <2> QED
    BY <1>1, <2>2 DEF SeqSet, Distinct
<1>4. ASSUME NEW x \in SeqSet(s) \ {Head(s)} PROVE x \in SeqSet(r)
  <2>1. PICK i \in DOMAIN s : x = s[i]
    BY DEF SeqSet
  <2>2. i # 1
    BY <1>1, <2>1
  <2> QED
    BY <1>1, <2>1, <2>2 DEF SeqSet
<1>5. Head(s) \in SeqSet(s)
  BY <1>1 DEF SeqSet
<1> QED
  BY <1>1, <1>2, <1>3, <1>4, <1>5 DEF r

\* As many elements as entries.
LEMMA DistinctCounts ==
    ASSUME NEW S, NEW s \in Seq(S), Distinct(s)
    PROVE  Len(s) = Cardinality(SeqSet(s))
<1>1. s \in [1 .. Len(s) -> SeqSet(s)] /\ Len(s) \in Nat /\ DOMAIN s = 1 .. Len(s)
  BY DEF SeqSet
<1>2. s \in Bijection(1 .. Len(s), SeqSet(s))
  BY <1>1 DEF Distinct, SeqSet, Bijection, Injection, Surjection, IsInjective
<1>3. ExistsBijection(1 .. Len(s), SeqSet(s))
  BY <1>2 DEF ExistsBijection
<1> QED
  BY <1>1, <1>3, FS_CountingElements

-----------------------------------------------------------------------------
(* The mail of the worker *)

LEMMA MessageShape ==
    ASSUME NEW m \in Message
    PROVE  /\ m.action \in {"initialize", "shutdown", "updateConfig", "query"}
           /\ m.action = "updateConfig" => m.config \in Config
           /\ m.action = "query" => m.query \in Query
  BY DEF Message

\* The entries after a post, a take, and the end of the worker.
LEMMA AfterPost ==
    ASSUME inbox \in Seq(Message), NEW msgs \in Seq(Message), Post(msgs)
    PROVE  /\ inbox' \in Seq(Message) /\ Len(inbox) \in Nat
           /\ ~workerUp => inbox' = inbox
           /\ \A i \in DOMAIN inbox : i \in DOMAIN inbox' /\ i \in Nat /\ i < Len(inbox) + 1
                                      /\ inbox'[i] = inbox[i]
           /\ \A i \in DOMAIN inbox' :
                 \/ i \in DOMAIN inbox /\ inbox'[i] = inbox[i]
                 \/ /\ i \in Nat /\ i - Len(inbox) \in DOMAIN msgs /\ inbox'[i] = msgs[i - Len(inbox)]
           /\ workerUp => \A j \in DOMAIN msgs : /\ Len(inbox) + j \in DOMAIN inbox'
                                                 /\ inbox'[Len(inbox) + j] = msgs[j]
<1>1. CASE workerUp
  <2>1. inbox' = inbox \o msgs
    BY <1>1 DEF Post
  <2> QED
    BY <1>1, <2>1
<1>2. CASE ~workerUp
  <2>1. inbox' = inbox
    BY <1>2 DEF Post
  <2> QED
    BY <1>2, <2>1
<1> QED
  BY <1>1, <1>2

LEMMA AfterTake ==
    ASSUME inbox \in Seq(Message), inbox # <<>>, inbox' = Tail(inbox)
    PROVE  /\ inbox' \in Seq(Message)
           /\ 1 \in DOMAIN inbox /\ Head(inbox) = inbox[1] /\ Head(inbox) \in Message
           /\ \A i \in DOMAIN inbox' : i \in Nat /\ i > 0 /\ i + 1 \in DOMAIN inbox
                                       /\ inbox'[i] = inbox[i + 1]
           /\ \A i \in DOMAIN inbox : i \in Nat /\ (i # 1 => i > 1 /\ i - 1 \in DOMAIN inbox'
                                                            /\ inbox'[i - 1] = inbox[i])
  OBVIOUS

-----------------------------------------------------------------------------
(* The invariant, action by action *)

\* A post that says nothing of a query.
LEMMA PostKeepsMail ==
    ASSUME Inv, NEW msgs \in Seq(Message), Post(msgs),
           \A j \in DOMAIN msgs : msgs[j].action # "query",
           UNCHANGED <<asked, workerUp, pollers, ran>>
    PROVE  inbox' \in Seq(Message) /\ DownIsEmpty' /\ MailOnce' /\ PlacesApart'
<1>1. /\ inbox' \in Seq(Message)
      /\ ~workerUp => inbox' = inbox
      /\ \A i \in DOMAIN inbox' : inbox'[i].action = "query" =>
            i \in DOMAIN inbox /\ inbox'[i] = inbox[i]
  BY AfterPost DEF Inv, TypeOK
<1>2. DownIsEmpty'
  BY <1>1 DEF Inv, DownIsEmpty
<1>3. MailOnce' /\ PlacesApart'
  BY <1>1 DEF Inv, MailOnce, PlacesApart
<1> QED
  BY <1>1, <1>2, <1>3

LEMMA BootKeepsInv ==
    ASSUME Inv, Boot
    PROVE  Inv'
<1> DEFINE init == [action |-> "initialize"]
           conf == UpdateConfig(convars)
           msgs == <<init, conf>>
<1>1. /\ UNCHANGED <<patched, convars, changes, asked, isReady, awaiting, stopping, outbox, workerUp>>
      /\ UNCHANGED <<config, loopVars, pool, queryVars, dbVars>>
      /\ boots' = boots + 1 /\ boots < MaxBoots /\ Post(msgs)
  BY DEF Boot
<1>2. /\ init \in Message /\ conf \in Message
      /\ init.action = "initialize" /\ conf.action = "updateConfig" /\ conf.config = convars
  BY DEF Message, UpdateConfig, Inv, TypeOK
<1> HIDE DEF init, conf
<1>3. /\ msgs \in Seq(Message) /\ DOMAIN msgs = {1, 2} /\ msgs[1] = init /\ msgs[2] = conf
  BY <1>2
<1> HIDE DEF msgs
<1>4. inbox' \in Seq(Message) /\ DownIsEmpty' /\ MailOnce' /\ PlacesApart'
  BY <1>1, <1>2, <1>3, PostKeepsMail DEF queryVars
<1>5. TypeOK'
  <2>1. boots' \in 0 .. MaxBoots
    BY <1>1 DEF Inv, TypeOK
  <2> QED
    BY <1>1, <1>4, <2>1 DEF Inv, TypeOK, loopVars, queryVars, dbVars
<1>6. ConfigDue'
  <2> SUFFICES ASSUME workerUp
               PROVE  \E i \in DOMAIN inbox' : /\ inbox'[i].action = "updateConfig"
                                               /\ inbox'[i].config = convars
                                               /\ \A j \in DOMAIN inbox' : j > i => ~Reconfigures(inbox'[j])
    BY <1>1 DEF ConfigDue
  <2> DEFINE n == Len(inbox) + 2
  <2>1. n \in DOMAIN inbox' /\ inbox'[n] = conf /\ Len(inbox) \in Nat
    BY <1>1, <1>3, AfterPost DEF Inv, TypeOK
  <2>2. \A i \in DOMAIN inbox' : ~(i > n)
    <3>1. inbox \in Seq(Message) /\ Post(msgs)
      BY <1>1 DEF Inv, TypeOK
    <3>2. \A i \in DOMAIN inbox' : \/ i \in Nat /\ i < Len(inbox) + 1
                                   \/ i \in Nat /\ i - Len(inbox) \in {1, 2}
      BY <1>3, <3>1, AfterPost
    <3> QED
      BY <2>1, <3>2
  <2> QED
    BY <1>2, <2>1, <2>2
<1>7. PoolFirst'
  BY <1>1 DEF Inv, PoolFirst, queryVars
<1> QED
  BY <1>4, <1>5, <1>6, <1>7 DEF Inv

LEMMA ConvarChangesKeepsInv ==
    ASSUME Inv, NEW c \in Config, ConvarChanges(c)
    PROVE  Inv'
<1> DEFINE conf == UpdateConfig(c)
           msgs == <<conf>>
<1>1. /\ UNCHANGED <<patched, boots, asked, isReady, awaiting, stopping, outbox, workerUp>>
      /\ UNCHANGED <<config, loopVars, pool, queryVars, dbVars>>
      /\ convars' = c /\ changes' = changes + 1 /\ changes < MaxChanges /\ Post(msgs)
  BY DEF ConvarChanges
<1>2. conf \in Message /\ conf.action = "updateConfig" /\ conf.config = c
  BY DEF Message, UpdateConfig, Inv, TypeOK
<1> HIDE DEF conf
<1>3. /\ msgs \in Seq(Message) /\ DOMAIN msgs = {1} /\ msgs[1] = conf
  BY <1>2
<1> HIDE DEF msgs
<1>4. inbox' \in Seq(Message) /\ DownIsEmpty' /\ MailOnce' /\ PlacesApart'
  BY <1>1, <1>2, <1>3, PostKeepsMail DEF queryVars
<1>5. TypeOK'
  <2>1. changes' \in 0 .. MaxChanges
    BY <1>1 DEF Inv, TypeOK
  <2> QED
    BY <1>1, <1>4, <2>1 DEF Inv, TypeOK, loopVars, queryVars, dbVars
<1>6. ConfigDue'
  <2> SUFFICES ASSUME workerUp
               PROVE  \E i \in DOMAIN inbox' : /\ inbox'[i].action = "updateConfig"
                                               /\ inbox'[i].config = convars'
                                               /\ \A j \in DOMAIN inbox' : j > i => ~Reconfigures(inbox'[j])
    BY <1>1 DEF ConfigDue
  <2> DEFINE n == Len(inbox) + 1
  <2>1. n \in DOMAIN inbox' /\ inbox'[n] = conf /\ Len(inbox) \in Nat
    BY <1>1, <1>3, AfterPost DEF Inv, TypeOK
  <2>2. \A i \in DOMAIN inbox' : ~(i > n)
    <3>1. inbox \in Seq(Message) /\ Post(msgs)
      BY <1>1 DEF Inv, TypeOK
    <3>2. \A i \in DOMAIN inbox' : \/ i \in Nat /\ i < Len(inbox) + 1
                                   \/ i \in Nat /\ i - Len(inbox) \in {1}
      BY <1>3, <3>1, AfterPost
    <3> QED
      BY <2>1, <3>2
  <2> QED
    BY <1>1, <1>2, <2>1, <2>2
<1>7. PoolFirst'
  BY <1>1 DEF Inv, PoolFirst, queryVars
<1> QED
  BY <1>4, <1>5, <1>6, <1>7 DEF Inv

\* A post that changes no configuration.
LEMMA PostKeepsConfigDue ==
    ASSUME Inv, NEW m \in Message, ~Reconfigures(m), Post(<<m>>),
           UNCHANGED <<boots, convars, config, workerUp>>
    PROVE  ConfigDue'
<1> DEFINE msgs == <<m>>
<1>1. msgs \in Seq(Message) /\ DOMAIN msgs = {1} /\ msgs[1] = m /\ Post(msgs)
  OBVIOUS
<1> HIDE DEF msgs
<1>2. /\ \A i \in DOMAIN inbox : i \in DOMAIN inbox' /\ inbox'[i] = inbox[i]
      /\ \A i \in DOMAIN inbox' : Reconfigures(inbox'[i]) => i \in DOMAIN inbox /\ inbox'[i] = inbox[i]
  BY <1>1, AfterPost DEF Inv, TypeOK
<1>3. SUFFICES ASSUME boots > 0, workerUp
               PROVE \/ config = convars /\ \A i \in DOMAIN inbox' : ~Reconfigures(inbox'[i])
                     \/ \E i \in DOMAIN inbox' :
                           /\ inbox'[i].action = "updateConfig" /\ inbox'[i].config = convars
                           /\ \A j \in DOMAIN inbox' : j > i => ~Reconfigures(inbox'[j])
  BY DEF ConfigDue
<1>4. CASE config = convars /\ \A i \in DOMAIN inbox : ~Reconfigures(inbox[i])
  BY <1>2, <1>4
<1>5. CASE \E i \in DOMAIN inbox : /\ inbox[i].action = "updateConfig" /\ inbox[i].config = convars
                                   /\ \A j \in DOMAIN inbox : j > i => ~Reconfigures(inbox[j])
  BY <1>2, <1>5
<1> QED
  BY <1>3, <1>4, <1>5 DEF Inv, ConfigDue

LEMMA SendQueryKeepsInv ==
    ASSUME Inv, NEW q \in Query, SendQuery(q)
    PROVE  Inv'
<1> DEFINE m == [action |-> "query", query |-> q]
           msgs == <<m>>
<1>1. /\ UNCHANGED <<patched, boots, convars, changes, isReady, awaiting, stopping, outbox, workerUp>>
      /\ UNCHANGED <<config, loopVars, pool, queryVars, dbVars>>
      /\ q \notin SeqSet(asked) /\ asked' = Append(asked, q) /\ Post(msgs)
  BY DEF SendQuery
<1>2. m \in Message /\ m.action = "query" /\ m.query = q
  BY DEF Message
<1> HIDE DEF m
<1>3. /\ msgs \in Seq(Message) /\ DOMAIN msgs = {1} /\ msgs[1] = m
  BY <1>2
<1>4. ConfigDue'
  BY <1>1, <1>2, PostKeepsConfigDue DEF Reconfigures
<1> HIDE DEF msgs
<1>5. /\ inbox' \in Seq(Message) /\ Len(inbox) \in Nat
      /\ ~workerUp => inbox' = inbox
      /\ \A i \in DOMAIN inbox' : \/ i \in DOMAIN inbox /\ inbox'[i] = inbox[i]
                                  \/ i = Len(inbox) + 1 /\ inbox'[i] = m
  BY <1>1, <1>3, AfterPost DEF Inv, TypeOK
<1>6. asked' \in Seq(Query) /\ SeqSet(asked') = SeqSet(asked) \cup {q}
  <2>1. asked \in Seq(Query)
    BY DEF Inv, TypeOK
  <2>2. asked' \in Seq(Query) /\ DOMAIN asked' = DOMAIN asked \cup {Len(asked) + 1}
        /\ asked'[Len(asked) + 1] = q /\ \A i \in DOMAIN asked : asked'[i] = asked[i]
    BY <1>1, <2>1
  <2> QED
    BY <2>2 DEF SeqSet
<1>7. TypeOK'
  BY <1>1, <1>5, <1>6 DEF Inv, TypeOK, loopVars, queryVars, dbVars
<1>8. DownIsEmpty' /\ PoolFirst'
  BY <1>1, <1>5 DEF Inv, DownIsEmpty, PoolFirst, queryVars
<1>9. PlacesApart'
  <2>1. UNCHANGED <<pollers, ran>> /\ SeqSet(asked) \subseteq SeqSet(asked')
    BY <1>1, <1>6 DEF queryVars
  <2> QED
    BY <2>1 DEF Inv, PlacesApart
<1>10. MailOnce'
  <2>1. q \notin SeqSet(pollers) \cup SeqSet(ran)
    BY <1>1 DEF Inv, PlacesApart
  <2>2. UNCHANGED <<pollers, ran>>
    BY <1>1 DEF queryVars
  <2>3. \A i \in DOMAIN inbox : inbox[i].action = "query" => inbox[i].query # q
    BY <1>1 DEF Inv, MailOnce
  <2>4. SeqSet(asked)' = SeqSet(asked) \cup {q} /\ SeqSet(pollers)' = SeqSet(pollers) /\ SeqSet(ran)' = SeqSet(ran)
    BY <1>6, <2>2 DEF SeqSet
  <2>5. ASSUME NEW i \in DOMAIN inbox', inbox'[i].action = "query"
        PROVE  inbox'[i].query \in SeqSet(asked)' \ (SeqSet(pollers)' \cup SeqSet(ran)')
    BY <1>2, <1>5, <2>1, <2>4, <2>5 DEF Inv, MailOnce
  <2>6. \A i, j \in DOMAIN inbox' :
            inbox'[i].action = "query" /\ inbox'[j].action = "query" /\ inbox'[i].query = inbox'[j].query
            => i = j
    BY <1>2, <1>5, <2>3 DEF Inv, MailOnce
  <2> QED
    BY <2>5, <2>6 DEF MailOnce
<1> QED
  BY <1>4, <1>7, <1>8, <1>9, <1>10 DEF Inv

LEMMA ResourceStopsKeepsInv ==
    ASSUME Inv, ResourceStops
    PROVE  Inv'
<1> DEFINE m == [action |-> "shutdown"]
           msgs == <<m>>
<1>1. /\ UNCHANGED <<patched, boots, convars, changes, asked, isReady, awaiting, outbox, workerUp>>
      /\ UNCHANGED <<config, loopVars, pool, queryVars, dbVars>>
      /\ stopping' = TRUE /\ Post(msgs)
  BY DEF ResourceStops
<1>2. m \in Message /\ m.action = "shutdown"
  BY DEF Message
<1> HIDE DEF m
<1>3. /\ msgs \in Seq(Message) /\ DOMAIN msgs = {1} /\ msgs[1] = m
  BY <1>2
<1>4. ConfigDue'
  BY <1>1, <1>2, PostKeepsConfigDue DEF Reconfigures
<1> HIDE DEF msgs
<1>5. inbox' \in Seq(Message) /\ DownIsEmpty' /\ MailOnce' /\ PlacesApart'
  BY <1>1, <1>2, <1>3, PostKeepsMail DEF queryVars
<1>6. TypeOK' /\ PoolFirst'
  BY <1>1, <1>5 DEF Inv, TypeOK, PoolFirst, loopVars, queryVars, dbVars
<1> QED
  BY <1>4, <1>5, <1>6 DEF Inv

LEMMA WorkerEndsKeepsInv ==
    ASSUME Inv, WorkerEnds
    PROVE  Inv'
<1>1. /\ UNCHANGED <<patched, boots, convars, changes, asked, isReady, awaiting, stopping>>
      /\ UNCHANGED <<outbox, config, attempt, password, pool, ran, dbUp, outages>>
      /\ ~workerUp' /\ workerUp' = FALSE /\ inbox' = <<>> /\ pollers' = <<>> /\ loop' = "off"
  BY DEF WorkerEnds, parentVars, dbVars
<1>2. TypeOK'
  <2>1. <<>> \in Seq(Message) /\ <<>> \in Seq(Query)
    OBVIOUS
  <2> QED
    BY <1>1, <2>1 DEF Inv, TypeOK
<1>3. SeqSet(pollers)' = {} /\ Distinct(pollers)'
  BY <1>1 DEF SeqSet, Distinct
<1>4. DownIsEmpty' /\ ConfigDue' /\ MailOnce' /\ PoolFirst'
  BY <1>1 DEF Inv, DownIsEmpty, ConfigDue, MailOnce, PoolFirst
<1>5. PlacesApart'
  <2>1. SeqSet(ran)' = SeqSet(ran) /\ Distinct(ran)' /\ SeqSet(asked)' = SeqSet(asked)
    BY <1>1 DEF Inv, PlacesApart
  <2> QED
    BY <1>3, <2>1 DEF Inv, PlacesApart
<1> QED
  BY <1>2, <1>4, <1>5 DEF Inv

\* A step that leaves the mail, the queries and the configuration alone.
LEMMA QuietStepKeepsInv ==
    ASSUME Inv, TypeOK', PoolFirst',
           UNCHANGED <<boots, convars, asked, inbox, workerUp, config, pollers, ran>>
    PROVE  Inv'
<1>1. DownIsEmpty' /\ ConfigDue'
  BY DEF Inv, DownIsEmpty, ConfigDue
<1>2. MailOnce' /\ PlacesApart'
  BY DEF Inv, MailOnce, PlacesApart
<1> QED
  BY <1>1, <1>2 DEF Inv

LEMMA QuietStepsKeepInv ==
    ASSUME Inv, \/ AwaitConnection \/ AwaitReturns \/ DeliverVersion
                \/ ConnectFails \/ ConnectSucceeds \/ Retry \/ DatabaseUp \/ DatabaseDown
                \/ UNCHANGED vars
    PROVE  Inv'
<1> USE DEF parentVars, loopVars, queryVars, dbVars
<1>1. CASE AwaitConnection \/ AwaitReturns
  <2>1. TypeOK' /\ PoolFirst'
    BY <1>1 DEF AwaitConnection, AwaitReturns, Inv, TypeOK, PoolFirst
  <2> QED
    BY <1>1, <2>1, QuietStepKeepsInv DEF AwaitConnection, AwaitReturns
<1>2. CASE DeliverVersion
  <2>1. outbox' \in Seq({"dbVersion"}) /\ pool # "null"
    BY <1>2 DEF DeliverVersion, Inv, TypeOK, PoolFirst
  <2>2. TypeOK' /\ PoolFirst'
    BY <1>2, <2>1 DEF DeliverVersion, Inv, TypeOK, PoolFirst
  <2> QED
    BY <1>2, <2>2, QuietStepKeepsInv DEF DeliverVersion
<1>3. CASE ConnectFails \/ Retry
  <2>1. TypeOK' /\ PoolFirst'
    BY <1>3 DEF ConnectFails, Retry, Inv, TypeOK, PoolFirst
  <2> QED
    BY <1>3, <2>1, QuietStepKeepsInv DEF ConnectFails, Retry
<1>4. CASE ConnectSucceeds
  <2>1. outbox' \in Seq({"dbVersion"})
    BY <1>4 DEF ConnectSucceeds, Inv, TypeOK
  <2>2. TypeOK' /\ PoolFirst'
    BY <1>4, <2>1 DEF ConnectSucceeds, Inv, TypeOK, PoolFirst
  <2> QED
    BY <1>4, <2>2, QuietStepKeepsInv DEF ConnectSucceeds
<1>5. CASE DatabaseUp \/ DatabaseDown
  <2>1. outages' \in 0 .. MaxOutages /\ dbUp' \in BOOLEAN
    <3>1. outages \in 0 .. MaxOutages /\ MaxOutages \in Nat
      BY DEF Inv, TypeOK
    <3>2. \/ outages' = outages /\ dbUp' = TRUE
          \/ outages < MaxOutages /\ outages' = outages + 1 /\ dbUp' = FALSE
      BY <1>5 DEF DatabaseUp, DatabaseDown
    <3>3. outages' \in 0 .. MaxOutages
      BY <3>1, <3>2
    <3>4. dbUp' \in BOOLEAN
      BY <3>2
    <3> QED
      BY <3>3, <3>4
  <2>2. TypeOK' /\ PoolFirst'
    BY <1>5, <2>1 DEF DatabaseUp, DatabaseDown, Inv, TypeOK, PoolFirst
  <2> QED
    BY <1>5, <2>2, QuietStepKeepsInv DEF DatabaseUp, DatabaseDown
<1>6. CASE UNCHANGED vars
  <2>1. TypeOK' /\ PoolFirst'
    BY <1>6 DEF vars, Inv, TypeOK, PoolFirst
  <2> QED
    BY <1>6, <2>1, QuietStepKeepsInv DEF vars
<1> QED
  BY <1>1, <1>2, <1>3, <1>4, <1>5, <1>6

LEMMA PollerWakesKeepsInv ==
    ASSUME Inv, PollerWakes
    PROVE  Inv'
<1> DEFINE q == Head(pollers)
           rest == Tail(pollers)
<1>1. /\ UNCHANGED <<patched, boots, convars, changes, asked, isReady, awaiting, stopping>>
      /\ UNCHANGED <<inbox, outbox, workerUp, config, loop, attempt, password, pool, dbUp, outages>>
      /\ pollers # <<>>
      /\ \/ pool = "null" /\ pollers' = Append(rest, q) /\ UNCHANGED ran
         \/ pool = "open" /\ pollers' = rest /\ ran' = Append(ran, q)
         \/ pool = "ending" /\ pollers' = rest /\ UNCHANGED ran
  BY DEF PollerWakes, parentVars, loopVars, dbVars
<1>2. /\ rest \in Seq(Query) /\ q \in Query /\ q \in SeqSet(pollers)
      /\ Distinct(rest) /\ SeqSet(rest) = SeqSet(pollers) \ {q}
  BY <1>1, TailKeepsDistinct DEF Inv, TypeOK, PlacesApart
<1> HIDE DEF q, rest
<1>3. /\ Append(rest, q) \in Seq(Query) /\ Distinct(Append(rest, q))
      /\ SeqSet(Append(rest, q)) = SeqSet(pollers)
  <2>1. q \notin SeqSet(rest)
    BY <1>2
  <2>2. /\ Append(rest, q) \in Seq(Query) /\ Distinct(Append(rest, q))
        /\ SeqSet(Append(rest, q)) = SeqSet(rest) \cup {q}
    BY <1>2, <2>1, AppendKeepsDistinct
  <2> QED
    BY <1>2, <2>2
<1>4. /\ Append(ran, q) \in Seq(Query) /\ Distinct(Append(ran, q))
      /\ SeqSet(Append(ran, q)) = SeqSet(ran) \cup {q}
  BY <1>2, AppendKeepsDistinct DEF Inv, TypeOK, PlacesApart
<1>5. /\ pollers' \in Seq(Query) /\ ran' \in Seq(Query) /\ Distinct(pollers') /\ Distinct(ran')
      /\ SeqSet(pollers') \cap SeqSet(ran') = {}
      /\ SeqSet(pollers') \cup SeqSet(ran') \subseteq SeqSet(pollers) \cup SeqSet(ran)
  BY <1>1, <1>2, <1>3, <1>4 DEF Inv, TypeOK, PlacesApart
<1>6. TypeOK'
  BY <1>1, <1>5 DEF Inv, TypeOK
<1>7. DownIsEmpty' /\ ConfigDue'
  <2>1. workerUp
    BY <1>1 DEF Inv, DownIsEmpty
  <2> QED
    BY <1>1, <2>1 DEF Inv, DownIsEmpty, ConfigDue
<1>8. MailOnce' /\ PlacesApart'
  BY <1>1, <1>5 DEF Inv, MailOnce, PlacesApart
<1>9. PoolFirst'
  BY <1>1 DEF Inv, PoolFirst
<1> QED
  BY <1>6, <1>7, <1>8, <1>9 DEF Inv

\* Taking the next message, as far as the configuration goes.
LEMMA TakeKeepsConfigDue ==
    ASSUME Inv, inbox # <<>>, inbox' = Tail(inbox), UNCHANGED <<boots, convars, workerUp>>,
           Head(inbox).action = "updateConfig" => config' = Head(inbox).config,
           ~Reconfigures(Head(inbox)) => config' = config
    PROVE  ConfigDue'
<1>1. /\ 1 \in DOMAIN inbox /\ Head(inbox) = inbox[1]
      /\ \A i \in DOMAIN inbox' : i \in Nat /\ i > 0 /\ i + 1 \in DOMAIN inbox
                                  /\ inbox'[i] = inbox[i + 1]
      /\ \A i \in DOMAIN inbox : i \in Nat /\ (i # 1 => i > 1 /\ i - 1 \in DOMAIN inbox'
                                                       /\ inbox'[i - 1] = inbox[i])
  BY AfterTake DEF Inv, TypeOK
<1>2. SUFFICES ASSUME boots > 0, workerUp
               PROVE \/ config' = convars /\ \A i \in DOMAIN inbox' : ~Reconfigures(inbox'[i])
                     \/ \E i \in DOMAIN inbox' :
                           /\ inbox'[i].action = "updateConfig" /\ inbox'[i].config = convars
                           /\ \A j \in DOMAIN inbox' : j > i => ~Reconfigures(inbox'[j])
  BY DEF ConfigDue
<1>3. CASE config = convars /\ \A i \in DOMAIN inbox : ~Reconfigures(inbox[i])
  BY <1>1, <1>3
<1>4. ASSUME NEW i \in DOMAIN inbox, inbox[i].action = "updateConfig", inbox[i].config = convars,
             \A j \in DOMAIN inbox : j > i => ~Reconfigures(inbox[j])
      PROVE \/ config' = convars /\ \A j \in DOMAIN inbox' : ~Reconfigures(inbox'[j])
            \/ \E j \in DOMAIN inbox' :
                  /\ inbox'[j].action = "updateConfig" /\ inbox'[j].config = convars
                  /\ \A n \in DOMAIN inbox' : n > j => ~Reconfigures(inbox'[n])
  <2>1. CASE i = 1
    BY <1>1, <1>4, <2>1
  <2>2. CASE i # 1
    <3>1. i - 1 \in DOMAIN inbox' /\ inbox'[i - 1] = inbox[i]
      BY <1>1, <2>2
    <3>2. \A n \in DOMAIN inbox' : n > i - 1 => ~Reconfigures(inbox'[n])
      BY <1>1, <1>4
    <3> QED
      BY <1>4, <3>1, <3>2
  <2> QED
    BY <2>1, <2>2
<1> QED
  BY <1>2, <1>3, <1>4 DEF Inv, ConfigDue

\* Taking a message that is no query.
LEMMA TakeKeepsMail ==
    ASSUME Inv, inbox # <<>>, inbox' = Tail(inbox), UNCHANGED <<asked, workerUp, pollers, ran>>
    PROVE  inbox' \in Seq(Message) /\ DownIsEmpty' /\ MailOnce' /\ PlacesApart'
<1>1. /\ inbox' \in Seq(Message)
      /\ \A i \in DOMAIN inbox' : i \in Nat /\ i + 1 \in DOMAIN inbox /\ inbox'[i] = inbox[i + 1]
  BY AfterTake DEF Inv, TypeOK
<1>2. DownIsEmpty' /\ PlacesApart'
  BY DEF Inv, DownIsEmpty, PlacesApart
<1>3. MailOnce'
  <2>1. SeqSet(asked)' = SeqSet(asked) /\ SeqSet(pollers)' = SeqSet(pollers) /\ SeqSet(ran)' = SeqSet(ran)
    BY DEF SeqSet
  <2> QED
    BY <1>1, <2>1 DEF Inv, MailOnce
<1> QED
  BY <1>1, <1>2, <1>3

LEMMA TakeInitializeKeepsInv ==
    ASSUME Inv, TakeInitialize
    PROVE  Inv'
<1>1. CASE WorkerEnds
  BY <1>1, WorkerEndsKeepsInv
<1>2. CASE /\ inbox' = Tail(inbox)
           /\ config' \in {config, DefaultConfig}
           /\ \/ UNCHANGED <<loop, attempt, password>>
              \/ loop' = "connecting" /\ attempt' = 1 /\ password' = GivenPassword
           /\ UNCHANGED <<parentVars, outbox, workerUp, pool, queryVars, dbVars>>
  <2>1. inbox # <<>> /\ Head(inbox).action = "initialize"
    BY DEF TakeInitialize, Taken
  <2>2. inbox' \in Seq(Message) /\ DownIsEmpty' /\ MailOnce' /\ PlacesApart'
    BY <1>2, <2>1, TakeKeepsMail DEF parentVars, queryVars
  <2>3. ConfigDue'
    BY <1>2, <2>1, TakeKeepsConfigDue DEF parentVars, Reconfigures
  <2>4. TypeOK'
    <3>1. /\ config' \in Config /\ loop' \in {"off", "connecting", "sleeping"} /\ attempt' \in 0 .. 2
          /\ password' \in {"none", "real", "masked"}
      BY <1>2 DEF Inv, TypeOK, GivenPassword
    <3> QED
      BY <1>2, <2>2, <3>1 DEF Inv, TypeOK, parentVars, queryVars, dbVars
  <2>5. PoolFirst'
    BY <1>2 DEF Inv, PoolFirst, parentVars, queryVars
  <2> QED
    BY <2>2, <2>3, <2>4, <2>5 DEF Inv
<1> QED
  BY <1>1, <1>2 DEF TakeInitialize, loopVars

LEMMA TakeConfigKeepsInv ==
    ASSUME Inv, TakeConfig
    PROVE  Inv'
<1>1. /\ inbox # <<>> /\ Head(inbox).action = "updateConfig" /\ inbox' = Tail(inbox)
      /\ config' = Head(inbox).config
      /\ UNCHANGED <<parentVars, outbox, workerUp, loopVars, pool, queryVars, dbVars>>
  BY DEF TakeConfig, Taken
<1>2. inbox' \in Seq(Message) /\ DownIsEmpty' /\ MailOnce' /\ PlacesApart'
  BY <1>1, TakeKeepsMail DEF parentVars, queryVars
<1>3. ConfigDue'
  BY <1>1, TakeKeepsConfigDue DEF parentVars, Reconfigures
<1>4. TypeOK'
  <2>1. config' \in Config
    BY <1>1, AfterTake, MessageShape DEF Inv, TypeOK
  <2> QED
    BY <1>1, <1>2, <2>1 DEF Inv, TypeOK, parentVars, loopVars, queryVars, dbVars
<1>5. PoolFirst'
  BY <1>1 DEF Inv, PoolFirst, parentVars, queryVars
<1> QED
  BY <1>2, <1>3, <1>4, <1>5 DEF Inv

LEMMA TakeShutdownKeepsInv ==
    ASSUME Inv, TakeShutdown
    PROVE  Inv'
<1>1. CASE WorkerEnds
  BY <1>1, WorkerEndsKeepsInv
<1>2. CASE ~WorkerEnds
  <2>1. /\ inbox # <<>> /\ Head(inbox).action = "shutdown" /\ inbox' = Tail(inbox)
        /\ pool' = "ending"
        /\ UNCHANGED <<parentVars, outbox, workerUp, config, loopVars, queryVars, dbVars>>
    BY <1>2 DEF TakeShutdown, Taken
  <2>2. inbox' \in Seq(Message) /\ DownIsEmpty' /\ MailOnce' /\ PlacesApart'
    BY <2>1, TakeKeepsMail DEF parentVars, queryVars
  <2>3. ConfigDue'
    BY <2>1, TakeKeepsConfigDue DEF parentVars, Reconfigures
  <2>4. TypeOK' /\ PoolFirst'
    BY <2>1, <2>2 DEF Inv, TypeOK, PoolFirst, parentVars, loopVars, queryVars, dbVars
  <2> QED
    BY <2>2, <2>3, <2>4 DEF Inv
<1> QED
  BY <1>1, <1>2

LEMMA TakeQueryKeepsInv ==
    ASSUME Inv, TakeQuery
    PROVE  Inv'
<1> DEFINE q == Head(inbox).query
<1>1. /\ inbox # <<>> /\ Head(inbox).action = "query" /\ inbox' = Tail(inbox) /\ workerUp
      /\ UNCHANGED <<parentVars, outbox, workerUp, config, loopVars, pool, dbVars>>
      /\ \/ pool = "null" /\ pollers' = Append(pollers, q) /\ UNCHANGED ran
         \/ pool = "open" /\ ran' = Append(ran, q) /\ UNCHANGED pollers
         \/ pool = "ending" /\ UNCHANGED <<pollers, ran>>
  BY DEF TakeQuery, Taken
<1>2. /\ inbox' \in Seq(Message)
      /\ 1 \in DOMAIN inbox /\ Head(inbox) = inbox[1] /\ Head(inbox) \in Message
      /\ \A i \in DOMAIN inbox' : i \in Nat /\ i > 0 /\ i + 1 \in DOMAIN inbox
                                  /\ inbox'[i] = inbox[i + 1]
  BY <1>1, AfterTake DEF Inv, TypeOK
<1>3. /\ q \in Query /\ q \in SeqSet(asked) /\ q \notin SeqSet(pollers) /\ q \notin SeqSet(ran)
      /\ \A i \in DOMAIN inbox' : inbox'[i].action = "query" => inbox'[i].query # q
  <2>1. q \in Query
    BY <1>1, <1>2, MessageShape
  <2>2. q \in SeqSet(asked) /\ q \notin SeqSet(pollers) /\ q \notin SeqSet(ran)
    BY <1>1, <1>2 DEF Inv, MailOnce
  <2>3. \A i \in DOMAIN inbox' : inbox'[i].action = "query" => inbox'[i].query # q
    <3> SUFFICES ASSUME NEW i \in DOMAIN inbox', inbox'[i].action = "query", inbox'[i].query = q
                 PROVE  FALSE
      OBVIOUS
    <3>1. i + 1 \in DOMAIN inbox /\ i + 1 # 1 /\ inbox'[i] = inbox[i + 1]
      BY <1>2
    <3> QED
      BY <1>1, <1>2, <3>1 DEF Inv, MailOnce
  <2> QED
    BY <2>1, <2>2, <2>3
<1> HIDE DEF q
<1>4. /\ Append(pollers, q) \in Seq(Query) /\ Distinct(Append(pollers, q))
      /\ SeqSet(Append(pollers, q)) = SeqSet(pollers) \cup {q}
  BY <1>3, AppendKeepsDistinct DEF Inv, TypeOK, PlacesApart
<1>5. /\ Append(ran, q) \in Seq(Query) /\ Distinct(Append(ran, q))
      /\ SeqSet(Append(ran, q)) = SeqSet(ran) \cup {q}
  BY <1>3, AppendKeepsDistinct DEF Inv, TypeOK, PlacesApart
<1>6. /\ pollers' \in Seq(Query) /\ ran' \in Seq(Query) /\ Distinct(pollers') /\ Distinct(ran')
      /\ SeqSet(pollers') \cap SeqSet(ran') = {}
      /\ SeqSet(pollers') \cup SeqSet(ran') \subseteq SeqSet(pollers) \cup SeqSet(ran) \cup {q}
  BY <1>1, <1>3, <1>4, <1>5 DEF Inv, TypeOK, PlacesApart
<1>7. TypeOK'
  BY <1>1, <1>2, <1>6 DEF Inv, TypeOK, parentVars, loopVars, dbVars
<1>8. DownIsEmpty'
  BY <1>1 DEF DownIsEmpty
<1>9. ConfigDue'
  BY <1>1, TakeKeepsConfigDue DEF parentVars, Reconfigures
<1>10. PlacesApart'
  BY <1>1, <1>3, <1>6 DEF Inv, PlacesApart, parentVars
<1>11. MailOnce'
  <2>1. asked' = asked
    BY <1>1 DEF parentVars
  <2>2. ASSUME NEW i \in DOMAIN inbox', inbox'[i].action = "query"
        PROVE  inbox'[i].query \in SeqSet(asked') \ (SeqSet(pollers') \cup SeqSet(ran'))
    <3>1. i + 1 \in DOMAIN inbox /\ inbox'[i] = inbox[i + 1]
      BY <1>2
    <3>2. inbox'[i].query \in SeqSet(asked) \ (SeqSet(pollers) \cup SeqSet(ran))
      BY <2>2, <3>1 DEF Inv, MailOnce
    <3> QED
      BY <1>3, <1>6, <2>1, <2>2, <3>2
  <2>3. \A i, j \in DOMAIN inbox' :
            inbox'[i].action = "query" /\ inbox'[j].action = "query" /\ inbox'[i].query = inbox'[j].query
            => i = j
    BY <1>2 DEF Inv, MailOnce
  <2> QED
    BY <2>2, <2>3 DEF MailOnce
<1>12. PoolFirst'
  BY <1>1 DEF Inv, PoolFirst, parentVars
<1> QED
  BY <1>7, <1>8, <1>9, <1>10, <1>11, <1>12 DEF Inv

LEMMA InitInv == Init => Inv
<1> SUFFICES ASSUME Init PROVE Inv
  OBVIOUS
<1>1. TypeOK
  <2>1. 0 \in 0 .. MaxBoots /\ 0 \in 0 .. MaxChanges /\ 0 \in 0 .. MaxOutages /\ 0 \in 0 .. 2
    OBVIOUS
  <2>2. <<>> \in Seq(Query) /\ <<>> \in Seq(Message) /\ <<>> \in Seq({"dbVersion"})
    OBVIOUS
  <2>3. GivenPassword \in {"none", "real", "masked"}
    BY DEF GivenPassword
  <2> QED
    BY <2>1, <2>2, <2>3 DEF Init, TypeOK
<1>2. /\ inbox = <<>> /\ outbox = <<>> /\ pollers = <<>> /\ ran = <<>> /\ boots = 0
      /\ ~isReady /\ awaiting = "none"
  BY DEF Init
<1>3. DownIsEmpty /\ ConfigDue /\ MailOnce /\ PoolFirst
  BY <1>2 DEF DownIsEmpty, ConfigDue, MailOnce, PoolFirst
<1>4. PlacesApart
  BY <1>2 DEF PlacesApart, SeqSet, Distinct
<1> QED
  BY <1>1, <1>3, <1>4 DEF Inv

LEMMA NextInv == Inv /\ [Next]_vars => Inv'
<1> SUFFICES ASSUME Inv, [Next]_vars PROVE Inv'
  OBVIOUS
<1>1. CASE Boot
  BY <1>1, BootKeepsInv
<1>2. ASSUME NEW c \in Config, ConvarChanges(c) PROVE Inv'
  BY <1>2, ConvarChangesKeepsInv
<1>3. ASSUME NEW q \in Query, SendQuery(q) PROVE Inv'
  BY <1>3, SendQueryKeepsInv
<1>4. CASE ResourceStops
  BY <1>4, ResourceStopsKeepsInv
<1>5. CASE Terminate \/ PoolEnded
  BY <1>5, WorkerEndsKeepsInv DEF Terminate, PoolEnded
<1>6. CASE Take
  BY <1>6, TakeInitializeKeepsInv, TakeConfigKeepsInv, TakeQueryKeepsInv, TakeShutdownKeepsInv
     DEF Take
<1>7. CASE PollerWakes
  BY <1>7, PollerWakesKeepsInv
<1>8. CASE \/ AwaitConnection \/ AwaitReturns \/ DeliverVersion
           \/ ConnectFails \/ ConnectSucceeds \/ Retry \/ DatabaseUp \/ DatabaseDown
           \/ UNCHANGED vars
  BY <1>8, QuietStepsKeepInv
<1> QED
  BY <1>1, <1>2, <1>3, <1>4, <1>5, <1>6, <1>7, <1>8 DEF Next, Parent, Worker

LEMMA InvHolds == SafeSpec => []Inv
  BY InitInv, NextInv, PTL DEF SafeSpec

-----------------------------------------------------------------------------
(* Theorems *)

\* The model's variables have their types, in every instance.
THEOREM TypeCorrect == SafeSpec => []TypeOK
<1>1. Inv => TypeOK
  BY DEF Inv
<1> QED
  BY <1>1, InvHolds, PTL

\* initialize applies the defaults and updateConfig the parent's values, in
\* the order the parent posts them: however often it boots, whatever the
\* convars do in between and whatever the retry loop is at, a worker that
\* has read its mail has the parent's configuration.
THEOREM ConfigReachesWorker == SafeSpec => []ConfigMirrored
<1>1. Inv => ConfigMirrored
  <2> SUFFICES ASSUME Inv, boots > 0, workerUp, inbox = <<>>
               PROVE  config = convars
    BY DEF ConfigMirrored
  <2>1. \A i \in DOMAIN inbox : FALSE
    OBVIOUS
  <2> QED
    BY <2>1 DEF Inv, ConfigDue
<1> QED
  BY <1>1, InvHolds, PTL

\* A query that came before the pool is given to it once, when it is open;
\* the poll it went through and the queries sent later do not run it again.
THEOREM RunsOnce == SafeSpec => []RunsOnceOnOpenPool
<1>1. Inv => RunsOnceOnOpenPool
  <2> SUFFICES ASSUME Inv PROVE RunsOnceOnOpenPool
    OBVIOUS
  <2>1. Len(ran) = Cardinality(SeqSet(ran))
    BY DistinctCounts DEF Inv, TypeOK, PlacesApart
  <2>2. SeqSet(ran) \cap SeqSet(pollers) = {}
    BY DEF Inv, PlacesApart
  <2>3. ran # <<>> => pool # "null"
    BY DEF Inv, PoolFirst
  <2> QED
    BY <2>1, <2>2, <2>3 DEF RunsOnceOnOpenPool
<1> QED
  BY <1>1, InvHolds, PTL

\* A resource that saw isReady or came back from awaitConnection finds a
\* pool: dbVersion is posted in the turn that sets it.
THEOREM ReadyIsTrue == SafeSpec => []ReadyMeansPool
<1>1. Inv => ReadyMeansPool
  BY DEF Inv, PoolFirst, ReadyMeansPool
<1> QED
  BY <1>1, InvHolds, PTL
================================================================================
