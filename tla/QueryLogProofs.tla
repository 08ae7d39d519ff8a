------------------------------ MODULE QueryLogProofs ----------------------------
(***************************************************************************)
(* Proofs about QueryLog for every set of resources, every set of values   *)
(* of mysql_log_size and any number of log messages, convar changes and    *)
(* clicks.                                                                 *)
(***************************************************************************)
EXTENDS QueryLog, FiniteSetTheorems, SequenceTheorems, TLAPS

USE LogAssumption

\* The sizes there are.
KnownSizes == Sizes \cup {DebugSize}

\* The parent's copy of the configuration is one the convars have had.
SizeKnown == /\ convar = [ui |-> convar.ui, size |-> convar.size, debug |-> convar.debug]
             /\ convar.size \in Sizes /\ logSize \in KnownSizes
             /\ largest \in Nat

\* A buffer is a sequence, and a resource without one has logged nothing.
BucketsKnown == /\ accepted \in [Resource -> Nat]
                /\ log = [r \in DOMAIN log |-> log[r]] /\ DOMAIN log \subseteq Resource
                /\ \A r \in DOMAIN log : \E S : log[r] \in Seq(S)
                /\ \A r \in Resource \ DOMAIN log : accepted[r] = 0

BufferInv == SizeKnown /\ BucketsKnown /\ BufferKeepsNewest

-----------------------------------------------------------------------------
(* One entry *)

\* What is left of a buffer when there is room for the next entry.
LEMMA KeptShape ==
    ASSUME BufferInv, NEW r \in Resource
    PROVE  /\ \E S : Kept(r) \in Seq(S)
           /\ Len(Kept(r)) <= largest \/ Len(Kept(r)) <= logSize
           /\ Len(Kept(r)) < accepted[r] => \E n \in KnownSizes : Len(Kept(r)) + 1 > n
           /\ \A i \in DOMAIN Kept(r) : /\ Kept(r)[i].of = r
                                        /\ Kept(r)[i].n = accepted[r] - Len(Kept(r)) + i
<1> DEFINE b == Bucket(r)
           k == Kept(r)
<1>1. /\ \E S : b \in Seq(S)
      /\ Len(b) <= largest + 1
      /\ Len(b) < accepted[r] => \E n \in KnownSizes : Len(b) > n
      /\ \A i \in DOMAIN b : b[i].of = r /\ b[i].n = accepted[r] - Len(b) + i
  <2>1. CASE r \in DOMAIN log
    <3>1. b = log[r]
      BY <2>1 DEF Bucket
    <3> HIDE DEF b
    <3> QED
      BY <2>1, <3>1 DEF BufferInv, BucketsKnown, BufferKeepsNewest, KnownSizes
  <2>2. CASE r \notin DOMAIN log
    <3>1. b = <<>> /\ accepted[r] = 0 /\ largest \in Nat
      BY <2>2 DEF Bucket, BufferInv, BucketsKnown, SizeKnown
    <3> HIDE DEF b
    <3>2. <<>> \in Seq({}) /\ Len(<<>>) = 0 /\ DOMAIN <<>> = {}
      OBVIOUS
    <3> QED
      BY <3>1, <3>2
  <2> QED
    BY <2>1, <2>2
<1>2. largest \in Nat /\ logSize \in KnownSizes /\ logSize \in Nat /\ accepted[r] \in Nat
  BY DEF BufferInv, SizeKnown, BucketsKnown, KnownSizes
<1>3. k = IF Len(b) > logSize THEN Tail(b) ELSE b
  BY DEF Kept
<1> HIDE DEF b, k
<1>4. PICK S : b \in Seq(S)
  BY <1>1
<1>5. CASE Len(b) > logSize
  <2>1. k = Tail(b) /\ b # <<>>
    BY <1>2, <1>3, <1>4, <1>5
  <2>2. /\ k \in Seq(S) /\ Len(k) = Len(b) - 1 /\ Len(b) \in Nat /\ Len(k) \in Nat
        /\ \A i \in DOMAIN k : i + 1 \in DOMAIN b /\ k[i] = b[i + 1] /\ i \in Nat
    BY <1>4, <2>1
  <2>3. Len(k) <= largest
    BY <1>1, <1>2, <2>2
  <2>4. Len(k) + 1 > logSize
    BY <1>2, <1>5, <2>2
  <2>5. ASSUME NEW i \in DOMAIN k PROVE k[i].of = r /\ k[i].n = accepted[r] - Len(k) + i
    <3>1. k[i] = b[i + 1] /\ b[i + 1].of = r /\ b[i + 1].n = accepted[r] - Len(b) + (i + 1)
      BY <1>1, <2>2
    <3>2. i \in Nat /\ accepted[r] \in Nat /\ Len(b) \in Nat /\ Len(k) = Len(b) - 1
      BY <1>2, <2>2
    <3>3. accepted[r] - Len(b) + (i + 1) = accepted[r] - Len(k) + i
      BY <3>2
    <3> QED
      BY <3>1, <3>3
  <2> QED
    BY <1>2, <2>2, <2>3, <2>4, <2>5 DEF k
<1>6. CASE ~(Len(b) > logSize)
  <2>1. k = b /\ Len(b) \in Nat
    BY <1>3, <1>4, <1>6
  <2>2. \A n \in KnownSizes : n \in Nat
    BY DEF KnownSizes
  <2> QED
    BY <1>1, <1>2, <1>6, <2>1, <2>2 DEF k
<1> QED
  BY <1>5, <1>6

LEMMA LogQueryKeepsBuffers ==
    ASSUME BufferInv, NEW r \in Resource, NEW s \in Sample, logQuery(r, s)
    PROVE  BufferInv'
<1> DEFINE k == Kept(r)
           e == Entry(r, accepted[r] + 1, s)
           new == Append(k, e)
<1>1. /\ UNCHANGED <<convar, ui, logSize>>
      /\ accepted' = [accepted EXCEPT ![r] = @ + 1]
      /\ largest' = IF logSize > largest THEN logSize ELSE largest
      /\ log' = [x \in DOMAIN log \cup {r} |-> IF x = r THEN new ELSE log[x]]
  BY DEF logQuery
<1>2. e.of = r /\ e.n = accepted[r] + 1
  BY DEF Entry
<1>3. /\ DOMAIN log' = DOMAIN log \cup {r} /\ log' = [x \in DOMAIN log' |-> log'[x]]
      /\ log'[r] = new /\ \A x \in DOMAIN log : x # r => log'[x] = log[x]
  BY <1>1
<1>4. /\ largest \in Nat /\ logSize \in KnownSizes /\ logSize \in Nat /\ accepted \in [Resource -> Nat]
      /\ \A n \in KnownSizes : n \in Nat
  BY DEF BufferInv, SizeKnown, BucketsKnown, KnownSizes
<1>5. largest' \in Nat /\ largest <= largest' /\ logSize <= largest'
  BY <1>1, <1>4
<1> HIDE DEF e, k
<1>6. PICK S : k \in Seq(S)
  BY KeptShape DEF k
<1>7. /\ Len(k) <= largest \/ Len(k) <= logSize
      /\ Len(k) < accepted[r] => \E n \in KnownSizes : Len(k) + 1 > n
      /\ \A i \in DOMAIN k : k[i].of = r /\ k[i].n = accepted[r] - Len(k) + i
  BY KeptShape DEF k
<1>8. /\ new \in Seq(S \cup {e}) /\ Len(new) = Len(k) + 1 /\ Len(k) \in Nat
      /\ \A i \in DOMAIN new : \/ i \in DOMAIN k /\ new[i] = k[i] /\ i \in Nat
                               \/ i = Len(k) + 1 /\ new[i] = e
  <2>1. k \in Seq(S \cup {e}) /\ e \in S \cup {e}
    BY <1>6
  <2> QED
    BY <2>1
<1> HIDE DEF new
<1>9. /\ Len(new) <= largest' + 1
      /\ \A i \in DOMAIN new : new[i].of = r /\ new[i].n = accepted[r] + 1 - Len(new) + i
      /\ Len(new) < accepted[r] + 1 => \E n \in KnownSizes : Len(new) > n
  <2>1. Len(new) <= largest' + 1
    BY <1>4, <1>5, <1>7, <1>8
  <2>2. accepted[r] \in Nat
    BY <1>4
  <2>3. ASSUME NEW i \in DOMAIN new PROVE new[i].of = r /\ new[i].n = accepted[r] + 1 - Len(new) + i
    <3>1. CASE i \in DOMAIN k /\ new[i] = k[i] /\ i \in Nat
      <4>1. k[i].of = r /\ k[i].n = accepted[r] - Len(k) + i
        BY <1>7, <3>1
      <4>2. accepted[r] - Len(k) + i = accepted[r] + 1 - Len(new) + i
        BY <1>8, <2>2, <3>1
      <4> QED
        BY <3>1, <4>1, <4>2
    <3>2. CASE i = Len(k) + 1 /\ new[i] = e
      BY <1>2, <1>8, <2>2, <3>2
    <3> QED
      BY <1>8, <3>1, <3>2
  <2>4. Len(new) < accepted[r] + 1 => \E n \in KnownSizes : Len(new) > n
    BY <1>7, <1>8, <2>2
  <2> QED
    BY <2>1, <2>3, <2>4
<1>10. SizeKnown'
  BY <1>1, <1>5 DEF BufferInv, SizeKnown
<1>11. /\ accepted' \in [Resource -> Nat] /\ accepted'[r] = accepted[r] + 1
       /\ \A x \in Resource : x # r => accepted'[x] = accepted[x]
  BY <1>1, <1>4
<1>12. BucketsKnown'
  <2>1. \E T : log'[r] \in Seq(T)
    BY <1>3, <1>8
  <2>2. ASSUME NEW x \in DOMAIN log' PROVE \E T : log'[x] \in Seq(T)
    BY <1>3, <2>1 DEF BufferInv, BucketsKnown
  <2>3. DOMAIN log' \subseteq Resource /\ \A x \in Resource \ DOMAIN log' : accepted'[x] = 0
    BY <1>3, <1>11 DEF BufferInv, BucketsKnown
  <2> QED
    BY <1>3, <1>11, <2>2, <2>3 DEF BucketsKnown
<1>13. BufferKeepsNewest'
  <2> SUFFICES ASSUME NEW x \in DOMAIN log'
               PROVE /\ Len(log'[x]) <= largest' + 1
                     /\ \A i \in DOMAIN log'[x] : /\ log'[x][i].of = x
                                                  /\ log'[x][i].n = accepted'[x] - Len(log'[x]) + i
                     /\ Len(log'[x]) < accepted'[x] => \E n \in KnownSizes : Len(log'[x]) > n
    BY DEF BufferKeepsNewest, KnownSizes
  <2>1. CASE x = r
    <3>1. log'[x] = new /\ accepted'[x] = accepted[r] + 1
      BY <1>3, <1>11, <2>1
    <3>2. Len(log'[x]) <= largest' + 1
      BY <1>9, <3>1
    <3>3. \A i \in DOMAIN log'[x] : /\ log'[x][i].of = x
                                    /\ log'[x][i].n = accepted'[x] - Len(log'[x]) + i
      <4>1. ASSUME NEW i \in DOMAIN new
            PROVE  new[i].of = x /\ new[i].n = accepted'[x] - Len(new) + i
        <5>1. new[i].of = r /\ new[i].n = accepted[r] + 1 - Len(new) + i
          BY <1>9
        <5>2. accepted[r] \in Nat /\ Len(new) \in Nat /\ i \in Nat
          BY <1>4, <1>8
        <5> QED
          BY <2>1, <3>1, <5>1, <5>2
      <4> QED
        BY <3>1, <4>1
    <3>4. Len(log'[x]) < accepted'[x] => \E n \in KnownSizes : Len(log'[x]) > n
      BY <1>9, <3>1
    <3> QED
      BY <3>2, <3>3, <3>4
  <2>2. CASE x # r
    <3>1. x \in DOMAIN log /\ log'[x] = log[x] /\ x \in Resource
      BY <1>3, <2>2 DEF BufferInv, BucketsKnown
    <3>2. PICK T : log[x] \in Seq(T)
      BY <3>1 DEF BufferInv, BucketsKnown
    <3>3. Len(log[x]) \in Nat
      BY <3>2
    <3>4. Len(log[x]) <= largest' + 1
      BY <1>4, <1>5, <3>1, <3>3 DEF BufferInv, BufferKeepsNewest
    <3>5. accepted'[x] = accepted[x]
      BY <1>11, <2>2, <3>1
    <3>6. /\ \A i \in DOMAIN log[x] : log[x][i].of = x /\ log[x][i].n = accepted[x] - Len(log[x]) + i
          /\ Len(log[x]) < accepted[x] => \E n \in KnownSizes : Len(log[x]) > n
      BY <3>1 DEF BufferInv, BufferKeepsNewest, KnownSizes
    <3> QED
      BY <3>1, <3>4, <3>5, <3>6
  <2> QED
    BY <2>1, <2>2
<1> QED
  BY <1>10, <1>12, <1>13 DEF BufferInv

LEMMA ConvarKeepsBuffers ==
    ASSUME BufferInv, NEW c, c = [ui |-> c.ui, size |-> c.size, debug |-> c.debug], c.size \in Sizes,
           readConfig(c), UNCHANGED <<log, accepted, largest>>
    PROVE  BufferInv'
<1>1. SizeKnown'
  BY DEF readConfig, BufferInv, SizeKnown, KnownSizes
<1>2. BucketsKnown' /\ BufferKeepsNewest'
  BY DEF BufferInv, BucketsKnown, BufferKeepsNewest
<1> QED
  BY <1>1, <1>2 DEF BufferInv

LEMMA NextKeepsBuffers == BufferInv /\ [Next]_vars => BufferInv'
<1> SUFFICES ASSUME BufferInv, [Next]_vars PROVE BufferInv'
  OBVIOUS
<1>1. CASE UNCHANGED <<convar, logSize, log, accepted, largest>>
  <2>1. SizeKnown' /\ BucketsKnown' /\ BufferKeepsNewest'
    BY <1>1 DEF BufferInv, SizeKnown, BucketsKnown, BufferKeepsNewest
  <2> QED
    BY <2>1 DEF BufferInv
<1>2. CASE SetConvar
  <2>1. PICK on \in BOOLEAN, n \in Sizes, d \in {convar.debug, Other, Falsy} :
           readConfig([ui |-> on, size |-> n, debug |-> d])
    BY <1>2 DEF SetConvar
  <2> QED
    BY <1>2, <2>1, ConvarKeepsBuffers DEF SetConvar
<1>3. ASSUME NEW r \in Resource, oxmysql_debug(r) PROVE BufferInv'
  <2> DEFINE now == IF convar.debug.t = "list" THEN convar.debug.on ELSE {}
             new == IF r \in now THEN now \ {r} ELSE now \cup {r}
             d == IF new = {} THEN Off ELSE List(new)
  <2>1. readConfig([convar EXCEPT !.debug = d]) /\ UNCHANGED <<log, accepted, largest>>
    BY <1>3 DEF oxmysql_debug
  <2> HIDE DEF d
  <2>2. /\ [convar EXCEPT !.debug = d] = [ui |-> convar.ui, size |-> convar.size, debug |-> d]
        /\ convar.size \in Sizes
    BY DEF BufferInv, SizeKnown
  <2> QED
    BY <2>1, <2>2, ConvarKeepsBuffers
<1>4. ASSUME NEW r \in Resource, NEW s \in Sample, logQuery(r, s) PROVE BufferInv'
  BY <1>4, LogQueryKeepsBuffers
<1>5. CASE \/ FetchResource \/ TimerFires \/ LoadResource
           \/ Open \/ Back \/ Escape \/ \E r \in Resource : Visit(r)
  BY <1>1, <1>5 DEF FetchResource, TimerFires, LoadResource, Open, Back, Escape, Visit, server
<1>6. CASE \E t : Change(t)
  BY <1>1, <1>6 DEF Change, server
<1>7. CASE \/ FirstPage \/ PreviousPage \/ NextPage \/ LastPage
           \/ \E s \in DOMAIN Found : Search(s)
           \/ \E s \in Sort : SortBy(s)
  BY <1>6, <1>7 DEF FirstPage, PreviousPage, NextPage, LastPage, Search, SortBy
<1>8. CASE UNCHANGED vars
  BY <1>1, <1>8 DEF vars
<1> QED
  BY <1>2, <1>3, <1>4, <1>5, <1>7, <1>8 DEF Next

LEMMA InitBuffers == Init => BufferInv
<1> SUFFICES ASSUME Init PROVE BufferInv
  OBVIOUS
<1>1. \E n \in Sizes : TRUE
  OBVIOUS
<1>2. SizeKnown
  <2> DEFINE n == CHOOSE n \in Sizes : TRUE
  <2>1. n \in Sizes
    BY <1>1
  <2> HIDE DEF n
  <2>2. convar = [ui |-> TRUE, size |-> n, debug |-> Off] /\ logSize = n /\ largest = 0
    BY DEF Init, n
  <2> QED
    BY <2>1, <2>2 DEF SizeKnown, KnownSizes
<1>3. BucketsKnown /\ BufferKeepsNewest
  <2>1. log = <<>> /\ DOMAIN log = {} /\ accepted = [r \in Resource |-> 0]
    BY DEF Init
  <2> QED
    BY <2>1 DEF BucketsKnown, BufferKeepsNewest
<1> QED
  BY <1>2, <1>3 DEF BufferInv

\* However the size changes under the buffers (readConfig runs at any time,
\* and mysql_debug swaps in a size of its own), each keeps the newest entries
\* of its resource in order and without a gap, and drops none for which the
\* size of the moment has room.
THEOREM BuffersKeepNewest == Spec => []BufferKeepsNewest
<1>1. BufferInv => BufferKeepsNewest
  BY DEF BufferInv
<1> QED
  BY <1>1, InitBuffers, NextKeepsBuffers, PTL DEF Spec

-----------------------------------------------------------------------------
(* The window *)

IsSeq(s) == \E S : s \in Seq(S)

\* The window's variables are the records and sequences they are built as, and
\* the resources it lists have buffers.
Shapes == /\ view = [visible |-> view.visible, route |-> view.route, resources |-> view.resources]
          /\ table = [page |-> table.page, search |-> table.search, sort |-> table.sort,
                      maxPage |-> table.maxPage, shown |-> table.shown]
          /\ IsSeq(timers) /\ IsSeq(requests) /\ IsSeq(replies)
          /\ view.resources \subseteq DOMAIN log
          /\ view.route \in DOMAIN log \cup {Root}

\* The fetch an open page stands for is the last one under way, at whatever
\* stage it is, or has been answered last.
Due == Fetch(view.route, table)
FetchUnderWay ==
    Mounted(view) =>
        \/ timers # <<>> /\ Last(timers) = Armed(view.route, table.sort)
        \/ timers = <<>> /\ requests # <<>> /\ Last(requests) = Due
        \/ timers = <<>> /\ requests = <<>> /\ replies # <<>> /\ Last(replies).of = Due
        \/ timers = <<>> /\ requests = <<>> /\ replies = <<>> /\ table.shown.of = Due

WindowInv == Shapes /\ FetchUnderWay

LEMMA AppendLast ==
    ASSUME NEW s, IsSeq(s), NEW x
    PROVE  IsSeq(Append(s, x)) /\ Append(s, x) # <<>> /\ Last(Append(s, x)) = x
<1>1. PICK S : s \in Seq(S)
  BY DEF IsSeq
<1>2. s \in Seq(S \cup {x}) /\ x \in S \cup {x}
  BY <1>1
<1>3. Append(s, x) \in Seq(S \cup {x}) /\ Append(s, x) # <<>> /\ Last(Append(s, x)) = x
  BY <1>2 DEF Last
<1> QED
  BY <1>3 DEF IsSeq

LEMMA TailLast ==
    ASSUME NEW s, IsSeq(s), s # <<>>
    PROVE  /\ IsSeq(Tail(s))
           /\ Tail(s) # <<>> => Last(Tail(s)) = Last(s)
           /\ Tail(s) = <<>> => Head(s) = Last(s)
<1>1. PICK S : s \in Seq(S)
  BY DEF IsSeq
<1>2. Tail(s) \in Seq(S)
  BY <1>1
<1>3. Tail(s) # <<>> => Last(Tail(s)) = Last(s)
  BY <1>1 DEF Last
<1>4. ASSUME Tail(s) = <<>> PROVE Head(s) = Last(s)
  <2> DEFINE t == Tail(s)
  <2>1. Len(s) \in Nat /\ Len(s) # 0
    BY <1>1
  <2>2. Len(t) = Len(s) - 1 /\ t = <<>>
    BY <1>1, <1>4
  <2> HIDE DEF t
  <2>3. Len(t) = 0
    BY <2>2
  <2>4. Len(s) = 1
    BY <2>1, <2>2, <2>3
  <2>5. Head(s) = s[1]
    BY <1>1
  <2> QED
    BY <2>4, <2>5 DEF Last
<1> QED
  BY <1>2, <1>3, <1>4 DEF IsSeq

LEMMA LateIsSeq == ASSUME IsSeq(timers) PROVE IsSeq(Late)
<1>1. CASE timers # <<>> /\ Last(timers).own
  <2>1. PICK S : timers \in Seq(S)
    BY DEF IsSeq
  <2>2. Front(timers) \in Seq(S)
    BY <1>1, <2>1 DEF Front
  <2> QED
    BY <1>1, <2>2 DEF Late, IsSeq
<1>2. CASE ~(timers # <<>> /\ Last(timers).own)
  BY <1>2 DEF Late
<1> QED
  BY <1>1, <1>2

\* A step of the server leaves the window as it is, and buffers stay.
LEMMA ServerStepKeepsWindow ==
    ASSUME WindowInv, DOMAIN log \subseteq DOMAIN log',
           UNCHANGED <<view, table, timers, requests, replies>>
    PROVE  WindowInv'
<1>1. Shapes'
  BY DEF WindowInv, Shapes
<1>2. FetchUnderWay'
  BY DEF WindowInv, FetchUnderWay, Due
<1> QED
  BY <1>1, <1>2 DEF WindowInv

LEMMA FetchResourceKeepsWindow ==
    ASSUME WindowInv, FetchResource
    PROVE  WindowInv'
<1> DEFINE f == Head(requests)
<1>1. /\ UNCHANGED <<log, view, table, timers>> /\ requests # <<>>
      /\ requests' = Tail(requests)
      /\ replies' = IF f.resource \in DOMAIN log THEN Append(replies, PageOf(f)) ELSE replies
  BY DEF FetchResource, server, window
<1>2. /\ IsSeq(requests')
      /\ requests' # <<>> => Last(requests') = Last(requests)
      /\ requests' = <<>> => f = Last(requests)
  BY <1>1, TailLast DEF WindowInv, Shapes
<1>3. /\ IsSeq(replies')
      /\ f.resource \in DOMAIN log => replies' # <<>> /\ Last(replies').of = f
  <2>1. PageOf(f).of = f
    BY DEF PageOf
  <2>2. IsSeq(replies)
    BY DEF WindowInv, Shapes
  <2> HIDE DEF f
  <2> QED
    BY <1>1, <2>1, <2>2, AppendLast
<1> HIDE DEF f
<1>4. Shapes'
  BY <1>1, <1>2, <1>3 DEF WindowInv, Shapes
<1>5. FetchUnderWay'
  <2> SUFFICES ASSUME Mounted(view)
               PROVE  \/ timers # <<>> /\ Last(timers) = Armed(view.route, table.sort)
                      \/ timers = <<>> /\ requests' # <<>> /\ Last(requests') = Due
                      \/ timers = <<>> /\ requests' = <<>> /\ replies' # <<>> /\ Last(replies').of = Due
    BY <1>1 DEF FetchUnderWay, Due
  <2>1. Due.resource = view.route /\ view.route \in DOMAIN log
    BY DEF Due, Fetch, Mounted, WindowInv, Shapes
  <2> QED
    BY <1>1, <1>2, <1>3, <2>1 DEF WindowInv, FetchUnderWay
<1> QED
  BY <1>4, <1>5 DEF WindowInv

LEMMA TimerFiresKeepsWindow ==
    ASSUME WindowInv, TimerFires
    PROVE  WindowInv'
<1> DEFINE m == Head(timers)
           f == Fetch(m.resource, [table EXCEPT !.sort = m.sort])
<1>1. /\ UNCHANGED <<log, view, table, replies>> /\ timers # <<>>
      /\ timers' = Tail(timers) /\ requests' = Append(requests, f)
  BY DEF TimerFires, server
<1>2. /\ IsSeq(timers')
      /\ timers' # <<>> => Last(timers') = Last(timers)
      /\ timers' = <<>> => m = Last(timers)
  BY <1>1, TailLast DEF WindowInv, Shapes
<1>3. m = Armed(view.route, table.sort) => f = Due
  <2> SUFFICES ASSUME m = Armed(view.route, table.sort) PROVE f = Due
    OBVIOUS
  <2>1. m.resource = view.route /\ m.sort = table.sort
    BY DEF Armed
  <2> HIDE DEF m
  <2>2. [table EXCEPT !.sort = m.sort] = table
    BY <2>1 DEF WindowInv, Shapes
  <2> QED
    BY <2>1, <2>2 DEF Due
<1> HIDE DEF f, m
<1>4. IsSeq(requests') /\ requests' # <<>> /\ Last(requests') = f
  BY <1>1, AppendLast DEF WindowInv, Shapes
<1>5. Shapes'
  BY <1>1, <1>2, <1>4 DEF WindowInv, Shapes
<1>6. FetchUnderWay'
  <2> SUFFICES ASSUME Mounted(view)
               PROVE  \/ timers' # <<>> /\ Last(timers') = Armed(view.route, table.sort)
                      \/ timers' = <<>> /\ requests' # <<>> /\ Last(requests') = Due
    BY <1>1 DEF FetchUnderWay, Due
  <2>1. Last(timers) = Armed(view.route, table.sort)
    BY <1>1 DEF WindowInv, FetchUnderWay
  <2> QED
    BY <1>2, <1>3, <1>4, <2>1
<1> QED
  BY <1>5, <1>6 DEF WindowInv

LEMMA LoadResourceKeepsWindow ==
    ASSUME WindowInv, LoadResource
    PROVE  WindowInv'
<1> DEFINE p == Head(replies)
<1>1. /\ UNCHANGED <<log, view, timers, requests>> /\ replies # <<>> /\ replies' = Tail(replies)
      /\ table' = IF Mounted(view)
                  THEN [table EXCEPT !.maxPage = p.count, !.shown = [rows |-> p.rows, of |-> p.of]]
                  ELSE table
  BY DEF LoadResource, server
<1>2. /\ IsSeq(replies')
      /\ replies' # <<>> => Last(replies') = Last(replies)
      /\ replies' = <<>> => p = Last(replies)
  BY <1>1, TailLast DEF WindowInv, Shapes
<1> HIDE DEF p
<1>3. /\ table' = [page |-> table.page, search |-> table.search, sort |-> table.sort,
                   maxPage |-> table'.maxPage, shown |-> table'.shown]
      /\ Mounted(view) => table'.shown.of = p.of
  BY <1>1 DEF WindowInv, Shapes
<1>4. Shapes'
  <2>1. table' = [page |-> table'.page, search |-> table'.search, sort |-> table'.sort,
                  maxPage |-> table'.maxPage, shown |-> table'.shown]
    BY <1>3
  <2> QED
    BY <1>1, <1>2, <2>1 DEF WindowInv, Shapes
<1>5. Due' = Due /\ table'.sort = table.sort
  <2>1. table'.page = table.page /\ table'.search = table.search /\ table'.sort = table.sort
    BY <1>3
  <2> QED
    BY <1>1, <2>1 DEF Due, Fetch
<1>6. FetchUnderWay'
  BY <1>1, <1>2, <1>3, <1>5 DEF WindowInv, FetchUnderWay
<1> QED
  BY <1>4, <1>6 DEF WindowInv

LEMMA ChangeKeepsWindow ==
    ASSUME WindowInv, NEW t, Change(t),
           t = [page |-> t.page, search |-> t.search, sort |-> t.sort,
                maxPage |-> t.maxPage, shown |-> t.shown]
    PROVE  WindowInv'
<1>1. /\ UNCHANGED <<log, view, requests, replies>> /\ table' = t
      /\ timers' = Append(Late, Armed(view.route, t.sort))
  BY DEF Change, Arm, server
<1>2. /\ IsSeq(timers') /\ timers' # <<>>
      /\ Last(timers') = Armed(view.route, t.sort)
  BY <1>1, LateIsSeq, AppendLast DEF WindowInv, Shapes
<1>3. Shapes'
  BY <1>1, <1>2 DEF WindowInv, Shapes
<1>4. FetchUnderWay'
  BY <1>1, <1>2 DEF FetchUnderWay, Due
<1> QED
  BY <1>3, <1>4 DEF WindowInv

LEMMA MoveKeepsWindow ==
    ASSUME WindowInv, NEW v, Move(v), UNCHANGED <<log, requests, replies>>,
           v = [visible |-> v.visible, route |-> v.route, resources |-> v.resources],
           v.resources \subseteq DOMAIN log, v.route \in DOMAIN log \cup {Root},
           Mounted(v) /\ Mounted(view) => v.route = view.route
    PROVE  WindowInv'
<1>1. CASE Mounted(v) /\ ~Mounted(view)
  <2>1. /\ view' = v /\ table' = Fresh
        /\ timers' = Append(timers, Armed(v.route, None))
    BY <1>1 DEF Move
  <2>2. /\ IsSeq(timers') /\ timers' # <<>>
        /\ Last(timers') = Armed(v.route, Fresh.sort)
    BY <2>1, AppendLast DEF WindowInv, Shapes, Fresh
  <2>3. Shapes'
    BY <2>1, <2>2 DEF WindowInv, Shapes, Fresh
  <2>4. FetchUnderWay'
    BY <2>1, <2>2 DEF FetchUnderWay, Due
  <2> QED
    BY <2>3, <2>4 DEF WindowInv
<1>2. CASE Mounted(view) /\ ~Mounted(v)
  <2> DEFINE g(m) == [m EXCEPT !.own = FALSE]
  <2>1. /\ view' = v /\ table' = [Fresh EXCEPT !.search = table.search]
        /\ timers' = [i \in DOMAIN timers |-> g(timers[i])]
    BY <1>2 DEF Move
  <2> HIDE DEF g
  <2>2. IsSeq(timers')
    <3>1. PICK S : timers \in Seq(S)
      BY DEF WindowInv, Shapes, IsSeq
    <3>2. timers' \in Seq({g(m) : m \in S})
      BY <2>1, <3>1
    <3> QED
      BY <3>2 DEF IsSeq
  <2>3. Shapes'
    BY <2>1, <2>2 DEF WindowInv, Shapes, Fresh
  <2>4. FetchUnderWay'
    BY <1>2, <2>1 DEF FetchUnderWay
  <2> QED
    BY <2>3, <2>4 DEF WindowInv
<1>3. CASE Mounted(v) <=> Mounted(view)
  <2>1. view' = v /\ table' = table /\ timers' = timers
    BY <1>3 DEF Move
  <2>2. Shapes'
    BY <2>1 DEF WindowInv, Shapes
  <2>3. FetchUnderWay'
    <3>1. CASE ~Mounted(v)
      BY <2>1, <3>1 DEF FetchUnderWay
    <3>2. CASE Mounted(v)
      <4>1. Due' = Due
        BY <1>3, <2>1, <3>2 DEF Due
      <4> QED
        BY <1>3, <2>1, <3>2, <4>1 DEF WindowInv, FetchUnderWay
    <3> QED
      BY <3>1, <3>2
  <2> QED
    BY <2>2, <2>3 DEF WindowInv
<1> QED
  BY <1>1, <1>2, <1>3

\* What EXCEPT makes of the window's two records.
ViewOf(a, b, c) == [visible |-> a, route |-> b, resources |-> c]
Shown(w, x, y) == [w EXCEPT !.visible = x, !.resources = y]
Hidden(w, x) == [w EXCEPT !.visible = x]
TableOf(a, b, c, d, e) == [page |-> a, search |-> b, sort |-> c, maxPage |-> d, shown |-> e]
Edited(w, p, q, o) == [w EXCEPT !.page = p, !.search = q, !.sort = o]

LEMMA ViewExcept ==
    ASSUME NEW w, NEW a, NEW b, NEW c, NEW x, NEW y, w = ViewOf(a, b, c)
    PROVE  Hidden(w, x) = ViewOf(x, b, c) /\ Shown(w, x, y) = ViewOf(x, b, y)
<1> DEFINE w1 == [w EXCEPT !.visible = x]
<1>1. w1 = [visible |-> x, route |-> b, resources |-> c]
  BY DEF ViewOf
<1>2. [w EXCEPT !.visible = x, !.resources = y] = [w1 EXCEPT !.resources = y]
  OBVIOUS
<1>3. w1 = Hidden(w, x)
  BY DEF Hidden
<1> HIDE DEF w1
<1>4. [w1 EXCEPT !.resources = y] = [visible |-> x, route |-> b, resources |-> y]
  BY <1>1
<1> QED
  BY <1>1, <1>2, <1>3, <1>4 DEF ViewOf, Shown

LEMMA TableExcept ==
    ASSUME NEW w, NEW a, NEW b, NEW c, NEW d, NEW e, NEW p, NEW q, NEW o,
           w = TableOf(a, b, c, d, e)
    PROVE  Edited(w, p, q, o) = TableOf(p, q, o, d, e)
<1> DEFINE w1 == [w EXCEPT !.page = p]
           w2 == [w1 EXCEPT !.search = q]
<1>1. w1 = [page |-> p, search |-> b, sort |-> c, maxPage |-> d, shown |-> e]
  BY DEF TableOf
<1>2. [w EXCEPT !.page = p, !.search = q, !.sort = o] = [w2 EXCEPT !.sort = o]
  OBVIOUS
<1> HIDE DEF w1
<1>3. w2 = [page |-> p, search |-> q, sort |-> c, maxPage |-> d, shown |-> e]
  BY <1>1
<1> HIDE DEF w2
<1>4. [w2 EXCEPT !.sort = o] = [page |-> p, search |-> q, sort |-> o, maxPage |-> d, shown |-> e]
  BY <1>3
<1> QED
  BY <1>2, <1>4 DEF TableOf, Edited

LEMMA NextKeepsWindow == WindowInv /\ [Next]_vars => WindowInv'
<1> SUFFICES ASSUME WindowInv, [Next]_vars PROVE WindowInv'
  OBVIOUS
<1>1. CASE FetchResource \/ TimerFires \/ LoadResource
  BY <1>1, FetchResourceKeepsWindow, TimerFiresKeepsWindow, LoadResourceKeepsWindow
<1>2. CASE Open
  <2> DEFINE on == TRUE
             v == Shown(view, on, DOMAIN log)
  <2>1. Move(v) /\ UNCHANGED <<log, requests, replies>> /\ view.route \in DOMAIN log \cup {Root}
    BY <1>2 DEF Open, server, WindowInv, Shapes, Shown
  <2> HIDE DEF on
  <2>2. view = ViewOf(view.visible, view.route, view.resources)
    BY DEF WindowInv, Shapes, ViewOf
  <2>3. v = ViewOf(on, view.route, DOMAIN log)
    BY <2>2, ViewExcept
  <2> HIDE DEF v
  <2>4. v = [visible |-> on, route |-> view.route, resources |-> DOMAIN log]
    BY <2>3 DEF ViewOf
  <2> QED
    BY <2>1, <2>4, MoveKeepsWindow
<1>3. ASSUME NEW r \in Resource, Visit(r) PROVE WindowInv'
  <2> DEFINE v == [view EXCEPT !.route = r]
  <2>1. v = [visible |-> view.visible, route |-> r, resources |-> view.resources]
    BY DEF WindowInv, Shapes
  <2>2. /\ Move(v) /\ UNCHANGED <<log, requests, replies>> /\ r \in view.resources
        /\ view.resources \subseteq DOMAIN log /\ view.route = Root
    BY <1>3 DEF Visit, server, WindowInv, Shapes
  <2> HIDE DEF v
  <2> QED
    BY <2>1, <2>2, MoveKeepsWindow DEF Mounted
<1>4. CASE Back
  <2> DEFINE v == [view EXCEPT !.route = Root]
  <2>1. v = [visible |-> view.visible, route |-> Root, resources |-> view.resources]
    BY DEF WindowInv, Shapes
  <2>2. /\ Move(v) /\ UNCHANGED <<log, requests, replies>> /\ view.resources \subseteq DOMAIN log
    BY <1>4 DEF Back, server, WindowInv, Shapes
  <2> HIDE DEF v
  <2> QED
    BY <2>1, <2>2, MoveKeepsWindow DEF Mounted
<1>5. CASE Escape
  <2> DEFINE on == FALSE
             v == Hidden(view, on)
  <2>1. /\ Move(v) /\ UNCHANGED <<log, requests, replies>> /\ view.resources \subseteq DOMAIN log
        /\ view.route \in DOMAIN log \cup {Root}
    BY <1>5 DEF Escape, server, WindowInv, Shapes, Hidden
  <2> HIDE DEF on
  <2>2. view = ViewOf(view.visible, view.route, view.resources)
    BY DEF WindowInv, Shapes, ViewOf
  <2>3. v = ViewOf(on, view.route, view.resources)
    BY <2>2, ViewExcept
  <2> HIDE DEF v
  <2>4. v = [visible |-> on, route |-> view.route, resources |-> view.resources]
    BY <2>3 DEF ViewOf
  <2> QED
    BY <2>1, <2>4, MoveKeepsWindow
<1>6. ASSUME NEW p, NEW q, NEW o, Change([table EXCEPT !.page = p, !.search = q, !.sort = o])
      PROVE  WindowInv'
  <2> DEFINE t == Edited(table, p, q, o)
  <2>1. Change(t)
    BY <1>6 DEF Edited
  <2>2. table = TableOf(table.page, table.search, table.sort, table.maxPage, table.shown)
    BY DEF WindowInv, Shapes, TableOf
  <2>3. t = TableOf(p, q, o, table.maxPage, table.shown)
    BY <2>2, TableExcept
  <2> HIDE DEF t
  <2>4. t = [page |-> p, search |-> q, sort |-> o, maxPage |-> table.maxPage, shown |-> table.shown]
    BY <2>3 DEF TableOf
  <2> QED
    BY <2>1, <2>4, ChangeKeepsWindow
<1>7. /\ \A p : [table EXCEPT !.page = p]
                   = [table EXCEPT !.page = p, !.search = table.search, !.sort = table.sort]
      /\ \A s : [table EXCEPT !.search = s, !.page = 0]
                   = [table EXCEPT !.page = 0, !.search = s, !.sort = table.sort]
      /\ \A s : [table EXCEPT !.sort = s]
                   = [table EXCEPT !.page = table.page, !.search = table.search, !.sort = s]
  BY DEF WindowInv, Shapes
<1>8. CASE FirstPage \/ PreviousPage \/ NextPage \/ LastPage
  <2>1. PICK p : Change([table EXCEPT !.page = p])
    BY <1>8 DEF FirstPage, PreviousPage, NextPage, LastPage
  <2>2. Change([table EXCEPT !.page = p, !.search = table.search, !.sort = table.sort])
    BY <1>7, <2>1
  <2> QED
    BY <1>6, <2>2
<1>9. ASSUME NEW s, Search(s) \/ SortBy(s) PROVE WindowInv'
  <2>1. \/ Change([table EXCEPT !.page = 0, !.search = s, !.sort = table.sort])
        \/ Change([table EXCEPT !.page = table.page, !.search = table.search, !.sort = s])
    BY <1>7, <1>9 DEF Search, SortBy
  <2> QED
    BY <1>6, <2>1
<1>10. CASE \/ SetConvar \/ \E r \in Resource : oxmysql_debug(r)
            \/ \E r \in Resource, s \in Sample : logQuery(r, s)
            \/ UNCHANGED vars
  <2>1. UNCHANGED <<view, table, timers, requests, replies>> /\ DOMAIN log \subseteq DOMAIN log'
    BY <1>10 DEF SetConvar, oxmysql_debug, logQuery, vars, window
  <2> QED
    BY <2>1, ServerStepKeepsWindow
<1> QED
  BY <1>1, <1>2, <1>3, <1>4, <1>5, <1>8, <1>9, <1>10 DEF Next

LEMMA InitWindow == Init => WindowInv
<1> SUFFICES ASSUME Init PROVE WindowInv
  OBVIOUS
<1>1. /\ view = [visible |-> FALSE, route |-> Root, resources |-> {}] /\ table = Fresh
      /\ timers = <<>> /\ requests = <<>> /\ replies = <<>>
  BY DEF Init
<1>2. <<>> \in Seq({})
  OBVIOUS
<1>3. Shapes
  BY <1>1, <1>2 DEF Shapes, Fresh, IsSeq
<1>4. FetchUnderWay
  BY <1>1 DEF FetchUnderWay, Mounted
<1> QED
  BY <1>3, <1>4 DEF WindowInv

-----------------------------------------------------------------------------
(* What a page holds *)

Measured(s, I) == \A i \in I : s[i].text \in Nat /\ s[i].time \in Nat

\* The order of entries is strict and total, however they are sorted: no two
\* have the same place.
LEMMA BeforeIsOrder ==
    ASSUME NEW s, NEW sort, NEW I \in SUBSET Nat, Measured(s, I)
    PROVE  \A i, j \in I : /\ ~(Before(s, sort, i, j) /\ Before(s, sort, j, i))
                           /\ i # j => Before(s, sort, i, j) \/ Before(s, sort, j, i)
                           /\ \A k \in I : Before(s, sort, i, j) /\ Before(s, sort, j, k)
                                             => Before(s, sort, i, k)
<1> SUFFICES ASSUME NEW i \in I, NEW j \in I
             PROVE  /\ ~(Before(s, sort, i, j) /\ Before(s, sort, j, i))
                    /\ i # j => Before(s, sort, i, j) \/ Before(s, sort, j, i)
                    /\ \A k \in I : Before(s, sort, i, j) /\ Before(s, sort, j, k)
                                      => Before(s, sort, i, k)
  OBVIOUS
<1>1. \A x, y \in I : Smaller(s, sort.id, x, y)
         <=> IF sort.id = "query" THEN s[x].text < s[y].text \/ (s[x].text = s[y].text /\ y < x)
             ELSE s[x].time < s[y].time \/ (s[x].time = s[y].time /\ x < y)
  BY DEF Smaller
<1>2. \A x \in I : x \in Nat /\ s[x].text \in Nat /\ s[x].time \in Nat
  BY DEF Measured
<1>3. \A x, y \in I : /\ ~(Smaller(s, sort.id, x, y) /\ Smaller(s, sort.id, y, x))
                      /\ x # y => Smaller(s, sort.id, x, y) \/ Smaller(s, sort.id, y, x)
                      /\ \A z \in I : Smaller(s, sort.id, x, y) /\ Smaller(s, sort.id, y, z)
                                        => Smaller(s, sort.id, x, z)
  <2>1. CASE sort.id = "query"
    <3>1. \A x, y \in I : Smaller(s, sort.id, x, y)
             <=> s[x].text < s[y].text \/ (s[x].text = s[y].text /\ y < x)
      BY <1>1, <2>1
    <3>2. ASSUME NEW x \in I, NEW y \in I
          PROVE  ~(Smaller(s, sort.id, x, y) /\ Smaller(s, sort.id, y, x))
      <4>1. s[x].text \in Nat /\ s[y].text \in Nat /\ x \in Nat /\ y \in Nat
        BY <1>2
      <4> QED
        BY <3>1, <4>1
    <3>3. ASSUME NEW x \in I, NEW y \in I, x # y
          PROVE  Smaller(s, sort.id, x, y) \/ Smaller(s, sort.id, y, x)
      <4>1. s[x].text \in Nat /\ s[y].text \in Nat /\ x \in Nat /\ y \in Nat
        BY <1>2
      <4> QED
        BY <3>1, <3>3, <4>1
    <3>4. ASSUME NEW x \in I, NEW y \in I, NEW z \in I,
                 Smaller(s, sort.id, x, y), Smaller(s, sort.id, y, z)
          PROVE  Smaller(s, sort.id, x, z)
      <4>1. /\ s[x].text \in Nat /\ s[y].text \in Nat /\ s[z].text \in Nat
            /\ x \in Nat /\ y \in Nat /\ z \in Nat
        BY <1>2
      <4> QED
        BY <3>1, <3>4, <4>1
    <3> QED
      BY <3>2, <3>3, <3>4
  <2>2. CASE sort.id # "query"
    <3>1. \A x, y \in I : Smaller(s, sort.id, x, y)
             <=> s[x].time < s[y].time \/ (s[x].time = s[y].time /\ x < y)
      BY <1>1, <2>2
    <3>2. ASSUME NEW x \in I, NEW y \in I
          PROVE  ~(Smaller(s, sort.id, x, y) /\ Smaller(s, sort.id, y, x))
      <4>1. s[x].time \in Nat /\ s[y].time \in Nat /\ x \in Nat /\ y \in Nat
        BY <1>2
      <4> QED
        BY <3>1, <4>1
    <3>3. ASSUME NEW x \in I, NEW y \in I, x # y
          PROVE  Smaller(s, sort.id, x, y) \/ Smaller(s, sort.id, y, x)
      <4>1. s[x].time \in Nat /\ s[y].time \in Nat /\ x \in Nat /\ y \in Nat
        BY <1>2
      <4> QED
        BY <3>1, <3>3, <4>1
    <3>4. ASSUME NEW x \in I, NEW y \in I, NEW z \in I,
                 Smaller(s, sort.id, x, y), Smaller(s, sort.id, y, z)
          PROVE  Smaller(s, sort.id, x, z)
      <4>1. /\ s[x].time \in Nat /\ s[y].time \in Nat /\ s[z].time \in Nat
            /\ x \in Nat /\ y \in Nat /\ z \in Nat
        BY <1>2
      <4> QED
        BY <3>1, <3>4, <4>1
    <3> QED
      BY <3>2, <3>3, <3>4
  <2> QED
    BY <2>1, <2>2
<1>4. CASE sort = None
  <2>1. \A x, y \in I : Before(s, sort, x, y) <=> x < y
    BY <1>4 DEF Before
  <2>2. i \in Nat /\ j \in Nat
    BY <1>2
  <2>3. ASSUME NEW k \in I, Before(s, sort, i, j), Before(s, sort, j, k) PROVE Before(s, sort, i, k)
    <3>1. k \in Nat
      BY <1>2
    <3> QED
      BY <2>1, <2>2, <2>3, <3>1
  <2> QED
    BY <2>1, <2>2, <2>3
<1>5. CASE sort # None /\ sort.desc
  <2>1. \A x, y \in I : Before(s, sort, x, y) <=> Smaller(s, sort.id, y, x)
    BY <1>5 DEF Before
  <2> QED
    BY <1>3, <2>1
<1>6. CASE sort # None /\ ~sort.desc
  <2>1. \A x, y \in I : Before(s, sort, x, y) <=> Smaller(s, sort.id, x, y)
    BY <1>6 DEF Before
  <2> QED
    BY <1>3, <2>1
<1> QED
  BY <1>4, <1>5, <1>6

\* Sorting moves entries and drops none: each of the places I is the origin of
\* one entry of the result.
LEMMA SortMoves ==
    ASSUME NEW s, NEW sort, NEW I \in SUBSET Nat, IsFiniteSet(I), Measured(s, I)
    PROVE  \E c \in [1..Cardinality(I) -> I] :
              /\ sortQueries(s, I, sort) = [k \in 1..Cardinality(I) |-> s[c[k]]]
              /\ \A k, m \in 1..Cardinality(I) : c[k] = c[m] => k = m
<1> DEFINE n == Cardinality(I)
           earlier(i) == {j \in I : Before(s, sort, j, i)}
           place(i) == Cardinality(earlier(i)) + 1
           h == [i \in I |-> place(i)]
<1>1. n \in Nat
  BY FS_CardinalityType
<1>2. ASSUME NEW i \in I
      PROVE  /\ IsFiniteSet(earlier(i)) /\ i \notin earlier(i)
             /\ Cardinality(earlier(i)) \in Nat /\ Cardinality(earlier(i)) < n
  <2>1. earlier(i) \in SUBSET I /\ i \notin earlier(i)
    BY BeforeIsOrder
  <2> HIDE DEF earlier
  <2>2. IsFiniteSet(earlier(i)) /\ Cardinality(earlier(i)) <= n /\ Cardinality(earlier(i)) # n
    BY <2>1, FS_Subset
  <2>3. Cardinality(earlier(i)) \in Nat
    BY <2>2, FS_CardinalityType
  <2> HIDE DEF n
  <2> QED
    BY <1>1, <2>1, <2>2, <2>3
<1>3. ASSUME NEW i \in I, NEW j \in I, Before(s, sort, i, j)
      PROVE  Cardinality(earlier(i)) < Cardinality(earlier(j))
  <2>1. earlier(i) \in SUBSET earlier(j)
    <3>1. ASSUME NEW x \in I, Before(s, sort, x, i) PROVE Before(s, sort, x, j)
      BY <1>3, <3>1, BeforeIsOrder
    <3> QED
      BY <3>1
  <2>2. i \in earlier(j)
    BY <1>3
  <2>3. IsFiniteSet(earlier(j)) /\ i \notin earlier(i) /\ Cardinality(earlier(i)) \in Nat
        /\ Cardinality(earlier(j)) \in Nat
    BY <1>2
  <2> HIDE DEF earlier
  <2>4. /\ Cardinality(earlier(i)) <= Cardinality(earlier(j))
        /\ Cardinality(earlier(i)) # Cardinality(earlier(j))
    BY <2>1, <2>2, <2>3, FS_Subset
  <2> QED
    BY <2>3, <2>4
<1>4. ASSUME NEW i \in I, NEW j \in I, place(i) = place(j) PROVE i = j
  <2>1. Cardinality(earlier(i)) \in Nat /\ Cardinality(earlier(j)) \in Nat
    BY <1>2
  <2>2. Before(s, sort, i, j) => Cardinality(earlier(i)) < Cardinality(earlier(j))
    BY <1>3
  <2>3. Before(s, sort, j, i) => Cardinality(earlier(j)) < Cardinality(earlier(i))
    BY <1>3
  <2>4. i # j => Before(s, sort, i, j) \/ Before(s, sort, j, i)
    BY BeforeIsOrder
  <2> HIDE DEF earlier
  <2> QED
    BY <1>4, <2>1, <2>2, <2>3, <2>4
<1>5. \A i \in I : place(i) \in 1..n
  <2> SUFFICES ASSUME NEW i \in I PROVE place(i) \in 1..n
    OBVIOUS
  <2>1. Cardinality(earlier(i)) \in Nat /\ Cardinality(earlier(i)) < n
    BY <1>2
  <2> HIDE DEF earlier, n
  <2> QED
    BY <1>1, <2>1
<1>6. sortQueries(s, I, sort) = [k \in 1..n |-> s[CHOOSE i \in I : place(i) = k]]
  BY DEF sortQueries
<1> HIDE DEF place
<1>7. h \in Injection(I, 1..n)
  BY <1>4, <1>5 DEF Injection, IsInjective
<1>8. IsFiniteSet(1..n) /\ Cardinality(1..n) = n
  BY <1>1, FS_Interval
<1>9. h \in Surjection(I, 1..n)
  <2> HIDE DEF h
  <2> QED
    BY <1>7, <1>8, FS_Injection
<1>10. \A k \in 1..n : \E i \in I : place(i) = k
  BY <1>9 DEF Surjection
<1> DEFINE c == [k \in 1..n |-> CHOOSE i \in I : place(i) = k]
<1>11. \A k \in 1..n : c[k] \in I /\ place(c[k]) = k
  BY <1>10
<1>12. c \in [1..n -> I] /\ sortQueries(s, I, sort) = [k \in 1..n |-> s[c[k]]]
  BY <1>6, <1>11
<1> HIDE DEF c
<1>13. \A k, m \in 1..n : c[k] = c[m] => k = m
  BY <1>11
<1> QED
  BY <1>12, <1>13

LEMMA SubSeqAfter ==
    ASSUME NEW S, NEW s, NEW a \in Nat, NEW b \in Nat, \A i \in (a + 1)..b : s[i] \in S
    PROVE  /\ SubSeq(s, a + 1, b) \in Seq(S)
           /\ Len(SubSeq(s, a + 1, b)) = IF a + 1 <= b THEN b - a ELSE 0
           /\ \A k \in 1..(b - a) : SubSeq(s, a + 1, b)[k] = s[k + a]
<1>1. a + 1 \in Int /\ b \in Int /\ b - (a + 1) + 1 = b - a
  OBVIOUS
<1>2. /\ SubSeq(s, a + 1, b) \in Seq(S)
      /\ Len(SubSeq(s, a + 1, b)) = IF a + 1 <= b THEN b - a ELSE 0
      /\ \A k \in 1..(b - a) : SubSeq(s, a + 1, b)[k] = s[(a + 1) + k - 1]
  BY <1>1, SubSeqProperties
<1>3. \A k \in 1..(b - a) : (a + 1) + k - 1 = k + a
  OBVIOUS
<1> QED
  BY <1>2, <1>3

\* A slice of no more entries than its bounds are apart, each of them at a place
\* of its own.
LEMMA SliceShape ==
    ASSUME NEW s, Len(s) \in Nat, NEW from \in Int, NEW to \in Int, from <= to
    PROVE  /\ Len(Slice(s, from, to)) \in Nat
           /\ Len(Slice(s, from, to)) <= to - from
           /\ DOMAIN Slice(s, from, to) = 1..Len(Slice(s, from, to))
           /\ \E d \in Int : \A k \in DOMAIN Slice(s, from, to) :
                 k + d \in 1..Len(s) /\ Slice(s, from, to)[k] = s[k + d]
<1> DEFINE at(k) == IF k < 0 THEN (IF Len(s) + k > 0 THEN Len(s) + k ELSE 0)
                    ELSE (IF k < Len(s) THEN k ELSE Len(s))
           a == at(from)
           b == at(to)
           r == Slice(s, from, to)
           S == {s[k] : k \in 1..Len(s)}
<1>1. r = SubSeq(s, a + 1, b)
  BY DEF Slice
<1>2. a \in Nat /\ b \in Nat /\ b <= Len(s)
  OBVIOUS
<1>3. b - a <= to - from
  OBVIOUS
<1> HIDE DEF a, b
<1>4. \A k \in (a + 1)..b : s[k] \in S
  BY <1>2
<1> HIDE DEF S, r
<1>5. /\ r \in Seq(S) /\ Len(r) = IF a + 1 <= b THEN b - a ELSE 0
      /\ \A k \in 1..(b - a) : r[k] = s[k + a]
  <2>1. /\ SubSeq(s, a + 1, b) \in Seq(S)
        /\ Len(SubSeq(s, a + 1, b)) = IF a + 1 <= b THEN b - a ELSE 0
        /\ \A k \in 1..(b - a) : SubSeq(s, a + 1, b)[k] = s[k + a]
    BY <1>2, <1>4, SubSeqAfter
  <2> QED
    BY <1>1, <2>1
<1>6. Len(r) \in Nat /\ DOMAIN r = 1..Len(r) /\ Len(r) <= to - from
  BY <1>2, <1>3, <1>5
<1>7. \A k \in DOMAIN r : k + a \in 1..Len(s) /\ r[k] = s[k + a]
  <2> SUFFICES ASSUME NEW k \in DOMAIN r PROVE k + a \in 1..Len(s) /\ r[k] = s[k + a]
    OBVIOUS
  <2>1. k \in 1..Len(r) /\ a + 1 <= b
    BY <1>2, <1>5, <1>6
  <2>2. k \in Int /\ 1 <= k /\ k <= b - a
    BY <1>2, <1>5, <2>1
  <2>3. k \in 1..(b - a) /\ k + a \in 1..Len(s)
    BY <1>2, <2>2
  <2> QED
    BY <1>5, <2>3
<1> QED
  BY <1>2, <1>6, <1>7 DEF r
-----------------------------------------------------------------------------
(* The rows of an answer *)

\* An entry has a text and a time that sorting can compare.
EntriesKnown == \A r \in DOMAIN log : Measured(log[r], DOMAIN log[r])

LEMMA EntriesStayKnown ==
    ASSUME BufferInv, EntriesKnown, [Next]_vars
    PROVE  EntriesKnown'
<1>1. CASE log' = log
  BY <1>1 DEF EntriesKnown, Measured
<1>2. ASSUME NEW r \in Resource, NEW s \in Sample, logQuery(r, s) PROVE EntriesKnown'
  <2> DEFINE k == Kept(r)
             e == Entry(r, accepted[r] + 1, s)
  <2>1. log' = [x \in DOMAIN log \cup {r} |-> IF x = r THEN Append(k, e) ELSE log[x]]
    BY <1>2 DEF logQuery
  <2>2. e.text \in Nat /\ e.time \in Nat
    BY DEF Entry
  <2>3. Measured(k, DOMAIN k)
    <3> DEFINE b == Bucket(r)
    <3>1. Measured(b, DOMAIN b) /\ IsSeq(b)
      <4>1. CASE r \in DOMAIN log
        BY <4>1 DEF Bucket, EntriesKnown, BufferInv, BucketsKnown, IsSeq
      <4>2. CASE r \notin DOMAIN log
        <5>1. b = <<>> /\ <<>> \in Seq({}) /\ DOMAIN <<>> = {}
          BY <4>2 DEF Bucket
        <5> HIDE DEF b
        <5> QED
          BY <5>1 DEF Measured, IsSeq
      <4> QED
        BY <4>1, <4>2
    <3>2. k = IF Len(b) > logSize THEN Tail(b) ELSE b
      BY DEF Kept
    <3>3. logSize \in Nat
      BY DEF BufferInv, SizeKnown, KnownSizes
    <3> HIDE DEF b, k
    <3>4. PICK S : b \in Seq(S)
      BY <3>1 DEF IsSeq
    <3>5. \A i \in DOMAIN k : \/ k[i] = b[i] /\ i \in DOMAIN b
                              \/ k[i] = b[i + 1] /\ i + 1 \in DOMAIN b
      BY <3>2, <3>3, <3>4
    <3> QED
      BY <3>1, <3>5 DEF Measured
  <2>4. IsSeq(k)
    BY KeptShape DEF IsSeq
  <2> HIDE DEF k, e
  <2>5. PICK S : k \in Seq(S)
    BY <2>4 DEF IsSeq
  <2>6. \A i \in DOMAIN Append(k, e) : \/ i \in DOMAIN k /\ Append(k, e)[i] = k[i]
                                       \/ Append(k, e)[i] = e
    <3>1. k \in Seq(S \cup {e}) /\ e \in S \cup {e}
      BY <2>5
    <3> QED
      BY <3>1
  <2>7. Measured(Append(k, e), DOMAIN Append(k, e))
    BY <2>2, <2>3, <2>6 DEF Measured
  <2>8. /\ DOMAIN log' = DOMAIN log \cup {r} /\ log'[r] = Append(k, e)
        /\ \A x \in DOMAIN log' : x # r => x \in DOMAIN log /\ log'[x] = log[x]
    BY <2>1
  <2>9. ASSUME NEW x \in DOMAIN log' PROVE Measured(log'[x], DOMAIN log'[x])
    BY <2>7, <2>8 DEF EntriesKnown
  <2> QED
    BY <2>9 DEF EntriesKnown, Measured
<1>3. CASE \E t : Change(t)
  BY <1>1, <1>3 DEF Change, server
<1>4. CASE ~\E r \in Resource, s \in Sample : logQuery(r, s)
  <2>1. log' = log
    BY <1>3, <1>4 DEF Next, SetConvar, oxmysql_debug, FetchResource, TimerFires, LoadResource, Open, Back,
       Escape, Visit, FirstPage, PreviousPage, NextPage, LastPage, Search, SortBy, Change, server, vars
  <2> QED
    BY <1>1, <2>1
<1> QED
  BY <1>2, <1>4

LEMMA PageStep ==
    ASSUME NEW p \in Int, NEW w \in Nat
    PROVE  p * w \in Int /\ (p + 1) * w = p * w + w
  OBVIOUS

LEMMA PageCount ==
    ASSUME NEW n \in Nat, NEW w \in Nat \ {0}
    PROVE  (n + w - 1) \div w \in Int
  OBVIOUS

\* fetchResource answers with rows of the resource it is asked about, found by
\* the search it is asked for, no more than a page of them and none twice: for
\* every buffer there can be, every sorting and every page, negative ones too.
LEMMA PageAnswers ==
    ASSUME BufferInv, EntriesKnown, NEW f, f.resource \in DOMAIN log, f.page \in Int
    PROVE  Answers(PageOf(f).rows, f) /\ PageOf(f).count \in Int
<1> DEFINE b == log[f.resource]
           I == Filtered(f)
           n == Cardinality(I)
           sorted == sortQueries(b, I, f.sort)
           rows == Slice(sorted, f.page * PageSize, (f.page + 1) * PageSize)
<1>1. Bucket(f.resource) = b
  BY DEF Bucket
<1>2. PICK S : b \in Seq(S)
  BY DEF BufferInv, BucketsKnown
<1>3. /\ \A i \in DOMAIN b : b[i].of = f.resource
      /\ \A i, j \in DOMAIN b : b[i].n = b[j].n => i = j
  <2>1. \A i \in DOMAIN b : /\ b[i].of = f.resource
                            /\ b[i].n = accepted[f.resource] - Len(b) + i
    BY DEF BufferInv, BufferKeepsNewest
  <2>2. accepted[f.resource] \in Nat
    BY DEF BufferInv, BucketsKnown
  <2> HIDE DEF b
  <2>3. Len(b) \in Nat /\ \A i \in DOMAIN b : i \in Nat
    BY <1>2
  <2> QED
    BY <2>1, <2>2, <2>3
<1>4. Measured(b, DOMAIN b)
  BY DEF EntriesKnown
<1>5. I = {i \in DOMAIN b : f.search = "" \/ b[i].text \in Found[f.search]}
  BY <1>1 DEF Filtered
<1>6. PageOf(f) = [rows |-> rows, count |-> (Len(sorted) + PageSize - 1) \div PageSize, of |-> f]
  BY <1>1 DEF PageOf
<1> HIDE DEF b, I
<1>7. DOMAIN b = 1..Len(b) /\ Len(b) \in Nat
  BY <1>2
<1>8. I \in SUBSET Nat /\ IsFiniteSet(I) /\ Measured(b, I) /\ n \in Nat
  <2>1. IsFiniteSet(1..Len(b))
    BY <1>7, FS_Interval
  <2>2. I \in SUBSET (1..Len(b))
    BY <1>5, <1>7
  <2>3. IsFiniteSet(I)
    BY <2>1, <2>2, FS_Subset
  <2>4. n \in Nat
    BY <2>3, FS_CardinalityType
  <2> QED
    BY <1>4, <1>7, <2>2, <2>3, <2>4 DEF Measured
<1> HIDE DEF n
<1>9. PICK c \in [1..n -> I] : /\ sorted = [k \in 1..n |-> b[c[k]]]
                               /\ \A k, m \in 1..n : c[k] = c[m] => k = m
  <2> DEFINE o == f.sort
  <2> HIDE DEF o
  <2>1. \E c \in [1..Cardinality(I) -> I] :
           /\ sortQueries(b, I, o) = [k \in 1..Cardinality(I) |-> b[c[k]]]
           /\ \A k, m \in 1..Cardinality(I) : c[k] = c[m] => k = m
    BY <1>8, SortMoves
  <2> QED
    BY <2>1 DEF n, o
<1> HIDE DEF sorted
<1>10. Len(sorted) = n
  <2>1. sorted \in Seq({b[i] : i \in I}) /\ DOMAIN sorted = 1..n
    BY <1>8, <1>9
  <2> QED
    BY <1>8, <2>1
<1>11. /\ Len(rows) <= PageSize
       /\ \E d \in Int : \A k \in DOMAIN rows : k \in Nat /\ k + d \in 1..n /\ rows[k] = sorted[k + d]
  <2> DEFINE from == f.page * PageSize
             to == (f.page + 1) * PageSize
             r == Slice(sorted, from, to)
  <2>1. PageSize \in Nat
    OBVIOUS
  <2>2. from \in Int /\ to = from + PageSize
    BY <2>1, PageStep
  <2>3. rows = r
    OBVIOUS
  <2> HIDE DEF from, to, rows
  <2>4. to \in Int /\ from <= to /\ to - from = PageSize
    BY <2>1, <2>2
  <2>5. /\ Len(r) \in Nat /\ Len(r) <= PageSize /\ DOMAIN r = 1..Len(r)
        /\ \E d \in Int : \A k \in DOMAIN r : k + d \in 1..n /\ r[k] = sorted[k + d]
    <3>1. Len(sorted) \in Nat /\ from \in Int /\ to \in Int /\ from <= to
      BY <1>8, <1>10, <2>2, <2>4
    <3> HIDE DEF sorted, n
    <3>2. /\ Len(Slice(sorted, from, to)) \in Nat
          /\ Len(Slice(sorted, from, to)) <= to - from
          /\ DOMAIN Slice(sorted, from, to) = 1..Len(Slice(sorted, from, to))
          /\ \E d \in Int : \A k \in DOMAIN Slice(sorted, from, to) :
                k + d \in 1..Len(sorted) /\ Slice(sorted, from, to)[k] = sorted[k + d]
      BY ONLY <3>1, SliceShape
    <3> QED
      BY <1>10, <2>4, <3>2
  <2> HIDE DEF r
  <2>6. \A k \in DOMAIN r : k \in Nat
    BY <2>5
  <2> QED
    BY <2>3, <2>5, <2>6
<1> HIDE DEF rows
<1>12. PICK d \in Int : \A k \in DOMAIN rows : k \in Nat /\ k + d \in 1..n /\ rows[k] = sorted[k + d]
  BY <1>11
<1>13. \A k \in DOMAIN rows : k \in Nat /\ k + d \in 1..n /\ c[k + d] \in I /\ rows[k] = b[c[k + d]]
  BY <1>9, <1>12
<1>14. Answers(rows, f)
  <2>1. \A k \in DOMAIN rows : /\ rows[k].of = f.resource
                               /\ f.search = "" \/ rows[k].text \in Found[f.search]
    <3> SUFFICES ASSUME NEW k \in DOMAIN rows
                 PROVE  rows[k].of = f.resource /\ (f.search = "" \/ rows[k].text \in Found[f.search])
      OBVIOUS
    <3>1. PICK i \in I : rows[k] = b[i]
      BY <1>13
    <3>2. i \in DOMAIN b /\ (f.search = "" \/ b[i].text \in Found[f.search])
      BY <1>5
    <3> QED
      BY <1>3, <3>1, <3>2
  <2>2. ASSUME NEW k \in DOMAIN rows, NEW m \in DOMAIN rows, rows[k].n = rows[m].n PROVE k = m
    <3>1. c[k + d] = c[m + d]
      <4>1. c[k + d] \in DOMAIN b /\ c[m + d] \in DOMAIN b
        BY <1>5, <1>13
      <4>2. b[c[k + d]].n = b[c[m + d]].n
        BY <1>13, <2>2
      <4> QED
        BY <1>3, <4>1, <4>2
    <3>2. k + d = m + d
      BY <1>9, <1>13, <3>1
    <3> QED
      BY <1>13, <3>2
  <2> QED
    BY <1>11, <2>1, <2>2 DEF Answers
<1>15. (Len(sorted) + PageSize - 1) \div PageSize \in Int
  BY <1>8, <1>10, PageCount
<1> QED
  BY <1>6, <1>14, <1>15

-----------------------------------------------------------------------------
(* What is shown answers what was asked *)

\* A fetch names a page, and every page on its way and the one on show is an
\* answer to the fetch it is of.
IsFetch(f) == /\ f = [resource |-> f.resource, page |-> f.page, search |-> f.search, sort |-> f.sort]
              /\ f.page \in Int

PagesKnown == /\ table.page \in Int /\ table.maxPage \in Int
              /\ Answers(table.shown.rows, table.shown.of)
              /\ \A f \in ToSet(requests) : IsFetch(f)
              /\ \A p \in ToSet(replies) : p.count \in Int /\ Answers(p.rows, p.of)

LEMMA MembersOfAppend ==
    ASSUME NEW s, IsSeq(s), NEW x
    PROVE  ToSet(Append(s, x)) \subseteq ToSet(s) \cup {x}
<1>1. PICK S : s \in Seq(S)
  BY DEF IsSeq
<1>2. s \in Seq(S \cup {x}) /\ x \in S \cup {x}
  BY <1>1
<1>3. \A i \in DOMAIN Append(s, x) : Append(s, x)[i] = x \/ (i \in DOMAIN s /\ Append(s, x)[i] = s[i])
  BY <1>2
<1> QED
  BY <1>3 DEF ToSet

LEMMA MembersOfTail ==
    ASSUME NEW s, IsSeq(s), s # <<>>
    PROVE  ToSet(Tail(s)) \subseteq ToSet(s) /\ Head(s) \in ToSet(s)
<1>1. PICK S : s \in Seq(S)
  BY DEF IsSeq
<1>2. \A i \in DOMAIN Tail(s) : i + 1 \in DOMAIN s /\ Tail(s)[i] = s[i + 1]
  BY <1>1
<1>3. 1 \in DOMAIN s /\ Head(s) = s[1]
  BY <1>1
<1> QED
  BY <1>2, <1>3 DEF ToSet

LEMMA FetchIsFetch ==
    ASSUME NEW r, NEW t, t.page \in Int
    PROVE  IsFetch(Fetch(r, t))
  BY DEF Fetch, IsFetch

LEMMA FetchResourceAnswers ==
    ASSUME BufferInv, EntriesKnown, WindowInv, PagesKnown, FetchResource
    PROVE  PagesKnown'
<1> DEFINE f == Head(requests)
<1>1. /\ UNCHANGED table /\ requests # <<>>
      /\ requests' = Tail(requests)
      /\ replies' = IF f.resource \in DOMAIN log THEN Append(replies, PageOf(f)) ELSE replies
  BY DEF FetchResource, window
<1>2. IsSeq(requests) /\ IsSeq(replies)
  BY DEF WindowInv, Shapes
<1>3. ToSet(requests') \subseteq ToSet(requests) /\ f \in ToSet(requests)
  BY <1>1, <1>2, MembersOfTail
<1> HIDE DEF f
<1>4. f.page \in Int
  BY <1>3 DEF PagesKnown, IsFetch
<1>5. ASSUME f.resource \in DOMAIN log PROVE PageOf(f).count \in Int /\ Answers(PageOf(f).rows, PageOf(f).of)
  <2>1. PageOf(f).of = f
    BY DEF PageOf
  <2> QED
    BY <1>4, <1>5, <2>1, PageAnswers
<1>6. \A p \in ToSet(replies') : p.count \in Int /\ Answers(p.rows, p.of)
  <2>1. CASE f.resource \in DOMAIN log
    <3>1. ToSet(replies') \subseteq ToSet(replies) \cup {PageOf(f)}
      BY <1>1, <1>2, <2>1, MembersOfAppend
    <3> QED
      BY <1>5, <2>1, <3>1 DEF PagesKnown
  <2>2. CASE f.resource \notin DOMAIN log
    BY <1>1, <2>2 DEF PagesKnown
  <2> QED
    BY <2>1, <2>2
<1> QED
  BY <1>1, <1>3, <1>6 DEF PagesKnown

LEMMA TimerFiresAnswers ==
    ASSUME WindowInv, PagesKnown, TimerFires
    PROVE  PagesKnown'
<1> DEFINE t == [table EXCEPT !.sort = Head(timers).sort]
           f == Fetch(Head(timers).resource, t)
<1>1. UNCHANGED <<table, replies>> /\ requests' = Append(requests, f)
  BY DEF TimerFires
<1>2. IsSeq(requests)
  BY DEF WindowInv, Shapes
<1>3. t.page = table.page
  BY DEF WindowInv, Shapes
<1> HIDE DEF t
<1>4. IsFetch(f)
  BY <1>3, FetchIsFetch DEF PagesKnown
<1> HIDE DEF f
<1>5. ToSet(requests') \subseteq ToSet(requests) \cup {f}
  BY <1>1, <1>2, MembersOfAppend
<1> QED
  BY <1>1, <1>4, <1>5 DEF PagesKnown

LEMMA LoadResourceAnswers ==
    ASSUME WindowInv, PagesKnown, LoadResource
    PROVE  PagesKnown'
<1> DEFINE p == Head(replies)
<1>1. /\ UNCHANGED requests /\ replies # <<>> /\ replies' = Tail(replies)
      /\ table' = IF Mounted(view)
                  THEN [table EXCEPT !.maxPage = p.count, !.shown = [rows |-> p.rows, of |-> p.of]]
                  ELSE table
  BY DEF LoadResource
<1>2. ToSet(replies') \subseteq ToSet(replies) /\ p \in ToSet(replies)
  BY <1>1, MembersOfTail DEF WindowInv, Shapes
<1> HIDE DEF p
<1>3. p.count \in Int /\ Answers(p.rows, p.of)
  BY <1>2 DEF PagesKnown
<1>4. table'.page \in Int /\ table'.maxPage \in Int /\ Answers(table'.shown.rows, table'.shown.of)
  <2>1. CASE Mounted(view)
    <3> DEFINE new == [rows |-> p.rows, of |-> p.of]
    <3>1. new.rows = p.rows /\ new.of = p.of
      OBVIOUS
    <3> HIDE DEF new
    <3>2. table' = [table EXCEPT !.maxPage = p.count, !.shown = new]
      BY <1>1, <2>1 DEF new
    <3>3. table'.page = table.page /\ table'.maxPage = p.count /\ table'.shown = new
      BY <3>2 DEF WindowInv, Shapes
    <3> QED
      BY <1>3, <3>1, <3>3 DEF PagesKnown
  <2>2. CASE ~Mounted(view)
    BY <1>1, <2>2 DEF PagesKnown
  <2> QED
    BY <2>1, <2>2
<1> QED
  BY <1>1, <1>2, <1>4 DEF PagesKnown

LEMMA ChangeAnswers ==
    ASSUME WindowInv, PagesKnown, NEW t, Change(t), t.page \in Int,
           t.maxPage = table.maxPage, t.shown = table.shown
    PROVE  PagesKnown'
<1>1. UNCHANGED <<requests, replies>> /\ table' = t
  BY DEF Change
<1> QED
  BY <1>1 DEF PagesKnown

LEMMA MoveAnswers ==
    ASSUME WindowInv, PagesKnown, NEW v, Move(v), UNCHANGED <<requests, replies>>
    PROVE  PagesKnown'
<1>1. CASE table' = table
  BY <1>1 DEF PagesKnown
<1>2. CASE table' = Fresh \/ \E s : table' = [Fresh EXCEPT !.search = s]
  <2>1. Answers(<<>>, None)
    <3>1. Len(<<>>) = 0 /\ DOMAIN <<>> = {}
      OBVIOUS
    <3> QED
      BY <3>1 DEF Answers
  <2>2. NoRows.rows = <<>> /\ NoRows.of = None
    BY DEF NoRows
  <2>3. table'.page = 0 /\ table'.maxPage = 0 /\ table'.shown = NoRows
    <3> DEFINE none == NoRows
    <3>1. Fresh = [page |-> 0, search |-> "", sort |-> None, maxPage |-> 0, shown |-> none]
      BY DEF Fresh
    <3> HIDE DEF none
    <3>2. Fresh.page = 0 /\ Fresh.maxPage = 0 /\ Fresh.shown = none
      BY <3>1
    <3>3. ASSUME NEW s, table' = [Fresh EXCEPT !.search = s]
          PROVE  table'.page = 0 /\ table'.maxPage = 0 /\ table'.shown = none
      BY <3>1, <3>3
    <3> QED
      BY <1>2, <3>2, <3>3 DEF none
  <2>4. table'.page \in Int /\ table'.maxPage \in Int /\ Answers(table'.shown.rows, table'.shown.of)
    BY <2>1, <2>2, <2>3
  <2> QED
    BY <2>4 DEF PagesKnown
<1> QED
  BY <1>1, <1>2 DEF Move

LEMMA NextAnswers == BufferInv /\ EntriesKnown /\ WindowInv /\ PagesKnown /\ [Next]_vars => PagesKnown'
<1> SUFFICES ASSUME BufferInv, EntriesKnown, WindowInv, PagesKnown, [Next]_vars PROVE PagesKnown'
  OBVIOUS
<1>1. CASE FetchResource \/ TimerFires \/ LoadResource
  BY <1>1, FetchResourceAnswers, TimerFiresAnswers, LoadResourceAnswers
<1>2. CASE Open \/ Back \/ Escape \/ \E r \in Resource : Visit(r)
  BY <1>2, MoveAnswers DEF Open, Back, Escape, Visit
<1>3. ASSUME NEW p \in Int, NEW q, NEW o, Change(Edited(table, p, q, o)) PROVE PagesKnown'
  <2> DEFINE t == Edited(table, p, q, o)
  <2>1. table = TableOf(table.page, table.search, table.sort, table.maxPage, table.shown)
    BY DEF WindowInv, Shapes, TableOf
  <2>2. t = TableOf(p, q, o, table.maxPage, table.shown)
    BY <2>1, TableExcept
  <2>3. Change(t)
    BY <1>3
  <2> HIDE DEF t
  <2>4. t.page = p /\ t.maxPage = table.maxPage /\ t.shown = table.shown
    BY <2>2 DEF TableOf
  <2> QED
    BY <2>3, <2>4, ChangeAnswers
<1>4. /\ \A p : [table EXCEPT !.page = p] = Edited(table, p, table.search, table.sort)
      /\ \A s : [table EXCEPT !.search = s, !.page = 0] = Edited(table, 0, s, table.sort)
      /\ \A s : [table EXCEPT !.sort = s] = Edited(table, table.page, table.search, s)
  BY DEF WindowInv, Shapes, Edited
<1>5. table.page \in Int /\ table.maxPage \in Int
  BY DEF PagesKnown
<1>6. CASE FirstPage \/ PreviousPage \/ NextPage \/ LastPage
  <2>1. \E p \in {0, table.page - 1, table.page + 1, table.maxPage - 1} : Change([table EXCEPT !.page = p])
    BY <1>6 DEF FirstPage, PreviousPage, NextPage, LastPage
  <2>2. PICK p \in Int : Change([table EXCEPT !.page = p])
    BY <1>5, <2>1
  <2>3. Change(Edited(table, p, table.search, table.sort))
    BY <1>4, <2>2
  <2> QED
    BY <1>3, <2>3
<1>7. ASSUME NEW s, Search(s) \/ SortBy(s) PROVE PagesKnown'
  <2>1. Change(Edited(table, 0, s, table.sort)) \/ Change(Edited(table, table.page, table.search, s))
    BY <1>4, <1>7 DEF Search, SortBy
  <2> QED
    BY <1>3, <1>5, <2>1
<1>8. CASE \/ SetConvar \/ \E r \in Resource : oxmysql_debug(r)
           \/ \E r \in Resource, s \in Sample : logQuery(r, s)
           \/ UNCHANGED vars
  <2>1. UNCHANGED <<table, requests, replies>>
    BY <1>8 DEF SetConvar, oxmysql_debug, logQuery, vars, window
  <2> QED
    BY <2>1 DEF PagesKnown
<1> QED
  BY <1>1, <1>2, <1>6, <1>7, <1>8 DEF Next

LEMMA InitAnswers == Init => EntriesKnown /\ PagesKnown
<1> SUFFICES ASSUME Init PROVE EntriesKnown /\ PagesKnown
  OBVIOUS
<1>1. log = <<>> /\ table = Fresh /\ requests = <<>> /\ replies = <<>>
  BY DEF Init
<1>2. DOMAIN <<>> = {} /\ Len(<<>>) = 0 /\ ToSet(<<>>) = {}
  BY DEF ToSet
<1>3. EntriesKnown
  BY <1>1, <1>2 DEF EntriesKnown
<1>4. Answers(<<>>, None)
  BY <1>2 DEF Answers
<1>5. Fresh.page \in Int /\ Fresh.maxPage \in Int /\ Answers(Fresh.shown.rows, Fresh.shown.of)
  BY <1>4 DEF Fresh, NoRows
<1> QED
  BY <1>1, <1>2, <1>3, <1>5 DEF PagesKnown

\* A page the user left, a search typed over, a resource opened while the
\* reply about another was on its way: once the window is quiet, what it
\* shows is the server's answer to exactly what it stands at, with no more
\* rows than a page, all of the resource and found by the search, none twice.
THEOREM QuietShowsTheAnswer == Spec => []QuietShowsOwnPage
<1> DEFINE Inv == BufferInv /\ EntriesKnown /\ WindowInv /\ PagesKnown
<1>1. Init => Inv
  BY InitBuffers, InitWindow, InitAnswers
<1>2. Inv /\ [Next]_vars => Inv'
  BY NextKeepsBuffers, EntriesStayKnown, NextKeepsWindow, NextAnswers
<1>3. Inv => QuietShowsOwnPage
  BY DEF WindowInv, FetchUnderWay, Quiet, ShowsOwnFetch, Due, QuietShowsOwnPage, PagesKnown
<1> QED
  BY <1>1, <1>2, <1>3, PTL DEF Spec
================================================================================
