-------------------------- MODULE WorkerChannelProofs --------------------------
(***************************************************************************)
(* Proofs about WorkerChannel for every set of calls: its type invariant,  *)
(* its four safety invariants, and that every step is a step of            *)
(* RequestBook or a stutter.                                               *)
(*                                                                         *)
(* The argument rests on ids: every id in the book, in the turn being      *)
(* settled or in a message is below nextId, and an id determines its call, *)
(* so a response can only meet the entry of the call it answers.           *)
(***************************************************************************)
EXTENDS WorkerChannel, TLAPS

Entries == pending \cup synth
Messages == inbox \cup serving \cup outbox

\* Every id in use was given out, to a call that was made.
IdsGivenOut == \A e \in Entries \cup Messages : e.id < nextId /\ e.call \in sent

\* Within the book, and within the turn being settled, an entry is known by
\* its id and by its call; the two have nothing in common.
EntriesDistinct ==
    /\ \A e, f \in pending : e.id = f.id \/ e.call = f.call => e = f
    /\ \A e, f \in synth : e.id = f.id \/ e.call = f.call => e = f
    /\ \A e \in pending, f \in synth : e.id # f.id /\ e.call # f.call

\* A message with an entry's id is about the entry's call.
IdsAgree == \A e \in Entries, m \in Messages : e.id = m.id => e.call = m.call

\* An entry has not been settled, and why it leaves the book is true.
EntriesUnsettled == \A e \in Entries : settles[e.call] = 0
ReasonsHold == \A e \in synth : \/ e.why = "timeout" /\ e.call \in Timed
                                \/ e.why = "exit" /\ exited

UnsentUntouched == \A c \in Call \ sent : answer[c] = NoAnswer /\ settles[c] = 0
NoneIsNoAnswer == \A c \in Call : answer[c].kind = "none" => answer[c] = NoAnswer
ExitedIsDown == exited => ~workerUp

IInv == /\ TypeOK
        /\ IdsGivenOut
        /\ EntriesDistinct
        /\ IdsAgree
        /\ EntriesUnsettled
        /\ ReasonsHold
        /\ UnsentUntouched
        /\ NoneIsNoAnswer
        /\ ExitedIsDown
        /\ AnswersMatch
        /\ SettledAtMostOnce
        /\ NoCallIsForgotten
        /\ TimersFollowBook

-----------------------------------------------------------------------------
(* Every step keeps the invariant: one lemma per action. *)

USE CallAssumption

LEMMA InitInductive == Init => IInv
<1> SUFFICES ASSUME Init PROVE IInv
  OBVIOUS
<1> USE DEF Init
<1>1. TypeOK
  BY DEF TypeOK, NoAnswer, Kinds
<1>2. Entries = {} /\ Messages = {} /\ pending = {} /\ synth = {}
  BY DEF Entries, Messages
<1>3. /\ IdsGivenOut
      /\ EntriesDistinct
      /\ IdsAgree
      /\ EntriesUnsettled
      /\ ReasonsHold
  BY <1>2 DEF IdsGivenOut, EntriesDistinct, IdsAgree, EntriesUnsettled, ReasonsHold
<1>4. /\ UnsentUntouched
      /\ NoneIsNoAnswer
      /\ ExitedIsDown
      /\ AnswersMatch
      /\ SettledAtMostOnce
  BY DEF UnsentUntouched, NoneIsNoAnswer, ExitedIsDown, AnswersMatch,
         SettledAtMostOnce, NoAnswer
<1>5. NoCallIsForgotten /\ TimersFollowBook
  BY DEF NoCallIsForgotten, Waiting, TimersFollowBook
<1> QED
  BY <1>1, <1>3, <1>4, <1>5 DEF IInv

LEMMA SendAfterExitInductive ==
    ASSUME IInv, NEW c \in Call, SendAfterExit(c)
    PROVE  IInv'
<1> USE DEF IInv, TypeOK, Entry, Doomed, SendAfterExit, Settled, Error, NoAnswer, worker
<1>1. TypeOK'
  BY DEF Kinds
<1>2. IdsGivenOut'
  BY DEF IdsGivenOut, Entries, Messages
<1>3. EntriesDistinct'
  BY DEF EntriesDistinct, IdsGivenOut, Entries
<1>4. IdsAgree'
  BY DEF IdsAgree, IdsGivenOut, Entries, Messages
<1>5. EntriesUnsettled'
  BY DEF EntriesUnsettled, EntriesDistinct, IdsGivenOut, Entries, UnsentUntouched
<1>6. ReasonsHold'
  BY DEF ReasonsHold, TimersFollowBook
<1>7. UnsentUntouched'
  BY DEF UnsentUntouched, IdsGivenOut, Entries
<1>8. NoneIsNoAnswer'
  BY DEF NoneIsNoAnswer
<1>9. ExitedIsDown'
  BY DEF ExitedIsDown
<1>10. AnswersMatch'
  BY DEF AnswersMatch, IdsAgree, Entries, Messages
<1>11. SettledAtMostOnce'
  BY DEF SettledAtMostOnce, EntriesUnsettled, Entries
<1>12. NoCallIsForgotten'
  BY DEF NoCallIsForgotten, Waiting
<1>13. TimersFollowBook'
  BY DEF TimersFollowBook, EntriesDistinct, IdsGivenOut, Entries
<1> QED
  BY <1>1, <1>2, <1>3, <1>4, <1>5, <1>6, <1>7, <1>8, <1>9, <1>10, <1>11, <1>12, <1>13

LEMMA SendInductive ==
    ASSUME IInv, NEW c \in Call, Send(c)
    PROVE  IInv'
<1> USE DEF IInv, TypeOK, Entry, Doomed, Send, Post, Settled, Error, NoAnswer
<1>1. TypeOK'
  BY DEF Kinds
<1>2. IdsGivenOut'
  BY DEF IdsGivenOut, Entries, Messages
<1>3. EntriesDistinct'
  BY DEF EntriesDistinct, IdsGivenOut, Entries
<1>4. IdsAgree'
  BY DEF IdsAgree, IdsGivenOut, Entries, Messages
<1>5. EntriesUnsettled'
  BY DEF EntriesUnsettled, EntriesDistinct, IdsGivenOut, Entries, UnsentUntouched
<1>6. ReasonsHold'
  BY DEF ReasonsHold, TimersFollowBook
<1>7. UnsentUntouched'
  BY DEF UnsentUntouched, IdsGivenOut, Entries
<1>8. NoneIsNoAnswer'
  BY DEF NoneIsNoAnswer
<1>9. ExitedIsDown'
  BY DEF ExitedIsDown
<1>10. AnswersMatch'
  BY DEF AnswersMatch, IdsAgree, Entries, Messages
<1>11. SettledAtMostOnce'
  BY DEF SettledAtMostOnce, EntriesUnsettled, Entries
<1>12. NoCallIsForgotten'
  <2> DEFINE new == [id |-> nextId, call |-> c]
  <2>1. new \in pending' /\ new.call = c
    OBVIOUS
  <2>2. ASSUME NEW d \in Call, d # c, Waiting(d)'
        PROVE  \E e \in (pending \cup synth)' : e.call = d
    <3>1. Waiting(d)
      BY <2>2 DEF Waiting
    <3>2. PICK e \in pending \cup synth : e.call = d
      BY <3>1 DEF NoCallIsForgotten
    <3> QED
      BY <3>2
  <2>3. ~exited'
    OBVIOUS
  <2> QED
    BY <2>1, <2>2, <2>3 DEF NoCallIsForgotten
<1>13. TimersFollowBook'
  <2> DEFINE new == [id |-> nextId, call |-> c]
  <2>1. pending' = pending \cup {new} /\ new.id = nextId /\ new.call = c
    OBVIOUS
  <2>2. \A e \in Entries : e.id \in Nat /\ e.id # nextId
    BY DEF IdsGivenOut, Entries
  <2>3. ASSUME NEW e \in pending' PROVE e.call \in Timed <=> e.id \in timers'
    <3>1. CASE e = new
      <4>1. nextId \notin timers
        BY <2>2 DEF TimersFollowBook, Entries
      <4> QED
        BY <2>1, <3>1, <4>1
    <3>2. CASE e \in pending
      BY <2>2, <3>2 DEF TimersFollowBook, Entries
    <3> QED
      BY <2>1, <2>3, <3>1, <3>2
  <2>4. ASSUME NEW i \in timers' PROVE \E e \in (pending \cup synth)' : e.id = i
    <3>1. CASE i = nextId /\ c \in Timed
      BY <2>1, <3>1
    <3>2. CASE i \in timers
      BY <3>2 DEF TimersFollowBook
    <3> QED
      BY <2>4, <3>1, <3>2
  <2> QED
    BY <2>3, <2>4 DEF TimersFollowBook
<1> QED
  BY <1>1, <1>2, <1>3, <1>4, <1>5, <1>6, <1>7, <1>8, <1>9, <1>10, <1>11, <1>12, <1>13

LEMMA DeliverInductive ==
    ASSUME IInv, NEW m \in outbox, Deliver(m)
    PROVE  IInv'
<1> USE DEF IInv, TypeOK, Entry, Doomed, Deliver, Settled, Reply, NoAnswer
<1>1. TypeOK'
  <2>1. CASE \E e \in pending : e.id = m.id
    <3> PICK e \in pending : /\ e.id = m.id
                             /\ timers' = timers \ {e.id}
                             /\ pending' = pending \ {e}
                             /\ answer' = Settled(e.call, Reply(m.call))
                             /\ settles' = [settles EXCEPT ![e.call] = @ + 1]
      BY <2>1
    <3>1. e.call \in Call /\ m.call \in Call
      OBVIOUS
    <3>2. Reply(m.call) \in [kind : Kinds, of : Call \cup {NoCall}]
      BY <3>1 DEF Kinds
    <3>3. answer' \in [Call -> [kind : Kinds, of : Call \cup {NoCall}]]
      BY <3>1, <3>2
    <3>4. settles' \in [Call -> Nat]
      BY <3>1
    <3> QED
      BY <3>3, <3>4
  <2>2. CASE \A e \in pending : e.id # m.id
    BY <2>2
  <2> QED
    BY <2>1, <2>2
<1>2. IdsGivenOut'
  BY DEF IdsGivenOut, Entries, Messages
<1>3. EntriesDistinct'
  BY DEF EntriesDistinct, IdsGivenOut, Entries
<1>4. IdsAgree'
  BY DEF IdsAgree, IdsGivenOut, Entries, Messages
<1>5. EntriesUnsettled'
  BY DEF EntriesUnsettled, EntriesDistinct, IdsGivenOut, Entries, UnsentUntouched
<1>6. ReasonsHold'
  BY DEF ReasonsHold, TimersFollowBook
<1>7. UnsentUntouched'
  BY DEF UnsentUntouched, IdsGivenOut, Entries
<1>8. NoneIsNoAnswer'
  BY DEF NoneIsNoAnswer
<1>9. ExitedIsDown'
  BY DEF ExitedIsDown
<1>10. AnswersMatch'
  BY DEF AnswersMatch, IdsAgree, Entries, Messages
<1>11. SettledAtMostOnce'
  BY DEF SettledAtMostOnce, EntriesUnsettled, Entries
<1>12. NoCallIsForgotten'
  BY DEF NoCallIsForgotten, Waiting
<1>13. TimersFollowBook'
  BY DEF TimersFollowBook, EntriesDistinct, IdsGivenOut, Entries
<1> QED
  BY <1>1, <1>2, <1>3, <1>4, <1>5, <1>6, <1>7, <1>8, <1>9, <1>10, <1>11, <1>12, <1>13

LEMMA TimerFiresInductive ==
    ASSUME IInv, NEW i \in timers, TimerFires(i)
    PROVE  IInv'
<1> USE DEF IInv, TypeOK, Entry, Doomed, TimerFires, worker
<1>1. TypeOK'
  <2>1. synth' \subseteq Doomed
    <3>1. ASSUME NEW d \in synth' PROVE d \in Doomed
      <4>1. PICK e \in pending : d = [id |-> e.id, call |-> e.call, why |-> "timeout"]
        BY <3>1
      <4>2. e.id \in Nat /\ e.call \in Call
        OBVIOUS
      <4> QED
        BY <4>1, <4>2
    <3> QED
      BY <3>1
  <2> QED
    BY <2>1
<1>2. IdsGivenOut'
  BY DEF IdsGivenOut, Entries, Messages
<1>3. EntriesDistinct'
  BY DEF EntriesDistinct, IdsGivenOut, Entries
<1>4. IdsAgree'
  BY DEF IdsAgree, IdsGivenOut, Entries, Messages
<1>5. EntriesUnsettled'
  BY DEF EntriesUnsettled, EntriesDistinct, IdsGivenOut, Entries, UnsentUntouched
<1>6. ReasonsHold'
  BY DEF ReasonsHold, TimersFollowBook
<1>7. UnsentUntouched'
  BY DEF UnsentUntouched, IdsGivenOut, Entries
<1>8. NoneIsNoAnswer'
  BY DEF NoneIsNoAnswer
<1>9. ExitedIsDown'
  BY DEF ExitedIsDown
<1>10. AnswersMatch'
  BY DEF AnswersMatch, IdsAgree, Entries, Messages
<1>11. SettledAtMostOnce'
  BY DEF SettledAtMostOnce, EntriesUnsettled, Entries
<1>12. NoCallIsForgotten'
  <2>1. ASSUME NEW d \in Call, Waiting(d)'
        PROVE  \E e \in (pending \cup synth)' : e.call = d
    <3>1. Waiting(d)
      BY <2>1 DEF Waiting
    <3>2. PICK e \in pending : e.call = d
      BY <3>1 DEF NoCallIsForgotten
    <3>3. CASE e.id = i
      <4> DEFINE doomed == [id |-> e.id, call |-> e.call, why |-> "timeout"]
      <4>1. doomed \in synth' /\ doomed.call = d
        BY <3>2, <3>3
      <4> QED
        BY <4>1
    <3>4. CASE e.id # i
      BY <3>2, <3>4
    <3> QED
      BY <3>3, <3>4
  <2>2. (exited => pending = {})'
    BY DEF NoCallIsForgotten
  <2> QED
    BY <2>1, <2>2 DEF NoCallIsForgotten
<1>13. TimersFollowBook'
  BY DEF TimersFollowBook, EntriesDistinct, IdsGivenOut, Entries
<1> QED
  BY <1>1, <1>2, <1>3, <1>4, <1>5, <1>6, <1>7, <1>8, <1>9, <1>10, <1>11, <1>12, <1>13

LEMMA HandleExitInductive ==
    ASSUME IInv, HandleExit
    PROVE  IInv'
<1> USE DEF IInv, TypeOK, Entry, Doomed, HandleExit, worker
<1>1. TypeOK'
  <2>1. synth' \subseteq Doomed
    <3>1. ASSUME NEW d \in synth' PROVE d \in Doomed
      <4>1. PICK e \in pending : d = [id |-> e.id, call |-> e.call, why |-> "exit"]
        BY <3>1
      <4>2. e.id \in Nat /\ e.call \in Call
        OBVIOUS
      <4> QED
        BY <4>1, <4>2
    <3> QED
      BY <3>1
  <2> QED
    BY <2>1
<1>2. IdsGivenOut'
  BY DEF IdsGivenOut, Entries, Messages
<1>3. EntriesDistinct'
  BY DEF EntriesDistinct, IdsGivenOut, Entries
<1>4. IdsAgree'
  BY DEF IdsAgree, IdsGivenOut, Entries, Messages
<1>5. EntriesUnsettled'
  BY DEF EntriesUnsettled, EntriesDistinct, IdsGivenOut, Entries, UnsentUntouched
<1>6. ReasonsHold'
  BY DEF ReasonsHold, TimersFollowBook
<1>7. UnsentUntouched'
  BY DEF UnsentUntouched, IdsGivenOut, Entries
<1>8. NoneIsNoAnswer'
  BY DEF NoneIsNoAnswer
<1>9. ExitedIsDown'
  BY DEF ExitedIsDown
<1>10. AnswersMatch'
  BY DEF AnswersMatch, IdsAgree, Entries, Messages
<1>11. SettledAtMostOnce'
  BY DEF SettledAtMostOnce, EntriesUnsettled, Entries
<1>12. NoCallIsForgotten'
  <2>1. ASSUME NEW d \in Call, Waiting(d)'
        PROVE  \E e \in (pending \cup synth)' : e.call = d
    <3>1. Waiting(d)
      BY <2>1 DEF Waiting
    <3>2. PICK e \in pending : e.call = d
      BY <3>1 DEF NoCallIsForgotten
    <3> DEFINE doomed == [id |-> e.id, call |-> e.call, why |-> "exit"]
    <3>3. doomed \in synth' /\ doomed.call = d
      BY <3>2
    <3> QED
      BY <3>3
  <2> QED
    BY <2>1 DEF NoCallIsForgotten
<1>13. TimersFollowBook'
  <2>1. ASSUME NEW i \in timers' PROVE \E e \in (pending \cup synth)' : e.id = i
    <3>1. PICK e \in pending : e.id = i
      BY <2>1 DEF TimersFollowBook
    <3> DEFINE doomed == [id |-> e.id, call |-> e.call, why |-> "exit"]
    <3>2. doomed \in synth' /\ doomed.id = i
      BY <3>1
    <3> QED
      BY <3>2
  <2> QED
    BY <2>1 DEF TimersFollowBook
<1> QED
  BY <1>1, <1>2, <1>3, <1>4, <1>5, <1>6, <1>7, <1>8, <1>9, <1>10, <1>11, <1>12, <1>13

LEMMA SettleNextInductive ==
    ASSUME IInv, NEW e \in synth, SettleNext(e)
    PROVE  IInv'
<1> USE DEF IInv, TypeOK, Entry, Doomed, SettleNext, Settled, Error, NoAnswer, worker
<1>1. TypeOK'
  <2>1. e.call \in Call /\ e.why \in Kinds
    BY DEF Kinds
  <2>2. Error(e.why) \in [kind : Kinds, of : Call \cup {NoCall}]
    BY <2>1
  <2>3. answer' \in [Call -> [kind : Kinds, of : Call \cup {NoCall}]]
    BY <2>1, <2>2
  <2>4. settles' \in [Call -> Nat]
    BY <2>1
  <2> QED
    BY <2>3, <2>4
<1>2. IdsGivenOut'
  BY DEF IdsGivenOut, Entries, Messages
<1>3. EntriesDistinct'
  BY DEF EntriesDistinct, IdsGivenOut, Entries
<1>4. IdsAgree'
  BY DEF IdsAgree, IdsGivenOut, Entries, Messages
<1>5. EntriesUnsettled'
  BY DEF EntriesUnsettled, EntriesDistinct, IdsGivenOut, Entries, UnsentUntouched
<1>6. ReasonsHold'
  BY DEF ReasonsHold, TimersFollowBook
<1>7. UnsentUntouched'
  BY DEF UnsentUntouched, IdsGivenOut, Entries
<1>8. NoneIsNoAnswer'
  BY DEF NoneIsNoAnswer
<1>9. ExitedIsDown'
  BY DEF ExitedIsDown
<1>10. AnswersMatch'
  BY DEF AnswersMatch, IdsAgree, Entries, Messages
<1>11. SettledAtMostOnce'
  BY DEF SettledAtMostOnce, EntriesUnsettled, Entries
<1>12. NoCallIsForgotten'
  BY DEF NoCallIsForgotten, Waiting
<1>13. TimersFollowBook'
  BY DEF TimersFollowBook, EntriesDistinct, IdsGivenOut, Entries
<1> QED
  BY <1>1, <1>2, <1>3, <1>4, <1>5, <1>6, <1>7, <1>8, <1>9, <1>10, <1>11, <1>12, <1>13

\* The worker's own steps leave the book alone and invent no message.
LEMMA WorkerInductive ==
    ASSUME IInv,
           \/ \E m \in inbox : Take(m)
           \/ \E m \in serving : Respond(m)
           \/ WorkerDies
    PROVE  IInv'
<1> USE DEF IInv
<1>1. UNCHANGED parent
  BY DEF Take, Respond, WorkerDies
<1>2. Messages' \subseteq Messages /\ Entries' = Entries
  BY <1>1 DEF Take, Respond, WorkerDies, Messages, Entries, parent
<1>3. TypeOK'
  BY <1>1 DEF TypeOK, Take, Respond, WorkerDies, parent
<1>4. IdsGivenOut' /\ IdsAgree'
  BY <1>1, <1>2 DEF IdsGivenOut, IdsAgree, parent
<1>5. EntriesDistinct' /\ EntriesUnsettled' /\ ReasonsHold' /\ UnsentUntouched'
  BY <1>1, <1>2 DEF EntriesDistinct, EntriesUnsettled, ReasonsHold,
                    UnsentUntouched, parent
<1>6. ExitedIsDown'
  BY <1>1 DEF ExitedIsDown, Take, Respond, WorkerDies, parent
<1>7. NoneIsNoAnswer' /\ AnswersMatch' /\ SettledAtMostOnce'
  BY <1>1 DEF NoneIsNoAnswer, AnswersMatch, SettledAtMostOnce, parent
<1>8. NoCallIsForgotten' /\ TimersFollowBook'
  BY <1>1 DEF NoCallIsForgotten, Waiting, TimersFollowBook, parent
<1> QED
  BY <1>3, <1>4, <1>5, <1>6, <1>7, <1>8

LEMMA StutterInductive ==
    ASSUME IInv, UNCHANGED vars
    PROVE  IInv'
BY DEF vars, IInv, TypeOK, Entries, Messages, IdsGivenOut, EntriesDistinct,
       IdsAgree, EntriesUnsettled, ReasonsHold, UnsentUntouched, NoneIsNoAnswer,
       ExitedIsDown, AnswersMatch, SettledAtMostOnce, NoCallIsForgotten, Waiting,
       TimersFollowBook, NoAnswer

LEMMA NextInductive == IInv /\ [Next]_vars => IInv'
<1> SUFFICES ASSUME IInv, [Next]_vars PROVE IInv'
  OBVIOUS
<1>1. CASE UNCHANGED vars
  BY <1>1, StutterInductive
<1>2. ASSUME NEW c \in Call, SendAfterExit(c) PROVE IInv'
  BY <1>2, SendAfterExitInductive
<1>3. ASSUME NEW c \in Call, Send(c) PROVE IInv'
  BY <1>3, SendInductive
<1>4. ASSUME NEW m \in outbox, Deliver(m) PROVE IInv'
  BY <1>4, DeliverInductive
<1>5. ASSUME NEW i \in timers, TimerFires(i) PROVE IInv'
  BY <1>5, TimerFiresInductive
<1>6. CASE HandleExit
  BY <1>6, HandleExitInductive
<1>7. ASSUME NEW e \in synth, SettleNext(e) PROVE IInv'
  BY <1>7, SettleNextInductive
<1>8. CASE \/ \E m \in inbox : Take(m)
           \/ \E m \in serving : Respond(m)
           \/ WorkerDies
  BY <1>8, WorkerInductive
<1> QED
  BY <1>1, <1>2, <1>3, <1>4, <1>5, <1>6, <1>7, <1>8 DEF Next

\* The invariant the theorems below are read off.
THEOREM InvariantHolds == SafeSpec => []IInv
BY InitInductive, NextInductive, PTL DEF SafeSpec

-----------------------------------------------------------------------------
(* The theorems *)

\* Every variable of the channel keeps its type.
THEOREM TypeCorrect == SafeSpec => []TypeOK
<1>1. IInv => TypeOK
  BY DEF IInv
<1> QED
  BY <1>1, InvariantHolds, PTL

\* deliver hands a response to the call it answers and to no other, for any
\* number of calls, timeouts and late responses.
THEOREM AnswersAlwaysMatch == SafeSpec => []AnswersMatch
<1>1. IInv => AnswersMatch
  BY DEF IInv
<1> QED
  BY <1>1, InvariantHolds, PTL

\* deliver, the timeout callback and handleExit never settle an entry twice.
THEOREM AlwaysSettledAtMostOnce == SafeSpec => []SettledAtMostOnce
<1>1. IInv => SettledAtMostOnce
  BY DEF IInv
<1> QED
  BY <1>1, InvariantHolds, PTL

\* A call without an answer is always in the book or being settled, and the
\* book of a channel whose worker has exited is empty.
THEOREM NeverForgotten == SafeSpec => []NoCallIsForgotten
<1>1. IInv => NoCallIsForgotten
  BY DEF IInv
<1> QED
  BY <1>1, InvariantHolds, PTL

\* The armed timers are those of the book's entries that have a timeout.
THEOREM TimersAlwaysFollowBook == SafeSpec => []TimersFollowBook
<1>1. IInv => TimersFollowBook
  BY DEF IInv
<1> QED
  BY <1>1, InvariantHolds, PTL

-----------------------------------------------------------------------------
(* The channel implements the safety half of RequestBook. *)

\* A step of the channel that leaves every call's progress and the worker
\* alone is a stutter of the book.
LEMMA StatusStutters ==
    ASSUME Status' = Status, workerUp' = workerUp
    PROVE  UNCHANGED Book!vars
BY DEF Book!vars

\* A step that moves one call is a Move of the book.
LEMMA StatusMoves ==
    ASSUME IInv, NEW c \in Call, NEW from, NEW to,
           Status[c] = from, Status'[c] = to, workerUp' = workerUp,
           \A d \in Call \ {c} : Status'[d] = Status[d]
    PROVE  Book!Move(c, from, to)
<1>1. Status' = [Status EXCEPT ![c] = to]
  BY DEF Status
<1> QED
  BY <1>1 DEF Book!Move

LEMMA SendAfterExitRefines ==
    ASSUME IInv, NEW c \in Call, SendAfterExit(c)
    PROVE  Book!Refuse(c)
<1> USE DEF IInv, SendAfterExit, worker, Settled, Error, NoAnswer
<1>1. Status[c] = "idle" /\ Status'[c] = "failed"
  BY DEF Status, TypeOK, UnsentUntouched
<1>2. \A d \in Call \ {c} : Status'[d] = Status[d]
  BY DEF Status, TypeOK
<1>3. Book!Move(c, "idle", "failed")
  BY <1>1, <1>2, StatusMoves
<1> QED
  BY <1>3 DEF Book!Refuse, ExitedIsDown

LEMMA SendRefines ==
    ASSUME IInv, NEW c \in Call, Send(c)
    PROVE  Book!Ask(c) \/ Book!Refuse(c)
<1> USE DEF IInv, Send, Post, Settled, Error, NoAnswer
<1>1. Status[c] = "idle"
  BY DEF Status
<1>2. \A d \in Call \ {c} : Status'[d] = Status[d]
  BY DEF Status, TypeOK
<1>3. CASE c \in Unclonable
  <2>1. Status'[c] = "failed"
    BY <1>3 DEF Status, TypeOK, UnsentUntouched
  <2> QED
    BY <1>1, <1>2, <1>3, <2>1, StatusMoves DEF Book!Refuse
<1>4. CASE c \notin Unclonable
  <2>1. Status'[c] = "open"
    BY <1>4 DEF Status, TypeOK, UnsentUntouched
  <2> QED
    BY <1>1, <1>2, <2>1, StatusMoves DEF Book!Ask
<1> QED
  BY <1>3, <1>4

LEMMA DeliverRefines ==
    ASSUME IInv, NEW m \in outbox, Deliver(m)
    PROVE  (\E c \in Call : Book!Answer(c)) \/ UNCHANGED Book!vars
<1> USE DEF IInv, Deliver, Settled, Reply, NoAnswer
<1>1. CASE \A e \in pending : e.id # m.id
  <2>1. Status' = Status
    BY <1>1 DEF Status
  <2> QED
    BY <2>1, StatusStutters
<1>2. ASSUME NEW e \in pending, e.id = m.id,
             answer' = Settled(e.call, Reply(m.call))
      PROVE  (\E c \in Call : Book!Answer(c)) \/ UNCHANGED Book!vars
  <2>1. e.call \in Call /\ e.call \in sent
    BY DEF TypeOK, Entry, IdsGivenOut, Entries
  <2>2. CASE answer[e.call] = NoAnswer
    <3>1. Status[e.call] = "open" /\ Status'[e.call] = "answered"
      BY <1>2, <2>1, <2>2 DEF Status, TypeOK
    <3>2. \A d \in Call \ {e.call} : Status'[d] = Status[d]
      BY <1>2, <2>1, <2>2 DEF Status, TypeOK
    <3> QED
      BY <2>1, <3>1, <3>2, StatusMoves DEF Book!Answer
  <2>3. CASE answer[e.call] # NoAnswer
    <3>1. Status' = Status
      BY <1>2, <2>3 DEF Status
    <3> QED
      BY <3>1, StatusStutters
  <2> QED
    BY <2>2, <2>3
<1> QED
  BY <1>1, <1>2

LEMMA SettleNextRefines ==
    ASSUME IInv, NEW e \in synth, SettleNext(e)
    PROVE  (\E c \in Call : Book!Fail(c)) \/ UNCHANGED Book!vars
<1> USE DEF IInv, SettleNext, Settled, Error, NoAnswer, worker
<1>1. e.call \in Call /\ e.call \in sent /\ e.why \in {"timeout", "exit"}
  BY DEF TypeOK, Doomed, IdsGivenOut, Entries
<1>2. CASE answer[e.call] = NoAnswer
  <2>1. Status[e.call] = "open" /\ Status'[e.call] = "failed"
    BY <1>1, <1>2 DEF Status, TypeOK
  <2>2. \A d \in Call \ {e.call} : Status'[d] = Status[d]
    BY <1>1, <1>2 DEF Status, TypeOK
  <2>3. Book!Move(e.call, "open", "failed")
    BY <1>1, <2>1, <2>2, StatusMoves
  <2>4. e.call \in Timed \/ ~workerUp
    BY DEF ReasonsHold, ExitedIsDown
  <2> QED
    BY <1>1, <2>3, <2>4 DEF Book!Fail
<1>3. CASE answer[e.call] # NoAnswer
  <2>1. Status' = Status
    BY <1>3 DEF Status
  <2> QED
    BY <2>1, StatusStutters
<1> QED
  BY <1>2, <1>3

LEMMA QuietStepsRefine ==
    ASSUME IInv,
           \/ \E i \in timers : TimerFires(i)
           \/ HandleExit
           \/ \E m \in inbox : Take(m)
           \/ \E m \in serving : Respond(m)
           \/ UNCHANGED vars
    PROVE  UNCHANGED Book!vars
<1>1. UNCHANGED <<sent, answer, workerUp>>
  BY DEF TimerFires, HandleExit, Take, Respond, vars, parent, worker
<1>2. Status' = Status
  BY <1>1 DEF Status
<1> QED
  BY <1>1, <1>2, StatusStutters

LEMMA WorkerDiesRefines ==
    ASSUME IInv, WorkerDies
    PROVE  Book!ServiceStops
<1>1. Status' = Status
  BY DEF WorkerDies, Status, parent
<1> QED
  BY <1>1 DEF WorkerDies, Book!ServiceStops

\* Every behaviour of the channel is one of the request book: calls open and
\* close only as its safety half allows, each at most once and for a reason.
THEOREM ChannelImplementsBook == SafeSpec => Book!SafeSpec
<1>1. Init => Book!Init
  BY DEF Init, Book!Init, Status
<1>2. IInv /\ [Next]_vars => [Book!Next]_Book!vars
  <2> SUFFICES ASSUME IInv, [Next]_vars PROVE Book!Next \/ UNCHANGED Book!vars
    BY DEF Book!vars
  <2>1. ASSUME NEW c \in Call, SendAfterExit(c) \/ Send(c)
        PROVE  Book!Next
    BY <2>1, SendAfterExitRefines, SendRefines DEF Book!Next
  <2>2. ASSUME NEW m \in outbox, Deliver(m)
        PROVE  Book!Next \/ UNCHANGED Book!vars
    BY <2>2, DeliverRefines DEF Book!Next
  <2>3. ASSUME NEW e \in synth, SettleNext(e)
        PROVE  Book!Next \/ UNCHANGED Book!vars
    BY <2>3, SettleNextRefines DEF Book!Next
  <2>4. CASE WorkerDies
    BY <2>4, WorkerDiesRefines DEF Book!Next
  <2> QED
    BY <2>1, <2>2, <2>3, <2>4, QuietStepsRefine DEF Next
<1> QED
  BY <1>1, <1>2, InvariantHolds, PTL DEF SafeSpec, Book!SafeSpec
================================================================================
