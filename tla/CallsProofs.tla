------------------------------ MODULE CallsProofs ------------------------------
(***************************************************************************)
(* Proofs about Calls, for every set of calls and whatever they ask: the   *)
(* callers leave the channel's specification intact, so what               *)
(* WorkerChannelProofs proves of the channel holds with them, and what a   *)
(* caller hears is what its own call was answered.                         *)
(*                                                                         *)
(* The second rests on two facts.  An answer never changes once it is      *)
(* there, and a call whose .then has not run has heard nothing.            *)
(*                                                                         *)
(* The last is about stored queries: a store only ever grows, so the text  *)
(* that an index named when a call was made is the text it names for good. *)
(***************************************************************************)
EXTENDS Calls, WorkerChannelProofs

USE CallsAssumption

\* Every step of the callers is a step of the channel or none of its concern.
LEMMA CallsStepsAreChannelSteps == [CallsNext]_allVars => [Next]_vars
<1> SUFFICES ASSUME [CallsNext]_allVars PROVE [Next]_vars
  OBVIOUS
<1>1. CASE UNCHANGED allVars
  BY <1>1 DEF allVars
<1>2. ASSUME NEW w \in Wrappers, StoreText(w) PROVE [Next]_vars
  BY <1>2 DEF StoreText
<1>3. ASSUME NEW c \in Call, Refuse(c) PROVE [Next]_vars
  BY <1>3 DEF Refuse
<1>4. ASSUME NEW c \in Call, Make(c) PROVE [Next]_vars
  BY <1>4 DEF Make, Next
<1>5. ASSUME NEW c \in Call, Then(c) PROVE [Next]_vars
  BY <1>5 DEF Then
<1>6. CASE ChannelTurn
  BY <1>6 DEF ChannelTurn, Next
<1>7. CASE ChannelRest
  BY <1>7 DEF ChannelRest, Next
<1> QED
  BY <1>1, <1>2, <1>3, <1>4, <1>5, <1>6, <1>7 DEF CallsNext

\* With its callers the channel behaves as WorkerChannel says.
THEOREM CallsKeepChannel == CallsSafeSpec => SafeSpec
<1>1. CallsInit => Init
  BY DEF CallsInit
<1> QED
  BY <1>1, CallsStepsAreChannelSteps, PTL DEF CallsSafeSpec, SafeSpec

-----------------------------------------------------------------------------
(* What callers hear *)

Untold == \A c \in Call \ handled : told[c] = <<>> /\ promise[c] # "resolved"
CallsTypeOK == /\ told \in [Call -> Seq({"result", "error"})]
               /\ promise \in [Call -> States]
               /\ handled \subseteq Call

CInv == CallsTypeOK /\ Untold /\ HeardRight

\* An answer stays what it is.
LEMMA AnswerStays ==
    ASSUME IInv, [Next]_vars, NEW c \in Call, answer[c] # NoAnswer
    PROVE  answer'[c] = answer[c]
<1> USE DEF Settled
<1>0. answer \in [Call -> [kind : Kinds, of : Call \cup {NoCall}]]
  BY DEF IInv, TypeOK
<1>1. CASE UNCHANGED vars
  BY <1>1 DEF vars
<1>2. ASSUME NEW d \in Call, SendAfterExit(d) PROVE answer'[c] = answer[c]
  BY <1>0, <1>2 DEF SendAfterExit
<1>3. ASSUME NEW d \in Call, Send(d) PROVE answer'[c] = answer[c]
  BY <1>0, <1>3 DEF Send, Post
<1>4. ASSUME NEW m \in outbox, Deliver(m) PROVE answer'[c] = answer[c]
  BY <1>0, <1>4 DEF Deliver
<1>5. ASSUME NEW e \in synth, SettleNext(e) PROVE answer'[c] = answer[c]
  BY <1>0, <1>5 DEF SettleNext
<1>6. CASE \/ \E i \in timers : TimerFires(i)
           \/ HandleExit
           \/ \E m \in inbox : Take(m)
           \/ \E m \in serving : Respond(m)
           \/ WorkerDies
  BY <1>6 DEF TimerFires, HandleExit, Take, Respond, WorkerDies, parent
<1> QED
  BY <1>1, <1>2, <1>3, <1>4, <1>5, <1>6 DEF Next

\* A step that tells nobody anything keeps what was heard right.
LEMMA SilentStep ==
    ASSUME IInv, CInv, [Next]_vars, UNCHANGED <<told, handled>>,
           promise' \in [Call -> States],
           \A c \in Call : promise'[c] = "resolved" => promise[c] = "resolved"
    PROVE  CInv'
<1>1. CallsTypeOK'
  BY DEF CInv, CallsTypeOK
<1>2. Untold'
  BY DEF CInv, Untold
<1>3. ASSUME NEW c \in Call, answer[c] = Reply(c) PROVE answer'[c] = Reply(c)
  <2>1. answer[c] # NoAnswer
    BY <1>3 DEF Reply, NoAnswer
  <2> QED
    BY <1>3, <2>1, AnswerStays
<1>4. HeardRight'
  BY <1>3 DEF CInv, HeardRight, Reply
<1> QED
  BY <1>1, <1>2, <1>4 DEF CInv

\* The .then of a call: the one step at which its caller hears something.
LEMMA ThenStep ==
    ASSUME IInv, CInv, NEW c \in Call, Then(c)
    PROVE  CInv'
<1>1. c \notin handled /\ told[c] = <<>> /\ promise[c] # "resolved"
  BY DEF Then, Microtasks, CInv, Untold
<1>2. UNCHANGED answer /\ handled' = handled \cup {c}
  BY DEF Then, vars
<1>3. PICK what \in {"result", "error"} :
         /\ what = "result" => answer[c].kind = "reply"
         /\ invokeCb(c, what)
  BY DEF Then
<1>4. what = "result" => answer[c] = Reply(c)
  <2>1. answer[c] \in [kind : Kinds, of : Call \cup {NoCall}]
    BY DEF IInv, TypeOK
  <2>2. answer[c].kind = "reply" => answer[c].of = c
    BY DEF IInv, AnswersMatch
  <2> QED
    BY <1>3, <2>1, <2>2 DEF Reply
<1>5. told \in [Call -> Seq({"result", "error"})] /\ promise \in [Call -> States]
  BY DEF CInv, CallsTypeOK
<1>6. Append(<<>>, what) = <<what>> /\ <<what>> \in Seq({"result", "error"})
  OBVIOUS
<1>7. /\ told' \in [Call -> Seq({"result", "error"})]
      /\ promise' \in [Call -> States]
      /\ \A d \in Call \ {c} : told'[d] = told[d] /\ promise'[d] = promise[d]
      /\ told'[c] \in {<<>>, <<what>>}
      /\ told'[c] = <<"result">> \/ promise'[c] = "resolved" => what = "result"
      /\ told'[c] = <<"error">> => Reports(Asks[c]) /\ ~Promises(Asks[c])
  <2>1. \/ told' = told
        \/ /\ told' = [told EXCEPT ![c] = <<what>>]
           /\ what = "error" => Reports(Asks[c]) /\ ~Promises(Asks[c])
    <3>1. [told EXCEPT ![c] = Append(@, what)] = [told EXCEPT ![c] = <<what>>]
      BY <1>1, <1>6
    <3> QED
      BY <1>3, <3>1 DEF invokeCb, Hear, Settle, CallBack
  <2>2. \/ promise' = promise
        \/ promise' = [promise EXCEPT ![c] = "resolved"] /\ what = "result"
        \/ promise' = [promise EXCEPT ![c] = "rejected"]
    BY <1>3 DEF invokeCb, Hear, Settle, CallBack
  <2>3. told'[c] = <<>> \/ (told'[c] = <<what>>
                            /\ (what = "error" => Reports(Asks[c]) /\ ~Promises(Asks[c])))
    BY <1>1, <1>5, <2>1
  <2>4. <<>> # <<"error">> /\ <<>> # <<"result">> /\ <<"error">> # <<"result">>
    <3>1. \A x : Len(<<x>>) = 1 /\ <<x>>[1] = x
      OBVIOUS
    <3> QED
      BY <3>1
  <2>5. /\ told' \in [Call -> Seq({"result", "error"})]
        /\ \A d \in Call \ {c} : told'[d] = told[d]
    BY <1>5, <1>6, <2>1
  <2>6. /\ promise' \in [Call -> States]
        /\ \A d \in Call \ {c} : promise'[d] = promise[d]
        /\ promise'[c] = "resolved" => what = "result"
    BY <1>1, <1>5, <2>2 DEF States
  <2>7. told'[c] = <<"result">> => what = "result"
    BY <2>3, <2>4
  <2>8. told'[c] = <<"error">> => Reports(Asks[c]) /\ ~Promises(Asks[c])
    BY <2>3, <2>4
  <2> QED
    BY <2>3, <2>5, <2>6, <2>7, <2>8
<1>8. CallsTypeOK' /\ Untold'
  BY <1>2, <1>7 DEF CInv, CallsTypeOK, Untold
<1>9. HeardRight'
  <2> SUFFICES ASSUME NEW d \in Call
               PROVE  /\ told'[d] \in {<<>>, <<"result">>, <<"error">>}
                      /\ told'[d] = <<"result">> \/ promise'[d] = "resolved" =>
                            answer'[d] = Reply(d)
                      /\ told'[d] = <<"error">> => Asks[d].door = "lua" /\ ReturnErrors
    BY DEF HeardRight, Reply
  <2>1. CASE d # c
    BY <1>2, <1>7, <2>1 DEF CInv, HeardRight
  <2>2. CASE d = c
    <3>1. told'[c] = <<"result">> \/ promise'[c] = "resolved" => what = "result"
      BY <1>7
    <3>2. told'[c] = <<"error">> => Asks[c].door = "lua" /\ ReturnErrors
      BY <1>7 DEF Reports
    <3> QED
      BY <1>2, <1>4, <1>7, <2>2, <3>1, <3>2
  <2> QED
    BY <2>1, <2>2
<1> QED
  BY <1>8, <1>9 DEF CInv

LEMMA CallsInductive == IInv /\ CInv /\ [CallsNext]_allVars => CInv'
<1> SUFFICES ASSUME IInv, CInv, [CallsNext]_allVars PROVE CInv'
  OBVIOUS
<1>0. [Next]_vars /\ promise \in [Call -> States]
  BY CallsStepsAreChannelSteps DEF CInv, CallsTypeOK
<1>1. CASE UNCHANGED callers
  BY <1>0, <1>1, SilentStep DEF callers
<1>2. ASSUME NEW w \in Wrappers, StoreText(w) PROVE CInv'
  BY <1>0, <1>2, SilentStep DEF StoreText
<1>3. ASSUME NEW c \in Call, Refuse(c) \/ Make(c) PROVE CInv'
  <2>1. /\ UNCHANGED <<told, handled>>
        /\ promise' \in [Call -> States]
        /\ \A d \in Call : promise'[d] = "resolved" => promise[d] = "resolved"
    BY <1>0, <1>3 DEF Refuse, Make, States
  <2> QED
    BY <1>0, <2>1, SilentStep
<1>4. ASSUME NEW c \in Call, Then(c) PROVE CInv'
  BY <1>4, ThenStep
<1> QED
  BY <1>1, <1>2, <1>3, <1>4 DEF CallsNext, allVars, ChannelTurn, ChannelRest

\* Whatever is timed out, lost or answered late, and in whatever form it
\* asked, a caller hears at most once, and only what its own call was
\* answered.
THEOREM CallersHearRight == CallsSafeSpec => []HeardRight
<1>1. CallsInit => CInv
  BY DEF CallsInit, CInv, CallsTypeOK, Untold, HeardRight, States
<1>2. CallsSafeSpec => []IInv
  BY CallsKeepChannel, InvariantHolds, PTL
<1>3. CInv => HeardRight
  BY DEF CInv
<1> QED
  BY <1>1, <1>2, <1>3, CallsInductive, PTL DEF CallsSafeSpec

-----------------------------------------------------------------------------
(* What stored queries run *)

StoredText == {Texts[w][i] : w \in Wrappers, i \in Nat}

\* StoredRight, with both numbers in the JavaScript store: it only grows, so
\* that what a call has run stays where it was found.
SInv ==
    /\ stored \in [Wrappers -> Seq(StoredText)]
    /\ DOMAIN ran = Call
    /\ \A c \in Call : ran[c] # NoText /\ IsStored(Asks[c]) =>
          \/ Asks[c].door # "js" /\ ran[c] = Asks[c].query.of
          \/ /\ Asks[c].door = "js"
             /\ \E i \in DOMAIN stored["js"] : /\ i - 1 \in DOMAIN stored["js"]
                                               /\ stored["js"][i] = ran[c]
                                               /\ stored["js"][i - 1] = Asks[c].query.of

\* The text a wrapper finds under the number that its store gave for another.
LEMMA TextFound ==
    ASSUME NEW a, stored \in [Wrappers -> Seq(StoredText)], IsStored(a), Holds(a), Text(a) # NoText
    PROVE  \/ a.door # "js" /\ Text(a) = a.query.of
           \/ /\ a.door = "js"
              /\ \E i \in DOMAIN stored["js"] : /\ i - 1 \in DOMAIN stored["js"]
                                                /\ stored["js"][i] = Text(a)
                                                /\ stored["js"][i - 1] = a.query.of
<1> DEFINE w == IF a.door = "js" THEN "js" ELSE "lua"
           n == CHOOSE i \in DOMAIN Store(a) : Store(a)[i] = a.query.of
<1>1. Store(a) = stored[w] /\ w \in Wrappers
  BY DEF Store, Wrappers
<1>2. n \in DOMAIN Store(a) /\ Store(a)[n] = a.query.of
  BY DEF Holds
<1>3. n \in Nat
  <2>1. Store(a) \in Seq(StoredText)
    BY <1>1
  <2> HIDE DEF n
  <2> QED
    BY <1>2, <2>1
<1>4. Index(a) = n + (IF a.door = "js" THEN 1 ELSE 0)
  BY DEF Index
<1> HIDE DEF n
<1>5. Text(a) = Store(a)[Index(a)] /\ Index(a) \in DOMAIN Store(a)
  BY DEF Text, IsStored
<1>6. CASE a.door # "js"
  <2>1. Index(a) = n
    BY <1>3, <1>4, <1>6
  <2> QED
    BY <1>2, <1>5, <1>6, <2>1
<1>7. CASE a.door = "js"
  <2>1. Index(a) - 1 = n
    BY <1>3, <1>4, <1>7
  <2> QED
    BY <1>1, <1>2, <1>5, <1>7, <2>1
<1> QED
  BY <1>6, <1>7

LEMMA StoredInductive == SInv /\ [CallsNext]_allVars => SInv'
<1> SUFFICES ASSUME SInv, [CallsNext]_allVars PROVE SInv'
  OBVIOUS
<1>1. CASE UNCHANGED <<stored, ran>>
  BY <1>1 DEF SInv, IsStored
<1>2. ASSUME NEW w \in Wrappers, StoreText(w) PROVE SInv'
  <2> DEFINE x == Texts[w][Len(stored[w]) + 1]
  <2>1. stored' = [stored EXCEPT ![w] = Append(@, x)] /\ UNCHANGED ran
    BY <1>2 DEF StoreText
  <2>2. stored \in [Wrappers -> Seq(StoredText)] /\ x \in StoredText
    BY DEF SInv, StoredText
  <2> HIDE DEF x
  <2>3. stored' \in [Wrappers -> Seq(StoredText)]
    BY <2>1, <2>2
  <2>4. ASSUME NEW i \in DOMAIN stored["js"]
        PROVE  i \in DOMAIN stored'["js"] /\ stored'["js"][i] = stored["js"][i]
    <3>1. stored["js"] \in Seq(StoredText)
      BY <2>2 DEF Wrappers
    <3>2. stored'["js"] = stored["js"] \/ stored'["js"] = Append(stored["js"], x)
      BY <2>1, <2>2 DEF Wrappers
    <3> DEFINE s == stored["js"]
    <3>3. s \in Seq(StoredText) /\ i \in DOMAIN s
      BY <3>1
    <3> HIDE DEF s
    <3>4. i \in DOMAIN Append(s, x) /\ Append(s, x)[i] = s[i]
      BY <2>2, <3>3
    <3> QED
      BY <3>2, <3>3, <3>4 DEF s
  <2> QED
    BY <2>1, <2>3, <2>4 DEF SInv, IsStored
<1>3. ASSUME NEW c \in Call, Make(c) PROVE SInv'
  <2>1. Holds(Asks[c]) /\ ran' = [ran EXCEPT ![c] = Text(Asks[c])] /\ UNCHANGED stored
    BY <1>3 DEF Make
  <2>2. DOMAIN ran' = Call /\ ran'[c] = Text(Asks[c]) /\ \A d \in Call \ {c} : ran'[d] = ran[d]
    BY <2>1 DEF SInv
  <2>3. Text(Asks[c]) # NoText /\ IsStored(Asks[c]) =>
          \/ Asks[c].door # "js" /\ Text(Asks[c]) = Asks[c].query.of
          \/ /\ Asks[c].door = "js"
             /\ \E i \in DOMAIN stored["js"] : /\ i - 1 \in DOMAIN stored["js"]
                                               /\ stored["js"][i] = Text(Asks[c])
                                               /\ stored["js"][i - 1] = Asks[c].query.of
    BY <2>1, TextFound DEF SInv
  <2> QED
    BY <2>1, <2>2, <2>3 DEF SInv, IsStored
<1>4. ASSUME NEW c \in Call, Refuse(c) \/ Then(c) PROVE SInv'
  BY <1>1, <1>4 DEF Refuse, Then
<1> QED
  BY <1>1, <1>2, <1>3, <1>4 DEF CallsNext, allVars, callers, ChannelTurn, ChannelRest

\* What a caller hears is what its own call was answered, and a number of a
\* query store runs the text it was given for, or in JavaScript the one that
\* was stored after it.
THEOREM CallersHeardAndStored == CallsSafeSpec => []HeardWhatWasAnswered
<1>1. CallsInit => SInv
  <2> SUFFICES ASSUME CallsInit PROVE SInv
    OBVIOUS
  <2>1. /\ stored = [w \in Wrappers |-> <<>>]
        /\ ran = [c \in Call |-> NoText]
    BY DEF CallsInit
  <2> QED
    BY <2>1 DEF SInv
<1>2. SInv => StoredRight
  BY DEF SInv, StoredRight
<1> QED
  BY <1>1, <1>2, StoredInductive, CallersHearRight, PTL DEF CallsSafeSpec, HeardWhatWasAnswered
================================================================================
