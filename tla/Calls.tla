--------------------------------- MODULE Calls ---------------------------------
(***************************************************************************)
(* From a caller in another resource to the channel and back: the exports  *)
(* of fivem/index.ts in their callback and promise forms, and the wrappers *)
(* lib/MySQL.ts and lib/MySQL.lua, on top of WorkerChannel.                *)
(*                                                                         *)
(* A call comes through one of five doors: "export" and "async" are the    *)
(* export itself and its _async or Sync form, "js" is lib/MySQL.ts, "lua"  *)
(* and "await" are MySQL.query(...) and MySQL.query.await(...) of          *)
(* lib/MySQL.lua.  The code after send(...) is a microtask: it runs when   *)
(* the turn that settled the promise is over, before any other turn.       *)
(*                                                                         *)
(* A definition named Slip... is a faulty variant of the one that follows. *)
(***************************************************************************)
EXTENDS WorkerChannel, Sequences

CONSTANTS Asks,         \* per call, what it asks for
          Texts,        \* per wrapper, the texts a resource stores, in order
          ReturnErrors, \* mysql_option 'return_callback_errors' of the Lua resource
          NoText

ASSUME CallsAssumption == /\ DOMAIN Asks = Call
                          /\ ReturnErrors \in BOOLEAN
                          /\ \A w \in {"js", "lua"} : \A i \in DOMAIN Texts[w] :
                                Texts[w][i] # NoText

VARIABLES stored,       \* per wrapper, its query store
          ran,          \* the text a call was sent with
          handled,      \* calls whose .then has run
          told,         \* what each caller's callback was called with
          promise       \* what became of the caller's promise

callers == <<stored, ran, handled, told, promise>>
allVars == <<vars, callers>>

Wrappers == {"js", "lua"}
States == {"none", "pending", "resolved", "rejected"}

CallsInit == /\ Init
             /\ stored = [w \in Wrappers |-> <<>>]
             /\ ran = [c \in Call |-> NoText]
             /\ handled = {}
             /\ told = [c \in Call |-> <<>>]
             /\ promise = [c \in Call |-> "none"]

-----------------------------------------------------------------------------
(* Arguments *)

\* setCallback, safeArgs: a callback is given third, or second when there are
\* no parameters.  The promise forms bring their own.
HasCb(a) == a.door \in {"export", "js", "lua"} /\ "function" \in {a.cb, a.params}
Promises(a) == a.door \in {"async", "js", "await"}

\* Whether invokeCb hands errors over: isPromise.
Reports(a) == Promises(a) \/ (a.door = "lua" /\ ReturnErrors)

\* The text a query argument stands for: itself, or the one the wrapper finds
\* under the number its store has returned.  The JavaScript wrapper returns
\* the length of an array that it indexes from zero.
Store(a) == stored[IF a.door = "js" THEN "js" ELSE "lua"]
Index(a) == (CHOOSE i \in DOMAIN Store(a) : Store(a)[i] = a.query.of)
            + (IF a.door = "js" THEN 1 ELSE 0)
Text(a) == CASE a.query.t = "text" -> a.query.of
             [] a.query.t = "list" -> a.query.of
             [] OTHER -> IF Index(a) \in DOMAIN Store(a) THEN Store(a)[Index(a)] ELSE NoText

IsStored(a) == a.query.t = "stored"
Holds(a) == IsStored(a) => \E i \in DOMAIN Store(a) : Store(a)[i] = a.query.of

\* safeArgs of the two wrappers; the exports themselves check nothing.
RefusedByJs(a) ==
    /\ a.door = "js"
    /\ \/ Text(a) = NoText
       \/ a.method = "transaction" /\ a.query.t # "list"
       \/ a.method # "transaction" /\ a.query.t = "list"
       \/ "other" \in {a.params, a.cb}
RefusedByLua(a) ==
    /\ a.door \in {"lua", "await"}
    /\ \/ Text(a) = NoText
       \/ a.method = "transaction" /\ a.query.t = "text"
       \/ a.method # "transaction" /\ a.query.t = "list"
       \/ a.params = "other"
       \/ a.cb = "other" /\ a.params = "table"
Refused(a) == RefusedByJs(a) \/ RefusedByLua(a)

-----------------------------------------------------------------------------
(* Calls *)

\* QueryStore.push, addStore.
StoreText(w) ==
    /\ Len(stored[w]) < Len(Texts[w])
    /\ stored' = [stored EXCEPT ![w] = Append(@, Texts[w][Len(@) + 1])]
    /\ UNCHANGED <<vars, ran, handled, told, promise>>

\* An assertion of safeArgs: the caller has the error at once.
Refuse(c) ==
    /\ promise[c] = "none"
    /\ Holds(Asks[c])
    /\ Refused(Asks[c])
    /\ promise' = [promise EXCEPT ![c] = "rejected"]
    /\ UNCHANGED <<vars, stored, ran, handled, told>>

Make(c) ==
    /\ promise[c] = "none"
    /\ Holds(Asks[c])
    /\ ~Refused(Asks[c])
    /\ Send(c) \/ SendAfterExit(c)
    /\ ran' = [ran EXCEPT ![c] = Text(Asks[c])]
    /\ promise' = [promise EXCEPT ![c] = IF Promises(Asks[c]) THEN "pending" ELSE "none"]
    /\ UNCHANGED <<stored, handled, told>>

-----------------------------------------------------------------------------
(* Answers *)

\* A promise of send(...) that is resolved and whose .then has not run.  When
\* it is rejected no code is attached.
Microtasks == {c \in sent : answer[c].kind \notin {"none", "rejected"}} \ handled

\* The promise of async_exp, of execute and of await.
Settle(c, what) ==
    promise' = IF ~Promises(Asks[c]) THEN promise
               ELSE [promise EXCEPT ![c] = IF what = "result" THEN "resolved" ELSE "rejected"]

\* The caller's own callback; the JavaScript wrapper has it after its promise.
CallBack(c, what) ==
    told' = IF HasCb(Asks[c]) /\ (Promises(Asks[c]) => what = "result")
            THEN [told EXCEPT ![c] = Append(@, what)] ELSE told

Hear(c, what) == Settle(c, what) /\ CallBack(c, what)

SlipInvokeCb(c, what) == Hear(c, "result")

\* An exception of the callback is caught and printed, and so is an error that
\* nobody asked to hear.
invokeCb(c, what) ==
    LET heard == (HasCb(Asks[c]) \/ Promises(Asks[c]))
                 /\ (what = "error" => Reports(Asks[c]))
    IN  \/ heard /\ Hear(c, what)
        \/ ~heard /\ UNCHANGED <<told, promise>>

SlipThen(c) ==
    /\ synth = {}
    /\ c \in Microtasks
    /\ answer[c].kind = "reply"
    /\ handled' = handled \cup {c}
    /\ invokeCb(c, "result")
    /\ UNCHANGED <<vars, stored, ran>>

\* A reply holds a result or an error, what the channel made up is an error.
Then(c) ==
    /\ synth = {}
    /\ c \in Microtasks
    /\ handled' = handled \cup {c}
    /\ \E what \in IF answer[c].kind = "reply" THEN {"result", "error"} ELSE {"error"} :
          invokeCb(c, what)
    /\ UNCHANGED <<vars, stored, ran>>

-----------------------------------------------------------------------------
ChannelTurn == /\ Microtasks = {}
               /\ (\E m \in outbox : Deliver(m)) \/ (\E i \in timers : TimerFires(i))
                  \/ HandleExit
               /\ UNCHANGED callers

ChannelRest == /\ \/ \E e \in synth : SettleNext(e)
                  \/ \E m \in inbox : Take(m)
                  \/ \E m \in serving : Respond(m)
                  \/ WorkerDies
               /\ UNCHANGED callers

CallsNext == \/ \E w \in Wrappers : StoreText(w)
             \/ \E c \in Call : Refuse(c) \/ Make(c) \/ Then(c)
             \/ ChannelTurn
             \/ ChannelRest

\* As in WorkerChannel; Node also runs its microtasks.
CallsFairness ==
    /\ WF_allVars(Microtasks = {} /\ (\E i \in timers : TimerFires(i)) /\ UNCHANGED callers)
    /\ WF_allVars((\E e \in synth : SettleNext(e)) /\ UNCHANGED callers)
    /\ WF_allVars(Microtasks = {} /\ HandleExit /\ UNCHANGED callers)
    /\ WF_allVars(\E c \in Call : Then(c))

CallsSafeSpec == CallsInit /\ [][CallsNext]_allVars
CallsSpec == CallsSafeSpec /\ CallsFairness

-----------------------------------------------------------------------------
(* Properties *)

\* A caller hears at most once; a result is the worker's reply to this very
\* call; an error is given to a callback only if errors were asked for.
HeardRight ==
    \A c \in Call :
        /\ told[c] \in {<<>>, <<"result">>, <<"error">>}
        /\ told[c] = <<"result">> \/ promise[c] = "resolved" => answer[c] = Reply(c)
        /\ told[c] = <<"error">> => Asks[c].door = "lua" /\ ReturnErrors

\* A number from the Lua store runs the text it was given for.  One from the
\* JavaScript store runs the text stored next, and is refused until there is
\* one.
StoredRight ==
    \A c \in Call : ran[c] # NoText /\ IsStored(Asks[c]) =>
        \/ Asks[c].door # "js" /\ ran[c] = Asks[c].query.of
        \/ /\ Asks[c].door = "js"
           /\ \E i \in DOMAIN stored["js"] : /\ stored["js"][i] = ran[c]
                                             /\ stored["js"][i - 1] = Asks[c].query.of

HeardWhatWasAnswered == HeardRight /\ StoredRight

\* compat-matrix 10: a promise is settled once its call has timed out or the
\* worker is gone, unless the data could not be cloned: then no code is left
\* that could settle it.  A callback form is owed nothing but results.
CallersHearBack ==
    \A c \in Call :
        (promise[c] = "pending" /\ (c \in Timed \/ ~workerUp))
            ~> (promise[c] # "pending" \/ answer[c].kind = "rejected")
================================================================================
