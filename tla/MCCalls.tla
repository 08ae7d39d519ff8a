-------------------------------- MODULE MCCalls --------------------------------
(***************************************************************************)
(* An instance of Calls for TLC: a call through each door, two with a      *)
(* timeout, and one whose data cannot be cloned.                           *)
(***************************************************************************)
EXTENDS Calls, TLC

CONSTANTS await, js, lua, async, x, y

AllCalls == {await, js, lua, async}
TimedCalls == {await, js}
UnclonableCalls == {async}
StoredTexts == [w \in Wrappers |-> IF w = "js" THEN <<x, y>> ELSE <<x>>]

A(door, method, query, params, cb) ==
    [door |-> door, method |-> method, query |-> query, params |-> params, cb |-> cb]
Plain(t) == [t |-> "text", of |-> t]
Stored(t) == [t |-> "stored", of |-> t]

Asked == (await :> A("await", "query", Plain(x), "table", "none"))
      @@ (js :> A("js", "single", Stored(x), "function", "none"))
      @@ (lua :> A("lua", "prepare", Stored(x), "table", "function"))
      @@ (async :> A("async", "update", Plain(y), "table", "none"))
================================================================================
