--------------------------- MODULE MCQueryExecution ----------------------------
(***************************************************************************)
(* Instances of QueryExecution for TLC: two calls over two connections,    *)
(* while mysql_debug changes once.                                         *)
(***************************************************************************)
EXTENDS QueryExecution

CONSTANTS c1, c2, k1, k2, police, shop, id, v0, v1, v2

Calls == {c1, c2}
Conns == {k1, k2}
Resources == {police, shop}

\* v0 finds no row, v1 one, v2 two.
RowsFound == (v0 :> 0) @@ (v1 :> 1) @@ (v2 :> 2)
Args(s) == List([i \in DOMAIN s |-> Plain(s[i])])
Sets(s) == List([i \in DOMAIN s |-> Args(s[i])])
Missing == [t |-> "none"]

Sql(verb, marks, columns) ==
    [verb |-> verb, spaced |-> TRUE, marks |-> marks, names |-> <<>>,
     columns |-> columns]
Named == [Sql("select", 0, <<"bigint", "bit">>) EXCEPT !.names = <<id>>]
\* One '?', and a ':' in a string.
Timed == [Sql("select", 1, <<"bigint">>) EXCEPT !.names = <<0>>]
Query(resource, type, q, p) ==
    [via |-> "query", resource |-> resource, type |-> type, q |-> q, p |-> p]
Prepare(resource, q, p) ==
    [via |-> "execute", resource |-> resource, unpack |-> TRUE, q |-> q, p |-> p]
RawExecute(resource, q, p) == [Prepare(resource, q, p) EXCEPT !.unpack = FALSE]

FirstCall == {
    Query(police, "single", Named, Table(id :> Plain(v2))),
    Query(shop, "scalar", Sql("select", 2, <<"bit">>), Args(<<v2>>)),
    Query(police, "insert", Sql("insert", 2, <<>>), Missing),
    Query(shop, "insert", Sql("select", 0, <<"bigint">>), Missing),
    Query(shop, "rows", Sql("select", 1, <<"bigint">>), Args(<<v1, v1>>)),
    Query(shop, "update", Sql("update", 2, <<>>), Table(2 :> Plain(v1))),
    Query(shop, "rows", Timed, Table(1 :> Plain(v1))),
    Prepare(shop, Sql("select", 2, <<"tiny", "blob">>), Args(<<v2>>)),
    Prepare(police, Sql("select", 1, <<"bigint">>), Args(<<v0>>)),
    Prepare(police, Sql("select", 1, <<"bigint">>), Args(<<v1>>)),
    Prepare(shop, Sql("insert", 2, <<>>), Sets(<<<<v1, v2>>, <<v1>>, <<v0, v0>>>>)),
    RawExecute(shop, Sql("select", 1, <<"bigint">>), Sets(<<<<v1>>, <<v2>>>>)),
    RawExecute(police, Sql("update", 1, <<>>),
               List(<<Table(1 :> Plain(v1)), Args(<<v2>>)>>)),
    Prepare(shop, Sql("replace", 1, <<>>), Sets(<<<<v1>>, <<v2>>>>)),
    Prepare(police, Sql("select", 1, <<"bigint">>), List(<<Nil>>)) }

\* The second call, which any of the others meets, leaves statements in a
\* session or finds those another one has left there.
SecondCall == {
    Query(police, "single", Named, Table(id :> Plain(v1))),
    Prepare(police, Sql("select", 1, <<"bigint">>), Sets(<<<<v1>>, <<v2>>>>)),
    Prepare(police, Sql("insert", 2, <<>>), Sets(<<<<v1, v2>>, <<v1>>>>)),
    RawExecute(shop, Sql("update", 1, <<>>), Missing) }
Requests == (c1 :> FirstCall) @@ (c2 :> SecondCall)
================================================================================
