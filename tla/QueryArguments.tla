---------------------------- MODULE QueryArguments -----------------------------
(***************************************************************************)
(* What the worker makes of the parameters a caller hands over:            *)
(* utils/parseArguments.ts for query, single, scalar, insert and update,   *)
(* utils/parseExecute.ts for prepare and rawExecute, and the binding the   *)
(* connector does with the outcome.                                        *)
(*                                                                         *)
(* A JavaScript value is a record.  A plain value is [t |-> "value"], null *)
(* is Nil, and a hole of an array or undefined is Absent.  An array is     *)
(* List(s); an object is Table(f), f a function whose domain mixes names   *)
(* and the numbers that its numeric keys spell.                            *)
(***************************************************************************)
EXTENDS Naturals, Sequences

CONSTANTS ConvertNamed  \* namedPlaceholders is not the string 'false'

ASSUME ConvertNamedAssumption == ConvertNamed \in BOOLEAN

Nil == [t |-> "null"]
Absent == [t |-> "absent"]
Plain(v) == [t |-> "value", v |-> v]
List(s) == [t |-> "list", items |-> s]
Table(f) == [t |-> "table", fields |-> f]

\* What can be handed over: a list of plain values, of lists and of objects, an
\* object of plain values, or something else that counts as nothing.  A hole of
\* a list has become null on its way.
IsPlain(x) == x.t = "value" \/ x = Nil
IsSequence(s) == s \in Seq({s[i] : i \in DOMAIN s})
IsTable(x) ==
    /\ x.t = "table"
    /\ \A key \in DOMAIN x.fields : IsPlain(x.fields[key])
    /\ LET keys == DOMAIN x.fields \cap (Nat \ {0})
       IN  keys # {} => \E k \in keys : \A j \in keys : j <= k
IsList(x) == x.t = "list" /\ IsSequence(x.items)
IsArgument(x) ==
    \/ x.t \notin {"list", "table"}
    \/ IsTable(x)
    \/ /\ IsList(x)
       /\ \A i \in DOMAIN x.items :
             IsPlain(x.items[i]) \/ IsList(x.items[i]) \/ IsTable(x.items[i])

Nils(n) == [i \in 1..n |-> Nil]
Holes(n) == [i \in 1..n |-> Absent]

\* object[key], and object[key] ?? null.
Field(p, key) == IF key \in DOMAIN p.fields THEN p.fields[key] ELSE Absent
OrNil(x) == IF x = Absent THEN Nil ELSE x
Padded(s, n) == s \o Nils(IF Len(s) < n THEN n - Len(s) ELSE 0)

\* What a parser yields; "sets" has one list of values per execution.
Parsed(sets) == [ok |-> TRUE, sets |-> sets]
Rejected == [ok |-> FALSE, sets |-> <<>>]

-----------------------------------------------------------------------------
(* parseArguments *)

\* A text with a ':' or '@' is converted, but only for an object.  Its names are
\* what the library finds there, in order: a name outside a string, or, for a
\* '?', a number counted from 0.  (If it finds none, nothing is converted.)
Converts(q, p) == ConvertNamed /\ p.t = "table" /\ q.names # <<>>

ByName(q, p) == [i \in 1..Len(q.names) |-> OrNil(Field(p, q.names[i]))]
ByNumber(p, n) == [i \in 1..n |-> OrNil(Field(p, i))]

SlipPadList(s, n) == IF Len(s) <= n THEN Parsed(<<Nils(n - Len(s)) \o s>>) ELSE Rejected

\* A list that is too short is padded behind a gap as wide as itself is short:
\* the nulls go to the indices from placeholders on.
PadList(s, n) ==
    CASE n = 0 -> Parsed(<<s>>)
      [] n > 0 /\ s = <<>> -> Parsed(<<Nils(n)>>)
      [] n > 0 /\ s # <<>> /\ Len(s) <= n ->
            Parsed(<<s \o Holes(n - Len(s)) \o Nils(n - Len(s))>>)
      [] OTHER -> Rejected

ParseArguments(q, p) ==
    CASE p.t = "list" -> PadList(p.items, q.marks)
      [] Converts(q, p) -> Parsed(<<ByName(q, p)>>)
      [] p.t = "table" /\ ~Converts(q, p) -> Parsed(<<ByNumber(p, q.marks)>>)
      [] OTHER -> PadList(<<>>, q.marks)

-----------------------------------------------------------------------------
(* parseExecute *)

\* executeType looks at the first word, up to a space, in any case; a verb
\* that ends in a newline, and REPLACE, count as SELECT.
ExecuteType(q) == IF q.verb \in {"insert", "update"} /\ q.spaced THEN q.verb ELSE "select"

\* An object's numeric keys, one based, as an array; other keys are lost.
Keyed(p) ==
    LET keys == DOMAIN p.fields \cap (Nat \ {0})
        n == IF keys = {} THEN 0 ELSE CHOOSE k \in keys : \A j \in keys : j <= k
    IN  [i \in 1..n |-> Field(p, i)]

IsSet(x) == x.t \in {"list", "absent"}             \* every skips holes
IsObject(x) == x.t \in {"list", "table", "null", "absent"}

\* One parameter set given as an object or as an array, filled up with nulls.
SetOf(x, n) ==
    LET s == IF x.t = "list" THEN x.items ELSE Keyed(x)
    IN  [i \in 1..(IF Len(s) > n THEN Len(s) ELSE n) |->
            IF i <= Len(s) THEN IF i <= n THEN OrNil(s[i]) ELSE s[i] ELSE Nil]

\* A list of nulls is taken for a list of objects, and Object.entries(null)
\* throws.  rawExecute then pads every set to the number of placeholders.
ParseExecute(q, p) ==
    LET s == CASE p.t = "list" -> p.items
               [] p.t = "table" -> Keyed(p)
               [] OTHER -> <<>>
    IN  IF \A i \in DOMAIN s : IsSet(s[i])
        THEN Parsed([i \in DOMAIN s |-> Padded(s[i].items, q.marks)])
        ELSE IF \A i \in DOMAIN s : IsObject(s[i])
        THEN IF \E i \in DOMAIN s : s[i] = Nil THEN Rejected
             ELSE Parsed([i \in DOMAIN s |-> SetOf(s[i], q.marks)])
        ELSE Parsed(<<Padded(s, q.marks)>>)

-----------------------------------------------------------------------------
(* The connector *)

\* Values beyond the placeholders are ignored, undefined is sent as NULL, and
\* a placeholder without a value is an error.
Binds(s, n) == Len(s) >= n
Bound(s, n) == [i \in 1..n |-> OrNil(s[i])]

-----------------------------------------------------------------------------
(* docs/compat-matrix.md 3: what the caller may expect to be bound *)

\* 3.1 and 3.4: position by position, null where nothing is given.
Expected(s, n) == [i \in 1..n |-> IF i <= Len(s) THEN OrNil(s[i]) ELSE Nil]

================================================================================
