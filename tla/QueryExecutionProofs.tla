-------------------------- MODULE QueryExecutionProofs -------------------------
(***************************************************************************)
(* What the handlers of query and execute keep, proved for any calls,      *)
(* requests, resources, connections and any window of the profiler.        *)
(*                                                                         *)
(* First the parsers: whatever a caller may hand over, the sets they yield *)
(* bind, placeholder by placeholder, what compat-matrix 3 says he meant.   *)
(* Then three invariants, each on top of the ones before: IInv follows a   *)
(* call and its statements through the pool and the sessions, LInv the     *)
(* profiler of its session and what the call logs of it, AInv what is      *)
(* collected for its answer.  Last, what typeCast makes of a column.       *)
(***************************************************************************)
EXTENDS QueryExecution, Induction, SequenceTheorems, FiniteSetTheorems

-----------------------------------------------------------------------------
(* Lists of values *)

LEMMA OrNilTwice ==
    ASSUME NEW x
    PROVE  /\ OrNil(OrNil(x)) = OrNil(x)
           /\ OrNil(Absent) = Nil /\ OrNil(Nil) = Nil
           /\ x # Absent => OrNil(x) = x
BY DEF OrNil, Absent, Nil

LEMMA SequenceIs ==
    ASSUME NEW s, IsSequence(s)
    PROVE  /\ Len(s) \in Nat
           /\ DOMAIN s = 1..Len(s)
           /\ s = [i \in 1..Len(s) |-> s[i]]
           /\ s = <<>> <=> Len(s) = 0
<1> DEFINE S == {s[i] : i \in DOMAIN s}
<1>1. s \in Seq(S)
  BY DEF IsSequence
<1> HIDE DEF S
<1> QED
  BY <1>1

\* A function over 1..n is a sequence of length n.
LEMMA MapIsSequence ==
    ASSUME NEW n \in Nat, NEW f, f = [i \in 1..n |-> f[i]]
    PROVE  IsSequence(f) /\ Len(f) = n
<1> DEFINE S == {f[i] : i \in DOMAIN f}
<1>1. f \in [1..n -> S]
  BY Zenon
<1>2. DOMAIN f = 1..n
  BY Zenon
<1> HIDE DEF S
<1>3. f \in Seq(S)
  BY <1>1
<1>4. Len(f) = n
  BY <1>2, <1>3
<1> QED
  BY <1>3, <1>4, Zenon DEF IsSequence, S

\* Two sequences of values, one behind the other.
LEMMA JoinIs ==
    ASSUME NEW s, NEW u, IsSequence(s), IsSequence(u)
    PROVE  /\ IsSequence(s \o u)
           /\ Len(s \o u) = Len(s) + Len(u)
           /\ \A i \in 1..Len(s) + Len(u) :
                 (s \o u)[i] = IF i <= Len(s) THEN s[i] ELSE u[i - Len(s)]
<1> DEFINE S == {s[i] : i \in DOMAIN s} \cup {u[i] : i \in DOMAIN u}
<1>1. s \in Seq(S) /\ u \in Seq(S)
  <2> DEFINE A == {s[i] : i \in DOMAIN s}
             B == {u[i] : i \in DOMAIN u}
  <2>1. s \in Seq(A) /\ u \in Seq(B)
    BY DEF IsSequence
  <2>2. A \subseteq S /\ B \subseteq S
    OBVIOUS
  <2> HIDE DEF A, B, S
  <2> QED
    BY <2>1, <2>2
<1> HIDE DEF S
<1>2. /\ s \o u \in Seq(S)
      /\ Len(s \o u) = Len(s) + Len(u)
      /\ \A i \in 1..Len(s) + Len(u) :
            (s \o u)[i] = IF i <= Len(s) THEN s[i] ELSE u[i - Len(s)]
  BY <1>1, ConcatProperties
<1> DEFINE w == s \o u
<1>3. w \in Seq(S) /\ Len(w) \in Nat
  BY <1>2
<1> HIDE DEF w
<1>4. w = [i \in 1..Len(w) |-> w[i]]
  BY <1>3
<1>5. IsSequence(w)
  BY <1>3, <1>4, MapIsSequence
<1> QED
  BY <1>2, <1>5 DEF w

LEMMA NilsIs ==
    ASSUME NEW n \in Nat
    PROVE  /\ IsSequence(Nils(n)) /\ Len(Nils(n)) = n
           /\ IsSequence(Holes(n)) /\ Len(Holes(n)) = n
           /\ \A i \in 1..n : Nils(n)[i] = Nil /\ Holes(n)[i] = Absent
<1> DEFINE f == Nils(n)
           g == Holes(n)
<1>1. f = [i \in 1..n |-> f[i]] /\ g = [i \in 1..n |-> g[i]]
  BY DEF Nils, Holes
<1>2. \A i \in 1..n : f[i] = Nil /\ g[i] = Absent
  BY DEF Nils, Holes
<1> HIDE DEF f, g
<1>3. IsSequence(f) /\ Len(f) = n
  BY <1>1, MapIsSequence
<1>4. IsSequence(g) /\ Len(g) = n
  BY <1>1, MapIsSequence
<1> QED
  BY <1>2, <1>3, <1>4 DEF f, g

-----------------------------------------------------------------------------
(* What one set binds *)

\* rawExecute's padding: nothing but the nulls that are missing.
LEMMA PaddedBindsExpected ==
    ASSUME NEW s, IsSequence(s), NEW n \in Nat
    PROVE  /\ IsSequence(Padded(s, n)) /\ Len(Padded(s, n)) >= n
           /\ Bound(Padded(s, n), n) = Expected(s, n)
<1> DEFINE m == IF Len(s) < n THEN n - Len(s) ELSE 0
           p == s \o Nils(m)
<1>1. Len(s) \in Nat
  BY SequenceIs
<1>2. m \in Nat /\ Len(s) + m >= n
  BY <1>1
<1>3. Padded(s, n) = p
  BY DEF Padded
<1> HIDE DEF m
<1>4. IsSequence(Nils(m)) /\ Len(Nils(m)) = m /\ \A i \in 1..m : Nils(m)[i] = Nil
  BY <1>2, NilsIs
<1>5. /\ IsSequence(p) /\ Len(p) = Len(s) + m
      /\ \A i \in 1..Len(s) + m :
            p[i] = IF i <= Len(s) THEN s[i] ELSE Nils(m)[i - Len(s)]
  BY <1>4, JoinIs
<1> HIDE DEF p
<1>6. ASSUME NEW i \in 1..n
      PROVE  OrNil(p[i]) = IF i <= Len(s) THEN OrNil(s[i]) ELSE Nil
  <2>1. i \in 1..Len(s) + m
    BY <1>1, <1>2
  <2>2. CASE i <= Len(s)
    BY <2>1, <2>2, <1>5
  <2>3. CASE ~(i <= Len(s))
    <3>1. i - Len(s) \in 1..m
      BY <1>1, <1>2, <2>1, <2>3
    <3>2. p[i] = Nil
      BY <2>1, <2>3, <3>1, <1>4, <1>5
    <3> QED
      BY <2>3, <3>2, OrNilTwice
  <2> QED
    BY <2>2, <2>3
<1>7. Bound(p, n) = Expected(s, n)
  BY <1>6, Zenon DEF Bound, Expected
<1> QED
  BY <1>1, <1>2, <1>3, <1>5, <1>7

\* parseArguments' padding, gap and all: a hole is sent as NULL.
LEMMA PadListBindsExpected ==
    ASSUME NEW s, IsSequence(s), NEW n \in Nat, PadList(s, n).ok
    PROVE  \E u : /\ PadList(s, n) = Parsed(<<u>>)
                  /\ IsSequence(u)
                  /\ Bound(u, n) = Expected(s, n)
<1>1. Len(s) \in Nat /\ (s = <<>> <=> Len(s) = 0)
  BY SequenceIs
<1>2. CASE n = 0
  <2>1. PadList(s, n) = Parsed(<<s>>)
    BY <1>2 DEF PadList
  <2>2. Bound(s, n) = Expected(s, n)
    BY <1>2 DEF Bound, Expected
  <2> QED
    BY <2>1, <2>2
<1>3. CASE n > 0 /\ s = <<>>
  <2>1. PadList(s, n) = Parsed(<<Nils(n)>>)
    BY <1>3 DEF PadList
  <2>2. IsSequence(Nils(n)) /\ \A i \in 1..n : Nils(n)[i] = Nil
    BY NilsIs
  <2>3. \A i \in 1..n : OrNil(Nils(n)[i]) = IF i <= Len(s) THEN OrNil(s[i]) ELSE Nil
    BY <1>1, <1>3, <2>2, OrNilTwice
  <2>4. Bound(Nils(n), n) = Expected(s, n)
    BY <2>3, Zenon DEF Bound, Expected
  <2> QED
    BY <2>1, <2>2, <2>4
<1>4. CASE n > 0 /\ s # <<>> /\ Len(s) <= n
  <2> DEFINE m == n - Len(s)
             h == s \o Holes(m)
             u == h \o Nils(m)
  <2>1. PadList(s, n) = Parsed(<<u>>)
    BY <1>4 DEF PadList
  <2>2. m \in Nat /\ Len(s) + m = n
    BY <1>1, <1>4
  <2> HIDE DEF m
  <2>3. /\ IsSequence(Nils(m)) /\ Len(Nils(m)) = m
        /\ IsSequence(Holes(m)) /\ Len(Holes(m)) = m
        /\ \A i \in 1..m : Holes(m)[i] = Absent
    BY <2>2, NilsIs
  <2>4. /\ IsSequence(h) /\ Len(h) = n
        /\ \A i \in 1..n : h[i] = IF i <= Len(s) THEN s[i] ELSE Holes(m)[i - Len(s)]
    BY <2>2, <2>3, JoinIs
  <2> HIDE DEF h
  <2>5. IsSequence(u) /\ \A i \in 1..n : u[i] = h[i]
    <3>1. /\ IsSequence(u)
          /\ \A i \in 1..n + m : u[i] = IF i <= n THEN h[i] ELSE Nils(m)[i - n]
      BY <2>3, <2>4, JoinIs
    <3> HIDE DEF u
    <3>2. \A i \in 1..n : i \in 1..n + m /\ i <= n
      BY <2>2
    <3> QED
      BY <3>1, <3>2
  <2> HIDE DEF u
  <2>6. ASSUME NEW i \in 1..n
        PROVE  OrNil(u[i]) = IF i <= Len(s) THEN OrNil(s[i]) ELSE Nil
    <3>1. CASE i <= Len(s)
      BY <3>1, <2>4, <2>5
    <3>2. CASE ~(i <= Len(s))
      <4>1. i - Len(s) \in 1..m
        BY <1>1, <2>2, <3>2
      <4>2. u[i] = Absent
        BY <3>2, <4>1, <2>3, <2>4, <2>5
      <4> QED
        BY <3>2, <4>2, OrNilTwice
    <3> QED
      BY <3>1, <3>2
  <2>7. Bound(u, n) = Expected(s, n)
    BY <2>6, Zenon DEF Bound, Expected
  <2> QED
    BY <2>1, <2>5, <2>7
<1>5. CASE n > 0 /\ s # <<>> /\ ~(Len(s) <= n)
  <2>1. PadList(s, n) = Rejected
    BY <1>5 DEF PadList
  <2> QED
    BY <2>1 DEF Rejected
<1>6. n = 0 \/ n > 0
  OBVIOUS
<1> QED
  BY <1>2, <1>3, <1>4, <1>5, <1>6, Zenon

\* An object's numeric keys, as an array: every key that is there, in its place.
LEMMA KeyedIs ==
    ASSUME NEW x, IsTable(x)
    PROVE  /\ IsSequence(Keyed(x))
           /\ \A i \in 1..Len(Keyed(x)) : Keyed(x)[i] = Field(x, i)
           /\ \A i \in Nat \ {0} : i > Len(Keyed(x)) => Field(x, i) = Absent
           /\ Len(Keyed(x)) > 0 => IsPlain(Keyed(x)[Len(Keyed(x))])
<1> DEFINE keys == DOMAIN x.fields \cap (Nat \ {0})
           n == IF keys = {} THEN 0 ELSE CHOOSE k \in keys : \A j \in keys : j <= k
           f == [i \in 1..n |-> Field(x, i)]
<1>1. keys # {} => \E k \in keys : \A j \in keys : j <= k
  BY DEF IsTable
<1>2. n \in Nat /\ (\A j \in keys : j <= n) /\ (n > 0 => n \in keys)
  <2>1. CASE keys = {}
    BY <2>1
  <2>2. CASE keys # {}
    <3> DEFINE k == CHOOSE k \in keys : \A j \in keys : j <= k
    <3>1. k \in keys /\ \A j \in keys : j <= k
      BY <1>1, <2>2
    <3>2. n = k
      BY <2>2
    <3> HIDE DEF k, n
    <3> QED
      BY <3>1, <3>2
  <2> QED
    BY <2>1, <2>2
<1>3. Keyed(x) = f
  BY DEF Keyed
<1> HIDE DEF n
<1>4. \A i \in Nat \ {0} : i > n => Field(x, i) = Absent
  BY <1>2 DEF Field
<1>5. n > 0 => IsPlain(Field(x, n))
  BY <1>2 DEF Field, IsTable
<1>6. \A i \in 1..n : f[i] = Field(x, i)
  OBVIOUS
<1>7. f = [i \in 1..n |-> f[i]]
  BY Zenon
<1> HIDE DEF f
<1>8. IsSequence(f) /\ Len(f) = n
  BY <1>2, <1>7, MapIsSequence
<1>9. n > 0 => n \in 1..n
  BY <1>2
<1> QED
  BY <1>2, <1>3, <1>4, <1>5, <1>6, <1>8, <1>9

\* The whole object as one set: prepare and rawExecute pad its keys.
LEMMA KeyedBinds ==
    ASSUME NEW n \in Nat, NEW x, IsTable(x)
    PROVE  Expected(Keyed(x), n) = ByNumber(x, n)
<1> DEFINE s == Keyed(x)
<1>1. /\ IsSequence(s)
      /\ \A i \in 1..Len(s) : s[i] = Field(x, i)
      /\ \A i \in Nat \ {0} : i > Len(s) => Field(x, i) = Absent
  BY KeyedIs
<1>2. Len(s) \in Nat
  BY <1>1, SequenceIs
<1> HIDE DEF s
<1>3. ASSUME NEW i \in 1..n
      PROVE  OrNil(Field(x, i)) = IF i <= Len(s) THEN OrNil(s[i]) ELSE Nil
  <2>1. CASE i <= Len(s)
    BY <1>1, <1>2, <2>1
  <2>2. CASE ~(i <= Len(s))
    <3>1. i \in Nat \ {0} /\ i > Len(s)
      BY <1>2, <2>2
    <3> QED
      BY <1>1, <2>2, <3>1, OrNilTwice
  <2> QED
    BY <2>1, <2>2
<1>4. ByNumber(x, n) = Expected(s, n)
  BY <1>3, Zenon DEF ByNumber, Expected
<1> QED
  BY <1>4 DEF s

\* One set of several, given as an object or a list.
LEMMA SetBinds ==
    ASSUME NEW n \in Nat, NEW x, IsTable(x) \/ IsList(x)
    PROVE  /\ IsSequence(SetOf(x, n))
           /\ Bound(SetOf(x, n), n) =
                 IF x.t = "list" THEN Expected(x.items, n) ELSE ByNumber(x, n)
<1> DEFINE s == IF x.t = "list" THEN x.items ELSE Keyed(x)
           m == IF Len(s) > n THEN Len(s) ELSE n
           f == [i \in 1..m |->
                   IF i <= Len(s) THEN IF i <= n THEN OrNil(s[i]) ELSE s[i] ELSE Nil]
<1>1. SetOf(x, n) = f
  BY DEF SetOf
<1>2. IsSequence(s)
  BY KeyedIs DEF IsList, IsTable
<1>3. x.t # "list" => IsTable(x) /\ s = Keyed(x)
  BY DEF IsList
<1>4. x.t = "list" => s = x.items
  OBVIOUS
<1> HIDE DEF s
<1>5. Len(s) \in Nat
  BY <1>2, SequenceIs
<1>6. m \in Nat /\ m >= n
  BY <1>5
<1> HIDE DEF m
<1>7. \A i \in 1..n : f[i] = IF i <= Len(s) THEN OrNil(s[i]) ELSE Nil
  BY <1>6
<1>8. f = [i \in 1..m |-> f[i]]
  BY Zenon
<1> HIDE DEF f
<1>9. IsSequence(f)
  BY <1>6, <1>8, MapIsSequence
<1>10. \A i \in 1..n : OrNil(f[i]) = IF i <= Len(s) THEN OrNil(s[i]) ELSE Nil
  BY <1>7, OrNilTwice, Zenon
<1>11. Bound(f, n) = Expected(s, n)
  BY <1>10, Zenon DEF Bound, Expected
<1>12. CASE x.t = "list"
  BY <1>1, <1>4, <1>9, <1>11, <1>12
<1>13. CASE x.t # "list"
  BY <1>1, <1>3, <1>9, <1>11, <1>13, KeyedBinds
<1> QED
  BY <1>12, <1>13

-----------------------------------------------------------------------------
(* What a whole message binds *)

\* The sets a parser yields bind what the caller meant, one by one; no set at
\* all stands for one without values.
BindAsMeant(sets, meant, n) ==
    /\ IsSequence(sets)
    /\ \A i \in 1..Len(sets) : IsSequence(sets[i])
    /\ Len(meant) = IF sets = <<>> THEN 1 ELSE Len(sets)
    /\ \A i \in 1..Len(sets) : Bound(sets[i], n) = meant[i]
    /\ sets = <<>> /\ n = 0 => Bound(<<>>, n) = meant[1]

LEMMA OneSetBinds ==
    ASSUME NEW u, IsSequence(u), NEW n, NEW b, Bound(u, n) = b
    PROVE  BindAsMeant(<<u>>, <<b>>, n)
<1>1. <<u>> = [i \in 1..1 |-> <<u>>[i]] /\ <<u>>[1] = u /\ <<b>>[1] = b /\ Len(<<b>>) = 1
  OBVIOUS
<1>2. IsSequence(<<u>>) /\ Len(<<u>>) = 1
  BY <1>1, MapIsSequence
<1>3. <<u>> # <<>>
  OBVIOUS
<1>4. \A i \in 1..1 : i = 1
  OBVIOUS
<1> QED
  BY <1>1, <1>2, <1>3, <1>4, Zenon DEF BindAsMeant

LEMMA NoSetBinds ==
    ASSUME NEW n, NEW s, s = <<>>, NEW b, n = 0 => Expected(s, n) = b
    PROVE  BindAsMeant(s, <<b>>, n)
<1>1. IsSequence(s) /\ Len(s) = 0 /\ Len(<<b>>) = 1 /\ <<b>>[1] = b
  BY DEF IsSequence
<1>2. n = 0 => Expected(s, n) = Bound(<<>>, n)
  BY DEF Bound, Expected
<1>3. \A i \in 1..Len(s) : IsSequence(s[i]) /\ Bound(s[i], n) = <<b>>[i]
  BY <1>1
<1>4. s = <<>> /\ n = 0 => Bound(<<>>, n) = <<b>>[1]
  BY <1>1, <1>2
<1>5. Len(<<b>>) = IF s = <<>> THEN 1 ELSE Len(s)
  BY <1>1
<1> QED
  BY <1>1, <1>3, <1>4, <1>5 DEF BindAsMeant

\* A map over a list of sets.
LEMMA SetsBind ==
    ASSUME NEW s, IsSequence(s), s # <<>>, NEW n, NEW f, NEW g,
           f = [i \in DOMAIN s |-> f[i]], g = [i \in DOMAIN s |-> g[i]],
           \A i \in DOMAIN s : IsSequence(f[i]) /\ Bound(f[i], n) = g[i]
    PROVE  BindAsMeant(f, g, n)
<1>1. Len(s) \in Nat /\ DOMAIN s = 1..Len(s) /\ Len(s) # 0
  BY SequenceIs
<1>2. IsSequence(f) /\ Len(f) = Len(s)
  BY <1>1, MapIsSequence
<1>3. IsSequence(g) /\ Len(g) = Len(s)
  BY <1>1, MapIsSequence
<1>4. f # <<>>
  BY <1>1, <1>2, SequenceIs
<1> QED
  BY <1>1, <1>2, <1>3, <1>4, Zenon DEF BindAsMeant

\* query, single, scalar, insert and update.
LEMMA QueryParses ==
    ASSUME NEW c \in Call, NEW r \in Request[c], r.via = "query", Parse(r).ok
    PROVE  BindAsMeant(Parse(r).sets, MeantSets(r), Placeholders(r))
<1> DEFINE n == Placeholders(r)
<1>1. r.q.marks \in Nat /\ IsSequence(r.q.names) /\ IsArgument(r.p)
  BY ExecutionAssumption
<1>2. Parse(r) = ParseArguments(r.q, r.p) /\ MeantSets(r) = <<Meant(r, r.p)>>
  BY DEF Parse, MeantSets
<1>3. \A u : Parsed(<<u>>).sets = <<u>>
  BY DEF Parsed
<1>4. CASE r.p.t = "list"
  <2>1. n = r.q.marks /\ Meant(r, r.p) = Expected(r.p.items, n)
    BY <1>4 DEF Placeholders, Converts, Meant
  <2>2. Parse(r) = PadList(r.p.items, n)
    BY <1>2, <1>4, <2>1 DEF ParseArguments, Converts
  <2>3. IsSequence(r.p.items)
    BY <1>1, <1>4 DEF IsArgument, IsTable, IsList
  <2> HIDE DEF n
  <2>4. PICK u : /\ Parse(r) = Parsed(<<u>>)
                 /\ IsSequence(u)
                 /\ Bound(u, n) = Expected(r.p.items, n)
    BY <1>1, <2>1, <2>2, <2>3, PadListBindsExpected
  <2>5. BindAsMeant(<<u>>, <<Meant(r, r.p)>>, n)
    BY <2>1, <2>4, OneSetBinds
  <2> QED
    BY <1>2, <1>3, <2>4, <2>5 DEF n
<1>5. CASE Converts(r.q, r.p)
  <2> DEFINE u == ByName(r.q, r.p)
  <2>1. /\ Parse(r) = Parsed(<<u>>) /\ n = Len(r.q.names)
        /\ Meant(r, r.p) = u
    BY <1>2, <1>5 DEF ParseArguments, Placeholders, Converts, Meant
  <2>2. n \in Nat
    BY <1>1, <2>1, SequenceIs
  <2>3. u = [i \in 1..n |-> OrNil(Field(r.p, r.q.names[i]))]
    BY <2>1 DEF ByName
  <2> HIDE DEF u, n
  <2>4. u = [i \in 1..n |-> u[i]] /\ \A i \in 1..n : OrNil(u[i]) = u[i]
    BY <2>3, OrNilTwice
  <2>5. IsSequence(u)
    BY <2>2, <2>4, MapIsSequence
  <2>6. Bound(u, n) = u
    BY <2>4 DEF Bound
  <2>7. BindAsMeant(<<u>>, <<u>>, n)
    BY <2>5, <2>6, OneSetBinds
  <2> QED
    BY <1>2, <1>3, <2>1, <2>7 DEF n
<1>6. CASE r.p.t = "table" /\ ~Converts(r.q, r.p)
  <2> DEFINE u == ByNumber(r.p, n)
  <2>1. /\ Parse(r) = Parsed(<<u>>) /\ n = r.q.marks
        /\ Meant(r, r.p) = u
    BY <1>2, <1>6 DEF ParseArguments, Placeholders, Meant
  <2>2. n \in Nat
    BY <1>1, <2>1
  <2>3. u = [i \in 1..n |-> OrNil(Field(r.p, i))]
    BY DEF ByNumber
  <2> HIDE DEF u, n
  <2>4. u = [i \in 1..n |-> u[i]] /\ \A i \in 1..n : OrNil(u[i]) = u[i]
    BY <2>3, OrNilTwice
  <2>5. IsSequence(u)
    BY <2>2, <2>4, MapIsSequence
  <2>6. Bound(u, n) = u
    BY <2>4 DEF Bound
  <2>7. BindAsMeant(<<u>>, <<u>>, n)
    BY <2>5, <2>6, OneSetBinds
  <2> QED
    BY <1>2, <1>3, <2>1, <2>7 DEF n
<1>7. CASE r.p.t \notin {"list", "table"}
  <2>1. n = r.q.marks /\ Meant(r, r.p) = Nils(n)
    BY <1>7 DEF Placeholders, Converts, Meant
  <2>2. Parse(r) = PadList(<<>>, n)
    BY <1>2, <1>7, <2>1 DEF ParseArguments, Converts
  <2> HIDE DEF n
  <2>3. IsSequence(<<>>) /\ Len(<<>>) = 0
    BY DEF IsSequence
  <2>4. PICK u : /\ Parse(r) = Parsed(<<u>>)
                 /\ IsSequence(u)
                 /\ Bound(u, n) = Expected(<<>>, n)
    BY <1>1, <2>1, <2>2, <2>3, PadListBindsExpected
  <2>5. Expected(<<>>, n) = Nils(n)
    BY <1>1, <2>1, <2>3 DEF Expected, Nils
  <2>6. BindAsMeant(<<u>>, <<Meant(r, r.p)>>, n)
    BY <2>1, <2>4, <2>5, OneSetBinds
  <2> QED
    BY <1>2, <1>3, <2>4, <2>6 DEF n
<1> QED
  BY <1>4, <1>5, <1>6, <1>7 DEF Converts

\* prepare and rawExecute, given a list.
LEMMA ExecuteListParses ==
    ASSUME NEW c \in Call, NEW r \in Request[c], r.via = "execute", r.p.t = "list",
           Parse(r).ok
    PROVE  BindAsMeant(Parse(r).sets, MeantSets(r), Placeholders(r))
<1> DEFINE n == Placeholders(r)
           s == r.p.items
<1>1. n \in Nat
  BY ExecutionAssumption DEF Placeholders
<1>2. n = r.q.marks /\ Parse(r) = ParseExecute(r.q, r.p)
  BY DEF Placeholders, Parse
<1>3. IsSequence(s) /\ \A i \in DOMAIN s : IsPlain(s[i]) \/ IsList(s[i]) \/ IsTable(s[i])
  BY ExecutionAssumption DEF IsArgument, IsTable, IsList
<1>4. \A x : /\ IsPlain(x) => x.t \in {"value", "null"} /\ (x.t = "null" => x = Nil)
             /\ IsList(x) => x.t = "list"
             /\ IsTable(x) => x.t = "table"
  BY DEF IsPlain, IsList, IsTable, Nil
<1>5. \A x : Meant(r, x) = CASE x.t = "list" -> Expected(x.items, n)
                             [] x.t = "table" -> ByNumber(x, n)
                             [] OTHER -> Nils(n)
  BY DEF Meant
<1>6. \A u : Parsed(u).sets = u
  BY DEF Parsed
<1> HIDE DEF n
<1>7. CASE \A i \in DOMAIN s : IsSet(s[i])
  <2> DEFINE f == [i \in DOMAIN s |-> Padded(s[i].items, n)]
  <2>1. Parse(r).sets = f
    BY <1>2, <1>6, <1>7 DEF ParseExecute
  <2>2. \A i \in DOMAIN s : IsList(s[i])
    BY <1>3, <1>4, <1>7 DEF IsSet
  <2>3. CASE s = <<>>
    <3>1. MeantSets(r) = <<Expected(s, n)>>
      BY <1>5, <2>3 DEF MeantSets
    <3>2. f = <<>>
      BY <2>3
    <3> HIDE DEF f
    <3>3. Expected(f, n) = Expected(s, n)
      BY <2>3, <3>2
    <3>4. BindAsMeant(f, <<Expected(s, n)>>, n)
      BY <3>2, <3>3, NoSetBinds
    <3> QED
      BY <2>1, <3>1, <3>4 DEF n
  <2>4. CASE s # <<>>
    <3> DEFINE g == [i \in DOMAIN s |-> Expected(s[i].items, n)]
    <3>1. \A i \in DOMAIN s : s[i].t = "list"
      BY <1>4, <2>2
    <3>2. MeantSets(r) = [i \in DOMAIN s |-> Meant(r, s[i])]
      BY <2>4, <3>1 DEF MeantSets
    <3>3. \A i \in DOMAIN s : Meant(r, s[i]) = Expected(s[i].items, n)
      BY <1>5, <3>1
    <3>4. MeantSets(r) = g
      BY <3>2, <3>3
    <3>5. \A i \in DOMAIN s : IsSequence(Padded(s[i].items, n))
                              /\ Bound(Padded(s[i].items, n), n) = Expected(s[i].items, n)
      BY <1>1, <2>2, PaddedBindsExpected DEF IsList
    <3>6. \A i \in DOMAIN s : IsSequence(f[i]) /\ Bound(f[i], n) = g[i]
      BY <3>5
    <3>7. f = [i \in DOMAIN s |-> f[i]] /\ g = [i \in DOMAIN s |-> g[i]]
      BY Zenon
    <3> HIDE DEF f, g, s
    <3>8. BindAsMeant(f, g, n)
      BY <1>3, <2>4, <3>6, <3>7, SetsBind
    <3> QED
      BY <2>1, <3>4, <3>8 DEF n
  <2> QED
    BY <2>3, <2>4
<1>8. CASE /\ ~\A i \in DOMAIN s : IsSet(s[i])
           /\ \A i \in DOMAIN s : IsObject(s[i])
  <2> DEFINE f == [i \in DOMAIN s |-> SetOf(s[i], n)]
             g == [i \in DOMAIN s |-> Meant(r, s[i])]
  <2>1. ~\E i \in DOMAIN s : s[i] = Nil
    BY <1>2, <1>8 DEF ParseExecute, Rejected
  <2>2. Parse(r) = Parsed(f)
    BY <1>2, <1>8, <2>1 DEF ParseExecute
  <2>3. \A i \in DOMAIN s : (IsList(s[i]) \/ IsTable(s[i])) /\ s[i].t \in {"list", "table"}
    BY <1>3, <1>4, <1>8, <2>1 DEF IsObject
  <2>4. s # <<>>
    BY <1>8
  <2>5. MeantSets(r) = g
    BY <2>3, <2>4 DEF MeantSets
  <2>6. \A i \in DOMAIN s :
           /\ IsSequence(SetOf(s[i], n))
           /\ Bound(SetOf(s[i], n), n) = IF s[i].t = "list" THEN Expected(s[i].items, n)
                                         ELSE ByNumber(s[i], n)
    BY <1>1, <2>3, SetBinds
  <2>7. \A i \in DOMAIN s : IsSequence(f[i]) /\ Bound(f[i], n) = g[i]
    BY <1>5, <2>3, <2>6
  <2>8. f = [i \in DOMAIN s |-> f[i]] /\ g = [i \in DOMAIN s |-> g[i]]
    BY Zenon
  <2>9. Parse(r).sets = f
    BY <1>6, <2>2
  <2> HIDE DEF f, g, s
  <2>10. BindAsMeant(f, g, n)
    BY <1>3, <2>4, <2>7, <2>8, SetsBind
  <2> QED
    BY <2>5, <2>9, <2>10 DEF n
<1>9. CASE ~\A i \in DOMAIN s : IsObject(s[i])
  <2> DEFINE u == Padded(s, n)
  <2>1. ~\A i \in DOMAIN s : IsSet(s[i])
    BY <1>9 DEF IsSet, IsObject
  <2>2. Parse(r) = Parsed(<<u>>)
    BY <1>2, <1>9, <2>1 DEF ParseExecute
  <2>3. ~\A i \in DOMAIN s : s[i].t \in {"list", "table"}
    BY <1>9 DEF IsObject
  <2>4. MeantSets(r) = <<Expected(s, n)>>
    BY <1>5, <2>3 DEF MeantSets
  <2>5. Parse(r).sets = <<u>>
    BY <1>6, <2>2
  <2>6. IsSequence(u) /\ Bound(u, n) = Expected(s, n)
    BY <1>1, <1>3, PaddedBindsExpected
  <2> HIDE DEF u
  <2>7. BindAsMeant(<<u>>, <<Expected(s, n)>>, n)
    BY <2>6, OneSetBinds
  <2> QED
    BY <2>4, <2>5, <2>7 DEF n
<1> QED
  BY <1>7, <1>8, <1>9

\* prepare and rawExecute, given an object or nothing.
LEMMA ExecuteOtherParses ==
    ASSUME NEW c \in Call, NEW r \in Request[c], r.via = "execute", r.p.t # "list",
           Parse(r).ok
    PROVE  BindAsMeant(Parse(r).sets, MeantSets(r), Placeholders(r))
<1> DEFINE n == Placeholders(r)
           s == IF r.p.t = "table" THEN Keyed(r.p) ELSE <<>>
<1>1. n \in Nat
  BY ExecutionAssumption DEF Placeholders
<1>2. n = r.q.marks /\ Parse(r) = ParseExecute(r.q, r.p)
  BY DEF Placeholders, Parse
<1>3. r.p.t = "table" => IsTable(r.p)
  BY ExecutionAssumption DEF IsArgument, IsList
<1>4. MeantSets(r) = <<Meant(r, r.p)>>
  BY DEF MeantSets
<1>5. Meant(r, r.p) = IF r.p.t = "table" THEN ByNumber(r.p, n) ELSE Nils(n)
  BY DEF Meant
<1>6. \A u : Parsed(u).sets = u
  BY DEF Parsed
<1> HIDE DEF n
<1>7. IsSequence(s) /\ (Len(s) > 0 => IsPlain(s[Len(s)]))
  <2>1. CASE r.p.t = "table"
    BY <1>3, <2>1, KeyedIs
  <2>2. CASE r.p.t # "table"
    <3>1. IsSequence(<<>>) /\ Len(<<>>) = 0
      BY DEF IsSequence
    <3> QED
      BY <2>2, <3>1
  <2> QED
    BY <2>1, <2>2
<1>8. Expected(s, n) = Meant(r, r.p)
  <2>1. CASE r.p.t = "table"
    BY <1>1, <1>3, <1>5, <2>1, KeyedBinds
  <2>2. CASE r.p.t # "table"
    <3>1. Expected(<<>>, n) = Nils(n)
      BY DEF Expected, Nils
    <3> QED
      BY <1>5, <2>2, <3>1
  <2> QED
    BY <2>1, <2>2
<1>9. Parse(r) =
        IF \A i \in DOMAIN s : IsSet(s[i])
        THEN Parsed([i \in DOMAIN s |-> Padded(s[i].items, n)])
        ELSE IF \A i \in DOMAIN s : IsObject(s[i])
        THEN IF \E i \in DOMAIN s : s[i] = Nil THEN Rejected
             ELSE Parsed([i \in DOMAIN s |-> SetOf(s[i], n)])
        ELSE Parsed(<<Padded(s, n)>>)
  <2>1. CASE r.p.t = "table"
    BY <1>2, <2>1 DEF ParseExecute
  <2>2. CASE r.p.t # "table"
    BY <1>2, <2>2 DEF ParseExecute
  <2> QED
    BY <2>1, <2>2
<1> HIDE DEF s
<1>10. Len(s) \in Nat /\ DOMAIN s = 1..Len(s) /\ (s = <<>> <=> Len(s) = 0)
  BY <1>7, SequenceIs
<1>11. CASE s = <<>>
  <2> DEFINE f == [i \in DOMAIN s |-> Padded(s[i].items, n)]
  <2>1. Parse(r).sets = f /\ f = <<>>
    BY <1>6, <1>9, <1>11
  <2> HIDE DEF f
  <2>2. Expected(f, n) = Meant(r, r.p)
    BY <1>8, <1>11, <2>1
  <2>3. BindAsMeant(f, <<Meant(r, r.p)>>, n)
    BY <2>1, <2>2, NoSetBinds
  <2> QED
    BY <1>4, <2>1, <2>3 DEF n
<1>12. CASE s # <<>>
  <2>1. Len(s) \in DOMAIN s /\ IsPlain(s[Len(s)])
    BY <1>7, <1>10, <1>12
  <2>2. ~IsSet(s[Len(s)]) /\ (IsObject(s[Len(s)]) => s[Len(s)] = Nil)
    BY <2>1 DEF IsPlain, IsSet, IsObject, Nil
  <2> DEFINE u == Padded(s, n)
  <2>3. ~\A i \in DOMAIN s : IsSet(s[i])
    BY <2>1, <2>2
  <2>4. ~\A i \in DOMAIN s : IsObject(s[i])
    BY <1>9, <2>1, <2>2, <2>3 DEF Rejected
  <2>5. Parse(r).sets = <<u>>
    BY <1>6, <1>9, <2>3, <2>4
  <2>6. IsSequence(u) /\ Bound(u, n) = Meant(r, r.p)
    BY <1>1, <1>7, <1>8, PaddedBindsExpected
  <2> HIDE DEF u
  <2>7. BindAsMeant(<<u>>, <<Meant(r, r.p)>>, n)
    BY <2>6, OneSetBinds
  <2> QED
    BY <1>4, <2>5, <2>7 DEF n
<1> QED
  BY <1>11, <1>12

\* Whatever a caller may hand over, to whichever export: the message is
\* rejected, or its sets bind what he meant.
LEMMA ParsedAsMeant ==
    ASSUME NEW c \in Call, NEW r \in Request[c], Parse(r).ok
    PROVE  BindAsMeant(Parse(r).sets, MeantSets(r), Placeholders(r))
BY ExecutionAssumption, QueryParses, ExecuteListParses, ExecuteOtherParses, Zenon

-----------------------------------------------------------------------------
(* The invariant *)

\* Where a call holds a connection.
Holding == {"setup", "statement", "probe", "flush"}
Given(j) == j.answer # NoAnswer
Got(j) == Given(j) /\ j.answer # Failure
\* Items(j) has one element.
InOneGo(j) == IsWrite(j) \/ Count(j) = 1

\* What the locals of a handler agree on, whatever the others do.
JobOK(c, j) ==
    /\ DOMAIN j = DOMAIN NewJob
    /\ j.pc \in Places
    /\ j.slow \in BOOLEAN /\ j.profiled \in BOOLEAN
    /\ j.conn \in Conn \cup {NoConn}
    /\ j.conn # NoConn <=> j.pc \in Holding
    /\ j.pc = "idle" => j = NewJob
    /\ j.pc # "idle" => j.req \in Request[c] /\ j.sets = Parse(j.req).sets
    /\ j.pc # "idle" /\ ~Parse(j.req).ok =>
          j.pc = "done" /\ j.executed = <<>> /\ j.answer = Failure
    /\ j.at \in 1..Count(j)
    /\ j.pc \in Holding \cup {"acquire"} => j.slow
    /\ j.pc = "fast" => ~j.slow
    /\ Given(j) => j.pc = "done"

\* What has been executed of a call: sets of its own, none twice, and in their
\* order unless the pool runs them side by side.
Executions(j) == {Execution(j, i) : i \in {n \in 1..Count(j) : Sendable(j, n)}}
RanOK(j) ==
    /\ j.executed \in Seq(Executions(j))
    /\ \A m, n \in DOMAIN j.executed : j.executed[m].set = j.executed[n].set => m = n
    /\ j.slow \/ InOneGo(j) => \A n \in DOMAIN j.executed : j.executed[n].set = n

\* How many of them: as many as the handler has got results for.
ProgressOK(j) ==
    /\ j.pc \in {"acquire", "setup"} => j.at = 1
    /\ j.pc \in {"acquire", "setup", "statement"} => Len(j.executed) = j.at - 1
    /\ j.pc \in {"probe", "flush"} => Len(j.executed) = j.at
    /\ j.pc = "probe" => j.at = Count(j)
    /\ ~j.slow /\ ~Given(j) =>
          /\ DOMAIN j.results = {j.executed[n].set : n \in DOMAIN j.executed}
          /\ IsFiniteSet(DOMAIN j.results)
          /\ Cardinality(DOMAIN j.results) = Len(j.executed)
    /\ Got(j) => Len(j.executed) = Count(j)

CallOK(c, j) == JobOK(c, j) /\ (j.pc # "idle" => RanOK(j) /\ ProgressOK(j))

\* What a call has with the pool: items of its own, not executed yet, and none
\* once it has its answer, if it has only one.
Pends(c, i) == <<c, i>> \in queue \/ \E k \in Conn : <<c, i, k>> \in running
PendingOK(c) ==
    \A i : Pends(c, i) =>
        /\ i \in Items(job[c])
        /\ ~job[c].slow
        /\ job[c].pc \in {"fast", "done"}
        /\ Parse(job[c].req).ok
        /\ ~Got(job[c])
        /\ \A n \in DOMAIN job[c].executed : job[c].executed[n].set # i
        /\ InOneGo(job[c]) => ~Given(job[c]) /\ job[c].executed = <<>>

\* An item waits or runs, and runs once; a connection serves one call.
Exclusive ==
    /\ queue \subseteq Call \X Nat
    /\ running \subseteq Call \X Nat \X Conn
    /\ \A w \in running : <<w[1], w[2]>> \notin queue
    /\ \A v, w \in running : v[1] = w[1] /\ v[2] = w[2] => v = w
    /\ \A w \in running, c \in Call : job[c].conn # w[3]
    /\ \A c, d \in Call : job[c].conn = job[d].conn /\ job[c].conn # NoConn => c = d

SessionsOK ==
    /\ session \in [Conn -> [on : BOOLEAN, history : Seq(Call \X Nat)]]
    /\ \A k \in Conn : Len(session[k].history) <= Window

JobsOK == DOMAIN job = Call /\ \A c \in Call : CallOK(c, job[c])
PoolOK == (\A c \in Call : PendingOK(c)) /\ Exclusive
IInv == /\ JobsOK /\ PoolOK /\ SessionsOK
        /\ debug \in Settings /\ changes \in 0..Changes

-----------------------------------------------------------------------------
(* One call *)

\* Request and sets say how a call is cut up and what each part binds.
LEMMA AskDecides ==
    ASSUME NEW j, NEW k, k.req = j.req, k.sets = j.sets
    PROVE  /\ Count(k) = Count(j)
           /\ IsWrite(k) <=> IsWrite(j)
           /\ InOneGo(k) <=> InOneGo(j)
           /\ Items(k) = Items(j)
           /\ Executions(k) = Executions(j)
           /\ \A i : Execution(k, i) = Execution(j, i)
<1>1. Count(k) = Count(j) /\ (IsWrite(k) <=> IsWrite(j))
  BY DEF Count, IsWrite
<1>2. \A i : SetAt(k, i) = SetAt(j, i)
  BY DEF SetAt
<1>3. \A i : Execution(k, i) = Execution(j, i) /\ (Sendable(k, i) <=> Sendable(j, i))
  BY <1>2 DEF Execution, Sendable
<1>4. Executions(k) = Executions(j)
  BY <1>1, <1>3 DEF Executions
<1> QED
  BY <1>1, <1>3, <1>4 DEF Items, InOneGo

LEMMA RejectedHasNoSets ==
    ASSUME NEW r, ~Parse(r).ok
    PROVE  Parse(r).sets = <<>>
<1>1. \A u : Parsed(u).ok
  BY DEF Parsed
<1>2. \A s, n : PadList(s, n).ok \/ PadList(s, n) = Rejected
  BY <1>1 DEF PadList
<1>3. ParseArguments(r.q, r.p).ok \/ ParseArguments(r.q, r.p) = Rejected
  BY <1>1, <1>2 DEF ParseArguments
<1>4. ParseExecute(r.q, r.p).ok \/ ParseExecute(r.q, r.p) = Rejected
  BY <1>1 DEF ParseExecute
<1>5. Rejected.sets = <<>>
  BY DEF Rejected
<1> QED
  BY <1>3, <1>4, <1>5 DEF Parse

LEMMA NewJobIs ==
    /\ DOMAIN NewJob = {"pc", "req", "sets", "slow", "conn", "profiled", "at", "response",
                        "results", "executed", "logged", "answer"}
    /\ NewJob.pc = "idle" /\ NewJob.req = NoRequest /\ NewJob.sets = <<>>
    /\ NewJob.slow = FALSE /\ NewJob.conn = NoConn /\ NewJob.profiled = FALSE
    /\ NewJob.at = 1 /\ NewJob.response = <<>> /\ NewJob.results = <<>>
    /\ NewJob.executed = <<>> /\ NewJob.logged = <<>> /\ NewJob.answer = NoAnswer
BY DEF NewJob

LEMMA SetsAre ==
    ASSUME NEW c \in Call, NEW j, JobOK(c, j)
    PROVE  /\ IsSequence(j.sets) /\ Len(j.sets) \in Nat
           /\ Count(j) \in Nat \ {0}
           /\ Len(j.sets) <= Count(j)
<1>1. IsSequence(<<>>)
  BY DEF IsSequence
<1>2. j.pc = "idle" => IsSequence(j.sets)
  BY <1>1, NewJobIs DEF JobOK
<1>3. j.pc # "idle" /\ Parse(j.req).ok => IsSequence(j.sets)
  BY ParsedAsMeant DEF JobOK, BindAsMeant
<1>4. j.pc # "idle" /\ ~Parse(j.req).ok => IsSequence(j.sets)
  BY <1>1, RejectedHasNoSets DEF JobOK
<1>5. IsSequence(j.sets)
  BY <1>2, <1>3, <1>4
<1> QED
  BY <1>5, SequenceIs DEF Count

LEMMA ItemsAre ==
    ASSUME NEW j, Count(j) \in Nat \ {0}
    PROVE  /\ Items(j) \subseteq Nat
           /\ \A i \in Items(j) : i = 0 \/ i \in 1..Count(j)
           /\ 0 \in Items(j) => Items(j) = {0} /\ IsWrite(j)
           /\ InOneGo(j) => \A m, n \in Items(j) : m = n
BY DEF Items, InOneGo

LEMMA ExecutionsAre ==
    ASSUME NEW j
    PROVE  /\ \A e \in Executions(j) : /\ e.set \in 1..Count(j)
                                       /\ e = Execution(j, e.set)
                                       /\ Sendable(j, e.set)
           /\ \A i : Execution(j, i).set = i
           /\ \A i \in 1..Count(j) : Sendable(j, i) => Execution(j, i) \in Executions(j)
BY DEF Executions, Execution

LEMMA RanKept ==
    ASSUME NEW j, RanOK(j), NEW k, k.req = j.req, k.sets = j.sets,
           k.executed = j.executed, k.slow = j.slow
    PROVE  RanOK(k)
BY AskDecides DEF RanOK

\* A batch, or the part of it that a failure leaves.
LEMMA RunsPrefix ==
    ASSUME NEW j, NEW k, k.req = j.req, k.sets = j.sets, Count(j) \in Nat,
           NEW m \in 0..Count(j), \A i \in 1..m : Sendable(j, i),
           k.executed = [i \in 1..m |-> Execution(j, i)]
    PROVE  /\ RanOK(k)
           /\ Len(k.executed) = m
           /\ {k.executed[n].set : n \in DOMAIN k.executed} = 1..m
<1> DEFINE S == Executions(j)
<1>1. \A i \in 1..m : Execution(j, i) \in S /\ Execution(j, i).set = i
  BY ExecutionsAre
<1> HIDE DEF S
<1>2. k.executed \in Seq(S) /\ Len(k.executed) = m /\ DOMAIN k.executed = 1..m
  BY <1>1
<1>3. \A n \in 1..m : k.executed[n].set = n
  BY <1>1
<1>4. S = Executions(k)
  BY AskDecides DEF S
<1> QED
  BY <1>2, <1>3, <1>4 DEF RanOK

\* One set more.
LEMMA RunsOne ==
    ASSUME NEW j, RanOK(j), NEW k, k.req = j.req, k.sets = j.sets, k.slow = j.slow,
           NEW i \in 1..Count(j), Sendable(j, i),
           \A n \in DOMAIN j.executed : j.executed[n].set # i,
           j.slow \/ InOneGo(j) => i = Len(j.executed) + 1,
           k.executed = Append(j.executed, Execution(j, i))
    PROVE  /\ RanOK(k)
           /\ Len(k.executed) = Len(j.executed) + 1
           /\ {k.executed[n].set : n \in DOMAIN k.executed} =
                 {j.executed[n].set : n \in DOMAIN j.executed} \cup {i}
<1> DEFINE S == Executions(j)
           e == Execution(j, i)
           s == j.executed
<1>1. e \in S /\ e.set = i /\ s \in Seq(S)
  BY ExecutionsAre DEF RanOK
<1>2. S = Executions(k) /\ (InOneGo(k) <=> InOneGo(j))
  BY AskDecides
<1>3. /\ \A m, n \in DOMAIN s : s[m].set = s[n].set => m = n
      /\ j.slow \/ InOneGo(j) => \A n \in DOMAIN s : s[n].set = n
  BY DEF RanOK
<1> HIDE DEF S, e
<1>4. /\ k.executed \in Seq(S) /\ Len(k.executed) = Len(s) + 1
      /\ DOMAIN k.executed = 1..Len(s) + 1 /\ DOMAIN s = 1..Len(s) /\ Len(s) \in Nat
      /\ \A n \in 1..Len(s) : k.executed[n] = s[n]
      /\ k.executed[Len(s) + 1] = e
  BY <1>1 DEF e
<1> HIDE DEF s
<1>5. \A n \in 1..Len(s) + 1 : n \in 1..Len(s) \/ n = Len(s) + 1
  BY <1>4
<1>6. \A m, n \in DOMAIN k.executed : k.executed[m].set = k.executed[n].set => m = n
  BY <1>1, <1>3, <1>4, <1>5 DEF s
<1>7. k.slow \/ InOneGo(k) => \A n \in DOMAIN k.executed : k.executed[n].set = n
  BY <1>1, <1>2, <1>3, <1>4, <1>5 DEF s
<1>8. {k.executed[n].set : n \in DOMAIN k.executed} = {s[n].set : n \in DOMAIN s} \cup {i}
  BY <1>1, <1>4, <1>5
<1> QED
  BY <1>2, <1>4, <1>6, <1>7, <1>8 DEF RanOK, s

-----------------------------------------------------------------------------
(* What a step makes of a call *)

\* catch, and using behind it.
Thrown(j) == IF Given(j) THEN [j EXCEPT !.conn = NoConn]
             ELSE [j EXCEPT !.pc = "done", !.conn = NoConn, !.answer = Failure]

LEMMA NoRunsOK ==
    ASSUME NEW j, j.executed = <<>>
    PROVE  RanOK(j)
<1>1. <<>> \in Seq(Executions(j)) /\ \A n \in DOMAIN <<>> : FALSE
  OBVIOUS
<1> QED
  BY <1>1 DEF RanOK

\* All that JobOK asks of a step that leaves the request alone.
LEMMA JobKept ==
    ASSUME NEW c \in Call, NEW j, JobOK(c, j), j.pc # "idle", Parse(j.req).ok,
           NEW k, DOMAIN k = DOMAIN NewJob, k.req = j.req, k.sets = j.sets,
           k.slow = j.slow, k.profiled \in BOOLEAN, k.at \in 1..Count(j),
           k.pc \in Places \ {"idle"}, k.conn \in Conn \cup {NoConn},
           k.conn # NoConn <=> k.pc \in Holding,
           k.pc \in Holding \cup {"acquire"} => j.slow,
           k.pc = "fast" => ~j.slow,
           Given(k) => k.pc = "done"
    PROVE  JobOK(c, k)
BY AskDecides DEF JobOK

LEMMA ThrownOK ==
    ASSUME NEW c \in Call, NEW j, CallOK(c, j), j.pc # "idle", Parse(j.req).ok
    PROVE  /\ CallOK(c, Thrown(j))
           /\ Thrown(j).pc = "done" /\ Thrown(j).conn = NoConn /\ Given(Thrown(j))
           /\ Thrown(j).req = j.req /\ Thrown(j).sets = j.sets
           /\ Thrown(j).slow = j.slow /\ Thrown(j).executed = j.executed
           /\ Got(Thrown(j)) <=> Got(j)
<1> DEFINE k == Thrown(j)
<1>1. /\ DOMAIN j = DOMAIN NewJob
      /\ j.profiled \in BOOLEAN /\ j.at \in 1..Count(j)
      /\ Given(j) => j.pc = "done"
  BY DEF CallOK, JobOK
<1>2. /\ DOMAIN k = DOMAIN NewJob
      /\ k.req = j.req /\ k.sets = j.sets /\ k.slow = j.slow /\ k.profiled = j.profiled
      /\ k.at = j.at /\ k.executed = j.executed
      /\ k.pc = "done" /\ k.conn = NoConn
      /\ k.answer = IF Given(j) THEN j.answer ELSE Failure
  BY <1>1, NewJobIs DEF Thrown
<1>3. Given(k) /\ (Got(k) <=> Got(j))
  BY <1>2 DEF Given, Got, Failure, NoAnswer
<1> HIDE DEF k
<1>4. JobOK(c, k)
  BY <1>1, <1>2, JobKept DEF CallOK, Places, Holding
<1>5. RanOK(k)
  BY <1>2, RanKept DEF CallOK
<1>6. ProgressOK(k)
  BY <1>2, <1>3, AskDecides DEF CallOK, ProgressOK
<1> QED
  BY <1>2, <1>3, <1>4, <1>5, <1>6 DEF CallOK, k

\* The start of a handler.
Entered(r) == [NewJob EXCEPT !.req = r, !.sets = Parse(r).sets]

LEMMA EnteredOK ==
    ASSUME NEW c \in Call, NEW r \in Request[c], NEW k, DOMAIN k = DOMAIN NewJob,
           k.req = r, k.sets = Parse(r).sets, k.executed = <<>>, k.results = <<>>,
           k.conn = NoConn, k.profiled \in BOOLEAN, k.at = 1, k.slow \in BOOLEAN,
           \/ ~Parse(r).ok /\ k.pc = "done" /\ k.answer = Failure
           \/ Parse(r).ok /\ k.pc = "fast" /\ k.answer = NoAnswer /\ ~k.slow
           \/ Parse(r).ok /\ k.pc = "acquire" /\ k.answer = NoAnswer /\ k.slow
    PROVE  CallOK(c, k)
<1>1. IsSequence(k.sets)
  <2>1. IsSequence(<<>>)
    BY DEF IsSequence
  <2> QED
    BY <2>1, RejectedHasNoSets, ParsedAsMeant DEF BindAsMeant
<1>2. Count(k) \in Nat \ {0}
  BY <1>1, SequenceIs DEF Count
<1>3. Given(k) <=> ~Parse(r).ok
  BY DEF Given, Failure, NoAnswer
<1>4. ~Got(k)
  BY DEF Got, Given
<1>5. JobOK(c, k)
  <2>1. /\ k.pc \in Places \ {"idle"} /\ k.pc \notin Holding
        /\ k.pc = "acquire" => k.slow
        /\ k.pc = "fast" => ~k.slow
        /\ k.pc = "done" <=> ~Parse(k.req).ok
    BY DEF Places, Holding
  <2>2. k.at \in 1..Count(k) /\ k.profiled \in BOOLEAN /\ k.conn \in Conn \cup {NoConn}
    BY <1>2
  <2>3. ~Parse(k.req).ok => k.pc = "done" /\ k.executed = <<>> /\ k.answer = Failure
    OBVIOUS
  <2> QED
    BY <1>3, <2>1, <2>2, <2>3 DEF JobOK
<1>6. RanOK(k)
  BY NoRunsOK
<1>7. /\ DOMAIN k.results = {} /\ Len(k.executed) = 0
      /\ {k.executed[n].set : n \in DOMAIN k.executed} = {}
  OBVIOUS
<1>8. IsFiniteSet({}) /\ Cardinality({}) = 0
  BY FS_EmptySet
<1>9. k.pc \notin {"setup", "statement", "probe", "flush"}
  OBVIOUS
<1>10. ProgressOK(k)
  BY <1>4, <1>7, <1>8, <1>9 DEF ProgressOK
<1> QED
  BY <1>5, <1>6, <1>10 DEF CallOK

\* The sets of a call that have been executed.
RanSets(j) == {j.executed[n].set : n \in DOMAIN j.executed}

\* What an item sends: the whole batch in its order, or one set.
LEMMA ItemRuns ==
    ASSUME NEW j, RanOK(j), Count(j) \in Nat \ {0}, ~j.slow,
           NEW item \in Items(j), item \notin RanSets(j),
           InOneGo(j) => j.executed = <<>>,
           \A n \in DOMAIN SetsOf(j, item) : Sendable(j, SetsOf(j, item)[n]),
           NEW k, k.req = j.req, k.sets = j.sets, k.slow = j.slow,
           k.executed = j.executed \o [n \in DOMAIN SetsOf(j, item) |->
                                          Execution(j, SetsOf(j, item)[n])]
    PROVE  /\ RanOK(k)
           /\ RanSets(k) = RanSets(j) \cup Range(SetsOf(j, item))
           /\ Len(k.executed) = Len(j.executed) + Cardinality(Range(SetsOf(j, item)))
           /\ IsFiniteSet(Range(SetsOf(j, item)))
           /\ Range(SetsOf(j, item)) \cap RanSets(j) = {}
<1> DEFINE N == Count(j)
           ran == SetsOf(j, item)
           more == [n \in DOMAIN ran |-> Execution(j, ran[n])]
<1>1. item = 0 \/ item \in 1..N
  BY ItemsAre
<1>2. j.executed \in Seq(Executions(j))
  BY DEF RanOK
<1>3. CASE item = 0
  <2>1. InOneGo(j) /\ j.executed = <<>>
    BY <1>3, ItemsAre DEF InOneGo
  <2>2. ran = [i \in 1..N |-> i]
    BY <1>3 DEF SetsOf
  <2>3. more = [i \in 1..N |-> Execution(j, i)] /\ \A i \in 1..N : Sendable(j, i)
    BY <2>2
  <2>4. Range(ran) = 1..N
    BY <2>2 DEF Range
  <2> DEFINE S == Executions(j)
  <2>5. \A i \in 1..N : Execution(j, i) \in S
    BY <2>3, ExecutionsAre
  <2> HIDE DEF S, ran, more, N
  <2>6. more \in Seq(S)
    BY <2>3, <2>5 DEF N
  <2>7. k.executed = more
    BY <2>1, <2>6 DEF more, ran
  <2>8. RanOK(k) /\ Len(k.executed) = N /\ RanSets(k) = 1..N
    <3>1. /\ RanOK(k) /\ Len(k.executed) = N
          /\ {k.executed[n].set : n \in DOMAIN k.executed} = 1..N
      <4>1. Count(j) \in 0..Count(j) /\ Count(j) \in Nat
        OBVIOUS
      <4>2. k.executed = [i \in 1..Count(j) |-> Execution(j, i)]
        BY <2>3, <2>7 DEF N
      <4>3. \A i \in 1..Count(j) : Sendable(j, i)
        BY <2>3 DEF N
      <4> QED
        BY <4>1, <4>2, <4>3, RunsPrefix DEF N
    <3> QED
      BY <3>1 DEF RanSets
  <2>9. IsFiniteSet(1..N) /\ Cardinality(1..N) = N
    BY FS_Interval DEF N
  <2>10. Len(j.executed) = 0 /\ RanSets(j) = {}
    BY <2>1 DEF RanSets
  <2> QED
    BY <2>4, <2>8, <2>9, <2>10 DEF ran, N
<1>4. CASE item # 0
  <2>1. item \in 1..N /\ ran = <<item>>
    BY <1>1, <1>4 DEF SetsOf
  <2>2. Range(ran) = {item} /\ Sendable(j, item) /\ more = <<Execution(j, item)>>
    BY <2>1 DEF Range
  <2> DEFINE S == Executions(j)
             e == Execution(j, item)
             s == j.executed
  <2>3. e \in S
    BY <2>1, <2>2, ExecutionsAre
  <2> HIDE DEF S, e, s
  <2>4. s \o <<e>> = Append(s, e)
    BY <1>2, <2>3, AppendIsConcat DEF S, s
  <2>5. k.executed = Append(s, e)
    BY <2>2, <2>4 DEF e, s
  <2>6. \A n \in DOMAIN s : s[n].set # item
    BY DEF RanSets, s
  <2>7. InOneGo(j) => item = Len(s) + 1
    <3>1. ASSUME InOneGo(j) PROVE item = 1 /\ Len(s) = 0
      <4>1. 1 \in Items(j) \/ 0 \in Items(j)
        BY <3>1 DEF Items, InOneGo
      <4> QED
        BY <1>4, <3>1, <4>1, ItemsAre DEF s
    <3> QED
      BY <3>1
  <2>8. /\ RanOK(k) /\ Len(k.executed) = Len(s) + 1
        /\ RanSets(k) = RanSets(j) \cup {item}
    <3>1. /\ RanOK(k)
          /\ Len(k.executed) = Len(s) + 1
          /\ {k.executed[n].set : n \in DOMAIN k.executed} =
                {s[n].set : n \in DOMAIN s} \cup {item}
      <4>1. item \in 1..Count(j) /\ (j.slow \/ InOneGo(j) => item = Len(j.executed) + 1)
        BY <2>1, <2>7 DEF s, N
      <4>2. \A n \in DOMAIN j.executed : j.executed[n].set # item
        BY <2>6 DEF s
      <4>3. k.executed = Append(j.executed, Execution(j, item))
        BY <2>5 DEF s, e
      <4>4. /\ RanOK(k)
            /\ Len(k.executed) = Len(j.executed) + 1
            /\ {k.executed[n].set : n \in DOMAIN k.executed} =
                  {j.executed[n].set : n \in DOMAIN j.executed} \cup {item}
        <5>1. Sendable(j, item)
          BY <2>2
        <5> HIDE DEF ran, more
        <5> QED
          BY <4>1, <4>2, <4>3, <5>1, RunsOne, Zenon
      <4> QED
        BY <4>4 DEF s
    <3> QED
      BY <3>1 DEF RanSets, s
  <2>9. IsFiniteSet({item}) /\ Cardinality({item}) = 1
    BY FS_Singleton
  <2> QED
    BY <2>2, <2>8, <2>9 DEF ran, s
<1> QED
  BY <1>3, <1>4

\* What Done and Fails do to a call, from what holds of it then.
HasItem(c, j, item) ==
    /\ CallOK(c, j) /\ j.pc \in {"fast", "done"} /\ Parse(j.req).ok /\ ~j.slow /\ ~Got(j)
    /\ item \in Items(j) /\ item \notin RanSets(j)
    /\ InOneGo(j) => j.executed = <<>>
SameAsk(j, k) ==
    /\ DOMAIN k = DOMAIN NewJob /\ k.req = j.req /\ k.sets = j.sets /\ k.slow = j.slow
    /\ k.conn = j.conn /\ k.profiled = j.profiled /\ k.at = j.at
DoneWith(j, item, k) ==
    /\ SameAsk(j, k)
    /\ \A n \in DOMAIN SetsOf(j, item) : Sendable(j, SetsOf(j, item)[n])
    /\ k.executed = j.executed \o [n \in DOMAIN SetsOf(j, item) |->
                                       Execution(j, SetsOf(j, item)[n])]
    /\ DOMAIN k.results = DOMAIN j.results \cup Range(SetsOf(j, item))
    /\ IF Given(j) \/ DOMAIN k.results # 1..Count(j)
       THEN k.pc = j.pc /\ k.answer = j.answer ELSE k.pc = "done"

LEMMA DoneOK ==
    ASSUME NEW c \in Call, NEW j, NEW item, HasItem(c, j, item),
           NEW k, DoneWith(j, item, k)
    PROVE  /\ CallOK(c, k)
           /\ k.pc \in {"fast", "done"}
           /\ RanSets(k) = RanSets(j) \cup Range(SetsOf(j, item))
           /\ Got(k) => RanSets(k) = 1..Count(j)
<1> USE DEF HasItem, SameAsk, DoneWith
<1> DEFINE new == Range(SetsOf(j, item))
<1>1. /\ JobOK(c, j) /\ RanOK(j) /\ ProgressOK(j)
      /\ Count(j) \in Nat \ {0} /\ Count(k) = Count(j)
  BY SetsAre, AskDecides DEF CallOK
<1>2. /\ RanOK(k)
      /\ RanSets(k) = RanSets(j) \cup new
      /\ Len(k.executed) = Len(j.executed) + Cardinality(new)
      /\ IsFiniteSet(new) /\ new \cap RanSets(j) = {}
  BY <1>1, ItemRuns
<1>3. DOMAIN k.results = DOMAIN j.results \cup new
  OBVIOUS
<1> HIDE DEF new
<1>4. JobOK(c, k)
  <2>1. /\ j.profiled \in BOOLEAN /\ j.at \in 1..Count(j)
        /\ j.conn \in Conn \cup {NoConn} /\ (j.conn # NoConn <=> j.pc \in Holding)
        /\ Given(j) => j.pc = "done"
    BY <1>1 DEF JobOK
  <2>2. k.pc \in {"fast", "done"} /\ (k.pc = "fast" => k.answer = j.answer /\ j.pc = "fast")
    OBVIOUS
  <2>3. Given(k) => k.pc = "done"
    BY <2>1, <2>2 DEF Given
  <2>4. k.pc \in Places \ {"idle"} /\ k.pc \notin Holding \cup {"acquire"}
        /\ j.pc \notin Holding
    BY <2>2 DEF Places, Holding
  <2> QED
    BY <1>1, <2>1, <2>2, <2>3, <2>4, JobKept
<1>5. ~Given(j) => /\ DOMAIN k.results = RanSets(k)
                   /\ IsFiniteSet(DOMAIN k.results)
                   /\ Cardinality(DOMAIN k.results) = Len(k.executed)
  <2>1. SUFFICES ASSUME ~Given(j)
                 PROVE  /\ DOMAIN k.results = RanSets(k)
                        /\ IsFiniteSet(DOMAIN k.results)
                        /\ Cardinality(DOMAIN k.results) = Len(k.executed)
    OBVIOUS
  <2> DEFINE old == DOMAIN j.results
  <2>2. old = RanSets(j) /\ IsFiniteSet(old) /\ Cardinality(old) = Len(j.executed)
    BY <1>1, <2>1 DEF ProgressOK, RanSets
  <2> HIDE DEF old
  <2>3. /\ IsFiniteSet(old \cup new)
        /\ Cardinality(old \cup new) = Cardinality(old) + Cardinality(new)
    <3>1. old \cap new = {}
      BY <1>2, <2>2
    <3>2. /\ IsFiniteSet(old \cup new)
          /\ Cardinality(old \cup new) =
                Cardinality(old) + Cardinality(new) - Cardinality(old \cap new)
      BY <1>2, <2>2, FS_Union
    <3>3. Cardinality(old) \in Nat /\ Cardinality(new) \in Nat /\ Cardinality({}) = 0
      BY <1>2, <2>2, FS_CardinalityType, FS_EmptySet
    <3>4. Cardinality(old \cap new) = 0
      BY <3>1, <3>3, Zenon
    <3> QED
      BY <3>2, <3>3, <3>4
  <2> QED
    BY <1>2, <1>3, <2>2, <2>3 DEF old
<1>6. Got(k) => RanSets(k) = 1..Count(j) /\ Len(k.executed) = Count(j)
  <2>1. SUFFICES ASSUME Got(k)
                 PROVE  RanSets(k) = 1..Count(j) /\ Len(k.executed) = Count(j)
    OBVIOUS
  <2>2. ~(k.answer = j.answer)
    BY <2>1 DEF Got, Given
  <2>3. ~Given(j) /\ DOMAIN k.results = 1..Count(j)
    BY <2>2
  <2>4. Cardinality(1..Count(j)) = Count(j)
    BY <1>1, FS_Interval
  <2> QED
    BY <1>5, <2>3, <2>4
<1>7. Given(j) => k.answer = j.answer
  OBVIOUS
<1>8. ProgressOK(k)
  <2>1. k.pc \notin {"acquire", "setup", "statement", "probe", "flush"}
    OBVIOUS
  <2>2. ~Given(k) => ~Given(j)
    BY <1>7 DEF Given
  <2> QED
    BY <1>1, <1>5, <1>6, <2>1, <2>2 DEF ProgressOK, RanSets
<1> QED
  BY <1>2, <1>4, <1>6, <1>8 DEF CallOK, new

FailsAfter(j, item, m, k) ==
    /\ SameAsk(j, k)
    /\ m \in 0..Count(j) /\ (item # 0 => m = 0)
    /\ \A i \in 1..m : Sendable(j, i)
    /\ k.executed = j.executed \o [i \in 1..m |-> Execution(j, i)]
    /\ k.pc = "done" /\ k.answer = IF Given(j) THEN j.answer ELSE Failure

LEMMA FailsOK ==
    ASSUME NEW c \in Call, NEW j, NEW item, HasItem(c, j, item),
           NEW m, NEW k, FailsAfter(j, item, m, k)
    PROVE  /\ CallOK(c, k)
           /\ Given(k) /\ ~Got(k)
           /\ item # 0 => k.executed = j.executed
<1> USE DEF HasItem, SameAsk, FailsAfter
<1>1. /\ JobOK(c, j) /\ RanOK(j)
      /\ Count(j) \in Nat \ {0} /\ Count(k) = Count(j)
  BY SetsAre, AskDecides DEF CallOK
<1>2. m \in 0..Count(j) /\ (item # 0 => m = 0)
  OBVIOUS
<1> DEFINE S == Executions(j)
           more == [i \in 1..m |-> Execution(j, i)]
<1>3. more \in Seq(S) /\ (m = 0 => more = <<>>)
  <2>1. \A i \in 1..m : Execution(j, i) \in S
    BY <1>1, <1>2, ExecutionsAre
  <2> HIDE DEF S
  <2>2. m = 0 => more = <<>>
    <3>1. m = 0 => 1..m = {}
      OBVIOUS
    <3> QED
      BY <3>1
  <2> QED
    BY <1>2, <2>1, <2>2
<1>4. j.executed \in Seq(S)
  BY <1>1 DEF RanOK
<1>5. k.executed = j.executed \o more
  OBVIOUS
<1> HIDE DEF S
<1>6. m = 0 => k.executed = j.executed
  <2> HIDE DEF more
  <2> DEFINE s == j.executed
  <2>1. s \in Seq(S)
    BY <1>4
  <2> HIDE DEF s
  <2>2. s \o <<>> = s
    BY <2>1
  <2> QED
    BY <1>3, <1>5, <2>2 DEF s
<1>7. j.executed = <<>> => k.executed = more
  <2> HIDE DEF more
  <2>1. <<>> \o more = more
    BY <1>3
  <2> QED
    BY <1>5, <2>1
<1>8. RanOK(k)
  <2>1. CASE m = 0
    BY <1>1, <1>6, <2>1, RanKept
  <2>2. CASE m # 0
    <3>1. item = 0 /\ InOneGo(j)
      BY <1>1, <1>2, <2>2, ItemsAre DEF InOneGo
    <3>2. k.executed = [i \in 1..m |-> Execution(j, i)]
      BY <1>7, <3>1
    <3> QED
      BY <1>1, <1>2, <3>2, RunsPrefix
  <2> QED
    BY <2>1, <2>2
<1>9. Given(k) /\ ~Got(k)
  BY DEF Given, Got, Failure, NoAnswer
<1>10. JobOK(c, k)
  <2>1. /\ j.profiled \in BOOLEAN /\ j.at \in 1..Count(j)
        /\ j.conn \in Conn \cup {NoConn} /\ (j.conn # NoConn <=> j.pc \in Holding)
    BY <1>1 DEF JobOK
  <2>2. /\ k.pc \in Places \ {"idle"} /\ k.pc \notin Holding \cup {"acquire"}
        /\ j.pc \notin Holding
    BY DEF Places, Holding
  <2> QED
    BY <1>1, <2>1, <2>2, JobKept
<1>11. ProgressOK(k)
  BY <1>9 DEF ProgressOK
<1> QED
  BY <1>2, <1>6, <1>8, <1>9, <1>10, <1>11 DEF CallOK

\* A step of a call that holds a connection, or that gets one.
LEMMA SlowOK ==
    ASSUME NEW c \in Call, NEW j, CallOK(c, j), j.pc # "idle", Parse(j.req).ok, j.slow,
           NEW k, DOMAIN k = DOMAIN NewJob, k.req = j.req, k.sets = j.sets,
           k.slow = j.slow, k.profiled \in BOOLEAN, k.at \in 1..Count(j),
           k.conn \in Conn \cup {NoConn},
           k.conn # NoConn <=> k.pc \in Holding,
           k.pc \in Holding \cup {"done"},
           k.pc # "done" => ~Given(k),
           RanOK(k),
           k.pc = "setup" => k.at = 1,
           k.pc \in {"setup", "statement"} => Len(k.executed) = k.at - 1,
           k.pc \in {"probe", "flush"} => Len(k.executed) = k.at,
           k.pc = "probe" => k.at = Count(j),
           k.pc = "done" => Len(k.executed) = Count(j)
    PROVE  CallOK(c, k)
<1>1. JobOK(c, j) /\ Count(k) = Count(j)
  BY AskDecides DEF CallOK
<1>2. k.pc \in Places \ {"idle"} /\ k.pc \notin {"acquire", "fast"}
  BY DEF Places, Holding
<1>3. JobOK(c, k)
  BY <1>1, <1>2, JobKept
<1>4. Got(k) => k.pc = "done"
  BY DEF Got
<1>5. ProgressOK(k)
  BY <1>1, <1>2, <1>4 DEF ProgressOK
<1> QED
  BY <1>3, <1>5 DEF CallOK

\* A call on its connection sends the sets one by one.
LEMMA NextSetRuns ==
    ASSUME NEW c \in Call, NEW j, CallOK(c, j), j.pc = "statement", j.slow,
           Sendable(j, j.at),
           NEW k, k.req = j.req, k.sets = j.sets, k.slow = j.slow,
           k.executed = Append(j.executed, Execution(j, j.at))
    PROVE  RanOK(k) /\ Len(k.executed) = j.at
<1>1. /\ JobOK(c, j) /\ RanOK(j) /\ Len(j.executed) = j.at - 1
      /\ Count(j) \in Nat \ {0} /\ j.at \in 1..Count(j)
  BY SetsAre DEF CallOK, JobOK, ProgressOK
<1>2. j.executed \in Seq(Executions(j)) /\ DOMAIN j.executed = 1..j.at - 1
  <2> DEFINE s == j.executed
             S == Executions(j)
  <2>1. s \in Seq(S) /\ Len(s) = j.at - 1
    BY <1>1 DEF RanOK
  <2> HIDE DEF s, S
  <2>2. DOMAIN s = 1..j.at - 1
    BY <2>1
  <2> QED
    BY <2>1, <2>2 DEF s, S
<1>3. \A n \in DOMAIN j.executed : j.executed[n].set = n
  BY <1>1 DEF RanOK
<1>4. \A n \in 1..j.at - 1 : n # j.at
  BY <1>1
<1>5. \A n \in DOMAIN j.executed : j.executed[n].set # j.at
  BY <1>2, <1>3, <1>4
<1>6. j.at = Len(j.executed) + 1
  BY <1>1
<1>7. RanOK(k) /\ Len(k.executed) = Len(j.executed) + 1
  BY <1>1, <1>5, <1>6, RunsOne, Zenon
<1> QED
  BY <1>6, <1>7

LEMMA QueryHasOneSet ==
    ASSUME NEW c \in Call, NEW j, JobOK(c, j), j.pc # "idle", j.req.via = "query"
    PROVE  Count(j) = 1
<1>1. CASE Parse(j.req).ok
  <2>1. j.req \in Request[c] /\ j.sets = Parse(j.req).sets
    BY DEF JobOK
  <2>2. BindAsMeant(j.sets, MeantSets(j.req), Placeholders(j.req))
    BY <1>1, <2>1, ParsedAsMeant
  <2>3. MeantSets(j.req) = <<Meant(j.req, j.req.p)>>
    BY DEF MeantSets
  <2>4. Len(MeantSets(j.req)) = 1
    BY <2>3
  <2> QED
    BY <2>2, <2>4 DEF BindAsMeant, Count
<1>2. CASE ~Parse(j.req).ok
  BY <1>2, RejectedHasNoSets DEF JobOK, Count
<1> QED
  BY <1>1, <1>2

-----------------------------------------------------------------------------
(* Steps of the whole system *)

LEMMA InitIInv == Init => IInv
<1>1. SUFFICES ASSUME Init PROVE IInv
  OBVIOUS
<1>2. DOMAIN job = Call /\ \A c \in Call : job[c] = NewJob
  BY <1>1 DEF Init
<1>3. Count(NewJob) = 1 /\ ~Given(NewJob)
  BY NewJobIs DEF Count, Given
<1>4. \A c \in Call : JobOK(c, NewJob)
  <2>1. NewJob.slow \in BOOLEAN /\ NewJob.profiled \in BOOLEAN
    BY Zenon DEF NewJob
  <2>2. /\ NewJob.at \in 1..Count(NewJob) /\ NewJob.pc \in Places
        /\ NewJob.pc \notin Holding \cup {"acquire", "fast", "done"}
    BY <1>3, NewJobIs DEF Places, Holding
  <2> QED
    BY <1>3, <2>1, <2>2, NewJobIs DEF JobOK
<1>5. JobsOK
  BY <1>2, <1>4, NewJobIs DEF JobsOK, CallOK
<1>6. queue = {} /\ running = {}
  BY <1>1 DEF Init
<1>7. \A c \in Call : job[c].conn = NoConn
  BY <1>2, NewJobIs
<1>8. PoolOK
  BY <1>6, <1>7 DEF PoolOK, PendingOK, Pends, Exclusive
<1>9. SessionsOK
  <2>1. \A k \in Conn : session[k] = [on |-> FALSE, history |-> <<>>]
    BY <1>1 DEF Init
  <2>2. Len(<<>>) = 0 /\ 0 <= Window /\ <<>> \in Seq(Call \X Nat)
    BY ExecutionAssumption
  <2>3. session \in [Conn -> [on : BOOLEAN, history : Seq(Call \X Nat)]]
    BY <1>1, <2>2 DEF Init
  <2>4. \A k \in Conn : Len(session[k].history) <= Window
    BY <2>1, <2>2
  <2> QED
    BY <2>3, <2>4 DEF SessionsOK
<1>10. debug \in Settings /\ changes \in 0..Changes
  BY <1>1, ExecutionAssumption DEF Init, Settings
<1> QED
  BY <1>5, <1>8, <1>9, <1>10 DEF IInv

LEMMA JobsStep ==
    ASSUME JobsOK, NEW c \in Call, NEW k, Becomes(c, k), CallOK(c, k)
    PROVE  /\ JobsOK'
           /\ job'[c] = k
           /\ \A d \in Call : d # c => job'[d] = job[d]
<1>1. /\ DOMAIN job' = Call
      /\ job'[c] = k
      /\ \A d \in Call : d # c => job'[d] = job[d]
  BY DEF Becomes, JobsOK
<1>2. \A d \in Call : CallOK(d, job'[d])
  BY <1>1 DEF JobsOK
<1> QED
  BY <1>1, <1>2 DEF JobsOK

\* A call that no item of has come up keeps its place with the pool.
LEMMA OthersPending ==
    ASSUME PoolOK, NEW d \in Call, job'[d] = job[d],
           \A i : Pends(d, i)' => Pends(d, i)
    PROVE  PendingOK(d)'
BY DEF PoolOK, PendingOK

\* What a session keeps of its statements.
LEMMA ProfileOK ==
    ASSUME SessionsOK, NEW k \in Conn, NEW statement \in Call \X Nat, Profile(k, statement)
    PROVE  SessionsOK'
<1>1. CASE ~session[k].on
  BY <1>1 DEF Profile, SessionsOK
<1>2. CASE session[k].on
  <2> DEFINE h == Append(session[k].history, statement)
             new == Latest(h)
             S == Call \X Nat
  <2>1. /\ session[k] \in [on : BOOLEAN, history : Seq(S)]
        /\ session[k].history \in Seq(S) /\ Len(session[k].history) <= Window
        /\ Window \in Nat \ {0}
    BY ExecutionAssumption DEF SessionsOK
  <2>2. h \in Seq(S) /\ Len(h) = Len(session[k].history) + 1
    BY <2>1
  <2> HIDE DEF h, S
  <2>3. new \in Seq(S) /\ Len(new) <= Window
    <3>1. CASE Len(h) <= Window
      BY <2>2, <3>1 DEF Latest
    <3>2. CASE ~(Len(h) <= Window)
      <4> DEFINE m == Len(h) - Window + 1
      <4>1. /\ m \in 1..Len(h) + 1 /\ m <= Len(h) /\ Len(h) \in Nat
            /\ Len(h) - m + 1 = Window
        BY <2>1, <2>2, <3>2
      <4>2. new = SubSeq(h, m, Len(h))
        BY <3>2 DEF Latest
      <4> HIDE DEF m
      <4>3. SubSeq(h, m, Len(h)) \in Seq(S) /\ Len(SubSeq(h, m, Len(h))) = Window
        BY <2>1, <2>2, <4>1, SubSeqProperties
      <4> QED
        BY <2>1, <4>2, <4>3
    <3> QED
      BY <3>1, <3>2
  <2> HIDE DEF new
  <2>4. session' = [session EXCEPT ![k].history = new]
    BY <1>2 DEF Profile, new, h
  <2>5. session' \in [Conn -> [on : BOOLEAN, history : Seq(S)]]
    BY <2>1, <2>3, <2>4 DEF SessionsOK, S
  <2>6. session'[k].history = new /\ \A o \in Conn : o # k => session'[o] = session[o]
    BY <2>1, <2>4 DEF SessionsOK
  <2> QED
    BY <2>3, <2>5, <2>6 DEF SessionsOK, S
<1> QED
  BY <1>1, <1>2

\* A session that is set or emptied.
LEMMA ResetOK ==
    ASSUME SessionsOK, NEW k \in Conn, NEW s \in [on : BOOLEAN, history : Seq(Call \X Nat)],
           Len(s.history) <= Window,
           session' = [session EXCEPT ![k] = s]
    PROVE  SessionsOK'
BY DEF SessionsOK

\* No item is added, and a connection at most given back.
LEMMA ExclusiveKept ==
    ASSUME Exclusive, NEW c \in Call, job'[c].conn \in {job[c].conn, NoConn},
           \A d \in Call : d # c => job'[d] = job[d],
           queue' \subseteq queue, running' \subseteq running
    PROVE  Exclusive'
<1>1. \A d \in Call : job'[d].conn \in {job[d].conn, NoConn}
  OBVIOUS
<1>2. \A w \in running : w[3] # NoConn
  BY ExecutionAssumption DEF Exclusive
<1>3. queue' \subseteq Call \X Nat /\ running' \subseteq Call \X Nat \X Conn
  BY DEF Exclusive
<1>4. /\ \A w \in running' : <<w[1], w[2]>> \notin queue'
      /\ \A v, w \in running' : v[1] = w[1] /\ v[2] = w[2] => v = w
  BY DEF Exclusive
<1>5. \A w \in running', d \in Call : job'[d].conn # w[3]
  BY <1>1, <1>2 DEF Exclusive
<1>6. \A d, e \in Call : job'[d].conn = job'[e].conn /\ job'[d].conn # NoConn => d = e
  BY <1>1 DEF Exclusive
<1> QED
  BY <1>3, <1>4, <1>5, <1>6 DEF Exclusive

\* A step of a call that has nothing with the pool.
LEMMA HolderStep ==
    ASSUME JobsOK, PoolOK, NEW c \in Call, \A i : ~Pends(c, i),
           NEW k, Becomes(c, k), CallOK(c, k), k.conn \in {job[c].conn, NoConn},
           queue' = queue, running' = running
    PROVE  JobsOK' /\ PoolOK'
<1>1. /\ JobsOK' /\ job'[c] = k
      /\ \A d \in Call : d # c => job'[d] = job[d]
  BY JobsStep
<1>2. \A d, i : Pends(d, i)' <=> Pends(d, i)
  BY DEF Pends
<1>3. PendingOK(c)'
  BY <1>2 DEF PendingOK
<1>4. \A d \in Call : d # c => PendingOK(d)'
  BY <1>1, <1>2, OthersPending
<1>5. Exclusive'
  BY <1>1, ExclusiveKept DEF PoolOK
<1> QED
  BY <1>1, <1>3, <1>4, <1>5 DEF PoolOK

LEMMA SlowHasNoItems ==
    ASSUME PoolOK, NEW c \in Call, job[c].slow \/ job[c].pc \notin {"fast", "done"}
    PROVE  \A i : ~Pends(c, i)
BY DEF PoolOK, PendingOK

LEMMA EnterStep ==
    ASSUME IInv, NEW c \in Call, NEW r \in Request[c], Enter(c, r)
    PROVE  IInv'
<1> DEFINE e == Entered(r)
<1>1. /\ JobsOK /\ PoolOK /\ SessionsOK /\ DOMAIN job = Call
      /\ job[c].pc = "idle" /\ job[c] = NewJob /\ job[c].conn = NoConn
  BY NewJobIs DEF IInv, JobsOK, CallOK, JobOK, Enter
<1>2. \A i : ~Pends(c, i)
  BY <1>1, SlowHasNoItems
<1>3. /\ DOMAIN e = DOMAIN NewJob
      /\ e.req = r /\ e.sets = Parse(r).sets /\ e.executed = <<>> /\ e.results = <<>>
      /\ e.conn = NoConn /\ e.at = 1 /\ e.pc = "idle" /\ e.answer = NoAnswer
      /\ e.profiled = NewJob.profiled /\ e.slow = NewJob.slow
  BY NewJobIs DEF Entered
<1>4. NewJob.profiled \in BOOLEAN /\ NewJob.slow \in BOOLEAN /\ ~NewJob.slow
  BY Zenon DEF NewJob
<1>5. SessionsOK' /\ debug' \in Settings /\ changes' \in 0..Changes
  BY DEF IInv, Enter, SessionsOK
<1>6. \/ /\ ~Parse(r).ok
         /\ Becomes(c, [e EXCEPT !.pc = "done", !.answer = Failure])
         /\ queue' = queue
      \/ /\ Parse(r).ok
         /\ Becomes(c, [e EXCEPT !.pc = "fast"])
         /\ queue' = queue \cup {<<c, i>> : i \in Items(e)}
      \/ /\ Parse(r).ok
         /\ Becomes(c, [e EXCEPT !.pc = "acquire", !.slow = TRUE])
         /\ queue' = queue
  BY DEF Enter, Entered
<1>7. running' = running
  BY DEF Enter
<1> HIDE DEF e
<1>8. CASE /\ ~Parse(r).ok
           /\ Becomes(c, [e EXCEPT !.pc = "done", !.answer = Failure])
           /\ queue' = queue
  <2> DEFINE k == [e EXCEPT !.pc = "done", !.answer = Failure]
  <2>1. /\ DOMAIN k = DOMAIN NewJob
        /\ k.req = r /\ k.sets = Parse(r).sets /\ k.executed = <<>> /\ k.results = <<>>
        /\ k.conn = NoConn /\ k.at = 1 /\ k.pc = "done" /\ k.answer = Failure
        /\ k.profiled = e.profiled /\ k.slow = e.slow
    BY <1>3, NewJobIs
  <2>2. Becomes(c, k)
    BY <1>8
  <2> HIDE DEF k
  <2>3. k.profiled \in BOOLEAN /\ k.slow \in BOOLEAN
    BY <1>3, <1>4, <2>1, Zenon
  <2>4. CallOK(c, k)
    BY <1>8, <2>1, <2>3, EnteredOK
  <2>5. JobsOK' /\ PoolOK'
    BY <1>1, <1>2, <1>7, <1>8, <2>1, <2>2, <2>4, HolderStep
  <2> QED
    BY <1>5, <2>5 DEF IInv
<1>9. CASE /\ Parse(r).ok
           /\ Becomes(c, [e EXCEPT !.pc = "acquire", !.slow = TRUE])
           /\ queue' = queue
  <2> DEFINE k == [e EXCEPT !.pc = "acquire", !.slow = TRUE]
  <2>1. /\ DOMAIN k = DOMAIN NewJob
        /\ k.req = r /\ k.sets = Parse(r).sets /\ k.executed = <<>> /\ k.results = <<>>
        /\ k.conn = NoConn /\ k.at = 1 /\ k.pc = "acquire" /\ k.answer = NoAnswer
        /\ k.profiled = e.profiled
    BY <1>3, NewJobIs
  <2>2. k.slow
    BY <1>3, NewJobIs
  <2>3. Becomes(c, k)
    BY <1>9
  <2>4. k.slow \in BOOLEAN
    BY <1>3, NewJobIs
  <2> HIDE DEF k
  <2>5. k.profiled \in BOOLEAN
    BY <1>3, <1>4, <2>1, Zenon
  <2>6. CallOK(c, k)
    BY <1>9, <2>1, <2>2, <2>4, <2>5, EnteredOK
  <2>7. JobsOK' /\ PoolOK'
    BY <1>1, <1>2, <1>7, <1>9, <2>1, <2>3, <2>6, HolderStep
  <2> QED
    BY <1>5, <2>7 DEF IInv
<1>10. CASE /\ Parse(r).ok
            /\ Becomes(c, [e EXCEPT !.pc = "fast"])
            /\ queue' = queue \cup {<<c, i>> : i \in Items(e)}
  <2> DEFINE k == [e EXCEPT !.pc = "fast"]
  <2>1. /\ DOMAIN k = DOMAIN NewJob
        /\ k.req = r /\ k.sets = Parse(r).sets /\ k.executed = <<>> /\ k.results = <<>>
        /\ k.conn = NoConn /\ k.at = 1 /\ k.pc = "fast" /\ k.answer = NoAnswer
        /\ k.profiled = e.profiled /\ k.slow = e.slow
    BY <1>3, NewJobIs
  <2>2. Becomes(c, k)
    BY <1>10
  <2> HIDE DEF k
  <2>3. k.profiled \in BOOLEAN /\ k.slow \in BOOLEAN /\ ~k.slow
    BY <1>3, <1>4, <2>1, Zenon
  <2>4. CallOK(c, k)
    BY <1>10, <2>1, <2>3, EnteredOK
  <2>5. /\ JobsOK' /\ job'[c] = k
        /\ \A d \in Call : d # c => job'[d] = job[d]
    BY <1>1, <2>2, <2>4, JobsStep
  <2>6. Items(e) = Items(k)
    BY <1>3, <2>1, AskDecides
  <2>7. Items(k) \subseteq Nat
    BY <2>4, SetsAre, ItemsAre DEF CallOK
  <2>8. queue' = queue \cup {<<c, i>> : i \in Items(k)}
    BY <1>10, <2>6
  <2>9. \A d, i : Pends(d, i)' => Pends(d, i) \/ (d = c /\ i \in Items(k))
    BY <1>7, <2>8 DEF Pends
  <2>10. PendingOK(c)'
    <3>1. ~Given(k) /\ ~Got(k)
      BY <2>1 DEF Given, Got
    <3> QED
      BY <1>2, <1>10, <2>1, <2>3, <2>5, <2>9, <3>1 DEF PendingOK
  <2>11. \A d \in Call : d # c => PendingOK(d)'
    BY <1>1, <2>5, <2>9, OthersPending
  <2>12. Exclusive'
    <3>1. queue' \subseteq Call \X Nat
      BY <1>1, <2>7, <2>8 DEF PoolOK, Exclusive
    <3>2. \A w \in running' : <<w[1], w[2]>> \notin queue'
      <4>1. ASSUME NEW w \in running PROVE <<w[1], w[2]>> \notin queue'
        <5>1. w = <<w[1], w[2], w[3]>> /\ w[3] \in Conn /\ <<w[1], w[2]>> \notin queue
          BY <1>1 DEF PoolOK, Exclusive
        <5>2. w[1] # c
          BY <1>2, <5>1 DEF Pends
        <5> QED
          BY <2>8, <5>1, <5>2
      <4> QED
        BY <1>7, <4>1
    <3>3. \A d \in Call : job'[d].conn = job[d].conn
      BY <1>1, <2>1, <2>5
    <3> QED
      BY <1>1, <1>7, <3>1, <3>2, <3>3 DEF PoolOK, Exclusive
  <2> QED
    BY <1>5, <2>5, <2>10, <2>11, <2>12 DEF IInv, PoolOK
<1> QED
  BY <1>6, <1>8, <1>9, <1>10

LEMMA LendStep ==
    ASSUME IInv, NEW c \in Call, NEW item, NEW k \in Conn, Lend(c, item, k)
    PROVE  IInv'
<1>1. /\ JobsOK /\ PoolOK /\ Exclusive /\ SessionsOK
      /\ debug \in Settings /\ changes \in 0..Changes
  BY DEF IInv, PoolOK
<1>2. /\ <<c, item>> \in queue /\ item \in Nat /\ Idle(k)
      /\ queue' = queue \ {<<c, item>>} /\ running' = running \cup {<<c, item, k>>}
      /\ job' = job /\ session' = session /\ debug' = debug /\ changes' = changes
  BY <1>1 DEF Lend, Exclusive
<1>3. JobsOK' /\ SessionsOK' /\ debug' \in Settings /\ changes' \in 0..Changes
  BY <1>1, <1>2 DEF JobsOK, SessionsOK
<1>4. \A d, i : Pends(d, i)' => Pends(d, i)
  BY <1>2 DEF Pends
<1>5. \A d \in Call : PendingOK(d)'
  BY <1>1, <1>2, <1>4, OthersPending
<1>6. \A w \in running : ~(w[1] = c /\ w[2] = item)
  BY <1>1, <1>2 DEF Exclusive
<1>7. Exclusive'
  <2>1. queue' \subseteq Call \X Nat /\ running' \subseteq Call \X Nat \X Conn
    BY <1>1, <1>2 DEF Exclusive
  <2>2. \A w \in running' : <<w[1], w[2]>> \notin queue'
    <3>1. ASSUME NEW w \in running' PROVE <<w[1], w[2]>> \notin queue'
      <4>1. CASE w \in running
        BY <1>1, <1>2, <4>1 DEF Exclusive
      <4>2. CASE w = <<c, item, k>>
        <5>1. w[1] = c /\ w[2] = item
          BY <4>2
        <5> QED
          BY <1>2, <5>1
      <4> QED
        BY <1>2, <4>1, <4>2
    <3> QED
      BY <3>1
  <2>3. \A v, w \in running' : v[1] = w[1] /\ v[2] = w[2] => v = w
    BY <1>1, <1>2, <1>6 DEF Exclusive
  <2>4. \A w \in running', d \in Call : job'[d].conn # w[3]
    BY <1>1, <1>2 DEF Exclusive, Idle
  <2> QED
    BY <1>1, <1>2, <2>1, <2>2, <2>3, <2>4 DEF Exclusive
<1> QED
  BY <1>3, <1>5, <1>7 DEF IInv, PoolOK

\* What is known of an item that waits or runs.
LEMMA ItemIs ==
    ASSUME JobsOK, PoolOK, NEW c \in Call, NEW i, Pends(c, i)
    PROVE  /\ i \in Items(job[c]) /\ ~job[c].slow /\ job[c].pc \in {"fast", "done"}
           /\ job[c].pc # "idle"
           /\ Parse(job[c].req).ok /\ ~Got(job[c]) /\ i \notin RanSets(job[c])
           /\ InOneGo(job[c]) => ~Given(job[c]) /\ job[c].executed = <<>>
           /\ InOneGo(job[c]) => \A n \in Items(job[c]) : n = i
           /\ CallOK(c, job[c])
           /\ Count(job[c]) \in Nat \ {0}
<1>1. CallOK(c, job[c]) /\ JobOK(c, job[c])
  BY DEF JobsOK, CallOK
<1>2. Count(job[c]) \in Nat \ {0}
  BY <1>1, SetsAre
<1>3. /\ i \in Items(job[c]) /\ ~job[c].slow /\ job[c].pc \in {"fast", "done"}
      /\ Parse(job[c].req).ok /\ ~Got(job[c]) /\ i \notin RanSets(job[c])
      /\ InOneGo(job[c]) => ~Given(job[c]) /\ job[c].executed = <<>>
  BY DEF PoolOK, PendingOK, RanSets
<1>4. InOneGo(job[c]) => \A n \in Items(job[c]) : n = i
  BY <1>2, <1>3, ItemsAre
<1> QED
  BY <1>1, <1>2, <1>3, <1>4

\* An item is over, and its call as it is now.
LEMMA ItemStep ==
    ASSUME IInv, NEW c \in Call, NEW item, Pends(c, item),
           NEW k, Becomes(c, k), CallOK(c, k),
           k.req = job[c].req, k.sets = job[c].sets, k.slow = job[c].slow,
           k.conn \in {job[c].conn, NoConn}, k.pc \in {"fast", "done"},
           \A i : Pends(c, i)' => Pends(c, i) /\ i # item,
           \A d, i : d # c => (Pends(d, i)' => Pends(d, i)),
           queue' \subseteq queue, running' \subseteq running,
           \A i : Pends(c, i) /\ i # item /\ ~InOneGo(job[c]) =>
                     ~Got(k) /\ i \notin RanSets(k),
           SessionsOK', debug' = debug, changes' = changes
    PROVE  IInv'
<1>1. JobsOK /\ PoolOK /\ Exclusive
  BY DEF IInv, PoolOK
<1>2. /\ JobsOK' /\ job'[c] = k
      /\ \A d \in Call : d # c => job'[d] = job[d]
  BY <1>1, JobsStep
<1>3. \A d \in Call : d # c => PendingOK(d)'
  BY <1>1, <1>2, OthersPending
<1>4. /\ item \in Items(job[c])
      /\ InOneGo(job[c]) => \A n \in Items(job[c]) : n = item
  BY <1>1, ItemIs
<1>5. Items(k) = Items(job[c]) /\ (InOneGo(k) <=> InOneGo(job[c]))
  BY AskDecides
<1>6. PendingOK(c)'
  <2>1. SUFFICES ASSUME NEW i, Pends(c, i)'
                 PROVE  /\ i \in Items(k) /\ ~k.slow /\ k.pc \in {"fast", "done"}
                        /\ Parse(k.req).ok /\ ~Got(k) /\ i \notin RanSets(k)
                        /\ ~InOneGo(k)
    BY <1>2 DEF PendingOK, RanSets
  <2>2. Pends(c, i) /\ i # item
    BY <2>1
  <2>3. /\ i \in Items(job[c]) /\ ~job[c].slow /\ Parse(job[c].req).ok
        /\ ~InOneGo(job[c])
    BY <1>1, <1>4, <2>2, ItemIs
  <2> QED
    BY <1>5, <2>2, <2>3
<1>7. Exclusive'
  BY <1>1, <1>2, ExclusiveKept
<1> QED
  BY <1>2, <1>3, <1>6, <1>7 DEF IInv, PoolOK

LEMMA NotLentStep ==
    ASSUME IInv, NEW c \in Call, NEW item, NotLent(c, item)
    PROVE  IInv'
<1> DEFINE j == job[c]
           k == Thrown(j)
<1>1. JobsOK /\ PoolOK /\ Exclusive
  BY DEF IInv, PoolOK
<1>2. /\ <<c, item>> \in queue /\ queue' = queue \ {<<c, item>>} /\ running' = running
      /\ session' = session /\ debug' = debug /\ changes' = changes
      /\ Becomes(c, k)
  BY DEF NotLent, Throw, Thrown, Answered, Given
<1>3. Pends(c, item)
  BY <1>2 DEF Pends
<1>4. CallOK(c, j) /\ j.pc # "idle" /\ Parse(j.req).ok /\ ~Got(j)
  BY <1>1, <1>3, ItemIs
<1> HIDE DEF j, k
<1>5. /\ CallOK(c, k) /\ k.pc = "done" /\ k.conn = NoConn
      /\ k.req = j.req /\ k.sets = j.sets /\ k.slow = j.slow
      /\ k.executed = j.executed /\ ~Got(k)
  BY <1>4, ThrownOK DEF k
<1>6. RanSets(k) = RanSets(j)
  BY <1>5 DEF RanSets
<1>7. ~\E o \in Conn : <<c, item, o>> \in running
  BY <1>1, <1>2 DEF Exclusive
<1>8. \A i : Pends(c, i)' => Pends(c, i) /\ i # item
  BY <1>2, <1>7 DEF Pends
<1>9. \A d, i : d # c => (Pends(d, i)' => Pends(d, i))
  BY <1>2 DEF Pends
<1>10. \A i : Pends(c, i) => i \notin RanSets(k)
  BY <1>1, <1>6, ItemIs DEF j
<1>11. SessionsOK'
  BY <1>2 DEF IInv, SessionsOK
<1> QED
  BY <1>2, <1>3, <1>5, <1>8, <1>9, <1>10, <1>11, ItemStep DEF j

\* The item that a connection was lent for is over.
LEMMA ItemOver ==
    ASSUME Exclusive, NEW c \in Call, NEW item, NEW o \in Conn, <<c, item, o>> \in running,
           running' = running \ {<<c, item, o>>}, queue' = queue
    PROVE  /\ \A i : Pends(c, i)' => Pends(c, i) /\ i # item
           /\ \A d, i : d # c => (Pends(d, i)' => Pends(d, i))
<1>1. <<c, item>> \notin queue
  <2>1. <<<<c, item, o>>[1], <<c, item, o>>[2]>> \notin queue
    BY DEF Exclusive
  <2> QED
    BY <2>1
<1>2. ASSUME NEW q \in Conn, <<c, item, q>> \in running PROVE q = o
  <2>1. <<c, item, q>> = <<c, item, o>>
    BY <1>2 DEF Exclusive
  <2> QED
    BY <2>1
<1> QED
  BY <1>1, <1>2 DEF Pends

LEMMA FailsStep ==
    ASSUME IInv, NEW c \in Call, NEW item, NEW o \in Conn, Fails(c, item, o)
    PROVE  IInv'
<1> DEFINE j == job[c]
<1>1. JobsOK /\ PoolOK /\ Exclusive
  BY DEF IInv, PoolOK
<1>2. /\ <<c, item, o>> \in running /\ running' = running \ {<<c, item, o>>}
      /\ queue' = queue /\ debug' = debug /\ changes' = changes
      /\ session' = session \/ Profile(o, <<c, item>>)
  BY DEF Fails
<1>3. Pends(c, item)
  BY <1>2 DEF Pends
<1>4. /\ CallOK(c, j) /\ j.pc \in {"fast", "done"} /\ Parse(j.req).ok
      /\ ~j.slow /\ ~Got(j) /\ item \in Items(j)
      /\ InOneGo(j) => j.executed = <<>>
  BY <1>1, <1>3, ItemIs
<1>5. PICK m \in 0..(IF item = 0 THEN Count(j) - 1 ELSE 0) :
         /\ \A i \in 1..m : Sendable(j, i)
         /\ Becomes(c, [j EXCEPT !.executed = @ \o [i \in 1..m |-> Execution(j, i)],
                                 !.pc = "done",
                                 !.answer = IF Answered(c) THEN @ ELSE Failure])
  BY DEF Fails
<1> DEFINE k == [j EXCEPT !.executed = @ \o [i \in 1..m |-> Execution(j, i)],
                          !.pc = "done",
                          !.answer = IF Answered(c) THEN @ ELSE Failure]
<1>6. Answered(c) <=> Given(j)
  BY DEF Answered, Given
<1> HIDE DEF j
<1>7. /\ DOMAIN k = DOMAIN NewJob /\ k.req = j.req /\ k.sets = j.sets
      /\ k.slow = j.slow /\ k.conn = j.conn /\ k.profiled = j.profiled /\ k.at = j.at
      /\ k.executed = j.executed \o [i \in 1..m |-> Execution(j, i)]
      /\ k.pc = "done"
      /\ k.answer = IF Given(j) THEN j.answer ELSE Failure
  BY <1>4, <1>6, NewJobIs DEF CallOK, JobOK
<1>8. Becomes(c, k)
  BY <1>5
<1> HIDE DEF k
<1>9. /\ CallOK(c, k) /\ Given(k) /\ ~Got(k)
      /\ item # 0 => k.executed = j.executed
  <2>1. \A i \in 1..m : Sendable(j, i)
    BY <1>5
  <2>2. m \in 0..Count(j) /\ (item # 0 => m = 0)
    BY <1>1, <1>3, ItemIs DEF j
  <2>3. HasItem(c, j, item)
    BY <1>1, <1>3, <1>4, ItemIs DEF HasItem, j
  <2>4. FailsAfter(j, item, m, k)
    BY <1>7, <2>1, <2>2 DEF FailsAfter, SameAsk
  <2> QED
    BY <2>3, <2>4, FailsOK
<1>10. ~InOneGo(j) => RanSets(k) = RanSets(j)
  <2>1. ~InOneGo(j) => item # 0
    BY <1>1, <1>3, <1>4, ItemIs, ItemsAre DEF InOneGo, j
  <2> QED
    BY <1>9, <2>1 DEF RanSets
<1>11. \A i : Pends(c, i)' => Pends(c, i) /\ i # item
  BY <1>1, <1>2, ItemOver
<1>12. \A d, i : d # c => (Pends(d, i)' => Pends(d, i))
  BY <1>2 DEF Pends
<1>13. \A i : Pends(c, i) /\ i # item /\ ~InOneGo(j) => i \notin RanSets(k)
  BY <1>1, <1>10, ItemIs DEF j
<1>14. SessionsOK'
  <2>1. CASE session' = session
    BY <2>1 DEF IInv, SessionsOK
  <2>2. CASE Profile(o, <<c, item>>)
    <3>1. <<c, item>> \in Call \X Nat
      BY <1>1, <1>3, ItemIs DEF Pends, Exclusive
    <3> QED
      BY <2>2, <3>1, ProfileOK DEF IInv
  <2> QED
    BY <1>2, <2>1, <2>2
<1>15. k.pc \in {"fast", "done"} /\ queue' \subseteq queue /\ running' \subseteq running
  BY <1>2, <1>7
<1> QED
  BY <1>2, <1>3, <1>7, <1>8, <1>9, <1>11, <1>12, <1>13, <1>14, <1>15, ItemStep DEF j

LEMMA DoneStep ==
    ASSUME IInv, NEW c \in Call, NEW item, NEW o \in Conn, Done(c, item, o)
    PROVE  IInv'
<1> DEFINE j == job[c]
           ran == SetsOf(j, item)
           e == [j EXCEPT
                   !.executed = @ \o [n \in DOMAIN ran |-> Execution(j, ran[n])],
                   !.results = ResultsWith(j, Range(ran))]
           f == [e EXCEPT !.pc = "done",
                          !.logged = Append(@, Clock(c, 0)),
                          !.answer = FastResult(e)]
           over == Answered(c) \/ DOMAIN e.results # 1..Count(j)
           k == IF over THEN e ELSE f
<1>1. JobsOK /\ PoolOK /\ Exclusive /\ SessionsOK
  BY DEF IInv, PoolOK
<1>2. /\ <<c, item, o>> \in running /\ running' = running \ {<<c, item, o>>}
      /\ queue' = queue /\ debug' = debug /\ changes' = changes
      /\ Profile(o, <<c, item>>)
      /\ \A n \in DOMAIN ran : Sendable(j, ran[n])
  BY DEF Done
<1>3. Becomes(c, k)
  BY DEF Done
<1>4. Pends(c, item)
  BY <1>2 DEF Pends
<1>5. HasItem(c, j, item) /\ Count(j) \in Nat \ {0}
  BY <1>1, <1>4, ItemIs DEF HasItem
<1>6. Answered(c) <=> Given(j)
  BY DEF Answered, Given
<1>7. DOMAIN j = DOMAIN NewJob
  BY <1>5 DEF HasItem, CallOK, JobOK
<1>8. DOMAIN ResultsWith(j, Range(ran)) = DOMAIN j.results \cup Range(ran)
  BY DEF ResultsWith
<1> DEFINE more == [n \in DOMAIN ran |-> Execution(j, ran[n])]
           got == ResultsWith(j, Range(ran))
<1>9. e = [j EXCEPT !.executed = @ \o more, !.results = got]
  OBVIOUS
<1> HIDE DEF j, more, got
<1>10. /\ SameAsk(j, e) /\ e.pc = j.pc /\ e.answer = j.answer
       /\ e.executed = j.executed \o more /\ e.results = got
  BY <1>7, <1>9, NewJobIs DEF SameAsk
<1> HIDE DEF e
<1>11. /\ SameAsk(j, f) /\ f.pc = "done"
       /\ f.executed = e.executed /\ f.results = e.results
  BY <1>10, NewJobIs DEF SameAsk
<1> HIDE DEF f
<1>12. k.executed = j.executed \o more /\ k.results = got
  BY <1>10, <1>11
<1>13. DOMAIN k.results = DOMAIN j.results \cup Range(ran)
  BY <1>8, <1>12 DEF got
<1>14. over <=> Given(j) \/ DOMAIN k.results # 1..Count(j)
  BY <1>6, <1>10, <1>12
<1>15. SameAsk(j, k)
  BY <1>10, <1>11
<1>16. IF over THEN k.pc = j.pc /\ k.answer = j.answer ELSE k.pc = "done"
  BY <1>10, <1>11
<1> HIDE DEF over, k
<1>17. DoneWith(j, item, k)
  BY <1>2, <1>12, <1>13, <1>14, <1>15, <1>16 DEF DoneWith, more, ran
<1>18. /\ CallOK(c, k) /\ k.pc \in {"fast", "done"}
       /\ RanSets(k) = RanSets(j) \cup Range(ran)
       /\ Got(k) => RanSets(k) = 1..Count(j)
  BY <1>5, <1>17, DoneOK
<1>19. ~InOneGo(j) => item # 0 /\ Range(ran) = {item} /\ ~(0 \in Items(j))
  <2>1. ~InOneGo(j) => ~(0 \in Items(j))
    BY <1>5, ItemsAre DEF InOneGo
  <2>2. item # 0 => Range(ran) = {item}
    BY DEF ran, SetsOf, Range
  <2> QED
    BY <1>5, <2>1, <2>2 DEF HasItem
<1>20. ASSUME NEW i, Pends(c, i), i # item, ~InOneGo(j)
       PROVE  ~Got(k) /\ i \notin RanSets(k)
  <2>1. i \in Items(j) /\ i \notin RanSets(j)
    BY <1>1, <1>20, ItemIs DEF j
  <2>2. i \in 1..Count(j)
    BY <1>5, <1>19, <1>20, <2>1, ItemsAre
  <2>3. i \notin RanSets(k)
    BY <1>18, <1>19, <1>20, <2>1
  <2> QED
    BY <1>18, <2>2, <2>3
<1>21. \A i : Pends(c, i)' => Pends(c, i) /\ i # item
  BY <1>1, <1>2, ItemOver
<1>22. \A d, i : d # c => (Pends(d, i)' => Pends(d, i))
  BY <1>2 DEF Pends
<1>23. SessionsOK'
  <2>1. <<c, item>> \in Call \X Nat
    BY <1>1, <1>2 DEF Exclusive
  <2> QED
    BY <1>1, <1>2, <2>1, ProfileOK
<1>24. queue' \subseteq queue /\ running' \subseteq running
  BY <1>2
<1> QED
  BY <1>2, <1>3, <1>4, <1>15, <1>18, <1>20, <1>21, <1>22, <1>23, <1>24, ItemStep
  DEF SameAsk, j

\* A call fails while it waits for its connection or holds it.
LEMMA SlowThrow ==
    ASSUME IInv, NEW c \in Call, job[c].pc \in Holding \cup {"acquire"}, Throw(c),
           queue' = queue, running' = running
    PROVE  JobsOK' /\ PoolOK'
<1> DEFINE j == job[c]
           k == Thrown(j)
<1>1. JobsOK /\ PoolOK
  BY DEF IInv
<1>2. CallOK(c, j) /\ j.slow /\ j.pc # "idle" /\ j.pc # "done" /\ Parse(j.req).ok
  BY <1>1 DEF JobsOK, CallOK, JobOK, Holding
<1>3. \A i : ~Pends(c, i)
  BY <1>1, <1>2, SlowHasNoItems
<1>4. Becomes(c, k)
  BY DEF Throw, Thrown, Answered, Given
<1> HIDE DEF j
<1>5. CallOK(c, k) /\ k.conn = NoConn
  BY <1>2, ThrownOK
<1> QED
  BY <1>1, <1>3, <1>4, <1>5, HolderStep DEF j

LEMMA AcquireStep ==
    ASSUME IInv, NEW c \in Call, NEW o \in Conn, Acquire(c, o)
    PROVE  IInv'
<1> DEFINE j == job[c]
           place == IF debug.on /\ job[c].req.resource \in debug.listed
                    THEN "setup" ELSE "statement"
           k == [j EXCEPT !.conn = o, !.pc = place]
<1>1. /\ JobsOK /\ PoolOK /\ Exclusive /\ SessionsOK
      /\ CallOK(c, j) /\ JobOK(c, j) /\ RanOK(j) /\ ProgressOK(j)
      /\ j.pc = "acquire" /\ Idle(o) /\ Becomes(c, k)
      /\ queue' = queue /\ running' = running
      /\ session' = session /\ debug' = debug /\ changes' = changes
  BY DEF IInv, JobsOK, PoolOK, CallOK, Acquire
<1>2. \A i : ~Pends(c, i)
  BY <1>1, SlowHasNoItems
<1>3. place \in {"setup", "statement"}
  OBVIOUS
<1> HIDE DEF j, place
<1>4. /\ DOMAIN k = DOMAIN NewJob /\ k.req = j.req /\ k.sets = j.sets
      /\ k.slow = j.slow /\ k.profiled = j.profiled /\ k.at = j.at
      /\ k.conn = o /\ k.pc = place /\ k.executed = j.executed /\ k.answer = j.answer
  BY <1>1, NewJobIs DEF JobOK
<1> HIDE DEF k
<1>5. CallOK(c, k)
  <2>1. /\ j.slow /\ Parse(j.req).ok /\ ~Given(k) /\ j.profiled \in BOOLEAN
        /\ j.at \in 1..Count(j)
    BY <1>1, <1>4 DEF JobOK, Given
  <2>2. j.at = 1 /\ Len(k.executed) = k.at - 1
    BY <1>1, <1>4 DEF ProgressOK
  <2>3. RanOK(k)
    BY <1>1, <1>4, RanKept
  <2>4. k.conn # NoConn /\ k.pc \in Holding /\ k.pc \notin {"probe", "flush", "done"}
    BY <1>3, <1>4, ExecutionAssumption DEF Holding
  <2> QED
    BY <1>1, <1>4, <2>1, <2>2, <2>3, <2>4, SlowOK
<1>6. /\ JobsOK' /\ job'[c] = k
      /\ \A d \in Call : d # c => job'[d] = job[d]
  BY <1>1, <1>5, JobsStep
<1>7. \A d, i : Pends(d, i)' <=> Pends(d, i)
  BY <1>1 DEF Pends
<1>8. \A d \in Call : PendingOK(d)'
  <2>1. PendingOK(c)'
    BY <1>2, <1>7 DEF PendingOK
  <2>2. \A d \in Call : d # c => PendingOK(d)'
    BY <1>1, <1>6, <1>7, OthersPending
  <2> QED
    BY <2>1, <2>2
<1>9. Exclusive'
  <2>1. \A d \in Call : job[d].conn # o
    BY <1>1 DEF Idle
  <2>2. \A w \in running' : w[3] # o
    BY <1>1 DEF Idle
  <2>3. \A w \in running', d \in Call : job'[d].conn # w[3]
    BY <1>1, <1>4, <1>6, <2>2 DEF Exclusive
  <2>4. \A d, e \in Call : job'[d].conn = job'[e].conn /\ job'[d].conn # NoConn => d = e
    BY <1>1, <1>4, <1>6, <2>1 DEF Exclusive
  <2> QED
    BY <1>1, <2>3, <2>4 DEF Exclusive
<1>10. SessionsOK'
  BY <1>1 DEF SessionsOK
<1> QED
  BY <1>1, <1>6, <1>8, <1>9, <1>10 DEF IInv, PoolOK

LEMMA ThrowSteps ==
    ASSUME IInv, NEW c \in Call, AcquireFails(c) \/ SlowFails(c) \/ ProfilerFails(c)
    PROVE  IInv'
<1>1. /\ job[c].pc \in Holding \cup {"acquire"} /\ Throw(c)
      /\ queue' = queue /\ running' = running /\ debug' = debug /\ changes' = changes
  BY DEF AcquireFails, SlowFails, ProfilerFails, Holding
<1>2. JobsOK' /\ PoolOK'
  BY <1>1, SlowThrow
<1>3. SessionsOK'
  <2>1. CASE session' = session
    BY <2>1 DEF IInv, SessionsOK
  <2>2. CASE SlowFails(c) /\ session' # session /\ ~PartlyReset(job[c].conn)
    <3> DEFINE n == IF job[c].pc = "statement" THEN job[c].at ELSE 0
    <3>1. /\ job[c].conn \in Conn /\ job[c].pc \in {"statement", "probe", "flush"}
          /\ job[c].at \in 1..Count(job[c])
      BY <2>2 DEF IInv, JobsOK, CallOK, JobOK, SlowFails, Holding
    <3>2. n \in Nat
      BY <3>1
    <3>3. Profile(job[c].conn, <<c, n>>)
      BY <2>2 DEF SlowFails
    <3> HIDE DEF n
    <3> QED
      BY <3>1, <3>2, <3>3, ProfileOK DEF IInv
  <2>3. CASE (SlowFails(c) \/ ProfilerFails(c)) /\ PartlyReset(job[c].conn)
    <3> DEFINE o == job[c].conn
    <3>1. o \in Conn
      BY <1>1, <2>3 DEF IInv, JobsOK, CallOK, JobOK, SlowFails, ProfilerFails, Holding
    <3>2. /\ session[o] \in [on : BOOLEAN, history : Seq(Call \X Nat)]
          /\ session[o].on \in BOOLEAN
          /\ Len(session[o].history) <= Window /\ SessionsOK
      BY <3>1 DEF IInv, SessionsOK
    <3>3. PICK s \in {session[o], [on |-> session[o].on, history |-> <<>>],
                      [on |-> FALSE, history |-> <<>>]} :
             session' = [session EXCEPT ![o] = s]
      BY <2>3 DEF PartlyReset
    <3>4. Len(<<>>) = 0 /\ 0 <= Window /\ <<>> \in Seq(Call \X Nat)
      BY ExecutionAssumption
    <3>5. s \in [on : BOOLEAN, history : Seq(Call \X Nat)] /\ Len(s.history) <= Window
      <4>1. CASE s = session[o]
        BY <3>2, <4>1
      <4>2. CASE s = [on |-> session[o].on, history |-> <<>>]
        BY <3>2, <3>4, <4>2
      <4>3. CASE s = [on |-> FALSE, history |-> <<>>]
        BY <3>4, <4>3
      <4> QED
        BY <4>1, <4>2, <4>3
    <3> HIDE DEF o
    <3> QED
      BY <3>1, <3>2, <3>3, <3>5, ResetOK
  <2> QED
    BY <2>1, <2>2, <2>3 DEF AcquireFails, SlowFails, ProfilerFails
<1> QED
  BY <1>1, <1>2, <1>3 DEF IInv

LEMMA ProfilerSetStep ==
    ASSUME IInv, NEW c \in Call, ProfilerSet(c)
    PROVE  IInv'
<1> DEFINE j == job[c]
           k == [j EXCEPT !.pc = "statement", !.profiled = TRUE]
<1>1. /\ JobsOK /\ PoolOK /\ SessionsOK
      /\ CallOK(c, j) /\ JobOK(c, j) /\ RanOK(j) /\ ProgressOK(j)
      /\ j.pc = "setup" /\ Becomes(c, k)
      /\ queue' = queue /\ running' = running /\ debug' = debug /\ changes' = changes
      /\ session' = [session EXCEPT ![j.conn] = [on |-> TRUE, history |-> <<>>]]
  BY DEF IInv, JobsOK, CallOK, ProfilerSet
<1>2. j.slow /\ j.conn \in Conn /\ Parse(j.req).ok /\ ~Given(j)
  BY <1>1 DEF JobOK, Holding
<1>3. \A i : ~Pends(c, i)
  BY <1>1, <1>2, SlowHasNoItems
<1> HIDE DEF j
<1>4. /\ DOMAIN k = DOMAIN NewJob /\ k.req = j.req /\ k.sets = j.sets
      /\ k.slow = j.slow /\ k.at = j.at /\ k.conn = j.conn
      /\ k.pc = "statement" /\ k.executed = j.executed /\ k.answer = j.answer
  BY <1>1, NewJobIs DEF JobOK
<1>5. k.profiled \in BOOLEAN
  BY <1>1, NewJobIs DEF JobOK
<1> HIDE DEF k
<1>6. CallOK(c, k)
  <2>1. ~Given(k) /\ j.at \in 1..Count(j)
    BY <1>1, <1>2, <1>4 DEF JobOK, Given
  <2>2. Len(k.executed) = k.at - 1
    BY <1>1, <1>4 DEF ProgressOK
  <2>3. RanOK(k)
    BY <1>1, <1>4, RanKept
  <2>4. k.conn # NoConn /\ k.pc \in Holding
    BY <1>2, <1>4, ExecutionAssumption DEF Holding
  <2> QED
    BY <1>1, <1>2, <1>4, <1>5, <2>1, <2>2, <2>3, <2>4, SlowOK
<1>7. JobsOK' /\ PoolOK'
  BY <1>1, <1>3, <1>4, <1>6, HolderStep DEF j
<1>8. SessionsOK'
  <2> DEFINE s == [on |-> TRUE, history |-> <<>>]
  <2>1. Len(s.history) = 0 /\ s \in [on : BOOLEAN, history : Seq(Call \X Nat)]
    OBVIOUS
  <2>2. Len(s.history) <= Window
    BY <2>1, ExecutionAssumption
  <2>3. session' = [session EXCEPT ![j.conn] = s]
    BY <1>1
  <2> HIDE DEF s
  <2> QED
    BY <1>1, <1>2, <2>1, <2>2, <2>3, ResetOK
<1> QED
  BY <1>1, <1>7, <1>8 DEF IInv

\* After a statement and what is logged of it: the next set, or the answer.
GoesOn(j, k) ==
    IF j.at = Count(j)
    THEN k.pc = "done" /\ k.conn = NoConn /\ k.at = j.at
    ELSE k.pc = "statement" /\ k.conn = j.conn /\ k.at = j.at + 1 /\ k.answer = j.answer

LEMMA ContinueIs ==
    ASSUME NEW j, DOMAIN j = DOMAIN NewJob, j.at \in Nat, Count(j) \in Nat
    PROVE  LET k == Continue(j) IN
           /\ DOMAIN k = DOMAIN NewJob /\ k.req = j.req /\ k.sets = j.sets
           /\ k.slow = j.slow /\ k.profiled = j.profiled
           /\ k.executed = j.executed /\ k.logged = j.logged
           /\ GoesOn(j, k)
<1> USE DEF GoesOn
<1> DEFINE a == SlowResult(j)
           d == [j EXCEPT !.pc = "done", !.conn = NoConn, !.answer = a]
           n == [j EXCEPT !.pc = "statement", !.at = @ + 1]
<1>1. Continue(j) = IF j.at = Count(j) THEN d ELSE n
  BY DEF Continue, IsLast
<1> HIDE DEF a
<1>2. /\ DOMAIN d = DOMAIN NewJob /\ d.req = j.req /\ d.sets = j.sets
      /\ d.slow = j.slow /\ d.profiled = j.profiled
      /\ d.executed = j.executed /\ d.logged = j.logged
      /\ d.pc = "done" /\ d.conn = NoConn /\ d.at = j.at
  BY NewJobIs
<1>3. /\ DOMAIN n = DOMAIN NewJob /\ n.req = j.req /\ n.sets = j.sets
      /\ n.slow = j.slow /\ n.profiled = j.profiled
      /\ n.executed = j.executed /\ n.logged = j.logged
      /\ n.pc = "statement" /\ n.conn = j.conn /\ n.at = j.at + 1
      /\ n.answer = j.answer
  BY NewJobIs
<1> HIDE DEF d, n
<1>4. CASE j.at = Count(j)
  BY <1>1, <1>2, <1>4
<1>5. CASE j.at # Count(j)
  BY <1>1, <1>3, <1>5
<1> QED
  BY <1>4, <1>5

\* What a statement on the call's own connection makes of the call: it waits
\* for the profiler, goes on, or is answered.
Waits(j, k) == k.conn = j.conn /\ k.at = j.at /\ k.answer = j.answer
StatementOf(c, j, k) ==
    /\ DOMAIN k = DOMAIN NewJob /\ k.req = j.req /\ k.sets = j.sets
    /\ k.slow = j.slow /\ k.profiled = j.profiled
    /\ k.executed = Append(j.executed, Execution(j, j.at))
    /\ \/ /\ j.req.via = "query"
          /\ k.pc = "probe" /\ Waits(j, k) /\ k.logged = j.logged
       \/ /\ j.req.via = "execute" /\ j.profiled /\ FlushDue(j)
          /\ k.pc = "flush" /\ Waits(j, k) /\ k.logged = j.logged
       \/ /\ j.req.via = "execute" /\ j.profiled /\ ~FlushDue(j)
          /\ GoesOn(j, k) /\ k.logged = j.logged
       \/ /\ j.req.via = "execute" /\ ~j.profiled
          /\ GoesOn(j, k) /\ k.logged = Append(j.logged, Clock(c, j.at))

LEMMA StatementIs ==
    ASSUME NEW c \in Call, JobOK(c, job[c]), StatementDone(c)
    PROVE  \E k : Becomes(c, k) /\ StatementOf(c, job[c], k)
<1> DEFINE j == job[c]
           e == Execution(j, j.at)
           got == ResultsWith(j, {j.at})
           more == Pushed(j, ResultOf(j, j.at))
           j2 == [j EXCEPT !.executed = Append(@, e), !.results = got]
           j3 == [j2 EXCEPT !.response = @ \o more]
           j4 == [j3 EXCEPT !.logged = Append(@, Clock(c, j.at))]
<1>1. /\ DOMAIN j = DOMAIN NewJob /\ j.at \in Nat /\ Count(j) \in Nat
  BY SetsAre DEF JobOK
<1>2. \/ /\ j.req.via = "query"
         /\ Becomes(c, [j2 EXCEPT !.pc = "probe"])
      \/ /\ j.req.via = "execute" /\ j.profiled /\ FlushDue(j)
         /\ Becomes(c, [j3 EXCEPT !.pc = "flush"])
      \/ /\ j.req.via = "execute" /\ j.profiled /\ ~FlushDue(j)
         /\ Becomes(c, Continue(j3))
      \/ /\ j.req.via = "execute" /\ ~j.profiled
         /\ Becomes(c, Continue(j4))
  BY DEF StatementDone
<1> HIDE DEF j, e, got, more
<1>3. /\ DOMAIN j2 = DOMAIN NewJob /\ j2.req = j.req /\ j2.sets = j.sets
      /\ j2.slow = j.slow /\ j2.profiled = j.profiled /\ j2.at = j.at /\ j2.conn = j.conn
      /\ j2.answer = j.answer /\ j2.executed = Append(j.executed, e)
      /\ j2.logged = j.logged
  BY <1>1, NewJobIs
<1> HIDE DEF j2
<1>4. /\ DOMAIN j3 = DOMAIN NewJob /\ j3.req = j.req /\ j3.sets = j.sets
      /\ j3.slow = j.slow /\ j3.profiled = j.profiled /\ j3.at = j.at /\ j3.conn = j.conn
      /\ j3.answer = j.answer /\ j3.executed = Append(j.executed, e)
      /\ j3.logged = j.logged
  BY <1>3, NewJobIs
<1> HIDE DEF j3
<1>5. /\ DOMAIN j4 = DOMAIN NewJob /\ j4.req = j.req /\ j4.sets = j.sets
      /\ j4.slow = j.slow /\ j4.profiled = j.profiled /\ j4.at = j.at /\ j4.conn = j.conn
      /\ j4.answer = j.answer /\ j4.executed = Append(j.executed, e)
      /\ j4.logged = Append(j.logged, Clock(c, j.at))
  BY <1>4, NewJobIs
<1> HIDE DEF j4
<1>6. Count(j3) = Count(j) /\ Count(j4) = Count(j)
  BY <1>4, <1>5, AskDecides
<1>7. CASE /\ j.req.via = "query"
           /\ Becomes(c, [j2 EXCEPT !.pc = "probe"])
  <2> DEFINE k == [j2 EXCEPT !.pc = "probe"]
  <2>1. StatementOf(c, j, k)
    BY <1>3, <1>7, NewJobIs DEF StatementOf, Waits, e
  <2> QED
    BY <1>7, <2>1 DEF j
<1>8. CASE /\ j.req.via = "execute" /\ j.profiled /\ FlushDue(j)
           /\ Becomes(c, [j3 EXCEPT !.pc = "flush"])
  <2> DEFINE k == [j3 EXCEPT !.pc = "flush"]
  <2>1. StatementOf(c, j, k)
    BY <1>4, <1>8, NewJobIs DEF StatementOf, Waits, e
  <2> QED
    BY <1>8, <2>1 DEF j
<1>9. CASE /\ j.req.via = "execute" /\ j.profiled /\ ~FlushDue(j)
           /\ Becomes(c, Continue(j3))
  <2> DEFINE k == Continue(j3)
  <2>1. /\ DOMAIN k = DOMAIN NewJob /\ k.req = j3.req /\ k.sets = j3.sets
        /\ k.slow = j3.slow /\ k.profiled = j3.profiled
        /\ k.executed = j3.executed /\ k.logged = j3.logged /\ GoesOn(j3, k)
    BY <1>1, <1>4, <1>6, ContinueIs
  <2> HIDE DEF k
  <2>2. GoesOn(j, k)
    BY <1>4, <1>6, <2>1 DEF GoesOn
  <2>3. StatementOf(c, j, k)
    BY <1>4, <1>9, <2>1, <2>2 DEF StatementOf, e
  <2> QED
    BY <1>9, <2>3 DEF j, k
<1>10. CASE /\ j.req.via = "execute" /\ ~j.profiled
            /\ Becomes(c, Continue(j4))
  <2> DEFINE k == Continue(j4)
  <2>1. /\ DOMAIN k = DOMAIN NewJob /\ k.req = j4.req /\ k.sets = j4.sets
        /\ k.slow = j4.slow /\ k.profiled = j4.profiled
        /\ k.executed = j4.executed /\ k.logged = j4.logged /\ GoesOn(j4, k)
    BY <1>1, <1>5, <1>6, ContinueIs
  <2> HIDE DEF k
  <2>2. GoesOn(j, k)
    BY <1>5, <1>6, <2>1 DEF GoesOn
  <2>3. StatementOf(c, j, k)
    BY <1>5, <1>10, <2>1, <2>2 DEF StatementOf, e
  <2> QED
    BY <1>10, <2>3 DEF j, k
<1> QED
  BY <1>2, <1>7, <1>8, <1>9, <1>10

LEMMA StatementStep ==
    ASSUME IInv, NEW c \in Call, StatementDone(c)
    PROVE  IInv'
<1> DEFINE j == job[c]
<1>1. /\ JobsOK /\ PoolOK /\ SessionsOK
      /\ CallOK(c, j) /\ JobOK(c, j) /\ RanOK(j) /\ ProgressOK(j)
      /\ j.pc = "statement" /\ Sendable(j, j.at) /\ Profile(j.conn, <<c, j.at>>)
      /\ queue' = queue /\ running' = running /\ debug' = debug /\ changes' = changes
  BY DEF IInv, JobsOK, CallOK, StatementDone
<1>2. /\ j.slow /\ j.conn \in Conn /\ Parse(j.req).ok /\ ~Given(j)
      /\ j.at \in 1..Count(j) /\ Count(j) \in Nat \ {0} /\ j.profiled \in BOOLEAN
  BY <1>1, SetsAre DEF JobOK, Holding
<1>3. \A i : ~Pends(c, i)
  BY <1>1, <1>2, SlowHasNoItems
<1>4. PICK k : Becomes(c, k) /\ StatementOf(c, j, k)
  BY <1>1, StatementIs
<1>5. j.req.via = "query" => j.at = Count(j)
  BY <1>1, <1>2, QueryHasOneSet
<1> HIDE DEF j
<1>6. CallOK(c, k)
  <2>1. RanOK(k) /\ Len(k.executed) = j.at
    BY <1>1, <1>2, <1>4, NextSetRuns DEF StatementOf
  <2>2. /\ k.at \in 1..Count(j)
        /\ k.pc \in {"probe", "flush", "statement", "done"}
        /\ k.pc = "statement" => k.at = j.at + 1
        /\ k.pc # "statement" => k.at = j.at
        /\ k.pc \in {"probe", "done"} => k.at = Count(j)
    BY <1>2, <1>4, <1>5 DEF StatementOf, Waits, GoesOn, FlushDue, IsLast
  <2>3. /\ k.pc # "done" => k.answer = j.answer
        /\ k.conn = IF k.pc = "done" THEN NoConn ELSE j.conn
    BY <1>4 DEF StatementOf, Waits, GoesOn
  <2>4. j.conn # NoConn
    BY <1>2, ExecutionAssumption
  <2>5. /\ k.conn # NoConn <=> k.pc \in Holding
        /\ k.conn \in Conn \cup {NoConn}
        /\ k.pc \in Holding \cup {"done"} /\ k.pc # "setup"
    BY <1>2, <2>2, <2>3, <2>4 DEF Holding
  <2>6. k.pc # "done" => ~Given(k)
    BY <1>2, <2>3 DEF Given
  <2>7. /\ k.pc \in {"setup", "statement"} => Len(k.executed) = k.at - 1
        /\ k.pc \in {"probe", "flush"} => Len(k.executed) = k.at
        /\ k.pc = "done" => Len(k.executed) = Count(j)
    BY <1>2, <2>1, <2>2
  <2>8. /\ DOMAIN k = DOMAIN NewJob /\ k.req = j.req /\ k.sets = j.sets
        /\ k.slow = j.slow /\ k.profiled \in BOOLEAN
    BY <1>2, <1>4 DEF StatementOf
  <2> QED
    BY <1>1, <1>2, <2>1, <2>2, <2>5, <2>6, <2>7, <2>8, SlowOK
<1>7. k.conn \in {j.conn, NoConn}
  BY <1>4 DEF StatementOf, Waits, GoesOn
<1>8. JobsOK' /\ PoolOK'
  BY <1>1, <1>3, <1>4, <1>6, <1>7, HolderStep DEF j
<1>9. SessionsOK'
  <2>1. <<c, j.at>> \in Call \X Nat
    BY <1>2
  <2> QED
    BY <1>1, <1>2, <2>1, ProfileOK
<1> QED
  BY <1>1, <1>8, <1>9 DEF IInv

LEMMA FlushStep ==
    ASSUME IInv, NEW c \in Call, FlushDone(c)
    PROVE  IInv'
<1> DEFINE j == job[c]
           h == session[j.conn].history
           offset == IF j.at - 1 < Window THEN 0 ELSE j.at - 1
           more == j.logged \o [n \in DOMAIN h |-> Entry(offset + n, <<h[n]>>)]
           e == [j EXCEPT !.logged = more]
           k == Continue(e)
<1>1. /\ JobsOK /\ PoolOK /\ SessionsOK
      /\ CallOK(c, j) /\ JobOK(c, j) /\ RanOK(j) /\ ProgressOK(j)
      /\ j.pc = "flush" /\ Becomes(c, k)
      /\ queue' = queue /\ running' = running /\ debug' = debug /\ changes' = changes
      /\ session' = [session EXCEPT ![j.conn] = [on |-> TRUE, history |-> <<>>]]
  BY DEF IInv, JobsOK, CallOK, FlushDone
<1>2. /\ j.slow /\ j.conn \in Conn /\ Parse(j.req).ok /\ ~Given(j)
      /\ j.at \in 1..Count(j) /\ Count(j) \in Nat \ {0} /\ j.profiled \in BOOLEAN
      /\ DOMAIN j = DOMAIN NewJob
  BY <1>1, SetsAre DEF JobOK, Holding
<1>3. \A i : ~Pends(c, i)
  BY <1>1, <1>2, SlowHasNoItems
<1> HIDE DEF j, more
<1>4. /\ DOMAIN e = DOMAIN NewJob /\ e.req = j.req /\ e.sets = j.sets
      /\ e.slow = j.slow /\ e.profiled = j.profiled /\ e.at = j.at /\ e.conn = j.conn
      /\ e.answer = j.answer /\ e.executed = j.executed
  BY <1>2, NewJobIs
<1> HIDE DEF e
<1>5. Count(e) = Count(j)
  BY <1>4, AskDecides
<1>6. /\ DOMAIN k = DOMAIN NewJob /\ k.req = j.req /\ k.sets = j.sets
      /\ k.slow = j.slow /\ k.profiled = j.profiled /\ k.executed = j.executed
      /\ IF j.at = Count(j)
         THEN k.pc = "done" /\ k.conn = NoConn /\ k.at = j.at
         ELSE k.pc = "statement" /\ k.conn = j.conn /\ k.at = j.at + 1
              /\ k.answer = j.answer
  <2>1. e.at \in Nat /\ Count(e) \in Nat
    BY <1>2, <1>4, <1>5
  <2>2. /\ DOMAIN k = DOMAIN NewJob /\ k.req = e.req /\ k.sets = e.sets
        /\ k.slow = e.slow /\ k.profiled = e.profiled /\ k.executed = e.executed
        /\ GoesOn(e, k)
    BY <1>4, <2>1, ContinueIs
  <2> HIDE DEF k
  <2> QED
    BY <1>4, <1>5, <2>2 DEF GoesOn
<1> HIDE DEF k
<1>7. CallOK(c, k)
  <2>1. RanOK(k)
    BY <1>1, <1>6, RanKept
  <2>2. Len(j.executed) = j.at
    BY <1>1 DEF ProgressOK
  <2>3. k.at \in 1..Count(j) /\ k.pc \in {"statement", "done"}
    BY <1>2, <1>6
  <2>4. /\ k.pc = "statement" => Len(k.executed) = k.at - 1
        /\ k.pc = "done" => Len(k.executed) = Count(j)
    BY <1>2, <1>6, <2>2
  <2>5. /\ k.conn # NoConn <=> k.pc \in Holding
        /\ k.conn \in Conn \cup {NoConn}
        /\ k.pc \in Holding \cup {"done"} /\ k.pc \notin {"setup", "probe", "flush"}
    BY <1>2, <1>6, ExecutionAssumption DEF Holding
  <2>6. k.pc # "done" => ~Given(k)
    BY <1>2, <1>6 DEF Given
  <2> QED
    BY <1>1, <1>2, <1>6, <2>1, <2>3, <2>4, <2>5, <2>6, SlowOK
<1>8. k.conn \in {j.conn, NoConn}
  BY <1>6
<1>9. JobsOK' /\ PoolOK'
  BY <1>1, <1>3, <1>7, <1>8, HolderStep DEF j
<1>10. SessionsOK'
  <2> DEFINE s == [on |-> TRUE, history |-> <<>>]
  <2>1. Len(s.history) = 0 /\ s \in [on : BOOLEAN, history : Seq(Call \X Nat)]
    OBVIOUS
  <2>2. Len(s.history) <= Window
    BY <2>1, ExecutionAssumption
  <2>3. session' = [session EXCEPT ![j.conn] = s]
    BY <1>1
  <2> HIDE DEF s
  <2> QED
    BY <1>1, <1>2, <2>1, <2>2, <2>3, ResetOK
<1> QED
  BY <1>1, <1>9, <1>10 DEF IInv

LEMMA ProbeStep ==
    ASSUME IInv, NEW c \in Call, ProbeDone(c)
    PROVE  IInv'
<1> DEFINE j == job[c]
           more == Append(j.logged, Entry(1, session[j.conn].history))
           a == parseResponse(Type(j.req), j.results[1])
           k == [j EXCEPT !.pc = "done", !.conn = NoConn, !.logged = more, !.answer = a]
<1>1. /\ JobsOK /\ PoolOK /\ SessionsOK
      /\ CallOK(c, j) /\ JobOK(c, j) /\ RanOK(j) /\ ProgressOK(j)
      /\ j.pc = "probe" /\ Becomes(c, k) /\ Profile(j.conn, <<c, 0>>)
      /\ queue' = queue /\ running' = running /\ debug' = debug /\ changes' = changes
  BY DEF IInv, JobsOK, CallOK, ProbeDone
<1>2. /\ j.slow /\ j.conn \in Conn /\ Parse(j.req).ok
      /\ j.at \in 1..Count(j) /\ Count(j) \in Nat \ {0} /\ j.profiled \in BOOLEAN
      /\ DOMAIN j = DOMAIN NewJob
  BY <1>1, SetsAre DEF JobOK, Holding
<1>3. \A i : ~Pends(c, i)
  BY <1>1, <1>2, SlowHasNoItems
<1> HIDE DEF j, more, a
<1>4. /\ DOMAIN k = DOMAIN NewJob /\ k.req = j.req /\ k.sets = j.sets
      /\ k.slow = j.slow /\ k.profiled = j.profiled /\ k.at = j.at /\ k.conn = NoConn
      /\ k.pc = "done" /\ k.executed = j.executed
  BY <1>2, NewJobIs
<1> HIDE DEF k
<1>5. CallOK(c, k)
  <2>1. RanOK(k)
    BY <1>1, <1>4, RanKept
  <2>2. Len(k.executed) = Count(j)
    BY <1>1, <1>4 DEF ProgressOK
  <2>3. k.pc \notin Holding /\ k.pc \notin {"setup", "statement", "probe", "flush"}
    BY <1>4 DEF Holding
  <2> QED
    BY <1>1, <1>2, <1>4, <2>1, <2>2, <2>3, SlowOK
<1>6. JobsOK' /\ PoolOK'
  BY <1>1, <1>3, <1>4, <1>5, HolderStep DEF j
<1>7. SessionsOK'
  <2>1. <<c, 0>> \in Call \X Nat
    OBVIOUS
  <2> QED
    BY <1>1, <1>2, <2>1, ProfileOK
<1> QED
  BY <1>1, <1>6, <1>7 DEF IInv

LEMMA UpdateDebugStep ==
    ASSUME IInv, UpdateDebug
    PROVE  IInv'
<1>1. /\ job' = job /\ queue' = queue /\ running' = running /\ session' = session
      /\ debug' \in Settings /\ changes' \in 0..Changes
  BY ExecutionAssumption DEF IInv, UpdateDebug
<1> QED
  BY <1>1 DEF IInv, JobsOK, PoolOK, PendingOK, Pends, Exclusive, SessionsOK

LEMMA NextStep ==
    ASSUME IInv, [Next]_vars
    PROVE  IInv'
<1>1. /\ \A q \in queue : q[1] \in Call
      /\ \A w \in running : w[1] \in Call /\ w[3] \in Conn
  BY DEF IInv, PoolOK, Exclusive
<1>2. CASE \E c \in Call : \E r \in Request[c] : Enter(c, r)
  BY <1>2, EnterStep
<1>3. CASE \E q \in queue, k \in Conn : Lend(q[1], q[2], k)
  BY <1>1, <1>3, LendStep
<1>4. CASE \E q \in queue : NotLent(q[1], q[2])
  BY <1>1, <1>4, NotLentStep
<1>5. CASE \E w \in running : Done(w[1], w[2], w[3]) \/ Fails(w[1], w[2], w[3])
  BY <1>1, <1>5, DoneStep, FailsStep
<1>6. CASE \E c \in Call, k \in Conn : Acquire(c, k)
  BY <1>6, AcquireStep
<1>7. CASE \E c \in Call : \/ AcquireFails(c) \/ ProfilerSet(c) \/ ProfilerFails(c)
                           \/ StatementDone(c) \/ ProbeDone(c) \/ FlushDone(c)
                           \/ SlowFails(c)
  BY <1>7, ThrowSteps, ProfilerSetStep, StatementStep, ProbeStep, FlushStep
<1>8. CASE UpdateDebug
  BY <1>8, UpdateDebugStep
<1>9. CASE UNCHANGED vars
  BY <1>9 DEF vars, IInv, JobsOK, PoolOK, PendingOK, Pends, Exclusive, SessionsOK
<1> QED
  BY <1>2, <1>3, <1>4, <1>5, <1>6, <1>7, <1>8, <1>9 DEF Next

LEMMA Inductive == SafeSpec => []IInv
<1>1. Init => IInv
  BY InitIInv
<1>2. IInv /\ [Next]_vars => IInv'
  BY NextStep
<1> QED
  BY <1>1, <1>2, PTL DEF SafeSpec

-----------------------------------------------------------------------------
(* What follows *)

\* Every variable keeps its type: the locals of the handlers, the pool's
\* queue, and the sessions, whose history never outgrows the window.
THEOREM TypeCorrect == SafeSpec => []TypeOK
<1>1. IInv => TypeOK
  <2>1. SUFFICES ASSUME IInv PROVE TypeOK
    OBVIOUS
  <2>2. ASSUME NEW c \in Call
        PROVE  /\ DOMAIN job[c] = DOMAIN NewJob
               /\ job[c].pc \in Places
               /\ job[c].req \in Request[c] \cup {NoRequest}
               /\ job[c].conn \in Conn \cup {NoConn}
               /\ job[c].slow \in BOOLEAN /\ job[c].profiled \in BOOLEAN
               /\ job[c].at \in 1..Len(job[c].sets) + 1
    <3>1. JobOK(c, job[c])
      BY <2>1 DEF IInv, JobsOK, CallOK
    <3>2. Len(job[c].sets) \in Nat /\ job[c].at \in 1..Count(job[c])
      BY <3>1, SetsAre DEF JobOK
    <3>3. job[c].sets = <<>> => Len(job[c].sets) = 0
      OBVIOUS
    <3>4. job[c].at \in 1..Len(job[c].sets) + 1
      BY <3>2, <3>3 DEF Count
    <3> QED
      BY <3>1, <3>4, NewJobIs DEF JobOK
  <2> QED
    BY <2>1, <2>2 DEF IInv, JobsOK, PoolOK, Exclusive, SessionsOK, TypeOK
<1> QED
  BY <1>1, Inductive, PTL

\* Every statement the server executes carries the values its caller meant,
\* no set is executed twice, the sets of a write are executed in order, and a
\* call that is told a result had every set executed.
THEOREM RunsAsAsked == SafeSpec => []ExecutedAsAsked
<1>1. IInv => ExecutedAsAsked
  <2>1. SUFFICES ASSUME IInv, NEW c \in Call
                 PROVE  LET ran == job[c].executed IN
        /\ \A n \in DOMAIN ran : ran[n].bound = MeantSets(job[c].req)[ran[n].set]
        /\ \A m, n \in DOMAIN ran : ran[m].set = ran[n].set => m = n
        /\ ran # <<>> /\ IsWrite(job[c]) => \A n \in DOMAIN ran : ran[n].set = n
        /\ Told(c) => Len(ran) = Len(MeantSets(job[c].req))
    BY DEF ExecutedAsAsked
  <2> DEFINE j == job[c]
             ran == j.executed
             meant == MeantSets(j.req)
             n0 == Placeholders(j.req)
  <2>2. JobOK(c, j) /\ (j.pc # "idle" => RanOK(j) /\ ProgressOK(j))
    BY <2>1 DEF IInv, JobsOK, CallOK
  <2>3. Told(c) <=> Got(j)
    BY DEF Told, Got, Answered, Given
  <2>4. CASE j.pc = "idle" \/ ~Parse(j.req).ok
    <3>1. ran = <<>> /\ ~Got(j)
      BY <2>2, <2>4, NewJobIs DEF JobOK, Got, Given
    <3> QED
      BY <2>3, <3>1
  <2>5. CASE j.pc # "idle" /\ Parse(j.req).ok
    <3>1. j.req \in Request[c] /\ j.sets = Parse(j.req).sets /\ RanOK(j) /\ ProgressOK(j)
      BY <2>2, <2>5 DEF JobOK
    <3>2. BindAsMeant(j.sets, meant, n0)
      BY <2>5, <3>1, ParsedAsMeant
    <3>3. Len(meant) = Count(j) /\ IsSequence(j.sets)
      BY <3>2 DEF BindAsMeant, Count
    <3>4. n0 \in Nat
      BY <3>1, ExecutionAssumption, SequenceIs DEF Placeholders
    <3>5. ran \in Seq(Executions(j))
      BY <3>1 DEF RanOK
    <3>6. ASSUME NEW n \in DOMAIN ran PROVE ran[n].bound = meant[ran[n].set]
      <4> DEFINE i == ran[n].set
      <4>1. ran[n] \in Executions(j)
        BY <3>5
      <4>2. i \in 1..Count(j) /\ ran[n] = Execution(j, i) /\ Sendable(j, i)
        BY <4>1, ExecutionsAre
      <4>3. ran[n].bound = Bound(SetAt(j, i), n0)
        BY <4>2 DEF Execution
      <4> HIDE DEF i, ran, meant, n0
      <4>4. CASE j.sets # <<>>
        <5>1. i \in 1..Len(j.sets) /\ SetAt(j, i) = j.sets[i]
          BY <3>3, <4>2, <4>4, SequenceIs DEF Count, SetAt
        <5> QED
          BY <3>2, <4>3, <5>1 DEF BindAsMeant, i
      <4>5. CASE j.sets = <<>>
        <5>1. i = 1 /\ Len(j.sets) = 0 /\ SetAt(j, i) = <<>>
          BY <4>2, <4>5 DEF Count, SetAt
        <5>2. n0 = 0
          BY <3>4, <4>2, <5>1 DEF Sendable, Binds, n0
        <5> QED
          BY <3>2, <4>3, <4>5, <5>1, <5>2 DEF BindAsMeant, i
      <4> QED
        BY <4>4, <4>5
    <3>7. /\ \A m, n \in DOMAIN ran : ran[m].set = ran[n].set => m = n
          /\ ran # <<>> /\ IsWrite(j) => \A n \in DOMAIN ran : ran[n].set = n
      BY <3>1 DEF RanOK, InOneGo
    <3>8. Told(c) => Len(ran) = Len(meant)
      BY <2>3, <3>1, <3>3 DEF ProgressOK
    <3> QED
      BY <3>6, <3>7, <3>8
  <2> QED
    BY <2>4, <2>5
<1> QED
  BY <1>1, Inductive, PTL

\* Once a call has its answer nothing more is executed for it, unless it is a
\* SELECT, or what executeType takes for one, of several sets.
THEOREM NothingRunsAfterwards == SafeSpec => NothingAfterAnswer
<1> DEFINE Kept == \A c \in Call : Answered(c) /\ (IsWrite(job[c]) \/ Count(job[c]) = 1)
                      => job'[c].executed = job[c].executed
<1>1. IInv /\ [Next]_vars => Kept
  <2>1. SUFFICES ASSUME IInv, [Next]_vars, NEW c \in Call, Given(job[c]), InOneGo(job[c])
                 PROVE  job'[c].executed = job[c].executed
    BY DEF Answered, Given, InOneGo
  <2>2. JobsOK /\ PoolOK /\ DOMAIN job = Call
    BY <2>1 DEF IInv, JobsOK
  <2>3. job[c].pc = "done"
    BY <2>1, <2>2 DEF JobsOK, CallOK, JobOK
  <2>4. \A i : ~Pends(c, i)
    BY <2>1, <2>2 DEF PoolOK, PendingOK
  <2>5. /\ \A q \in queue : q = <<q[1], q[2]>> /\ q[1] # c
        /\ \A w \in running : w[1] # c
    <3>1. ASSUME NEW q \in queue PROVE q = <<q[1], q[2]>> /\ q[1] # c
      <4>1. q = <<q[1], q[2]>>
        BY <2>2 DEF PoolOK, Exclusive
      <4> QED
        BY <2>4, <4>1 DEF Pends
    <3>2. ASSUME NEW w \in running PROVE w[1] # c
      <4>1. w = <<w[1], w[2], w[3]>> /\ w[3] \in Conn
        BY <2>2 DEF PoolOK, Exclusive
      <4> QED
        BY <2>4, <4>1 DEF Pends
    <3> QED
      BY <3>1, <3>2
  <2>6. \A d, k : d # c /\ Becomes(d, k) => job'[c] = job[c]
    BY <2>2 DEF Becomes
  <2>7. CASE \E d \in Call : \E r \in Request[d] : Enter(d, r)
    BY <2>3, <2>6, <2>7 DEF Enter
  <2>8. CASE \E q \in queue, k \in Conn : Lend(q[1], q[2], k)
    BY <2>8 DEF Lend
  <2>9. CASE \E q \in queue : NotLent(q[1], q[2])
    BY <2>5, <2>6, <2>9 DEF NotLent, Throw
  <2>10. CASE \E w \in running : Done(w[1], w[2], w[3]) \/ Fails(w[1], w[2], w[3])
    <3>1. PICK w \in running : Done(w[1], w[2], w[3]) \/ Fails(w[1], w[2], w[3])
      BY <2>10
    <3>2. \E k : Becomes(w[1], k)
      <4>1. CASE Done(w[1], w[2], w[3])
        BY <4>1, Zenon DEF Done
      <4>2. CASE Fails(w[1], w[2], w[3])
        BY <4>2, Zenon DEF Fails
      <4> QED
        BY <3>1, <4>1, <4>2
    <3> QED
      BY <2>5, <2>6, <3>2
  <2>11. CASE \E d \in Call, k \in Conn : Acquire(d, k)
    BY <2>3, <2>6, <2>11 DEF Acquire
  <2>12. CASE \E d \in Call : \/ AcquireFails(d) \/ ProfilerSet(d) \/ ProfilerFails(d)
                              \/ StatementDone(d) \/ ProbeDone(d) \/ FlushDone(d)
                              \/ SlowFails(d)
    <3>1. PICK d \in Call : \/ AcquireFails(d) \/ ProfilerSet(d) \/ ProfilerFails(d)
                            \/ StatementDone(d) \/ ProbeDone(d) \/ FlushDone(d)
                            \/ SlowFails(d)
      BY <2>12
    <3>2. job[d].pc # "done"
      BY <3>1 DEF AcquireFails, ProfilerSet, ProfilerFails, StatementDone, ProbeDone,
                  FlushDone, SlowFails
    <3>3. \E k : Becomes(d, k)
      BY <3>1, Zenon DEF AcquireFails, ProfilerSet, ProfilerFails, StatementDone, ProbeDone,
                         FlushDone, SlowFails, Throw
    <3> QED
      BY <2>3, <2>6, <3>2, <3>3
  <2>13. CASE UpdateDebug \/ UNCHANGED vars
    BY <2>13 DEF UpdateDebug, vars
  <2> QED
    BY <2>1, <2>7, <2>8, <2>9, <2>10, <2>11, <2>12, <2>13 DEF Next
<1>2. SafeSpec => [][Kept]_vars
  BY <1>1, Inductive, PTL DEF SafeSpec
<1> QED
  BY <1>2, PTL DEF NothingAfterAnswer, Kept

-----------------------------------------------------------------------------
(* What is logged *)

\* The entries of a call that has executed m statements, and what it leaves in
\* the history of a session that was emptied for it.
Entries(c, m) == [n \in 1..m |-> Entry(n, <<<<c, n>>>>)]
Statements(c, m) == [n \in 1..m |-> <<c, n>>]

\* A profiled call that fits the window logs nothing before its last statement.
Fits(j) == j.profiled /\ Count(j) <= Window
LogsOwn(j) == /\ j.slow
              /\ j.req.via = "query" => j.profiled
              /\ j.profiled => Count(j) <= Window
LoggedOK(c, j) ==
    /\ j.pc \in {"acquire", "setup"} => j.logged = <<>> /\ ~j.profiled
    /\ j.pc = "statement" /\ ~j.profiled /\ j.req.via = "execute" =>
          j.logged = Entries(c, j.at - 1)
    /\ j.pc = "flush" => j.profiled /\ j.req.via = "execute"
    /\ j.pc = "probe" => j.req.via = "query"
    /\ Fits(j) /\ j.pc \in {"statement", "flush", "probe"} => j.logged = <<>>
    /\ Fits(j) /\ j.pc \in {"flush", "probe"} => j.at = Count(j)
    /\ Got(j) /\ LogsOwn(j) => j.logged = Entries(c, Count(j))

\* Its session has its statements, and no other's.
HistoryOK(c) ==
    LET j == job[c] IN
    Fits(j) /\ j.pc \in {"statement", "flush", "probe"} =>
        /\ session[j.conn].on
        /\ session[j.conn].history =
              Statements(c, IF j.pc = "statement" THEN j.at - 1 ELSE j.at)

LInv == \A c \in Call : LoggedOK(c, job[c]) /\ HistoryOK(c)

LEMMA NoEntries ==
    ASSUME NEW c
    PROVE  Entries(c, 0) = <<>> /\ Statements(c, 0) = <<>> /\ Entries(c, 1 - 1) = <<>>
<1>1. 1..0 = {} /\ 1 - 1 = 0
  OBVIOUS
<1> QED
  BY <1>1 DEF Entries, Statements

LEMMA OneMore ==
    ASSUME NEW c \in Call, NEW m \in Nat
    PROVE  /\ Append(Entries(c, m), Clock(c, m + 1)) = Entries(c, m + 1)
           /\ Append(Statements(c, m), <<c, m + 1>>) = Statements(c, m + 1)
           /\ Len(Append(Statements(c, m), <<c, m + 1>>)) = m + 1
<1> DEFINE E == {Entry(n, <<<<c, n>>>>) : n \in Nat}
           S == Call \X Nat
           e == Clock(c, m + 1)
           s == <<c, m + 1>>
<1>1. e = Entry(m + 1, <<<<c, m + 1>>>>) /\ e \in E /\ s \in S
  BY DEF Clock
<1>2. \A n \in Nat : Entry(n, <<<<c, n>>>>) \in E /\ <<c, n>> \in S
  OBVIOUS
<1> HIDE DEF E, S, e, s
<1>3. Entries(c, m) \in Seq(E) /\ Len(Entries(c, m)) = m
  BY <1>2 DEF Entries
<1>4. Statements(c, m) \in Seq(S) /\ Len(Statements(c, m)) = m
  <2> DEFINE f == Statements(c, m)
  <2>1. f = [n \in 1..m |-> f[n]] /\ \A n \in 1..m : f[n] = <<c, n>>
    BY Zenon DEF Statements
  <2>2. ASSUME NEW n \in 1..m PROVE f[n] \in S
    <3>1. n \in Nat
      OBVIOUS
    <3> QED
      BY <1>2, <2>1, <3>1, Zenon
  <2> HIDE DEF f
  <2> QED
    BY <2>1, <2>2 DEF f
<1> DEFINE a == Append(Entries(c, m), e)
           b == Append(Statements(c, m), s)
<1>5. /\ a \in Seq(E) /\ Len(a) = m + 1
      /\ \A n \in 1..m : a[n] = Entries(c, m)[n]
      /\ a[m + 1] = e
  BY <1>1, <1>3
<1>6. /\ b \in Seq(S) /\ Len(b) = m + 1
      /\ \A n \in 1..m : b[n] = Statements(c, m)[n]
      /\ b[m + 1] = s
  BY <1>1, <1>4
<1> HIDE DEF a, b
<1>7. a = [n \in 1..m + 1 |-> a[n]] /\ b = [n \in 1..m + 1 |-> b[n]]
  BY <1>5, <1>6
<1>8. \A n \in 1..m + 1 : n \in 1..m \/ n = m + 1
  OBVIOUS
<1>9. \A n \in 1..m + 1 : a[n] = Entry(n, <<<<c, n>>>>)
  BY <1>1, <1>5, <1>8 DEF Entries
<1>10. \A n \in 1..m + 1 : b[n] = <<c, n>>
  BY <1>6, <1>8 DEF Statements, s
<1>11. a = Entries(c, m + 1) /\ b = Statements(c, m + 1)
  BY <1>7, <1>9, <1>10 DEF Entries, Statements
<1> QED
  BY <1>6, <1>11 DEF a, b, e, s

\* A call that is over and was not told a result, or never held a connection,
\* owes the log nothing.
LEMMA OweNothing ==
    ASSUME NEW c, NEW j, j.pc \in {"fast", "done"}, ~Got(j) \/ ~j.slow
    PROVE  LoggedOK(c, j)
BY DEF LoggedOK, LogsOwn

\* The others keep their logs, and the histories of the sessions they hold.
LEMMA LogStep ==
    ASSUME IInv, LInv, NEW c \in Call,
           \A d \in Call : d # c => job'[d] = job[d],
           \A o \in Conn : session'[o] = session[o] \/ \A d \in Call : d # c => job[d].conn # o,
           LoggedOK(c, job'[c]), HistoryOK(c)'
    PROVE  LInv'
<1>1. ASSUME NEW d \in Call, d # c PROVE LoggedOK(d, job'[d]) /\ HistoryOK(d)'
  <2>1. job'[d] = job[d] /\ LoggedOK(d, job[d]) /\ HistoryOK(d)
    BY <1>1 DEF LInv
  <2>2. job[d].pc \in Holding => job[d].conn \in Conn
    BY DEF IInv, JobsOK, CallOK, JobOK
  <2>3. job[d].pc \in Holding => session'[job[d].conn] = session[job[d].conn]
    BY <1>1, <2>2
  <2>4. HistoryOK(d)'
    BY <2>1, <2>3 DEF HistoryOK, Holding
  <2> QED
    BY <2>1, <2>4
<1> QED
  BY <1>1 DEF LInv

\* A step after which the call has nothing to answer for.
LEMMA OverStep ==
    ASSUME IInv, LInv, NEW c \in Call, NEW k, Becomes(c, k),
           k.pc \in {"fast", "done"}, ~Got(k) \/ ~k.slow,
           \A o \in Conn : session'[o] = session[o] \/ \A d \in Call : d # c => job[d].conn # o
    PROVE  LInv'
<1>1. job'[c] = k /\ \A d \in Call : d # c => job'[d] = job[d]
  BY DEF Becomes, IInv, JobsOK
<1>2. LoggedOK(c, job'[c])
  BY <1>1, OweNothing
<1>3. HistoryOK(c)'
  BY <1>1 DEF HistoryOK
<1> QED
  BY <1>1, <1>2, <1>3, LogStep

LEMMA PoolLogs ==
    ASSUME IInv, LInv, NEW c \in Call, NEW item, NEW o \in Conn,
           Done(c, item, o) \/ Fails(c, item, o)
    PROVE  LInv'
<1> DEFINE j == job[c]
<1>1. JobsOK /\ PoolOK /\ Exclusive
  BY DEF IInv, PoolOK
<1>2. <<c, item, o>> \in running /\ Pends(c, item)
  BY DEF Done, Fails, Pends
<1>3. /\ CallOK(c, j) /\ j.pc \in {"fast", "done"} /\ ~j.slow /\ DOMAIN j = DOMAIN NewJob
  BY <1>1, <1>2, ItemIs DEF CallOK, JobOK
<1>4. \A d \in Call : job[d].conn # o
  <2>1. <<c, item, o>>[3] = o
    OBVIOUS
  <2> QED
    BY <1>1, <1>2, <2>1 DEF Exclusive
<1>5. \A q \in Conn : session'[q] = session[q] \/ \A d \in Call : d # c => job[d].conn # q
  <2>1. \A q \in Conn : q # o => session'[q] = session[q]
    BY DEF Done, Fails, Profile, IInv, SessionsOK
  <2> QED
    BY <1>4, <2>1
<1>6. \E k : Becomes(c, k) /\ k.pc \in {"fast", "done"} /\ k.slow = j.slow
  <2>1. CASE Done(c, item, o)
    <3> DEFINE more == [n \in DOMAIN SetsOf(j, item) |-> Execution(j, SetsOf(j, item)[n])]
               got == ResultsWith(j, Range(SetsOf(j, item)))
               e == [j EXCEPT !.executed = @ \o more, !.results = got]
               a == FastResult(e)
               f == [e EXCEPT !.pc = "done", !.logged = Append(@, Clock(c, 0)), !.answer = a]
    <3>1. Becomes(c, e) \/ Becomes(c, f)
      BY <2>1 DEF Done
    <3> HIDE DEF j, more, got, a
    <3>2. e.pc = j.pc /\ e.slow = j.slow /\ DOMAIN e = DOMAIN NewJob
      BY <1>3, NewJobIs
    <3> HIDE DEF e
    <3>3. f.pc = "done" /\ f.slow = j.slow
      BY <3>2, NewJobIs
    <3> HIDE DEF f
    <3> QED
      BY <1>3, <3>1, <3>2, <3>3
  <2>2. CASE Fails(c, item, o)
    <3>1. PICK m : Becomes(c, [j EXCEPT !.executed = @ \o [i \in 1..m |-> Execution(j, i)],
                                        !.pc = "done",
                                        !.answer = IF Answered(c) THEN @ ELSE Failure])
      BY <2>2 DEF Fails
    <3> DEFINE k == [j EXCEPT !.executed = @ \o [i \in 1..m |-> Execution(j, i)],
                              !.pc = "done",
                              !.answer = IF Answered(c) THEN @ ELSE Failure]
    <3> HIDE DEF j
    <3>2. k.pc = "done" /\ k.slow = j.slow
      BY <1>3, NewJobIs
    <3> QED
      BY <3>1, <3>2
  <2> QED
    BY <2>1, <2>2
<1>7. PICK k : Becomes(c, k) /\ k.pc \in {"fast", "done"} /\ k.slow = j.slow
  BY <1>6
<1>8. ~k.slow
  BY <1>3, <1>7
<1> QED
  BY <1>5, <1>7, <1>8, OverStep

LEMMA ThrowLogs ==
    ASSUME IInv, LInv, NEW c \in Call, Throw(c), job[c].pc # "idle", Parse(job[c].req).ok,
           job[c].pc # "done" \/ ~job[c].slow,
           \A o \in Conn : session'[o] = session[o] \/ o = job[c].conn
    PROVE  LInv'
<1> DEFINE j == job[c]
           k == Thrown(j)
<1>1. CallOK(c, j)
  BY DEF IInv, JobsOK
<1>2. Becomes(c, k)
  BY DEF Throw, Thrown, Answered, Given
<1>3. ~Got(j) \/ ~j.slow
  BY <1>1 DEF CallOK, JobOK, Got
<1>4. \A o \in Conn : session'[o] = session[o] \/ \A d \in Call : d # c => job[d].conn # o
  <2>1. ASSUME NEW o \in Conn, o = job[c].conn, NEW d \in Call, d # c PROVE job[d].conn # o
    BY <2>1, ExecutionAssumption DEF IInv, PoolOK, Exclusive
  <2> QED
    BY <2>1
<1> HIDE DEF j
<1>5. k.pc = "done" /\ k.slow = j.slow /\ (Got(k) <=> Got(j))
  BY <1>1, ThrownOK DEF j
<1> HIDE DEF k
<1>6. ~Got(k) \/ ~k.slow
  BY <1>3, <1>5
<1> QED
  BY <1>2, <1>4, <1>5, <1>6, OverStep

LEMMA EnterLogs ==
    ASSUME IInv, LInv, NEW c \in Call, NEW r \in Request[c], Enter(c, r)
    PROVE  LInv'
<1> DEFINE e == Entered(r)
<1>1. DOMAIN job = Call /\ job[c] = NewJob /\ session' = session
  BY DEF IInv, JobsOK, CallOK, JobOK, Enter
<1>2. /\ DOMAIN e = DOMAIN NewJob /\ e.logged = <<>> /\ e.answer = NoAnswer
      /\ e.profiled = NewJob.profiled /\ e.slow = NewJob.slow
  BY NewJobIs DEF Entered
<1>3. ~NewJob.profiled /\ ~NewJob.slow
  BY Zenon DEF NewJob
<1>4. \/ Becomes(c, [e EXCEPT !.pc = "done", !.answer = Failure])
      \/ Becomes(c, [e EXCEPT !.pc = "fast"])
      \/ Becomes(c, [e EXCEPT !.pc = "acquire", !.slow = TRUE])
  BY DEF Enter, Entered
<1> HIDE DEF e
<1>5. CASE Becomes(c, [e EXCEPT !.pc = "done", !.answer = Failure])
  <2> DEFINE k == [e EXCEPT !.pc = "done", !.answer = Failure]
  <2>1. k.pc = "done" /\ ~Got(k)
    BY <1>2, NewJobIs DEF Got
  <2> HIDE DEF k
  <2> QED
    BY <1>1, <1>5, <2>1, OverStep DEF k
<1>6. CASE Becomes(c, [e EXCEPT !.pc = "fast"])
  <2> DEFINE k == [e EXCEPT !.pc = "fast"]
  <2>1. k.pc = "fast" /\ k.answer = NoAnswer
    BY <1>2, NewJobIs
  <2> HIDE DEF k
  <2>2. ~Got(k)
    BY <2>1 DEF Got, Given
  <2> QED
    BY <1>1, <1>6, <2>1, <2>2, OverStep DEF k
<1>7. CASE Becomes(c, [e EXCEPT !.pc = "acquire", !.slow = TRUE])
  <2> DEFINE k == [e EXCEPT !.pc = "acquire", !.slow = TRUE]
  <2>1. k.pc = "acquire" /\ k.answer = NoAnswer /\ k.logged = <<>> /\ k.profiled = e.profiled
    BY <1>2, NewJobIs
  <2>2. job'[c] = k /\ \A d \in Call : d # c => job'[d] = job[d]
    BY <1>1, <1>7 DEF Becomes
  <2> HIDE DEF k
  <2>3. ~Got(k) /\ ~k.profiled
    BY <1>2, <1>3, <2>1 DEF Got, Given
  <2>4. LoggedOK(c, k)
    BY <2>1, <2>3 DEF LoggedOK, Fits
  <2>5. HistoryOK(c)'
    BY <2>1, <2>2 DEF HistoryOK
  <2> QED
    BY <1>1, <2>2, <2>4, <2>5, LogStep
<1> QED
  BY <1>4, <1>5, <1>6, <1>7

LEMMA AcquireLogs ==
    ASSUME IInv, LInv, NEW c \in Call, NEW o \in Conn, Acquire(c, o)
    PROVE  LInv'
<1> DEFINE j == job[c]
           place == IF debug.on /\ job[c].req.resource \in debug.listed
                    THEN "setup" ELSE "statement"
           k == [j EXCEPT !.conn = o, !.pc = place]
<1>1. /\ JobOK(c, j) /\ ProgressOK(j) /\ LoggedOK(c, j)
      /\ j.pc = "acquire" /\ Becomes(c, k) /\ session' = session
  BY DEF IInv, LInv, JobsOK, CallOK, Acquire
<1>2. place \in {"setup", "statement"}
  OBVIOUS
<1>3. job'[c] = k /\ \A d \in Call : d # c => job'[d] = job[d]
  BY <1>1 DEF IInv, JobsOK, Becomes
<1> HIDE DEF j, place
<1>4. /\ k.req = j.req /\ k.sets = j.sets /\ k.profiled = j.profiled /\ k.at = j.at
      /\ k.pc = place /\ k.answer = j.answer /\ k.logged = j.logged
  BY <1>1, NewJobIs DEF JobOK
<1> HIDE DEF k
<1>5. /\ j.at = 1 /\ j.logged = <<>> /\ ~j.profiled /\ ~Given(j)
  BY <1>1 DEF ProgressOK, LoggedOK, JobOK
<1>6. ~k.profiled /\ ~Got(k)
  BY <1>4, <1>5 DEF Got, Given
<1>7. k.logged = Entries(c, k.at - 1)
  BY <1>4, <1>5, NoEntries
<1>8. LoggedOK(c, k)
  BY <1>2, <1>4, <1>5, <1>6, <1>7 DEF LoggedOK, Fits
<1>9. HistoryOK(c)'
  BY <1>3, <1>6 DEF HistoryOK, Fits
<1> QED
  BY <1>1, <1>3, <1>8, <1>9, LogStep

LEMMA ProfilerSetLogs ==
    ASSUME IInv, LInv, NEW c \in Call, ProfilerSet(c)
    PROVE  LInv'
<1> DEFINE j == job[c]
           k == [j EXCEPT !.pc = "statement", !.profiled = TRUE]
<1>1. /\ JobOK(c, j) /\ ProgressOK(j) /\ LoggedOK(c, j)
      /\ j.pc = "setup" /\ Becomes(c, k)
      /\ session' = [session EXCEPT ![j.conn] = [on |-> TRUE, history |-> <<>>]]
  BY DEF IInv, LInv, JobsOK, CallOK, ProfilerSet
<1>2. job'[c] = k /\ \A d \in Call : d # c => job'[d] = job[d]
  BY <1>1 DEF IInv, JobsOK, Becomes
<1>3. j.conn \in Conn
  BY <1>1 DEF JobOK, Holding
<1>4. /\ session'[j.conn] = [on |-> TRUE, history |-> <<>>]
      /\ \A o \in Conn : o # j.conn => session'[o] = session[o]
  BY <1>1, <1>3 DEF IInv, SessionsOK
<1>5. \A d \in Call : d # c => job[d].conn # j.conn
  BY <1>3, ExecutionAssumption DEF IInv, PoolOK, Exclusive
<1> HIDE DEF j
<1>6. /\ k.at = j.at /\ k.pc = "statement" /\ k.answer = j.answer /\ k.logged = j.logged
      /\ k.conn = j.conn
  BY <1>1, NewJobIs DEF JobOK
<1>7. k.profiled
  BY <1>1, NewJobIs DEF JobOK
<1> HIDE DEF k
<1>8. j.at = 1 /\ j.logged = <<>> /\ ~Given(j)
  BY <1>1 DEF ProgressOK, LoggedOK, JobOK
<1>9. ~Got(k)
  BY <1>6, <1>8 DEF Got, Given
<1>10. LoggedOK(c, k)
  BY <1>6, <1>7, <1>8, <1>9 DEF LoggedOK
<1>11. HistoryOK(c)'
  <2>1. session'[k.conn].on /\ session'[k.conn].history = <<>>
    BY <1>4, <1>6
  <2>2. Statements(c, k.at - 1) = <<>>
    <3>1. k.at - 1 = 0
      BY <1>6, <1>8
    <3> QED
      BY <3>1, NoEntries
  <2> QED
    BY <1>2, <1>6, <2>1, <2>2 DEF HistoryOK
<1> QED
  BY <1>2, <1>4, <1>5, <1>10, <1>11, LogStep

LEMMA StatementLogs ==
    ASSUME IInv, LInv, NEW c \in Call, StatementDone(c)
    PROVE  LInv'
<1> DEFINE j == job[c]
           o == j.conn
           next == j.at + 1
<1>1. /\ JobOK(c, j) /\ LoggedOK(c, j) /\ HistoryOK(c) /\ SessionsOK
      /\ j.pc = "statement" /\ Profile(o, <<c, j.at>>)
  BY DEF IInv, LInv, JobsOK, CallOK, StatementDone
<1>2. /\ o \in Conn /\ ~Given(j) /\ j.slow
      /\ j.at \in Nat \ {0} /\ Count(j) \in Nat \ {0} /\ j.at <= Count(j)
  BY <1>1, SetsAre DEF JobOK, Holding
<1>3. PICK k : Becomes(c, k) /\ StatementOf(c, j, k)
  BY <1>1, StatementIs
<1>4. job'[c] = k /\ \A d \in Call : d # c => job'[d] = job[d]
  BY <1>3 DEF IInv, JobsOK, Becomes
<1>5. \A d \in Call : d # c => job[d].conn # o
  BY <1>2, ExecutionAssumption DEF IInv, PoolOK, Exclusive
<1>6. \A q \in Conn : q # o => session'[q] = session[q]
  BY <1>1, <1>2 DEF Profile, SessionsOK
<1>7. Count(k) = Count(j)
  BY <1>3, AskDecides DEF StatementOf
<1>8. Fits(j) => /\ session'[o].on
                 /\ session'[o].history = Statements(c, j.at)
  <2>1. SUFFICES ASSUME Fits(j)
                 PROVE  /\ session'[o].on
                        /\ session'[o].history = Statements(c, j.at)
    OBVIOUS
  <2> DEFINE m == j.at - 1
  <2>2. m \in Nat /\ m + 1 = j.at
    BY <1>2
  <2>3. session[o].on /\ session[o].history = Statements(c, m)
    BY <1>1, <2>1 DEF HistoryOK
  <2> HIDE DEF m
  <2>4. /\ Append(Statements(c, m), <<c, m + 1>>) = Statements(c, m + 1)
        /\ Len(Append(Statements(c, m), <<c, m + 1>>)) = m + 1
    BY <2>2, OneMore
  <2> DEFINE h == Append(session[o].history, <<c, j.at>>)
  <2>5. h = Statements(c, j.at) /\ Len(h) = j.at
    <3>1. h = Append(Statements(c, m), <<c, m + 1>>)
      BY <2>2, <2>3
    <3> HIDE DEF h, j
    <3> QED
      BY <2>2, <2>4, <3>1
  <2>6. Len(h) <= Window
    BY <1>2, <2>1, <2>5, ExecutionAssumption DEF Fits
  <2>7. session' = [session EXCEPT ![o].history = Latest(h)]
    BY <1>1, <2>3 DEF Profile
  <2> HIDE DEF h, j, o
  <2>8. Latest(h) = h
    BY <2>6 DEF Latest
  <2>9. session[o] \in [on : BOOLEAN, history : Seq(Call \X Nat)]
    BY <1>1, <1>2 DEF SessionsOK
  <2>10. session'[o] = [session[o] EXCEPT !.history = h]
    BY <1>1, <1>2, <2>7, <2>8 DEF SessionsOK
  <2>11. session'[o].history = h /\ session'[o].on = session[o].on
    BY <2>9, <2>10
  <2> QED
    BY <2>3, <2>5, <2>11
<1>9. Fits(j) => (FlushDue(j) <=> j.at = Count(j))
  <2>1. SUFFICES ASSUME Fits(j), j.at > 1, (j.at - 1) % Window = 0 PROVE FALSE
    BY DEF FlushDue, IsLast
  <2> DEFINE m == j.at - 1
  <2>2. m \in Nat /\ m > 0 /\ m < Window /\ Window \in Nat \ {0}
    BY <1>2, <2>1, ExecutionAssumption DEF Fits
  <2>3. m % Window = 0
    BY <2>1
  <2> HIDE DEF m
  <2>4. m % Window = m
    BY <2>2
  <2> QED
    BY <2>2, <2>3, <2>4
<1> HIDE DEF j
<1>10. Fits(k) <=> Fits(j)
  BY <1>3, <1>7 DEF Fits, StatementOf
<1>11. LoggedOK(c, k) /\ (Fits(k) => k.pc \in {"flush", "probe", "done"} \/ k.pc = "statement")
       /\ (k.pc = "statement" => k.at = j.at + 1 /\ k.conn = o)
       /\ (k.pc \in {"flush", "probe"} => k.at = j.at /\ k.conn = o)
  <2>0. /\ j.pc = "statement" /\ ~j.profiled /\ j.req.via = "execute" =>
              j.logged = Entries(c, j.at - 1)
        /\ Fits(j) => j.logged = <<>>
    BY <1>1 DEF LoggedOK
  <2>1. CASE /\ j.req.via = "query"
             /\ k.pc = "probe" /\ Waits(j, k) /\ k.logged = j.logged
    <3>1. k.req = j.req /\ k.at = j.at /\ k.conn = o /\ ~Got(k)
      BY <1>2, <1>3, <2>1 DEF StatementOf, Waits, Got, Given, o
    <3>2. Fits(j) => k.at = Count(k)
      <4>1. j.pc # "idle"
        BY <1>1
      <4>2. Count(j) = 1
        BY <1>1, <2>1, <4>1, QueryHasOneSet
      <4> QED
        BY <1>2, <1>7, <3>1, <4>2
    <3> QED
      BY <1>1, <1>10, <2>0, <2>1, <3>1, <3>2 DEF LoggedOK
  <2>2. CASE /\ j.req.via = "execute" /\ j.profiled /\ FlushDue(j)
             /\ k.pc = "flush" /\ Waits(j, k) /\ k.logged = j.logged
    <3>1. /\ k.req = j.req /\ k.at = j.at /\ k.conn = o /\ ~Got(k)
          /\ k.profiled = j.profiled
      BY <1>2, <1>3, <2>2 DEF StatementOf, Waits, Got, Given, o
    <3>2. Fits(j) => k.at = Count(k)
      BY <1>7, <1>9, <2>2, <3>1
    <3> QED
      BY <1>1, <1>10, <2>0, <2>2, <3>1, <3>2 DEF LoggedOK
  <2>3. CASE /\ j.req.via = "execute" /\ j.profiled /\ ~FlushDue(j)
             /\ GoesOn(j, k) /\ k.logged = j.logged
    <3>1. j.at # Count(j)
      BY <2>3 DEF FlushDue, IsLast
    <3>2. /\ k.req = j.req /\ k.at = j.at + 1 /\ k.conn = o /\ ~Got(k)
          /\ k.profiled = j.profiled /\ k.pc = "statement"
      BY <1>2, <1>3, <2>3, <3>1 DEF StatementOf, GoesOn, Got, Given, o
    <3> QED
      BY <1>1, <1>10, <2>0, <2>3, <3>2 DEF LoggedOK
  <2>4. CASE /\ j.req.via = "execute" /\ ~j.profiled
             /\ GoesOn(j, k) /\ k.logged = Append(j.logged, Clock(c, j.at))
    <3> DEFINE m == j.at - 1
    <3>1. m \in Nat /\ m + 1 = j.at /\ next - 1 = m + 1
      BY <1>2 DEF next
    <3>2. j.logged = Entries(c, m)
      BY <1>1, <2>0, <2>4
    <3> HIDE DEF m
    <3>3. k.logged = Entries(c, j.at)
      BY <2>4, <3>1, <3>2, OneMore
    <3>4. k.req = j.req /\ k.profiled = j.profiled /\ ~Fits(j)
      BY <1>3, <2>4 DEF StatementOf, Fits
    <3>5. CASE j.at = Count(j)
      <4>1. k.pc = "done"
        BY <2>4, <3>5 DEF GoesOn
      <4> QED
        BY <1>7, <1>10, <3>3, <3>4, <3>5, <4>1 DEF LoggedOK
    <3>6. CASE j.at # Count(j)
      <4>1. k.pc = "statement" /\ k.at = j.at + 1 /\ ~Got(k) /\ k.conn = o
        BY <1>2, <2>4, <3>6 DEF GoesOn, Got, Given, o
      <4>2. k.at - 1 = j.at
        BY <1>2, <4>1
      <4> QED
        BY <1>10, <3>3, <3>4, <4>1, <4>2 DEF LoggedOK
    <3> QED
      BY <3>5, <3>6
  <2> QED
    BY <1>3, <2>1, <2>2, <2>3, <2>4 DEF StatementOf
<1>12. HistoryOK(c)'
  <2>1. k.pc = "statement" => k.at - 1 = j.at
    BY <1>2, <1>11
  <2> QED
    BY <1>4, <1>8, <1>10, <1>11, <2>1 DEF HistoryOK
<1> QED
  BY <1>4, <1>5, <1>6, <1>11, <1>12, LogStep DEF j, o

LEMMA ProbeLogs ==
    ASSUME IInv, LInv, NEW c \in Call, ProbeDone(c)
    PROVE  LInv'
<1> DEFINE j == job[c]
           o == j.conn
           entry == Entry(1, session[j.conn].history)
           a == parseResponse(Type(j.req), j.results[1])
           k == [j EXCEPT !.pc = "done", !.conn = NoConn,
                          !.logged = Append(@, entry), !.answer = a]
<1>1. /\ JobOK(c, j) /\ LoggedOK(c, j) /\ HistoryOK(c) /\ SessionsOK
      /\ j.pc = "probe" /\ Becomes(c, k) /\ Profile(o, <<c, 0>>)
  BY DEF IInv, LInv, JobsOK, CallOK, ProbeDone
<1>2. /\ o \in Conn /\ DOMAIN j = DOMAIN NewJob /\ j.req.via = "query" /\ Count(j) = 1
  BY <1>1, QueryHasOneSet DEF JobOK, LoggedOK, Holding
<1>3. job'[c] = k /\ \A d \in Call : d # c => job'[d] = job[d]
  BY <1>1 DEF IInv, JobsOK, Becomes
<1>4. \A d \in Call : d # c => job[d].conn # o
  BY <1>2, ExecutionAssumption DEF IInv, PoolOK, Exclusive
<1>5. \A q \in Conn : q # o => session'[q] = session[q]
  BY <1>1, <1>2 DEF Profile, SessionsOK
<1>6. Fits(j) => j.logged = <<>> /\ entry = Entry(1, Statements(c, 1))
  BY <1>1, <1>2 DEF LoggedOK, HistoryOK
<1> HIDE DEF j, a, entry
<1>7. /\ k.req = j.req /\ k.sets = j.sets /\ k.profiled = j.profiled /\ k.pc = "done"
      /\ k.logged = Append(j.logged, entry)
  BY <1>2, NewJobIs
<1> HIDE DEF k
<1>8. Count(k) = 1
  BY <1>2, <1>7, AskDecides
<1>9. LogsOwn(k) => k.logged = Entries(c, Count(k))
  <2>1. SUFFICES ASSUME LogsOwn(k) PROVE k.logged = Entries(c, 1)
    BY <1>8
  <2>2. Fits(j)
    BY <1>2, <1>7, <1>8, <2>1 DEF LogsOwn, Fits
  <2>3. k.logged = <<Entry(1, Statements(c, 1))>>
    <3>1. k.logged = Append(<<>>, Entry(1, Statements(c, 1)))
      BY <1>6, <1>7, <2>2
    <3>2. \A x : Append(<<>>, x) = <<x>>
      OBVIOUS
    <3> QED
      BY <3>1, <3>2
  <2>4. Statements(c, 1) = <<<<c, 1>>>>
    BY DEF Statements
  <2>5. Entries(c, 1) = <<Entry(1, <<<<c, 1>>>>)>>
    BY DEF Entries
  <2> QED
    BY <2>3, <2>4, <2>5
<1>10. LoggedOK(c, k)
  BY <1>7, <1>9 DEF LoggedOK
<1>11. HistoryOK(c)'
  BY <1>3, <1>7 DEF HistoryOK
<1> QED
  BY <1>3, <1>4, <1>5, <1>10, <1>11, LogStep DEF j, o

LEMMA FlushLogs ==
    ASSUME IInv, LInv, NEW c \in Call, FlushDone(c)
    PROVE  LInv'
<1> DEFINE j == job[c]
           o == j.conn
           h == session[j.conn].history
           offset == IF j.at - 1 < Window THEN 0 ELSE j.at - 1
           more == j.logged \o [n \in DOMAIN h |-> Entry(offset + n, <<h[n]>>)]
           e == [j EXCEPT !.logged = more]
           k == Continue(e)
<1>1. /\ JobOK(c, j) /\ LoggedOK(c, j) /\ HistoryOK(c) /\ SessionsOK
      /\ j.pc = "flush" /\ Becomes(c, k)
      /\ session' = [session EXCEPT ![o] = [on |-> TRUE, history |-> <<>>]]
  BY DEF IInv, LInv, JobsOK, CallOK, FlushDone
<1>2. /\ o \in Conn /\ DOMAIN j = DOMAIN NewJob /\ j.profiled /\ j.req.via = "execute"
      /\ j.at \in Nat \ {0} /\ Count(j) \in Nat \ {0}
  BY <1>1, SetsAre DEF JobOK, LoggedOK, Holding
<1>3. job'[c] = k /\ \A d \in Call : d # c => job'[d] = job[d]
  BY <1>1 DEF IInv, JobsOK, Becomes
<1>4. \A d \in Call : d # c => job[d].conn # o
  BY <1>2, ExecutionAssumption DEF IInv, PoolOK, Exclusive
<1>5. \A q \in Conn : q # o => session'[q] = session[q]
  BY <1>1, <1>2 DEF SessionsOK
<1>6. Fits(j) => /\ j.at = Count(j) /\ offset = 0
                 /\ h = Statements(c, j.at) /\ j.logged = <<>>
  BY <1>1, <1>2, ExecutionAssumption DEF LoggedOK, HistoryOK, Fits
<1>7. Fits(j) => more = Entries(c, Count(j))
  <2>1. SUFFICES ASSUME Fits(j) PROVE more = Entries(c, Count(j))
    OBVIOUS
  <2> DEFINE m == Count(j)
             t == [n \in DOMAIN h |-> Entry(offset + n, <<h[n]>>)]
  <2>2. m \in Nat /\ offset = 0 /\ h = Statements(c, m) /\ j.logged = <<>>
    BY <1>2, <1>6, <2>1
  <2> HIDE DEF m, h, offset, j
  <2>3. DOMAIN h = 1..m /\ \A n \in 1..m : h[n] = <<c, n>>
    BY <2>2 DEF Statements
  <2>4. \A n \in 1..m : offset + n = n
    BY <2>2
  <2>5. t = Entries(c, m)
    BY <2>3, <2>4 DEF Entries
  <2> DEFINE E == {Entry(n, <<<<c, n>>>>) : n \in Nat}
  <2>6. Entries(c, m) \in Seq(E)
    <3>1. \A n \in Nat : Entry(n, <<<<c, n>>>>) \in E
      OBVIOUS
    <3> HIDE DEF E
    <3> QED
      BY <2>2, <3>1 DEF Entries
  <2> HIDE DEF t
  <2>7. <<>> \o t = t
    BY <2>5, <2>6
  <2> QED
    BY <2>2, <2>5, <2>7 DEF t, m
<1> HIDE DEF j, more, offset, h
<1>8. /\ DOMAIN e = DOMAIN NewJob /\ e.req = j.req /\ e.sets = j.sets
      /\ e.profiled = j.profiled /\ e.at = j.at /\ e.conn = j.conn
      /\ e.answer = j.answer /\ e.logged = more
  BY <1>2, NewJobIs
<1> HIDE DEF e
<1>9. Count(e) = Count(j)
  BY <1>8, AskDecides
<1>10. /\ k.req = j.req /\ k.sets = j.sets /\ k.profiled = j.profiled /\ k.logged = more
       /\ GoesOn(e, k)
  BY <1>2, <1>8, <1>9, ContinueIs
<1> HIDE DEF k
<1>11. Count(k) = Count(j) /\ (Fits(k) <=> Fits(j))
  <2>1. Count(k) = Count(j)
    BY <1>10, AskDecides
  <2> QED
    BY <1>10, <2>1 DEF Fits
<1>12. k.pc \in {"statement", "done"} /\ (Fits(k) => k.pc = "done")
  BY <1>6, <1>8, <1>9, <1>10, <1>11 DEF GoesOn
<1>13. LoggedOK(c, k)
  BY <1>2, <1>7, <1>10, <1>11, <1>12 DEF LoggedOK, LogsOwn, Fits
<1>14. HistoryOK(c)'
  BY <1>3, <1>12 DEF HistoryOK
<1> QED
  BY <1>3, <1>4, <1>5, <1>13, <1>14, LogStep DEF o

LEMMA ThrowStepLogs ==
    ASSUME IInv, LInv, NEW c \in Call,
           AcquireFails(c) \/ SlowFails(c) \/ ProfilerFails(c)
    PROVE  LInv'
<1>1. /\ Throw(c) /\ job[c].pc \in {"acquire", "setup", "statement", "probe", "flush"}
      /\ session' = session \/ \E s : session' = [session EXCEPT ![job[c].conn] = s]
  BY DEF AcquireFails, SlowFails, ProfilerFails, PartlyReset, Profile
<1>2. Parse(job[c].req).ok
  BY <1>1 DEF IInv, JobsOK, CallOK, JobOK
<1>3. \A o \in Conn : session'[o] = session[o] \/ o = job[c].conn
  BY <1>1 DEF IInv, SessionsOK
<1> QED
  BY <1>1, <1>2, <1>3, ThrowLogs

LEMMA NotLentLogs ==
    ASSUME IInv, LInv, NEW q \in queue, NotLent(q[1], q[2])
    PROVE  LInv'
<1> DEFINE c == q[1]
<1>1. c \in Call /\ Pends(c, q[2]) /\ Throw(c) /\ session' = session
  BY DEF NotLent, Pends, IInv, PoolOK, Exclusive
<1> HIDE DEF c
<1>2. Parse(job[c].req).ok /\ job[c].pc # "idle" /\ ~job[c].slow
  BY <1>1, ItemIs DEF IInv
<1> QED
  BY <1>1, <1>2, ThrowLogs

LEMMA InitLInv == Init => LInv
<1> SUFFICES ASSUME Init, NEW c \in Call
             PROVE  LoggedOK(c, job[c]) /\ HistoryOK(c)
  BY DEF LInv
<1>1. job[c] = NewJob
  BY DEF Init
<1>2. NewJob.pc = "idle" /\ NewJob.answer = NoAnswer
  BY NewJobIs
<1>3. ~Got(NewJob)
  BY <1>2 DEF Got, Given
<1> QED
  BY <1>1, <1>2, <1>3 DEF LoggedOK, HistoryOK

LEMMA LogsNextStep ==
    ASSUME IInv, LInv, [Next]_vars
    PROVE  LInv'
<1>1. CASE \E c \in Call : \E r \in Request[c] : Enter(c, r)
  BY <1>1, EnterLogs
<1>2. CASE \E q \in queue : NotLent(q[1], q[2])
  BY <1>2, NotLentLogs
<1>3. CASE \E w \in running : Done(w[1], w[2], w[3]) \/ Fails(w[1], w[2], w[3])
  <2>1. PICK w \in running : Done(w[1], w[2], w[3]) \/ Fails(w[1], w[2], w[3])
    BY <1>3
  <2>2. w[1] \in Call /\ w[3] \in Conn
    BY DEF IInv, PoolOK, Exclusive
  <2> QED
    BY <2>1, <2>2, PoolLogs
<1>4. CASE \E c \in Call, o \in Conn : Acquire(c, o)
  BY <1>4, AcquireLogs
<1>5. CASE \E c \in Call : \/ AcquireFails(c) \/ ProfilerSet(c) \/ ProfilerFails(c)
                           \/ StatementDone(c) \/ ProbeDone(c) \/ FlushDone(c)
                           \/ SlowFails(c)
  BY <1>5, ThrowStepLogs, ProfilerSetLogs, StatementLogs, ProbeLogs, FlushLogs
<1>6. CASE \/ \E q \in queue, k \in Conn : Lend(q[1], q[2], k)
           \/ UpdateDebug \/ UNCHANGED vars
  <2>1. job' = job /\ session' = session
    BY <1>6 DEF Lend, UpdateDebug, vars
  <2> QED
    BY <2>1 DEF LInv, HistoryOK
<1> QED
  BY <1>1, <1>2, <1>3, <1>4, <1>5, <1>6 DEF Next

LEMMA LogsInductive == SafeSpec => []LInv
<1>1. Init => LInv
  BY InitLInv
<1>2. IInv /\ LInv /\ [Next]_vars => LInv'
  BY LogsNextStep
<1> QED
  BY <1>1, <1>2, Inductive, PTL DEF SafeSpec

\* Each statement of a call that holds a connection is logged once, in order and
\* with its own time, whatever earlier calls have left in the profiler of the
\* session and however the others interleave.
THEOREM LogsOwnTime == SafeSpec => []LoggedOnceWithOwnTime
<1>1. LInv => LoggedOnceWithOwnTime
  <2>1. ASSUME LInv, NEW c \in Call, Told(c), LogsOwn(job[c])
        PROVE  job[c].logged = Entries(c, Count(job[c]))
    BY <2>1 DEF LInv, LoggedOK, Told, Answered, Got, Given
  <2> QED
    BY <2>1 DEF LoggedOnceWithOwnTime, LogsOwn, Entries
<1> QED
  BY <1>1, LogsInductive, PTL

-----------------------------------------------------------------------------
(* What is answered *)

\* One result in the form it is pushed in.
Shaped(j, x) == IF j.req.unpack THEN parseResponse(Type(j.req), x) ELSE x
Spreads(j, i) == Length(ResultOf(j, i)) > 1

\* The response of a call that has the results of its sets up to m.  It is as
\* long as they are many, unless one of them spreads.
ResponseOK(j, m) ==
    /\ IsSequence(j.response) /\ Len(j.response) >= m
    /\ (\E i \in 1..m : Spreads(j, i)) => Len(j.response) > m
    /\ (\A i \in 1..m : ~Spreads(j, i)) =>
          Len(j.response) = m /\ \A i \in 1..m : j.response[i] = Shaped(j, ResultOf(j, i))
    /\ m = 1 => j.response = Pushed(j, ResultOf(j, 1))

\* How many results a call has that holds a connection, or waits for it.
Ready(j) == IF j.pc \in {"probe", "flush"} THEN j.at ELSE j.at - 1
AnswerOK(j) ==
    /\ DOMAIN j.results \subseteq 1..Count(j)
    /\ \A i \in DOMAIN j.results : j.results[i] = ResultOf(j, i)
    /\ j.pc \in Holding \cup {"acquire"} =>
          /\ DOMAIN j.results = 1..Ready(j)
          /\ j.req.via = "execute" => ResponseOK(j, Ready(j))
    /\ Got(j) => (j.answer = Promised(j) <=> ~Distorted(j))

AInv == \A c \in Call : AnswerOK(job[c])

\* The server's result for a set: rows, or the summary of a write.
IsRow(x) == x # Null /\ x.t = "row" /\ (Len(x.columns) = 1 => x.columns[1].t = "cell")
IsResult(j, g) ==
    \/ /\ j.req.q.verb = "select"
       /\ g.t = "array" /\ g = Array(g.items) /\ IsSequence(g.items)
       /\ \A n \in 1..Len(g.items) : IsRow(g.items[n])
    \/ /\ j.req.q.verb # "select"
       /\ g.t = "upsert" /\ g.insertId.t = "number"

LEMMA ResultIs ==
    ASSUME NEW c \in Call, NEW j, j.req \in Request[c], NEW i
    PROVE  IsResult(j, ResultOf(j, i))
<1> DEFINE b == Bound(SetAt(j, i), Placeholders(j.req))
           row(n) == Row([m \in DOMAIN j.req.q.columns |-> Cell(b, n, m)])
           s == [n \in 1..Selected(b) |-> row(n)]
<1>1. CASE j.req.q.verb # "select"
  <2>1. ResultOf(j, i) = Upsert(Number(1), Number(i))
    BY <1>1 DEF ResultOf
  <2> QED
    BY <1>1, <2>1 DEF IsResult, Upsert, Number
<1>2. CASE j.req.q.verb = "select"
  <2>1. ResultOf(j, i) = Array(s)
    BY <1>2 DEF ResultOf
  <2>2. Selected(b) \in Nat
    BY ExecutionAssumption DEF Selected
  <2>3. IsSequence(j.req.q.columns)
    BY ExecutionAssumption
  <2>4. ASSUME NEW n PROVE IsRow(row(n))
    <3> DEFINE f == [m \in DOMAIN j.req.q.columns |-> Cell(b, n, m)]
               len == Len(j.req.q.columns)
    <3>1. len \in Nat /\ DOMAIN j.req.q.columns = 1..len
      BY <2>3, SequenceIs
    <3>2. \A m : Cell(b, n, m).t = "cell"
      BY DEF Cell
    <3> HIDE DEF b
    <3>3. f = [m \in 1..len |-> f[m]] /\ \A m \in 1..len : f[m] = Cell(b, n, m)
      BY <3>1
    <3> HIDE DEF f, len
    <3>4. Len(f) = len
      BY <3>1, <3>3, MapIsSequence
    <3>5. Len(f) = 1 => f[1].t = "cell"
      BY <3>1, <3>2, <3>3, <3>4
    <3>6. Row(f).t = "row" /\ Row(f).columns = f /\ Row(f) # Null
      BY DEF Row, Null
    <3>7. IsRow(Row(f))
      BY <3>5, <3>6 DEF IsRow
    <3> QED
      BY <3>7 DEF f
  <2> HIDE DEF b, row
  <2>5. s = [n \in 1..Selected(b) |-> s[n]] /\ \A n \in 1..Selected(b) : s[n] = row(n)
    OBVIOUS
  <2> HIDE DEF s
  <2>6. IsSequence(s) /\ Len(s) = Selected(b)
    BY <2>2, <2>5, MapIsSequence
  <2>7. \A n \in 1..Len(s) : IsRow(s[n])
    BY <2>4, <2>5, <2>6
  <2>8. Array(s).t = "array" /\ Array(s).items = s
    BY DEF Array
  <2> QED
    BY <1>2, <2>1, <2>6, <2>7, <2>8 DEF IsResult
<1> QED
  BY <1>1, <1>2

\* Unwrapping never leaves an array, and leaves nothing of nothing.
LEMMA UnwrappedIs ==
    ASSUME NEW j, NEW g, IsResult(j, g)
    PROVE  /\ Unwrapped(First(g)).t \in {"null", "row", "cell"}
           /\ Length(g) \in Nat
           /\ Length(g) = 0 => Unwrapped(First(g)) = Null /\ First(g) = Null
           /\ Length(g) # 0 => First(g) = g.items[1] /\ First(g) # Null
           /\ Length(g) > 1 => j.req.q.verb = "select" /\ Length(g) = Len(g.items)
<1>1. Null.t = "null"
  BY DEF Null
<1>2. CASE g.t = "upsert" /\ j.req.q.verb # "select"
  BY <1>1, <1>2 DEF First, Length, Unwrapped
<1>3. CASE /\ g.t = "array" /\ IsSequence(g.items) /\ j.req.q.verb = "select"
           /\ \A n \in 1..Len(g.items) : IsRow(g.items[n])
  <2>1. Length(g) = Len(g.items) /\ Len(g.items) \in Nat
    BY <1>3, SequenceIs DEF Length
  <2>2. CASE Length(g) = 0
    BY <1>1, <1>3, <2>1, <2>2 DEF First, Unwrapped
  <2>3. CASE Length(g) # 0
    <3>1. First(g) = g.items[1] /\ IsRow(g.items[1])
      BY <1>3, <2>1, <2>3 DEF First
    <3> QED
      BY <1>3, <2>1, <2>3, <3>1 DEF Unwrapped, IsRow
  <2> QED
    BY <2>2, <2>3
<1> QED
  BY <1>2, <1>3 DEF IsResult

\* Each of the two handlers shapes a result as the tables say, but for what is
\* unwrapped of a SELECT.
LEMMA QueryShape ==
    ASSUME NEW c \in Call, NEW j, j.req \in Request[c], j.req.via = "query",
           NEW g, IsResult(j, g)
    PROVE  parseResponse(Type(j.req), g) = PromisedOne(j, g)
<1>1. j.req.type \in QueryType /\ Type(j.req) = j.req.type
  BY ExecutionAssumption DEF Type
<1>2. Length(g) \in Nat /\ (First(g) = Null <=> Length(g) = 0)
      /\ (Length(g) # 0 => First(g) = g.items[1])
  BY UnwrappedIs
<1>3. g.t # "upsert" \/ g.insertId.t = "number"
  BY DEF IsResult
<1> QED
  BY <1>1, <1>2, <1>3 DEF parseResponse, PromisedOne, QueryType

LEMMA ExecuteShape ==
    ASSUME NEW c \in Call, NEW j, j.req \in Request[c], j.req.via = "execute"
    PROVE  /\ Type(j.req) \in {"insert", "update", "select"}
           /\ j.req.q.verb = "select" => Type(j.req) = "select"
           /\ j.req.unpack \in BOOLEAN
           /\ IsWrite(j) <=> Type(j.req) # "select"
           /\ ~j.req.unpack \/ Type(j.req) = "select" => \A x : Shaped(j, x) = x
           /\ ~j.req.unpack => \A g : PromisedOne(j, g) = g
           /\ j.req.unpack /\ Type(j.req) = "select" =>
                 \A g : PromisedOne(j, g) = Unwrapped(First(g))
           /\ j.req.unpack /\ Type(j.req) # "select" =>
                 \A g : IsResult(j, g) => /\ PromisedOne(j, g) = Shaped(j, g)
                                          /\ Shaped(j, g) = parseResponse(Type(j.req), g)
<1>1. Type(j.req) = ExecuteType(j.req.q) /\ j.req.unpack \in BOOLEAN
  BY ExecutionAssumption DEF Type
<1>2. /\ Type(j.req) \in {"insert", "update", "select"}
      /\ j.req.q.verb = "select" => Type(j.req) = "select"
  BY <1>1 DEF ExecuteType
<1>3. IsWrite(j) <=> Type(j.req) # "select"
  BY <1>2 DEF IsWrite
<1>4. \A x : parseResponse("select", x) = x
  BY DEF parseResponse
<1>5. ~j.req.unpack \/ Type(j.req) = "select" => \A x : Shaped(j, x) = x
  BY <1>1, <1>4 DEF Shaped
<1>6. ~j.req.unpack => \A g : PromisedOne(j, g) = g
  BY <1>1 DEF PromisedOne
<1>7. j.req.unpack /\ Type(j.req) = "select" =>
         \A g : PromisedOne(j, g) = Unwrapped(First(g))
  BY <1>1 DEF PromisedOne
<1>8. ASSUME j.req.unpack, Type(j.req) # "select", NEW g, IsResult(j, g)
      PROVE  /\ PromisedOne(j, g) = Shaped(j, g)
             /\ Shaped(j, g) = parseResponse(Type(j.req), g)
  <2>1. g.t = "upsert" /\ g.insertId.t = "number"
    BY <1>2, <1>8 DEF IsResult
  <2> QED
    BY <1>1, <1>2, <1>8, <2>1 DEF PromisedOne, Shaped, parseResponse
<1> QED
  BY <1>1, <1>2, <1>3, <1>5, <1>6, <1>7, <1>8

\* What a result adds to the response: its rows, if there are more than one, or
\* itself in its form.
LEMMA PushedIs ==
    ASSUME NEW c \in Call, NEW j, j.req \in Request[c], j.req.via = "execute",
           NEW g, IsResult(j, g)
    PROVE  /\ IsSequence(Pushed(j, g))
           /\ Length(g) > 1 => /\ Pushed(j, g) = g.items /\ Len(g.items) = Length(g)
                               /\ g = Array(g.items) /\ Type(j.req) = "select"
           /\ ~(Length(g) > 1) => /\ Pushed(j, g) = <<Shaped(j, g)>>
                                  /\ Len(Pushed(j, g)) = 1
<1>1. CASE Length(g) > 1
  <2>1. /\ j.req.q.verb = "select" /\ Type(j.req) = "select"
        /\ g = Array(g.items) /\ IsSequence(g.items) /\ Len(g.items) = Length(g)
    BY <1>1, UnwrappedIs, ExecuteShape DEF IsResult
  <2>2. \A x : Shaped(j, x) = x
    BY <2>1, ExecuteShape
  <2>3. Pushed(j, g) = [n \in DOMAIN g.items |-> Shaped(j, g.items[n])]
    BY <1>1 DEF Pushed, Shaped
  <2>4. Pushed(j, g) = [n \in DOMAIN g.items |-> g.items[n]]
    BY <2>2, <2>3
  <2>5. g.items = [n \in DOMAIN g.items |-> g.items[n]]
    BY <2>1, SequenceIs
  <2> QED
    BY <1>1, <2>1, <2>4, <2>5
<1>2. CASE ~(Length(g) > 1)
  <2>1. Pushed(j, g) = <<Shaped(j, g)>>
    BY <1>2 DEF Pushed, Shaped
  <2> DEFINE s == Shaped(j, g)
  <2>2. IsSequence(<<s>>) /\ Len(<<s>>) = 1
    <3> HIDE DEF s
    <3>1. <<s>> = [n \in 1..1 |-> <<s>>[n]]
      OBVIOUS
    <3> QED
      BY <3>1, MapIsSequence
  <2> QED
    BY <1>2, <2>1, <2>2
<1> QED
  BY <1>1, <1>2

LEMMA ResultsDecided ==
    ASSUME NEW j, NEW k, k.req = j.req, k.sets = j.sets
    PROVE  /\ \A i : ResultOf(k, i) = ResultOf(j, i)
           /\ \A i : Spreads(k, i) <=> Spreads(j, i)
           /\ \A x : Shaped(k, x) = Shaped(j, x)
           /\ \A x : Pushed(k, x) = Pushed(j, x)
           /\ \A x : PromisedOne(k, x) = PromisedOne(j, x)
<1>1. \A i : ResultOf(k, i) = ResultOf(j, i)
  BY DEF ResultOf, SetAt
<1>2. \A x : Shaped(k, x) = Shaped(j, x)
  BY DEF Shaped
<1>3. \A x : Pushed(k, x) = Pushed(j, x)
  BY DEF Pushed
<1> QED
  BY <1>1, <1>2, <1>3 DEF Spreads, PromisedOne

LEMMA ResponseGrows ==
    ASSUME NEW c \in Call, NEW j, j.req \in Request[c], j.req.via = "execute",
           NEW m \in Nat, ResponseOK(j, m),
           NEW k, k.req = j.req, k.sets = j.sets,
           k.response = j.response \o Pushed(j, ResultOf(j, m + 1))
    PROVE  ResponseOK(k, m + 1)
<1> DEFINE g == ResultOf(j, m + 1)
           s == j.response
           p == Pushed(j, g)
<1>1. IsResult(j, g)
  BY ResultIs
<1>2. /\ IsSequence(p) /\ Len(p) \in Nat
      /\ Length(g) \in Nat
      /\ Length(g) > 1 => Len(p) > 1
      /\ ~(Length(g) > 1) => p = <<Shaped(j, g)>> /\ Len(p) = 1
  BY <1>1, PushedIs, UnwrappedIs, SequenceIs
<1>3. /\ IsSequence(s) /\ Len(s) \in Nat /\ Len(s) >= m
      /\ (\E i \in 1..m : Spreads(j, i)) => Len(s) > m
      /\ (\A i \in 1..m : ~Spreads(j, i)) =>
            Len(s) = m /\ \A i \in 1..m : s[i] = Shaped(j, ResultOf(j, i))
  BY SequenceIs DEF ResponseOK
<1>4. Spreads(j, m + 1) <=> Length(g) > 1
  BY DEF Spreads
<1> DEFINE r == s \o p
<1>5. k.response = r
  OBVIOUS
<1> HIDE DEF s, p, g
<1>6. /\ IsSequence(r) /\ Len(r) = Len(s) + Len(p)
      /\ \A i \in 1..Len(s) + Len(p) : r[i] = IF i <= Len(s) THEN s[i] ELSE p[i - Len(s)]
  BY <1>2, <1>3, JoinIs
<1> HIDE DEF r
<1>7. \A i \in 1..m + 1 : i \in 1..m \/ i = m + 1
  OBVIOUS
<1>8. Len(p) >= 1 /\ Len(r) >= m + 1
  <2>1. Len(p) >= 1
    <3>1. Len(p) > 1 \/ Len(p) = 1
      BY <1>2, Zenon
    <3>2. Len(p) \in Nat
      BY <1>2, Zenon
    <3>3. \A n \in Nat : n > 1 \/ n = 1 => n >= 1
      OBVIOUS
    <3> QED
      BY <3>1, <3>2, <3>3, Zenon
  <2>2. Len(r) = Len(s) + Len(p) /\ Len(s) >= m /\ Len(s) \in Nat /\ Len(p) \in Nat
    BY <1>2, <1>3, <1>6
  <2> QED
    BY <2>1, <2>2
<1>9. (\E i \in 1..m + 1 : Spreads(j, i)) => Len(r) > m + 1
  <2>1. CASE \E i \in 1..m : Spreads(j, i)
    <3>1. Len(s) > m /\ Len(r) = Len(s) + Len(p)
      BY <1>3, <1>6, <2>1
    <3>2. Len(s) \in Nat /\ Len(p) \in Nat /\ Len(p) >= 1
      BY <1>2, <1>3, <1>8
    <3> QED
      BY <3>1, <3>2
  <2>2. CASE Spreads(j, m + 1)
    <3>1. Len(p) > 1 /\ Len(s) >= m /\ Len(r) = Len(s) + Len(p)
      BY <1>2, <1>3, <1>4, <1>6, <2>2
    <3>2. Len(s) \in Nat /\ Len(p) \in Nat
      BY <1>2, <1>3
    <3> QED
      BY <3>1, <3>2
  <2> QED
    BY <1>7, <2>1, <2>2
<1>10. ASSUME \A i \in 1..m + 1 : ~Spreads(j, i)
       PROVE  /\ Len(r) = m + 1
              /\ \A i \in 1..m + 1 : r[i] = Shaped(j, ResultOf(j, i))
  <2>1. \A i \in 1..m : ~Spreads(j, i)
    BY <1>10
  <2>2. /\ Len(s) = m /\ \A i \in 1..m : s[i] = Shaped(j, ResultOf(j, i))
        /\ p = <<Shaped(j, g)>> /\ Len(p) = 1
    BY <1>2, <1>3, <1>4, <1>10, <2>1
  <2>3. \A i \in 1..m : r[i] = s[i]
    BY <1>6, <2>2
  <2>4. r[m + 1] = p[1]
    BY <1>6, <2>2
  <2>5. p[1] = Shaped(j, g)
    BY <2>2
  <2> QED
    BY <1>6, <1>7, <2>2, <2>3, <2>4, <2>5 DEF g
<1>11. m + 1 = 1 => r = p
  <2>1. SUFFICES ASSUME m = 0 PROVE r = p
    OBVIOUS
  <2>2. Len(s) = 0
    BY <1>3, <2>1
  <2>3. Len(r) = Len(p) /\ \A i \in 1..Len(p) : r[i] = p[i]
    BY <1>2, <1>6, <2>2
  <2>4. r = [i \in 1..Len(r) |-> r[i]] /\ p = [i \in 1..Len(p) |-> p[i]]
    BY <1>2, <1>6, SequenceIs
  <2> QED
    BY <2>3, <2>4
<1>12. m + 1 = 1 => r = Pushed(j, ResultOf(j, 1))
  BY <1>11 DEF p, g
<1>13. /\ \A i : ResultOf(k, i) = ResultOf(j, i)
       /\ \A i : Spreads(k, i) <=> Spreads(j, i)
       /\ \A x : Shaped(k, x) = Shaped(j, x)
       /\ \A x : Pushed(k, x) = Pushed(j, x)
  BY ResultsDecided
<1>14. (\A i \in 1..m + 1 : ~Spreads(k, i)) =>
          /\ Len(r) = m + 1
          /\ \A i \in 1..m + 1 : r[i] = Shaped(k, ResultOf(k, i))
  BY <1>10, <1>13
<1>15. (\E i \in 1..m + 1 : Spreads(k, i)) => Len(r) > m + 1
  BY <1>9, <1>13
<1>16. m + 1 = 1 => r = Pushed(k, ResultOf(k, 1))
  BY <1>12, <1>13
<1> QED
  BY <1>5, <1>6, <1>8, <1>14, <1>15, <1>16, Zenon DEF ResponseOK

\* A call that has the result of each of its sets.
HasAll(c, j) ==
    /\ j.req \in Request[c] /\ Count(j) \in Nat \ {0}
    /\ DOMAIN j.results = 1..Count(j)
    /\ \A i \in 1..Count(j) : j.results[i] = ResultOf(j, i)

LEMMA PromisedIs ==
    ASSUME NEW c \in Call, NEW j, HasAll(c, j)
    PROVE  Promised(j) =
              IF Count(j) = 1 THEN PromisedOne(j, ResultOf(j, 1))
              ELSE Array([i \in 1..Count(j) |-> PromisedOne(j, ResultOf(j, i))])
<1> DEFINE a == [i \in 1..Count(j) |-> PromisedOne(j, j.results[i])]
           b == [i \in 1..Count(j) |-> PromisedOne(j, ResultOf(j, i))]
<1>1. a = b /\ Count(j) \in Nat \ {0}
  BY DEF HasAll
<1>2. b[1] = PromisedOne(j, ResultOf(j, 1))
  BY <1>1
<1>3. b = [i \in 1..Count(j) |-> b[i]]
  OBVIOUS
<1>4. Promised(j) = IF Len(a) = 1 THEN a[1] ELSE Array(a)
  BY DEF Promised
<1> HIDE DEF a, b
<1>5. Len(b) = Count(j)
  BY <1>1, <1>3, MapIsSequence
<1> QED
  BY <1>1, <1>2, <1>4, <1>5 DEF b

\* The fast paths answer by the tables.
LEMMA FastAnswer ==
    ASSUME NEW c \in Call, NEW j, HasAll(c, j)
    PROVE  FastResult(j) = Promised(j)
<1> DEFINE N == Count(j)
           got == [i \in 1..N |-> j.results[i]]
           shape(g) == CASE j.req.via = "query" -> parseResponse(Type(j.req), g)
                         [] j.req.via = "execute" /\ ~j.req.unpack -> g
                         [] IsWrite(j) /\ j.req.unpack -> parseResponse(Type(j.req), g)
                         [] OTHER -> Unwrapped(First(g))
           a == [i \in DOMAIN got |-> shape(got[i])]
           b == [i \in 1..N |-> PromisedOne(j, j.results[i])]
<1>1. FastResult(j) = IF Len(a) = 1 THEN a[1] ELSE Array(a)
  BY DEF FastResult
<1>2. Promised(j) = IF Len(b) = 1 THEN b[1] ELSE Array(b)
  BY DEF Promised
<1>3. ASSUME NEW i \in 1..N, NEW g, g = j.results[i] PROVE shape(g) = PromisedOne(j, g)
  <2>1. IsResult(j, g) /\ j.req \in Request[c]
    BY <1>3, ResultIs DEF HasAll
  <2>2. CASE j.req.via = "query"
    BY <2>1, <2>2, QueryShape
  <2>3. CASE j.req.via = "execute"
    <3>1. CASE ~j.req.unpack
      BY <2>1, <2>3, <3>1, ExecuteShape
    <3>2. CASE j.req.unpack /\ Type(j.req) = "select"
      <4>1. PromisedOne(j, g) = Unwrapped(First(g)) /\ ~IsWrite(j)
        BY <2>1, <2>3, <3>2, ExecuteShape
      <4> QED
        BY <2>3, <3>2, <4>1
    <3>3. CASE j.req.unpack /\ Type(j.req) # "select"
      <4>1. PromisedOne(j, g) = parseResponse(Type(j.req), g) /\ IsWrite(j)
        BY <2>1, <2>3, <3>3, ExecuteShape
      <4> QED
        BY <2>3, <3>3, <4>1
    <3> QED
      BY <3>1, <3>2, <3>3
  <2> QED
    BY <2>1, <2>2, <2>3, ExecutionAssumption
<1> HIDE DEF shape
<1>4. a = b
  BY <1>3
<1> QED
  BY <1>1, <1>2, <1>4

\* The dedicated connection answers by the tables in all cases but those that
\* Distorted names, and in none of those.
LEMMA SlowAnswer ==
    ASSUME NEW c \in Call, NEW j, HasAll(c, j), j.slow, j.req.via = "execute",
           ResponseOK(j, Count(j))
    PROVE  SlowResult(j) = Promised(j) <=> ~Distorted(j)
<1> DEFINE N == Count(j)
           r == j.response
           g == ResultOf(j, 1)
           select == Type(j.req) = "select"
<1>1. N \in Nat \ {0} /\ j.req \in Request[c] /\ 1 \in 1..N
  BY DEF HasAll
<1>2. \A i : IsResult(j, ResultOf(j, i))
  BY <1>1, ResultIs
<1>3. /\ Unwrapped(First(g)).t \in {"null", "row", "cell"}
      /\ Length(g) \in Nat
      /\ Length(g) = 0 => Unwrapped(First(g)) = Null
      /\ g.t \in {"array", "upsert"}
      /\ Length(g) > 1 => g.t = "array"
  BY <1>2, UnwrappedIs DEF IsResult, Length
<1>4. Distorted(j) <=> select /\ IF N = 1 THEN j.req.unpack /\ Length(g) # 1
                                 ELSE j.req.unpack \/ \E i \in 1..N : Spreads(j, i)
  BY <1>1 DEF Distorted, HasAll, Spreads
<1>5. /\ IsSequence(r) /\ Len(r) \in Nat
      /\ Len(r) >= N
      /\ (\E i \in 1..N : Spreads(j, i)) => Len(r) > N
      /\ (\A i \in 1..N : ~Spreads(j, i)) =>
            Len(r) = N /\ \A i \in 1..N : r[i] = Shaped(j, ResultOf(j, i))
      /\ N = 1 => r = Pushed(j, g)
  BY SequenceIs DEF ResponseOK
<1>6. Promised(j) = IF N = 1 THEN PromisedOne(j, g)
                    ELSE Array([i \in 1..N |-> PromisedOne(j, ResultOf(j, i))])
  BY PromisedIs
<1>7. SlowResult(j) = IF Len(r) > 1 THEN Array(r)
                      ELSE IF Len(r) = 1 /\ j.req.unpack /\ select
                      THEN IF Length(r[1]) = 0 THEN Undefined ELSE Unwrapped(First(r[1]))
                      ELSE r[1]
  <2>1. CASE Len(r) > 1
    <3>1. Len(r) \in Nat
      BY <1>5
    <3>2. \A n \in Nat : n > 1 => n # 1
      OBVIOUS
    <3>3. Len(r) # 1
      BY <2>1, <3>1, <3>2, Zenon
    <3> QED
      BY <2>1, <3>3 DEF SlowResult
  <2>2. CASE ~(Len(r) > 1) /\ Len(r) = 1 /\ j.req.unpack /\ select
    BY <2>2 DEF SlowResult
  <2>3. CASE ~(Len(r) > 1) /\ ~(Len(r) = 1 /\ j.req.unpack /\ select)
    BY <2>3 DEF SlowResult
  <2> QED
    BY <2>1, <2>2, <2>3
<1>8. ~(j.req.unpack /\ select) =>
         \A i : PromisedOne(j, ResultOf(j, i)) = Shaped(j, ResultOf(j, i))
  BY <1>1, <1>2, ExecuteShape
<1>9. j.req.unpack /\ select => PromisedOne(j, g) = Unwrapped(First(g)) /\ Shaped(j, g) = g
  BY <1>1, ExecuteShape
<1>10. \A s : Array(s).t = "array" /\ Array(s).items = s
  BY DEF Array
<1> HIDE DEF r
<1>11. CASE N = 1 /\ Length(g) > 1
  <2>2. r = g.items /\ Len(r) > 1 /\ g = Array(r) /\ select
    BY <1>1, <1>2, <1>5, <1>11, PushedIs
  <2>3. SlowResult(j) = g
    BY <1>7, <2>2
  <2>4. CASE j.req.unpack
    BY <1>3, <1>4, <1>6, <1>9, <1>11, <2>2, <2>3, <2>4
  <2>5. CASE ~j.req.unpack
    <3>1. PromisedOne(j, g) = g
      BY <1>1, <2>5, ExecuteShape
    <3> QED
      BY <1>4, <1>6, <1>11, <2>3, <2>5, <3>1
  <2> QED
    BY <2>4, <2>5
<1>12. CASE N = 1 /\ ~(Length(g) > 1)
  <2>1. r = <<Shaped(j, g)>> /\ Len(r) = 1
    BY <1>1, <1>2, <1>5, <1>12, PushedIs
  <2>2. r[1] = Shaped(j, g)
    BY <2>1
  <2>3. CASE j.req.unpack /\ select
    <3>1. SlowResult(j) = IF Length(g) = 0 THEN Undefined ELSE Unwrapped(First(g))
      BY <1>7, <1>9, <2>1, <2>2, <2>3
    <3>2. Promised(j) = Unwrapped(First(g))
      BY <1>6, <1>9, <1>12, <2>3
    <3>3. Undefined # Null
      BY DEF Undefined, Null
    <3>4. Length(g) = 0 \/ Length(g) = 1
      BY <1>3, <1>12
    <3> QED
      BY <1>3, <1>4, <1>12, <2>3, <3>1, <3>2, <3>3, <3>4
  <2>4. CASE ~(j.req.unpack /\ select)
    <3>1. SlowResult(j) = Shaped(j, g)
      BY <1>7, <2>1, <2>2, <2>4
    <3>2. Promised(j) = Shaped(j, g)
      BY <1>6, <1>8, <1>12, <2>4
    <3> QED
      BY <1>4, <1>12, <2>4, <3>1, <3>2
  <2> QED
    BY <2>3, <2>4
<1>13. CASE N # 1
  <2> DEFINE a == [i \in 1..N |-> PromisedOne(j, ResultOf(j, i))]
  <2>1. a = [i \in 1..N |-> a[i]] /\ \A i \in 1..N : a[i] = PromisedOne(j, ResultOf(j, i))
    OBVIOUS
  <2>2. Promised(j) = Array(a)
    BY <1>6, <1>13
  <2> HIDE DEF a
  <2>3. Len(a) = N
    BY <1>1, <2>1, MapIsSequence
  <2>4. SlowResult(j) = Array(r)
    <3>1. Len(r) > 1
      BY <1>1, <1>5, <1>13
    <3> QED
      BY <1>7, <3>1
  <2>5. SlowResult(j) = Promised(j) <=> r = a
    BY <1>10, <2>2, <2>4
  <2>6. CASE \E i \in 1..N : Spreads(j, i)
    <3>1. r # a
      BY <1>1, <1>5, <2>3, <2>6
    <3>2. select
      BY <1>1, <1>2, <2>6, PushedIs DEF Spreads
    <3> QED
      BY <1>4, <1>13, <2>5, <2>6, <3>1, <3>2
  <2>7. CASE \A i \in 1..N : ~Spreads(j, i)
    <3>1. Len(r) = N /\ \A i \in 1..N : r[i] = Shaped(j, ResultOf(j, i))
      BY <1>5, <2>7
    <3>2. CASE j.req.unpack /\ select
      <4>1. r[1] = g /\ a[1] = Unwrapped(First(g))
        BY <1>1, <1>9, <2>1, <3>1, <3>2
      <4>2. r # a
        BY <1>3, <4>1
      <4> QED
        BY <1>4, <1>13, <2>5, <3>2, <4>2
    <3>3. CASE ~(j.req.unpack /\ select)
      <4>1. \A i \in 1..N : r[i] = a[i]
        BY <1>8, <2>1, <3>1, <3>3
      <4>2. r = [i \in 1..N |-> r[i]]
        BY <1>5, <3>1, SequenceIs
      <4>3. r = a
        BY <2>1, <4>1, <4>2
      <4> QED
        BY <1>4, <1>13, <2>5, <2>7, <3>3, <4>3
    <3> QED
      BY <3>2, <3>3
  <2> QED
    BY <2>6, <2>7
<1> QED
  BY <1>11, <1>12, <1>13

\* What the tables promise depends on what is asked and on the results.
LEMMA TableDecides ==
    ASSUME NEW j, NEW k, k.req = j.req, k.sets = j.sets, k.slow = j.slow,
           k.results = j.results
    PROVE  Promised(k) = Promised(j) /\ (Distorted(k) <=> Distorted(j))
<1>1. Count(k) = Count(j)
  BY AskDecides
<1>2. \A x : PromisedOne(k, x) = PromisedOne(j, x)
  BY ResultsDecided
<1> DEFINE a == [i \in 1..Count(k) |-> PromisedOne(k, k.results[i])]
           b == [i \in 1..Count(j) |-> PromisedOne(j, j.results[i])]
<1>3. /\ Promised(k) = IF Len(a) = 1 THEN a[1] ELSE Array(a)
      /\ Promised(j) = IF Len(b) = 1 THEN b[1] ELSE Array(b)
  BY DEF Promised
<1>4. a = b
  BY <1>1, <1>2
<1>5. Distorted(k) <=> Distorted(j)
  BY <1>1 DEF Distorted
<1> HIDE DEF a, b
<1> QED
  BY <1>3, <1>4, <1>5

\* A call that is not told a result and holds no connection owes nothing more.
LEMMA OweNoAnswer ==
    ASSUME NEW j, AnswerOK(j), NEW k, k.req = j.req, k.sets = j.sets,
           k.results = j.results, ~Got(k), k.pc \in {"fast", "done"}
    PROVE  AnswerOK(k)
BY AskDecides, ResultsDecided DEF AnswerOK, Holding

LEMMA AnswersStep ==
    ASSUME IInv, AInv, NEW c \in Call, NEW k, Becomes(c, k), AnswerOK(k)
    PROVE  AInv'
<1>1. \A d \in Call : job'[d] = IF d = c THEN k ELSE job[d]
  BY DEF IInv, JobsOK, Becomes
<1> QED
  BY <1>1 DEF AInv

LEMMA EnterAnswers ==
    ASSUME IInv, AInv, NEW c \in Call, NEW r \in Request[c], Enter(c, r)
    PROVE  AInv'
<1> DEFINE e == Entered(r)
<1>1. /\ DOMAIN e = DOMAIN NewJob /\ e.results = <<>> /\ e.response = <<>>
      /\ e.answer = NoAnswer /\ e.at = 1
  BY NewJobIs DEF Entered
<1>2. \E k : /\ Becomes(c, k) /\ DOMAIN k.results = {} /\ k.response = <<>> /\ k.at = 1
             /\ k.pc \in {"fast", "done", "acquire"}
             /\ k.answer \in {NoAnswer, Failure}
  <2>1. \/ Becomes(c, [e EXCEPT !.pc = "done", !.answer = Failure])
        \/ Becomes(c, [e EXCEPT !.pc = "fast"])
        \/ Becomes(c, [e EXCEPT !.pc = "acquire", !.slow = TRUE])
    BY DEF Enter, Entered
  <2> HIDE DEF e
  <2>2. DOMAIN <<>> = {}
    OBVIOUS
  <2> DEFINE k1 == [e EXCEPT !.pc = "done", !.answer = Failure]
             k2 == [e EXCEPT !.pc = "fast"]
             k3 == [e EXCEPT !.pc = "acquire", !.slow = TRUE]
             Fresh(k) == /\ DOMAIN k.results = {} /\ k.response = <<>> /\ k.at = 1
                         /\ k.pc \in {"fast", "done", "acquire"}
                         /\ k.answer \in {NoAnswer, Failure}
  <2>3. Fresh(k1)
    BY <1>1, <2>2, NewJobIs
  <2>4. Fresh(k2)
    BY <1>1, <2>2, NewJobIs
  <2>5. Fresh(k3)
    BY <1>1, <2>2, NewJobIs
  <2>6. Becomes(c, k1) \/ Becomes(c, k2) \/ Becomes(c, k3)
    BY <2>1
  <2> HIDE DEF k1, k2, k3
  <2> QED
    BY <2>3, <2>4, <2>5, <2>6
<1>3. PICK k : /\ Becomes(c, k) /\ DOMAIN k.results = {} /\ k.response = <<>> /\ k.at = 1
               /\ k.pc \in {"fast", "done", "acquire"}
               /\ k.answer \in {NoAnswer, Failure}
  BY <1>2
<1>4. ~Got(k)
  BY <1>3 DEF Got, Given
<1>5. k.pc = "acquire" => Ready(k) = 0
  BY <1>3 DEF Ready
<1>6. ResponseOK(k, 0) /\ 1..0 = {}
  <2>1. IsSequence(<<>>) /\ Len(<<>>) = 0 /\ 1..0 = {}
    BY DEF IsSequence
  <2> QED
    BY <1>3, <2>1 DEF ResponseOK
<1>7. AnswerOK(k)
  BY <1>3, <1>4, <1>5, <1>6 DEF AnswerOK, Holding
<1> QED
  BY <1>3, <1>7, AnswersStep

LEMMA ThrowAnswers ==
    ASSUME IInv, AInv, NEW c \in Call, Throw(c), job[c].pc # "idle", ~Got(job[c])
    PROVE  AInv'
<1> DEFINE j == job[c]
           k == Thrown(j)
<1>1. JobOK(c, j) /\ AnswerOK(j)
  BY DEF IInv, AInv, JobsOK, CallOK
<1>2. Becomes(c, k)
  BY DEF Throw, Thrown, Answered, Given
<1>3. DOMAIN j = DOMAIN NewJob /\ (Given(j) => j.pc = "done")
  BY <1>1 DEF JobOK
<1> HIDE DEF j
<1>4. /\ k.req = j.req /\ k.sets = j.sets /\ k.results = j.results /\ k.pc = "done"
      /\ k.answer = Failure \/ k.answer = j.answer
  BY <1>3, NewJobIs DEF Thrown
<1> HIDE DEF k
<1>5. ~Got(k)
  BY <1>4 DEF Got, Given, j
<1> QED
  BY <1>1, <1>2, <1>4, <1>5, OweNoAnswer, AnswersStep

LEMMA FailsAnswers ==
    ASSUME IInv, AInv, NEW c \in Call, NEW item, NEW o \in Conn, Fails(c, item, o)
    PROVE  AInv'
<1> DEFINE j == job[c]
<1>1. JobsOK /\ PoolOK /\ AnswerOK(j)
  BY DEF IInv, AInv
<1>2. Pends(c, item)
  BY DEF Fails, Pends
<1>3. ~Got(j) /\ DOMAIN j = DOMAIN NewJob
  BY <1>1, <1>2, ItemIs DEF CallOK, JobOK
<1>4. PICK m : Becomes(c, [j EXCEPT !.executed = @ \o [i \in 1..m |-> Execution(j, i)],
                                    !.pc = "done",
                                    !.answer = IF Answered(c) THEN @ ELSE Failure])
  BY DEF Fails
<1> DEFINE k == [j EXCEPT !.executed = @ \o [i \in 1..m |-> Execution(j, i)],
                          !.pc = "done",
                          !.answer = IF Answered(c) THEN @ ELSE Failure]
<1> HIDE DEF j
<1>5. /\ k.req = j.req /\ k.sets = j.sets /\ k.results = j.results /\ k.pc = "done"
      /\ k.answer = Failure \/ k.answer = j.answer
  BY <1>3, NewJobIs
<1> HIDE DEF k
<1>6. ~Got(k)
  BY <1>3, <1>5 DEF Got, Given
<1>7. AnswerOK(k)
  BY <1>1, <1>5, <1>6, OweNoAnswer
<1> QED
  BY <1>4, <1>7, AnswersStep DEF k

LEMMA DoneAnswers ==
    ASSUME IInv, AInv, NEW c \in Call, NEW item, NEW o \in Conn, Done(c, item, o)
    PROVE  AInv'
<1> DEFINE j == job[c]
           ran == Range(SetsOf(j, item))
           more == [n \in DOMAIN SetsOf(j, item) |-> Execution(j, SetsOf(j, item)[n])]
           got == ResultsWith(j, ran)
           e == [j EXCEPT !.executed = @ \o more, !.results = got]
           a == FastResult(e)
           f == [e EXCEPT !.pc = "done", !.logged = Append(@, Clock(c, 0)), !.answer = a]
<1>1. JobsOK /\ PoolOK /\ AnswerOK(j)
  BY DEF IInv, AInv
<1>2. Pends(c, item)
  BY DEF Done, Pends
<1>3. /\ ~Got(j) /\ DOMAIN j = DOMAIN NewJob /\ j.pc \in {"fast", "done"} /\ ~j.slow
      /\ j.req \in Request[c] /\ Count(j) \in Nat \ {0} /\ item \in Items(j)
  BY <1>1, <1>2, ItemIs DEF CallOK, JobOK
<1>4. Becomes(c, e) \/ (Becomes(c, f) /\ DOMAIN e.results = 1..Count(j))
  BY DEF Done
<1>5. ran \subseteq 1..Count(j)
  <2>1. item = 0 \/ item \in 1..Count(j)
    BY <1>3, ItemsAre
  <2> HIDE DEF j
  <2>2. CASE item = 0
    BY <2>2 DEF SetsOf, Range
  <2>3. CASE item # 0
    <3>1. SetsOf(j, item) = <<item>>
      BY <2>3 DEF SetsOf
    <3> QED
      BY <2>1, <2>3, <3>1 DEF Range
  <2> QED
    BY <2>2, <2>3
<1> HIDE DEF j, ran, more
<1>6. /\ DOMAIN got \subseteq 1..Count(j)
      /\ \A i \in DOMAIN got : got[i] = ResultOf(j, i)
  BY <1>1, <1>5 DEF ResultsWith, AnswerOK
<1> HIDE DEF got, a
<1>7. /\ DOMAIN e = DOMAIN NewJob /\ e.req = j.req /\ e.sets = j.sets /\ e.results = got
      /\ e.slow = j.slow /\ e.pc = j.pc /\ e.answer = j.answer
  BY <1>3, NewJobIs
<1> HIDE DEF e
<1>8. /\ f.req = e.req /\ f.sets = e.sets /\ f.results = got
      /\ f.slow = e.slow /\ f.pc = "done" /\ f.answer = a
  BY <1>7, NewJobIs
<1> HIDE DEF f
<1>9. Count(e) = Count(j) /\ \A i : ResultOf(e, i) = ResultOf(j, i)
  BY <1>7, AskDecides, ResultsDecided
<1>10. AnswerOK(e)
  <2>1. ~Got(e)
    BY <1>3, <1>7 DEF Got, Given
  <2> QED
    BY <1>3, <1>6, <1>7, <1>9, <2>1 DEF AnswerOK, Holding
<1>11. ASSUME DOMAIN e.results = 1..Count(j) PROVE AnswerOK(f)
  <2>1. HasAll(c, e)
    BY <1>3, <1>6, <1>7, <1>9, <1>11 DEF HasAll
  <2>2. a = Promised(e)
    BY <2>1, FastAnswer DEF a
  <2>3. Promised(f) = Promised(e) /\ ~Distorted(f)
    BY <1>3, <1>7, <1>8, TableDecides DEF Distorted
  <2>4. Count(f) = Count(e) /\ \A i : ResultOf(f, i) = ResultOf(e, i)
    BY <1>8, AskDecides, ResultsDecided
  <2> QED
    BY <1>6, <1>8, <1>9, <2>2, <2>3, <2>4 DEF AnswerOK, Holding
<1> QED
  BY <1>4, <1>10, <1>11, AnswersStep

LEMMA AcquireAnswers ==
    ASSUME IInv, AInv, NEW c \in Call, NEW o \in Conn, Acquire(c, o)
    PROVE  AInv'
<1> DEFINE j == job[c]
           place == IF debug.on /\ job[c].req.resource \in debug.listed
                    THEN "setup" ELSE "statement"
           k == [j EXCEPT !.conn = o, !.pc = place]
<1>1. /\ JobOK(c, j) /\ AnswerOK(j) /\ j.pc = "acquire" /\ Becomes(c, k)
  BY DEF IInv, AInv, JobsOK, CallOK, Acquire
<1>2. place \in {"setup", "statement"}
  OBVIOUS
<1> HIDE DEF j, place
<1>3. /\ k.req = j.req /\ k.sets = j.sets /\ k.results = j.results
      /\ k.response = j.response /\ k.at = j.at /\ k.pc = place /\ k.answer = j.answer
  BY <1>1, NewJobIs DEF JobOK
<1> HIDE DEF k
<1>4. ~Got(k)
  BY <1>1, <1>3 DEF JobOK, Got, Given
<1>5. AnswerOK(k)
  <2>1. Ready(k) = Ready(j)
    BY <1>1, <1>2, <1>3 DEF Ready
  <2>2. j.pc \in Holding \cup {"acquire"}
    BY <1>1
  <2>3. /\ DOMAIN j.results = 1..Ready(j)
        /\ j.req.via = "execute" => ResponseOK(j, Ready(j))
    BY <1>1, <2>2 DEF AnswerOK
  <2>4. ResponseOK(j, Ready(j)) => ResponseOK(k, Ready(j))
    BY <1>3, ResultsDecided DEF ResponseOK
  <2> QED
    BY <1>1, <1>3, <1>4, <2>1, <2>3, <2>4, AskDecides, ResultsDecided DEF AnswerOK
<1> QED
  BY <1>1, <1>5, AnswersStep

LEMMA ProfilerSetAnswers ==
    ASSUME IInv, AInv, NEW c \in Call, ProfilerSet(c)
    PROVE  AInv'
<1> DEFINE j == job[c]
           k == [j EXCEPT !.pc = "statement", !.profiled = TRUE]
<1>1. /\ JobOK(c, j) /\ AnswerOK(j) /\ j.pc = "setup" /\ Becomes(c, k)
  BY DEF IInv, AInv, JobsOK, CallOK, ProfilerSet
<1> HIDE DEF j
<1>2. /\ k.req = j.req /\ k.sets = j.sets /\ k.results = j.results
      /\ k.response = j.response /\ k.at = j.at /\ k.pc = "statement" /\ k.answer = j.answer
  BY <1>1, NewJobIs DEF JobOK
<1> HIDE DEF k
<1>3. ~Got(k)
  BY <1>1, <1>2 DEF JobOK, Got, Given
<1>4. AnswerOK(k)
  <2>1. Ready(k) = Ready(j)
    BY <1>1, <1>2 DEF Ready
  <2>2. j.pc \in Holding
    BY <1>1 DEF Holding
  <2>3. /\ DOMAIN j.results = 1..Ready(j)
        /\ j.req.via = "execute" => ResponseOK(j, Ready(j))
    BY <1>1, <2>2 DEF AnswerOK
  <2>4. ResponseOK(j, Ready(j)) => ResponseOK(k, Ready(j))
    BY <1>2, ResultsDecided DEF ResponseOK
  <2> QED
    BY <1>1, <1>2, <1>3, <2>1, <2>3, <2>4, AskDecides, ResultsDecided DEF AnswerOK
<1> QED
  BY <1>1, <1>4, AnswersStep

\* A call that has the result of the statement it stands at.
HasThis(c, j) ==
    /\ DOMAIN j = DOMAIN NewJob /\ j.slow /\ j.req \in Request[c] /\ j.req.via = "execute"
    /\ Count(j) \in Nat \ {0} /\ j.at \in 1..Count(j) /\ ~Given(j)
    /\ DOMAIN j.results = 1..j.at
    /\ \A i \in 1..j.at : j.results[i] = ResultOf(j, i)
    /\ ResponseOK(j, j.at)

LEMMA ContinueAnswers ==
    ASSUME NEW c \in Call, NEW j, HasThis(c, j)
    PROVE  AnswerOK(Continue(j))
<1> DEFINE a == SlowResult(j)
           d == [j EXCEPT !.pc = "done", !.conn = NoConn, !.answer = a]
           n == [j EXCEPT !.pc = "statement", !.at = @ + 1]
<1>1. Continue(j) = IF j.at = Count(j) THEN d ELSE n
  BY DEF Continue, IsLast
<1> HIDE DEF a
<1>2. /\ d.req = j.req /\ d.sets = j.sets /\ d.slow = j.slow /\ d.results = j.results
      /\ d.pc = "done" /\ d.answer = a
  BY NewJobIs DEF HasThis
<1>3. /\ n.req = j.req /\ n.sets = j.sets /\ n.results = j.results
      /\ n.response = j.response /\ n.answer = j.answer
      /\ n.pc = "statement" /\ n.at = j.at + 1
  BY NewJobIs DEF HasThis
<1> HIDE DEF d, n
<1>4. CASE j.at = Count(j)
  <2>1. HasAll(c, j) /\ ResponseOK(j, Count(j))
    BY <1>4 DEF HasThis, HasAll
  <2>2. a = Promised(j) <=> ~Distorted(j)
    BY <2>1, SlowAnswer DEF HasThis, a
  <2>3. Promised(d) = Promised(j) /\ (Distorted(d) <=> Distorted(j))
    BY <1>2, TableDecides
  <2>4. Count(d) = Count(j) /\ \A i : ResultOf(d, i) = ResultOf(j, i)
    BY <1>2, AskDecides, ResultsDecided
  <2>5. AnswerOK(d)
    BY <1>2, <2>1, <2>2, <2>3, <2>4 DEF AnswerOK, HasAll, Holding
  <2> QED
    BY <1>1, <1>4, <2>5
<1>5. CASE j.at # Count(j)
  <2>1. Ready(n) = j.at /\ ~Got(n)
    BY <1>3 DEF Ready, HasThis, Got, Given
  <2>2. Count(n) = Count(j) /\ \A i : ResultOf(n, i) = ResultOf(j, i)
    BY <1>3, AskDecides, ResultsDecided
  <2>3. ResponseOK(n, j.at)
    BY <1>3, ResultsDecided DEF ResponseOK, HasThis
  <2>4. 1..j.at \subseteq 1..Count(j)
    BY DEF HasThis
  <2>5. AnswerOK(n)
    BY <1>3, <2>1, <2>2, <2>3, <2>4 DEF AnswerOK, HasThis
  <2> QED
    BY <1>1, <1>5, <2>5
<1> QED
  BY <1>4, <1>5

LEMMA StatementAnswers ==
    ASSUME IInv, AInv, NEW c \in Call, StatementDone(c)
    PROVE  AInv'
<1> DEFINE j == job[c]
           m == j.at - 1
           x == Execution(j, j.at)
           got == ResultsWith(j, {j.at})
           more == Pushed(j, ResultOf(j, j.at))
           j2 == [j EXCEPT !.executed = Append(@, x), !.results = got]
           j3 == [j2 EXCEPT !.response = @ \o more]
           j4 == [j3 EXCEPT !.logged = Append(@, Clock(c, j.at))]
           k2 == [j2 EXCEPT !.pc = "probe"]
           k3 == [j3 EXCEPT !.pc = "flush"]
<1>1. /\ JobOK(c, j) /\ AnswerOK(j) /\ j.pc = "statement"
  BY DEF IInv, AInv, JobsOK, CallOK, StatementDone
<1>2. /\ DOMAIN j = DOMAIN NewJob /\ j.slow /\ ~Given(j) /\ j.req \in Request[c]
      /\ Count(j) \in Nat \ {0} /\ j.at \in 1..Count(j) /\ j.at \in Nat
      /\ m \in Nat /\ m + 1 = j.at
  BY <1>1, SetsAre DEF JobOK, Holding
<1>3. /\ DOMAIN j.results = 1..m
      /\ \A i \in 1..m : j.results[i] = ResultOf(j, i)
      /\ j.req.via = "execute" => ResponseOK(j, m)
  BY <1>1 DEF AnswerOK, Ready, Holding
<1>4. \/ j.req.via = "query" /\ Becomes(c, k2)
      \/ j.req.via = "execute" /\ Becomes(c, k3)
      \/ j.req.via = "execute" /\ Becomes(c, Continue(j3))
      \/ j.req.via = "execute" /\ Becomes(c, Continue(j4))
  BY DEF StatementDone
<1> HIDE DEF j, x
<1>5. DOMAIN got = 1..j.at /\ \A i \in 1..j.at : got[i] = ResultOf(j, i)
  <2>1. 1..m \cup {j.at} = 1..j.at /\ \A i \in 1..j.at : i = j.at \/ i \in 1..m
    BY <1>2
  <2>2. got = [i \in 1..j.at |-> IF i \in {j.at} THEN ResultOf(j, i) ELSE j.results[i]]
    BY <1>3, <2>1 DEF ResultsWith
  <2> HIDE DEF m
  <2> QED
    BY <1>3, <2>1, <2>2
<1> HIDE DEF got, more, m
<1>6. /\ DOMAIN j2 = DOMAIN NewJob /\ j2.req = j.req /\ j2.sets = j.sets
      /\ j2.slow = j.slow /\ j2.at = j.at /\ j2.answer = j.answer
      /\ j2.results = got /\ j2.response = j.response
  BY <1>2, NewJobIs
<1> HIDE DEF j2
<1>7. /\ DOMAIN j3 = DOMAIN NewJob /\ j3.req = j.req /\ j3.sets = j.sets
      /\ j3.slow = j.slow /\ j3.at = j.at /\ j3.answer = j.answer
      /\ j3.results = got /\ j3.response = j.response \o more
  BY <1>6, NewJobIs
<1> HIDE DEF j3
<1>8. /\ DOMAIN j4 = DOMAIN NewJob /\ j4.req = j.req /\ j4.sets = j.sets
      /\ j4.slow = j.slow /\ j4.at = j.at /\ j4.answer = j.answer
      /\ j4.results = got /\ j4.response = j.response \o more
  BY <1>7, NewJobIs
<1> HIDE DEF j4
<1>9. ASSUME NEW e, j.req.via = "execute",
             DOMAIN e = DOMAIN NewJob, e.req = j.req, e.sets = j.sets,
             e.slow = j.slow, e.at = j.at, e.answer = j.answer,
             e.results = got, e.response = j.response \o more
      PROVE  HasThis(c, e)
  <2>1. ResponseOK(e, m + 1)
    <3>1. e.response = j.response \o Pushed(j, ResultOf(j, m + 1))
      BY <1>2, <1>9 DEF more
    <3> QED
      BY <1>2, <1>3, <1>9, <3>1, ResponseGrows
  <2>2. Count(e) = Count(j) /\ \A i : ResultOf(e, i) = ResultOf(j, i)
    BY <1>9, AskDecides, ResultsDecided
  <2> QED
    BY <1>2, <1>5, <1>9, <2>1, <2>2 DEF HasThis, Given
<1>10. CASE j.req.via = "query" /\ Becomes(c, k2)
  <2>1. /\ k2.req = j.req /\ k2.sets = j.sets /\ k2.at = j.at /\ k2.answer = j.answer
        /\ k2.results = got /\ k2.pc = "probe"
    BY <1>6, NewJobIs
  <2> HIDE DEF k2
  <2>2. Ready(k2) = j.at /\ ~Got(k2)
    BY <1>2, <2>1 DEF Ready, Got, Given
  <2>3. Count(k2) = Count(j) /\ \A i : ResultOf(k2, i) = ResultOf(j, i)
    BY <2>1, AskDecides, ResultsDecided
  <2>4. 1..j.at \subseteq 1..Count(j)
    BY <1>2
  <2>5. AnswerOK(k2)
    BY <1>5, <1>10, <2>1, <2>2, <2>3, <2>4 DEF AnswerOK
  <2> QED
    BY <1>10, <2>5, AnswersStep
<1>11. CASE j.req.via = "execute" /\ Becomes(c, k3)
  <2>1. /\ k3.req = j3.req /\ k3.sets = j3.sets /\ k3.at = j3.at /\ k3.answer = j3.answer
        /\ k3.results = j3.results /\ k3.response = j3.response /\ k3.pc = "flush"
    BY <1>7, NewJobIs
  <2> HIDE DEF k3
  <2>2. HasThis(c, j3)
    BY <1>7, <1>9, <1>11
  <2>3. Ready(k3) = j3.at /\ ~Got(k3)
    BY <2>1, <2>2 DEF Ready, HasThis, Got, Given
  <2>4. Count(k3) = Count(j3) /\ \A i : ResultOf(k3, i) = ResultOf(j3, i)
    BY <2>1, AskDecides, ResultsDecided
  <2>5. ResponseOK(k3, j3.at)
    BY <2>1, <2>2, ResultsDecided DEF ResponseOK, HasThis
  <2>6. 1..j3.at \subseteq 1..Count(j3)
    BY <2>2 DEF HasThis
  <2>7. AnswerOK(k3)
    BY <2>1, <2>2, <2>3, <2>4, <2>5, <2>6 DEF AnswerOK, HasThis
  <2> QED
    BY <1>11, <2>7, AnswersStep
<1>12. CASE j.req.via = "execute" /\ Becomes(c, Continue(j3))
  <2>1. AnswerOK(Continue(j3))
    BY <1>7, <1>9, <1>12, ContinueAnswers
  <2> QED
    BY <1>12, <2>1, AnswersStep
<1>13. CASE j.req.via = "execute" /\ Becomes(c, Continue(j4))
  <2>1. AnswerOK(Continue(j4))
    BY <1>8, <1>9, <1>13, ContinueAnswers
  <2> QED
    BY <1>13, <2>1, AnswersStep
<1> QED
  BY <1>4, <1>10, <1>11, <1>12, <1>13

LEMMA FlushAnswers ==
    ASSUME IInv, LInv, AInv, NEW c \in Call, FlushDone(c)
    PROVE  AInv'
<1> DEFINE j == job[c]
           h == session[j.conn].history
           offset == IF j.at - 1 < Window THEN 0 ELSE j.at - 1
           more == j.logged \o [n \in DOMAIN h |-> Entry(offset + n, <<h[n]>>)]
           e == [j EXCEPT !.logged = more]
<1>1. /\ JobOK(c, j) /\ LoggedOK(c, j) /\ AnswerOK(j)
      /\ j.pc = "flush" /\ Becomes(c, Continue(e))
  BY DEF IInv, LInv, AInv, JobsOK, CallOK, FlushDone
<1>2. /\ DOMAIN j = DOMAIN NewJob /\ j.slow /\ ~Given(j) /\ j.req \in Request[c]
      /\ j.req.via = "execute"
      /\ Count(j) \in Nat \ {0} /\ j.at \in 1..Count(j)
  BY <1>1, SetsAre DEF JobOK, LoggedOK, Holding
<1>3. /\ DOMAIN j.results = 1..j.at
      /\ \A i \in 1..j.at : j.results[i] = ResultOf(j, i)
      /\ ResponseOK(j, j.at)
  BY <1>1, <1>2 DEF AnswerOK, Ready, Holding
<1> HIDE DEF j, more
<1>4. /\ DOMAIN e = DOMAIN NewJob /\ e.req = j.req /\ e.sets = j.sets
      /\ e.slow = j.slow /\ e.at = j.at /\ e.answer = j.answer
      /\ e.results = j.results /\ e.response = j.response
  BY <1>2, NewJobIs
<1> HIDE DEF e
<1>5. Count(e) = Count(j) /\ \A i : ResultOf(e, i) = ResultOf(j, i)
  BY <1>4, AskDecides, ResultsDecided
<1>6. ResponseOK(e, j.at)
  BY <1>3, <1>4, ResultsDecided DEF ResponseOK
<1>7. HasThis(c, e)
  BY <1>2, <1>3, <1>4, <1>5, <1>6 DEF HasThis, Given
<1> QED
  BY <1>1, <1>7, ContinueAnswers, AnswersStep

LEMMA ProbeAnswers ==
    ASSUME IInv, LInv, AInv, NEW c \in Call, ProbeDone(c)
    PROVE  AInv'
<1> DEFINE j == job[c]
           entry == Entry(1, session[j.conn].history)
           a == parseResponse(Type(j.req), j.results[1])
           k == [j EXCEPT !.pc = "done", !.conn = NoConn,
                          !.logged = Append(@, entry), !.answer = a]
<1>1. /\ JobOK(c, j) /\ ProgressOK(j) /\ LoggedOK(c, j) /\ AnswerOK(j)
      /\ j.pc = "probe" /\ Becomes(c, k)
  BY DEF IInv, LInv, AInv, JobsOK, CallOK, ProbeDone
<1>2. /\ DOMAIN j = DOMAIN NewJob /\ j.req \in Request[c] /\ j.req.via = "query"
      /\ Count(j) = 1 /\ j.at = 1
  BY <1>1, QueryHasOneSet DEF JobOK, ProgressOK, LoggedOK
<1>3. DOMAIN j.results = 1..1 /\ \A i \in 1..1 : j.results[i] = ResultOf(j, i)
  BY <1>1, <1>2 DEF AnswerOK, Ready, Holding
<1> HIDE DEF j, entry
<1>4. HasAll(c, j)
  BY <1>2, <1>3 DEF HasAll
<1>5. a = Promised(j)
  <2>1. Promised(j) = PromisedOne(j, ResultOf(j, 1))
    BY <1>2, <1>4, PromisedIs
  <2>2. j.results[1] = ResultOf(j, 1)
    BY <1>3
  <2> QED
    BY <1>2, <2>1, <2>2, ResultIs, QueryShape
<1> HIDE DEF a
<1>6. /\ k.req = j.req /\ k.sets = j.sets /\ k.slow = j.slow /\ k.results = j.results
      /\ k.pc = "done" /\ k.answer = a
  BY <1>2, NewJobIs
<1> HIDE DEF k
<1>7. Promised(k) = Promised(j) /\ ~Distorted(k)
  BY <1>2, <1>6, TableDecides DEF Distorted
<1>8. Count(k) = Count(j) /\ \A i : ResultOf(k, i) = ResultOf(j, i)
  BY <1>6, AskDecides, ResultsDecided
<1>9. AnswerOK(k)
  BY <1>2, <1>3, <1>5, <1>6, <1>7, <1>8 DEF AnswerOK, Holding
<1> QED
  BY <1>1, <1>9, AnswersStep

LEMMA InitAInv == Init => AInv
<1> SUFFICES ASSUME Init, NEW c \in Call PROVE AnswerOK(job[c])
  BY DEF AInv
<1>1. job[c] = NewJob /\ DOMAIN <<>> = {}
  BY DEF Init
<1>2. ~Got(NewJob)
  BY NewJobIs DEF Got, Given
<1> QED
  BY <1>1, <1>2, NewJobIs DEF AnswerOK, Holding

LEMMA AnswersNextStep ==
    ASSUME IInv, LInv, AInv, [Next]_vars
    PROVE  AInv'
<1>1. CASE \E c \in Call : \E r \in Request[c] : Enter(c, r)
  BY <1>1, EnterAnswers
<1>2. CASE \E q \in queue : NotLent(q[1], q[2])
  <2>1. PICK q \in queue : NotLent(q[1], q[2])
    BY <1>2
  <2>2. q[1] \in Call /\ Pends(q[1], q[2]) /\ Throw(q[1])
    BY <2>1 DEF NotLent, Pends, IInv, PoolOK, Exclusive
  <2>3. job[q[1]].pc # "idle" /\ ~Got(job[q[1]])
    BY <2>2, ItemIs DEF IInv
  <2> QED
    BY <2>2, <2>3, ThrowAnswers
<1>3. CASE \E w \in running : Done(w[1], w[2], w[3]) \/ Fails(w[1], w[2], w[3])
  <2>1. PICK w \in running : Done(w[1], w[2], w[3]) \/ Fails(w[1], w[2], w[3])
    BY <1>3
  <2>2. w[1] \in Call /\ w[3] \in Conn
    BY DEF IInv, PoolOK, Exclusive
  <2> QED
    BY <2>1, <2>2, DoneAnswers, FailsAnswers
<1>4. CASE \E c \in Call, o \in Conn : Acquire(c, o)
  BY <1>4, AcquireAnswers
<1>5. CASE \E c \in Call : AcquireFails(c) \/ SlowFails(c) \/ ProfilerFails(c)
  <2>1. PICK c \in Call : AcquireFails(c) \/ SlowFails(c) \/ ProfilerFails(c)
    BY <1>5
  <2>2. Throw(c) /\ job[c].pc \in {"acquire", "setup", "statement", "probe", "flush"}
    BY <2>1 DEF AcquireFails, SlowFails, ProfilerFails
  <2>3. ~Got(job[c])
    BY <2>2 DEF IInv, JobsOK, CallOK, JobOK, Got
  <2> QED
    BY <2>2, <2>3, ThrowAnswers
<1>6. CASE \E c \in Call : \/ ProfilerSet(c) \/ StatementDone(c) \/ ProbeDone(c)
                           \/ FlushDone(c)
  BY <1>6, ProfilerSetAnswers, StatementAnswers, ProbeAnswers, FlushAnswers
<1>7. CASE \/ \E q \in queue, k \in Conn : Lend(q[1], q[2], k)
           \/ UpdateDebug \/ UNCHANGED vars
  <2>1. job' = job
    BY <1>7 DEF Lend, UpdateDebug, vars
  <2> QED
    BY <2>1 DEF AInv
<1> QED
  BY <1>1, <1>2, <1>3, <1>4, <1>5, <1>6, <1>7 DEF Next

\* Whichever of the ways through the handlers a call takes, it is told what the
\* tables of the compatibility matrix say for its method; where the dedicated
\* connection departs from them is what Distorted says, no more and no less.
THEOREM AnswersByTheTable == SafeSpec => []AnswerFollowsTable
<1>1. AInv => AnswerFollowsTable
  BY DEF AInv, AnswerOK, AnswerFollowsTable, Told, Answered, Got, Given
<1>2. Init => AInv
  BY InitAInv
<1>3. IInv /\ LInv /\ AInv /\ [Next]_vars => AInv'
  BY AnswersNextStep
<1>4. SafeSpec => []AInv
  BY <1>2, <1>3, Inductive, LogsInductive, PTL DEF SafeSpec
<1> QED
  BY <1>1, <1>4, PTL

-----------------------------------------------------------------------------
(* Values *)

\* For every width: an integer column is given as it is with the flag, as a
\* number exactly as long as doubles have no gaps, and without the flag as long
\* as it is in that range; NULL stays NULL.
THEOREM BigintsExact == BigintSurvives
<1> USE DEF CastBigint, NextBigint, bigintToSafeNumberOrString, ToNumber, Number, BigInt,
            Text, Null, Exactly
<1>1. SafeMax \in Nat /\ SafeMax > 0
  BY WidthAssumption
<1>2. \A n \in Int : Magnitude(n) <= SafeMax <=> -SafeMax <= n /\ n <= SafeMax
  BY <1>1 DEF Magnitude
<1>3. ASSUME NEW n \in Int, Magnitude(n) <= SafeMax PROVE Rounded(n) = n
  BY <1>1, <1>3 DEF Rounded, Magnitude
<1>4. ASSUME NEW n \in Bigints
      PROVE  /\ Exactly(CastBigint(BigInt(n), TRUE, FALSE), n)
             /\ Magnitude(n) <= SafeMax =>
                   \A s \in BOOLEAN : CastBigint(BigInt(n), s, ~s) = Number(n)
             /\ Magnitude(n) <= SafeMax <=>
                   CastBigint(BigInt(n), TRUE, FALSE).t = "number"
  <2>1. n \in Int /\ BigInt(n) # Null
    BY <1>1 DEF Bigints
  <2>2. CASE Magnitude(n) <= SafeMax
    <3>1. -SafeMax <= n /\ n <= SafeMax /\ Rounded(n) = n
      BY <1>2, <1>3, <2>1, <2>2
    <3>2. CastBigint(BigInt(n), TRUE, FALSE) = Number(n)
      BY <2>1, <3>1
    <3>3. CastBigint(BigInt(n), FALSE, TRUE) = Number(n)
      BY <2>1, <3>1
    <3> QED
      BY <2>2, <3>2, <3>3
  <2>3. CASE ~(Magnitude(n) <= SafeMax)
    <3>1. ~(-SafeMax <= n /\ n <= SafeMax)
      BY <1>2, <2>1, <2>3
    <3>2. CastBigint(BigInt(n), TRUE, FALSE) = Text(n)
      BY <2>1, <3>1
    <3> QED
      BY <2>3, <3>2
  <2> QED
    BY <2>2, <2>3
<1> QED
  BY <1>4 DEF BigintSurvives

LEMMA BaseIs == Base \in Nat /\ Base > 0 /\ SafeMax \in Nat /\ NarrowBytes \in Nat
BY WidthAssumption

LEMMA TimesBase ==
    ASSUME NEW x \in Nat
    PROVE  /\ x * Base \in Nat /\ x * Base >= x
           /\ Base > 1 /\ x > 0 => x * Base > x
BY BaseIs

\* The value of a buffer's first i bytes is f[i].
Reads(f, buf, n) == f = [i \in 0..n |-> IF i = 0 THEN 0 ELSE f[i - 1] * Base + buf[i]]

LEMMA ReadExists ==
    ASSUME NEW n \in Nat, NEW buf
    PROVE  \E f : Reads(f, buf, n)
<1> DEFINE T == {m \in Nat : \E f : Reads(f, buf, m)}
<1>1. 0 \in T
  <2> DEFINE g == [i \in 0..0 |-> 0]
  <2>1. \A i \in 0..0 : i = 0
    OBVIOUS
  <2>2. Reads(g, buf, 0)
    BY <2>1 DEF Reads
  <2> QED
    BY <2>2
<1>2. ASSUME NEW m \in T PROVE m + 1 \in T
  <2>1. PICK f : Reads(f, buf, m)
    OBVIOUS
  <2> DEFINE g == [i \in 0..(m + 1) |-> IF i = m + 1 THEN f[m] * Base + buf[m + 1] ELSE f[i]]
  <2>2. \A i \in 0..m : f[i] = IF i = 0 THEN 0 ELSE f[i - 1] * Base + buf[i]
    BY <2>1 DEF Reads
  <2>3. ASSUME NEW i \in 0..(m + 1)
        PROVE  g[i] = IF i = 0 THEN 0 ELSE g[i - 1] * Base + buf[i]
    <3>1. CASE i = m + 1
      <4>1. i # 0 /\ i - 1 = m /\ m \in 0..(m + 1) /\ m # m + 1
        BY <3>1
      <4> QED
        BY <3>1, <4>1
    <3>2. CASE i # m + 1
      <4>1. i \in 0..m /\ (i # 0 => i - 1 \in 0..(m + 1) /\ i - 1 # m + 1)
        BY <3>2
      <4>2. g[i] = f[i] /\ (i # 0 => g[i - 1] = f[i - 1])
        BY <3>2, <4>1
      <4> HIDE DEF g
      <4> QED
        BY <2>2, <4>1, <4>2
    <3> QED
      BY <3>1, <3>2
  <2>4. g = [i \in 0..(m + 1) |-> g[i]]
    OBVIOUS
  <2> HIDE DEF g
  <2>5. Reads(g, buf, m + 1)
    BY <2>3, <2>4 DEF Reads
  <2> QED
    BY <2>5
<1>3. T = Nat
  <2> HIDE DEF T
  <2>1. T \in SUBSET Nat
    BY DEF T
  <2> QED
    BY <1>1, <1>2, <2>1, SetInduction
<1> QED
  BY <1>3

\* BigEndian is what its recursion says, for a buffer of any length.
LEMMA BigEndianReads ==
    ASSUME NEW n \in Nat, NEW buf \in [1..n -> Nat]
    PROVE  \E f \in [0..n -> Nat] :
              /\ f[0] = 0 /\ BigEndian(buf) = f[n]
              /\ \A i \in 1..n : f[i] = f[i - 1] * Base + buf[i]
<1> DEFINE f == CHOOSE f : Reads(f, buf, n)
<1>1. Reads(f, buf, n)
  BY ReadExists
<1>2. Len(buf) = n
  OBVIOUS
<1>3. BigEndian(buf) = f[n]
  BY <1>2 DEF BigEndian, Reads
<1> HIDE DEF f
<1>4. /\ f = [i \in 0..n |-> f[i]] /\ f[0] = 0
      /\ \A i \in 1..n : f[i] = f[i - 1] * Base + buf[i]
  <2>1. \A i \in 0..n : f[i] = IF i = 0 THEN 0 ELSE f[i - 1] * Base + buf[i]
    BY <1>1 DEF Reads
  <2>2. f = [i \in 0..n |-> f[i]]
    BY <1>1 DEF Reads
  <2>3. 0 \in 0..n /\ \A i \in 1..n : i # 0 /\ i \in 0..n
    OBVIOUS
  <2> QED
    BY <2>1, <2>2, <2>3
<1> DEFINE T == {m \in Nat : m <= n => f[m] \in Nat}
<1>5. ASSUME NEW m \in T PROVE m + 1 \in T
  <2>1. ASSUME m + 1 <= n PROVE f[m + 1] \in Nat
    <3>1. m + 1 \in 1..n /\ (m + 1) - 1 = m /\ f[m] \in Nat /\ buf[m + 1] \in Nat
      BY <2>1
    <3>2. f[m + 1] = f[m] * Base + buf[m + 1]
      BY <1>4, <3>1
    <3> HIDE DEF T
    <3>3. f[m] * Base \in Nat
      BY <3>1, TimesBase
    <3> QED
      BY <3>1, <3>2, <3>3
  <2> QED
    BY <2>1
<1>6. T = Nat
  <2>1. 0 \in T
    BY <1>4
  <2> HIDE DEF T
  <2>2. T \in SUBSET Nat
    BY DEF T
  <2> QED
    BY <1>5, <2>1, <2>2, SetInduction
<1>7. f \in [0..n -> Nat]
  <2>1. \A i \in 0..n : f[i] \in Nat
    BY <1>6
  <2> QED
    BY <1>4, <2>1
<1> QED
  BY <1>3, <1>4, <1>7

Buffer(n) == [1..n -> 0..(Base - 1)]

\* What is in reach of n bytes: Beyond(n) is a number that grows with n.
LEMMA BeyondReads ==
    ASSUME NEW n \in Nat
    PROVE  \E z \in [0..n -> Nat] :
              /\ z[0] = 1 /\ z[n] = Beyond(n)
              /\ \A i \in 1..n : z[i] = z[i - 1] * Base
<1> DEFINE buf == [i \in 1..n + 1 |-> IF i = 1 THEN 1 ELSE 0]
<1>1. n + 1 \in Nat /\ buf \in [1..n + 1 -> Nat]
  OBVIOUS
<1>2. buf[1] = 1 /\ \A i \in 2..n + 1 : buf[i] = 0
  OBVIOUS
<1>3. Beyond(n) = BigEndian(buf)
  BY DEF Beyond
<1> HIDE DEF buf
<1>4. PICK f \in [0..n + 1 -> Nat] :
          /\ f[0] = 0 /\ BigEndian(buf) = f[n + 1]
          /\ \A i \in 1..n + 1 : f[i] = f[i - 1] * Base + buf[i]
  BY <1>1, BigEndianReads
<1> DEFINE z == [i \in 0..n |-> f[i + 1]]
<1>5. z \in [0..n -> Nat] /\ z[n] = Beyond(n)
  BY <1>3, <1>4
<1>6. z[0] = 1
  <2>1. f[1] = f[1 - 1] * Base + buf[1] /\ 1 - 1 = 0
    BY <1>4
  <2>2. f[1] = 1
    BY <1>2, <1>4, <2>1, BaseIs
  <2> QED
    BY <2>2
<1>7. ASSUME NEW i \in 1..n PROVE z[i] = z[i - 1] * Base
  <2>1. i + 1 \in 2..n + 1 /\ i + 1 \in 1..n + 1 /\ (i + 1) - 1 = i /\ i \in 0..n + 1
        /\ i - 1 \in 0..n /\ (i - 1) + 1 = i /\ i \in 0..n
    OBVIOUS
  <2>2. f[i + 1] = f[i] * Base + 0
    BY <1>2, <1>4, <2>1
  <2>3. f[i] * Base + 0 = f[i] * Base
    BY <1>4, <2>1, BaseIs
  <2> QED
    BY <2>1, <2>2, <2>3
<1> QED
  BY <1>5, <1>6, <1>7

\* One byte more, at most, and the number it makes stays below the next power.
LEMMA NextByte ==
    ASSUME NEW x \in Nat, NEW p \in Nat, x < p, NEW d \in 0..(Base - 1)
    PROVE  x * Base + d \in Nat /\ x * Base + d < p * Base
BY BaseIs

\* A number of up to NarrowBytes bytes is in the safe range.
LEMMA NarrowIsSafe ==
    ASSUME NEW n \in 1..NarrowBytes, NEW buf \in Buffer(n)
    PROVE  BigEndian(buf) <= SafeMax
<1> DEFINE N == NarrowBytes
<1>1. n \in Nat /\ N \in Nat /\ n <= N /\ buf \in [1..n -> Nat]
  BY BaseIs DEF Buffer
<1>2. PICK f \in [0..n -> Nat] :
          /\ f[0] = 0 /\ BigEndian(buf) = f[n]
          /\ \A i \in 1..n : f[i] = f[i - 1] * Base + buf[i]
  BY <1>1, BigEndianReads
<1>3. PICK z \in [0..N -> Nat] :
          /\ z[0] = 1 /\ z[N] = Beyond(N)
          /\ \A i \in 1..N : z[i] = z[i - 1] * Base
  BY <1>1, BeyondReads
<1> HIDE DEF N
<1> DEFINE T == {m \in Nat : m <= n => f[m] < z[m]}
           U == {m \in Nat : n + m <= N => z[n] <= z[n + m]}
<1>4. n \in T
  <2>1. 0 \in T
    BY <1>1, <1>2, <1>3
  <2>2. ASSUME NEW m \in T PROVE m + 1 \in T
    <3>1. SUFFICES ASSUME m + 1 <= n PROVE f[m + 1] < z[m + 1]
      OBVIOUS
    <3>2. /\ m \in 0..n /\ m \in 0..N /\ m + 1 \in 1..n /\ m + 1 \in 1..N
          /\ (m + 1) - 1 = m
      BY <1>1, <3>1
    <3>3. /\ f[m] \in Nat /\ z[m] \in Nat /\ f[m] < z[m] /\ buf[m + 1] \in 0..(Base - 1)
      BY <1>2, <1>3, <3>2 DEF Buffer
    <3>4. f[m + 1] = f[m] * Base + buf[m + 1] /\ z[m + 1] = z[m] * Base
      BY <1>2, <1>3, <3>2
    <3> HIDE DEF T
    <3> QED
      BY <3>3, <3>4, NextByte
  <2>3. T \in SUBSET Nat
    OBVIOUS
  <2> HIDE DEF T
  <2> QED
    BY <1>1, <2>1, <2>2, <2>3, SetInduction
<1>5. N - n \in U
  <2>1. 0 \in U
    BY <1>1, <1>3
  <2>2. ASSUME NEW m \in U PROVE m + 1 \in U
    <3>1. SUFFICES ASSUME n + (m + 1) <= N PROVE z[n] <= z[n + (m + 1)]
      OBVIOUS
    <3>2. /\ n \in 0..N /\ n + m \in 0..N /\ n + (m + 1) \in 1..N
          /\ (n + (m + 1)) - 1 = n + m
      BY <1>1, <3>1
    <3>3. /\ z[n] \in Nat /\ z[n + m] \in Nat /\ z[n] <= z[n + m]
      BY <1>1, <1>3, <3>1, <3>2
    <3>4. z[n + (m + 1)] = z[n + m] * Base
      BY <1>3, <3>2
    <3> HIDE DEF U
    <3> QED
      BY <3>3, <3>4, BaseIs
  <2>3. U \in SUBSET Nat
    OBVIOUS
  <2>4. N - n \in Nat
    BY <1>1
  <2> HIDE DEF U
  <2> QED
    BY <2>1, <2>2, <2>3, <2>4, SetInduction
<1>6. f[n] < z[n] /\ z[n] <= z[N] /\ {f[n], z[n], z[N]} \subseteq Nat
  BY <1>1, <1>2, <1>3, <1>4, <1>5
<1>7. z[N] <= SafeMax + 1
  BY <1>3, WidthAssumption DEF N
<1> QED
  BY <1>2, <1>6, <1>7, BaseIs

\* The first byte is the whole number if there is no other, or if it is zero.
LEMMA FirstByte ==
    ASSUME NEW n \in Nat \ {0}, NEW buf \in Buffer(n)
    PROVE  /\ BigEndian(buf) \in Nat
           /\ BigEndian(buf) = buf[1] <=> n = 1 \/ BigEndian(buf) = 0
<1>1. buf \in [1..n -> Nat] /\ 1 \in 1..n /\ buf[1] \in 0..(Base - 1)
  BY BaseIs DEF Buffer
<1>2. PICK f \in [0..n -> Nat] :
          /\ f[0] = 0 /\ BigEndian(buf) = f[n]
          /\ \A i \in 1..n : f[i] = f[i - 1] * Base + buf[i]
  BY <1>1, BigEndianReads
<1>3. f[1] = buf[1]
  <2>1. f[1] = f[1 - 1] * Base + buf[1] /\ 1 - 1 = 0
    BY <1>1, <1>2
  <2> QED
    BY <1>1, <1>2, <2>1, BaseIs
<1> DEFINE T == {m \in Nat : 2 + m <= n => f[2 + m] >= buf[1] * Base}
<1>4. ASSUME n >= 2 PROVE f[n] >= buf[1] * Base
  <2>1. 0 \in T
    <3>1. f[2] = f[2 - 1] * Base + buf[2] /\ 2 - 1 = 1 /\ buf[2] \in Nat
      BY <1>1, <1>2, <1>4
    <3>2. f[2] >= buf[1] * Base
      BY <1>1, <1>3, <3>1, BaseIs
    <3> QED
      BY <3>2
  <2>2. ASSUME NEW m \in T PROVE m + 1 \in T
    <3>1. SUFFICES ASSUME 2 + (m + 1) <= n PROVE f[2 + (m + 1)] >= buf[1] * Base
      OBVIOUS
    <3>2. /\ 2 + m \in 0..n /\ 2 + (m + 1) \in 1..n /\ (2 + (m + 1)) - 1 = 2 + m
      BY <3>1
    <3>3. /\ f[2 + m] \in Nat /\ f[2 + m] >= buf[1] * Base /\ buf[2 + (m + 1)] \in Nat
      BY <1>1, <1>2, <3>1, <3>2
    <3>4. f[2 + (m + 1)] = f[2 + m] * Base + buf[2 + (m + 1)]
      BY <1>2, <3>2
    <3> HIDE DEF T
    <3>5. f[2 + m] * Base >= f[2 + m]
      BY <3>3, TimesBase
    <3>6. buf[1] * Base \in Nat /\ f[2 + m] * Base \in Nat
      BY <1>1, <3>3, TimesBase
    <3> QED
      BY <3>3, <3>4, <3>5, <3>6
  <2>3. T \in SUBSET Nat
    OBVIOUS
  <2>4. n - 2 \in Nat /\ 2 + (n - 2) = n /\ n <= n
    BY <1>4
  <2>5. n - 2 \in T
    <3> HIDE DEF T
    <3> QED
      BY <2>1, <2>2, <2>3, <2>4, SetInduction
  <2> QED
    BY <2>4, <2>5
<1>5. CASE n = 1
  BY <1>2, <1>3, <1>5
<1>6. CASE n >= 2
  <2>1. f[n] \in Nat /\ f[n] >= buf[1] * Base /\ buf[1] * Base \in Nat
    <3>1. buf[1] \in Nat /\ f[n] \in Nat
      BY <1>1, <1>2, BaseIs
    <3>2. buf[1] * Base \in Nat
      BY <3>1, TimesBase
    <3> QED
      BY <1>4, <1>6, <3>1, <3>2
  <2>2. ASSUME f[n] = buf[1] PROVE f[n] = 0
    <3>1. CASE buf[1] > 0
      <4>1. Base >= 2
        BY <1>1, <3>1, BaseIs
      <4>2. buf[1] * Base > buf[1]
        <5>1. buf[1] \in Nat /\ Base > 1
          BY <1>1, <4>1, BaseIs
        <5> QED
          BY <3>1, <5>1, TimesBase
      <4> QED
        BY <1>1, <2>1, <2>2, <4>2, BaseIs
    <3>2. CASE buf[1] = 0
      BY <2>2, <3>2
    <3> QED
      BY <1>1, <3>1, <3>2, BaseIs
  <2>3. ASSUME f[n] = 0 PROVE buf[1] = 0
    <3>1. buf[1] * Base >= buf[1]
      BY <1>1, TimesBase
    <3> QED
      BY <1>1, <2>1, <2>3, <3>1, BaseIs
  <2> QED
    BY <1>2, <1>6, <2>1, <2>2, <2>3
<1> QED
  BY <1>5, <1>6

\* For every width: with the flag a BIT column is the whole integer, as a number
\* exactly as long as doubles have no gaps; without the flag it is the first byte,
\* which is all of it only if there is no other; NULL is what is promised of it.
THEOREM BitsExact == BitSurvives
<1> USE DEF CastBit, decodeBitFullInteger, Number, BigInt, Text, Null, Truth, Bytes, Exactly
<1>1. ASSUME NEW b \in Buffers
      PROVE  /\ Exactly(CastBit(Bytes(b), Len(b) + 1, TRUE), BigEndian(b))
             /\ BigEndian(b) <= SafeMax <=>
                   CastBit(Bytes(b), Len(b) + 1, TRUE).t = "number"
             /\ Exactly(CastBit(Bytes(b), Len(b) + 1, FALSE), BigEndian(b)) <=>
                   Len(b) = 1 \/ BigEndian(b) = 0
  <2>1. PICK n \in 1..(NarrowBytes + 2) : b \in Buffer(n)
    BY DEF Buffers, Buffer
  <2>2. /\ n \in Nat \ {0} /\ Len(b) = n /\ n + 1 # 1 /\ b # <<>>
        /\ b[1] \in 0..(Base - 1)
    BY <2>1, BaseIs DEF Buffer
  <2>3. /\ BigEndian(b) \in Nat
        /\ BigEndian(b) = b[1] <=> n = 1 \/ BigEndian(b) = 0
    BY <2>1, <2>2, FirstByte
  <2>4. n <= NarrowBytes => BigEndian(b) <= SafeMax
    BY <2>1, <2>2, NarrowIsSafe, BaseIs
  <2>5. CastBit(Bytes(b), Len(b) + 1, TRUE) = decodeBitFullInteger(b)
    BY <2>2
  <2>6. CastBit(Bytes(b), Len(b) + 1, FALSE) = Number(b[1])
    BY <2>2
  <2>7. BigEndian(b) <= SafeMax <=> decodeBitFullInteger(b).t = "number"
    BY <2>2, <2>4
  <2>8. Exactly(Number(b[1]), BigEndian(b)) <=> b[1] = BigEndian(b)
    OBVIOUS
  <2> QED
    BY <2>2, <2>3, <2>5, <2>6, <2>7, <2>8
<1>2. ASSUME NEW w \in 1..2, NEW f \in BOOLEAN PROVE CastBit(Null, w, f) = Null <=> w # 1 \/ f
  OBVIOUS
<1> QED
  BY <1>1, <1>2 DEF BitSurvives

\* A TINYINT(1) is a boolean even if it is NULL; the bytes of a BLOB and its NULL
\* reach the caller as they are.
LEMMA OthersExact == OthersSurvive
BY DEF OthersSurvive, CastTiny, CastBlob, Null, Number, Truth, Bytes

\* Whatever a column holds that a call has read, the call is given it as the
\* flags promise: the values do not depend on the way through the handlers.
THEOREM ValuesAreKept == SafeSpec => []ValuesSurvive
<1>1. ValuesSurvive
  BY BigintsExact, BitsExact, OthersExact DEF ValuesSurvive, Survives
<1> QED
  BY <1>1, PTL
================================================================================
