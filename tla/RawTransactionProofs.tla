------------------------- MODULE RawTransactionProofs --------------------------
(***************************************************************************)
(* Proofs about RawTransaction for every list, every set of rows the       *)
(* server rejects and every size of chunk and window.                      *)
(*                                                                         *)
(* First, what is sent for a list: the grouping, the slicing and the       *)
(* flattening of Plan together lose no row, repeat none and keep their     *)
(* order.  Groups and FlattenSeq are folds.  What a fold returns is proved *)
(* by induction over the length; the recursive function inside the fold is *)
(* a CHOOSE, so that each induction comes after a proof that the function  *)
(* it chooses exists.                                                      *)
(*                                                                         *)
(* Then the call.  CallInv holds under every fault: it follows the flag,   *)
(* the connection and the session.  BatchInv is about instances that are   *)
(* Clean, in which a batch fails without effect, at a bad row or with its  *)
(* connection: it says which rows are done and that todo covers the others.*)
(* LogInv is about the profiler path: where the last flush was, and what   *)
(* the history has held since.                                             *)
(***************************************************************************)
EXTENDS RawTransaction, Induction, FiniteSetTheorems, SequenceTheorems

-----------------------------------------------------------------------------
(* FoldLeft over a list *)

LEMMA MaxIsMember ==
    ASSUME NEW n \in Nat, NEW s \in SUBSET (1 .. n), s # {}
    PROVE  Max(s) \in s /\ \A y \in s : y <= Max(s)
<1> DEFINE U == {n - x : x \in s}
<1>1. U \in SUBSET Nat /\ U # {}
  <2>1. \A x \in s : x \in 1 .. n
    OBVIOUS
  <2>2. \A x \in 1 .. n : n - x \in Nat
    OBVIOUS
  <2> QED
    BY <2>1, <2>2
<1>2. PICK u \in U : \A y \in U : u <= y
  BY <1>1, LeastExists
<1>3. PICK x \in s : u = n - x
  BY <1>2
<1>4. \A y \in s : x >= y
  <2> TAKE y \in s
  <2>1. n - y \in U
    OBVIOUS
  <2> QED
    BY <1>2, <1>3, <2>1
<1>5. \E m \in s : \A y \in s : m >= y
  BY <1>4
<1>6. Max(s) \in s /\ \A y \in s : Max(s) >= y
  BY <1>5 DEF Max
<1> QED
  BY <1>6

GroupStep(list, groups, i) ==
    IF groups # <<>> /\ list[Last(groups)[1]] = list[i]
    THEN Append(Front(groups), Append(Last(groups), i))
    ELSE Append(groups, <<i>>)

FoldBody(list, f, s) == IF s = {} THEN <<>> ELSE GroupStep(list, f[s \ {Max(s)}], Rows(list)[Max(s)])
IsFold(list, f, D) == f = [s \in D |-> FoldBody(list, f, s)]
Fold(list) == CHOOSE f : f = [s \in SUBSET (DOMAIN Rows(list)) |-> FoldBody(list, f, s)]

LEMMA GroupsFold == ASSUME NEW list PROVE Groups(list) = Fold(list)[DOMAIN Rows(list)]
  BY Zenon DEF Groups, FoldLeft, MapThenFoldSet, Fold, FoldBody, GroupStep

LEMMA FoldExists ==
    ASSUME NEW list, NEW n \in Nat
    PROVE  \E f : IsFold(list, f, SUBSET (1 .. n))
<1> DEFINE Small(k) == {s \in SUBSET (1 .. n) : Cardinality(s) <= k}
           T == {k \in Nat : \E f : IsFold(list, f, Small(k))}
<1>1. \A s \in SUBSET (1 .. n) : IsFiniteSet(s) /\ Cardinality(s) \in Nat /\ Cardinality(s) <= n
  <2> TAKE s \in SUBSET (1 .. n)
  <2>1. IsFiniteSet(1 .. n) /\ Cardinality(1 .. n) = n
    BY FS_Interval
  <2>2. IsFiniteSet(s) /\ Cardinality(s) <= Cardinality(1 .. n)
    BY <2>1, FS_Subset
  <2> QED
    BY <2>1, <2>2, FS_CardinalityType
<1>2. 0 \in T
  <2> DEFINE f == [s \in Small(0) |-> <<>>]
  <2>1. \A s \in Small(0) : s = {}
    BY <1>1, FS_EmptySet
  <2>2. f = [s \in Small(0) |-> FoldBody(list, f, s)]
    BY <2>1 DEF FoldBody
  <2>3. IsFold(list, f, Small(0))
    BY <2>2 DEF IsFold
  <2> QED
    BY <2>3
<1>3. ASSUME NEW k \in T PROVE k + 1 \in T
  <2>1. PICK f : IsFold(list, f, Small(k))
    OBVIOUS
  <2> DEFINE g == [s \in Small(k + 1) |-> FoldBody(list, f, s)]
  <2>2. ASSUME NEW s \in Small(k + 1) PROVE FoldBody(list, f, s) = FoldBody(list, g, s)
    <3>1. CASE s = {}
      BY <3>1 DEF FoldBody
    <3>2. CASE s # {}
      <4> DEFINE m == Max(s)
                 r == s \ {m}
      <4>1. m \in s
        BY <3>2, MaxIsMember
      <4>2. Cardinality(r) = Cardinality(s) - 1
        BY <1>1, <4>1, FS_RemoveElement
      <4>3. r \in Small(k) /\ r \in Small(k + 1)
        <5>1. s \in SUBSET (1 .. n) /\ Cardinality(s) <= k + 1 /\ r \in SUBSET (1 .. n)
          OBVIOUS
        <5>2. Cardinality(r) \in Nat /\ Cardinality(s) \in Nat
          BY <1>1, <5>1
        <5>3. Cardinality(r) <= k /\ Cardinality(r) <= k + 1
          BY <4>2, <5>1, <5>2
        <5> QED
          BY <5>1, <5>3
      <4>4. f[r] = FoldBody(list, f, r)
        BY <2>1, <4>3 DEF IsFold
      <4>5. g[r] = FoldBody(list, f, r)
        BY <4>3
      <4>6. f[r] = g[r]
        BY <4>4, <4>5
      <4> HIDE DEF g, Small
      <4> QED
        BY <3>2, <4>6 DEF FoldBody
    <3> QED
      BY <3>1, <3>2
  <2>3. g = [s \in Small(k + 1) |-> FoldBody(list, g, s)]
    <3> HIDE DEF Small
    <3>1. \A s \in Small(k + 1) : FoldBody(list, f, s) = FoldBody(list, g, s)
      BY <2>2
    <3> QED
      BY <3>1
  <2>4. IsFold(list, g, Small(k + 1))
    BY <2>3 DEF IsFold
  <2> HIDE DEF g, Small
  <2>5. \E h : IsFold(list, h, Small(k + 1))
    BY <2>4
  <2> QED
    BY <2>5
<1>4. T = Nat
  <2> HIDE DEF T
  <2>1. T \in SUBSET Nat
    BY DEF T
  <2> QED
    BY <1>2, <1>3, <2>1, SetInduction
<1>5. Small(n) = SUBSET (1 .. n)
  BY <1>1
<1>6. PICK f : IsFold(list, f, Small(n))
  BY <1>4
<1> QED
  BY <1>5, <1>6

-----------------------------------------------------------------------------
(* Grouping *)

\* The rows after a, up to b.
Run(a, b) == [j \in 1 .. (b - a) |-> a + j]

GroupsCover(list, groups, k) ==
    /\ groups \in Seq(Seq(Nat))
    /\ \E at \in [0 .. Len(groups) -> 0 .. k] :
          /\ at[0] = 0 /\ at[Len(groups)] = k
          /\ \A i \in 1 .. Len(groups) :
                /\ at[i - 1] < at[i] /\ groups[i] = Run(at[i - 1], at[i])
                /\ \A r \in (at[i - 1] + 1) .. at[i] : list[r] = list[at[i]]

LEMMA RunType ==
    ASSUME NEW a \in Nat, NEW b \in Nat, a <= b
    PROVE  /\ Run(a, b) \in Seq(Nat) /\ Len(Run(a, b)) = b - a
           /\ \A j \in 1 .. (b - a) : Run(a, b)[j] = a + j
           /\ Run(a, a) = <<>>
           /\ Append(Run(a, b), b + 1) = Run(a, b + 1)
<1>1. b - a \in Nat /\ \A j \in 1 .. (b - a) : a + j \in Nat
  OBVIOUS
<1>2. Run(a, b) \in Seq(Nat) /\ Len(Run(a, b)) = b - a
  BY <1>1 DEF Run
<1>3. Run(a, a) = <<>>
  BY DEF Run
<1>4. Append(Run(a, b), b + 1) = Run(a, b + 1)
  <2>1. b + 1 - a \in Nat /\ b + 1 - a = (b - a) + 1
    OBVIOUS
  <2>2. Run(a, b + 1) \in Seq(Nat) /\ Len(Run(a, b + 1)) = (b - a) + 1
    BY <2>1 DEF Run
  <2>3. Append(Run(a, b), b + 1) \in Seq(Nat) /\ Len(Append(Run(a, b), b + 1)) = (b - a) + 1
    BY <1>2
  <2>4. ASSUME NEW j \in 1 .. ((b - a) + 1)
        PROVE  Append(Run(a, b), b + 1)[j] = Run(a, b + 1)[j]
    BY <1>1, <1>2, <2>1 DEF Run
  <2> QED
    BY <2>2, <2>3, <2>4
<1> QED
  BY <1>1, <1>2, <1>3, <1>4 DEF Run

LEMMA FrontIs ==
    ASSUME NEW S, NEW s \in Seq(S), s # <<>>
    PROVE  /\ Front(s) \in Seq(S) /\ Len(Front(s)) = Len(s) - 1
           /\ \A i \in 1 .. (Len(s) - 1) : Front(s)[i] = s[i]
<1>1. Len(s) \in Nat /\ Len(s) > 0 /\ Len(s) - 1 \in Nat
  OBVIOUS
<1>2. Front(s) = SubSeq(s, 1, Len(s) - 1)
  BY DEF Front
<1>3. \A i \in 1 .. (Len(s) - 1) : s[i] \in S
  BY <1>1
<1>4. Front(s) = [i \in 1 .. (Len(s) - 1) |-> s[i]]
  BY <1>1, <1>2
<1>5. Front(s) \in Seq(S) /\ Len(Front(s)) = Len(s) - 1
  BY <1>1, <1>3, <1>4
<1> QED
  BY <1>4, <1>5

LEMMA AppendIs ==
    ASSUME NEW S, NEW s \in Seq(S), NEW x \in S
    PROVE  /\ Append(s, x) \in Seq(S) /\ Len(Append(s, x)) = Len(s) + 1
           /\ \A i \in 1 .. Len(s) : Append(s, x)[i] = s[i]
           /\ Append(s, x)[Len(s) + 1] = x
  OBVIOUS

LEMMA SameTextStep ==
    ASSUME NEW list, NEW k \in Nat, NEW g, GroupsCover(list, g, k),
           g # <<>>, list[Last(g)[1]] = list[k + 1]
    PROVE  GroupsCover(list, Append(Front(g), Append(Last(g), k + 1)), k + 1)
<1> DEFINE n == Len(g)
           h == Append(Front(g), Append(Last(g), k + 1))
<1>1. g \in Seq(Seq(Nat)) /\ n \in Nat /\ n > 0
  BY DEF GroupsCover
<1>2. PICK at \in [0 .. n -> 0 .. k] :
          /\ at[0] = 0 /\ at[n] = k
          /\ \A i \in 1 .. n :
                /\ at[i - 1] < at[i] /\ g[i] = Run(at[i - 1], at[i])
                /\ \A r \in (at[i - 1] + 1) .. at[i] : list[r] = list[at[i]]
  BY DEF GroupsCover
<1>3. Last(g) = g[n] /\ g[n] \in Seq(Nat)
  BY <1>1 DEF Last
<1>4. /\ Front(g) \in Seq(Seq(Nat)) /\ Len(Front(g)) = n - 1
      /\ \A i \in 1 .. (n - 1) : Front(g)[i] = g[i]
  BY <1>1, FrontIs
<1>5. /\ h \in Seq(Seq(Nat)) /\ Len(h) = n
      /\ \A i \in 1 .. (n - 1) : h[i] = g[i]
      /\ h[n] = Append(g[n], k + 1)
  <2>1. Append(Last(g), k + 1) \in Seq(Nat)
    BY <1>3
  <2>2. Len(Front(g)) + 1 = n
    BY <1>1, <1>4
  <2> HIDE DEF n
  <2> QED
    BY <1>3, <1>4, <2>1, <2>2, AppendIs
<1> HIDE DEF h, n
<1> DEFINE up == [i \in 0 .. n |-> IF i = n THEN k + 1 ELSE at[i]]
<1>6. up \in [0 .. n -> 0 .. (k + 1)] /\ up[0] = 0 /\ up[n] = k + 1
  BY <1>1, <1>2
<1>7. ASSUME NEW i \in 1 .. n
      PROVE  /\ up[i - 1] < up[i] /\ h[i] = Run(up[i - 1], up[i])
             /\ \A r \in (up[i - 1] + 1) .. up[i] : list[r] = list[up[i]]
  <2>1. CASE i # n
    <3>1. i \in 1 .. (n - 1) /\ i - 1 \in 0 .. n /\ i - 1 # n /\ i \in 0 .. n
      BY <1>1, <2>1
    <3>2. up[i - 1] = at[i - 1] /\ up[i] = at[i]
      BY <2>1, <3>1
    <3>3. h[i] = g[i]
      BY <1>5, <3>1
    <3>4. /\ at[i - 1] < at[i] /\ g[i] = Run(at[i - 1], at[i])
          /\ \A r \in (at[i - 1] + 1) .. at[i] : list[r] = list[at[i]]
      BY <1>2
    <3> HIDE DEF up
    <3> QED
      BY <3>2, <3>3, <3>4
  <2>2. CASE i = n
    <3>1. n - 1 \in 0 .. n /\ n - 1 # n /\ n \in 1 .. n /\ at[n - 1] \in Nat
      BY <1>1, <1>2
    <3>2. up[n - 1] = at[n - 1] /\ up[n] = k + 1
      BY <1>1, <3>1
    <3>3. at[n - 1] < k /\ g[n] = Run(at[n - 1], k)
      BY <1>2, <3>1
    <3>4. h[n] = Run(at[n - 1], k + 1)
      <4> DEFINE m == at[n - 1]
      <4>1. m \in Nat /\ m <= k /\ h[n] = Append(Run(m, k), k + 1)
        BY <1>5, <3>1, <3>3
      <4> HIDE DEF m
      <4>2. Append(Run(m, k), k + 1) = Run(m, k + 1)
        BY <4>1, RunType
      <4> QED
        BY <4>1, <4>2 DEF m
    <3>5. g[n][1] = at[n - 1] + 1
      <4> DEFINE m == at[n - 1]
      <4>1. m \in Nat /\ m <= k /\ 1 \in 1 .. (k - m) /\ g[n] = Run(m, k)
        BY <3>1, <3>3
      <4> HIDE DEF m
      <4>2. Run(m, k)[1] = m + 1
        BY <4>1, RunType
      <4> QED
        BY <4>1, <4>2 DEF m
    <3>6. list[at[n - 1] + 1] = list[k + 1]
      BY <1>3, <3>5
    <3>7. \A r \in (at[n - 1] + 1) .. k : list[r] = list[k]
      BY <1>2, <3>1
    <3>8. list[k] = list[k + 1]
      BY <3>1, <3>3, <3>6, <3>7
    <3>9. \A r \in (at[n - 1] + 1) .. (k + 1) : list[r] = list[k + 1]
      BY <3>1, <3>7, <3>8
    <3> HIDE DEF up
    <3> QED
      BY <2>2, <3>1, <3>2, <3>3, <3>4, <3>9
  <2> QED
    BY <2>1, <2>2
<1> HIDE DEF up
<1>8. GroupsCover(list, h, k + 1)
  BY <1>5, <1>6, <1>7 DEF GroupsCover
<1> QED
  BY <1>8 DEF h

LEMMA NewTextStep ==
    ASSUME NEW list, NEW k \in Nat, NEW g, GroupsCover(list, g, k)
    PROVE  GroupsCover(list, Append(g, <<k + 1>>), k + 1)
<1> DEFINE n == Len(g)
           h == Append(g, <<k + 1>>)
<1>1. g \in Seq(Seq(Nat)) /\ n \in Nat
  BY DEF GroupsCover
<1>2. PICK at \in [0 .. n -> 0 .. k] :
          /\ at[0] = 0 /\ at[n] = k
          /\ \A i \in 1 .. n :
                /\ at[i - 1] < at[i] /\ g[i] = Run(at[i - 1], at[i])
                /\ \A r \in (at[i - 1] + 1) .. at[i] : list[r] = list[at[i]]
  BY DEF GroupsCover
<1>3. <<k + 1>> \in Seq(Nat) /\ <<k + 1>> = Run(k, k + 1)
  <2>1. <<k + 1>> \in Seq(Nat)
    OBVIOUS
  <2>2. (k + 1) - k = 1 /\ \A j \in 1 .. 1 : k + j = k + 1
    OBVIOUS
  <2>3. <<k + 1>> = [j \in 1 .. 1 |-> k + 1]
    OBVIOUS
  <2>4. Run(k, k + 1) = [j \in 1 .. 1 |-> k + 1]
    BY <2>2 DEF Run
  <2> QED
    BY <2>1, <2>3, <2>4
<1>4. /\ h \in Seq(Seq(Nat)) /\ Len(h) = n + 1
      /\ \A i \in 1 .. n : h[i] = g[i]
      /\ h[n + 1] = Run(k, k + 1)
  BY <1>1, <1>3
<1> HIDE DEF h, n
<1> DEFINE up == [i \in 0 .. (n + 1) |-> IF i = n + 1 THEN k + 1 ELSE at[i]]
<1>6. up \in [0 .. (n + 1) -> 0 .. (k + 1)] /\ up[0] = 0 /\ up[n + 1] = k + 1 /\ up[n] = k
  <2>1. \A i \in 0 .. (n + 1) : i # n + 1 => i \in 0 .. n
    BY <1>1
  <2>2. 0 \in 0 .. (n + 1) /\ 0 # n + 1 /\ n \in 0 .. (n + 1) /\ n # n + 1 /\ n + 1 \in 0 .. (n + 1)
    BY <1>1
  <2>3. \A x \in 0 .. k : x \in 0 .. (k + 1)
    OBVIOUS
  <2> QED
    BY <1>2, <2>1, <2>2, <2>3
<1>7. ASSUME NEW i \in 1 .. (n + 1)
      PROVE  /\ up[i - 1] < up[i] /\ h[i] = Run(up[i - 1], up[i])
             /\ \A r \in (up[i - 1] + 1) .. up[i] : list[r] = list[up[i]]
  <2>1. CASE i # n + 1
    <3>1. i \in 1 .. n /\ i - 1 \in 0 .. (n + 1) /\ i - 1 # n + 1 /\ i \in 0 .. (n + 1)
      BY <1>1, <2>1
    <3>2. up[i - 1] = at[i - 1] /\ up[i] = at[i]
      BY <2>1, <3>1
    <3> QED
      BY <1>2, <1>4, <3>1, <3>2
  <2>2. CASE i = n + 1
    <3>1. i - 1 = n /\ up[i - 1] = k /\ up[i] = k + 1
      BY <1>1, <1>6, <2>2
    <3>2. \A r \in (k + 1) .. (k + 1) : r = k + 1
      OBVIOUS
    <3> HIDE DEF up
    <3> QED
      BY <1>4, <2>2, <3>1, <3>2
  <2> QED
    BY <2>1, <2>2
<1> HIDE DEF up
<1>8. GroupsCover(list, h, k + 1)
  <2>1. \A i \in 1 .. Len(h) :
            /\ up[i - 1] < up[i] /\ h[i] = Run(up[i - 1], up[i])
            /\ \A r \in (up[i - 1] + 1) .. up[i] : list[r] = list[up[i]]
    BY <1>4, <1>7
  <2>2. up \in [0 .. Len(h) -> 0 .. (k + 1)] /\ up[0] = 0 /\ up[Len(h)] = k + 1
    BY <1>4, <1>6
  <2> QED
    BY <1>4, <2>1, <2>2 DEF GroupsCover
<1> QED
  BY <1>8 DEF h

LEMMA FoldCovers ==
    ASSUME NEW list, NEW n \in Nat, NEW f, IsFold(list, f, SUBSET (1 .. n)), Rows(list) = [i \in 1 .. n |-> i]
    PROVE  GroupsCover(list, f[1 .. n], n)
<1> DEFINE T == {k \in Nat : k <= n => GroupsCover(list, f[1 .. k], k)}
<1>1. \A s \in SUBSET (1 .. n) : f[s] = FoldBody(list, f, s)
  BY DEF IsFold
<1>2. 0 \in T
  <2>1. f[1 .. 0] = <<>>
    <3>1. 1 .. 0 = {} /\ 1 .. 0 \in SUBSET (1 .. n)
      OBVIOUS
    <3> QED
      BY <1>1, <3>1 DEF FoldBody
  <2>2. <<>> \in Seq(Seq(Nat)) /\ Len(<<>>) = 0 /\ [i \in 0 .. 0 |-> 0] \in [0 .. 0 -> 0 .. 0]
    OBVIOUS
  <2>3. GroupsCover(list, <<>>, 0)
    <3> DEFINE at == [i \in 0 .. 0 |-> 0]
    <3>1. at \in [0 .. Len(<<>>) -> 0 .. 0] /\ at[0] = 0 /\ at[Len(<<>>)] = 0
      BY <2>2
    <3>2. \A i \in 1 .. Len(<<>>) : FALSE
      BY <2>2
    <3> HIDE DEF at
    <3> QED
      BY <2>2, <3>1, <3>2 DEF GroupsCover
  <2> QED
    BY <2>1, <2>3
<1>3. ASSUME NEW k \in T PROVE k + 1 \in T
  <2> SUFFICES ASSUME k + 1 <= n PROVE GroupsCover(list, f[1 .. (k + 1)], k + 1)
    OBVIOUS
  <2>1. k \in Nat /\ k <= n /\ GroupsCover(list, f[1 .. k], k)
    OBVIOUS
  <2>2. 1 .. (k + 1) \in SUBSET (1 .. n) /\ 1 .. (k + 1) # {} /\ k + 1 \in 1 .. (k + 1)
    <3>1. k + 1 \in 1 .. (k + 1)
      BY <2>1
    <3>2. \A x \in 1 .. (k + 1) : x \in 1 .. n
      BY <2>1
    <3> QED
      BY <3>1, <3>2
  <2>3. Max(1 .. (k + 1)) = k + 1
    <3>1. Max(1 .. (k + 1)) \in 1 .. (k + 1) /\ \A y \in 1 .. (k + 1) : y <= Max(1 .. (k + 1))
      BY <2>2, MaxIsMember
    <3> QED
      BY <2>1, <2>2, <3>1
  <2>4. 1 .. (k + 1) \ {k + 1} = 1 .. k
    BY <2>1
  <2>5. Rows(list)[k + 1] = k + 1
    BY <2>1
  <2>6. f[1 .. (k + 1)] = GroupStep(list, f[1 .. k], k + 1)
    BY <1>1, <2>2, <2>3, <2>4, <2>5 DEF FoldBody
  <2> HIDE DEF T
  <2> QED
    BY <2>1, <2>6, SameTextStep, NewTextStep DEF GroupStep
<1>4. T = Nat
  <2> HIDE DEF T
  <2>1. T \in SUBSET Nat
    BY DEF T
  <2> QED
    BY <1>2, <1>3, <2>1, SetInduction
<1> QED
  BY <1>4

\* groupTransactions loses no row, keeps their order, and puts into one group
\* only rows with the same text.
LEMMA GroupsAreRuns ==
    ASSUME NEW list, Len(list) \in Nat
    PROVE  GroupsCover(list, Groups(list), Len(list))
<1> DEFINE n == Len(list)
<1>1. Rows(list) = [i \in 1 .. n |-> i] /\ DOMAIN Rows(list) = 1 .. n
  BY DEF Rows
<1> HIDE DEF n
<1>2. \E f : IsFold(list, f, SUBSET (1 .. n))
  BY FoldExists DEF n
<1>3. IsFold(list, Fold(list), SUBSET (1 .. n))
  <2>1. \E f : f = [s \in SUBSET (DOMAIN Rows(list)) |-> FoldBody(list, f, s)]
    BY <1>1, <1>2 DEF IsFold
  <2>2. Fold(list) = [s \in SUBSET (DOMAIN Rows(list)) |-> FoldBody(list, Fold(list), s)]
    BY <2>1, Zenon DEF Fold
  <2> QED
    BY <1>1, <2>2 DEF IsFold
<1>4. GroupsCover(list, Fold(list)[1 .. n], n)
  BY <1>1, <1>3, FoldCovers DEF n
<1> QED
  BY <1>1, <1>4, GroupsFold DEF n

-----------------------------------------------------------------------------
(* The plan *)

Item == [batched : BOOLEAN, rows : Seq(Nat)]

\* An item of the plan: the rows after a up to b, one row or a batch of at most
\* ChunkSize rows with one text that may be batched.
Sends(list, item, a, b) ==
    /\ a < b /\ item.rows = Run(a, b)
    /\ ~item.batched => b = a + 1
    /\ item.batched => /\ b <= a + ChunkSize
                       /\ \A r \in (a + 1) .. b : list[r] = list[b] /\ list[r] \in Dml

Covers(list, s, a, b) ==
    /\ s \in Seq(Item)
    /\ \E at \in [0 .. Len(s) -> 0 .. b] :
          /\ at[0] = a /\ at[Len(s)] = b
          /\ \A i \in 1 .. Len(s) : Sends(list, s[i], at[i - 1], at[i])

LEMMA NothingCovers ==
    ASSUME NEW list, NEW a \in Nat
    PROVE  Covers(list, <<>>, a, a)
<1> DEFINE at == [i \in 0 .. 0 |-> a]
<1>1. <<>> \in Seq(Item) /\ Len(<<>>) = 0 /\ 1 .. 0 = {}
  OBVIOUS
<1>2. at \in [0 .. 0 -> 0 .. a] /\ at[0] = a
  OBVIOUS
<1> HIDE DEF at
<1> QED
  BY <1>1, <1>2 DEF Covers

LEMMA ConcatCovers ==
    ASSUME NEW list, NEW a \in Nat, NEW b \in Nat, NEW c \in Nat, NEW s, NEW t,
           Covers(list, s, a, b), Covers(list, t, b, c)
    PROVE  Covers(list, s \o t, a, c)
<1> DEFINE m == Len(s)
           n == Len(t)
           u == s \o t
<1>1. s \in Seq(Item) /\ t \in Seq(Item) /\ m \in Nat /\ n \in Nat
  BY DEF Covers
<1>2. PICK p \in [0 .. m -> 0 .. b] :
          p[0] = a /\ p[m] = b /\ \A i \in 1 .. m : Sends(list, s[i], p[i - 1], p[i])
  BY DEF Covers
<1>3. PICK q \in [0 .. n -> 0 .. c] :
          q[0] = b /\ q[n] = c /\ \A i \in 1 .. n : Sends(list, t[i], q[i - 1], q[i])
  BY DEF Covers
<1>4. /\ u \in Seq(Item) /\ Len(u) = m + n
      /\ \A i \in 1 .. m : u[i] = s[i]
      /\ \A i \in 1 .. n : u[m + i] = t[i]
  BY <1>1
<1>5. b <= c
  <2>1. q[0] \in 0 .. c
    BY <1>1, <1>3
  <2> QED
    BY <1>3, <2>1
<1> HIDE DEF m, n, u
<1> DEFINE at == [i \in 0 .. (m + n) |-> IF i <= m THEN p[i] ELSE q[i - m]]
<1>6. at \in [0 .. (m + n) -> 0 .. c] /\ at[0] = a /\ \A i \in 0 .. m : at[i] = p[i]
  <2>1. \A i \in 0 .. m : i \in 0 .. (m + n) /\ p[i] \in 0 .. b
    BY <1>1, <1>2
  <2>2. \A i \in 0 .. b : i \in 0 .. c
    BY <1>5
  <2>3. \A i \in 0 .. (m + n) : ~(i <= m) => i - m \in 0 .. n /\ q[i - m] \in 0 .. c
    BY <1>1, <1>3
  <2>4. \A i \in 0 .. (m + n) : i <= m => i \in 0 .. m
    BY <1>1
  <2>5. 0 \in 0 .. m /\ p[0] = a
    BY <1>1, <1>2
  <2>6. \A i \in 0 .. m : i <= m
    BY <1>1
  <2>7. \A i \in 0 .. m : at[i] = p[i]
    BY <2>1, <2>6
  <2>8. ASSUME NEW i \in 0 .. (m + n) PROVE at[i] \in 0 .. c
    <3>1. CASE i <= m
      BY <2>1, <2>2, <2>4, <3>1
    <3>2. CASE ~(i <= m)
      BY <2>3, <3>2
    <3> QED
      BY <3>1, <3>2
  <2>9. at \in [0 .. (m + n) -> 0 .. c]
    BY <2>8
  <2> HIDE DEF at
  <2> QED
    BY <2>5, <2>7, <2>9
<1>7. \A i \in 0 .. n : at[m + i] = q[i]
  <2> TAKE i \in 0 .. n
  <2>1. m + i \in 0 .. (m + n) /\ (m + i) - m = i
    BY <1>1
  <2>2. CASE i = 0
    <3>1. m + i = m /\ m \in 0 .. m
      BY <1>1, <2>2
    <3> HIDE DEF at
    <3> QED
      BY <1>2, <1>3, <1>6, <2>2, <3>1
  <2>3. CASE i # 0
    <3>1. ~(m + i <= m)
      BY <1>1, <2>3
    <3> QED
      BY <2>1, <3>1
  <2> QED
    BY <2>2, <2>3
<1> HIDE DEF at
<1>8. ASSUME NEW i \in 1 .. (m + n)
      PROVE  Sends(list, u[i], at[i - 1], at[i])
  <2>1. CASE i <= m
    <3>1. i \in 1 .. m /\ i \in 0 .. m /\ i - 1 \in 0 .. m
      BY <1>1, <2>1
    <3> QED
      BY <1>2, <1>4, <1>6, <3>1
  <2>2. CASE ~(i <= m)
    <3> DEFINE j == i - m
    <3>1. /\ j \in 1 .. n /\ j \in 0 .. n /\ j - 1 \in 0 .. n
          /\ i = m + j /\ i - 1 = m + (j - 1)
      BY <1>1, <2>2
    <3> HIDE DEF j
    <3> QED
      BY <1>3, <1>4, <1>7, <3>1
  <2> QED
    BY <2>1, <2>2
<1>9. at[m + n] = c
  <2>1. n \in 0 .. n
    BY <1>1
  <2> QED
    BY <1>3, <1>7, <2>1
<1>10. Covers(list, u, a, c)
  <2>1. at \in [0 .. Len(u) -> 0 .. c] /\ at[0] = a /\ at[Len(u)] = c
    BY <1>4, <1>6, <1>9
  <2>2. \A i \in 1 .. Len(u) : Sends(list, u[i], at[i - 1], at[i])
    BY <1>4, <1>8
  <2> QED
    BY <1>4, <2>1, <2>2 DEF Covers
<1> QED
  BY <1>10 DEF u

\* FlattenSeq of the community modules, by induction on its recursion.
FlatBody(seqs, f, i) == IF i = 1 THEN seqs[i] ELSE f[i - 1] \o seqs[i]
IsFlat(seqs, f, D) == f = [i \in D |-> FlatBody(seqs, f, i)]
Flat(seqs) == CHOOSE f : f = [i \in 1 .. Len(seqs) |-> FlatBody(seqs, f, i)]

LEMMA FlattenFlat ==
    ASSUME NEW seqs
    PROVE  FlattenSeq(seqs) = IF Len(seqs) = 0 THEN seqs ELSE Flat(seqs)[Len(seqs)]
  BY Zenon DEF FlattenSeq, Flat, FlatBody

LEMMA FlatExists ==
    ASSUME NEW seqs, NEW n \in Nat
    PROVE  \E f : IsFlat(seqs, f, 1 .. n)
<1> DEFINE T == {k \in Nat : \E f : IsFlat(seqs, f, 1 .. k)}
<1>1. 0 \in T
  <2> DEFINE f == [i \in 1 .. 0 |-> 0]
  <2>1. 1 .. 0 = {}
    OBVIOUS
  <2>2. f = [i \in 1 .. 0 |-> FlatBody(seqs, f, i)]
    BY <2>1
  <2> HIDE DEF f
  <2>3. \E g : IsFlat(seqs, g, 1 .. 0)
    BY <2>2 DEF IsFlat
  <2> QED
    BY <2>3
<1>2. ASSUME NEW k \in T PROVE k + 1 \in T
  <2>1. k \in Nat
    OBVIOUS
  <2>2. PICK f : IsFlat(seqs, f, 1 .. k)
    OBVIOUS
  <2> DEFINE g == [i \in 1 .. (k + 1) |-> FlatBody(seqs, f, i)]
  <2>3. ASSUME NEW i \in 1 .. (k + 1) PROVE FlatBody(seqs, f, i) = FlatBody(seqs, g, i)
    <3>1. CASE i = 1
      BY <3>1 DEF FlatBody
    <3>2. CASE i # 1
      <4>1. i - 1 \in 1 .. k /\ i - 1 \in 1 .. (k + 1)
        BY <2>1, <3>2
      <4>2. f[i - 1] = FlatBody(seqs, f, i - 1)
        BY <2>2, <4>1 DEF IsFlat
      <4>3. g[i - 1] = FlatBody(seqs, f, i - 1)
        BY <4>1
      <4>4. f[i - 1] = g[i - 1]
        BY <4>2, <4>3
      <4> HIDE DEF g
      <4> QED
        BY <3>2, <4>4 DEF FlatBody
    <3> QED
      BY <3>1, <3>2
  <2>4. g = [i \in 1 .. (k + 1) |-> FlatBody(seqs, g, i)]
    BY <2>3
  <2> HIDE DEF g
  <2>5. \E h : IsFlat(seqs, h, 1 .. (k + 1))
    BY <2>4 DEF IsFlat
  <2> QED
    BY <2>1, <2>5
<1>3. T = Nat
  <2> HIDE DEF T
  <2>1. T \in SUBSET Nat
    BY DEF T
  <2> QED
    BY <1>1, <1>2, <2>1, SetInduction
<1> QED
  BY <1>3

LEMMA FlattenCovers ==
    ASSUME NEW list, NEW seqs, NEW n \in Nat, Len(seqs) = n, seqs = <<>> \/ n > 0,
           NEW b \in Nat, NEW at \in [0 .. n -> 0 .. b], at[0] = 0, at[n] = b,
           \A i \in 1 .. n : Covers(list, seqs[i], at[i - 1], at[i])
    PROVE  Covers(list, FlattenSeq(seqs), 0, b)
<1>1. CASE n = 0
  <2>1. b = 0 /\ seqs = <<>> /\ FlattenSeq(seqs) = seqs
    BY <1>1, FlattenFlat
  <2> QED
    BY <2>1, NothingCovers
<1>2. CASE n # 0
  <2> DEFINE f == Flat(seqs)
  <2>1. IsFlat(seqs, f, 1 .. n)
    <3>1. \E g : g = [i \in 1 .. Len(seqs) |-> FlatBody(seqs, g, i)]
      BY FlatExists DEF IsFlat
    <3>2. f = [i \in 1 .. Len(seqs) |-> FlatBody(seqs, f, i)]
      BY <3>1, Zenon DEF Flat
    <3> QED
      BY <3>2 DEF IsFlat
  <2>2. FlattenSeq(seqs) = f[n]
    BY <1>2, FlattenFlat
  <2> HIDE DEF f
  <2>3. \A i \in 1 .. n : f[i] = FlatBody(seqs, f, i)
    BY <2>1 DEF IsFlat
  <2> DEFINE T == {k \in Nat : k > 0 /\ k <= n => Covers(list, f[k], 0, at[k])}
  <2>4. 0 \in T
    OBVIOUS
  <2>5. ASSUME NEW k \in T PROVE k + 1 \in T
    <3> SUFFICES ASSUME k + 1 <= n PROVE Covers(list, f[k + 1], 0, at[k + 1])
      OBVIOUS
    <3>1. k \in Nat /\ k + 1 \in 1 .. n /\ (k + 1) - 1 = k
      OBVIOUS
    <3>2. Covers(list, seqs[k + 1], at[k], at[k + 1])
      BY <3>1
    <3>3. CASE k = 0
      <4>1. f[k + 1] = seqs[k + 1]
        BY <2>3, <3>1, <3>3 DEF FlatBody
      <4> QED
        BY <3>2, <3>3, <4>1
    <3>4. CASE k # 0
      <4>1. k + 1 # 1
        BY <3>1, <3>4
      <4>2. f[k + 1] = f[k] \o seqs[k + 1]
        BY <2>3, <3>1, <4>1 DEF FlatBody
      <4>3. Covers(list, f[k], 0, at[k])
        BY <3>1, <3>4
      <4>4. at[k] \in Nat /\ at[k + 1] \in Nat
        <5>1. k \in 0 .. n /\ k + 1 \in 0 .. n
          BY <3>1
        <5> QED
          BY <5>1
      <4> HIDE DEF T
      <4> QED
        BY <3>2, <4>2, <4>3, <4>4, ConcatCovers
    <3> QED
      BY <3>3, <3>4
  <2>6. T = Nat
    <3> HIDE DEF T
    <3>1. T \in SUBSET Nat
      BY DEF T
    <3> QED
      BY <2>4, <2>5, <3>1, SetInduction
  <2>7. Covers(list, f[n], 0, at[n])
    BY <1>2, <2>6
  <2> QED
    BY <2>2, <2>7
<1> QED
  BY <1>1, <1>2

LEMMA DivisionBounds ==
    ASSUME NEW x \in Nat, NEW d \in Nat \ {0}
    PROVE  x \div d \in Nat /\ (x \div d) * d <= x /\ x < (x \div d) * d + d
  OBVIOUS

\* The slices of a group of rows, together, are the group.
LEMMA ChunksAreRuns ==
    ASSUME NEW a \in Nat, NEW b \in Nat, a < b
    PROVE  LET chunks == Chunks(Run(a, b)) IN
           \E n \in Nat : \E at \in [0 .. n -> 0 .. b] :
              /\ n > 0 /\ at[0] = a /\ at[n] = b /\ DOMAIN chunks = 1 .. n
              /\ \A c \in 1 .. n : /\ at[c - 1] < at[c]
                                   /\ at[c - 1] >= a
                                   /\ at[c] <= at[c - 1] + ChunkSize
                                   /\ chunks[c] = Run(at[c - 1], at[c])
<1> DEFINE g == Run(a, b)
           L == b - a
           n == (L + ChunkSize - 1) \div ChunkSize
           end(c) == IF c * ChunkSize < L THEN c * ChunkSize ELSE L
           at == [c \in 0 .. n |-> a + end(c)]
<1>1. ChunkSize \in Nat /\ ChunkSize >= 1
  BY RawTransactionAssumption
<1>2. /\ L \in Nat /\ L > 0 /\ g \in Seq(Nat) /\ Len(g) = L
      /\ \A j \in 1 .. L : g[j] = a + j
  <2>1. L \in Nat /\ L > 0 /\ a <= b
    OBVIOUS
  <2> QED
    BY <2>1, RunType
<1>3. /\ n \in Nat /\ n * ChunkSize <= L + ChunkSize - 1 /\ L <= n * ChunkSize
  <2>1. L + ChunkSize - 1 \in Nat /\ ChunkSize \in Nat \ {0}
    BY <1>1, <1>2
  <2> DEFINE q == n * ChunkSize
  <2>2. n \in Nat /\ q <= L + ChunkSize - 1 /\ L + ChunkSize - 1 < q + ChunkSize
    BY <2>1, DivisionBounds
  <2>3. q \in Nat
    BY <2>2, <1>1
  <2> HIDE DEF q, n
  <2>4. L <= q
    BY <1>1, <1>2, <2>2, <2>3
  <2> QED
    BY <2>2, <2>4 DEF q
<1> HIDE DEF n
<1>4. n > 0
  <2>1. CASE n = 0
    BY <1>2, <1>3, <1>1, <2>1
  <2> QED
    BY <1>3, <2>1
<1>5. ASSUME NEW c \in Nat
      PROVE  c * ChunkSize \in Nat /\ (c + 1) * ChunkSize = c * ChunkSize + ChunkSize
  BY <1>1
<1>6. ASSUME NEW c \in 1 .. n
      PROVE  /\ (c - 1) * ChunkSize < L
             /\ end(c - 1) = (c - 1) * ChunkSize
             /\ end(c - 1) < end(c) /\ end(c) <= L /\ end(c) \in Nat
             /\ end(c) <= end(c - 1) + ChunkSize
  <2> DEFINE x == (c - 1) * ChunkSize
             y == c * ChunkSize
  <2>1. c - 1 \in Nat /\ c \in Nat /\ c <= n
    BY <1>3
  <2>2. x \in Nat /\ y \in Nat /\ y = x + ChunkSize
    BY <1>1, <2>1
  <2>3. y <= n * ChunkSize
    BY <1>1, <1>3, <2>1
  <2>4. y <= L + ChunkSize - 1
    <3> DEFINE z == n * ChunkSize
    <3>1. z \in Nat
      BY <1>1, <1>3
    <3>2. y <= z /\ z <= L + ChunkSize - 1
      BY <1>3, <2>3
    <3> HIDE DEF y, z
    <3> QED
      BY <1>1, <1>2, <2>2, <3>1, <3>2
  <2> HIDE DEF x, y
  <2>5. x < L
    BY <1>1, <1>2, <2>2, <2>4
  <2>6. end(c - 1) = x /\ end(c) = IF y < L THEN y ELSE L
    BY <2>5 DEF x, y
  <2> HIDE DEF end
  <2>7. x < end(c) /\ end(c) <= L /\ end(c) \in Nat /\ end(c) <= x + ChunkSize
    BY <1>1, <1>2, <2>2, <2>5, <2>6
  <2> QED
    BY <2>5, <2>6, <2>7 DEF x
<1>7. end(0) = 0 /\ end(n) = L
  BY <1>2, <1>3, <1>1
<1>8. DOMAIN Chunks(g) = 1 .. n /\ \A c \in 1 .. n : Chunks(g)[c] = SubSeq(g, (c - 1) * ChunkSize + 1, end(c))
  BY <1>2 DEF Chunks, n
<1> HIDE DEF end, g
<1>9. ASSUME NEW c \in 0 .. n PROVE end(c) \in Nat /\ end(c) <= L
  <2>1. c = 0 \/ c \in 1 .. n
    BY <1>3
  <2> QED
    BY <1>2, <1>6, <1>7, <2>1
<1>10. at \in [0 .. n -> 0 .. b] /\ at[0] = a /\ at[n] = b
  <2>1. 0 \in 0 .. n /\ n \in 0 .. n
    BY <1>3
  <2>2. a + L = b /\ a + 0 = a
    BY <1>2
  <2>3. \A c \in 0 .. n : a + end(c) \in 0 .. b
    BY <1>2, <1>9
  <2> HIDE DEF L
  <2> QED
    BY <1>7, <2>1, <2>2, <2>3
<1>11. ASSUME NEW c \in 1 .. n
       PROVE  /\ at[c - 1] < at[c] /\ at[c - 1] >= a /\ at[c] <= at[c - 1] + ChunkSize
              /\ Chunks(g)[c] = Run(at[c - 1], at[c])
  <2> DEFINE x == end(c - 1)
             y == end(c)
  <2>1. /\ x \in Nat /\ y \in Nat /\ x < y /\ y <= L /\ x = (c - 1) * ChunkSize
        /\ y <= x + ChunkSize
    <3>1. c - 1 \in 0 .. n
      BY <1>3
    <3> QED
      BY <1>6, <1>9, <3>1
  <2>2. at[c - 1] = a + x /\ at[c] = a + y
    <3>1. c - 1 \in 0 .. n /\ c \in 0 .. n
      BY <1>3
    <3> QED
      BY <3>1
  <2>3. Chunks(g)[c] = SubSeq(g, x + 1, y)
    BY <1>8, <2>1
  <2> HIDE DEF x, y, at
  <2>4. SubSeq(g, x + 1, y) = [j \in 1 .. (y - x) |-> g[x + j]]
    <3> HIDE DEF L
    <3>1. \A i \in (x + 1) .. y : g[i] \in Nat
      BY <1>2, <2>1
    <3>2. x + 1 \in Int /\ y \in Int /\ x + 1 <= y /\ y - (x + 1) + 1 = y - x
      BY <2>1
    <3>3. /\ SubSeq(g, x + 1, y) \in Seq(Nat) /\ Len(SubSeq(g, x + 1, y)) = y - x
          /\ \A j \in 1 .. (y - x) : SubSeq(g, x + 1, y)[j] = g[(x + 1) + j - 1]
      BY <3>1, <3>2, SubSeqProperties
    <3>4. \A j \in 1 .. (y - x) : (x + 1) + j - 1 = x + j
      BY <2>1
    <3> QED
      BY <3>3, <3>4
  <2>5. \A j \in 1 .. (y - x) : x + j \in 1 .. L /\ g[x + j] = a + (x + j)
    <3> HIDE DEF L
    <3>1. \A j \in 1 .. (y - x) : x + j \in 1 .. L
      BY <1>2, <2>1
    <3> QED
      BY <1>2, <3>1
  <2>6. (a + y) - (a + x) = y - x /\ \A j \in 1 .. (y - x) : a + (x + j) = (a + x) + j
    BY <2>1
  <2>7. SubSeq(g, x + 1, y) = Run(a + x, a + y)
    BY <2>4, <2>5, <2>6 DEF Run
  <2>8. at[c - 1] < at[c] /\ at[c - 1] >= a /\ at[c] <= at[c - 1] + ChunkSize
    BY <1>1, <2>1, <2>2
  <2> QED
    BY <2>2, <2>3, <2>7, <2>8
<1> HIDE DEF at
<1> QED
  BY <1>3, <1>4, <1>8, <1>10, <1>11 DEF g

\* What Plan sends of one group, or of a row.
Single(row) == [batched |-> FALSE, rows |-> <<row>>]
Batch(rows) == [batched |-> TRUE, rows |-> rows]
SentOf(list, group) ==
    IF Len(group) > 1 /\ list[group[1]] \in Dml
    THEN [c \in DOMAIN Chunks(group) |-> Batch(Chunks(group)[c])]
    ELSE [i \in DOMAIN group |-> Single(group[i])]

LEMMA PlanIs ==
    ASSUME NEW list
    PROVE  Plan(list) =
               IF hasProfiler THEN [i \in 1 .. Len(list) |-> Single(i)]
               ELSE FlattenSeq([g \in DOMAIN Groups(list) |-> SentOf(list, Groups(list)[g])])
  BY Zenon DEF Plan, SentOf, Single, Batch

LEMMA SingleSends ==
    ASSUME NEW list, NEW k \in Nat
    PROVE  /\ Single(k + 1) \in Item /\ Single(k + 1).rows = <<k + 1>> /\ ~Single(k + 1).batched
           /\ Sends(list, Single(k + 1), k, k + 1)
<1>1. <<k + 1>> \in Seq(Nat) /\ <<k + 1>> = Run(k, k + 1)
  <2>1. (k + 1) - k = 1 /\ \A j \in 1 .. 1 : k + j = k + 1
    OBVIOUS
  <2>2. <<k + 1>> = [j \in 1 .. 1 |-> k + 1]
    OBVIOUS
  <2>3. Run(k, k + 1) = [j \in 1 .. 1 |-> k + 1]
    BY <2>1 DEF Run
  <2> QED
    BY <2>2, <2>3
<1>2. Single(k + 1) \in Item /\ Single(k + 1).rows = <<k + 1>> /\ ~Single(k + 1).batched
  BY <1>1 DEF Single, Item
<1>3. k < k + 1
  OBVIOUS
<1> QED
  BY <1>1, <1>2, <1>3 DEF Sends

\* Rows sent one by one.
LEMMA SinglesCover ==
    ASSUME NEW list, NEW a \in Nat, NEW b \in Nat, a <= b
    PROVE  Covers(list, [i \in 1 .. (b - a) |-> Single(a + i)], a, b)
<1> DEFINE n == b - a
           s == [i \in 1 .. n |-> Single(a + i)]
           at == [i \in 0 .. n |-> a + i]
<1>1. n \in Nat
  OBVIOUS
<1>2. ASSUME NEW i \in 1 .. n
      PROVE  s[i] \in Item /\ Sends(list, s[i], at[i - 1], at[i])
  <2>1. a + i - 1 \in Nat /\ (a + i - 1) + 1 = a + i
    BY <1>1
  <2>2. at[i - 1] = a + i - 1 /\ at[i] = a + i /\ s[i] = Single(a + i)
    <3>1. i - 1 \in 0 .. n /\ i \in 0 .. n /\ a + (i - 1) = a + i - 1
      BY <1>1
    <3> QED
      BY <3>1
  <2> HIDE DEF n, s, at
  <2> DEFINE k == a + i - 1
  <2>3. k \in Nat /\ k + 1 = a + i
    BY <2>1
  <2> HIDE DEF k
  <2>4. Single(k + 1) \in Item /\ Sends(list, Single(k + 1), k, k + 1)
    BY <2>3, SingleSends
  <2> QED
    BY <2>2, <2>3, <2>4 DEF k
<1>3. s \in Seq(Item) /\ Len(s) = n
  <2>1. \A i \in 1 .. n : s[i] \in Item
    BY <1>2
  <2> HIDE DEF n
  <2>2. s \in [1 .. n -> Item]
    BY <2>1
  <2> HIDE DEF s
  <2> QED
    BY <1>1, <2>2
<1>4. at \in [0 .. n -> 0 .. b] /\ at[0] = a /\ at[n] = b
  OBVIOUS
<1> HIDE DEF n, s, at
<1>5. Covers(list, s, a, b)
  BY <1>2, <1>3, <1>4 DEF Covers
<1> QED
  BY <1>5 DEF s, n

LEMMA SentCovers ==
    ASSUME NEW list, NEW a \in Nat, NEW b \in Nat, a < b,
           \A r \in (a + 1) .. b : list[r] = list[b]
    PROVE  Covers(list, SentOf(list, Run(a, b)), a, b)
<1> DEFINE g == Run(a, b)
<1>1. /\ g \in Seq(Nat) /\ Len(g) = b - a /\ DOMAIN g = 1 .. (b - a)
      /\ \A j \in 1 .. (b - a) : g[j] = a + j
  <2>1. a <= b
    OBVIOUS
  <2>2. /\ g \in Seq(Nat) /\ Len(g) = b - a
        /\ \A j \in 1 .. (b - a) : g[j] = a + j
    BY <2>1, RunType
  <2> QED
    BY <2>2
<1> HIDE DEF g
<1>2. CASE Len(g) > 1 /\ list[g[1]] \in Dml
  <2> DEFINE chunks == Chunks(g)
  <2>1. PICK n \in Nat : \E at \in [0 .. n -> 0 .. b] :
              /\ n > 0 /\ at[0] = a /\ at[n] = b /\ DOMAIN chunks = 1 .. n
              /\ \A c \in 1 .. n : /\ at[c - 1] < at[c]
                                   /\ at[c - 1] >= a
                                   /\ at[c] <= at[c - 1] + ChunkSize
                                   /\ chunks[c] = Run(at[c - 1], at[c])
    BY ChunksAreRuns DEF g
  <2>2. PICK at \in [0 .. n -> 0 .. b] :
              /\ n > 0 /\ at[0] = a /\ at[n] = b /\ DOMAIN chunks = 1 .. n
              /\ \A c \in 1 .. n : /\ at[c - 1] < at[c]
                                   /\ at[c - 1] >= a
                                   /\ at[c] <= at[c - 1] + ChunkSize
                                   /\ chunks[c] = Run(at[c - 1], at[c])
    BY <2>1
  <2> HIDE DEF chunks
  <2> DEFINE s == [c \in 1 .. n |-> Batch(chunks[c])]
  <2>3. SentOf(list, g) = s
    BY <1>2, <2>2 DEF SentOf, chunks
  <2>4. list[b] \in Dml
    <3>1. 1 \in 1 .. (b - a) /\ a + 1 \in (a + 1) .. b
      OBVIOUS
    <3> QED
      BY <1>1, <1>2, <3>1
  <2>5. ASSUME NEW c \in 1 .. n
        PROVE  s[c] \in Item /\ Sends(list, s[c], at[c - 1], at[c])
    <3>1. c - 1 \in 0 .. n /\ c \in 0 .. n
      OBVIOUS
    <3>2. at[c - 1] \in Nat /\ at[c] \in Nat /\ at[c] <= b /\ a <= at[c - 1] /\ at[c - 1] < at[c]
      BY <2>2, <3>1
    <3> DEFINE x == at[c - 1]
               y == at[c]
    <3>3. s[c] = Batch(Run(x, y)) /\ y <= x + ChunkSize
      BY <2>2
    <3> HIDE DEF x, y, s
    <3>4. x \in Nat /\ y \in Nat /\ y <= b /\ a <= x /\ x < y
      BY <3>2 DEF x, y
    <3>5. Run(x, y) \in Seq(Nat)
      <4>1. x <= y
        BY <3>4
      <4> QED
        BY <3>4, <4>1, RunType
    <3>6. Batch(Run(x, y)) \in Item /\ Batch(Run(x, y)).rows = Run(x, y) /\ Batch(Run(x, y)).batched
      BY <3>5 DEF Batch, Item
    <3>7. \A r \in (x + 1) .. y : list[r] = list[y] /\ list[r] \in Dml
      <4>1. y \in (a + 1) .. b /\ \A r \in (x + 1) .. y : r \in (a + 1) .. b
        BY <3>4
      <4>2. \A r \in (a + 1) .. b : list[r] = list[b]
        OBVIOUS
      <4> QED
        BY <2>4, <4>1, <4>2
    <3>8. Sends(list, Batch(Run(x, y)), x, y)
      BY <3>3, <3>4, <3>6, <3>7 DEF Sends
    <3> QED
      BY <3>3, <3>6, <3>8 DEF x, y
  <2>6. s \in Seq(Item) /\ Len(s) = n
    <3>1. s \in [1 .. n -> Item]
      BY <2>5
    <3> HIDE DEF s
    <3> QED
      BY <3>1
  <2> HIDE DEF s
  <2>7. Covers(list, s, a, b)
    BY <2>2, <2>5, <2>6 DEF Covers
  <2> QED
    BY <2>3, <2>7 DEF g
<1>3. CASE ~(Len(g) > 1 /\ list[g[1]] \in Dml)
  <2>1. SentOf(list, g) = [i \in 1 .. (b - a) |-> Single(a + i)]
    BY <1>1, <1>3 DEF SentOf
  <2>2. a <= b
    OBVIOUS
  <2> QED
    BY <2>1, <2>2, SinglesCover DEF g
<1> QED
  BY <1>2, <1>3

\* What is sent is the list: every row once and in order, in batches only rows
\* with one text that may be batched, and no more of them than ChunkSize.
THEOREM PlanSendsTheList ==
    ASSUME NEW list, Len(list) \in Nat
    PROVE  Covers(list, Plan(list), 0, Len(list))
<1> DEFINE n == Len(list)
<1>1. CASE hasProfiler
  <2>1. n - 0 = n /\ 0 <= n /\ \A i \in 1 .. n : 0 + i = i
    OBVIOUS
  <2>2. Plan(list) = [i \in 1 .. (n - 0) |-> Single(0 + i)]
    BY <1>1, <2>1, PlanIs
  <2> HIDE DEF n
  <2>3. n \in Nat
    BY DEF n
  <2> QED
    BY <2>1, <2>2, <2>3, SinglesCover DEF n
<1>2. CASE ~hasProfiler
  <2> DEFINE groups == Groups(list)
             m == Len(groups)
             sent == [g \in DOMAIN groups |-> SentOf(list, groups[g])]
  <2>1. GroupsCover(list, groups, n)
    BY GroupsAreRuns
  <2>2. groups \in Seq(Seq(Nat)) /\ m \in Nat /\ DOMAIN groups = 1 .. m
    BY <2>1 DEF GroupsCover
  <2>3. PICK at \in [0 .. m -> 0 .. n] :
            /\ at[0] = 0 /\ at[m] = n
            /\ \A i \in 1 .. m :
                  /\ at[i - 1] < at[i] /\ groups[i] = Run(at[i - 1], at[i])
                  /\ \A r \in (at[i - 1] + 1) .. at[i] : list[r] = list[at[i]]
    BY <2>1 DEF GroupsCover
  <2>4. Plan(list) = FlattenSeq(sent)
    BY <1>2, PlanIs
  <2> HIDE DEF groups, m, n
  <2>5. ASSUME NEW i \in 1 .. m
        PROVE  Covers(list, sent[i], at[i - 1], at[i])
    <3>1. i - 1 \in 0 .. m /\ i \in 0 .. m
      BY <2>2
    <3> DEFINE x == at[i - 1]
               y == at[i]
    <3>2. x \in Nat /\ y \in Nat /\ x < y
      BY <2>3, <3>1 DEF n
    <3>3. sent[i] = SentOf(list, Run(x, y))
      BY <2>2, <2>3
    <3>4. \A r \in (x + 1) .. y : list[r] = list[y]
      BY <2>3
    <3> HIDE DEF x, y, sent
    <3>5. Covers(list, SentOf(list, Run(x, y)), x, y)
      BY <3>2, <3>4, SentCovers
    <3> QED
      BY <3>3, <3>5 DEF x, y
  <2>6. Len(sent) = m /\ (sent = <<>> \/ m > 0)
    <3>1. DOMAIN sent = 1 .. m
      BY <2>2
    <3> DEFINE E == {sent[i] : i \in 1 .. m}
    <3>2. sent \in Seq(E)
      <4>1. sent \in [1 .. m -> E]
        BY <2>2
      <4> HIDE DEF sent, E
      <4> QED
        BY <2>2, <4>1
    <3> HIDE DEF sent, E
    <3>3. Len(sent) = m
      BY <2>2, <3>1, <3>2
    <3>4. m = 0 => sent = <<>>
      BY <3>2, <3>3
    <3> QED
      BY <2>2, <3>3, <3>4
  <2> HIDE DEF sent
  <2>7. n \in Nat
    BY DEF n
  <2>8. /\ m \in Nat /\ Len(sent) = m /\ (sent = <<>> \/ m > 0) /\ n \in Nat
        /\ at \in [0 .. m -> 0 .. n] /\ at[0] = 0 /\ at[m] = n
        /\ \A i \in 1 .. m : Covers(list, sent[i], at[i - 1], at[i])
    BY <2>2, <2>3, <2>5, <2>6, <2>7
  <2>9. Covers(list, FlattenSeq(sent), 0, n)
    BY <2>8, FlattenCovers
  <2> QED
    BY <2>4, <2>9 DEF n
<1> QED
  BY <1>1, <1>2


-----------------------------------------------------------------------------
(* The invariants *)

\* The flag is up between BEGIN and its end, the connection is held between
\* the pool and `using`, and only a clean session is at COMMIT's reply or
\* idle.  No item of the plan is empty.
CallInv ==
    /\ TypeOK
    /\ \A i \in DOMAIN todo : todo[i].rows # <<>>
    /\ flag => pc \in {"statement", "flush", "rollback"}
    /\ pc \in {"parse", "acquire"} => conn = "none"
    /\ pc = "committed" \/ conn = "idle" => ~inTxn /\ work = <<>>
    /\ conn = "idle" => pc = "done"
    /\ pc # "done" => answer = "none"

\* The batches that fail leave the session as they found it, or stop at a row
\* the server rejects; whatever else may fail does.
Clean == "bulkDeadlock" \notin Faults /\ "bulkPartial" \notin Faults

\* How far the call is: the first k rows are done, those up to m are left of a
\* batch that failed, and todo covers the others.  Only when a batch stopped
\* at a bad row may it have done more; that row is still to come.
InStep == \E m \in 0 .. Len(input) : \E k \in 0 .. m :
              /\ rest = Run(k, m)
              /\ Covers(input, todo, m, Len(input))
              /\ work = Run(0, k) \/ \E i \in DOMAIN rest : rest[i] \in bad

BatchInv ==
    /\ Len(input) \in Nat
    /\ durable \in {<<>>, Rows(input)}
    /\ pc \in {"parse", "acquire", "profiler", "begin", "statement", "flush"} => durable = <<>>
    /\ pc \in {"parse", "acquire", "profiler", "begin"} => rest = <<>> /\ work = <<>>
    /\ caught # "none" => pc \in {"rollback", "done"}
    /\ pc = "rollback" => caught # "none"
    /\ caught = "statement" => durable = <<>>
    /\ pc \in {"statement", "flush"} /\ ~lost => inTxn /\ InStep
    /\ pc = "committed" \/ answer = "true" => durable = Rows(input)
    /\ answer = "error" /\ caught # "commit" => durable = <<>>
    /\ answer # "none" => pc = "done"

\* What the flushes within a list of n rows log, up to the row last.
LoggedUpTo(n, last) == {<<row, row - Window + 1>> : row \in {r \in Window + 1 .. n : r <= last}}

\* With m rows sent, the last of those flushes came after row k + 1 (none has
\* if k = 0), and the history holds what came after it, up to row m.
Progress(m, k) ==
    /\ k % Window = 0 /\ (k = 0 \/ k < m)
    /\ Len(history) = IF k > 0 THEN m - (k + 1) ELSE IF m < Window THEN m + 1 ELSE Window
    /\ \A j \in DOMAIN history : history[j] = m - Len(history) + j
    /\ logged = LoggedUpTo(Len(input), k + Window)

\* At a statement, the end of the list is logged or no flush is due yet; at a
\* flush, that is after Window more rows or at the end of the list.
AtStatement(m) ==
    \/ m = Len(input) /\ logged = LogOf(Len(input))
    \/ m < Len(input) /\ \E k \in 0 .. m : Progress(m, k) /\ m <= k + Window
AtFlush(m) ==
    \E k \in 0 .. m : /\ Progress(m, k) /\ m >= 1 /\ (k = 0 \/ m >= k + 2)
                      /\ m <= k + Window + 1
                      /\ m = Len(input) \/ m = k + Window + 1

\* The profiler path, with m rows sent.
LogInv ==
    hasProfiler =>
    /\ pc \in {"parse", "acquire", "profiler", "begin"} => history = <<>> /\ rest = <<>> /\ logged = {}
    /\ pc \in {"statement", "flush"} =>
           /\ rest = <<>>
           /\ \E m \in 0 .. Len(input) :
                 /\ todo = [i \in 1 .. (Len(input) - m) |-> Single(m + i)]
                 /\ pc = "statement" => AtStatement(m)
                 /\ pc = "flush" => AtFlush(m)
    /\ pc = "committed" \/ answer = "true" => logged = LogOf(Len(input))
    /\ answer # "none" => pc = "done"

-----------------------------------------------------------------------------
(* The call, whatever goes wrong *)

LEMMA TailIs ==
    ASSUME NEW S, NEW s \in Seq(S), s # <<>>
    PROVE  /\ Head(s) \in S /\ Head(s) = s[1] /\ 1 \in DOMAIN s
           /\ Tail(s) \in Seq(S) /\ Len(Tail(s)) = Len(s) - 1
           /\ \A i \in 1 .. (Len(s) - 1) : Tail(s)[i] = s[i + 1] /\ i + 1 \in DOMAIN s
  OBVIOUS

LEMMA InputLength == input \in Lists => Len(input) \in Nat /\ Len(input) <= MaxLength
<1> SUFFICES ASSUME input \in Lists PROVE Len(input) \in Nat /\ Len(input) <= MaxLength
  OBVIOUS
<1>1. PICK n \in 0 .. MaxLength : input \in [1 .. n -> Sql]
  BY DEF Lists
<1>2. n \in Nat /\ n <= MaxLength
  BY RawTransactionAssumption
<1>3. Len(input) = n
  BY <1>1, <1>2
<1> QED
  BY <1>2, <1>3

PlanItem == [batched : BOOLEAN, rows : Seq(Row)]

LEMMA PlanType ==
    ASSUME input \in Lists
    PROVE  Plan(input) \in Seq(PlanItem) /\ \A i \in DOMAIN Plan(input) : Plan(input)[i].rows # <<>>
<1> DEFINE s == Plan(input)
           b == Len(input)
<1>1. b \in Nat /\ b <= MaxLength /\ MaxLength \in Nat
  BY InputLength, RawTransactionAssumption
<1>2. Covers(input, s, 0, b)
  BY <1>1, PlanSendsTheList
<1> HIDE DEF s, b
<1>3. PICK at \in [0 .. Len(s) -> 0 .. b] :
          \A i \in 1 .. Len(s) : Sends(input, s[i], at[i - 1], at[i])
  BY <1>2 DEF Covers
<1>4. s \in Seq(Item) /\ Len(s) \in Nat /\ DOMAIN s = 1 .. Len(s)
  BY <1>2 DEF Covers
<1>5. ASSUME NEW i \in 1 .. Len(s) PROVE s[i] \in PlanItem /\ s[i].rows # <<>>
  <2>1. i - 1 \in 0 .. Len(s) /\ i \in 0 .. Len(s)
    BY <1>4
  <2> DEFINE x == at[i - 1]
             y == at[i]
  <2>2. x \in 0 .. b /\ y \in 0 .. b
    BY <1>3, <2>1
  <2>3. x < y /\ s[i].rows = Run(x, y)
    BY <1>3 DEF Sends
  <2> HIDE DEF x, y
  <2>4. x \in Nat /\ y \in Nat /\ y <= b /\ x <= y /\ y - x \in Nat /\ y - x # 0
    BY <1>1, <2>2, <2>3
  <2>5. \A j \in 1 .. (y - x) : x + j \in Row
    BY <1>1, <2>4 DEF Row
  <2>6. Run(x, y) \in Seq(Row) /\ Len(Run(x, y)) = y - x
    BY <2>4, <2>5 DEF Run
  <2>7. s[i].rows \in Seq(Row) /\ s[i].rows # <<>>
    BY <2>3, <2>4, <2>6
  <2>8. s[i] \in Item
    BY <1>4
  <2> QED
    BY <2>7, <2>8 DEF Item, PlanItem
<1>6. s \in Seq(PlanItem)
  <2>1. s \in [1 .. Len(s) -> PlanItem]
    BY <1>4, <1>5
  <2> QED
    BY <1>4, <2>1
<1> QED
  BY <1>4, <1>5, <1>6 DEF s

\* The rows a step takes from rest or todo are rows, and what stays behind is
\* as before.
LEMMA TodoShrinks ==
    ASSUME CallInv, todo # <<>>
    PROVE  /\ Head(todo) \in PlanItem /\ Head(todo).rows # <<>> /\ Head(todo).rows[1] \in Row
           /\ Tail(todo) \in Seq(PlanItem) /\ \A i \in DOMAIN Tail(todo) : Tail(todo)[i].rows # <<>>
<1>1. todo \in Seq(PlanItem) /\ \A i \in DOMAIN todo : todo[i].rows # <<>>
  BY DEF CallInv, TypeOK, PlanItem
<1>2. /\ Head(todo) \in PlanItem /\ Head(todo) = todo[1] /\ 1 \in DOMAIN todo
      /\ Tail(todo) \in Seq(PlanItem) /\ Len(Tail(todo)) = Len(todo) - 1
      /\ \A i \in 1 .. (Len(todo) - 1) : Tail(todo)[i] = todo[i + 1] /\ i + 1 \in DOMAIN todo
  BY <1>1, TailIs
<1>3. Head(todo).rows \in Seq(Row) /\ Head(todo).rows # <<>>
  BY <1>1, <1>2 DEF PlanItem
<1>4. Head(todo).rows[1] \in Row
  BY <1>3
<1>5. DOMAIN Tail(todo) = 1 .. (Len(todo) - 1)
  BY <1>2
<1> QED
  BY <1>1, <1>2, <1>3, <1>4, <1>5

LEMMA NextRowIsRow ==
    ASSUME CallInv, NextIsRow
    PROVE  NextRow \in Row
<1>1. CASE InFallback
  <2>1. rest \in Seq(Row) /\ rest # <<>>
    BY <1>1 DEF InFallback, CallInv, TypeOK
  <2>2. Head(rest) \in Row
    BY <2>1
  <2> QED
    BY <1>1, <2>2 DEF NextRow
<1>2. CASE ~InFallback
  BY <1>2, TodoShrinks DEF NextIsRow, NextRow
<1> QED
  BY <1>1, <1>2

LEMMA LastOfType ==
    ASSUME NEW S, NEW s \in Seq(S), NEW n \in Nat
    PROVE  /\ LastOf(n, s) \in Seq(S)
           /\ Len(LastOf(n, s)) = IF Len(s) <= n THEN Len(s) ELSE n
<1>1. CASE Len(s) <= n
  BY <1>1 DEF LastOf
<1>2. CASE ~(Len(s) <= n)
  <2> DEFINE a == Len(s) - n + 1
             b == Len(s)
  <2>1. a \in Int /\ b \in Int /\ b - a + 1 = n /\ a >= 1 /\ (a <= b \/ n = 0)
    BY <1>2
  <2>2. \A i \in a .. b : s[i] \in S
    BY <2>1
  <2>3. LastOf(n, s) = SubSeq(s, a, b)
    BY <1>2 DEF LastOf
  <2>4. n = 0 => ~(a <= b)
    BY <1>2
  <2> HIDE DEF a, b
  <2>5. /\ SubSeq(s, a, b) \in Seq(S)
        /\ Len(SubSeq(s, a, b)) = IF a <= b THEN b - a + 1 ELSE 0
    BY <2>1, <2>2, SubSeqProperties
  <2> QED
    BY <1>2, <2>1, <2>3, <2>4, <2>5
<1> QED
  BY <1>1, <1>2

LEMMA RecordedType ==
    ASSUME CallInv, NEW x \in Row \cup {0}
    PROVE  /\ Recorded(x) \in Seq(Row \cup {0})
           /\ hasProfiler => Len(Recorded(x)) = IF Len(history) + 1 <= Window
                                                THEN Len(history) + 1 ELSE Window
<1>1. history \in Seq(Row \cup {0}) /\ Window \in Nat
  BY RawTransactionAssumption DEF CallInv, TypeOK
<1>2. Append(history, x) \in Seq(Row \cup {0}) /\ Len(Append(history, x)) = Len(history) + 1
  BY <1>1, AppendIs
<1>3. /\ LastOf(Window, Append(history, x)) \in Seq(Row \cup {0})
      /\ Len(LastOf(Window, Append(history, x))) = IF Len(history) + 1 <= Window
                                                   THEN Len(history) + 1 ELSE Window
  BY <1>1, <1>2, LastOfType
<1> QED
  BY <1>1, <1>3 DEF Recorded

LEMMA InitCall == Init => CallInv
<1> SUFFICES ASSUME Init PROVE CallInv
  OBVIOUS
<1>1. bad \subseteq Row
  BY InputLength, RawTransactionAssumption DEF Init, Row
<1>2. <<>> \in Seq(PlanItem) /\ <<>> \in Seq(Row) /\ <<>> \in Seq(Row \cup {0}) /\ DOMAIN <<>> = {}
  OBVIOUS
<1> QED
  BY <1>1, <1>2 DEF Init, CallInv, TypeOK, PlanItem, Places

LEMMA BatchFailsKeepsCall ==
    ASSUME CallInv, BatchFails
    PROVE  CallInv'
<1> DEFINE chunk == Head(todo).rows
<1>1. PICK after \in AfterFailedBatch(chunk) :
          work' = after.work /\ inTxn' = after.inTxn /\ durable' = after.durable
  BY DEF BatchFails
<1>2. /\ pc = "statement" /\ todo # <<>> /\ rest' = chunk /\ todo' = Tail(todo)
      /\ UNCHANGED <<call, pc, conn, flag, lost, trace, caught, answer>>
  BY DEF BatchFails, NextIsBatch
<1>3. chunk \in Seq(Row)
  BY <1>2, TodoShrinks DEF PlanItem
<1> HIDE DEF chunk
<1>4. work \in Seq(Row) /\ durable \in Seq(Row) /\ <<>> \in Seq(Row)
  BY DEF CallInv, TypeOK
<1>5. work' \in Seq(Row) /\ durable' \in Seq(Row) /\ inTxn' \in BOOLEAN
  <2>1. ASSUME NEW n \in 0 .. Len(chunk) - 1
        PROVE  work \o SubSeq(chunk, 1, n) \in Seq(Row) /\ durable \o SubSeq(chunk, 1, n) \in Seq(Row)
    <3>1. \A i \in 1 .. n : chunk[i] \in Row
      BY <1>3
    <3>2. SubSeq(chunk, 1, n) \in Seq(Row)
      BY <3>1, SubSeqProperties
    <3> QED
      BY <1>4, <3>2
  <2>2. CASE \E n \in 0 .. Len(chunk) - 1 :
                 after = IF inTxn THEN [work |-> work \o SubSeq(chunk, 1, n), inTxn |-> TRUE,
                                        durable |-> durable]
                         ELSE [work |-> work, inTxn |-> FALSE,
                               durable |-> durable \o SubSeq(chunk, 1, n)]
    <3>1. PICK n \in 0 .. Len(chunk) - 1 :
                 after = IF inTxn THEN [work |-> work \o SubSeq(chunk, 1, n), inTxn |-> TRUE,
                                        durable |-> durable]
                         ELSE [work |-> work, inTxn |-> FALSE,
                               durable |-> durable \o SubSeq(chunk, 1, n)]
      BY <2>2
    <3> DEFINE w == work \o SubSeq(chunk, 1, n)
               d == durable \o SubSeq(chunk, 1, n)
    <3>2. w \in Seq(Row) /\ d \in Seq(Row)
      BY <2>1
    <3> HIDE DEF w, d
    <3>3. /\ inTxn => after.work = w /\ after.inTxn = TRUE /\ after.durable = durable
          /\ ~inTxn => after.work = work /\ after.inTxn = FALSE /\ after.durable = d
      BY <3>1 DEF w, d
    <3> QED
      BY <1>1, <1>4, <3>2, <3>3
  <2>3. CASE after = [work |-> <<>>, inTxn |-> FALSE, durable |-> durable]
    BY <1>1, <1>4, <2>3
  <2> QED
    BY <1>1, <2>2, <2>3 DEF AfterFailedBatch
<1>6. TypeOK'
  BY <1>2, <1>3, <1>5, TodoShrinks DEF CallInv, TypeOK, call, trace, PlanItem
<1> QED
  BY <1>2, <1>6, TodoShrinks DEF CallInv

LEMMA SentKeepsCall ==
    ASSUME CallInv, BatchDone \/ RowDone
    PROVE  CallInv'
<1> DEFINE new == IF BatchDone THEN Head(todo).rows ELSE <<NextRow>>
<1>1. new \in Seq(Row)
  <2>1. CASE BatchDone
    BY <2>1, TodoShrinks DEF BatchDone, NextIsBatch, PlanItem
  <2>2. CASE ~BatchDone
    <3>1. NextRow \in Row
      BY <2>2, NextRowIsRow DEF RowDone
    <3> QED
      BY <2>2, <3>1
  <2> QED
    BY <2>1, <2>2
<1>2. Execute(new)
  BY DEF BatchDone, RowDone
<1>3. /\ \/ todo' = Tail(todo) /\ todo # <<>> /\ rest' = rest
         \/ todo' = todo /\ rest' = Tail(rest) /\ rest # <<>>
      /\ pc = "statement" /\ pc' \in {"statement", "flush"}
      /\ UNCHANGED <<call, conn, flag, inTxn, lost, logged, caught, answer>>
  BY DEF BatchDone, RowDone, NextIsBatch, NextIsRow, InFallback, trace
<1>4. history' \in Seq(Row \cup {0})
  <2>1. CASE BatchDone
    BY <2>1 DEF BatchDone, trace, CallInv, TypeOK
  <2>2. CASE RowDone
    BY <2>2, NextRowIsRow, RecordedType DEF RowDone
  <2> QED
    BY <2>1, <2>2
<1> HIDE DEF new
<1>5. work' \in Seq(Row) /\ durable' \in Seq(Row)
  <2>1. work \in Seq(Row) /\ durable \in Seq(Row)
    BY DEF CallInv, TypeOK
  <2>2. work \o new \in Seq(Row) /\ durable \o new \in Seq(Row)
    BY <1>1, <2>1
  <2> QED
    BY <1>2, <2>1, <2>2 DEF Execute
<1>6. /\ todo' \in Seq(PlanItem) /\ rest' \in Seq(Row)
      /\ \A i \in DOMAIN todo' : todo'[i].rows # <<>>
  <2>1. todo \in Seq(PlanItem) /\ rest \in Seq(Row) /\ \A i \in DOMAIN todo : todo[i].rows # <<>>
    BY DEF CallInv, TypeOK, PlanItem
  <2>2. rest # <<>> => Tail(rest) \in Seq(Row)
    BY <2>1
  <2> QED
    BY <1>3, <2>1, <2>2, TodoShrinks
<1>7. TypeOK'
  BY <1>3, <1>4, <1>5, <1>6 DEF CallInv, TypeOK, call, PlanItem, Places
<1> QED
  BY <1>3, <1>6, <1>7 DEF CallInv

LEMMA FlushKeepsCall ==
    ASSUME CallInv, Flush
    PROVE  CallInv'
<1>1. /\ logged' = logged \cup
             {<<Offset + j, history[j]>> : j \in {k \in DOMAIN history : Offset + k <= Len(input)}}
      /\ history' = <<>> /\ pc = "flush" /\ pc' = "statement"
      /\ UNCHANGED <<call, todo, rest, conn, flag, session, caught, answer>>
  BY DEF Flush
<1>2. Len(input) \in Nat /\ Len(input) <= MaxLength /\ MaxLength \in Nat
  BY InputLength, RawTransactionAssumption DEF CallInv, TypeOK
<1>3. Offset \in Nat
  <2>1. Len(todo) \in Nat /\ Window \in Nat /\ Window > 0
    BY RawTransactionAssumption DEF CallInv, TypeOK
  <2>2. Sent \in Int
    BY <1>2, <2>1 DEF Sent
  <2> QED
    BY <2>1, <2>2 DEF Offset
<1>4. history \in Seq(Row \cup {0})
  BY DEF CallInv, TypeOK
<1>5. ASSUME NEW j \in DOMAIN history, Offset + j <= Len(input)
      PROVE  <<Offset + j, history[j]>> \in Row \X (Row \cup {0})
  <2>1. j \in Nat /\ j >= 1 /\ history[j] \in Row \cup {0}
    BY <1>4
  <2>2. Offset + j \in Row
    BY <1>2, <1>3, <1>5, <2>1 DEF Row
  <2> QED
    BY <2>1, <2>2
<1>6. logged' \subseteq Row \X (Row \cup {0})
  <2>1. logged \subseteq Row \X (Row \cup {0})
    BY DEF CallInv, TypeOK
  <2> QED
    BY <1>1, <1>5, <2>1
<1>7. TypeOK'
  BY <1>1, <1>6 DEF CallInv, TypeOK, call, session, Places
<1> QED
  BY <1>1, <1>7 DEF CallInv, session

LEMMA BeginKeepsCall ==
    ASSUME CallInv, Begin
    PROVE  CallInv'
<1>1. /\ flag' = TRUE /\ inTxn' = TRUE /\ history' = Recorded(0)
      /\ todo' = Plan(input) /\ pc = "begin" /\ pc' = "statement"
      /\ UNCHANGED <<call, rest, conn, lost, work, durable, logged, caught, answer>>
  BY DEF Begin
<1>2. history' \in Seq(Row \cup {0})
  BY <1>1, RecordedType
<1>3. todo' \in Seq(PlanItem) /\ \A i \in DOMAIN todo' : todo'[i].rows # <<>>
  BY <1>1, PlanType DEF CallInv, TypeOK
<1>4. TypeOK'
  BY <1>1, <1>2, <1>3 DEF CallInv, TypeOK, call, PlanItem, Places
<1> QED
  BY <1>1, <1>3, <1>4 DEF CallInv

LEMMA NextKeepsCall == CallInv /\ [Next]_vars => CallInv'
<1> SUFFICES ASSUME CallInv, [Next]_vars PROVE CallInv'
  OBVIOUS
<1> USE DEF call, session, trace, TypeOK, Places
<1>0. work \in Seq(Row) /\ durable \in Seq(Row) /\ <<>> \in Seq(Row) /\ durable \o work \in Seq(Row)
  <2>1. work \in Seq(Row) /\ durable \in Seq(Row)
    BY DEF CallInv
  <2> QED
    BY <2>1
<1>1. CASE Begin \/ BatchDone \/ BatchFails \/ RowDone \/ Flush
  BY <1>1, BeginKeepsCall, SentKeepsCall, BatchFailsKeepsCall, FlushKeepsCall
<1>2. CASE Parse
  BY <1>2 DEF Parse, CallInv
<1>3. CASE Acquire
  <2>1. /\ pc = "acquire" /\ conn = "none"
        /\ \/ conn' = "held" /\ pc' \in {"profiler", "begin"} /\ UNCHANGED answer
           \/ pc' = "done" /\ answer' = "error" /\ UNCHANGED conn
        /\ UNCHANGED <<input, bad, hasProfiler, todo, rest, flag, session, trace, caught>>
    BY <1>3 DEF Acquire, CallInv
  <2>2. TypeOK'
    BY <2>1 DEF CallInv
  <2> QED
    BY <2>1, <2>2 DEF CallInv
<1>4. CASE Lose
  <2>1. /\ conn = "held" /\ inTxn' = FALSE /\ work' = <<>> /\ lost' = TRUE
        /\ UNCHANGED <<input, bad, hasProfiler, pc, todo, rest, conn, flag, durable, history, logged,
                       caught, answer>>
    BY <1>4 DEF Lose, CallInv
  <2>2. TypeOK'
    BY <1>0, <2>1 DEF CallInv
  <2> QED
    BY <2>1, <2>2 DEF CallInv
<1>5. CASE ProfilerSet
  BY <1>5 DEF ProfilerSet, Throws, CallInv
<1>6. CASE BeginFails
  BY <1>6 DEF BeginFails, Throws, CallInv
<1>7. CASE RowFails
  <2>1. /\ pc = "statement" /\ pc' = "rollback" /\ caught' = "statement"
        /\ work' \in {work, <<>>} /\ inTxn' \in {inTxn, FALSE}
        /\ UNCHANGED <<input, bad, hasProfiler, todo, rest, conn, flag, lost, durable, history, logged,
                       answer>>
    BY <1>7 DEF RowFails, Throws, RolledBack, CallInv
  <2>2. TypeOK'
    BY <1>0, <2>1 DEF CallInv
  <2> QED
    BY <2>1, <2>2 DEF CallInv
<1>8. CASE FlushFails
  BY <1>8 DEF FlushFails, Throws, CallInv
<1>9. CASE CommitAtServer
  <2>1. /\ pc = "statement" /\ pc' = "committed" /\ work' = <<>> /\ durable' = durable \o work
        /\ inTxn' = FALSE /\ flag' = FALSE
        /\ UNCHANGED <<input, bad, hasProfiler, todo, rest, conn, lost, history, logged, caught,
                       answer>>
    BY <1>9 DEF CommitAtServer, CallInv
  <2>2. TypeOK'
    BY <1>0, <2>1 DEF CallInv
  <2> QED
    BY <2>1, <2>2 DEF CallInv
<1>10. CASE CommitDone
  <2>1. /\ pc' = "done" /\ ~flag' /\ conn' \in {"destroyed", "idle"} /\ answer' \in {"true", "error"}
        /\ UNCHANGED <<input, bad, hasProfiler, todo, rest, lost, durable, history, logged,
                       caught>>
        /\ work' \in {work, <<>>} /\ inTxn' \in {inTxn, FALSE} /\ flag' \in BOOLEAN
        /\ conn' = "idle" => ~inTxn' /\ work' = <<>>
    BY <1>10 DEF CommitDone, Leave, CallInv
  <2>2. TypeOK'
    BY <1>0, <2>1 DEF CallInv
  <2> QED
    BY <2>1, <2>2 DEF CallInv
<1>11. CASE CommitFails
  BY <1>11 DEF CommitFails, Throws, CallInv
<1>12. CASE RollbackDone
  <2>1. /\ pc' = "done" /\ ~flag' /\ conn' \in {"destroyed", "idle"} /\ answer' \in {"true", "error"}
        /\ UNCHANGED <<input, bad, hasProfiler, todo, rest, lost, durable, history, logged,
                       caught>>
        /\ work' \in {work, <<>>} /\ inTxn' \in {inTxn, FALSE} /\ flag' \in BOOLEAN
        /\ conn' = "idle" => ~inTxn' /\ work' = <<>>
    BY <1>12 DEF RollbackDone, RolledBack, Leave, CallInv
  <2>2. TypeOK'
    BY <1>0, <2>1 DEF CallInv
  <2> QED
    BY <2>1, <2>2 DEF CallInv
<1>13. CASE RollbackFails
  <2>1. /\ pc' = "done" /\ ~flag' /\ conn' \in {"destroyed", "idle"} /\ answer' \in {"true", "error"}
        /\ UNCHANGED <<input, bad, hasProfiler, todo, rest, lost, durable, history, logged,
                       caught>>
        /\ work' \in {work, <<>>} /\ inTxn' \in {inTxn, FALSE} /\ flag' \in BOOLEAN
        /\ conn' = "idle" => ~inTxn' /\ work' = <<>>
    BY <1>13 DEF RollbackFails, Leave, CallInv
  <2>2. TypeOK'
    BY <1>0, <2>1 DEF CallInv
  <2> QED
    BY <2>1, <2>2 DEF CallInv
<1>14. CASE Over \/ UNCHANGED vars
  BY <1>14 DEF Over, vars, CallInv
<1> QED
  BY <1>1, <1>2, <1>3, <1>4, <1>5, <1>6, <1>7, <1>8, <1>9, <1>10, <1>11, <1>12, <1>13, <1>14
     DEF Next

\* Every variable keeps its type, and when the call is over the flag is down
\* and a connection that was asked for has an end: the branch of dispose that
\* connection.ts calls unreachable is.
THEOREM TypeCorrect == Spec => []TypeOK
<1>1. CallInv => TypeOK
  BY DEF CallInv
<1> QED
  BY <1>1, InitCall, NextKeepsCall, PTL DEF Spec

\* Whatever breaks, at whatever await: a connection that goes back to the pool
\* carries no open transaction and no statement of this call.
THEOREM ReleasedIsClean == Spec => []ReleasedClean
<1>1. CallInv => ReleasedClean
  BY DEF CallInv, ReleasedClean
<1> QED
  BY <1>1, InitCall, NextKeepsCall, PTL DEF Spec

-----------------------------------------------------------------------------
(* Batches and their fallback *)

LEMMA RunConcat ==
    ASSUME NEW a \in Nat, NEW b \in Nat, NEW c \in Nat, a <= b, b <= c
    PROVE  Run(a, b) \o Run(b, c) = Run(a, c)
<1>1. Run(a, b) \in Seq(Nat) /\ Len(Run(a, b)) = b - a /\ \A j \in 1 .. (b - a) : Run(a, b)[j] = a + j
  BY RunType
<1>2. Run(b, c) \in Seq(Nat) /\ Len(Run(b, c)) = c - b /\ \A j \in 1 .. (c - b) : Run(b, c)[j] = b + j
  BY RunType
<1>3. a <= c
  OBVIOUS
<1>4. Run(a, c) \in Seq(Nat) /\ Len(Run(a, c)) = c - a /\ \A j \in 1 .. (c - a) : Run(a, c)[j] = a + j
  BY <1>3, RunType
<1> DEFINE u == Run(a, b) \o Run(b, c)
<1>5. u \in Seq(Nat) /\ Len(u) = c - a
  <2>1. u \in Seq(Nat) /\ Len(u) = (b - a) + (c - b)
    BY <1>1, <1>2, ConcatProperties
  <2> HIDE DEF u
  <2>2. (b - a) + (c - b) = c - a
    OBVIOUS
  <2> QED
    BY <2>1, <2>2
<1>6. ASSUME NEW j \in 1 .. (c - a) PROVE u[j] = a + j
  <2>1. CASE j <= b - a
    <3>1. j \in 1 .. (b - a) /\ u[j] = Run(a, b)[j]
      BY <1>1, <1>2, <2>1
    <3> QED
      BY <1>1, <3>1
  <2>2. CASE ~(j <= b - a)
    <3>1. j - (b - a) \in 1 .. (c - b) /\ u[j] = Run(b, c)[j - (b - a)]
      BY <1>1, <1>2, <2>2
    <3>2. b + (j - (b - a)) = a + j
      OBVIOUS
    <3> HIDE DEF u
    <3> QED
      BY <1>2, <3>1, <3>2
  <2> QED
    BY <2>1, <2>2
<1> HIDE DEF u
<1>7. u = Run(a, c)
  <2>1. \A j \in 1 .. Len(u) : u[j] = Run(a, c)[j]
    BY <1>4, <1>5, <1>6
  <2> QED
    BY <1>4, <1>5, <2>1, SeqEqual
<1> QED
  BY <1>7 DEF u

LEMMA RunIsEmpty ==
    ASSUME NEW a \in Nat, NEW b \in Nat, a <= b
    PROVE  Run(a, b) = <<>> <=> a = b
<1>1. Run(a, b) \in Seq(Nat) /\ Len(Run(a, b)) = b - a
  BY RunType
<1>2. a = b => Run(a, b) = <<>>
  BY RunType
<1>3. Run(a, b) = <<>> => a = b
  BY <1>1
<1> QED
  BY <1>2, <1>3

LEMMA RunTail ==
    ASSUME NEW a \in Nat, NEW b \in Nat, a < b
    PROVE  Head(Run(a, b)) = a + 1 /\ Tail(Run(a, b)) = Run(a + 1, b)
<1>1. /\ Run(a, b) \in Seq(Nat) /\ Len(Run(a, b)) = b - a
      /\ \A j \in 1 .. (b - a) : Run(a, b)[j] = a + j
  <2>1. a <= b
    OBVIOUS
  <2> QED
    BY <2>1, RunType
<1>2. /\ Run(a + 1, b) \in Seq(Nat) /\ Len(Run(a + 1, b)) = b - (a + 1)
      /\ \A j \in 1 .. (b - (a + 1)) : Run(a + 1, b)[j] = (a + 1) + j
  <2>1. a + 1 \in Nat /\ a + 1 <= b
    OBVIOUS
  <2> DEFINE x == a + 1
  <2> HIDE DEF x
  <2>2. x \in Nat /\ x <= b
    BY <2>1 DEF x
  <2>3. /\ Run(x, b) \in Seq(Nat) /\ Len(Run(x, b)) = b - x
        /\ \A j \in 1 .. (b - x) : Run(x, b)[j] = x + j
    BY <2>2, RunType
  <2> QED
    BY <2>3 DEF x
<1> DEFINE s == Run(a, b)
           t == Run(a + 1, b)
<1> HIDE DEF s, t
<1>3. s # <<>> /\ 1 \in 1 .. (b - a) /\ Len(s) - 1 = b - (a + 1)
  BY <1>1 DEF s
<1>4. /\ Head(s) = s[1] /\ Tail(s) \in Seq(Nat) /\ Len(Tail(s)) = Len(s) - 1
      /\ \A i \in 1 .. (Len(s) - 1) : Tail(s)[i] = s[i + 1]
  BY <1>1, <1>3, TailIs DEF s
<1>5. \A j \in 1 .. (b - (a + 1)) : j + 1 \in 1 .. (b - a) /\ a + (j + 1) = (a + 1) + j
  OBVIOUS
<1>6. Tail(s) = t
  <2>1. Len(Tail(s)) = Len(t) /\ \A j \in 1 .. Len(Tail(s)) : Tail(s)[j] = t[j]
    BY <1>1, <1>2, <1>3, <1>4, <1>5 DEF s, t
  <2> QED
    BY <1>2, <1>4, <2>1, SeqEqual DEF t
<1> QED
  BY <1>1, <1>3, <1>4, <1>6 DEF s, t

LEMMA CoversTail ==
    ASSUME NEW list, NEW s, NEW a \in Nat, NEW b \in Nat, Covers(list, s, a, b), s # <<>>
    PROVE  \E c \in 0 .. b : Sends(list, Head(s), a, c) /\ Covers(list, Tail(s), c, b)
<1> DEFINE n == Len(s)
           t == Tail(s)
<1>1. s \in Seq(Item) /\ n \in Nat /\ n > 0
  BY DEF Covers
<1>2. PICK at \in [0 .. n -> 0 .. b] :
          at[0] = a /\ at[n] = b /\ \A i \in 1 .. n : Sends(list, s[i], at[i - 1], at[i])
  BY DEF Covers
<1>3. /\ Head(s) = s[1] /\ t \in Seq(Item) /\ Len(t) = n - 1
      /\ \A i \in 1 .. (n - 1) : t[i] = s[i + 1]
  BY <1>1, TailIs
<1> HIDE DEF n, t
<1> DEFINE up == [i \in 0 .. (n - 1) |-> at[i + 1]]
<1>4. \A i \in 0 .. (n - 1) : i + 1 \in 0 .. n /\ at[i + 1] \in 0 .. b
  BY <1>1, <1>2
<1>5. up \in [0 .. (n - 1) -> 0 .. b] /\ up[0] = at[1] /\ up[n - 1] = b
  <2>1. 0 \in 0 .. (n - 1) /\ n - 1 \in 0 .. (n - 1) /\ 0 + 1 = 1 /\ (n - 1) + 1 = n
    BY <1>1
  <2> QED
    BY <1>2, <1>4, <2>1
<1>6. ASSUME NEW i \in 1 .. (n - 1)
      PROVE  Sends(list, t[i], up[i - 1], up[i])
  <2>1. i - 1 \in 0 .. (n - 1) /\ i \in 0 .. (n - 1) /\ (i - 1) + 1 = i
    BY <1>1
  <2>2. up[i - 1] = at[i] /\ up[i] = at[i + 1]
    BY <2>1
  <2>3. i + 1 \in 1 .. n /\ (i + 1) - 1 = i
    BY <1>1
  <2> HIDE DEF up
  <2> QED
    BY <1>2, <1>3, <2>2, <2>3
<1> HIDE DEF up
<1>7. Covers(list, t, at[1], b)
  BY <1>3, <1>5, <1>6 DEF Covers
<1>8. at[1] \in 0 .. b /\ Sends(list, Head(s), a, at[1])
  <2>1. 1 \in 1 .. n /\ 1 \in 0 .. n /\ 1 - 1 = 0
    BY <1>1
  <2> QED
    BY <1>2, <1>3, <2>1
<1> QED
  BY <1>7, <1>8 DEF t

LEMMA CoversNothing ==
    ASSUME NEW list, NEW a, NEW b, Covers(list, <<>>, a, b)
    PROVE  a = b
  BY DEF Covers

\* One more row of a failed batch, or of a row of its own.
LEMMA RowDoneInStep ==
    ASSUME CallInv, Len(input) \in Nat, InStep, inTxn, RowDone
    PROVE  InStep'
<1> DEFINE N == Len(input)
<1>1. PICK m \in 0 .. N : \E k \in 0 .. m :
          /\ rest = Run(k, m) /\ Covers(input, todo, m, N)
          /\ work = Run(0, k) \/ \E i \in DOMAIN rest : rest[i] \in bad
  BY DEF InStep
<1>2. PICK k \in 0 .. m :
          /\ rest = Run(k, m) /\ Covers(input, todo, m, N)
          /\ work = Run(0, k) \/ \E i \in DOMAIN rest : rest[i] \in bad
  BY <1>1
<1>3. /\ NextIsRow /\ NextRow \notin bad /\ work' = work \o <<NextRow>>
      /\ input' = input /\ bad' = bad
      /\ IF InFallback THEN rest' = Tail(rest) /\ todo' = todo
                       ELSE todo' = Tail(todo) /\ rest' = rest
  BY DEF RowDone, Execute, call
<1>4. k \in Nat /\ m \in Nat /\ k <= m /\ m <= N
  OBVIOUS
<1>5. work \in Seq(Row)
  BY DEF CallInv, TypeOK
<1> HIDE DEF N
<1>6. CASE InFallback
  <2>1. k < m
    BY <1>2, <1>4, <1>6, RunIsEmpty DEF InFallback
  <2>2. NextRow = k + 1 /\ rest' = Run(k + 1, m) /\ todo' = todo
    BY <1>2, <1>3, <1>4, <1>6, <2>1, RunTail DEF NextRow
  <2>3. work = Run(0, k) => work' = Run(0, k + 1)
    <3>1. 0 <= k
      BY <1>4
    <3>2. Run(0, k) \in Seq(Nat) /\ Append(Run(0, k), k + 1) = Run(0, k + 1)
      BY <1>4, <3>1, RunType
    <3>3. Run(0, k) \o <<k + 1>> = Append(Run(0, k), k + 1)
      BY <1>4, <3>2
    <3> QED
      BY <1>3, <2>2, <3>2, <3>3
  <2>4. (\E i \in DOMAIN rest : rest[i] \in bad) => \E i \in DOMAIN rest' : rest'[i] \in bad'
    <3> SUFFICES ASSUME NEW i \in DOMAIN rest, rest[i] \in bad
                 PROVE  \E j \in DOMAIN rest' : rest'[j] \in bad'
      OBVIOUS
    <3>1. rest \in Seq(Row) /\ rest # <<>>
      BY <1>6 DEF InFallback, CallInv, TypeOK
    <3>2. i # 1
      BY <1>3, <1>6, <3>1 DEF NextRow
    <3>3. i - 1 \in 1 .. (Len(rest) - 1) /\ (i - 1) + 1 = i
      BY <3>1, <3>2
    <3>4. Tail(rest)[i - 1] = rest[i] /\ i - 1 \in DOMAIN Tail(rest)
      BY <3>1, <3>3, TailIs
    <3> QED
      BY <1>3, <1>6, <3>4
  <2>5. k + 1 \in 0 .. m
    BY <1>4, <2>1
  <2> QED
    BY <1>2, <1>3, <2>2, <2>3, <2>4, <2>5 DEF InStep, N
<1>7. CASE ~InFallback
  <2>1. k = m /\ work = Run(0, m)
    <3>1. rest = <<>> /\ DOMAIN <<>> = {}
      BY <1>7 DEF InFallback
    <3> QED
      BY <1>2, <1>4, <3>1, RunIsEmpty
  <2>2. todo # <<>> /\ ~Head(todo).batched /\ NextRow = Head(todo).rows[1]
    BY <1>3, <1>7 DEF NextIsRow, NextRow
  <2>3. N \in Nat
    BY DEF N
  <2>4. PICK c \in 0 .. N : Sends(input, Head(todo), m, c) /\ Covers(input, Tail(todo), c, N)
    BY <1>2, <1>4, <2>2, <2>3, CoversTail
  <2>5. c = m + 1 /\ Head(todo).rows = Run(m, m + 1)
    BY <2>2, <2>4 DEF Sends
  <2>6. NextRow = m + 1
    <3>1. m + 1 \in Nat /\ m <= m + 1 /\ 1 \in 1 .. ((m + 1) - m)
      BY <1>4
    <3>2. Run(m, m + 1)[1] = m + 1
      BY <1>4, <3>1, RunType
    <3> QED
      BY <2>2, <2>5, <3>2
  <2>7. work' = Run(0, m + 1)
    <3>1. 0 <= m
      BY <1>4
    <3>2. Run(0, m) \in Seq(Nat) /\ Append(Run(0, m), m + 1) = Run(0, m + 1)
      BY <1>4, <3>1, RunType
    <3>3. Run(0, m) \o <<m + 1>> = Append(Run(0, m), m + 1)
      BY <1>4, <3>2
    <3> QED
      BY <1>3, <2>1, <2>6, <3>2, <3>3
  <2>8. rest' = Run(m + 1, m + 1)
    <3>1. rest' = <<>>
      BY <1>3, <1>7 DEF InFallback
    <3>2. m + 1 \in Nat /\ m + 1 <= m + 1
      BY <1>4
    <3> QED
      BY <3>1, <3>2, RunIsEmpty
  <2>9. m + 1 \in 0 .. N /\ m + 1 \in 0 .. (m + 1)
    BY <1>4, <2>4, <2>5
  <2> QED
    BY <1>3, <1>7, <2>4, <2>5, <2>7, <2>8, <2>9 DEF InStep, N
<1> QED
  BY <1>6, <1>7

LEMMA BatchDoneInStep ==
    ASSUME Len(input) \in Nat, InStep, inTxn, BatchDone
    PROVE  InStep'
<1> DEFINE N == Len(input)
<1>1. PICK m \in 0 .. N : \E k \in 0 .. m :
          /\ rest = Run(k, m) /\ Covers(input, todo, m, N)
          /\ work = Run(0, k) \/ \E i \in DOMAIN rest : rest[i] \in bad
  BY DEF InStep
<1>2. PICK k \in 0 .. m :
          /\ rest = Run(k, m) /\ Covers(input, todo, m, N)
          /\ work = Run(0, k) \/ \E i \in DOMAIN rest : rest[i] \in bad
  BY <1>1
<1>3. /\ rest = <<>> /\ todo # <<>> /\ work' = work \o Head(todo).rows
      /\ todo' = Tail(todo) /\ UNCHANGED <<input, bad, rest>>
  BY DEF BatchDone, NextIsBatch, InFallback, Execute, call
<1>4. N \in Nat /\ k \in Nat /\ m \in Nat /\ k <= m /\ m <= N
  OBVIOUS
<1> HIDE DEF N
<1>5. k = m /\ work = Run(0, m)
  <2>1. DOMAIN <<>> = {}
    OBVIOUS
  <2> QED
    BY <1>2, <1>3, <1>4, <2>1, RunIsEmpty
<1>6. PICK c \in 0 .. N : Sends(input, Head(todo), m, c) /\ Covers(input, Tail(todo), c, N)
  BY <1>2, <1>3, <1>4, CoversTail
<1>7. work' = Run(0, c)
  <2>1. 0 \in Nat /\ c \in Nat /\ 0 <= m /\ m <= c /\ Head(todo).rows = Run(m, c)
    BY <1>4, <1>6 DEF Sends
  <2>2. Run(0, m) \o Run(m, c) = Run(0, c)
    BY <1>4, <2>1, RunConcat
  <2> QED
    BY <1>3, <1>5, <2>1, <2>2
<1>8. rest' = Run(c, c) /\ c \in 0 .. c
  <2>1. c \in Nat /\ c <= c
    BY <1>4
  <2> QED
    BY <1>3, <2>1, RunIsEmpty
<1> QED
  BY <1>3, <1>6, <1>7, <1>8 DEF InStep, N

\* A batch that failed is repeated row by row: unless it was undone as a whole
\* or stopped half way in passing, the transaction is where it was, or at a bad
\* row that is among those to be repeated.
LEMMA BatchFailsInStep ==
    ASSUME Clean, CallInv, Len(input) \in Nat, ~lost => inTxn /\ InStep, BatchFails
    PROVE  durable' = durable /\ (~lost => inTxn' /\ InStep')
<1> DEFINE chunk == Head(todo).rows
           N == Len(input)
<1>1. /\ rest = <<>> /\ todo # <<>> /\ rest' = chunk /\ todo' = Tail(todo)
      /\ UNCHANGED <<input, bad, lost>>
  BY DEF BatchFails, NextIsBatch, InFallback, call
<1>2. chunk \in Seq(Row) /\ work \in Seq(Row) /\ durable \in Seq(Row)
  BY <1>1, TodoShrinks DEF CallInv, TypeOK, PlanItem
<1>3. PICK n \in {l \in 0 .. Len(chunk) - 1 : MayStopAfter(l, chunk)} :
          IF inTxn THEN work' = work \o SubSeq(chunk, 1, n) /\ inTxn' = TRUE /\ durable' = durable
          ELSE durable' = durable \o SubSeq(chunk, 1, n)
  <2>1. PICK after \in AfterFailedBatch(chunk) :
            work' = after.work /\ inTxn' = after.inTxn /\ durable' = after.durable
    BY DEF BatchFails
  <2> HIDE DEF chunk
  <2>2. PICK n \in {l \in 0 .. Len(chunk) - 1 : MayStopAfter(l, chunk)} :
            after = IF inTxn THEN [work |-> work \o SubSeq(chunk, 1, n), inTxn |-> TRUE,
                                   durable |-> durable]
                    ELSE [work |-> work, inTxn |-> FALSE,
                          durable |-> durable \o SubSeq(chunk, 1, n)]
    BY <2>1 DEF AfterFailedBatch, Clean
  <2> DEFINE s == SubSeq(chunk, 1, n)
  <2> HIDE DEF s
  <2>3. /\ inTxn => after.work = work \o s /\ after.inTxn = TRUE /\ after.durable = durable
        /\ ~inTxn => after.durable = durable \o s
    BY <2>2 DEF s
  <2>4. IF inTxn THEN work' = work \o s /\ inTxn' = TRUE /\ durable' = durable
        ELSE durable' = durable \o s
    BY <2>1, <2>3
  <2> QED
    BY <2>4 DEF s
<1> HIDE DEF chunk, N
<1>4. n = 0 => SubSeq(chunk, 1, n) = <<>>
  BY SubSeqEmpty
<1>5. durable' = durable
  <2>1. CASE lost
    <3>1. n = 0
      BY <1>3, <2>1 DEF MayStopAfter
    <3>2. durable \o <<>> = durable
      BY <1>2
    <3> QED
      BY <1>3, <1>4, <3>1, <3>2
  <2>2. CASE ~lost
    BY <1>3, <2>2
  <2> QED
    BY <2>1, <2>2
<1>6. ASSUME ~lost PROVE inTxn' /\ InStep'
  <2>1. inTxn /\ InStep
    BY <1>6
  <2>2. PICK m \in 0 .. N : \E k \in 0 .. m :
            /\ rest = Run(k, m) /\ Covers(input, todo, m, N)
            /\ work = Run(0, k) \/ \E i \in DOMAIN rest : rest[i] \in bad
    BY <2>1 DEF InStep, N
  <2>3. PICK k \in 0 .. m :
            /\ rest = Run(k, m) /\ Covers(input, todo, m, N)
            /\ work = Run(0, k) \/ \E i \in DOMAIN rest : rest[i] \in bad
    BY <2>2
  <2>4. N \in Nat /\ k \in Nat /\ m \in Nat /\ k <= m /\ m <= N
    BY DEF N
  <2>5. k = m /\ work = Run(0, m)
    <3>1. DOMAIN <<>> = {}
      OBVIOUS
    <3> QED
      BY <1>1, <2>3, <2>4, <3>1, RunIsEmpty
  <2>6. PICK c \in 0 .. N : Sends(input, Head(todo), m, c) /\ Covers(input, Tail(todo), c, N)
    BY <1>1, <2>3, <2>4, CoversTail
  <2>7. rest' = Run(m, c) /\ m \in 0 .. c
    <3>1. c \in Nat /\ m < c /\ chunk = Run(m, c)
      BY <2>4, <2>6 DEF Sends, chunk
    <3> QED
      BY <1>1, <2>4, <3>1
  <2>8. CASE n = 0
    <3>1. work' = work
      BY <1>2, <1>3, <1>4, <2>1, <2>8
    <3> QED
      BY <1>1, <1>3, <2>1, <2>5, <2>6, <2>7, <3>1 DEF InStep, N
  <2>9. CASE n # 0
    <3>1. n > 0 /\ n + 1 \in DOMAIN chunk
      BY <1>2, <1>3, <2>9
    <3>2. chunk[n + 1] \in bad
      BY <1>3, <2>9 DEF MayStopAfter, Clean
    <3>3. \E i \in DOMAIN rest' : rest'[i] \in bad'
      BY <1>1, <3>1, <3>2
    <3> QED
      BY <1>1, <1>3, <2>1, <2>6, <2>7, <3>3 DEF InStep, N
  <2> QED
    BY <2>8, <2>9
<1> QED
  BY <1>5, <1>6

LEMMA AllSentIsList ==
    ASSUME Len(input) \in Nat, InStep, AllSent
    PROVE  work = Rows(input)
<1> DEFINE N == Len(input)
<1>1. PICK m \in 0 .. N : \E k \in 0 .. m :
          /\ rest = Run(k, m) /\ Covers(input, todo, m, N)
          /\ work = Run(0, k) \/ \E i \in DOMAIN rest : rest[i] \in bad
  BY DEF InStep
<1>2. PICK k \in 0 .. m :
          /\ rest = Run(k, m) /\ Covers(input, todo, m, N)
          /\ work = Run(0, k) \/ \E i \in DOMAIN rest : rest[i] \in bad
  BY <1>1
<1>3. rest = <<>> /\ todo = <<>> /\ DOMAIN <<>> = {}
  BY DEF AllSent, InFallback
<1>4. k \in Nat /\ m \in Nat /\ k <= m
  OBVIOUS
<1>5. Run(0, N) = Rows(input)
  BY DEF Run, Rows
<1> HIDE DEF N
<1>6. k = m /\ m = N
  BY <1>2, <1>3, <1>4, RunIsEmpty, CoversNothing
<1> QED
  BY <1>2, <1>3, <1>5, <1>6

LEMMA InitBatch == Init => BatchInv
<1> SUFFICES ASSUME Init PROVE BatchInv
  OBVIOUS
<1>1. Len(input) \in Nat
  BY InputLength DEF Init
<1> QED
  BY <1>1 DEF Init, BatchInv

LEMMA BeginInStep ==
    ASSUME CallInv, BatchInv, Begin
    PROVE  inTxn' /\ InStep'
<1> DEFINE N == Len(input)
<1>1. rest = <<>> /\ work = <<>> /\ N \in Nat
  BY DEF BatchInv, Begin
<1>2. inTxn' /\ todo' = Plan(input) /\ UNCHANGED <<input, bad, rest, work>>
  BY DEF Begin, call
<1>3. Covers(input, Plan(input), 0, N)
  BY <1>1, PlanSendsTheList
<1>4. Run(0, 0) = <<>> /\ 0 \in 0 .. N /\ 0 \in 0 .. 0
  BY <1>1, RunIsEmpty
<1> HIDE DEF N
<1> QED
  BY <1>1, <1>2, <1>3, <1>4 DEF InStep, N

LEMMA NextKeepsBatch == Clean /\ CallInv /\ BatchInv /\ [Next]_vars => BatchInv'
<1> SUFFICES ASSUME Clean, CallInv, BatchInv, [Next]_vars PROVE BatchInv'
  OBVIOUS
<1>0. /\ answer \in {"none", "true", "error"} /\ caught \in {"none", "statement", "commit"}
      /\ pc # "done" => answer = "none"
  BY DEF CallInv, TypeOK
<1> USE DEF call, session, trace, BatchInv
<1>1. CASE Parse \/ Acquire
  BY <1>0, <1>1 DEF Parse, Acquire
<1>2. CASE Lose
  <2>1. /\ conn = "held" /\ lost' /\ work' = <<>>
        /\ UNCHANGED <<input, pc, todo, rest, durable, caught, answer>>
    BY <1>2 DEF Lose
  <2> QED
    BY <2>1 DEF Rows
<1>3. CASE ProfilerSet \/ BeginFails
  BY <1>0, <1>3 DEF ProfilerSet, BeginFails, Throws
<1>4. CASE Begin
  <2>1. /\ pc = "begin" /\ pc' = "statement"
        /\ UNCHANGED <<input, rest, work, durable, caught, answer>>
    BY <1>4 DEF Begin
  <2> QED
    BY <1>0, <1>4, <2>1, BeginInStep DEF Rows
<1>5. CASE BatchDone
  <2>1. /\ pc = "statement" /\ ~lost /\ UNCHANGED <<input, pc, rest, inTxn, lost, caught, answer>>
        /\ durable' = durable
    BY <1>5 DEF BatchDone, Execute
  <2>2. InStep'
    BY <1>5, <2>1, BatchDoneInStep
  <2> QED
    BY <1>0, <2>1, <2>2 DEF Rows
<1>6. CASE BatchFails
  <2>1. pc = "statement" /\ UNCHANGED <<input, pc, lost, caught, answer>>
    BY <1>6 DEF BatchFails
  <2>2. durable' = durable /\ (~lost => inTxn' /\ InStep')
    BY <1>6, <2>1, BatchFailsInStep
  <2> QED
    BY <1>0, <2>1, <2>2 DEF Rows
<1>7. CASE RowDone
  <2>1. /\ pc = "statement" /\ ~lost /\ pc' \in {"statement", "flush"}
        /\ UNCHANGED <<input, inTxn, lost, caught, answer>> /\ durable' = durable
    BY <1>7 DEF RowDone, Execute
  <2>2. InStep'
    BY <1>7, <2>1, RowDoneInStep
  <2> QED
    BY <1>0, <2>1, <2>2 DEF Rows
<1>8. CASE RowFails \/ FlushFails
  <2>1. /\ pc \in {"statement", "flush"} /\ pc' = "rollback" /\ caught' = "statement"
        /\ UNCHANGED <<input, durable, answer>>
    BY <1>8 DEF RowFails, FlushFails, Throws, RolledBack
  <2> QED
    BY <1>0, <2>1 DEF Rows
<1>9. CASE Flush
  <2>1. /\ pc = "flush" /\ ~lost /\ pc' = "statement"
        /\ UNCHANGED <<input, bad, todo, rest, inTxn, lost, work, durable, caught, answer>>
    BY <1>9 DEF Flush
  <2>2. InStep'
    BY <2>1 DEF InStep
  <2> QED
    BY <1>0, <2>1, <2>2 DEF Rows
<1>10. CASE CommitAtServer
  <2>1. /\ pc = "statement" /\ ~lost /\ AllSent /\ pc' = "committed"
        /\ durable' = durable \o work /\ UNCHANGED <<input, caught, answer>>
    BY <1>10 DEF CommitAtServer
  <2>2. work = Rows(input) /\ durable = <<>>
    BY <2>1, AllSentIsList
  <2>3. durable' = Rows(input)
    <3>1. work \in Seq(Row)
      BY DEF CallInv, TypeOK
    <3>2. <<>> \o work = work
      BY <3>1
    <3> QED
      BY <2>1, <2>2, <3>2
  <2> QED
    BY <1>0, <2>1, <2>3 DEF Rows
<1>11. CASE CommitDone
  BY <1>0, <1>11 DEF CommitDone, Leave, Rows
<1>12. CASE CommitFails
  BY <1>0, <1>12 DEF CommitFails, Throws, Rows
<1>13. CASE RollbackDone \/ RollbackFails
  <2>1. /\ pc = "rollback" /\ pc' = "done" /\ answer' = "error"
        /\ UNCHANGED <<input, durable, caught>>
    BY <1>13 DEF RollbackDone, RollbackFails, RolledBack, Leave
  <2> QED
    BY <1>0, <2>1 DEF Rows
<1>14. CASE Over \/ UNCHANGED vars
  BY <1>0, <1>14 DEF Over, vars, Rows, InStep
<1> QED
  BY <1>1, <1>2, <1>3, <1>4, <1>5, <1>6, <1>7, <1>8, <1>9, <1>10, <1>11, <1>12, <1>13, <1>14
     DEF Next

\* Grouping, chunking and the fallback do not show: nothing or every row once
\* and in order is durable, whatever fails.  The two ways a batch may fail that
\* the hypothesis leaves out are those after which the fallback starts from
\* something else than what the batch found: run raw_deadlock shows what then
\* becomes of the list.
THEOREM GroupedAsUngrouped == ASSUME Clean PROVE Spec => []GroupedLikeUngrouped
<1>1. BatchInv => GroupedLikeUngrouped
  BY DEF BatchInv, GroupedLikeUngrouped
<1>2. Init => CallInv /\ BatchInv
  BY InitCall, InitBatch
<1>3. CallInv /\ BatchInv /\ [Next]_vars => CallInv' /\ BatchInv'
  BY NextKeepsCall, NextKeepsBatch
<1> QED
  BY <1>1, <1>2, <1>3, PTL DEF Spec

-----------------------------------------------------------------------------
(* TransactionOutcome *)

\* What a step does to the two variables of TransactionOutcome.
OutcomeStep ==
    \/ UNCHANGED <<durable, Told>>
    \/ durable = <<>> /\ Told = "none" /\ Told' = "none"
    \/ UNCHANGED durable /\ Told = "none" /\ Told' \in {"true", "false", "threw"}

LEMMA NextIsOutcomeStep ==
    CallInv /\ BatchInv /\ BatchInv' /\ [Next]_vars => OutcomeStep
<1> SUFFICES ASSUME CallInv, BatchInv, BatchInv', [Next]_vars PROVE OutcomeStep
  OBVIOUS
<1>1. pc # "done" => answer = "none" /\ Told = "none"
  BY DEF CallInv, Told
<1>2. CASE BatchDone \/ BatchFails \/ RowDone \/ Flush
  <2>1. /\ pc \in {"statement", "flush"} /\ pc' \in {"statement", "flush"}
        /\ UNCHANGED answer
    BY <1>2 DEF BatchDone, BatchFails, RowDone, Flush
  <2>2. durable = <<>> /\ durable' = <<>>
    BY <2>1 DEF BatchInv
  <2>3. Told = "none" /\ Told' = "none"
    BY <1>1, <2>1 DEF Told
  <2> QED
    BY <2>2, <2>3 DEF OutcomeStep
<1>3. CASE CommitAtServer
  <2>1. pc = "statement" /\ UNCHANGED answer
    BY <1>3 DEF CommitAtServer
  <2>2. durable = <<>>
    BY <2>1 DEF BatchInv
  <2>3. Told = "none" /\ Told' = "none"
    BY <1>1, <2>1 DEF Told
  <2> QED
    BY <2>2, <2>3 DEF OutcomeStep
<1>4. CASE \/ Parse \/ Acquire \/ ProfilerSet \/ Begin \/ BeginFails \/ RowFails \/ FlushFails
           \/ CommitDone \/ CommitFails \/ RollbackDone \/ RollbackFails
  <2>1. /\ pc # "done" /\ UNCHANGED durable
        /\ UNCHANGED answer \/ answer' \in {"true", "error"}
    BY <1>4 DEF Parse, Acquire, ProfilerSet, Begin, BeginFails, RowFails, FlushFails, CommitDone,
                CommitFails, RollbackDone, RollbackFails, Throws, Leave, RolledBack, session
  <2>2. Told' = "none" \/ Told' \in {"true", "false", "threw"}
    BY <1>1, <2>1 DEF Told
  <2> QED
    BY <1>1, <2>1, <2>2 DEF OutcomeStep
<1>5. CASE Lose \/ Over \/ UNCHANGED vars
  BY <1>5 DEF Lose, Over, vars, session, Told, OutcomeStep
<1> QED
  BY <1>2, <1>3, <1>4, <1>5 DEF Next

\* MySQL.transaction implements TransactionOutcome: the list is written at
\* once, never after a "false", and the caller has one answer.
THEOREM OutcomeImplemented == ASSUME Clean PROVE Spec => ImplementsOutcome
<1>1. Init => Outcome!Init
  <2> SUFFICES ASSUME Init PROVE Outcome!Init
    OBVIOUS
  <2>1. durable = <<>> /\ Told = "none"
    BY DEF Init, Told
  <2>2. ToSet(durable) = {}
    BY <2>1 DEF ToSet
  <2> QED
    BY <2>1, <2>2 DEF Outcome!Init
<1>2. ASSUME CallInv, BatchInv, CallInv', BatchInv', [Next]_vars
      PROVE  Outcome!Next \/ UNCHANGED Outcome!vars
  <2>1. OutcomeStep
    BY <1>2, NextIsOutcomeStep
  <2>2. CASE UNCHANGED <<durable, Told>>
    BY <2>2 DEF Outcome!vars
  <2>3. CASE durable = <<>> /\ Told = "none" /\ Told' = "none"
    <3>1. ToSet(durable) = {}
      BY <2>3 DEF ToSet
    <3>2. ToSet(durable') \in SUBSET Row
      BY <1>2 DEF CallInv, TypeOK, ToSet
    <3>3. Outcome!Commit
      BY <2>3, <3>1, <3>2 DEF Outcome!Commit, Outcome!Written
    <3> QED
      BY <3>3 DEF Outcome!Next
  <2>4. CASE UNCHANGED durable /\ Told = "none" /\ Told' \in {"true", "false", "threw"}
    <3>1. Told' = "false" => durable = <<>>
      <4>1. Told' = "false" => answer' = "error" /\ caught' # "commit"
        BY <1>2 DEF CallInv, TypeOK, Told
      <4> QED
        BY <1>2, <2>4, <4>1 DEF BatchInv
    <3>2. Told' = "false" => ToSet(durable) = {}
      BY <3>1 DEF ToSet
    <3>3. Outcome!Tell("call")
      BY <2>4, <3>2 DEF Outcome!Tell, Outcome!Written
    <3> QED
      BY <3>3 DEF Outcome!Next
  <2> QED
    BY <2>1, <2>2, <2>3, <2>4 DEF OutcomeStep
<1>3. Init => CallInv /\ BatchInv
  BY InitCall, InitBatch
<1>4. CallInv /\ BatchInv /\ [Next]_vars => CallInv' /\ BatchInv'
  BY NextKeepsCall, NextKeepsBatch
<1> QED
  BY <1>1, <1>2, <1>3, <1>4, PTL DEF Spec, ImplementsOutcome, Outcome!Spec

-----------------------------------------------------------------------------
(* Under the profiler *)

\* Where the profiler path is: after m rows, of which the next is a row alone.
LEMMA ProfilerTodo ==
    ASSUME NEW N \in Nat, NEW m \in 0 .. N, todo = [i \in 1 .. (N - m) |-> Single(m + i)]
    PROVE  /\ Len(todo) = N - m
           /\ todo = <<>> => m = N
           /\ todo # <<>> => /\ m + 1 \in 0 .. N
                             /\ ~Head(todo).batched /\ Head(todo).rows = <<m + 1>>
                             /\ Tail(todo) = [i \in 1 .. (N - (m + 1)) |-> Single((m + 1) + i)]
<1>1. N - m \in Nat /\ m \in Nat
  OBVIOUS
<1>2. todo \in Seq(Item) /\ Len(todo) = N - m /\ DOMAIN todo = 1 .. (N - m)
  <2>1. ASSUME NEW i \in 1 .. (N - m) PROVE Single(m + i) \in Item
    <3> DEFINE k == m + i - 1
    <3>1. k \in Nat /\ k + 1 = m + i
      BY <1>1
    <3> HIDE DEF k
    <3>2. Single(k + 1) \in Item
      BY <3>1, SingleSends
    <3> QED
      BY <3>1, <3>2
  <2>2. todo \in [1 .. (N - m) -> Item]
    BY <2>1
  <2> DEFINE n == N - m
  <2> HIDE DEF n
  <2>3. n \in Nat /\ todo \in [1 .. n -> Item]
    BY <1>1, <2>2 DEF n
  <2>4. todo \in Seq(Item) /\ Len(todo) = n /\ DOMAIN todo = 1 .. n
    BY <2>3
  <2> QED
    BY <2>4 DEF n
<1>3. todo = <<>> => m = N
  <2>1. todo = <<>> => Len(todo) = 0
    OBVIOUS
  <2> QED
    BY <1>1, <1>2, <2>1
<1>4. ASSUME todo # <<>>
      PROVE  /\ m + 1 \in 0 .. N
             /\ ~Head(todo).batched /\ Head(todo).rows = <<m + 1>>
             /\ Tail(todo) = [i \in 1 .. (N - (m + 1)) |-> Single((m + 1) + i)]
  <2>1. Len(todo) # 0
    BY <1>2, <1>4
  <2>2. 1 \in 1 .. (N - m) /\ m + 1 \in 0 .. N /\ N - (m + 1) = (N - m) - 1 /\ (N - m) - 1 \in Nat
    BY <1>1, <1>2, <2>1
  <2>3. /\ Head(todo) = todo[1] /\ Tail(todo) \in Seq(Item) /\ Len(Tail(todo)) = (N - m) - 1
        /\ \A i \in 1 .. ((N - m) - 1) : Tail(todo)[i] = todo[i + 1] /\ i + 1 \in DOMAIN todo
    BY <1>2, <1>4, TailIs
  <2>4. Head(todo) = Single(m + 1)
    BY <2>2, <2>3
  <2>5. ~Head(todo).batched /\ Head(todo).rows = <<m + 1>>
    BY <1>1, <2>4, SingleSends
  <2>6. ASSUME NEW i \in 1 .. ((N - m) - 1) PROVE Tail(todo)[i] = Single((m + 1) + i)
    <3>1. i + 1 \in 1 .. (N - m) /\ m + (i + 1) = (m + 1) + i
      BY <1>1
    <3> QED
      BY <2>3, <3>1
  <2>7. Tail(todo) = [i \in 1 .. ((N - m) - 1) |-> Single((m + 1) + i)]
    <3>1. DOMAIN Tail(todo) = 1 .. ((N - m) - 1)
      BY <2>3
    <3>2. Tail(todo) = [i \in 1 .. ((N - m) - 1) |-> Tail(todo)[i]]
      BY <2>3, <3>1
    <3> QED
      BY <2>6, <3>2
  <2> QED
    BY <2>2, <2>5, <2>7
<1> QED
  BY <1>2, <1>3, <1>4

LEMMA NoBatchUnderProfiler ==
    ASSUME CallInv, LogInv, hasProfiler, pc = "statement"
    PROVE  rest = <<>> /\ ~NextIsBatch
<1> DEFINE N == Len(input)
<1>1. N \in Nat
  BY InputLength DEF CallInv, TypeOK
<1>2. rest = <<>> /\ \E m \in 0 .. N : todo = [i \in 1 .. (N - m) |-> Single(m + i)]
  BY DEF LogInv
<1> HIDE DEF N
<1>3. PICK m \in 0 .. N : todo = [i \in 1 .. (N - m) |-> Single(m + i)]
  BY <1>2
<1>4. todo # <<>> => ~Head(todo).batched
  BY <1>1, <1>3, ProfilerTodo
<1> QED
  BY <1>2, <1>4 DEF NextIsBatch

\* Rows past a multiple of the window.
LEMMA ModOfSum ==
    ASSUME NEW w \in Nat \ {0}, NEW k \in Nat, k % w = 0, NEW d \in 0 .. (w - 1)
    PROVE  (k + d) % w = d
<1>1. k = w * (k \div w) /\ k \div w \in Int
  OBVIOUS
<1>2. PICK q \in Int : k = w * q
  BY <1>1
<1>3. k + d = w * ((k + d) \div w) + ((k + d) % w) /\ (k + d) % w \in 0 .. (w - 1) /\ (k + d) \div w \in Int
  OBVIOUS
<1>4. PICK p \in Int, r \in 0 .. (w - 1) : r = (k + d) % w /\ w * q + d = w * p + r
  BY <1>2, <1>3
<1>5. w * (q - p) = r - d
  <2>1. w * (q - p) = w * q - w * p
    OBVIOUS
  <2> DEFINE x == w * q
             y == w * p
  <2>2. x \in Int /\ y \in Int /\ x + d = y + r /\ d \in Int /\ r \in Int
    BY <1>4
  <2> HIDE DEF x, y
  <2>3. x - y = r - d
    BY <2>2
  <2> QED
    BY <2>1, <2>3 DEF x, y
<1>6. q - p = 0
  <2>1. CASE q - p >= 1
    <3>1. w * (q - p) >= w
      BY <2>1
    <3> QED
      BY <3>1, <1>5
  <2>2. CASE q - p <= -1
    <3>1. w * (q - p) <= -w
      BY <2>2
    <3> QED
      BY <3>1, <1>5
  <2> QED
    BY <2>1, <2>2
<1> QED
  BY <1>4, <1>5, <1>6

LEMMA NextMultiple ==
    ASSUME NEW w \in Nat \ {0}, NEW k \in Nat, k % w = 0
    PROVE  (k + w) % w = 0 /\ (k = 0 \/ k >= w)
<1>1. k = w * (k \div w) /\ k \div w \in Int
  OBVIOUS
<1>2. PICK q \in Int : k = w * q
  BY <1>1
<1>3. k + w = w * (q + 1)
  BY <1>2
<1>4. (w * (q + 1)) % w = 0
  OBVIOUS
<1>5. k = 0 \/ k >= w
  <2>1. CASE q >= 1
    BY <1>2, <2>1
  <2>2. CASE q <= 0
    BY <1>2, <2>2
  <2> QED
    BY <2>1, <2>2
<1> QED
  BY <1>3, <1>4, <1>5

\* The history stays the last rows, in order.
LEMMA RecordedRow ==
    ASSUME CallInv, hasProfiler, NEW m \in Nat, m + 1 \in Row,
           \A j \in DOMAIN history : history[j] = m - Len(history) + j
    PROVE  \A j \in DOMAIN Recorded(m + 1) :
               Recorded(m + 1)[j] = (m + 1) - Len(Recorded(m + 1)) + j
<1> DEFINE a == Append(history, m + 1)
           L == Len(history)
<1>1. /\ history \in Seq(Row \cup {0}) /\ L \in Nat /\ DOMAIN history = 1 .. L
      /\ Window \in Nat /\ Window >= 1
  BY RawTransactionAssumption DEF CallInv, TypeOK
<1>2. /\ a \in Seq(Row \cup {0}) /\ Len(a) = L + 1 /\ a[L + 1] = m + 1
      /\ \A j \in 1 .. L : a[j] = history[j]
  BY <1>1, AppendIs
<1>3. Recorded(m + 1) = LastOf(Window, a)
  BY DEF Recorded
<1> HIDE DEF a
<1>4. ASSUME NEW j \in 1 .. (L + 1) PROVE a[j] = m - L + j
  <2>1. CASE j = L + 1
    BY <1>1, <1>2, <2>1
  <2>2. CASE j # L + 1
    <3>1. j \in 1 .. L
      BY <1>1, <2>2
    <3> QED
      BY <1>1, <1>2, <3>1
  <2> QED
    BY <2>1, <2>2
<1>5. CASE L + 1 <= Window
  <2>1. Recorded(m + 1) = a
    BY <1>2, <1>3, <1>5 DEF LastOf
  <2>2. \A j \in 1 .. (L + 1) : m - L + j = (m + 1) - (L + 1) + j
    BY <1>1
  <2>3. DOMAIN a = 1 .. (L + 1)
    BY <1>2
  <2> QED
    BY <1>2, <1>4, <2>1, <2>2, <2>3
<1>6. CASE ~(L + 1 <= Window)
  <2> DEFINE low == Len(a) - Window + 1
  <2>1. Recorded(m + 1) = SubSeq(a, low, Len(a))
    <3>1. ~(Len(a) <= Window)
      BY <1>2, <1>6
    <3> QED
      BY <1>3, <3>1 DEF LastOf
  <2>2. low \in 1 .. (L + 1) /\ (L + 1) - low + 1 = Window /\ L + 1 \in Nat /\ Len(a) = L + 1
        /\ low = L + 1 - Window + 1
    BY <1>1, <1>2, <1>6
  <2> HIDE DEF low
  <2>3. /\ Len(SubSeq(a, low, L + 1)) = (L + 1) - low + 1
        /\ DOMAIN SubSeq(a, low, L + 1) = 1 .. ((L + 1) - low + 1)
        /\ \A j \in 1 .. ((L + 1) - low + 1) : SubSeq(a, low, L + 1)[j] = a[low + j - 1]
    BY <1>2, <2>2
  <2>4. ASSUME NEW j \in 1 .. Window PROVE a[low + j - 1] = (m + 1) - Window + j
    <3>1. low + j - 1 \in 1 .. (L + 1) /\ m - L + (low + j - 1) = (m + 1) - Window + j
      BY <1>1, <2>2
    <3> QED
      BY <1>4, <3>1
  <2> QED
    BY <2>1, <2>2, <2>3, <2>4 DEF low
<1> QED
  BY <1>1, <1>5, <1>6

LEMMA ProfiledRow ==
    ASSUME CallInv, LogInv, hasProfiler, RowDone
    PROVE  LogInv'
<1> DEFINE N == Len(input)
<1>1. N \in Nat /\ Window \in Nat /\ Window >= 1 /\ Window \in Nat \ {0}
  BY InputLength, RawTransactionAssumption DEF CallInv, TypeOK
<1>2. /\ pc = "statement" /\ NextIsRow /\ history' = Recorded(NextRow)
      /\ pc' = IF FlushDue(NextRow) THEN "flush" ELSE "statement"
      /\ UNCHANGED <<input, hasProfiler, answer, logged>>
  BY DEF RowDone, call
<1>3. rest = <<>> /\ ~InFallback
  BY <1>2, NoBatchUnderProfiler DEF InFallback
<1>4. todo # <<>> /\ rest' = <<>> /\ todo' = Tail(todo) /\ NextRow = Head(todo).rows[1]
  BY <1>2, <1>3 DEF RowDone, NextIsRow, NextRow
<1>5. PICK m \in 0 .. N :
          /\ todo = [i \in 1 .. (N - m) |-> Single(m + i)]
          /\ AtStatement(m)
  BY <1>2 DEF LogInv
<1>6. answer = "none"
  BY <1>2 DEF CallInv
<1> HIDE DEF N
<1>7. /\ m + 1 \in 0 .. N /\ NextRow = m + 1 /\ m < N /\ m \in Nat
      /\ todo' = [i \in 1 .. (N - (m + 1)) |-> Single((m + 1) + i)]
  <2>1. /\ m + 1 \in 0 .. N /\ Head(todo).rows = <<m + 1>>
        /\ Tail(todo) = [i \in 1 .. (N - (m + 1)) |-> Single((m + 1) + i)]
    BY <1>1, <1>4, <1>5, ProfilerTodo
  <2>2. m \in Nat /\ m < N
    BY <1>1, <2>1
  <2>3. NextRow = m + 1
    BY <1>4, <2>1
  <2> QED
    BY <1>4, <2>1, <2>2, <2>3
<1>8. PICK k \in 0 .. m : Progress(m, k) /\ m <= k + Window
  BY <1>1, <1>5, <1>7 DEF AtStatement, N
<1>9. /\ k \in Nat /\ k % Window = 0 /\ (k = 0 \/ k < m)
      /\ Len(history) = IF k > 0 THEN m - (k + 1) ELSE IF m < Window THEN m + 1 ELSE Window
      /\ \A j \in DOMAIN history : history[j] = m - Len(history) + j
      /\ logged = LoggedUpTo(N, k + Window)
  BY <1>7, <1>8 DEF Progress, N
<1>10. Progress(m + 1, k)'
  <2>1. NextRow \in Row
    BY <1>2, NextRowIsRow
  <2>2. Len(history') = IF Len(history) + 1 <= Window THEN Len(history) + 1 ELSE Window
    BY <1>2, <2>1, RecordedType
  <2>3. Len(history') = IF k > 0 THEN (m + 1) - (k + 1) ELSE IF m + 1 < Window THEN (m + 1) + 1 ELSE Window
    BY <1>1, <1>7, <1>8, <1>9, <2>2
  <2>4. \A j \in DOMAIN history' : history'[j] = (m + 1) - Len(history') + j
    BY <1>2, <1>7, <1>9, <2>1, RecordedRow
  <2>5. logged' = LoggedUpTo(Len(input'), k + Window)
    BY <1>2, <1>9 DEF N
  <2>6. k = 0 \/ k < m + 1
    BY <1>7, <1>9
  <2> QED
    BY <1>9, <2>3, <2>4, <2>5, <2>6 DEF Progress
<1>11. FlushDue(NextRow) <=> m + 1 = N \/ m = k + Window
  <2>1. (m + 1) - 1 = m
    BY <1>7
  <2>2. CASE m = k + Window
    <3>1. m % Window = 0
      BY <1>1, <1>9, <2>2, NextMultiple
    <3>2. m + 1 > 1
      BY <1>1, <1>9, <2>2
    <3> QED
      BY <1>7, <2>1, <2>2, <3>1, <3>2 DEF FlushDue
  <2>3. CASE m # k + Window /\ m # k
    <3>1. PICK d \in 0 .. (Window - 1) : m = k + d /\ d # 0
      <4>1. m - k \in 0 .. (Window - 1) /\ m = k + (m - k) /\ m - k # 0
        BY <1>1, <1>7, <1>8, <1>9, <2>3
      <4> QED
        BY <4>1
    <3>2. m % Window = d
      BY <1>1, <1>9, <3>1, ModOfSum
    <3> QED
      BY <1>7, <2>1, <2>3, <3>1, <3>2 DEF FlushDue, N
  <2>4. CASE m = k
    <3>1. m = 0 /\ ~(m + 1 > 1) /\ m # k + Window
      BY <1>1, <1>7, <1>9, <2>4
    <3> QED
      BY <1>7, <3>1 DEF FlushDue, N
  <2> QED
    BY <2>2, <2>3, <2>4
<1>12. N' = N /\ N = Len(input')
  BY <1>2 DEF N
<1>13. CASE m + 1 = N \/ m = k + Window
  <2>1. pc' = "flush"
    BY <1>2, <1>11, <1>13
  <2>2. /\ k \in 0 .. (m + 1) /\ m + 1 >= 1 /\ (k = 0 \/ m + 1 >= k + 2) /\ m + 1 <= k + Window + 1
        /\ m + 1 = N \/ m + 1 = k + Window + 1
    BY <1>1, <1>7, <1>8, <1>9, <1>13
  <2>3. AtFlush(m + 1)'
    BY <1>10, <1>12, <2>2 DEF AtFlush
  <2> QED
    BY <1>2, <1>4, <1>6, <1>7, <1>12, <2>1, <2>3 DEF LogInv
<1>14. CASE ~(m + 1 = N \/ m = k + Window)
  <2>1. pc' = "statement"
    BY <1>2, <1>11, <1>14
  <2>2. k \in 0 .. (m + 1) /\ m + 1 < N /\ m + 1 <= k + Window
    BY <1>1, <1>7, <1>8, <1>9, <1>14
  <2>3. AtStatement(m + 1)'
    BY <1>10, <1>12, <2>2 DEF AtStatement
  <2> QED
    BY <1>2, <1>4, <1>6, <1>7, <1>12, <2>1, <2>2, <2>3 DEF LogInv
<1> QED
  BY <1>13, <1>14

\* Each duration of a history with the row at its place after the offset.
Paired(offset, h, n) == {<<offset + j, h[j]>> : j \in {i \in DOMAIN h : offset + i <= n}}

\* A flush within a list of N rows adds the next Window rows.
LEMMA FlushWithin ==
    ASSUME NEW N \in Nat, NEW k \in Nat, NEW h, DOMAIN h = 1 .. Window,
           \A j \in 1 .. Window : h[j] = k + 1 + j
    PROVE  LoggedUpTo(N, k + Window) \cup Paired(k + Window, h, N) = LoggedUpTo(N, (k + Window) + Window)
<1> DEFINE old == LoggedUpTo(N, k + Window)
           new == Paired(k + Window, h, N)
           all == LoggedUpTo(N, (k + Window) + Window)
<1>1. Window \in Nat /\ Window >= 1
  BY RawTransactionAssumption
<1>2. ASSUME NEW e \in old PROVE e \in all
  <2>1. PICK row \in Window + 1 .. N : row <= k + Window /\ e = <<row, row - Window + 1>>
    BY DEF LoggedUpTo
  <2>2. row <= (k + Window) + Window
    BY <1>1, <2>1
  <2> QED
    BY <2>1, <2>2 DEF LoggedUpTo
<1>3. ASSUME NEW e \in new PROVE e \in all
  <2>1. PICK j \in 1 .. Window : (k + Window) + j <= N /\ e = <<(k + Window) + j, h[j]>>
    BY DEF Paired
  <2> DEFINE row == (k + Window) + j
  <2>2. row \in Window + 1 .. N /\ row <= (k + Window) + Window /\ h[j] = row - Window + 1
    BY <1>1, <2>1
  <2>3. e = <<row, row - Window + 1>>
    BY <2>1, <2>2
  <2> HIDE DEF row
  <2> QED
    BY <2>2, <2>3 DEF LoggedUpTo
<1>4. ASSUME NEW e \in all PROVE e \in old \cup new
  <2>1. PICK row \in Window + 1 .. N : row <= (k + Window) + Window /\ e = <<row, row - Window + 1>>
    BY DEF LoggedUpTo
  <2>2. CASE row <= k + Window
    BY <2>1, <2>2 DEF LoggedUpTo
  <2>3. CASE row > k + Window
    <3> DEFINE j == row - (k + Window)
    <3>1. j \in 1 .. Window /\ (k + Window) + j = row /\ (k + Window) + j <= N /\ row - Window + 1 = k + 1 + j
      BY <1>1, <2>1, <2>3
    <3> HIDE DEF j
    <3>2. e = <<(k + Window) + j, h[j]>> /\ j \in {i \in DOMAIN h : (k + Window) + i <= N}
      BY <2>1, <3>1
    <3> QED
      BY <3>2 DEF Paired
  <2> QED
    BY <1>1, <2>1, <2>2, <2>3
<1> HIDE DEF old, new, all
<1>5. old \cup new = all
  BY <1>2, <1>3, <1>4
<1> QED
  BY <1>5 DEF old, new, all

\* The flush at the end of a list no longer than the window.
LEMMA FlushShort ==
    ASSUME NEW N \in Nat, N <= Window, NEW h, NEW L \in Nat,
           L = IF N < Window THEN N + 1 ELSE Window, DOMAIN h = 1 .. L,
           \A j \in 1 .. L : h[j] = N - L + j
    PROVE  Paired(0, h, N) = LogOf(N)
<1>1. Window \in Nat /\ Window >= 1
  BY RawTransactionAssumption
<1>2. {i \in DOMAIN h : 0 + i <= N} = 1 .. N
  BY <1>1
<1>3. \A j \in 1 .. N : j \in 1 .. L /\ 0 + j = j /\ h[j] = IF N < Window THEN j - 1 ELSE j
  BY <1>1
<1>4. CASE N < Window
  <2>1. \A j \in 1 .. N : <<0 + j, h[j]>> = <<j, j - 1>>
    BY <1>3, <1>4
  <2>2. Paired(0, h, N) = {<<j, j - 1>> : j \in 1 .. N}
    BY <1>2, <2>1 DEF Paired
  <2> QED
    BY <1>4, <2>2 DEF LogOf
<1>5. CASE N = Window
  <2>1. \A j \in 1 .. N : <<0 + j, h[j]>> = <<j, j>>
    BY <1>1, <1>3, <1>5
  <2>2. Paired(0, h, N) = {<<j, j>> : j \in 1 .. N}
    BY <1>2, <2>1 DEF Paired
  <2>3. ~(N < Window)
    BY <1>1, <1>5
  <2> QED
    BY <1>5, <2>2, <2>3 DEF LogOf
<1> QED
  BY <1>1, <1>4, <1>5

\* The flush at the end of a longer list, d rows after the last one within it.
LEMMA FlushLast ==
    ASSUME NEW N \in Nat, NEW k \in Nat, NEW d \in 1 .. (Window - 1), k % Window = 0, k >= Window,
           N = k + d + 1, NEW h, DOMAIN h = 1 .. d, \A j \in DOMAIN h : h[j] = k + 1 + j
    PROVE  LoggedUpTo(N, k + Window) \cup Paired(N - 1, h, N) = LogOf(N)
<1>1. Window \in Nat /\ Window \in Nat \ {0}
  BY RawTransactionAssumption
<1>2. {i \in DOMAIN h : (N - 1) + i <= N} = {1}
  BY <1>1
<1>3. 1 \in DOMAIN h /\ h[1] = k + 2 /\ (N - 1) + 1 = N
  BY <1>1
<1>4. Paired(N - 1, h, N) = {<<N, k + 2>>}
  BY <1>2, <1>3 DEF Paired
<1>5. {r \in Window + 1 .. N : r <= k + Window} = Window + 1 .. N
  BY <1>1
<1>6. (N - 1) % Window = d
  <2>1. d \in 0 .. (Window - 1)
    BY <1>1
  <2>2. (k + d) % Window = d
    BY <1>1, <2>1, ModOfSum
  <2>3. N - 1 = k + d
    BY <1>1
  <2> QED
    BY <2>2, <2>3
<1>7. d # 0 /\ N + 1 - d = k + 2 /\ ~(N < Window) /\ N # Window
  BY <1>1
<1> QED
  BY <1>4, <1>5, <1>6, <1>7 DEF LoggedUpTo, LogOf

LEMMA ProfiledFlush ==
    ASSUME CallInv, LogInv, hasProfiler, Flush
    PROVE  LogInv'
<1> DEFINE N == Len(input)
           L == Len(history)
<1>1. N \in Nat /\ Window \in Nat /\ Window >= 1 /\ Window \in Nat \ {0}
  BY InputLength, RawTransactionAssumption DEF CallInv, TypeOK
<1>2. /\ pc = "flush" /\ pc' = "statement" /\ history' = <<>>
      /\ logged' = logged \cup Paired(Offset, history, N)
      /\ UNCHANGED <<input, hasProfiler, todo, rest, answer>>
  BY DEF Flush, call, Paired
<1>3. /\ rest = <<>>
      /\ \E m \in 0 .. N : todo = [i \in 1 .. (N - m) |-> Single(m + i)] /\ AtFlush(m)
  BY <1>2 DEF LogInv
<1>4. PICK m \in 0 .. N : todo = [i \in 1 .. (N - m) |-> Single(m + i)] /\ AtFlush(m)
  BY <1>3
<1>5. PICK k \in 0 .. m : /\ Progress(m, k) /\ m >= 1 /\ (k = 0 \/ m >= k + 2)
                          /\ m <= k + Window + 1
                          /\ m = N \/ m = k + Window + 1
  <2>1. AtFlush(m)
    BY <1>4
  <2> QED
    BY <2>1 DEF AtFlush
<1>6. /\ k % Window = 0 /\ (k = 0 \/ k < m)
      /\ L = IF k > 0 THEN m - (k + 1) ELSE IF m < Window THEN m + 1 ELSE Window
      /\ \A j \in DOMAIN history : history[j] = m - L + j
      /\ logged = LoggedUpTo(N, k + Window)
  BY <1>5 DEF Progress
<1>7. L \in Nat /\ DOMAIN history = 1 .. L
  BY DEF CallInv, TypeOK
<1>8. answer = "none"
  BY <1>2 DEF CallInv
<1>9. N' = N /\ N = Len(input')
  BY <1>2
<1> HIDE DEF N, L
<1>10. Offset = IF m - 1 < Window THEN 0 ELSE m - 1
  <2>1. Len(todo) = N - m
    BY <1>1, <1>4, ProfilerTodo
  <2>2. Sent = N - Len(todo)
    BY DEF Sent, N
  <2>3. N - (N - m) = m
    BY <1>1
  <2>4. Sent = m
    BY <2>1, <2>2, <2>3
  <2> QED
    BY <2>4 DEF Offset
<1>11. m \in Nat /\ k \in Nat /\ (k = 0 \/ k >= Window)
  BY <1>1, <1>5, <1>6, NextMultiple
<1>12. AtStatement(m)' => LogInv'
  BY <1>2, <1>3, <1>4, <1>8, <1>9 DEF LogInv
<1>13. m = N /\ logged' = LogOf(N) => LogInv'
  BY <1>9, <1>12 DEF AtStatement
<1>14. CASE m = k + Window + 1
  <2>1. L = Window /\ Offset = k + Window
    BY <1>1, <1>6, <1>10, <1>11, <1>14
  <2>2. \A j \in 1 .. Window : history[j] = k + 1 + j
    BY <1>1, <1>6, <1>7, <1>11, <1>14, <2>1
  <2>3. DOMAIN history = 1 .. Window
    BY <1>7, <2>1
  <2>4. logged' = LoggedUpTo(N, (k + Window) + Window)
    BY <1>1, <1>2, <1>6, <1>11, <2>1, <2>2, <2>3, FlushWithin
  <2>5. (k + Window) % Window = 0
    BY <1>1, <1>6, <1>11, NextMultiple
  <2>6. CASE m = N
    <3>1. {r \in Window + 1 .. N : r <= (k + Window) + Window} = Window + 1 .. N
      BY <1>1, <1>11, <1>14, <2>6
    <3>2. N - 1 = k + Window /\ ~(N < Window) /\ N # Window
      BY <1>1, <1>11, <1>14, <2>6
    <3>3. logged' = LogOf(N)
      BY <2>4, <2>5, <3>1, <3>2 DEF LogOf, LoggedUpTo
    <3> QED
      BY <1>13, <2>6, <3>3
  <2>7. CASE m # N
    <3> DEFINE q == k + Window
    <3>1. m < N /\ q \in 0 .. m /\ q < m /\ m <= q + Window /\ q > 0 /\ m - (q + 1) = 0
      BY <1>1, <1>11, <1>14, <2>7
    <3>2. Len(history') = 0 /\ DOMAIN history' = {}
      BY <1>2
    <3>3. q % Window = 0 /\ logged' = LoggedUpTo(Len(input'), q + Window)
      BY <1>9, <2>4, <2>5
    <3> HIDE DEF q
    <3>4. Progress(m, q)'
      BY <3>1, <3>2, <3>3 DEF Progress
    <3> QED
      BY <1>9, <1>12, <3>1, <3>4 DEF AtStatement
  <2> QED
    BY <2>6, <2>7
<1>15. CASE m # k + Window + 1 /\ k = 0
  <2>1. m = N /\ N <= Window /\ Offset = 0 /\ L = IF N < Window THEN N + 1 ELSE Window
    BY <1>1, <1>5, <1>6, <1>10, <1>11, <1>15
  <2>2. {r \in Window + 1 .. N : r <= k + Window} = {}
    BY <1>1, <1>15, <2>1
  <2>3. logged = {}
    BY <1>6, <2>2 DEF LoggedUpTo
  <2>4. \A j \in 1 .. L : history[j] = N - L + j
    BY <1>6, <1>7, <2>1
  <2>5. Paired(0, history, N) = LogOf(N)
    BY <1>1, <1>7, <2>1, <2>4, FlushShort
  <2> QED
    BY <1>2, <1>13, <2>1, <2>3, <2>5
<1>16. CASE m # k + Window + 1 /\ k # 0
  <2> DEFINE d == N - (k + 1)
  <2>1. /\ m = N /\ k >= Window /\ Offset = N - 1 /\ L = d
        /\ d \in 1 .. (Window - 1) /\ N = k + d + 1
    BY <1>1, <1>5, <1>6, <1>10, <1>11, <1>16
  <2>2. \A j \in DOMAIN history : history[j] = k + 1 + j
    BY <1>1, <1>6, <1>7, <1>11, <2>1
  <2> HIDE DEF d
  <2>3. DOMAIN history = 1 .. d
    BY <1>7, <2>1
  <2>4. LoggedUpTo(N, k + Window) \cup Paired(N - 1, history, N) = LogOf(N)
    <3>1. N \in Nat /\ k \in Nat /\ d \in 1 .. (Window - 1) /\ k % Window = 0 /\ k >= Window /\ N = k + d + 1
      BY <1>1, <1>6, <1>11, <2>1
    <3> QED
      BY <2>2, <2>3, <3>1, FlushLast
  <2> QED
    BY <1>2, <1>6, <1>13, <2>1, <2>4
<1> QED
  BY <1>14, <1>15, <1>16

LEMMA InitLog == Init => LogInv
<1> SUFFICES ASSUME Init PROVE LogInv
  OBVIOUS
<1> QED
  BY DEF Init, LogInv

LEMMA NextKeepsLog == CallInv /\ LogInv /\ [Next]_vars => LogInv'
<1> SUFFICES ASSUME CallInv, LogInv, [Next]_vars, hasProfiler' PROVE LogInv'
  BY DEF LogInv
<1>0. hasProfiler /\ UNCHANGED input
  BY DEF Next, vars, call, Parse, Acquire, Lose, ProfilerSet, Begin, BeginFails, BatchDone, BatchFails,
         RowDone, RowFails, Flush, FlushFails, CommitAtServer, CommitDone, CommitFails,
         RollbackDone, RollbackFails, Over, Throws
<1>1. pc # "done" => answer = "none"
  BY DEF CallInv
<1>2. CASE RowDone \/ Flush
  BY <1>0, <1>2, ProfiledRow, ProfiledFlush
<1>3. CASE BatchDone \/ BatchFails
  BY <1>0, <1>3, NoBatchUnderProfiler DEF BatchDone, BatchFails
<1>4. CASE Parse \/ Acquire \/ ProfilerSet \/ BeginFails \/ RowFails \/ FlushFails \/ CommitFails
           \/ RollbackDone \/ RollbackFails
  <2>1. /\ pc' \in {"acquire", "profiler", "begin", "rollback", "done"}
        /\ answer' # "none" => pc' = "done" /\ answer' = "error"
        /\ UNCHANGED <<history, rest, logged>>
        /\ pc \in {"parse", "acquire", "profiler"} \/ pc' \in {"rollback", "done"}
    BY <1>1, <1>4 DEF Parse, Acquire, ProfilerSet, BeginFails, RowFails, FlushFails, CommitFails,
                      RollbackDone, RollbackFails, Throws, Leave, trace
  <2> QED
    BY <1>0, <2>1 DEF LogInv
<1>5. CASE Begin
  <2>1. /\ pc = "begin" /\ pc' = "statement" /\ todo' = Plan(input) /\ history' = Recorded(0)
        /\ UNCHANGED <<rest, answer, logged>>
    BY <1>5 DEF Begin
  <2>2. Len(input) \in Nat /\ Window \in Nat /\ Window >= 1
    BY InputLength, RawTransactionAssumption DEF CallInv, TypeOK
  <2>3. todo' = [i \in 1 .. (Len(input) - 0) |-> Single(0 + i)]
    <3>1. Len(input) - 0 = Len(input) /\ \A i \in 1 .. Len(input) : 0 + i = i
      BY <2>2
    <3> QED
      BY <1>0, <2>1, <3>1, PlanIs
  <2>4. history' = <<0>>
    <3>1. history = <<>> /\ Append(<<>>, 0) = <<0>> /\ Len(<<0>>) = 1
      BY <1>0, <2>1 DEF LogInv
    <3> QED
      BY <1>0, <2>1, <2>2, <3>1 DEF Recorded, LastOf
  <2>5. logged' = {} /\ rest' = <<>>
    BY <1>0, <2>1 DEF LogInv
  <2>6. CASE Len(input) = 0
    <3>1. LogOf(0) = {}
      BY <2>2 DEF LogOf
    <3>2. 0 \in 0 .. Len(input)
      BY <2>2
    <3> QED
      BY <1>0, <1>1, <2>1, <2>3, <2>5, <2>6, <3>1, <3>2 DEF LogInv, AtStatement
  <2>7. CASE Len(input) # 0
    <3>1. 0 \in 0 .. Len(input) /\ 0 < Len(input) /\ 0 \in 0 .. 0 /\ 0 <= 0 + Window /\ 0 % Window = 0
      BY <2>2, <2>7
    <3>2. \A j \in DOMAIN history' : history'[j] = 0 - Len(history') + j
      BY <2>4
    <3>3. Len(history') = IF 0 > 0 THEN 0 - (0 + 1) ELSE IF 0 < Window THEN 0 + 1 ELSE Window
      BY <2>2, <2>4
    <3>4. LoggedUpTo(Len(input'), 0 + Window) = {}
      BY <2>2 DEF LoggedUpTo
    <3>5. Progress(0, 0)'
      BY <2>5, <3>1, <3>2, <3>3, <3>4 DEF Progress
    <3>6. AtStatement(0)'
      BY <1>0, <3>1, <3>5 DEF AtStatement
    <3> QED
      BY <1>0, <1>1, <2>1, <2>3, <2>5, <3>1, <3>6 DEF LogInv
  <2> QED
    BY <2>6, <2>7
<1>6. CASE CommitAtServer
  <2>1. pc = "statement" /\ todo = <<>> /\ pc' = "committed" /\ UNCHANGED <<logged, answer>>
    BY <1>6 DEF CommitAtServer, AllSent, trace
  <2> DEFINE N == Len(input)
  <2>2. PICK m \in 0 .. N :
            /\ todo = [i \in 1 .. (N - m) |-> Single(m + i)]
            /\ (m = N /\ logged = LogOf(N)) \/ m < N
    BY <1>0, <2>1 DEF LogInv, AtStatement
  <2>3. N \in Nat
    BY InputLength DEF CallInv, TypeOK
  <2> HIDE DEF N
  <2>4. m = N
    BY <2>1, <2>2, <2>3, ProfilerTodo
  <2>5. logged = LogOf(N)
    BY <2>2, <2>3, <2>4
  <2> QED
    BY <1>0, <1>1, <2>1, <2>5 DEF LogInv, N
<1>7. CASE CommitDone
  <2>1. pc = "committed" /\ pc' = "done" /\ UNCHANGED <<logged, history, rest>>
    BY <1>7 DEF CommitDone, Leave, trace
  <2> QED
    BY <1>0, <2>1 DEF LogInv
<1>8. CASE Lose \/ Over \/ UNCHANGED vars
  <2>1. UNCHANGED <<pc, todo, rest, history, logged, answer>>
    BY <1>8 DEF Lose, Over, vars, trace
  <2> QED
    BY <1>0, <2>1 DEF LogInv, AtStatement, AtFlush, Progress
<1> QED
  BY <1>2, <1>3, <1>4, <1>5, <1>6, <1>7, <1>8 DEF Next

\* Under mysql_debug a committed list has logged exactly the rows of LogOf, each
\* with the duration given there, whatever the length of the list and the size
\* of the window.
THEOREM LoggedAsTold == Spec => []DurationsLogged
<1>1. LogInv => DurationsLogged
  BY DEF LogInv, DurationsLogged
<1>2. Init => CallInv /\ LogInv
  BY InitCall, InitLog
<1>3. CallInv /\ LogInv /\ [Next]_vars => CallInv' /\ LogInv'
  BY NextKeepsCall, NextKeepsLog
<1> QED
  BY <1>1, <1>2, <1>3, PTL DEF Spec
================================================================================
