-------------------------- MODULE MergeOperatorsProofs --------------------------
(* Theorems about MergeOperators, for every value of its constants. *)
EXTENDS MergeOperators, WellFoundedInduction, SequenceTheorems, TLAPS

-------------------------------------------------------------------------------
(***************************************************************************)
(* Induction over the naturals, for a set: what is closed under successor  *)
(* has no least element outside.                                           *)
(***************************************************************************)
LEMMA NatSets ==
    ASSUME NEW S, 0 \in S, \A n \in Nat : n \in S => n + 1 \in S
    PROVE  \A n \in Nat : n \in S
<1> DEFINE T == Nat \ S
           R == {ss \in Nat \X Nat : ss[1] < ss[2]}
<1> SUFFICES ASSUME T # {} PROVE FALSE
  OBVIOUS
<1>1. IsWellFoundedOn(R, Nat)
  BY NatLessThanWellFounded, Zenon DEF OpToRel
<1>2. \A m, n \in Nat : m < n => <<m, n>> \in R
  OBVIOUS
<1> HIDE DEF R
<1>3. PICK x \in T : \A y \in T : <<y, x>> \notin R
  BY <1>1, WFMin
<1>4. x \in Nat \ {0} /\ x - 1 \in Nat /\ x - 1 < x
  BY <1>3
<1>5. x - 1 \notin T
  BY <1>2, <1>3, <1>4
<1> QED
  BY <1>3, <1>4, <1>5

-------------------------------------------------------------------------------
(* What FullMerge computes *)

\* f gives the result after each operand of a list of n that is merged into v.
Runs(op, f, v, list, n) ==
    f = [m \in 0..n |-> IF m = 0 THEN v ELSE Applied(op, f[m - 1], list[m])]

LEMMA RunExists ==
    ASSUME NEW op, NEW v, NEW list
    PROVE  \A n \in Nat : \E f : Runs(op, f, v, list, n)
<1> DEFINE S == {n \in Nat : \E f : Runs(op, f, v, list, n)}
<1>1. 0 \in S
  <2> DEFINE f == [m \in 0..0 |-> v]
  <2>1. f = [m \in 0..0 |-> IF m = 0 THEN v ELSE Applied(op, f[m - 1], list[m])]
    OBVIOUS
  <2> QED
    BY <2>1 DEF Runs
<1>2. ASSUME NEW n \in Nat, n \in S PROVE n + 1 \in S
  <2>1. PICK f : Runs(op, f, v, list, n)
    BY <1>2
  <2> DEFINE g == [m \in 0..(n + 1) |-> IF m <= n THEN f[m] ELSE Applied(op, f[n], list[n + 1])]
  <2>2. ASSUME NEW m \in 0..(n + 1)
        PROVE  g[m] = IF m = 0 THEN v ELSE Applied(op, g[m - 1], list[m])
    <3>1. CASE m <= n
      <4>1. f[m] = IF m = 0 THEN v ELSE Applied(op, f[m - 1], list[m])
        BY <2>1, <3>1 DEF Runs
      <4>2. g[m] = f[m] /\ (m # 0 => g[m - 1] = f[m - 1])
        BY <3>1
      <4> QED
        BY <4>1, <4>2
    <3>2. CASE m = n + 1
      BY <3>2
    <3> QED
      BY <3>1, <3>2
  <2>3. g = [m \in 0..(n + 1) |-> IF m = 0 THEN v ELSE Applied(op, g[m - 1], list[m])]
    BY <2>2
  <2> HIDE DEF g
  <2> QED
    BY <2>3 DEF Runs
<1>3. \A n \in Nat : n \in S
  <2> HIDE DEF S
  <2> QED
    BY <1>1, <1>2, NatSets
<1> QED
  BY <1>3

\* The same of any function, whatever else it is defined for.
Follows(op, f, v, list, n) ==
    f[0] = v /\ \A m \in 1..n : f[m] = Applied(op, f[m - 1], list[m])

\* FullMerge is the last result of a run.
LEMMA FullMergeFollows ==
    ASSUME NEW op, NEW v, NEW list, NEW n \in Nat, Len(list) = n
    PROVE  \E f : Follows(op, f, v, list, n) /\ FullMerge(op, v, list) = f[n]
<1> DEFINE after == CHOOSE f : Runs(op, f, v, list, Len(list))
<1>1. Runs(op, after, v, list, n)
  BY RunExists
<1>2. FullMerge(op, v, list) = after[n]
  BY DEF FullMerge, Runs
<1> HIDE DEF after
<1>3. Follows(op, after, v, list, n)
  BY <1>1 DEF Runs, Follows
<1> QED
  BY <1>2, <1>3

\* A run is determined by what it starts from and by the operands.
LEMMA FollowsUnique ==
    ASSUME NEW op, NEW v, NEW list, NEW n \in Nat, Len(list) = n, NEW f,
           Follows(op, f, v, list, n)
    PROVE  FullMerge(op, v, list) = f[n]
<1>1. PICK g : Follows(op, g, v, list, n) /\ FullMerge(op, v, list) = g[n]
  BY FullMergeFollows
<1> DEFINE S == {m \in Nat : m <= n => f[m] = g[m]}
<1>2. 0 \in S
  BY <1>1 DEF Follows
<1>3. ASSUME NEW m \in Nat, m \in S PROVE m + 1 \in S
  <2> SUFFICES ASSUME m + 1 <= n PROVE f[m + 1] = g[m + 1]
    OBVIOUS
  <2>1. f[m] = g[m] /\ m + 1 \in 1..n /\ (m + 1) - 1 = m
    BY <1>3
  <2> QED
    BY <1>1, <2>1 DEF Follows
<1> HIDE DEF S
<1>4. n \in S
  BY <1>2, <1>3, NatSets
<1> QED
  BY <1>1, <1>4 DEF S

-------------------------------------------------------------------------------
(* Lists *)

LEMMA Pairs ==
    ASSUME NEW S, NEW a \in S, NEW b \in S
    PROVE  /\ <<a>> \in Seq(S) /\ <<b>> \in Seq(S) /\ <<a, b>> \in Seq(S)
           /\ <<a, b>> = <<a>> \o <<b>>
<1>1. <<a>> \in Seq(S) /\ <<b>> \in Seq(S)
  OBVIOUS
<1>2. Append(<<a>>, b) = <<a>> \o <<b>>
  BY <1>1, AppendIsConcat
<1>3. <<a, b>> \in Seq(S)
  OBVIOUS
<1>4. Append(<<a>>, b) = <<a, b>>
  <2>1. /\ Append(<<a>>, b) \in Seq(S) /\ Len(Append(<<a>>, b)) = 2
        /\ Append(<<a>>, b)[1] = a /\ Append(<<a>>, b)[2] = b
    BY <1>1, AppendProperties
  <2>2. Len(<<a, b>>) = 2 /\ <<a, b>>[1] = a /\ <<a, b>>[2] = b
    OBVIOUS
  <2>3. 1..2 = {1, 2}
    OBVIOUS
  <2> QED
    BY <1>3, <2>1, <2>2, <2>3, SeqEqual
<1> QED
  BY <1>1, <1>2, <1>3, <1>4

\* Any two neighbours have the rest of the list around them.
LEMMA Neighbours ==
    ASSUME NEW S, NEW list \in Seq(S), NEW n \in 1..(Len(list) - 1)
    PROVE  LET first == SubSeq(list, 1, n - 1)
               rest == SubSeq(list, n + 2, Len(list))
           IN  /\ first \in Seq(S) /\ rest \in Seq(S)
               /\ list = first \o <<list[n], list[n + 1]>> \o rest
<1>1. PICK m \in Nat : m = Len(list)
  OBVIOUS
<1>2. n \in 1..(m - 1) /\ n \in Int
  BY <1>1
<1>3. SubSeq(list, 1, n - 1) \in Seq(S) /\ SubSeq(list, n + 2, Len(list)) \in Seq(S)
  BY <1>1, <1>2, SubSeqProperties
<1>4. SubSeq(list, 1, n - 1) \o SubSeq(list, n, n + 1) = SubSeq(list, 1, n + 1)
  <2>1. 1 \in 1..(m + 1) /\ n - 1 \in (1 - 1)..m /\ n + 1 \in (n - 1)..m /\ (n - 1) + 1 = n
    BY <1>2
  <2> QED
    BY <1>1, <2>1, ConcatAdjacentSubSeq
<1>5. SubSeq(list, 1, n + 1) \o SubSeq(list, n + 2, m) = list
  <2>1. /\ 1 \in 1..(m + 1) /\ n + 1 \in (1 - 1)..m /\ m \in (n + 1)..m
        /\ (n + 1) + 1 = n + 2
    BY <1>2
  <2> QED
    BY <1>1, <2>1, ConcatAdjacentSubSeq, SubSeqFull
<1>6. SubSeq(list, n, n + 1) = <<list[n], list[n + 1]>>
  <2>1. PICK t : t = SubSeq(list, n, n + 1)
    OBVIOUS
  <2>2. t \in Seq(S) /\ Len(t) = 2 /\ \A i \in 1..2 : t[i] = list[n + i - 1]
    <3>1. n + 1 \in Int /\ n <= n + 1 /\ (n + 1) - n + 1 = 2 /\ \A i \in n..(n + 1) : list[i] \in S
      BY <1>1, <1>2
    <3> QED
      BY <1>2, <2>1, <3>1, SubSeqProperties
  <2>3. t[1] = list[n] /\ t[2] = list[n + 1]
    <3>1. 1 \in 1..2 /\ 2 \in 1..2 /\ n + 1 - 1 = n /\ n + 2 - 1 = n + 1
      BY <1>2
    <3> QED
      BY <2>2, <3>1
  <2>4. t = <<t[1], t[2]>>
    BY <2>2
  <2> QED
    BY <2>1, <2>3, <2>4
<1> QED
  BY <1>1, <1>3, <1>4, <1>5, <1>6

-------------------------------------------------------------------------------
\* A list can be merged in two parts, the second into the result of the first.
LEMMA FullMergeConcat ==
    ASSUME NEW op, NEW S, NEW v, NEW first \in Seq(S), NEW rest \in Seq(S)
    PROVE  FullMerge(op, v, first \o rest) = FullMerge(op, FullMerge(op, v, first), rest)
<1>1. PICK k \in Nat, l \in Nat : k = Len(first) /\ l = Len(rest)
  OBVIOUS
<1> DEFINE list == first \o rest
           n == k + l
<1>2. /\ Len(list) = n /\ n \in Nat
      /\ \A i \in 1..k : list[i] = first[i]
      /\ \A i \in 1..l : list[k + i] = rest[i]
  BY <1>1, ConcatProperties
<1> HIDE DEF list
<1>3. PICK f : Follows(op, f, v, list, n) /\ FullMerge(op, v, list) = f[n]
  BY <1>2, FullMergeFollows
<1>4. FullMerge(op, v, first) = f[k]
  <2>1. Follows(op, f, v, first, k)
    BY <1>1, <1>2, <1>3 DEF Follows
  <2> QED
    BY <1>1, <2>1, FollowsUnique
<1>5. FullMerge(op, f[k], rest) = f[n]
  <2> DEFINE g == [m \in 0..l |-> f[k + m]]
  <2>1. g[0] = f[k] /\ g[l] = f[n]
    BY <1>1
  <2>2. ASSUME NEW m \in 1..l PROVE g[m] = Applied(op, g[m - 1], rest[m])
    <3>1. k + m \in 1..n /\ (k + m) - 1 = k + (m - 1) /\ list[k + m] = rest[m]
      BY <1>1, <1>2
    <3>2. g[m] = f[k + m] /\ g[m - 1] = f[k + (m - 1)]
      BY <1>1
    <3> QED
      BY <1>3, <3>1, <3>2 DEF Follows
  <2> HIDE DEF g
  <2>3. Follows(op, g, f[k], rest, l)
    BY <2>1, <2>2 DEF Follows
  <2> QED
    BY <1>1, <2>1, <2>3, FollowsUnique
<1> QED
  BY <1>3, <1>4, <1>5 DEF list

LEMMA FullMergeOne ==
    ASSUME NEW op, NEW v, NEW o
    PROVE  FullMerge(op, v, <<o>>) = Applied(op, v, o)
<1> DEFINE list == <<o>>
<1>1. Len(list) = 1 /\ list[1] = o
  OBVIOUS
<1> HIDE DEF list
<1>2. PICK n \in Nat : n = 1
  OBVIOUS
<1>3. PICK f : Follows(op, f, v, list, n) /\ FullMerge(op, v, list) = f[n]
  <2>1. Len(list) = n
    BY <1>1, <1>2
  <2> QED
    BY <2>1, FullMergeFollows
<1>4. 1 \in 1..n /\ n - 1 = 0
  BY <1>2
<1>5. FullMerge(op, v, list) = Applied(op, v, o)
  BY <1>1, <1>2, <1>3, <1>4 DEF Follows
<1> QED
  BY <1>5 DEF list

-------------------------------------------------------------------------------
(***************************************************************************)
(* The values an operator makes of operands that are not empty, and what a *)
(* key may hold below them.                                                *)
(***************************************************************************)
Solid(op) == IF op = "uint64add" THEN {<<n>> : n \in 0..(Limit - 1)}
         ELSE Seq(Letters) \ {<<>>}

Stored(op) == Solid(op) \cup {Absent, Empty}

LEMMA SolidFacts ==
    ASSUME NEW op
    PROVE  Absent \notin Solid(op) /\ Empty \notin Solid(op) /\ Failed \notin Solid(op)
<1>1. CASE op = "uint64add"
  <2>1. \A n \in 0..(Limit - 1) : <<n>> # Absent /\ <<n>> # Empty /\ <<n>> # Failed
    BY LimitAssumption DEF Absent, Empty, Failed
  <2> QED
    BY <1>1, <2>1 DEF Solid
<1>2. CASE op # "uint64add"
  <2>1. \A s \in Seq(Letters) : \A i \in 1..Len(s) : s[i] # Nothing
    BY LimitAssumption
  <2>2. /\ Len(Empty) = 1 /\ Empty[1] = Nothing
        /\ Len(Failed) = 2 /\ Failed[1] = Nothing
    BY DEF Empty, Failed
  <2>3. Empty \notin Seq(Letters) /\ Failed \notin Seq(Letters)
    BY <2>1, <2>2
  <2> QED
    BY <1>2, <2>3 DEF Solid, Absent
<1> QED
  BY <1>1, <1>2

\* Merging an operand makes one of the same kind, or fails.
LEMMA AppliedType ==
    ASSUME NEW op, NEW v \in Stored(op) \cup {Failed}, NEW o \in Solid(op)
    PROVE  Applied(op, v, o) \in Solid(op) \cup {Failed}
<1>1. CASE v = Failed
  BY <1>1 DEF Applied
<1>2. CASE v # Failed /\ v \in {Absent, Empty}
  BY <1>2 DEF Applied, Merge, UintAdd, StringAppend
<1>3. CASE v # Failed /\ v \in Solid(op)
  <2>1. v \notin {Absent, Empty} /\ Applied(op, v, o) = Merge(op, v, o)
    BY <1>3, SolidFacts DEF Applied
  <2>2. CASE op = "uint64add"
    <3>1. PICK m \in 0..(Limit - 1), n \in 0..(Limit - 1) : v = <<m>> /\ o = <<n>>
      BY <1>3, <2>2 DEF Solid
    <3>2. Merge(op, v, o) = IF o = Empty \/ m + n >= Limit THEN Failed ELSE <<m + n>>
      BY <2>1, <2>2, <3>1 DEF Merge, UintAdd
    <3>3. m + n >= Limit \/ m + n \in 0..(Limit - 1)
      BY LimitAssumption
    <3> QED
      BY <2>1, <2>2, <3>2, <3>3 DEF Solid
  <2>3. CASE op # "uint64add"
    <3>1. v \in Seq(Letters) \ {<<>>} /\ o \in Seq(Letters) \ {<<>>}
      BY <1>3, <2>3 DEF Solid
    <3>2. v \o o \in Seq(Letters) \ {<<>>}
      BY <3>1
    <3> QED
      BY <2>1, <2>3, <3>2 DEF Merge, StringAppend, Solid
  <2> QED
    BY <2>2, <2>3
<1> QED
  BY <1>1, <1>2, <1>3 DEF Stored

\* Two operands merged first and applied then are as good as applied one by one,
\* where merging them does not fail.  This is false of empty operands.
LEMMA AppliedAssociative ==
    ASSUME NEW op, NEW v \in Stored(op) \cup {Failed}, NEW a \in Solid(op), NEW b \in Solid(op),
           Merge(op, a, b) # Failed
    PROVE  Applied(op, Applied(op, v, a), b) = Applied(op, v, Merge(op, a, b))
<1>1. CASE v = Failed
  BY <1>1 DEF Applied
<1>2. CASE v # Failed /\ v \in {Absent, Empty}
  <2>1. \A o : Applied(op, v, o) = o
    BY <1>2 DEF Applied, Merge, UintAdd, StringAppend
  <2> QED
    BY <2>1, SolidFacts DEF Applied
<1>3. CASE v # Failed /\ v \in Solid(op)
  <2>1. /\ v \notin {Absent, Empty} /\ a \notin {Absent, Empty} /\ b # Empty /\ a # Failed
    BY <1>3, SolidFacts
  <2>2. CASE op = "uint64add"
    <3>1. PICK l \in 0..(Limit - 1), m \in 0..(Limit - 1), n \in 0..(Limit - 1) :
             v = <<l>> /\ a = <<m>> /\ b = <<n>>
      BY <1>3, <2>2 DEF Solid
    <3>2. \A i, j \in 0..(Limit - 1) :
             Merge(op, <<i>>, <<j>>) = IF i + j >= Limit THEN Failed ELSE <<i + j>>
      BY <2>2, LimitAssumption DEF Merge, UintAdd, Absent, Empty
    <3>3. m + n \in 0..(Limit - 1) /\ Merge(op, a, b) = <<m + n>>
      <4>1. Merge(op, a, b) = IF m + n >= Limit THEN Failed ELSE <<m + n>>
        BY <3>1, <3>2
      <4>2. ~(m + n >= Limit)
        BY <4>1
      <4> QED
        BY <4>1, <4>2, LimitAssumption
    <3>4. \A i : <<i>> # Failed
      BY DEF Failed
    <3>5. CASE l + m >= Limit
      <4>1. Applied(op, v, a) = Failed /\ Applied(op, Failed, b) = Failed
        BY <1>3, <3>1, <3>2, <3>5 DEF Applied
      <4>2. l + (m + n) >= Limit
        BY <3>5, LimitAssumption
      <4> QED
        BY <1>3, <3>1, <3>2, <3>3, <4>1, <4>2 DEF Applied
    <3>6. CASE l + m < Limit
      <4>1. Applied(op, v, a) = <<l + m>> /\ l + m \in 0..(Limit - 1)
        <5>1. Merge(op, v, a) = IF l + m >= Limit THEN Failed ELSE <<l + m>>
          BY <3>1, <3>2
        <5>2. Merge(op, v, a) = <<l + m>> /\ l + m \in 0..(Limit - 1)
          BY <3>6, <5>1, LimitAssumption
        <5> QED
          BY <1>3, <5>2 DEF Applied
      <4>2. Applied(op, <<l + m>>, b) = IF (l + m) + n >= Limit THEN Failed ELSE <<(l + m) + n>>
        BY <3>1, <3>2, <3>4, <4>1 DEF Applied
      <4>3. Applied(op, v, Merge(op, a, b)) =
               IF l + (m + n) >= Limit THEN Failed ELSE <<l + (m + n)>>
        BY <1>3, <3>1, <3>2, <3>3 DEF Applied
      <4>4. (l + m) + n = l + (m + n)
        BY LimitAssumption
      <4> QED
        BY <4>1, <4>2, <4>3, <4>4
    <3> QED
      BY <3>5, <3>6, LimitAssumption
  <2>3. CASE op # "uint64add"
    <3>1. /\ v \in Seq(Letters) \ {<<>>} /\ a \in Seq(Letters) \ {<<>>}
          /\ b \in Seq(Letters) \ {<<>>}
      BY <1>3, <2>3 DEF Solid
    <3>2. \A p, q \in Solid(op) : Applied(op, p, q) = p \o q /\ Merge(op, p, q) = p \o q
      BY <2>3, SolidFacts DEF Applied, Merge, StringAppend
    <3>3. \A p, q \in Solid(op) : p \o q \in Solid(op)
      BY <2>3 DEF Solid
    <3>4. (v \o a) \o b = v \o (a \o b)
      BY <3>1, ConcatAssociative
    <3>5. v \in Solid(op) /\ v \o a \in Solid(op) /\ a \o b \in Solid(op)
      BY <1>3, <3>3
    <3>6. Applied(op, Applied(op, v, a), b) = (v \o a) \o b
      BY <3>2, <3>5
    <3>7. Applied(op, v, Merge(op, a, b)) = v \o (a \o b)
      BY <3>2, <3>5
    <3> QED
      BY <3>4, <3>6, <3>7
  <2> QED
    BY <2>2, <2>3
<1> QED
  BY <1>1, <1>2, <1>3 DEF Stored

\* What FullMerge makes is again something a key may hold.
LEMMA FullMergeType ==
    ASSUME NEW op, NEW v \in Stored(op) \cup {Failed}, NEW list \in Seq(Solid(op))
    PROVE  FullMerge(op, v, list) \in Stored(op) \cup {Failed}
<1>1. PICK n \in Nat : n = Len(list)
  OBVIOUS
<1>2. PICK f : Follows(op, f, v, list, n) /\ FullMerge(op, v, list) = f[n]
  BY <1>1, FullMergeFollows
<1>3. f[0] = v /\ \A m \in 1..n : f[m] = Applied(op, f[m - 1], list[m])
  BY <1>2 DEF Follows
<1> DEFINE S == {m \in Nat : m <= n => f[m] \in Stored(op) \cup {Failed}}
<1>4. 0 \in S
  BY <1>3
<1>5. ASSUME NEW m \in Nat, m \in S PROVE m + 1 \in S
  <2> SUFFICES ASSUME m + 1 <= n PROVE f[m + 1] \in Stored(op) \cup {Failed}
    OBVIOUS
  <2>1. m + 1 \in 1..n /\ (m + 1) - 1 = m /\ f[m] \in Stored(op) \cup {Failed}
    BY <1>5
  <2>2. list[m + 1] \in Solid(op)
    BY <1>1, <2>1
  <2>3. Applied(op, f[m], list[m + 1]) \in Solid(op) \cup {Failed}
    BY <2>1, <2>2, AppliedType
  <2>4. f[m + 1] = Applied(op, f[m], list[m + 1])
    BY <1>3, <2>1
  <2> QED
    BY <2>3, <2>4 DEF Stored
<1> HIDE DEF S
<1>6. n \in S
  BY <1>4, <1>5, NatSets
<1> QED
  BY <1>2, <1>6 DEF S

-------------------------------------------------------------------------------
(***************************************************************************)
(* CompactionsDoNotShow, with what a key may hold.                         *)
(***************************************************************************)
KeyInv ==
    ~empties =>
        /\ value \in Stored(name) /\ operands \in Seq(Solid(name))
        /\ history.value \in Stored(name) /\ history.operands \in Seq(Solid(name))
        /\ Read(Key(value, operands)) = Read(history)

\* KeyInv with Read and Key expanded, which the provers can use.
LEMMA KeyFacts ==
    KeyInv <=> (~empties =>
        /\ value \in Stored(name) /\ operands \in Seq(Solid(name))
        /\ history.value \in Stored(name) /\ history.operands \in Seq(Solid(name))
        /\ FullMerge(name, value, operands) = FullMerge(name, history.value, history.operands))
BY DEF KeyInv, Read, Key

LEMMA KeyFields == \A v, list : Key(v, list).value = v /\ Key(v, list).operands = list
BY DEF Key

\* The values a program may give are among those.
LEMMA ValueKinds ==
    ASSUME name \in {"uint64add", "stringappend"}
    PROVE  Values \subseteq Solid(name) \cup {Empty}
<1>1. \A letter \in Letters : <<letter>> \in Seq(Letters) \ {<<>>}
  OBVIOUS
<1> QED
  BY <1>1 DEF Values, Solid

LEMMA KeyInit ==
    ASSUME Init PROVE KeyInv
<1>1. /\ value = Absent /\ operands = <<>>
      /\ history.value = Absent /\ history.operands = <<>>
  BY KeyFields DEF Init
<1>2. <<>> \in Seq(Solid(name)) /\ Absent \in Stored(name)
  BY DEF Stored
<1> QED
  BY <1>1, <1>2, KeyFacts

LEMMA KeyPut ==
    ASSUME KeyInv, name \in {"uint64add", "stringappend"}, NEW v \in Values \cup {Absent}, Put(v)
    PROVE  KeyInv'
<1>1. /\ value' = v /\ operands' = <<>> /\ name' = name
      /\ history'.value = v /\ history'.operands = <<>>
  BY KeyFields DEF Put
<1>2. <<>> \in Seq(Solid(name)) /\ v \in Stored(name)
  BY ValueKinds DEF Stored
<1> QED
  BY <1>1, <1>2 DEF KeyInv, Read, Key

LEMMA KeyDoMerge ==
    ASSUME KeyInv, name \in {"uint64add", "stringappend"}, NEW o \in Values, DoMerge(o)
    PROVE  KeyInv'
<1>1. /\ name' = name /\ empties' = empties /\ value' = value
      /\ operands' = Append(operands, o)
      /\ history'.value = history.value
      /\ history'.operands = Append(history.operands, o)
  BY KeyFields DEF DoMerge
<1> SUFFICES ASSUME ~empties
             PROVE  /\ operands' \in Seq(Solid(name)) /\ history'.operands \in Seq(Solid(name))
                    /\ FullMerge(name, value, operands') =
                           FullMerge(name, history.value, history'.operands)
  BY <1>1, KeyFacts DEF KeyInv, Read, Key
<1>2. o \in Solid(name)
  BY ValueKinds DEF DoMerge
<1>3. /\ value \in Stored(name) /\ operands \in Seq(Solid(name))
      /\ history.value \in Stored(name) /\ history.operands \in Seq(Solid(name))
      /\ FullMerge(name, value, operands) = FullMerge(name, history.value, history.operands)
  BY KeyFacts
<1>4. ASSUME NEW v, NEW list \in Seq(Solid(name))
      PROVE  /\ Append(list, o) \in Seq(Solid(name))
             /\ FullMerge(name, v, Append(list, o)) = Applied(name, FullMerge(name, v, list), o)
  <2>1. Append(list, o) = list \o <<o>> /\ <<o>> \in Seq(Solid(name))
    BY <1>2, AppendIsConcat
  <2>2. FullMerge(name, v, list \o <<o>>) = FullMerge(name, FullMerge(name, v, list), <<o>>)
    <3>1. PICK one : one = <<o>>
      OBVIOUS
    <3>2. one \in Seq(Solid(name))
      BY <2>1, <3>1
    <3>3. FullMerge(name, v, list \o one) = FullMerge(name, FullMerge(name, v, list), one)
      BY <3>2, FullMergeConcat
    <3> QED
      BY <3>1, <3>3
  <2>3. Append(list, o) \in Seq(Solid(name))
    BY <1>2
  <2> QED
    BY <2>1, <2>2, <2>3, FullMergeOne
<1> QED
  BY <1>1, <1>3, <1>4

\* The operands that are merged into the value are a part of its own.
LEMMA KeyCompactDown ==
    ASSUME KeyInv, NEW n \in 1..Len(operands), CompactDown(n)
    PROVE  KeyInv'
<1>1. PICK first, rest : first = SubSeq(operands, 1, n)
                         /\ rest = SubSeq(operands, n + 1, Len(operands))
  OBVIOUS
<1>2. /\ name' = name /\ empties' = empties /\ history' = history
      /\ value' = FullMerge(name, value, first) /\ value' # Failed
      /\ operands' = rest
  BY <1>1 DEF CompactDown
<1> SUFFICES ASSUME ~empties
             PROVE  /\ value' \in Stored(name) /\ rest \in Seq(Solid(name))
                    /\ FullMerge(name, value', rest) = FullMerge(name, value, operands)
  BY <1>2, KeyFacts DEF KeyInv, Read, Key
<1>3. value \in Stored(name) /\ operands \in Seq(Solid(name))
  BY KeyFacts
<1>4. first \in Seq(Solid(name)) /\ rest \in Seq(Solid(name)) /\ operands = first \o rest
  <2>1. operands = SubSeq(operands, 1, Len(operands))
    BY <1>3, SubSeqFull
  <2>2. SubSeq(operands, 1, n) \o SubSeq(operands, n + 1, Len(operands))
            = SubSeq(operands, 1, Len(operands))
    BY <1>3, ConcatAdjacentSubSeq
  <2>3. first \in Seq(Solid(name)) /\ rest \in Seq(Solid(name))
    BY <1>1, <1>3, SubSeqProperties
  <2> QED
    BY <1>1, <2>1, <2>2, <2>3
<1>5. value' \in Stored(name)
  BY <1>2, <1>3, <1>4, FullMergeType
<1>6. FullMerge(name, FullMerge(name, value, first), rest) = FullMerge(name, value, operands)
  BY <1>4, FullMergeConcat
<1> QED
  BY <1>2, <1>4, <1>5, <1>6

LEMMA KeyCompactPair ==
    ASSUME KeyInv, NEW n \in 1..(Len(operands) - 1), CompactPair(n)
    PROVE  KeyInv'
<1>1. PICK first, rest, a, b, o :
          /\ first = SubSeq(operands, 1, n - 1)
          /\ rest = SubSeq(operands, n + 2, Len(operands))
          /\ a = operands[n] /\ b = operands[n + 1] /\ o = Merge(name, a, b)
  OBVIOUS
<1>2. /\ name' = name /\ empties' = empties /\ history' = history /\ value' = value
      /\ o # Failed /\ operands' = first \o <<o>> \o rest
  BY <1>1 DEF CompactPair
<1> SUFFICES ASSUME ~empties
             PROVE  /\ operands' \in Seq(Solid(name))
                    /\ FullMerge(name, value, operands') = FullMerge(name, value, operands)
  BY <1>2, KeyFacts DEF KeyInv, Read, Key
<1>3. value \in Stored(name) /\ operands \in Seq(Solid(name))
  BY KeyFacts
<1>4. /\ first \in Seq(Solid(name)) /\ rest \in Seq(Solid(name))
      /\ operands = first \o <<a, b>> \o rest
  BY <1>1, <1>3, Neighbours
<1>5. a \in Solid(name) /\ b \in Solid(name)
  BY <1>1, <1>3
<1>6. o \in Solid(name)
  <2>1. a # Failed /\ a \in Stored(name) \cup {Failed}
    BY <1>5, SolidFacts DEF Stored
  <2>2. Applied(name, a, b) = o
    BY <1>1, <2>1 DEF Applied
  <2> QED
    BY <1>2, <1>5, <2>1, <2>2, AppliedType
<1>7. /\ <<a>> \in Seq(Solid(name)) /\ <<b>> \in Seq(Solid(name)) /\ <<o>> \in Seq(Solid(name))
      /\ <<a, b>> \in Seq(Solid(name)) /\ <<a, b>> = <<a>> \o <<b>>
  BY <1>5, <1>6, Pairs
<1>8. PICK u : u = FullMerge(name, value, first)
  OBVIOUS
<1>9. u \in Stored(name) \cup {Failed}
  BY <1>3, <1>4, <1>8, FullMergeType
<1>10. FullMerge(name, u, <<a, b>>) = FullMerge(name, u, <<o>>)
  <2>1. FullMerge(name, u, <<a, b>>) = FullMerge(name, FullMerge(name, u, <<a>>), <<b>>)
    <3>1. PICK p, q : p = <<a>> /\ q = <<b>>
      OBVIOUS
    <3>2. p \in Seq(Solid(name)) /\ q \in Seq(Solid(name))
      BY <1>7, <3>1
    <3>3. FullMerge(name, u, p \o q) = FullMerge(name, FullMerge(name, u, p), q)
      BY <3>2, FullMergeConcat
    <3> QED
      BY <1>7, <3>1, <3>3
  <2>2. FullMerge(name, u, <<a, b>>) = Applied(name, Applied(name, u, a), b)
    BY <2>1, FullMergeOne
  <2>3. Applied(name, Applied(name, u, a), b) = Applied(name, u, Merge(name, a, b))
    BY <1>1, <1>2, <1>5, <1>9, AppliedAssociative
  <2> QED
    BY <1>1, <2>2, <2>3, FullMergeOne
<1>11. ASSUME NEW mid \in Seq(Solid(name))
       PROVE  /\ first \o mid \o rest \in Seq(Solid(name))
              /\ FullMerge(name, value, first \o mid \o rest) =
                     FullMerge(name, FullMerge(name, u, mid), rest)
  <2>1. first \o mid \in Seq(Solid(name))
    BY <1>4, ConcatProperties
  <2>2. (first \o mid) \o rest \in Seq(Solid(name))
    BY <1>4, <2>1, ConcatProperties
  <2>3. FullMerge(name, value, (first \o mid) \o rest) =
            FullMerge(name, FullMerge(name, value, first \o mid), rest)
    <3>1. PICK left : left = first \o mid
      OBVIOUS
    <3>2. left \in Seq(Solid(name)) /\ rest \in Seq(Solid(name))
      BY <1>4, <2>1, <3>1
    <3>3. FullMerge(name, value, left \o rest) = FullMerge(name, FullMerge(name, value, left), rest)
      BY <3>2, FullMergeConcat
    <3> QED
      BY <3>1, <3>3
  <2>4. FullMerge(name, value, first \o mid) = FullMerge(name, u, mid)
    BY <1>4, <1>8, FullMergeConcat
  <2> QED
    BY <2>2, <2>3, <2>4
<1> QED
  BY <1>2, <1>4, <1>7, <1>10, <1>11

(***************************************************************************)
(* Whatever compactions have merged by themselves, with the value below or *)
(* two neighbours without it, a key whose operands are not b'' reads as    *)
(* merge() left it: for every width of the numbers, every set of parts and *)
(* every number of operands.                                               *)
(***************************************************************************)
THEOREM CompactionsNeverShow == Spec => []CompactionsDoNotShow
<1> DEFINE Inv == name \in {"uint64add", "stringappend"} /\ KeyInv
<1>1. Init => Inv
  BY KeyInit DEF Init
<1>2. Inv /\ [Next]_vars => Inv'
  <2> SUFFICES ASSUME Inv, [Next]_vars PROVE Inv'
    OBVIOUS
  <2>1. CASE Next
    <3>1. name' = name
      BY <2>1 DEF Next, Put, DoMerge, CompactDown, CompactPair
    <3>2. KeyInv'
      BY <2>1, KeyPut, KeyDoMerge, KeyCompactDown, KeyCompactPair DEF Next
    <3> QED
      BY <3>1, <3>2
  <2>2. CASE UNCHANGED vars
    BY <2>2 DEF vars, KeyInv, Read, Key, Stored, Solid
  <2> QED
    BY <2>1, <2>2
<1>3. Inv => CompactionsDoNotShow
  BY DEF KeyInv, CompactionsDoNotShow
<1> QED
  BY <1>1, <1>2, <1>3, PTL DEF Spec
===============================================================================
