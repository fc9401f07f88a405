--------------------------- MODULE WriteBatchProofs ---------------------------
(***************************************************************************)
(* For any batches, iterators, threads and records, and batches of any     *)
(* length: GivesTheBatch and BatchesOutliveUse.                            *)
(*                                                                         *)
(* That an iterator gives its batch rests on what it keeps from the time   *)
(* it listed it: the C++ batch exists, its records are those listed, and   *)
(* their bytes are still in place.                                         *)
(***************************************************************************)
EXTENDS WriteBatch, TLAPS

AllRecords == Records \cup Ranges

TypeOK ==
    /\ careful \in BOOLEAN
    /\ program \subseteq Batches
    /\ exists \subseteq Batches
    /\ records \in [Batches -> Seq(AllRecords)]
    /\ over \in [Iterators -> Batches \cup {None}]
    /\ items \in [Iterators -> Seq(AllRecords)]
    /\ intact \in [Iterators -> SUBSET Nat]
    /\ pos \in [Iterators -> Nat]
    /\ given \in [Iterators -> Seq(AllRecords \cup {None})]
    /\ writing \in [Threads -> Batches \cup {None}]
    /\ \A i \in Iterators : intact[i] \subseteq DOMAIN items[i]

\* Whoever may refer to a batch keeps it in existence.
KeptAlive == \A b \in Batches : b \in program \/ Iterated(b) \/ Written(b) => b \in exists

\* What an iterator has kept of a batch that was left alone.
AsListed(i) ==
    over[i] # None =>
        /\ items[i] = records[over[i]]
        /\ intact[i] = DOMAIN items[i]
        /\ pos[i] <= Len(items[i])
        /\ Len(given[i]) = pos[i]
        /\ \A n \in 1..pos[i] : given[i][n] = items[i][n]

IInv == TypeOK /\ KeptAlive /\ (careful => \A i \in Iterators : AsListed(i))

USE BatchAssumption

-------------------------------------------------------------------------------
\* There are no batches at first.
LEMMA InitIInv == Init => IInv
<1> SUFFICES ASSUME Init PROVE IInv
  OBVIOUS
<1>1. TypeOK
  BY DEF Init, TypeOK
<1>2. KeptAlive
  BY DEF Init, KeptAlive, Iterated, Written
<1>3. \A i \in Iterators : AsListed(i)
  BY DEF Init, AsListed
<1> QED
  BY <1>1, <1>2, <1>3 DEF IInv

\* Steps that leave an iterator, its batch and the bytes of it alone.
LEMMA StaysListed ==
  ASSUME NEW i, AsListed(i),
         over'[i] = over[i], items'[i] = items[i], intact'[i] = intact[i],
         pos'[i] = pos[i], given'[i] = given[i],
         over[i] # None => records'[over[i]] = records[over[i]]
  PROVE  AsListed(i)'
BY DEF AsListed

\* Collect deletes the batches that nothing refers to, and no other.
LEMMA CollectKeeps ==
  ASSUME IInv, Collect, program' \subseteq program,
         \A i \in Iterators : over'[i] \in {over[i], None},
         \A t \in Threads : writing'[t] \in {writing[t], None}
  PROVE  /\ KeptAlive'
         /\ exists' \subseteq exists
<1>1. exists' \subseteq exists
  BY DEF Collect
<1>2. ASSUME NEW b \in Batches, b \in program' \/ Iterated(b)' \/ Written(b)'
      PROVE  b \in exists'
  <2>1. Referenced(b)
    BY <1>2 DEF Referenced, Iterated, Written
  <2>2. b \in program \/ Iterated(b) \/ Written(b)
    BY <1>2 DEF Iterated, Written
  <2>3. b \in exists
    BY <2>2 DEF IInv, KeptAlive
  <2> QED
    BY <2>1, <2>3 DEF Collect
<1> QED
  BY <1>1, <1>2 DEF KeptAlive

-------------------------------------------------------------------------------
(* The actions *)

\* A new batch is nobody's.
LEMMA NewKeeps ==
  ASSUME IInv, NEW b \in Batches, NEW content \in Seq(AllRecords), New(b, content)
  PROVE  IInv'
<1>1. TypeOK'
  BY DEF IInv, TypeOK, New, iterators
<1>2. KeptAlive'
  BY DEF IInv, KeptAlive, Iterated, Written, New, iterators
<1>3. ASSUME careful, NEW i \in Iterators PROVE AsListed(i)'
  <2>1. over[i] # b
    BY DEF IInv, KeptAlive, Iterated, New
  <2>2. over[i] # None => records'[over[i]] = records[over[i]]
    BY <2>1 DEF IInv, TypeOK, New
  <2> QED
    BY <1>3, <2>2, StaysListed DEF IInv, New, iterators
<1> QED
  BY <1>1, <1>2, <1>3 DEF IInv, New

LEMMA ForgetKeeps == ASSUME IInv, NEW b \in Batches, Forget(b) PROVE IInv'
<1>1. KeptAlive' /\ exists' \subseteq exists
  <2>1. Collect /\ program' \subseteq program
    BY DEF Forget
  <2>2. \A i \in Iterators : over'[i] \in {over[i], None}
    BY DEF Forget, iterators
  <2>3. \A t \in Threads : writing'[t] \in {writing[t], None}
    BY DEF Forget
  <2> QED
    BY <2>1, <2>2, <2>3, CollectKeeps
<1>2. TypeOK'
  BY <1>1 DEF IInv, TypeOK, Forget, Collect, iterators
<1>3. ASSUME careful, NEW i \in Iterators PROVE AsListed(i)'
  BY <1>3, StaysListed DEF IInv, Forget, Collect, iterators
<1> QED
  BY <1>1, <1>2, <1>3 DEF IInv, Forget

\* A careful program changes a batch only while it is not iterated.
LEMMA TouchKeeps ==
  ASSUME IInv, NEW b \in Batches, Touch(b), records' \in [Batches -> Seq(AllRecords)],
         \A c \in Batches \ {b} : records'[c] = records[c],
         intact' \in [Iterators -> SUBSET Nat],
         \A i \in Iterators : intact'[i] \subseteq intact[i],
         \A i \in Iterators : over[i] # b => intact'[i] = intact[i]
  PROVE  IInv'
<1>1. TypeOK'
  BY DEF IInv, TypeOK, Touch
<1>2. KeptAlive'
  BY DEF IInv, KeptAlive, Iterated, Written, Touch
<1>3. ASSUME careful, NEW i \in Iterators PROVE AsListed(i)'
  <2>1. over[i] # b
    BY <1>3 DEF Touch, Iterated
  <2>2. over[i] # None => records'[over[i]] = records[over[i]]
    BY <2>1 DEF IInv, TypeOK
  <2> QED
    BY <1>3, <2>1, <2>2, StaysListed DEF IInv, Touch
<1> QED
  BY <1>1, <1>2, <1>3 DEF IInv, Touch

LEMMA AddKeeps ==
  ASSUME IInv, NEW b \in Batches, NEW r \in AllRecords, Add(b, r) PROVE IInv'
<1>1. Touch(b)
  BY DEF Add
<1>2. records' \in [Batches -> Seq(AllRecords)]
  BY DEF IInv, TypeOK, Add
<1>3. \A c \in Batches \ {b} : records'[c] = records[c]
  BY DEF IInv, TypeOK, Add
<1>4. PICK numbers \in {{}, 1..Len(records[b])} : Keep(b, numbers)
  BY DEF Add
<1>5. intact' \in [Iterators -> SUBSET Nat]
  BY <1>4 DEF IInv, TypeOK, Keep
<1>6. \A i \in Iterators : intact'[i] \subseteq intact[i]
  BY <1>4 DEF Keep
<1>7. \A i \in Iterators : over[i] # b => intact'[i] = intact[i]
  BY <1>4 DEF Keep
<1> QED
  BY <1>1, <1>2, <1>3, <1>5, <1>6, <1>7, TouchKeeps

LEMMA ClearKeeps == ASSUME IInv, NEW b \in Batches, Clear(b) PROVE IInv'
<1>1. records' \in [Batches -> Seq(AllRecords)]
  BY DEF IInv, TypeOK, Clear
<1>2. \A c \in Batches \ {b} : records'[c] = records[c]
  BY DEF IInv, TypeOK, Clear
<1> QED
  BY <1>1, <1>2, TouchKeeps DEF Clear, IInv, TypeOK

LEMMA IterKeeps ==
  ASSUME IInv, NEW i \in Iterators, NEW b \in Batches, Iter(i, b) PROVE IInv'
<1>1. TypeOK'
  <2>1. records[b] \in Seq(AllRecords) /\ DOMAIN records[b] \subseteq Nat
    BY DEF IInv, TypeOK
  <2> QED
    BY <2>1 DEF IInv, TypeOK, Iter, List, batches
<1>2. KeptAlive'
  <2>1. \A j \in Iterators : over'[j] \in {over[j], b}
    BY DEF IInv, TypeOK, Iter, List
  <2>2. b \in program
    BY DEF Iter
  <2> QED
    BY <2>1, <2>2 DEF IInv, KeptAlive, Iterated, Written, Iter, batches
<1>3. ASSUME careful, NEW j \in Iterators PROVE AsListed(j)'
  <2>1. CASE j = i
    BY <2>1 DEF IInv, TypeOK, AsListed, Iter, List, batches
  <2>2. CASE j # i
    BY <1>3, <2>2, StaysListed DEF IInv, TypeOK, Iter, List, batches
  <2> QED
    BY <2>1, <2>2
<1> QED
  BY <1>1, <1>2, <1>3 DEF IInv, Iter

LEMMA NextItemKeeps == ASSUME IInv, NEW i \in Iterators, NextItem(i) PROVE IInv'
<1> DEFINE n == pos[i] + 1
<1>1. /\ over[i] \in Batches /\ items[i] \in Seq(AllRecords)
      /\ pos[i] \in Nat /\ given[i] \in Seq(AllRecords \cup {None})
  BY DEF IInv, TypeOK, NextItem
<1>2. /\ careful' = careful /\ program' = program /\ exists' = exists
      /\ records' = records /\ over' = over /\ items' = items
      /\ intact' = intact /\ writing' = writing
  BY DEF NextItem, batches
<1>3. /\ pos' = [pos EXCEPT ![i] = n]
      /\ given' = [given EXCEPT ![i] = Append(given[i], Bytes(i, n))]
  BY DEF NextItem
<1>4. KeptAlive'
  BY <1>2 DEF IInv, KeptAlive, Iterated, Written
<1>5. TypeOK'
  <2>1. n \in intact[i] => items[i][n] \in AllRecords \cup {None}
    BY <1>1 DEF IInv, TypeOK
  <2> QED
    BY <1>1, <1>2, <1>3, <2>1 DEF IInv, TypeOK, Bytes
<1>6. ASSUME careful, NEW j \in Iterators PROVE AsListed(j)'
  <2>1. CASE j = i
    <3>1. n \in 1..Len(items[i])
      BY <1>1, <1>6 DEF IInv, AsListed, NextItem
    <3>2. Bytes(i, n) = items[i][n]
      <4>1. over[i] \in exists
        BY <1>1 DEF IInv, KeptAlive, Iterated
      <4> QED
        BY <1>1, <1>6, <3>1, <4>1 DEF IInv, AsListed, Bytes
    <3>3. given'[i] = Append(given[i], items[i][n]) /\ pos'[i] = n
      BY <1>3, <3>2 DEF IInv, TypeOK
    <3>4. Len(given[i]) = pos[i] /\ \A k \in 1..pos[i] : given[i][k] = items[i][k]
      BY <1>1, <1>6 DEF IInv, AsListed
    <3>5. Len(given'[i]) = n /\ \A k \in 1..n : given'[i][k] = items[i][k]
      BY <1>1, <3>3, <3>4
    <3> QED
      BY <1>1, <1>2, <1>6, <2>1, <3>1, <3>3, <3>5 DEF IInv, AsListed
  <2>2. CASE j # i
    BY <1>2, <1>3, <1>6, <2>2, StaysListed DEF IInv, TypeOK
  <2> QED
    BY <2>1, <2>2
<1> QED
  BY <1>2, <1>4, <1>5, <1>6 DEF IInv

LEMMA ReleaseKeeps == ASSUME IInv, NEW i \in Iterators, Release(i) PROVE IInv'
<1>1. KeptAlive' /\ exists' \subseteq exists
  <2>1. Collect /\ program' \subseteq program
    BY DEF Release
  <2>2. \A j \in Iterators : over'[j] \in {over[j], None}
    BY DEF IInv, TypeOK, Release
  <2>3. \A t \in Threads : writing'[t] \in {writing[t], None}
    BY DEF Release
  <2> QED
    BY <2>1, <2>2, <2>3, CollectKeeps
<1>2. TypeOK'
  BY <1>1 DEF IInv, TypeOK, Release, Collect
<1>3. ASSUME careful, NEW j \in Iterators PROVE AsListed(j)'
  <2>1. CASE j = i
    BY <2>1 DEF IInv, TypeOK, AsListed, Release
  <2>2. CASE j # i
    BY <1>3, <2>2, StaysListed DEF IInv, TypeOK, Release, Collect
  <2> QED
    BY <2>1, <2>2
<1> QED
  BY <1>1, <1>2, <1>3 DEF IInv, Release

LEMMA WriteKeeps ==
  ASSUME IInv, NEW t \in Threads, NEW b \in Batches, Write(t, b) PROVE IInv'
<1>1. TypeOK'
  BY DEF IInv, TypeOK, Write, batches, iterators
<1>2. KeptAlive'
  BY DEF IInv, TypeOK, KeptAlive, Iterated, Written, Write, batches, iterators
<1>3. ASSUME careful, NEW i \in Iterators PROVE AsListed(i)'
  BY <1>3, StaysListed DEF IInv, Write, batches, iterators
<1> QED
  BY <1>1, <1>2, <1>3 DEF IInv, Write

LEMMA WriteReturnKeeps == ASSUME IInv, NEW t \in Threads, WriteReturn(t) PROVE IInv'
<1>1. KeptAlive' /\ exists' \subseteq exists
  <2>1. Collect /\ program' \subseteq program
    BY DEF WriteReturn
  <2>2. \A i \in Iterators : over'[i] \in {over[i], None}
    BY DEF WriteReturn, iterators
  <2>3. \A u \in Threads : writing'[u] \in {writing[u], None}
    BY DEF IInv, TypeOK, WriteReturn
  <2> QED
    BY <2>1, <2>2, <2>3, CollectKeeps
<1>2. TypeOK'
  BY <1>1 DEF IInv, TypeOK, WriteReturn, Collect, iterators
<1>3. ASSUME careful, NEW i \in Iterators PROVE AsListed(i)'
  BY <1>3, StaysListed DEF IInv, WriteReturn, Collect, iterators
<1> QED
  BY <1>1, <1>2, <1>3 DEF IInv, WriteReturn

-------------------------------------------------------------------------------
\* Every step keeps the invariant.
LEMMA NextKeeps == ASSUME IInv, [Next]_vars PROVE IInv'
<1>1. ASSUME NEW b \in Batches, New(b, <<>>) PROVE IInv'
  <2>1. <<>> \in Seq(AllRecords)
    OBVIOUS
  <2> QED
    BY <1>1, <2>1, NewKeeps
<1>2. ASSUME NEW b \in Batches, NEW c \in program, New(b, records[c]) PROVE IInv'
  <2>1. records[c] \in Seq(AllRecords)
    BY DEF IInv, TypeOK
  <2> QED
    BY <1>2, <2>1, NewKeeps
<1>3. ASSUME NEW b \in Batches, NEW r \in Records \cup Ranges, Add(b, r) PROVE IInv'
  BY <1>3, AddKeeps DEF AllRecords
<1>4. CASE UNCHANGED vars
  BY <1>4 DEF vars, batches, iterators, IInv, TypeOK, KeptAlive, AsListed, Iterated,
              Written
<1> QED
  BY <1>1, <1>2, <1>3, <1>4, ForgetKeeps, ClearKeeps, IterKeeps, NextItemKeeps,
     ReleaseKeeps, WriteKeeps, WriteReturnKeeps DEF Next

LEMMA Invariant == Spec => []IInv
<1>1. IInv /\ [Next]_vars => IInv'
  BY NextKeeps
<1> QED
  BY InitIInv, <1>1, PTL DEF Spec

\* An iterator over a batch that is left alone gives the batch's records: what
\* WriteBatchIterator.__next__ copies is what put, merge and delete have put there.
THEOREM IteratorsGiveTheBatch == Spec => []GivesTheBatch
<1>1. IInv => GivesTheBatch
  BY DEF IInv, TypeOK, AsListed, GivesTheBatch
<1> QED
  BY Invariant, <1>1, PTL

\* No WriteBatch is deallocated under an iterator or a DB.write, whatever the program
\* lets go of.
THEOREM BatchesStay == Spec => []BatchesOutliveUse
<1>1. IInv => BatchesOutliveUse
  BY DEF IInv, KeptAlive, BatchesOutliveUse
<1> QED
  BY Invariant, <1>1, PTL
===============================================================================
