------------------------------- MODULE WriteBatch -------------------------------
(***************************************************************************)
(* Batches, the iterators over them, and DB.write.                         *)
(*                                                                         *)
(* An iterator lists the records of its batch when it is made: the kind of *)
(* each, and slices into the buffer of the batch for its key and value.    *)
(* The bytes are copied when the record is reached.  By then the batch may *)
(* have got more records, in place or in a new buffer, or have been        *)
(* cleared, which leaves the bytes until others are put there.  DB.write   *)
(* reads the batch without the GIL.                                        *)
(***************************************************************************)
EXTENDS Integers, Sequences

CONSTANTS
    Batches,    \* WriteBatch objects
    Iterators,  \* WriteBatchIterator objects
    Threads,    \* those that write batches
    Records,    \* put, merge and delete records
    Ranges,     \* delete_range records
    MaxRecords, \* bound: records of a batch
    None

ASSUME BatchAssumption == None \notin Batches /\ Records \cap Ranges = {}

VARIABLES
    careful,  \* does the program leave a batch alone while it is iterated or written?
    program,  \* the batches the program refers to
    exists,   \* the batches that have a C++ batch
    records,  \* what is in the batch
    over,     \* the batch of an iterator
    items,    \* the records it lists
    intact,   \* those of them, by number, whose bytes are where they were
    pos,      \* how many it has given
    given,    \* what it has given
    writing   \* the batch a thread writes

batches == <<exists, records>>
iterators == <<over, items, intact, pos, given>>
vars == <<careful, program, batches, iterators, writing>>

-------------------------------------------------------------------------------
(* References *)

Iterated(b) == \E i \in Iterators : over[i] = b

Written(b) == \E t \in Threads : writing[t] = b

\* Wrong: an iterator has the pointer to the C++ batch only.
Referenced_NotByIterators(b) == b \in program' \/ \E t \in Threads : writing'[t] = b

\* After a step.
Referenced(b) == \/ b \in program'
                 \/ \E i \in Iterators : over'[i] = b
                 \/ \E t \in Threads : writing'[t] = b

\* __dealloc__ of the batches that nothing refers to.
Collect == /\ exists' = {b \in exists : Referenced(b)}
           /\ UNCHANGED records

-------------------------------------------------------------------------------
(* Batches *)

\* WriteBatch(), and WriteBatch(data) with the data() of another batch.
New(b, content) ==
    /\ b \notin exists
    /\ program' = program \cup {b}
    /\ exists' = exists \cup {b}
    /\ records' = [records EXCEPT ![b] = content]
    /\ UNCHANGED <<careful, iterators, writing>>

Forget(b) ==
    /\ b \in program
    /\ program' = program \ {b}
    /\ UNCHANGED <<careful, iterators, writing>>
    /\ Collect

Touch(b) == /\ b \in program
            /\ careful => ~Iterated(b) /\ ~Written(b)
            /\ UNCHANGED <<careful, program, exists, over, items, pos, given, writing>>

\* The slices of b that stay what they were.
Keep(b, numbers) == intact' = [i \in Iterators |-> IF over[i] = b THEN intact[i] \cap numbers
                                                   ELSE intact[i]]

\* put, merge, delete_single, delete_range.  The n-th record comes in place of what the
\* n-th and later ones had been before a clear(), or everything moves.
Add(b, r) ==
    /\ Touch(b)
    /\ Len(records[b]) < MaxRecords
    /\ records' = [records EXCEPT ![b] = Append(@, r)]
    /\ \E numbers \in {{}, 1..Len(records[b])} : Keep(b, numbers)

\* The buffer stays.
Clear(b) ==
    /\ Touch(b)
    /\ records' = [records EXCEPT ![b] = <<>>]
    /\ UNCHANGED intact

-------------------------------------------------------------------------------
(* Iterators *)

HasRange(b) == \E n \in DOMAIN records[b] : records[b][n] \in Ranges

List(i, b, content) ==
    /\ over' = [over EXCEPT ![i] = b]
    /\ items' = [items EXCEPT ![i] = content]
    /\ intact' = [intact EXCEPT ![i] = DOMAIN content]
    /\ pos' = [pos EXCEPT ![i] = 0]
    /\ given' = [given EXCEPT ![i] = <<>>]

\* Wrong: the handler passes over what it has no method for.
Iter_SkipsRanges(i, b) ==
    /\ over[i] = None /\ b \in program
    /\ List(i, b, SelectSeq(records[b], LAMBDA r : r \in Records))
    /\ UNCHANGED <<careful, program, batches, writing>>

\* The record handler has no method for delete_range: listing such a batch raises.
Iter(i, b) ==
    /\ over[i] = None /\ b \in program
    /\ ~HasRange(b)
    /\ List(i, b, records[b])
    /\ UNCHANGED <<careful, program, batches, writing>>

\* What slice_to_bytes copies.
Bytes(i, n) == IF n \in intact[i] /\ over[i] \in exists THEN items[i][n] ELSE None

\* __next__, where the iterator is not at its end.
NextItem(i) ==
    /\ over[i] # None
    /\ pos[i] # Len(items[i])
    /\ pos' = [pos EXCEPT ![i] = @ + 1]
    /\ given' = [given EXCEPT ![i] = Append(@, Bytes(i, pos[i] + 1))]
    /\ UNCHANGED <<careful, program, batches, over, items, intact, writing>>

\* The iterator is dismissed, in the end or before.
Release(i) ==
    /\ over[i] # None
    /\ over' = [over EXCEPT ![i] = None]
    /\ items' = [items EXCEPT ![i] = <<>>]
    /\ intact' = [intact EXCEPT ![i] = {}]
    /\ pos' = [pos EXCEPT ![i] = 0]
    /\ given' = [given EXCEPT ![i] = <<>>]
    /\ UNCHANGED <<careful, program, writing>>
    /\ Collect

-------------------------------------------------------------------------------
(* DB.write *)

Write(t, b) ==
    /\ writing[t] = None
    /\ b \in program
    /\ writing' = [writing EXCEPT ![t] = b]
    /\ UNCHANGED <<careful, program, batches, iterators>>

WriteReturn(t) ==
    /\ writing[t] # None
    /\ writing' = [writing EXCEPT ![t] = None]
    /\ UNCHANGED <<careful, program, iterators>>
    /\ Collect

-------------------------------------------------------------------------------
Init ==
    /\ careful \in BOOLEAN
    /\ program = {}
    /\ exists = {}
    /\ records = [b \in Batches |-> <<>>]
    /\ over = [i \in Iterators |-> None]
    /\ items = [i \in Iterators |-> <<>>]
    /\ intact = [i \in Iterators |-> {}]
    /\ pos = [i \in Iterators |-> 0]
    /\ given = [i \in Iterators |-> <<>>]
    /\ writing = [t \in Threads |-> None]

Next ==
    \/ \E b \in Batches :
           \/ New(b, <<>>) \/ \E c \in program : New(b, records[c])
           \/ Forget(b) \/ Clear(b)
           \/ \E r \in Records \cup Ranges : Add(b, r)
           \/ \E i \in Iterators : Iter(i, b)
           \/ \E t \in Threads : Write(t, b)
    \/ \E i \in Iterators : NextItem(i) \/ Release(i)
    \/ \E t \in Threads : WriteReturn(t)

Spec == Init /\ [][Next]_vars

-------------------------------------------------------------------------------
(* Properties *)

\* Iterating a batch gives its records, all of them and as they were put, when nobody
\* changes the batch meanwhile: also when the program lets go of the batch, and of a
\* batch with delete_range records rather nothing than a part.
GivesTheBatch ==
    careful => \A i \in Iterators : over[i] # None =>
                   /\ Len(items[i]) = Len(records[over[i]])
                   /\ Len(given[i]) = pos[i]
                   /\ \A n \in 1..pos[i] : given[i][n] = records[over[i]][n]

\* Whatever the program does, nobody works on a C++ batch that has been deleted: nothing
\* but the program refers to the batch in the middle of an iteration or of a write.
BatchesOutliveUse == \A b \in Batches : Iterated(b) \/ Written(b) => b \in exists
===============================================================================
