---------------------------- MODULE MergeOperators ----------------------------
(***************************************************************************)
(* UintAddOperator and StringAppendOperator on one key.                    *)
(*                                                                         *)
(* RocksDB keeps the operands of merge() above the value they apply to,    *)
(* and calls the operator when it likes: for all of them when the key is   *)
(* read, in compactions for the lower ones with the value, or for two      *)
(* neighbours without it.  A value is a non-empty sequence, of one number  *)
(* or of the parts of a string between its commas.                         *)
(***************************************************************************)
EXTENDS Integers, Sequences

CONSTANTS
    Limit,      \* the first number that does not fit, 2^64 for format Q
    Letters,    \* parts of strings
    Nothing,    \* the part that is an empty string, or no number
    MaxOperands \* bound: operands of a key

ASSUME LimitAssumption == Limit \in Nat \ {0} /\ Nothing \notin Letters \cup 0..Limit

\* b''
Empty == <<Nothing>>

\* An existing value that is not there, and the result of a merge that fails.
Absent == <<>>
Failed == <<Nothing, Nothing>>

VARIABLES
    name,       \* of the operator: uint64add, stringappend
    empties,    \* does the program merge b''?
    value,      \* the key's value, or Absent
    operands,   \* above it
    history     \* the value and operands as the program gave them since the last put

vars == <<name, empties, value, operands, history>>

-------------------------------------------------------------------------------
(* The operators: None and b'' count as no existing value *)

\* unpack raises for b'', pack for what does not fit in 64 bits.
UintAdd(existing, operand) ==
    IF existing \in {Absent, Empty} THEN operand
    ELSE IF operand = Empty \/ existing[1] + operand[1] >= Limit THEN Failed
    ELSE <<existing[1] + operand[1]>>

StringAppend(existing, operand) ==
    IF existing \in {Absent, Empty} THEN operand ELSE existing \o operand

\* merge_callback: an exception is a merge that failed, as (False, ...) is.
Merge(op, existing, operand) ==
    IF op = "uint64add" THEN UintAdd(existing, operand)
    ELSE StringAppend(existing, operand)

\* The first that fails ends it.
Applied(op, v, o) == IF v = Failed THEN Failed ELSE Merge(op, v, o)

FullMerge(op, existing, list) ==
    LET after[n \in 0..Len(list)] ==
            IF n = 0 THEN existing ELSE Applied(op, after[n - 1], list[n])
    IN  after[Len(list)]

\* What get() finds.
Read(key) == FullMerge(name, key.value, key.operands)

Key(v, list) == [value |-> v, operands |-> list]

-------------------------------------------------------------------------------
Values == {Empty} \cup (IF name = "uint64add" THEN {<<n>> : n \in 0..Limit - 1}
                        ELSE {<<letter>> : letter \in Letters})

\* put(), or delete().
Put(v) ==
    /\ value' = v
    /\ operands' = <<>>
    /\ history' = Key(v, <<>>)
    /\ UNCHANGED <<name, empties>>

DoMerge(o) ==
    /\ Len(history.operands) < MaxOperands
    /\ empties \/ o # Empty
    /\ operands' = Append(operands, o)
    /\ history' = Key(history.value, Append(history.operands, o))
    /\ UNCHANGED <<name, empties, value>>

\* A compaction applies the first n operands to the value.
CompactDown(n) ==
    LET v == FullMerge(name, value, SubSeq(operands, 1, n))
    IN  /\ v # Failed
        /\ value' = v
        /\ operands' = SubSeq(operands, n + 1, Len(operands))
        /\ UNCHANGED <<name, empties, history>>

\* Wrong: the right operand comes first.
CompactPair_Swapped(n) ==
    LET o == Merge(name, operands[n + 1], operands[n])
    IN  /\ o # Failed
        /\ operands' = SubSeq(operands, 1, n - 1) \o <<o>>
                           \o SubSeq(operands, n + 2, Len(operands))
        /\ UNCHANGED <<name, empties, value, history>>

\* A compaction that does not see the value merges the n-th operand and the next.  Where
\* that fails they stay.
CompactPair(n) ==
    LET o == Merge(name, operands[n], operands[n + 1])
    IN  /\ o # Failed
        /\ operands' = SubSeq(operands, 1, n - 1) \o <<o>>
                           \o SubSeq(operands, n + 2, Len(operands))
        /\ UNCHANGED <<name, empties, value, history>>

Init ==
    /\ name \in {"uint64add", "stringappend"}
    /\ empties \in BOOLEAN
    /\ value = Absent
    /\ operands = <<>>
    /\ history = Key(Absent, <<>>)

Next ==
    \/ \E v \in Values \cup {Absent} : Put(v)
    \/ \E o \in Values : DoMerge(o)
    \/ \E n \in 1..Len(operands) : CompactDown(n)
    \/ \E n \in 1..Len(operands) - 1 : CompactPair(n)

Spec == Init /\ [][Next]_vars

-------------------------------------------------------------------------------
(* Properties *)

\* Whatever RocksDB has merged by itself, a key reads as if the operator had been applied
\* to the operands one by one, in their order, and fails to be read if that fails.
\* This is so of operands that are not empty.
CompactionsDoNotShow == ~empties => Read(Key(value, operands)) = Read(history)
===============================================================================
