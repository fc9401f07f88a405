------------------------------ MODULE CursorCalls ------------------------------
(***************************************************************************)
(* The methods of an iterator, what they may answer, and where they leave  *)
(* an iterator over the items 1..N of a column family, in key order.       *)
(***************************************************************************)
EXTENDS Integers

CONSTANT N

ASSUME ItemsAssumption == N \in Nat

Items == 1..N
Nowhere == 0        \* not Valid()

\* How a call ends that gives no item.
Done == 0           \* skip, seek
End == -1           \* None or StopIteration
Refused == -2       \* ValueError
Error == -3         \* the exception of a status
Garbage == -4       \* bytes that were no longer those of the item

\* next(), and __next__ of a reversed iterator.
Iterations == {"next", "prev"}

\* "seek" stands for seek() and seek_for_prev() with any key.
Seeks == {"seek_to_first", "seek_to_last", "seek"}
Methods == Iterations \cup {"get", "skip"} \cup Seeks

Answer(op, is) == [op |-> op, is |-> is]

OrNowhere(p) == IF p \in Items THEN p ELSE Nowhere

\* Where a call that moves leaves an iterator that was at p.
Target(op, p) ==
    CASE op \in {"next", "skip"}    -> {OrNowhere(p + 1)}
      [] op = "prev"                -> {OrNowhere(p - 1)}
      [] op = "seek_to_first"       -> {OrNowhere(1)}
      [] op = "seek_to_last"        -> {N}
      [] OTHER                      -> Items \cup {Nowhere}

\* What such a call returns.
Given(op, p) == IF op \in Iterations THEN p ELSE Done
===============================================================================
