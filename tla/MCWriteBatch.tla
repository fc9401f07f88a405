----------------------------- MODULE MCWriteBatch -----------------------------
(* Values for TLC. *)
EXTENDS WriteBatch, TLC

Interchangeable == Permutations(Batches) \cup Permutations(Iterators)
                       \cup Permutations(Threads)
===============================================================================
