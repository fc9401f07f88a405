---------------------------- MODULE MCDurableStore ----------------------------
(* Values for TLC. *)
EXTENDS DurableStore, TLC

Interchangeable == Permutations(Threads)
===============================================================================
