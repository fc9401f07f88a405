-------------------------- MODULE MCCallbackOwnership --------------------------
(* Values for the constants of CallbackOwnership. *)
EXTENDS CallbackOwnership, TLC

Interchangeable == Permutations(Options) \cup Permutations(Callbacks)
==============================================================================
