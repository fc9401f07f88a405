---------------------------- MODULE MCDBLifecycle ----------------------------
(* Values for the constants of DBLifecycle. *)
EXTENDS DBLifecycle

CONSTANTS o1, o2, c1, c2

\* DB(name, opts), DB(name, opts, {b"x": c1}) and DB(name, opts, {b"default": c1}).
SomeFamilies == {<<None>>, <<None, c1>>, <<c1>>}

NoLiberty == {}
Sharing == {"share"}
NotClosing == {"share", "race", "foreign"}
AllLiberties == {"share", "race", "foreign", "close"}

NoFailure == {}
DropMayFail == {"drop"}
AllFailures == {"reject", "open", "create", "drop"}

Interchangeable == Permutations(Threads) \cup Permutations(DBs)
                     \cup Permutations(Handles) \cup Permutations(Children)
==============================================================================
