------------------------------ MODULE OptionLease ------------------------------
(***************************************************************************)
(* What in_use promises of ColumnFamilyOptions.  An options object is free *)
(* until a call claims it for the column families it makes.  The database  *)
(* uses it from the end of that call until the family is dropped or the    *)
(* database closed, and only that frees it.  What a call that fails had    *)
(* claimed is lost: nobody uses it, and nobody can claim it again.         *)
(***************************************************************************)
CONSTANTS
    Options,    \* ColumnFamilyOptions objects
    Calls,      \* calls that may be under way
    Databases

VARIABLE lease

Free == <<"free">>
Claimed(t) == <<"claimed", t>>
Used(d) == <<"used", d>>
Lost == <<"lost">>

Leased(l) == {c \in Options : lease[c] = l}

Becomes(cs, l) == lease' = [c \in Options |-> IF c \in cs THEN l ELSE lease[c]]

Claim(t, cs) == /\ cs \subseteq Leased(Free)
                /\ Leased(Claimed(t)) = {}
                /\ Becomes(cs, Claimed(t))

\* The call raises after it has claimed them.
Reject(cs) == cs \subseteq Leased(Free) /\ Becomes(cs, Lost)

Fail(t) == Becomes(Leased(Claimed(t)), Lost)

Deliver(t, d) == Becomes(Leased(Claimed(t)), Used(d))

GiveBack(d, cs) == cs \subseteq Leased(Used(d)) /\ Becomes(cs, Free)

Init == lease = [c \in Options |-> Free]

Next ==
    \/ \E cs \in SUBSET Options :
          \/ \E t \in Calls : Claim(t, cs)
          \/ Reject(cs)
          \/ \E d \in Databases : GiveBack(d, cs)
    \/ \E t \in Calls : Fail(t) \/ \E d \in Databases : Deliver(t, d)

Spec == Init /\ [][Next]_lease
===============================================================================
