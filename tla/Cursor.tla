-------------------------------- MODULE Cursor --------------------------------
(***************************************************************************)
(* What an iterator of aimrocks promises to a thread that has it to        *)
(* itself: a place among the items, and one answer per call.  next() gives *)
(* the item at the place and goes on by one, on a reversed iterator goes   *)
(* back by one; get() looks; skip() goes on.  A move that fails is         *)
(* reported by the call that made it, which loses its item, and leaves the *)
(* iterator nowhere.                                                       *)
(***************************************************************************)
EXTENDS CursorCalls

VARIABLES place, answer

Move(op) ==
    /\ op # "get"
    /\ op \in Seeks \/ place \in Items
    /\ \/ place' \in Target(op, place) /\ answer' = Answer(op, Given(op, place))
       \/ place' = Nowhere /\ answer' = Answer(op, Error)

Look == /\ place \in Items
        /\ answer' = Answer("get", place)
        /\ UNCHANGED place

Exhausted(op) == /\ op \notin Seeks /\ place = Nowhere
                 /\ answer' = Answer(op, IF op \in Iterations THEN End ELSE Refused)
                 /\ UNCHANGED place

Init == place = Nowhere /\ answer = Answer("seek", Done)

Next == Look \/ \E op \in Methods : Move(op) \/ Exhausted(op)

Spec == Init /\ [][Next]_<<place, answer>>
===============================================================================
