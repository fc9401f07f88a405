---------------------------- MODULE IteratorCursor ----------------------------
(***************************************************************************)
(* An iterator object, its C++ cursor, and the reversed iterators that     *)
(* share it.  A call asks Valid() under the GIL, releases it to read the   *)
(* key or value, takes it to copy the slice, releases it to move the       *)
(* cursor, and takes it to look at the status.  Another thread that uses   *)
(* the same iterator comes in between.                                     *)
(***************************************************************************)
EXTENDS CursorCalls

CONSTANT Threads

VARIABLES
    shared,     \* do several threads use the iterator at a time?
    pos,        \* the C++ cursor: an item, or nowhere
    bad,        \* the C++ status is an error
    frame,      \* the call each thread is in
    answer      \* the last call that ended, and what it returned or raised

vars == <<shared, pos, bad, frame, answer>>

-------------------------------------------------------------------------------
(* Calls *)

\* item: what the slice refers to; fresh: the cursor has not moved since.
Call(at, op, item, fresh) == [at |-> at, op |-> op, item |-> item, fresh |-> fresh]

Idle == Call("idle", "seek", Done, TRUE)

Valid == pos \in Items

Leave(t, is) == /\ frame' = [frame EXCEPT ![t] = Idle]
                /\ answer' = Answer(frame[t].op, is)

\* A call that ends at once.
Refuse(op, is) == /\ answer' = Answer(op, is)
                  /\ UNCHANGED <<shared, pos, bad, frame>>

Enter(t) ==
    /\ frame[t].at = "idle"
    /\ shared \/ \A u \in Threads : frame[u].at = "idle"

Begin(t, op, at) ==
    /\ frame' = [frame EXCEPT ![t] = Call(at, op, Done, TRUE)]
    /\ UNCHANGED <<shared, pos, bad, answer>>

\* next(), and __next__ of a reversed iterator.
Iterate(t, op) ==
    /\ op \in Iterations
    /\ Enter(t)
    /\ IF Valid THEN Begin(t, op, "read") ELSE Refuse(op, End)

\* Wrong: get() does not ask Valid().
Get_Unchecked(t) == Enter(t) /\ Begin(t, "get", "read")

Get(t) == /\ Enter(t)
          /\ IF Valid THEN Begin(t, "get", "read") ELSE Refuse("get", Refused)

Skip(t) == /\ Enter(t)
           /\ IF Valid THEN Begin(t, "skip", "move") ELSE Refuse("skip", Refused)

Seek(t, op) == /\ op \in Seeks
               /\ Enter(t)
               /\ Begin(t, op, "move")

-------------------------------------------------------------------------------
(* Inside a call *)

\* get_ob, without the GIL: key() and value() of a cursor that is not valid give
\* anything.
Read(t) ==
    /\ frame[t].at = "read"
    /\ frame' = [frame EXCEPT ![t] = Call("copy", @.op, pos, Valid)]
    /\ UNCHANGED <<shared, pos, bad, answer>>

\* What the copy of the slice gives.
Copied(t) == IF frame[t].fresh THEN frame[t].item ELSE Garbage

\* get_ob, from the status to the Python object.
Copy(t) ==
    /\ frame[t].at = "copy"
    /\ \/ bad /\ Leave(t, Error)
       \/ ~bad /\ frame[t].op = "get" /\ Leave(t, Copied(t))
       \/ /\ ~bad /\ frame[t].op # "get"
          /\ frame' = [frame EXCEPT ![t] = Call("move", @.op, Copied(t), TRUE)]
          /\ UNCHANGED answer
    /\ UNCHANGED <<shared, pos, bad>>

\* The slices that other threads hold are those of the item that was left.
Moved(t) ==
    frame' = [u \in Threads |->
                 IF u = t THEN Call("check", frame[t].op, frame[t].item, TRUE)
                 ELSE Call(frame[u].at, frame[u].op, frame[u].item,
                           frame[u].at # "copy" /\ frame[u].fresh)]

\* A cursor that is not valid goes anywhere when it is moved by one.
Landing(op) == IF Valid \/ op \in Seeks THEN Target(op, pos) ELSE Items \cup {Nowhere}

MoveInCpp(t) ==
    /\ frame[t].at = "move"
    /\ \/ pos' \in Landing(frame[t].op) /\ bad' = FALSE
       \/ pos' = Nowhere /\ bad' = TRUE
    /\ Moved(t)
    /\ UNCHANGED <<shared, answer>>

\* Wrong: next() does not look at the status after the move.
Check_Ignored(t) ==
    /\ frame[t].at = "check"
    /\ Leave(t, frame[t].item)
    /\ UNCHANGED <<shared, pos, bad>>

\* check_status after the move, and the return.
Check(t) ==
    /\ frame[t].at = "check"
    /\ Leave(t, IF bad THEN Error ELSE frame[t].item)
    /\ UNCHANGED <<shared, pos, bad>>

-------------------------------------------------------------------------------
Init ==
    /\ shared \in BOOLEAN
    /\ pos = Nowhere
    /\ bad = FALSE
    /\ frame = [t \in Threads |-> Idle]
    /\ answer = Answer("seek", Done)

Next ==
    \E t \in Threads :
        \/ \E op \in Methods : Iterate(t, op) \/ Seek(t, op)
        \/ Get(t) \/ Skip(t)
        \/ Read(t) \/ Copy(t) \/ MoveInCpp(t) \/ Check(t)

Spec == Init /\ [][Next]_vars

-------------------------------------------------------------------------------
(* Properties *)

\* A thread that has the iterator to itself copies only bytes that are there, and
\* moves the cursor only from an item.
ReadsTheItem ==
    ~shared =>
        \A t \in Threads :
            /\ frame[t].at = "copy" => frame[t].fresh /\ frame[t].item = pos
            /\ frame[t].at = "move" /\ frame[t].op \notin Seeks => Valid

-------------------------------------------------------------------------------
(* Refinement *)

\* Threads that share an iterator get items out of order, twice or not at all; the
\* calls of a thread that has it to itself are those of Cursor.  The call happens
\* when the cursor is moved; its answer is then the one that it will give.
Moving == {t \in Threads : frame[t].at = "check"}

Promised == IF Moving = {} THEN answer
            ELSE LET t == CHOOSE t \in Moving : TRUE
                 IN  Answer(frame[t].op, IF bad THEN Error ELSE frame[t].item)

Promise == INSTANCE Cursor WITH
               place <- IF shared THEN Nowhere ELSE pos,
               answer <- IF shared THEN Answer("seek", Done) ELSE Promised

\* An iterator that one thread at a time uses gives every item once and in order,
\* forwards and backwards, and reports every move that fails, once.
OneItemPerCall == Promise!Spec
===============================================================================
