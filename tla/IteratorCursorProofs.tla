-------------------------- MODULE IteratorCursorProofs --------------------------
(***************************************************************************)
(* For any number of threads and items: a thread that has the iterator to  *)
(* itself reads the item the cursor is at, and the iterator implements     *)
(* Cursor.  The invariant adds what a call has found out before it         *)
(* released the GIL, and that no other call came in between.               *)
(***************************************************************************)
EXTENDS IteratorCursor, TLAPS

Results == Items \cup {Done, End, Refused, Error, Garbage}

\* Types; a status that is an error goes with a cursor that is not valid.
TypeOK ==
    /\ shared \in BOOLEAN
    /\ pos \in Items \cup {Nowhere}
    /\ bad \in BOOLEAN
    /\ frame \in [Threads -> [at : {"idle", "read", "copy", "move", "check"},
                              op : Methods, item : Results, fresh : BOOLEAN]]
    /\ answer \in [op : Methods, is : Results]
    /\ bad => pos = Nowhere

\* One call at a time.
Alone == \A t, u \in Threads : frame[t].at # "idle" /\ frame[u].at # "idle" => t = u

\* What a call that is alone knows of the cursor.
Knows(t) ==
    /\ frame[t].at = "read" => Valid /\ frame[t].op \in Iterations \cup {"get"}
    /\ frame[t].at = "copy" => /\ Valid /\ frame[t].op \in Iterations \cup {"get"}
                               /\ frame[t].fresh /\ frame[t].item = pos
    /\ frame[t].at = "move" => /\ frame[t].op # "get"
                               /\ frame[t].op \notin Seeks => Valid
                               /\ frame[t].item = Given(frame[t].op, pos)

IInv == TypeOK /\ (~shared => Alone /\ \A t \in Threads : Knows(t))

USE ItemsAssumption

-------------------------------------------------------------------------------
(* Types *)

Frames == [at : {"idle", "read", "copy", "move", "check"}, op : Methods,
           item : Results, fresh : BOOLEAN]

\* What the constructors of frames and answers build.
LEMMA CallTyped ==
  ASSUME NEW at \in {"idle", "read", "copy", "move", "check"}, NEW op \in Methods,
         NEW item \in Results, NEW fresh \in BOOLEAN
  PROVE  /\ Call(at, op, item, fresh) \in Frames
         /\ Call(at, op, item, fresh).at = at
         /\ Call(at, op, item, fresh).op = op
         /\ Call(at, op, item, fresh).item = item
         /\ Call(at, op, item, fresh).fresh = fresh
BY DEF Call, Frames

LEMMA FrameTyped ==
  ASSUME TypeOK, NEW t \in Threads
  PROVE  /\ frame[t] \in Frames
         /\ frame[t].at \in {"idle", "read", "copy", "move", "check"}
         /\ frame[t].op \in Methods
         /\ frame[t].item \in Results
         /\ frame[t].fresh \in BOOLEAN
BY DEF TypeOK, Frames

LEMMA AnswerTyped ==
  ASSUME NEW op \in Methods, NEW is \in Results
  PROVE  Answer(op, is) \in [op : Methods, is : Results]
BY DEF Answer

LEMMA IdleTyped == Idle \in Frames /\ Idle.at = "idle"
<1>1. "seek" \in Methods /\ Done \in Results
    BY DEF Methods, Seeks, Results
<1> QED
    BY <1>1 DEF Idle, Call, Frames

\* A move leaves the iterator at an item or nowhere.
LEMMA TargetTyped ==
  ASSUME NEW op \in Methods, NEW p
  PROVE  Target(op, p) \subseteq Items \cup {Nowhere}
<1>1. \A q : OrNowhere(q) \in Items \cup {Nowhere}
    BY DEF OrNowhere
<1>2. N \in Items \cup {Nowhere}
    BY DEF Items, Nowhere
<1> QED
    BY <1>1, <1>2 DEF Target

LEMMA GivenTyped ==
  ASSUME NEW op \in Methods, NEW p \in Items
  PROVE  Given(op, p) \in Results
BY DEF Given, Results

\* Every step keeps the types.
LEMMA TypesKept ==
  ASSUME TypeOK, [Next]_vars
  PROVE  TypeOK'
<1> USE DEF TypeOK
<1>0. /\ {Done, End, Refused, Error, Garbage} \subseteq Results
      /\ Items \subseteq Results
      /\ Iterations \cup Seeks \cup {"get", "skip"} = Methods
    BY DEF Results, Methods
<1>1. ASSUME NEW t \in Threads, NEW op \in Methods, NEW at \in {"read", "move"},
             Begin(t, op, at)
      PROVE  TypeOK'
    <2>1. Call(at, op, Done, TRUE) \in Frames
        BY <1>0, CallTyped
    <2> QED
        BY <1>1, <2>1 DEF Begin, Frames
<1>2. ASSUME NEW op \in Methods, NEW is \in Results, Refuse(op, is)
      PROVE  TypeOK'
    BY <1>2, AnswerTyped DEF Refuse
<1>3. ASSUME NEW t \in Threads, NEW is \in Results, Leave(t, is),
             UNCHANGED <<shared, pos, bad>>
      PROVE  TypeOK'
    <2>1. Answer(frame[t].op, is) \in [op : Methods, is : Results]
        BY FrameTyped, AnswerTyped
    <2> QED
        BY <1>3, <2>1, IdleTyped DEF Leave, Frames
<1>4. ASSUME NEW t \in Threads, NEW op \in Methods, Iterate(t, op) \/ Seek(t, op)
      PROVE  TypeOK'
    BY <1>0, <1>1, <1>2, <1>4 DEF Iterate, Seek
<1>5. ASSUME NEW t \in Threads, Get(t) \/ Skip(t)
      PROVE  TypeOK'
    BY <1>0, <1>1, <1>2, <1>5 DEF Get, Skip
<1>6. ASSUME NEW t \in Threads, Read(t)
      PROVE  TypeOK'
    <2>0. pos \in Results /\ Valid \in BOOLEAN
        BY DEF Valid, Results, Nowhere, Done
    <2>1. Call("copy", frame[t].op, pos, Valid) \in Frames
        BY <2>0, FrameTyped, CallTyped
    <2> QED
        BY <1>6, <2>1 DEF Read, Frames
<1>7. ASSUME NEW t \in Threads, Copy(t)
      PROVE  TypeOK'
    <2>1. Copied(t) \in Results
        BY <1>0, FrameTyped DEF Copied
    <2>2. Call("move", frame[t].op, Copied(t), TRUE) \in Frames
        BY <2>1, FrameTyped, CallTyped
    <2>3. CASE bad /\ Leave(t, Error)
        BY <1>0, <1>3, <1>7, <2>3 DEF Copy
    <2>4. CASE frame[t].op = "get" /\ Leave(t, Copied(t))
        BY <1>3, <1>7, <2>1, <2>4 DEF Copy
    <2>5. CASE /\ frame' = [frame EXCEPT ![t] = Call("move", @.op, Copied(t), TRUE)]
               /\ UNCHANGED answer
        BY <1>7, <2>2, <2>5 DEF Copy, Frames
    <2> QED
        BY <1>7, <2>3, <2>4, <2>5 DEF Copy
<1>8. ASSUME NEW t \in Threads, MoveInCpp(t)
      PROVE  TypeOK'
    <2>1. pos' \in Items \cup {Nowhere} /\ bad' \in BOOLEAN /\ (bad' => pos' = Nowhere)
        BY <1>8, TargetTyped, FrameTyped DEF MoveInCpp, Landing
    <2>2. \A u \in Threads : frame'[u] \in Frames
        BY <1>8, FrameTyped, CallTyped DEF MoveInCpp, Moved
    <2>3. frame' \in [Threads -> Frames]
        BY <1>8, <2>2 DEF MoveInCpp, Moved
    <2> QED
        BY <1>8, <2>1, <2>3 DEF MoveInCpp, Frames
<1>9. ASSUME NEW t \in Threads, Check(t)
      PROVE  TypeOK'
    <2>1. (IF bad THEN Error ELSE frame[t].item) \in Results
        BY <1>0, FrameTyped
    <2> QED
        BY <1>3, <1>9, <2>1 DEF Check
<1>10. CASE UNCHANGED vars
    BY <1>10 DEF vars
<1> QED
    BY <1>4, <1>5, <1>6, <1>7, <1>8, <1>9, <1>10 DEF Next
-------------------------------------------------------------------------------
(* What a call that is alone knows *)

LEMMA InitIInv == Init => IInv
<1> SUFFICES ASSUME Init PROVE IInv
    OBVIOUS
<1>1. "seek" \in Methods /\ Done \in Results
    BY DEF Methods, Seeks, Results
<1>2. answer \in [op : Methods, is : Results]
    BY <1>1, AnswerTyped DEF Init
<1>3. TypeOK
    BY <1>2, IdleTyped DEF Init, TypeOK, Frames, Nowhere
<1>4. \A t \in Threads : frame[t].at = "idle"
    BY IdleTyped DEF Init
<1> QED
    BY <1>3, <1>4 DEF IInv, Alone, Knows

\* If the others are idle after a step of t, only what t knows is left to show.
LEMMA OthersIdle ==
  ASSUME NEW t \in Threads,
         \A u \in Threads \ {t} : frame'[u].at = "idle",
         Knows(t)'
  PROVE  Alone' /\ \A u \in Threads : Knows(u)'
BY DEF Alone, Knows

\* Only the thread that makes the step is in a call, before and after.
LEMMA AloneKept ==
  ASSUME IInv, ~shared, [Next]_vars
  PROVE  /\ ~shared'
         /\ Alone' /\ \A t \in Threads : Knows(t)'
<1> USE DEF IInv
<1>1. ~shared'
    BY DEF Next, vars, Iterate, Seek, Get, Skip, Read, Copy, MoveInCpp, Check, Begin, Refuse
<1>2. ASSUME NEW t \in Threads, frame[t].at # "idle"
      PROVE  \A u \in Threads \ {t} : frame[u].at = "idle"
    BY <1>2 DEF Alone
<1>3. ASSUME NEW t \in Threads, NEW op \in Methods, NEW at \in {"read", "move"},
             Enter(t), Begin(t, op, at),
             at = "read" => Valid /\ op \in Iterations \cup {"get"},
             at = "move" => op \in Seeks \/ (op = "skip" /\ Valid)
      PROVE  Alone' /\ \A u \in Threads : Knows(u)'
    <2>1. /\ Call(at, op, Done, TRUE).at = at
          /\ Call(at, op, Done, TRUE).op = op
          /\ Call(at, op, Done, TRUE).item = Done
        BY DEF Call
    <2>2. frame'[t] = Call(at, op, Done, TRUE) /\ pos' = pos
        BY <1>3 DEF Begin, TypeOK
    <2>3. \A u \in Threads \ {t} : frame'[u].at = "idle"
        BY <1>3 DEF Begin, Enter, TypeOK
    <2>4. at = "move" => op \notin Iterations \cup {"get"}
        BY <1>3 DEF Iterations, Seeks
    <2>5. Knows(t)'
        BY <1>3, <2>1, <2>2, <2>4 DEF Knows, Valid, Given
    <2> QED
        BY <2>3, <2>5, OthersIdle
<1>4. ASSUME NEW t \in Threads, frame[t].at # "idle",
             frame' = [frame EXCEPT ![t] = Idle]
      PROVE  Alone' /\ \A u \in Threads : Knows(u)'
    <2>1. \A u \in Threads : frame'[u].at = "idle"
        BY <1>2, <1>4, IdleTyped DEF TypeOK
    <2> QED
        BY <2>1 DEF Alone, Knows
<1>5. ASSUME NEW t \in Threads, NEW op \in Methods, NEW is, Refuse(op, is)
      PROVE  Alone' /\ \A u \in Threads : Knows(u)'
    BY <1>5 DEF Refuse, Alone, Knows, Valid
<1>6. ASSUME NEW t \in Threads, NEW op \in Methods, Iterate(t, op) \/ Seek(t, op)
      PROVE  Alone' /\ \A u \in Threads : Knows(u)'
    BY <1>3, <1>5, <1>6 DEF Iterate, Seek
<1>7. ASSUME NEW t \in Threads, Get(t) \/ Skip(t)
      PROVE  Alone' /\ \A u \in Threads : Knows(u)'
    <2>1. {"get", "skip"} \subseteq Methods
        BY DEF Methods
    <2> QED
        BY <1>3, <1>5, <1>7, <2>1 DEF Get, Skip
<1>8. ASSUME NEW t \in Threads, Read(t)
      PROVE  Alone' /\ \A u \in Threads : Knows(u)'
    <2>1. /\ Call("copy", frame[t].op, pos, Valid).at = "copy"
          /\ Call("copy", frame[t].op, pos, Valid).op = frame[t].op
          /\ Call("copy", frame[t].op, pos, Valid).item = pos
          /\ Call("copy", frame[t].op, pos, Valid).fresh = Valid
        BY DEF Call
    <2>2. frame'[t] = Call("copy", frame[t].op, pos, Valid) /\ pos' = pos
        BY <1>8 DEF Read, TypeOK
    <2>3. \A u \in Threads \ {t} : frame'[u].at = "idle"
        BY <1>2, <1>8 DEF Read, TypeOK
    <2>4. Valid /\ Valid' /\ frame[t].op \in Iterations \cup {"get"}
        BY <1>8, <2>2 DEF Read, Knows, Valid
    <2>5. Knows(t)'
        BY <2>1, <2>2, <2>4 DEF Knows
    <2> QED
        BY <2>3, <2>5, OthersIdle
<1>9. ASSUME NEW t \in Threads, Copy(t)
      PROVE  Alone' /\ \A u \in Threads : Knows(u)'
    <2>1. CASE frame' = [frame EXCEPT ![t] = Idle]
        BY <1>4, <1>9, <2>1 DEF Copy
    <2>2. CASE /\ frame[t].op # "get"
               /\ frame' = [frame EXCEPT ![t] = Call("move", @.op, Copied(t), TRUE)]
        <3>1. /\ Call("move", frame[t].op, Copied(t), TRUE).at = "move"
              /\ Call("move", frame[t].op, Copied(t), TRUE).op = frame[t].op
              /\ Call("move", frame[t].op, Copied(t), TRUE).item = Copied(t)
            BY DEF Call
        <3>2. /\ frame'[t] = Call("move", frame[t].op, Copied(t), TRUE)
              /\ pos' = pos
            BY <1>9, <2>2 DEF Copy, TypeOK
        <3>3. \A u \in Threads \ {t} : frame'[u].at = "idle"
            BY <1>2, <1>9, <2>2 DEF Copy, TypeOK
        <3>4. /\ Valid /\ Valid' /\ frame[t].op \in Iterations
              /\ Copied(t) = pos
            BY <1>9, <2>2, <3>2 DEF Copy, Copied, Knows, Valid
        <3>5. Knows(t)'
            BY <2>2, <3>1, <3>2, <3>4 DEF Knows, Given
        <3> QED
            BY <3>3, <3>5, OthersIdle
    <2> QED
        BY <1>9, <2>1, <2>2 DEF Copy, Leave
<1>10. ASSUME NEW t \in Threads, MoveInCpp(t)
       PROVE  Alone' /\ \A u \in Threads : Knows(u)'
    <2>1. \A u \in Threads \ {t} : frame'[u].at = frame[u].at
        BY <1>10 DEF MoveInCpp, Moved, Call
    <2>2. frame'[t].at = "check"
        BY <1>10 DEF MoveInCpp, Moved, Call
    <2>3. Knows(t)'
        BY <2>2 DEF Knows
    <2> QED
        BY <1>2, <1>10, <2>1, <2>3, OthersIdle DEF MoveInCpp
<1>11. ASSUME NEW t \in Threads, Check(t)
       PROVE  Alone' /\ \A u \in Threads : Knows(u)'
    BY <1>4, <1>11 DEF Check, Leave
<1>12. CASE UNCHANGED vars
    BY <1>12 DEF vars, Alone, Knows, Valid, Given
<1>13. CASE Next
    BY <1>1, <1>13, <1>6, <1>7, <1>8, <1>9, <1>10, <1>11 DEF Next
<1> QED
    BY <1>1, <1>12, <1>13

\* The invariant holds of every run.
LEMMA Invariance == Spec => []IInv
<1>1. IInv /\ [Next]_vars => IInv'
    <2> SUFFICES ASSUME IInv, [Next]_vars PROVE IInv'
        OBVIOUS
    <2>1. TypeOK'
        BY TypesKept DEF IInv
    <2>2. shared' = shared
        BY DEF Next, vars, Iterate, Seek, Get, Skip, Read, Copy, MoveInCpp, Check,
               Begin, Refuse
    <2>3. CASE shared
        BY <2>1, <2>2, <2>3 DEF IInv
    <2>4. CASE ~shared
        BY <2>1, <2>4, AloneKept DEF IInv
    <2> QED
        BY <2>3, <2>4
<1> QED
    BY <1>1, InitIInv, PTL DEF Spec

\* A thread that has the iterator to itself copies only bytes that are there, and
\* moves the cursor only from an item.
THEOREM ReadsSafe == Spec => []ReadsTheItem
<1>1. IInv => ReadsTheItem
    BY DEF IInv, ReadsTheItem, Knows
<1> QED
    BY <1>1, Invariance, PTL

-------------------------------------------------------------------------------
(* Refinement *)

\* The answer of a call that has not ended counts from the move of the cursor.
LEMMA PromisedIs ==
  /\ Moving = {} => Promised = answer
  /\ \A t \in Threads :
        Moving = {t} => Promised = Answer(frame[t].op, IF bad THEN Error ELSE frame[t].item)
<1>1. ASSUME NEW t, Moving = {t}
      PROVE  (CHOOSE u \in Moving : TRUE) = t
    BY <1>1
<1>2. Moving = {} => Promised = answer
    BY DEF Promised
<1>3. ASSUME NEW t \in Threads, Moving = {t}
      PROVE  Promised = Answer(frame[t].op, IF bad THEN Error ELSE frame[t].item)
    <2>1. Moving # {}
        BY <1>3
    <2> QED
        BY <1>1, <1>3, <2>1 DEF Promised
<1> QED
    BY <1>2, <1>3
\* Cursor and IteratorCursor speak the same language.
LEMMA Vocabulary ==
  /\ Promise!Items = Items /\ Promise!Nowhere = Nowhere /\ Promise!Done = Done
  /\ Promise!End = End /\ Promise!Refused = Refused /\ Promise!Error = Error
  /\ Promise!Iterations = Iterations /\ Promise!Seeks = Seeks
  /\ Promise!Methods = Methods
  /\ \A op, is : Promise!Answer(op, is) = Answer(op, is)
  /\ \A op, p : Promise!Given(op, p) = Given(op, p)
  /\ \A op, p : Promise!Target(op, p) = Target(op, p)
<1>1. /\ Promise!Items = Items /\ Promise!Nowhere = Nowhere /\ Promise!Done = Done
      /\ Promise!End = End /\ Promise!Refused = Refused /\ Promise!Error = Error
      /\ Promise!Iterations = Iterations /\ Promise!Seeks = Seeks
    BY DEF Promise!Items, Items, Promise!Nowhere, Nowhere, Promise!Done, Done,
           Promise!End, End, Promise!Refused, Refused, Promise!Error, Error,
           Promise!Iterations, Iterations, Promise!Seeks, Seeks
<1>2. Promise!Methods = Methods
    BY <1>1 DEF Promise!Methods, Methods
<1>3. \A op, is : Promise!Answer(op, is) = Answer(op, is)
    BY DEF Promise!Answer, Answer
<1>4. \A op, p : Promise!Given(op, p) = Given(op, p)
    BY <1>1 DEF Promise!Given, Given
<1>5. \A p : Promise!OrNowhere(p) = OrNowhere(p)
    BY <1>1 DEF Promise!OrNowhere, OrNowhere
<1>6. \A op, p : Promise!Target(op, p) = Target(op, p)
    BY <1>1, <1>5 DEF Promise!Target, Target
<1> QED
    BY <1>1, <1>2, <1>3, <1>4, <1>6

\* Initially nothing was asked.
LEMMA InitImplements == Init => Promise!Init
<1> SUFFICES ASSUME Init PROVE Promise!Init
    OBVIOUS
<1>1. Moving = {}
    BY IdleTyped DEF Init, Moving
<1>2. Promised = answer
    BY <1>1, PromisedIs
<1> QED
    BY <1>2, Vocabulary DEF Init, Promise!Init

\* A call that moved, or failed to.
LEMMA CursorMoves ==
  ASSUME ~shared, ~shared', NEW op \in Methods, op # "get", op \in Seeks \/ Valid,
         \/ pos' \in Target(op, pos) /\ Promised' = Answer(op, Given(op, pos))
         \/ pos' = Nowhere /\ Promised' = Answer(op, Error)
  PROVE  Promise!Next
<1>1. Promise!Move(op)
    BY Vocabulary DEF Promise!Move, Valid
<1> QED
    BY <1>1, Vocabulary DEF Promise!Next

\* A call that found the iterator nowhere.
LEMMA CursorRefuses ==
  ASSUME ~shared, ~shared', NEW op \in Methods, op \notin Seeks,
         pos = Nowhere, pos' = pos,
         Promised' = Answer(op, IF op \in Iterations THEN End ELSE Refused)
  PROVE  Promise!Next
<1>1. Promise!Exhausted(op)
    BY Vocabulary DEF Promise!Exhausted
<1> QED
    BY <1>1, Vocabulary DEF Promise!Next

\* A call that only looked.
LEMMA CursorLooks ==
  ASSUME ~shared, ~shared', Valid, pos' = pos, Promised' = Answer("get", pos)
  PROVE  Promise!Next
<1>1. Promise!Look
    BY Vocabulary DEF Promise!Look, Valid
<1> QED
    BY <1>1 DEF Promise!Next

\* A step is one of Cursor's, or one Cursor does not see.
LEMMA StepImplements ==
  ASSUME IInv, [Next]_vars
  PROVE  [Promise!Next]_<<IF shared THEN Nowhere ELSE pos,
                          IF shared THEN Answer("seek", Done) ELSE Promised>>
<1> USE DEF IInv
<1>1. shared' = shared
    BY DEF Next, vars, Iterate, Seek, Get, Skip, Read, Copy, MoveInCpp, Check, Begin, Refuse
<1>2. CASE shared
    BY <1>1, <1>2
<1>3. CASE ~shared
    <2> SUFFICES ASSUME ~shared, ~shared'
                 PROVE  \/ Promise!Next
                        \/ pos' = pos /\ Promised' = Promised
        BY <1>1, <1>3
    <2>1. ASSUME NEW t \in Threads, frame[t].at # "check",
                 \/ frame[t].at # "idle"
                 \/ \A u \in Threads : frame[u].at = "idle"
          PROVE  Moving = {} /\ Promised = answer
        <3>1. Moving = {}
            BY <2>1 DEF Alone, Moving
        <3> QED
            BY <3>1, PromisedIs
    <2>2. ASSUME \A u \in Threads : frame'[u].at # "check"
          PROVE  Promised' = answer'
        BY <2>2 DEF Promised, Moving
    <2>3. ASSUME NEW t \in Threads, NEW op \in Methods, NEW at \in {"read", "move"},
                 Enter(t), Begin(t, op, at)
          PROVE  pos' = pos /\ Promised' = Promised
        <3>1. Call(at, op, Done, TRUE).at = at
            BY DEF Call
        <3>2. \A u \in Threads : frame'[u].at # "check"
            BY <2>3, <3>1 DEF Begin, Enter, TypeOK
        <3> QED
            BY <2>1, <2>2, <2>3, <3>2 DEF Begin, Enter
    <2>4. ASSUME NEW t \in Threads, NEW op \in Methods \ Seeks, Enter(t), ~Valid,
                 Refuse(op, IF op \in Iterations THEN End ELSE Refused)
          PROVE  Promise!Next
        <3>1. \A u \in Threads : frame'[u].at # "check"
            BY <2>4 DEF Enter, Refuse
        <3>2. pos = Nowhere
            BY <2>4 DEF TypeOK, Valid
        <3> QED
            BY <2>2, <2>4, <3>1, <3>2, CursorRefuses DEF Refuse
    <2>5. ASSUME NEW t \in Threads, NEW op \in Methods, Iterate(t, op) \/ Seek(t, op)
          PROVE  Promise!Next \/ (pos' = pos /\ Promised' = Promised)
        <3>1. op \in Iterations => op \notin Seeks
            BY DEF Iterations, Seeks
        <3> QED
            BY <2>3, <2>4, <2>5, <3>1 DEF Iterate, Seek
    <2>6. ASSUME NEW t \in Threads, Get(t) \/ Skip(t)
          PROVE  Promise!Next \/ (pos' = pos /\ Promised' = Promised)
        <3>1. /\ "get" \in Methods \ Seeks /\ "get" \notin Iterations
              /\ "skip" \in Methods \ Seeks /\ "skip" \notin Iterations
            BY DEF Methods, Iterations, Seeks
        <3> QED
            BY <2>3, <2>4, <2>6, <3>1 DEF Get, Skip
    <2>7. ASSUME NEW t \in Threads, Read(t)
          PROVE  pos' = pos /\ Promised' = Promised
        <3>1. Moving = {} /\ Promised = answer
            BY <2>1, <2>7 DEF Read
        <3>2. Call("copy", frame[t].op, pos, Valid).at = "copy"
            BY DEF Call
        <3>3. \A u \in Threads : frame'[u].at # "check"
            BY <2>7, <3>1, <3>2 DEF Read, Moving, TypeOK
        <3> QED
            BY <2>2, <2>7, <3>1, <3>3 DEF Read
    <2>8. ASSUME NEW t \in Threads, Copy(t)
          PROVE  Promise!Next \/ (pos' = pos /\ Promised' = Promised)
        <3>1. Moving = {} /\ Promised = answer
            BY <2>1, <2>8 DEF Copy
        <3>2. Valid /\ Copied(t) = pos /\ ~bad
            BY <2>8 DEF Copy, Knows, Copied, TypeOK, Valid, Items, Nowhere
        <3>3. Call("move", frame[t].op, Copied(t), TRUE).at = "move"
            BY DEF Call
        <3>4. \A u \in Threads : frame'[u].at # "check"
            BY <2>8, <3>1, <3>3, IdleTyped DEF Copy, Leave, Moving, TypeOK
        <3>5. CASE frame[t].op = "get" /\ Leave(t, Copied(t))
            BY <2>2, <2>8, <3>2, <3>4, <3>5, CursorLooks DEF Copy, Leave
        <3>6. CASE UNCHANGED answer
            BY <2>2, <2>8, <3>1, <3>4, <3>6 DEF Copy
        <3> QED
            BY <2>8, <3>2, <3>5, <3>6 DEF Copy
    <2>9. ASSUME NEW t \in Threads, MoveInCpp(t)
          PROVE  Promise!Next
        <3>1. Moving = {}
            BY <2>1, <2>9 DEF MoveInCpp
        <3>2. /\ frame'[t].at = "check" /\ frame'[t].op = frame[t].op
              /\ frame'[t].item = frame[t].item
              /\ \A u \in Threads \ {t} : frame'[u].at = frame[u].at
            BY <2>9 DEF MoveInCpp, Moved, Call
        <3>3. Moving' = {t}
            BY <3>1, <3>2 DEF Moving
        <3>4. (CHOOSE u \in Moving' : TRUE) = t
            BY <3>3
        <3>5. Promised' = Answer(frame[t].op, IF bad' THEN Error ELSE frame[t].item)
            BY <3>2, <3>3, <3>4 DEF Promised
        <3>6. /\ frame[t].op \in Methods /\ frame[t].op # "get"
              /\ frame[t].op \in Seeks \/ Valid
              /\ frame[t].item = Given(frame[t].op, pos)
            BY <2>9, FrameTyped DEF MoveInCpp, Knows
        <3>7. \/ pos' \in Target(frame[t].op, pos) /\ bad' = FALSE
              \/ pos' = Nowhere /\ bad' = TRUE
            BY <2>9, <3>6 DEF MoveInCpp, Landing
        <3> QED
            BY <3>5, <3>6, <3>7, CursorMoves
    <2>10. ASSUME NEW t \in Threads, Check(t)
           PROVE  pos' = pos /\ Promised' = Promised
        <3>1. Moving = {t}
            BY <2>10 DEF Check, Alone, Moving
        <3>2. Promised = Answer(frame[t].op, IF bad THEN Error ELSE frame[t].item)
            BY <3>1, PromisedIs
        <3>3. \A u \in Threads : frame'[u].at # "check"
            BY <2>10, <3>1, IdleTyped DEF Check, Leave, Moving, TypeOK
        <3> QED
            BY <2>2, <2>10, <3>2, <3>3 DEF Check, Leave
    <2>11. CASE UNCHANGED vars
        BY <2>11 DEF vars, Promised, Moving
    <2> QED
        BY <2>5, <2>6, <2>7, <2>8, <2>9, <2>10, <2>11 DEF Next
<1> QED
    BY <1>2, <1>3

\* An iterator that one thread at a time uses gives every item once and in order,
\* forwards and backwards, and reports every move that fails, once.
THEOREM ImplementsCursor == Spec => OneItemPerCall
<1>1. Init => Promise!Init
    BY InitImplements
<1>2. IInv /\ [Next]_vars
        => [Promise!Next]_<<IF shared THEN Nowhere ELSE pos,
                            IF shared THEN Answer("seek", Done) ELSE Promised>>
    BY StepImplements
<1> QED
    BY <1>1, <1>2, Invariance, PTL DEF Spec, OneItemPerCall, Promise!Spec
===============================================================================
