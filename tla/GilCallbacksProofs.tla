--------------------------- MODULE GilCallbacksProofs ---------------------------
(* Theorems about GilCallbacks, for every value of its constants. *)
EXTENDS GilCallbacks, TLAPS

(***************************************************************************)
(* Inside a C++ call only a method that keeps the GIL has it, and only a   *)
(* method that may wait for jobs does: compact_range alone is both.        *)
(***************************************************************************)
GilInv ==
    /\ TypeOK
    /\ \A t \in Threads :
          /\ gil = t /\ at[t] \notin {"out", "handles", "python"} => call[t] \in Kept
          /\ at[t] = "wait" => call[t] \in Waiting

LEMMA GilInit == Init => GilInv
BY GilAssumption DEF Init, GilInv, TypeOK

LEMMA GilThread ==
    ASSUME GilInv, NEW t \in Threads, ThreadStep(t)
    PROVE  GilInv'
<1>1. CASE Take(t)
  BY <1>1, GilAssumption DEF Take, GilInv, TypeOK
<1>2. CASE Yield(t)
  BY <1>2, GilAssumption DEF Yield, GilInv, TypeOK
<1>3. ASSUME NEW m \in Methods, Enter(t, m) PROVE GilInv'
  BY <1>3, GilAssumption DEF Enter, GilInv, TypeOK
<1>4. CASE Callback(t)
  BY <1>4 DEF Callback, GilInv, TypeOK
<1>5. CASE CallbackEnter(t)
  BY <1>5, GilAssumption DEF CallbackEnter, GilInv, TypeOK
<1>6. CASE CallbackLeave(t)
  BY <1>6, GilAssumption DEF CallbackLeave, GilInv, TypeOK
<1>7. CASE Await(t)
  BY <1>7 DEF Await, GilInv, TypeOK
<1>10. CASE DeleteDb(t)
  BY <1>10, GilAssumption DEF DeleteDb, GilInv, TypeOK
<1>8. CASE Resume(t) \/ Finish(t)
  BY <1>8 DEF Resume, Finish, GilInv, TypeOK
<1>9. CASE Return(t)
  BY <1>9, GilAssumption DEF Return, GilInv, TypeOK
<1> QED
  BY <1>1, <1>2, <1>3, <1>4, <1>5, <1>6, <1>7, <1>8, <1>9, <1>10 DEF ThreadStep

LEMMA GilJob ==
    ASSUME GilInv, NEW j \in Jobs, JobStep(j)
    PROVE  GilInv'
<1>1. \A t \in Threads : t # j
  BY GilAssumption
<1>2. CASE Start(j) \/ JobCallback(j)
  BY <1>2 DEF Start, JobCallback, GilInv, TypeOK
<1>3. CASE JobEnter(j) \/ JobYield(j) \/ JobLeave(j)
  BY <1>1, <1>3, GilAssumption DEF JobEnter, JobYield, JobLeave, GilInv, TypeOK
<1>4. CASE JobDone(j)
  BY <1>4 DEF JobDone, GilInv, TypeOK
<1> QED
  BY <1>2, <1>3, <1>4 DEF JobStep

LEMMA GilNext == GilInv /\ [Next]_vars => GilInv'
<1>1. GilInv /\ UNCHANGED vars => GilInv'
  BY DEF vars, GilInv, TypeOK
<1> QED
  BY <1>1, GilThread, GilJob DEF Next

\* A thread is in a method of DB exactly while it is out of the program, and what a
\* call waits for is gone when it goes on, in every program: compact_range included.
THEOREM CallsAccounted == Spec => []TypeOK
<1>1. GilInv => TypeOK
  BY DEF GilInv
<1> QED
  BY <1>1, GilInit, GilNext, PTL DEF Spec

\* A program that does not call compact_range never has a thread that holds the
\* GIL and waits for a background job, whatever the callbacks do: the method
\* that does not release the GIL is the only obstacle.
THEOREM NoStandoffWithoutCompact ==
    ASSUME "compact_range" \notin Methods
    PROVE  Spec => []NoStandoff
<1>1. GilInv => NoStandoff
  <2>1. Kept \cap Waiting = {"compact_range"}
    BY DEF Kept, Waiting
  <2>2. ASSUME GilInv, NEW t \in Threads, at[t] = "wait" PROVE gil # t
    <3>1. call[t] \in Methods /\ call[t] \in Waiting
      BY <2>2 DEF GilInv, TypeOK
    <3> QED
      BY <2>1, <2>2, <3>1 DEF GilInv
  <2> QED
    BY <2>2 DEF NoStandoff
<1> QED
  BY <1>1, GilInit, GilNext, PTL DEF Spec

===============================================================================
