------------------------------ MODULE GilCallbacks ------------------------------
(***************************************************************************)
(* The GIL between Python threads that call RocksDB and RocksDB that calls *)
(* Python back.                                                            *)
(*                                                                         *)
(* Comparators, merge operators, filter policies and slice transforms may  *)
(* be Python objects; here some are.  C++ calls them in the thread of the  *)
(* caller and in background jobs (flush, compaction); every callback takes *)
(* the GIL.  Most methods of DB release the GIL around their C++ call,     *)
(* some do not.                                                            *)
(* The callbacks that a call or a job makes one after another are one here *)
(* that loses the GIL any number of times.                                 *)
(***************************************************************************)
EXTENDS FiniteSets

CONSTANTS
    Threads,        \* Python threads
    Jobs,           \* RocksDB's background jobs
    None,
    Methods         \* the methods the program calls

\* The methods whose C++ call is made without the GIL, and with it.  "delete" is the end of
\* an iterator or of a dropped column family's handle.
Released == {"get", "put", "flush", "close"}
Kept == {"compact_range", "try_catch_up_with_primary", "delete"}

\* The calls that may wait for background jobs: a put can be stalled, flush and
\* compact_range wait for the job they ask for, close for those that run.
Waiting == {"put", "flush", "close", "compact_range"}

ASSUME GilAssumption ==
    /\ None \notin Threads \cup Jobs
    /\ None \notin Methods
    /\ Threads \cap Jobs = {}
    /\ Methods \subseteq Released \cup Kept

VARIABLES
    gil,      \* the thread or job that holds the GIL
    at,       \* where a thread is: in Python, in C++, at a callback, ...; in the
              \* handles of a DB that it closes
    call,     \* the method a thread is in
    awaited,  \* the jobs a thread's C++ call waits for
    job       \* where a background job is

vars == <<gil, at, call, awaited, job>>

-------------------------------------------------------------------------------
(* Python threads *)

Take(t) == /\ at[t] = "out" /\ gil = None
           /\ gil' = t
           /\ UNCHANGED <<at, call, awaited, job>>

\* CPython's switch interval, in the program or in a callback: whoever loses the
\* GIL in a callback is back at the point of asking for it.
Yield(t) == /\ gil = t /\ at[t] \in {"out", "python"}
            /\ gil' = None
            /\ at' = [at EXCEPT ![t] = IF @ = "python" THEN "callback" ELSE @]
            /\ UNCHANGED <<call, awaited, job>>

\* close() deletes the column family handles first, with the GIL.
Enter(t, m) == /\ at[t] = "out" /\ gil = t
               /\ gil' = IF m \in Kept \cup {"close"} THEN t ELSE None
               /\ at' = [at EXCEPT ![t] = IF m = "close" THEN "handles" ELSE "cpp"]
               /\ call' = [call EXCEPT ![t] = m]
               /\ UNCHANGED <<awaited, job>>

\* Wrong: close() deletes the database without releasing the GIL.
DeleteDb_KeepsGil(t) == /\ at[t] = "handles"
                        /\ at' = [at EXCEPT ![t] = "cpp"]
                        /\ UNCHANGED <<gil, call, awaited, job>>

DeleteDb(t) == /\ at[t] = "handles"
               /\ gil' = None
               /\ at' = [at EXCEPT ![t] = "cpp"]
               /\ UNCHANGED <<call, awaited, job>>

Callback(t) == /\ at[t] = "cpp"
               /\ at' = [at EXCEPT ![t] = "callback"]
               /\ UNCHANGED <<gil, call, awaited, job>>

\* Wrong: a callback that is not declared `with gil`.
CallbackEnter_WithoutGil(t) == /\ at[t] = "callback"
                               /\ at' = [at EXCEPT ![t] = "python"]
                               /\ UNCHANGED <<gil, call, awaited, job>>

\* PyGILState_Ensure: at once for a thread that has not released the GIL.
CallbackEnter(t) == /\ at[t] = "callback" /\ gil \in {None, t}
                    /\ gil' = t
                    /\ at' = [at EXCEPT ![t] = "python"]
                    /\ UNCHANGED <<call, awaited, job>>

\* PyGILState_Release: the GIL goes back to what it was before the callback.
CallbackLeave(t) == /\ at[t] = "python" /\ gil = t
                    /\ gil' = IF call[t] \in Kept THEN t ELSE None
                    /\ at' = [at EXCEPT ![t] = "called"]
                    /\ UNCHANGED <<call, awaited, job>>

\* The call waits for jobs, and starts those that do not run.
Await(t) == /\ at[t] \in {"cpp", "called"} /\ call[t] \in Waiting
            /\ at' = [at EXCEPT ![t] = "wait"]
            /\ \E js \in SUBSET Jobs \ {{}} :
                  /\ awaited' = [awaited EXCEPT ![t] = js]
                  /\ job' = [j \in Jobs |-> IF j \in js /\ job[j] = "idle" THEN "run"
                                                                        ELSE job[j]]
            /\ UNCHANGED <<gil, call>>

Resume(t) == /\ at[t] = "wait" /\ awaited[t] = {}
             /\ at' = [at EXCEPT ![t] = "back"]
             /\ UNCHANGED <<gil, call, awaited, job>>

Finish(t) == /\ at[t] \in {"cpp", "called"}
             /\ at' = [at EXCEPT ![t] = "back"]
             /\ UNCHANGED <<gil, call, awaited, job>>

\* Wrong: a method that kept the GIL waits for it to be free.
Return_Retakes(t) == /\ at[t] = "back" /\ gil = None
                     /\ gil' = t
                     /\ at' = [at EXCEPT ![t] = "out"]
                     /\ call' = [call EXCEPT ![t] = None]
                     /\ UNCHANGED <<awaited, job>>

Return(t) == /\ at[t] = "back" /\ gil \in {None, t}
             /\ gil' = t
             /\ at' = [at EXCEPT ![t] = "out"]
             /\ call' = [call EXCEPT ![t] = None]
             /\ UNCHANGED <<awaited, job>>

-------------------------------------------------------------------------------
(* Background jobs *)

\* RocksDB flushes and compacts on its own account.
Start(j) == /\ job[j] = "idle"
            /\ job' = [job EXCEPT ![j] = "run"]
            /\ UNCHANGED <<gil, at, call, awaited>>

JobCallback(j) == /\ job[j] = "run"
                  /\ job' = [job EXCEPT ![j] = "callback"]
                  /\ UNCHANGED <<gil, at, call, awaited>>

JobEnter(j) == /\ job[j] = "callback" /\ gil = None
               /\ gil' = j
               /\ job' = [job EXCEPT ![j] = "python"]
               /\ UNCHANGED <<at, call, awaited>>

JobYield(j) == /\ job[j] = "python" /\ gil = j
               /\ gil' = None
               /\ job' = [job EXCEPT ![j] = "callback"]
               /\ UNCHANGED <<at, call, awaited>>

\* Wrong: the callback does not release the GIL.
JobLeave_KeepsGil(j) == /\ job[j] = "python" /\ gil = j
                        /\ job' = [job EXCEPT ![j] = "called"]
                        /\ UNCHANGED <<gil, at, call, awaited>>

JobLeave(j) == /\ job[j] = "python" /\ gil = j
               /\ gil' = None
               /\ job' = [job EXCEPT ![j] = "called"]
               /\ UNCHANGED <<at, call, awaited>>

\* The job is over: the calls that wait for it are told.
JobDone(j) == /\ job[j] \in {"run", "called"}
              /\ job' = [job EXCEPT ![j] = "idle"]
              /\ awaited' = [t \in Threads |-> awaited[t] \ {j}]
              /\ UNCHANGED <<gil, at, call>>

-------------------------------------------------------------------------------
Init == /\ gil = None
        /\ at = [t \in Threads |-> "out"]
        /\ call = [t \in Threads |-> None]
        /\ awaited = [t \in Threads |-> {}]
        /\ job = [j \in Jobs |-> "idle"]

ThreadStep(t) ==
    \/ Take(t) \/ Yield(t) \/ \E m \in Methods : Enter(t, m)
    \/ DeleteDb(t) \/ Callback(t) \/ CallbackEnter(t) \/ CallbackLeave(t)
    \/ Await(t) \/ Resume(t) \/ Finish(t) \/ Return(t)

JobStep(j) ==
    \/ Start(j) \/ JobCallback(j) \/ JobEnter(j) \/ JobYield(j) \/ JobLeave(j)
    \/ JobDone(j)

Next == (\E t \in Threads : ThreadStep(t)) \/ (\E j \in Jobs : JobStep(j))

Spec == Init /\ [][Next]_vars

(***************************************************************************)
(* The operating system and CPython's switch interval let everyone that    *)
(* keeps asking for the GIL have it in the end: a thread that runs Python  *)
(* again and again is made to give it up, even if the methods it calls in  *)
(* between keep it.  A callback comes to its end, a call and a job go on.  *)
(***************************************************************************)
GoesOn(t) == DeleteDb(t) \/ CallbackEnter(t) \/ Resume(t) \/ Finish(t) \/ Return(t)

Fairness ==
    /\ \A t \in Threads :
          SF_vars(Yield(t)) /\ SF_vars(CallbackLeave(t)) /\ SF_vars(GoesOn(t))
    /\ \A j \in Jobs : SF_vars(JobLeave(j)) /\ SF_vars(JobEnter(j) \/ JobDone(j))

FairSpec == Spec /\ Fairness

-------------------------------------------------------------------------------
(* Properties *)

\* Types; a thread is in a method exactly while it is out of the program, a call goes on
\* only when no job it asked for is left, and whoever runs Python has the GIL.
TypeOK == /\ gil \in Threads \cup Jobs \cup {None}
          /\ at \in [Threads -> {"out", "handles", "cpp", "callback", "python", "called",
                               "wait", "back"}]
          /\ call \in [Threads -> Methods \cup {None}]
          /\ awaited \in [Threads -> SUBSET Jobs]
          /\ job \in [Jobs -> {"idle", "run", "callback", "python", "called"}]
          /\ \A t \in Threads : /\ at[t] # "out" <=> call[t] \in Methods
                                /\ awaited[t] # {} => at[t] = "wait"
                                /\ at[t] \in {"handles", "python"} => gil = t
          /\ \A j \in Jobs : job[j] = "python" => gil = j

\* No thread holds the GIL while its C++ call waits for a background job that may
\* need it for a callback.
NoStandoff == \A t \in Threads : at[t] = "wait" => gil # t

\* A callback from a background thread is executed in the end.
CallbacksServed == \A j \in Jobs : job[j] = "callback" ~> job[j] = "python"

\* Every method of DB returns.
EveryCallReturns == \A t \in Threads : at[t] # "out" ~> at[t] = "out"
===============================================================================
