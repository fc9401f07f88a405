-------------------------- MODULE DurableStoreProofs --------------------------
(***************************************************************************)
(* For any threads, column families, batches and number of writes:         *)
(* PromisesKept, BackupsComplete and LogSurvivesInOrder.                   *)
(*                                                                         *)
(* A promise is made when a call returns, and kept by what is on the files *)
(* then.  So the invariant follows each call from its arguments (Knows) to *)
(* the files (Grounded).  The order needs to know that what its caller     *)
(* wanted logged was logged (AskedLogged), and what the tables have in     *)
(* advance of the log: nothing, where there are several column families.   *)
(***************************************************************************)
EXTENDS DurableStore, TLAPS

WriteOpts == [sync : BOOLEAN, disableWAL : BOOLEAN]

Calls == [at : {"idle", "write", "log", "tables", "copy", "return"},
          families : SUBSET Families, opts : WriteOpts,
          due : SUBSET (Nat \X Families),
          survives : {"nothing", "process", "machine"}]

TypeOK ==
    /\ db \in {"open", "closed", "down"}
    /\ last \in Nat
    /\ present \cup asked \subseteq (1..last) \X Families
    /\ tables \subseteq present
    /\ log \subseteq 1..last
    /\ synced \subseteq log
    /\ call \in [Threads -> Calls]

OnDisk == tables \cup RecordsOf(synced)

\* What was promised is where it has to be.
Grounded == promised \subseteq kept /\ promised \subseteq OnDisk /\ kept \subseteq OnFiles

\* What a call c that is under way knows of the records it is for.
Knows(c) ==
    /\ c.due \subseteq present
    /\ c.at = "idle" => c.due = {}
    /\ c.at = "write" =>
           /\ c.survives = "machine" => c.opts.sync
           /\ c.survives = "process" => ~c.opts.disableWAL
    /\ c.at = "log" =>
           /\ c.due \subseteq RecordsOf(log)
           /\ c.survives = "machine" => c.opts.sync
    /\ c.at = "tables" => \A r \in c.due : r[2] \in c.families
    /\ c.at = "copy" => c.survives = "nothing" /\ c.due \subseteq OnFiles
    /\ c.at = "return" =>
           /\ c.survives = "machine" => c.due \subseteq OnDisk
           /\ c.survives = "process" => c.due \subseteq OnFiles

AtRest == db # "open" => \A t \in Threads : call[t].at = "idle"

IInv == TypeOK /\ Grounded /\ AtRest /\ \A t \in Threads : Knows(call[t])

-------------------------------------------------------------------------------
\* The part of the log on the disk has no gaps.
NoGaps == \A n \in synced, m \in log : m < n => m \in synced

\* What the tables have of a logged write has its log on the disk, too; where there
\* is one column family, the tables have all of it up to some write.
TablesBehindLog ==
    IF Families = {Default}
    THEN \A r \in tables, q \in present : q[1] <= r[1] => q \in tables
    ELSE \A r \in tables : r[1] \in log => r[1] \in synced

\* What was to be logged is in the log, unless a crash took it from there and left it
\* in the tables, which happens only where there is one column family.
AskedLogged ==
    asked \cap present \subseteq IF Families = {Default} THEN OnFiles ELSE RecordsOf(log)

Order == NoGaps /\ TablesBehindLog /\ AskedLogged

USE StoreAssumption

-------------------------------------------------------------------------------
(* Steps that lose nothing *)

Grows == /\ present \subseteq present' /\ tables \subseteq tables'
         /\ log \subseteq log' /\ synced \subseteq synced'

\* Of a database that grows the files grow, too.
LEMMA FilesGrow ==
  ASSUME Grows
  PROVE  /\ OnFiles \subseteq OnFiles' /\ OnDisk \subseteq OnDisk'
         /\ RecordsOf(log) \subseteq RecordsOf(log)'
BY DEF Grows, OnFiles, OnDisk, RecordsOf

\* What was promised, and what a call knows, stays true while the database grows.
LEMMA GroundedGrows == ASSUME IInv, Grows, UNCHANGED <<kept, promised>> PROVE Grounded'
<1>1. OnFiles \subseteq OnFiles' /\ OnDisk \subseteq OnDisk'
  BY FilesGrow
<1> QED
  BY <1>1 DEF IInv, Grounded

LEMMA KnowsGrows ==
  ASSUME Grows, NEW c, Knows(c)
  PROVE  Knows(c)'
<1>1. /\ OnFiles \subseteq OnFiles' /\ OnDisk \subseteq OnDisk'
      /\ RecordsOf(log) \subseteq RecordsOf(log)'
  BY FilesGrow
<1>2. c.due \subseteq present'
  BY DEF Knows, Grows
<1> QED
  BY <1>1, <1>2 DEF Knows

\* An idle thread knows nothing.
LEMMA IdleKnows ==
  /\ Idle \in Calls
  /\ Idle.at = "idle"
  /\ Knows(Idle) /\ Knows(Idle)'
BY DEF Knows, Idle, Call, Calls, Defaults, WriteOpts

\* One thread's call is replaced.
LEMMA OneCall ==
  ASSUME TypeOK, NEW t \in Threads, NEW c \in Calls, call' = [call EXCEPT ![t] = c]
  PROVE  /\ call' \in [Threads -> Calls]
         /\ call'[t] = c
         /\ \A u \in Threads \ {t} : call'[u] = call[u]
BY DEF TypeOK

-------------------------------------------------------------------------------
\* The invariant holds initially.
LEMMA InitIInv == Init => IInv /\ Order
<1> SUFFICES ASSUME Init PROVE IInv /\ Order
  OBVIOUS
<1>1. TypeOK
  BY IdleKnows DEF Init, TypeOK
<1>2. Grounded
  BY DEF Init, Grounded
<1>3. AtRest
  BY DEF Init, AtRest
<1>4. \A t \in Threads : Knows(call[t])
  BY IdleKnows DEF Init
<1>5. Order
  BY DEF Init, Order, NoGaps, TablesBehindLog, AskedLogged
<1> QED
  BY <1>1, <1>2, <1>3, <1>4, <1>5 DEF IInv

-------------------------------------------------------------------------------
(* Steps of a thread *)

\* The thread t goes on with the call c, and the database grows.
LEMMA ThreadStep ==
  ASSUME IInv, NEW t \in Threads, NEW c \in Calls,
         call' = [call EXCEPT ![t] = c],
         Grows, TypeOK', Grounded', Knows(c)', db' = "open"
  PROVE  IInv'
<1>1. call'[t] = c /\ \A u \in Threads \ {t} : call'[u] = call[u]
  BY OneCall DEF IInv
<1>2. \A u \in Threads \ {t} : Knows(call[u])'
  <2> TAKE u \in Threads \ {t}
  <2>1. Knows(call[u])
    BY DEF IInv
  <2>2. PICK d : d = call[u]
    OBVIOUS
  <2>3. Knows(d)'
    BY <2>1, <2>2, KnowsGrows
  <2>4. call'[u] = d
    BY <1>1, <2>2
  <2> QED
    BY <2>3, <2>4 DEF Knows
<1>3. \A u \in Threads : Knows(call[u])'
  BY <1>1, <1>2 DEF Knows
<1>4. AtRest'
  BY DEF AtRest
<1> QED
  BY <1>3, <1>4 DEF IInv

\* A call begins.
LEMMA EnterStep ==
  ASSUME IInv, NEW t \in Threads, NEW c \in Calls, Enter(t, c), Knows(c)
  PROVE  IInv'
<1>1. Grows
  BY DEF Enter, Grows, storage
<1>2. call' = [call EXCEPT ![t] = c]
  BY DEF Enter
<1>3. TypeOK'
  BY <1>2, OneCall DEF Enter, IInv, TypeOK, storage, told
<1>4. Grounded'
  BY <1>1, GroundedGrows DEF Enter, told
<1>5. Knows(c)'
  BY <1>1, KnowsGrows
<1> QED
  BY <1>1, <1>2, <1>3, <1>4, <1>5, ThreadStep DEF Enter

LEMMA WriteKnows ==
  ASSUME IInv, NEW t \in Threads, NEW fs \in SUBSET Families,
         NEW sync \in BOOLEAN, NEW disable_wal \in BOOLEAN,
         Write(t, fs, sync, disable_wal)
  PROVE  IInv'
<1> DEFINE c == Call("write", fs, WriteOptions(sync, disable_wal), {},
                     Survives(sync, disable_wal))
<1>1. WriteOptions(sync, disable_wal) \in WriteOpts
  BY DEF WriteOptions, WriteOpts
<1>2. Survives(sync, disable_wal) \in {"nothing", "process", "machine"}
  BY DEF Survives
<1>3. c \in Calls
  BY <1>1, <1>2 DEF Call, Calls
<1>4. /\ c.at = "write" /\ c.due = {} /\ c.survives = Survives(sync, disable_wal)
      /\ c.opts = WriteOptions(sync, disable_wal)
  BY DEF Call
<1>5. Survives(sync, disable_wal) = "machine" => WriteOptions(sync, disable_wal).sync
  BY Zenon DEF Survives, WriteOptions
<1>6. Survives(sync, disable_wal) = "process"
          => ~WriteOptions(sync, disable_wal).disableWAL
  BY Zenon DEF Survives, WriteOptions
<1>7. Knows(c)
  <2> HIDE DEF c
  <2> QED
    BY <1>4, <1>5, <1>6 DEF Knows
<1>8. Enter(t, c)
  BY DEF Write
<1> QED
  BY <1>3, <1>7, <1>8, EnterStep

LEMMA DefaultsTyped == Defaults \in WriteOpts
BY DEF Defaults, WriteOpts

LEMMA FlushKnows == ASSUME IInv, NEW t \in Threads, Flush(t) PROVE IInv'
<1> DEFINE due == {r \in RecordsOf(returned) : r[2] = Default}
           c == Call("tables", {Default}, Defaults, due, "machine")
<1>1. due \subseteq present /\ due \subseteq Nat \X Families
  BY DEF IInv, TypeOK, RecordsOf
<1>2. c \in Calls
  BY <1>1, DefaultsTyped DEF Call, Calls
<1>3. Knows(c)
  BY <1>1 DEF Knows, Call
<1> QED
  BY <1>2, <1>3, EnterStep DEF Flush

LEMMA FlushWalKnows ==
  ASSUME IInv, NEW t \in Threads, NEW sync \in BOOLEAN, FlushWal(t, sync)
  PROVE  IInv'
<1> DEFINE due == RecordsOf(returned \cap log)
           c == Call("log", {}, WriteOptions(sync, FALSE), due, Survives(sync, FALSE))
<1>1. due \subseteq present /\ due \subseteq Nat \X Families /\ due \subseteq RecordsOf(log)
  BY DEF IInv, TypeOK, RecordsOf
<1>2. WriteOptions(sync, FALSE) \in WriteOpts
  BY DEF WriteOptions, WriteOpts
<1>3. Survives(sync, FALSE) \in {"nothing", "process", "machine"}
  BY DEF Survives
<1>4. Survives(sync, FALSE) = "machine" => WriteOptions(sync, FALSE).sync
  BY Zenon DEF Survives, WriteOptions
<1>5. /\ c.at = "log" /\ c.due = due /\ c.survives = Survives(sync, FALSE)
      /\ c.opts = WriteOptions(sync, FALSE)
  BY DEF Call
<1>6. c \in Calls
  BY <1>1, <1>2, <1>3 DEF Call, Calls
<1>7. Knows(c)
  <2> HIDE DEF c, due
  <2> QED
    BY <1>1, <1>4, <1>5 DEF Knows
<1> QED
  BY <1>6, <1>7, EnterStep DEF FlushWal

LEMMA CreateBackupKnows ==
  ASSUME IInv, NEW t \in Threads, NEW flush \in BOOLEAN, CreateBackup(t, flush)
  PROVE  IInv'
<1>1. CASE flush
  <2> DEFINE c == Call("tables", Families, Defaults, RecordsOf(returned), "nothing")
  <2>1. RecordsOf(returned) \subseteq present /\ RecordsOf(returned) \subseteq Nat \X Families
    BY DEF IInv, TypeOK, RecordsOf
  <2>2. c \in Calls
    BY <2>1, DefaultsTyped DEF Call, Calls
  <2>3. Knows(c)
    BY <2>1 DEF Knows, Call
  <2> QED
    BY <1>1, <2>2, <2>3, EnterStep DEF CreateBackup
<1>2. CASE ~flush
  <2> DEFINE due == RecordsOf(returned \cap log)
             c == Call("copy", {}, Defaults, due, "nothing")
  <2>1. due \subseteq present /\ due \subseteq Nat \X Families /\ due \subseteq OnFiles
    BY DEF IInv, TypeOK, RecordsOf, OnFiles
  <2>2. c \in Calls
    BY <2>1, DefaultsTyped DEF Call, Calls
  <2>3. Knows(c)
    BY <2>1 DEF Knows, Call
  <2> QED
    BY <1>2, <2>2, <2>3, EnterStep DEF CreateBackup
<1> QED
  BY <1>1, <1>2

\* The call t goes on with.
LEMMA GoesOn ==
  ASSUME IInv, NEW t \in Threads, NEW due \in SUBSET (Nat \X Families),
         NEW at \in {"log", "copy", "return"}, Goes(t, at, due)
  PROVE  \E c \in Calls :
            /\ call' = [call EXCEPT ![t] = c]
            /\ c.at = at /\ c.due = due /\ c.survives = call[t].survives
            /\ at # "return" => c.opts = call[t].opts
<1> DEFINE c == Call(at, {}, IF at = "return" THEN Defaults ELSE call[t].opts, due,
                     call[t].survives)
<1>1. call \in [Threads -> Calls]
  BY DEF IInv, TypeOK
<1>2. call[t] \in Calls
  BY <1>1
<1>3. call[t].opts \in WriteOpts /\ call[t].survives \in {"nothing", "process", "machine"}
  BY <1>2 DEF Calls
<1>4. c \in Calls
  BY <1>3, DefaultsTyped DEF Call, Calls
<1>5. call' = [call EXCEPT ![t] = c]
  BY <1>1 DEF Goes
<1>6. /\ c.at = at /\ c.due = due /\ c.survives = call[t].survives
      /\ at # "return" => c.opts = call[t].opts
  BY DEF Call
<1> HIDE DEF c
<1> QED
  BY <1>4, <1>5, <1>6

\* What the invariant says of a call that is under way.
LEMMA CallUnderWay ==
  ASSUME IInv, NEW t \in Threads, call[t].at # "idle"
  PROVE  /\ call[t] \in Calls
         /\ db = "open"
         /\ Knows(call[t])
         /\ call[t].due \in SUBSET (Nat \X Families)
         /\ call[t].families \subseteq Families
<1>1. call[t] \in Calls
  BY DEF IInv, TypeOK
<1> QED
  BY <1>1 DEF IInv, AtRest, Calls

LEMMA WriteInCppKeeps == ASSUME IInv, NEW t \in Threads, WriteInCpp(t) PROVE IInv'
<1> DEFINE records == {last'} \X call[t].families
           at == IF call[t].opts.sync THEN "log" ELSE "return"
<1>1. /\ call[t].at = "write"
      /\ last' = last + 1
      /\ present' = present \cup records
      /\ log' = IF call[t].opts.disableWAL THEN log ELSE log \cup {last'}
      /\ Goes(t, at, records)
      /\ ~(call[t].opts.sync /\ call[t].opts.disableWAL)
      /\ asked' = IF call[t].survives = "nothing" THEN asked ELSE asked \cup records
      /\ UNCHANGED <<db, tables, synced, kept, promised>>
  BY DEF WriteInCpp
<1>2. /\ call[t] \in Calls /\ db = "open" /\ Knows(call[t])
      /\ call[t].families \subseteq Families
  BY <1>1, CallUnderWay
<1>3. last \in Nat /\ last' \in Nat /\ last' \in 1..last' /\ 1..last \subseteq 1..last'
  BY <1>1 DEF IInv, TypeOK
<1>4. records \in SUBSET (Nat \X Families) /\ records \subseteq (1..last') \X Families
  BY <1>2, <1>3
<1> HIDE DEF records
<1>5. at \in {"log", "copy", "return"}
  OBVIOUS
<1>6. PICK c \in Calls :
        /\ call' = [call EXCEPT ![t] = c]
        /\ c.at = at /\ c.due = records /\ c.survives = call[t].survives
        /\ at # "return" => c.opts = call[t].opts
  BY <1>1, <1>4, <1>5, GoesOn
<1>7. Grows
  BY <1>1 DEF Grows
<1>8. TypeOK'
  <2>1. present' \cup asked' \subseteq (1..last') \X Families
    <3>1. asked' \subseteq asked \cup records
      BY <1>1
    <3> QED
      BY <1>1, <1>3, <1>4, <3>1 DEF IInv, TypeOK
  <2>2. log' \subseteq 1..last'
    BY <1>1, <1>3 DEF IInv, TypeOK
  <2>3. tables' \subseteq present' /\ synced' \subseteq log'
    BY <1>1 DEF IInv, TypeOK
  <2>4. call' \in [Threads -> Calls]
    BY <1>6, OneCall DEF IInv
  <2> QED
    BY <1>1, <1>2, <1>3, <2>1, <2>2, <2>3, <2>4 DEF TypeOK
<1>9. Grounded'
  BY <1>1, <1>7, GroundedGrows
<1>10. Knows(c)'
  <2>1. records \subseteq present'
    BY <1>1
  <2>2. ~call[t].opts.disableWAL => records \subseteq RecordsOf(log)'
    BY <1>1, <2>1 DEF RecordsOf, records
  <2>3. ~call[t].opts.disableWAL => records \subseteq OnFiles'
    BY <2>2 DEF OnFiles
  <2> HIDE DEF at
  <2> QED
    <3>1. CASE call[t].opts.sync
      <4>1. at = "log" /\ ~call[t].opts.disableWAL
        BY <1>1, <3>1 DEF at
      <4>2. c.at = "log" /\ c.due = records /\ c.opts = call[t].opts
        BY <1>6, <4>1
      <4> QED
        BY <2>1, <2>2, <3>1, <4>1, <4>2 DEF Knows
    <3>2. CASE ~call[t].opts.sync
      <4>1. at = "return"
        BY <3>2 DEF at
      <4>2. c.at = "return" /\ c.due = records /\ c.survives = call[t].survives
        BY <1>6, <4>1
      <4>3. call[t].survives # "machine"
        BY <1>1, <1>2, <3>2 DEF Knows
      <4>4. call[t].survives = "process" => records \subseteq OnFiles'
        BY <1>1, <1>2, <2>3 DEF Knows
      <4> QED
        BY <2>1, <4>2, <4>3, <4>4 DEF Knows
    <3> QED
      BY <3>1, <3>2
<1> QED
  BY <1>1, <1>2, <1>6, <1>7, <1>8, <1>9, <1>10, ThreadStep

LEMMA LogInCppKeeps == ASSUME IInv, NEW t \in Threads, LogInCpp(t) PROVE IInv'
<1>1. /\ call[t].at = "log"
      /\ synced' = IF call[t].opts.sync THEN log ELSE synced
      /\ Goes(t, "return", call[t].due)
      /\ UNCHANGED <<db, last, present, tables, log, told>>
  BY DEF LogInCpp
<1>2. /\ db = "open" /\ Knows(call[t])
      /\ call[t].due \in SUBSET (Nat \X Families)
  BY <1>1, CallUnderWay
<1>3. PICK c \in Calls :
        /\ call' = [call EXCEPT ![t] = c]
        /\ c.at = "return" /\ c.due = call[t].due /\ c.survives = call[t].survives
  BY <1>1, <1>2, GoesOn
<1>4. Grows
  BY <1>1 DEF Grows, IInv, TypeOK
<1>5. TypeOK'
  <2>1. synced' \subseteq log'
    BY <1>1 DEF IInv, TypeOK
  <2>2. call' \in [Threads -> Calls]
    BY <1>3, OneCall DEF IInv
  <2> QED
    BY <1>1, <2>1, <2>2 DEF IInv, TypeOK, told
<1>6. Grounded'
  BY <1>1, <1>4, GroundedGrows DEF told
<1>7. Knows(c)'
  <2>1. call[t].due \subseteq present'
    BY <1>1, <1>2 DEF Knows
  <2>2. call[t].due \subseteq RecordsOf(log)
    BY <1>1, <1>2 DEF Knows
  <2>3. call[t].due \subseteq OnFiles'
    BY <2>2, <1>4, FilesGrow DEF OnFiles
  <2>4. call[t].survives = "machine" => call[t].due \subseteq OnDisk'
    <3> SUFFICES ASSUME call[t].survives = "machine" PROVE call[t].due \subseteq OnDisk'
      OBVIOUS
    <3>1. synced' = log
      BY <1>1, <1>2 DEF Knows
    <3> QED
      BY <1>1, <2>2, <3>1 DEF OnDisk, RecordsOf
  <2> QED
    BY <1>3, <2>1, <2>3, <2>4 DEF Knows
<1> QED
  BY <1>1, <1>2, <1>3, <1>4, <1>5, <1>6, <1>7, ThreadStep

\* Tables that are written are on the disk, and nothing else of the database changes.
LEMMA TablesGrow ==
  ASSUME IInv, NEW families, WriteTables(families)
  PROVE  /\ Grows
         /\ present' = present /\ log' = log /\ last' = last
         /\ tables' \subseteq present' /\ synced' \subseteq log'
         /\ {r \in present : r[2] \in families} \subseteq tables'
BY DEF WriteTables, Grows, IInv, TypeOK

LEMMA FlushInCppKeeps == ASSUME IInv, NEW t \in Threads, FlushInCpp(t) PROVE IInv'
<1> DEFINE at == IF call[t].survives = "nothing" THEN "copy" ELSE "return"
<1>1. /\ call[t].at = "tables"
      /\ WriteTables(call[t].families)
      /\ Goes(t, at, call[t].due)
      /\ UNCHANGED <<db, told>>
  BY DEF FlushInCpp, WriteTables
<1>2. /\ db = "open" /\ Knows(call[t])
      /\ call[t].due \in SUBSET (Nat \X Families)
  BY <1>1, CallUnderWay
<1>3. PICK c \in Calls :
        /\ call' = [call EXCEPT ![t] = c]
        /\ c.at = at /\ c.due = call[t].due /\ c.survives = call[t].survives
  BY <1>1, <1>2, GoesOn
<1>4. /\ Grows
      /\ present' = present /\ log' = log /\ last' = last
      /\ tables' \subseteq present' /\ synced' \subseteq log'
      /\ {r \in present : r[2] \in call[t].families} \subseteq tables'
  BY <1>1, TablesGrow
<1>5. TypeOK'
  <2>1. call' \in [Threads -> Calls]
    BY <1>3, OneCall DEF IInv
  <2> QED
    BY <1>1, <1>4, <2>1 DEF IInv, TypeOK, told
<1>6. Grounded'
  BY <1>1, <1>4, GroundedGrows DEF told
<1>7. Knows(c)'
  <2>1. call[t].due \subseteq present'
    BY <1>2, <1>4 DEF Knows
  <2>2. call[t].due \subseteq tables'
    BY <1>1, <1>2, <1>4 DEF Knows
  <2>3. call[t].due \subseteq OnDisk' /\ call[t].due \subseteq OnFiles'
    BY <2>2 DEF OnDisk, OnFiles
  <2> QED
    BY <1>3, <2>1, <2>3 DEF Knows
<1> QED
  BY <1>1, <1>2, <1>3, <1>4, <1>5, <1>6, <1>7, ThreadStep

LEMMA CopyInCppKeeps == ASSUME IInv, NEW t \in Threads, CopyInCpp(t) PROVE IInv'
<1>1. /\ call[t].at = "copy"
      /\ Goes(t, "return", call[t].due)
      /\ UNCHANGED <<db, storage, told>>
  BY DEF CopyInCpp
<1>2. /\ db = "open" /\ Knows(call[t])
      /\ call[t].due \in SUBSET (Nat \X Families)
  BY <1>1, CallUnderWay
<1>3. PICK c \in Calls :
        /\ call' = [call EXCEPT ![t] = c]
        /\ c.at = "return" /\ c.due = call[t].due /\ c.survives = call[t].survives
  BY <1>1, <1>2, GoesOn
<1>4. Grows
  BY <1>1 DEF Grows, storage
<1>5. TypeOK'
  <2>1. call' \in [Threads -> Calls]
    BY <1>3, OneCall DEF IInv
  <2> QED
    BY <1>1, <2>1 DEF IInv, TypeOK, storage, told
<1>6. Grounded'
  BY <1>1, <1>4, GroundedGrows DEF told
<1>7. Knows(c)'
  <2>1. call[t].due \subseteq present' /\ call[t].survives = "nothing"
    BY <1>1, <1>2 DEF Knows, storage
  <2> QED
    BY <1>3, <2>1 DEF Knows
<1> QED
  BY <1>1, <1>2, <1>3, <1>4, <1>5, <1>6, <1>7, ThreadStep

\* A call that ends leaves its thread idle.
LEMMA Ends ==
  ASSUME IInv, NEW t \in Threads, call[t].at # "idle",
         call' = [call EXCEPT ![t] = Idle], UNCHANGED <<db, storage, asked>>, Grounded'
  PROVE  IInv'
<1>1. Grows
  BY DEF Grows, storage
<1>2. db = "open"
  BY CallUnderWay
<1>3. TypeOK'
  <2>1. call' \in [Threads -> Calls]
    BY IdleKnows, OneCall DEF IInv
  <2> QED
    BY <2>1 DEF IInv, TypeOK, storage
<1> QED
  BY <1>1, <1>2, <1>3, IdleKnows, ThreadStep

LEMMA ReturnKeeps == ASSUME IInv, NEW t \in Threads, Return(t) PROVE IInv'
<1>1. /\ call[t].at = "return"
      /\ kept' = IF call[t].survives = "nothing" THEN kept ELSE kept \cup call[t].due
      /\ promised' = IF call[t].survives = "machine" THEN promised \cup call[t].due
                     ELSE promised
      /\ call' = [call EXCEPT ![t] = Idle]
      /\ UNCHANGED <<db, storage, asked>>
  BY DEF Return
<1>2. call[t] \in Calls /\ Knows(call[t])
  BY <1>1, CallUnderWay
<1>3. /\ call[t].survives = "machine" => call[t].due \subseteq OnDisk
      /\ call[t].survives = "process" => call[t].due \subseteq OnFiles
  BY <1>1, <1>2 DEF Knows
<1>4. OnDisk' = OnDisk /\ OnFiles' = OnFiles
  BY <1>1 DEF OnDisk, OnFiles, RecordsOf, storage
<1>5. OnDisk \subseteq OnFiles
  BY DEF OnDisk, OnFiles, RecordsOf, IInv, TypeOK
<1>6. call[t].survives \in {"nothing", "process", "machine"}
  BY <1>2 DEF Calls
<1>7. Grounded'
  <2>1. promised \subseteq kept /\ promised \subseteq OnDisk /\ kept \subseteq OnFiles
    BY DEF IInv, Grounded
  <2> QED
    BY <1>1, <1>3, <1>4, <1>5, <1>6, <2>1 DEF Grounded
<1> QED
  BY <1>1, <1>7, Ends

LEMMA FailKeeps == ASSUME IInv, NEW t \in Threads, Fail(t) PROVE IInv'
<1>1. Grounded'
  BY DEF Fail, IInv, Grounded, OnFiles, OnDisk, RecordsOf, storage, told
<1> QED
  BY <1>1, Ends DEF Fail, told

LEMMA CallStepKeeps == ASSUME IInv, NEW t \in Threads, CallStep(t) PROVE IInv'
<1>1. ASSUME NEW sync \in BOOLEAN, FlushWal(t, sync) PROVE IInv'
  BY <1>1, FlushWalKnows
<1>2. ASSUME NEW flush \in BOOLEAN, CreateBackup(t, flush) PROVE IInv'
  BY <1>2, CreateBackupKnows
<1>3. ASSUME NEW fs \in Batches, NEW sync \in BOOLEAN, NEW disable_wal \in BOOLEAN,
             Write(t, fs, sync, disable_wal)
      PROVE  IInv'
  BY <1>3, WriteKnows
<1> QED
  BY <1>1, <1>2, <1>3, FlushKnows, WriteInCppKeeps, LogInCppKeeps, FlushInCppKeeps,
     CopyInCppKeeps, ReturnKeeps, FailKeeps DEF CallStep

-------------------------------------------------------------------------------
(* Closing, crashes and background jobs *)

LEMMA BackgroundFlushKeeps ==
  ASSUME IInv, NEW f \in Families, BackgroundFlush(f)
  PROVE  IInv'
<1>1. WriteTables({f}) /\ UNCHANGED <<db, call, told>>
  BY DEF BackgroundFlush, WriteTables
<1>2. /\ Grows
      /\ present' = present /\ log' = log /\ last' = last
      /\ tables' \subseteq present' /\ synced' \subseteq log'
  BY <1>1, TablesGrow
<1>3. TypeOK' /\ AtRest'
  BY <1>1, <1>2 DEF IInv, TypeOK, AtRest, told
<1>4. Grounded'
  BY <1>1, <1>2, GroundedGrows DEF told
<1>5. \A u \in Threads : Knows(call[u])'
  <2> TAKE u \in Threads
  <2>1. PICK d : d = call[u]
    OBVIOUS
  <2>2. Knows(d)
    BY <2>1 DEF IInv
  <2>3. Knows(d)'
    BY <1>2, <2>2, KnowsGrows
  <2> QED
    BY <1>1, <2>1, <2>3 DEF Knows
<1> QED
  BY <1>3, <1>4, <1>5 DEF IInv

\* Where every thread is idle, nobody knows anything.
LEMMA AllIdle ==
  ASSUME \A t \in Threads : call'[t].at = "idle" /\ call'[t].due = {}
  PROVE  AtRest' /\ \A t \in Threads : Knows(call[t])'
BY DEF AtRest, Knows

LEMMA CloseKeeps == ASSUME IInv, Close PROVE IInv'
<1>1. /\ \A t \in Threads : call[t].at = "idle"
      /\ db' = "closed"
      /\ tables' \in {tables, present}
      /\ synced' = IF tables' # tables THEN log ELSE synced
      /\ present' = tables' \cup RecordsOf(log)
      /\ UNCHANGED <<call, last, log, told>>
  BY DEF Close
<1>2. /\ present \cup asked \subseteq (1..last) \X Families /\ tables \subseteq present
      /\ synced \subseteq log /\ log \subseteq 1..last
      /\ call \in [Threads -> Calls] /\ last \in Nat
  BY DEF IInv, TypeOK
<1>3. tables \subseteq tables' /\ tables' \subseteq present /\ synced \subseteq synced'
  BY <1>1, <1>2
<1>4. present' \subseteq present
  BY <1>1, <1>3 DEF RecordsOf
<1>5. TypeOK'
  <2>1. synced' \subseteq log'
    BY <1>1, <1>2
  <2> QED
    BY <1>1, <1>2, <1>3, <1>4, <2>1 DEF TypeOK, told
<1>6. OnFiles \subseteq OnFiles'
  BY <1>1, <1>3 DEF OnFiles, RecordsOf
<1>7. OnDisk \subseteq OnDisk'
  BY <1>1, <1>2, <1>3 DEF OnDisk, RecordsOf
<1>8. Grounded'
  BY <1>1, <1>6, <1>7 DEF IInv, Grounded, told
<1>9. \A t \in Threads : call'[t].at = "idle" /\ call'[t].due = {}
  BY <1>1 DEF IInv, Knows
<1> QED
  BY <1>5, <1>8, <1>9, AllIdle DEF IInv

\* A crash that leaves what was synced.
LEMMA CrashLeaves ==
  ASSUME IInv, NEW l \in SUBSET log, synced \subseteq l, Crash(l)
  PROVE  /\ TypeOK' /\ AtRest' /\ \A t \in Threads : Knows(call[t])'
         /\ OnDisk \subseteq OnDisk' /\ OnDisk' \subseteq OnFiles'
         /\ l = log => OnFiles \subseteq OnFiles'
<1>1. /\ db' = "down"
      /\ call' = [t \in Threads |-> Idle]
      /\ log' = l
      /\ present' = tables \cup RecordsOf(l)
      /\ UNCHANGED <<last, tables, synced, asked, returned, promised>>
  BY DEF Crash
<1>2. /\ present \cup asked \subseteq (1..last) \X Families /\ tables \subseteq present
      /\ log \subseteq 1..last /\ last \in Nat
  BY DEF IInv, TypeOK
<1>3. present' \subseteq present
  BY <1>1, <1>2 DEF RecordsOf
<1>4. call' \in [Threads -> Calls]
  BY <1>1, IdleKnows
<1>5. TypeOK'
  BY <1>1, <1>2, <1>3, <1>4 DEF TypeOK
<1>6. OnDisk \subseteq OnDisk' /\ OnDisk' \subseteq OnFiles'
  BY <1>1 DEF OnDisk, OnFiles, RecordsOf
<1>7. l = log => OnFiles \subseteq OnFiles'
  BY <1>1 DEF OnFiles, RecordsOf
<1>8. \A t \in Threads : call'[t].at = "idle" /\ call'[t].due = {}
  BY <1>1, IdleKnows DEF Idle, Call
<1> QED
  BY <1>5, <1>6, <1>7, <1>8, AllIdle

LEMMA ProcessDiesKeeps == ASSUME IInv, ProcessDies PROVE IInv'
<1>1. Crash(log) /\ kept' = kept /\ promised' = promised
  BY DEF ProcessDies, Crash
<1>2. synced \subseteq log /\ log \in SUBSET log
  BY DEF IInv, TypeOK
<1>3. /\ TypeOK' /\ AtRest' /\ \A t \in Threads : Knows(call[t])'
      /\ OnDisk \subseteq OnDisk' /\ OnFiles \subseteq OnFiles'
  BY <1>1, <1>2, CrashLeaves
<1>4. Grounded'
  BY <1>1, <1>3 DEF IInv, Grounded
<1> QED
  BY <1>3, <1>4 DEF IInv

LEMMA MachineCrashesKeeps == ASSUME IInv, MachineCrashes PROVE IInv'
<1>1. PICK l \in LogsLeft : Crash(l)
  BY DEF MachineCrashes
<1>2. kept' = promised /\ promised' = promised
  BY <1>1 DEF MachineCrashes, Crash
<1>3. l \in SUBSET log /\ synced \subseteq l
  BY DEF LogsLeft
<1>4. /\ TypeOK' /\ AtRest' /\ \A t \in Threads : Knows(call[t])'
      /\ OnDisk \subseteq OnDisk' /\ OnDisk' \subseteq OnFiles'
  BY <1>1, <1>3, CrashLeaves
<1>5. Grounded'
  BY <1>2, <1>4 DEF IInv, Grounded
<1> QED
  BY <1>4, <1>5 DEF IInv

\* Nothing changes for the calls and the files.
LEMMA UnchangedKeeps ==
  ASSUME IInv, UNCHANGED <<call, storage, told>>, db' \in {db, "open"}
  PROVE  IInv'
BY DEF IInv, TypeOK, Grounded, AtRest, Knows, OnDisk, OnFiles, RecordsOf, storage, told

\* Every step keeps the invariant.
LEMMA StepIInv == ASSUME IInv, [Next]_vars PROVE IInv'
<1>1. ASSUME NEW t \in Threads, CallStep(t) PROVE IInv'
  BY <1>1, CallStepKeeps
<1>2. ASSUME NEW f \in Families, BackgroundFlush(f) PROVE IInv'
  BY <1>2, BackgroundFlushKeeps
<1>3. CASE Open
  BY <1>3, UnchangedKeeps DEF Open
<1>4. CASE UNCHANGED vars
  BY <1>4, UnchangedKeeps DEF vars
<1> QED
  BY <1>1, <1>2, <1>3, <1>4, CloseKeeps, ProcessDiesKeeps, MachineCrashesKeeps
     DEF Next, StoreStep

-------------------------------------------------------------------------------
(* The order of what survives *)

\* Nothing happens to the log and the tables.
StaysPut == UNCHANGED <<present, tables, log, synced, asked>>

LEMMA StaysInOrder == ASSUME Order, StaysPut PROVE Order'
BY DEF Order, NoGaps, TablesBehindLog, AskedLogged, OnFiles, RecordsOf, StaysPut

\* Where no record comes and neither the log nor the tables lose any.
LEMMA AskedKeeps ==
  ASSUME AskedLogged, asked' = asked, present' \subseteq present, log' = log,
         tables \subseteq tables'
  PROVE  AskedLogged'
BY DEF AskedLogged, OnFiles, RecordsOf

\* A write whose caller left the log on is logged.
LEMMA WriteAskedLogged ==
  ASSUME IInv, AskedLogged, NEW t \in Threads, WriteInCpp(t)
  PROVE  AskedLogged'
<1> DEFINE records == {last + 1} \X call[t].families
<1>1. /\ call[t].at = "write"
      /\ present' = present \cup records
      /\ log' = IF call[t].opts.disableWAL THEN log ELSE log \cup {last + 1}
      /\ asked' = IF call[t].survives = "nothing" THEN asked ELSE asked \cup records
      /\ ~(call[t].opts.sync /\ call[t].opts.disableWAL)
      /\ tables' = tables
  BY DEF WriteInCpp
<1>2. /\ last \in Nat /\ log \subseteq 1..last
      /\ asked \subseteq (1..last) \X Families
  BY DEF IInv, TypeOK
<1>3. /\ call[t].survives \in {"nothing", "process", "machine"}
      /\ Knows(call[t])
  BY <1>1, CallUnderWay DEF Calls
<1>4. call[t].survives # "nothing" => log' = log \cup {last + 1}
  BY <1>1, <1>3 DEF Knows
<1>5. \A q \in records : q[1] = last + 1
  OBVIOUS
<1> HIDE DEF records
<1>6. asked' \subseteq asked \cup records /\ log \subseteq log'
  BY <1>1
<1>7. CASE call[t].survives = "nothing"
  <2>1. asked' = asked
    BY <1>1, <1>7
  <2>2. asked \cap records = {}
    <3> SUFFICES ASSUME NEW q \in records, q \in asked PROVE FALSE
      OBVIOUS
    <3>1. q[1] = last + 1 /\ q[1] \in 1..last
      BY <1>2, <1>5
    <3> QED
      BY <1>2, <3>1
  <2>3. OnFiles \subseteq OnFiles' /\ RecordsOf(log) \subseteq RecordsOf(log)'
    BY <1>1, <1>6 DEF OnFiles, RecordsOf
  <2> QED
    BY <1>1, <2>1, <2>2, <2>3 DEF AskedLogged
<1>8. CASE call[t].survives # "nothing"
  <2>1. log' = log \cup {last + 1}
    BY <1>4, <1>8
  <2>2. asked' \cap present' \subseteq (asked \cap present) \cup records
    BY <1>1, <1>6
  <2>3. records \subseteq RecordsOf(log)'
    BY <1>1, <1>5, <2>1 DEF RecordsOf
  <2>4. OnFiles \subseteq OnFiles' /\ RecordsOf(log) \subseteq RecordsOf(log)'
    BY <1>1, <1>6 DEF OnFiles, RecordsOf
  <2>5. RecordsOf(log)' \subseteq OnFiles'
    BY DEF OnFiles
  <2> QED
    BY <2>2, <2>3, <2>4, <2>5 DEF AskedLogged
<1> QED
  BY <1>7, <1>8

\* A write comes after all others.
LEMMA WriteInOrder == ASSUME IInv, Order, NEW t \in Threads, WriteInCpp(t) PROVE Order'
<1> DEFINE records == {last + 1} \X call[t].families
<1>1. /\ present' = present \cup records
      /\ log' \subseteq log \cup {last + 1}
      /\ tables' = tables /\ synced' = synced
  BY DEF WriteInCpp
<1>2. /\ last \in Nat /\ log \subseteq 1..last /\ synced \subseteq log
      /\ tables \subseteq (1..last) \X Families
  BY DEF IInv, TypeOK
<1>3. NoGaps'
  BY <1>1, <1>2 DEF Order, NoGaps
<1>4. \A r \in tables : r[1] \in 1..last
  BY <1>2
<1>5. \A q \in records : q[1] = last + 1
  OBVIOUS
<1>6. TablesBehindLog
  BY DEF Order
<1> HIDE DEF records
<1>7. CASE Families = {Default}
  <2> SUFFICES ASSUME NEW r \in tables, NEW q \in present \cup records, q[1] <= r[1]
               PROVE  q \in tables
    BY <1>1, <1>3, <1>7, WriteAskedLogged DEF Order, TablesBehindLog
  <2>1. q \notin records
    BY <1>2, <1>4, <1>5
  <2>2. q \in present
    BY <2>1
  <2> QED
    BY <1>6, <1>7, <2>2 DEF TablesBehindLog
<1>8. CASE Families # {Default}
  <2> SUFFICES ASSUME NEW r \in tables, r[1] \in log' PROVE r[1] \in synced
    BY <1>1, <1>3, <1>8, WriteAskedLogged DEF Order, TablesBehindLog
  <2>1. r[1] \in log
    BY <1>1, <1>2, <1>4
  <2> QED
    BY <1>6, <1>8, <2>1 DEF TablesBehindLog
<1>9. AskedLogged'
  BY WriteAskedLogged DEF Order
<1> QED
  BY <1>7, <1>8, <1>9

LEMMA LogInOrder == ASSUME IInv, Order, NEW t \in Threads, LogInCpp(t) PROVE Order'
<1>1. /\ synced' \in {log, synced}
      /\ UNCHANGED <<present, tables, log, asked>>
  BY DEF LogInCpp, told
<1>2. synced \subseteq log
  BY DEF IInv, TypeOK
<1>3. AskedLogged'
  BY <1>1, AskedKeeps DEF Order
<1> QED
  BY <1>1, <1>2, <1>3 DEF Order, NoGaps, TablesBehindLog

\* Tables go with the log, or with all records there are.
LEMMA TablesInOrder ==
  ASSUME IInv, Order, NEW families \in SUBSET Families, WriteTables(families)
  PROVE  Order'
<1>1. /\ tables' = tables \cup {r \in present : r[2] \in families}
      /\ synced' = IF Families # {Default} THEN log ELSE synced
      /\ UNCHANGED <<present, log, asked>>
  BY DEF WriteTables, told
<1>0. AskedLogged'
  BY <1>1, AskedKeeps DEF Order
<1>2. /\ present \subseteq (1..last) \X Families /\ synced \subseteq log
      /\ tables \subseteq present
  BY DEF IInv, TypeOK
<1>3. CASE Families = {Default}
  <2>1. tables' = tables \/ tables' = present
    <3>1. families = {} \/ families = {Default}
      BY <1>3
    <3>2. \A r \in present : r[2] = Default
      BY <1>2, <1>3
    <3> QED
      BY <1>1, <1>2, <3>1, <3>2
  <2> QED
    BY <1>0, <1>1, <1>3, <2>1 DEF Order, NoGaps, TablesBehindLog
<1>4. CASE Families # {Default}
  BY <1>0, <1>1, <1>2, <1>4 DEF Order, NoGaps, TablesBehindLog
<1> QED
  BY <1>3, <1>4

LEMMA CloseInOrder == ASSUME IInv, Order, Close PROVE Order'
<1>1. /\ tables' \in {tables, present}
      /\ synced' = IF tables' # tables THEN log ELSE synced
      /\ present' = tables' \cup RecordsOf(log)
      /\ log' = log /\ asked' = asked
  BY DEF Close, told
<1>2. synced \subseteq log /\ tables \subseteq present
  BY DEF IInv, TypeOK
<1>3. present' \subseteq present
  BY <1>1, <1>2 DEF RecordsOf
<1>4. NoGaps'
  BY <1>1, <1>2 DEF Order, NoGaps
<1>5. TablesBehindLog'
  BY <1>1, <1>2, <1>3 DEF Order, TablesBehindLog
<1>6. AskedLogged'
  BY <1>1, <1>2, <1>3, AskedKeeps DEF Order
<1> QED
  BY <1>4, <1>5, <1>6 DEF Order

LEMMA CrashInOrder ==
  ASSUME IInv, Order, NEW l \in SUBSET log, synced \subseteq l, Crash(l)
  PROVE  Order'
<1>1. /\ log' = l /\ tables' = tables /\ synced' = synced
      /\ present' = tables \cup RecordsOf(l)
      /\ asked' = asked
  BY DEF Crash
<1>2. present' \subseteq present /\ tables \subseteq present
  BY <1>1 DEF RecordsOf, IInv, TypeOK
<1>3. NoGaps' /\ TablesBehindLog'
  BY <1>1, <1>2 DEF Order, NoGaps, TablesBehindLog
<1>4. present' = OnFiles'
  BY <1>1 DEF OnFiles, RecordsOf
<1>5. ASSUME Families # {Default}
      PROVE  asked \cap present' \subseteq RecordsOf(log)'
  <2> SUFFICES ASSUME NEW r \in asked, r \in tables PROVE r[1] \in l
    BY <1>1 DEF RecordsOf
  <2>1. r[1] \in log
    BY <1>2, <1>5 DEF Order, AskedLogged, RecordsOf
  <2> QED
    BY <1>5, <2>1 DEF Order, TablesBehindLog
<1>6. AskedLogged'
  BY <1>1, <1>4, <1>5 DEF AskedLogged
<1> QED
  BY <1>3, <1>6 DEF Order

\* What a step of RocksDB, a crash or a thread may be, as far as the order is concerned.
LEMMA StepKinds ==
  ASSUME IInv, [Next]_vars
  PROVE  \/ StaysPut
         \/ \E t \in Threads : WriteInCpp(t) \/ LogInCpp(t)
         \/ \E families \in SUBSET Families : WriteTables(families)
         \/ Close
         \/ \E l \in LogsLeft \cup {log} : Crash(l)
<1>1. ASSUME NEW t \in Threads, FlushInCpp(t)
      PROVE  \E families \in SUBSET Families : WriteTables(families)
  <2>1. call[t].families \in SUBSET Families
    BY <1>1, CallUnderWay DEF FlushInCpp
  <2>2. WriteTables(call[t].families)
    BY <1>1 DEF FlushInCpp
  <2> QED
    BY <2>1, <2>2
<1>2. ASSUME NEW t \in Threads, CallStep(t)
      PROVE  StaysPut \/ WriteInCpp(t) \/ LogInCpp(t) \/ FlushInCpp(t)
  BY <1>2 DEF CallStep, StaysPut, FlushWal, CreateBackup, Write, Flush, Enter, CopyInCpp,
              Return, Fail, storage, told
<1>3. ASSUME NEW f \in Families, BackgroundFlush(f)
      PROVE  \E families \in SUBSET Families : WriteTables(families)
  <2>1. {f} \in SUBSET Families /\ WriteTables({f})
    BY <1>3 DEF BackgroundFlush
  <2> QED
    BY <2>1
<1>4. Open \/ UNCHANGED vars => StaysPut
  BY DEF Open, vars, storage, told, StaysPut
<1>5. ProcessDies \/ MachineCrashes => \E l \in LogsLeft \cup {log} : Crash(l)
  BY DEF ProcessDies, MachineCrashes
<1> QED
  BY <1>1, <1>2, <1>3, <1>4, <1>5 DEF Next, StoreStep

\* What a crash leaves of the log.
LEMMA WhatIsLeft ==
  ASSUME IInv, NEW l \in LogsLeft \cup {log}
  PROVE  /\ l \in SUBSET log /\ synced \subseteq l
         /\ \A n \in l, m \in log : m < n => m \in l
BY DEF LogsLeft, IInv, TypeOK

LEMMA StepOrder == ASSUME IInv, Order, [Next]_vars PROVE Order'
<1>1. ASSUME NEW l \in LogsLeft \cup {log}, Crash(l) PROVE Order'
  BY <1>1, WhatIsLeft, CrashInOrder
<1> QED
  BY <1>1, StepKinds, StaysInOrder, WriteInOrder, LogInOrder, TablesInOrder, CloseInOrder

\* The claim of LogSurvivesInOrder about one step.
InOrder == db' = "down" =>
               \A r, q \in asked \cap present :
                   q[1] <= r[1] /\ r \in present' => q \in present'

LEMMA StepInOrder == ASSUME IInv, Order, [Next]_vars PROVE InOrder
<1>1. CASE present \subseteq present'
  BY <1>1 DEF InOrder, RecordsOf
<1>2. ASSUME NEW l \in LogsLeft \cup {log}, Crash(l) PROVE InOrder
  <2>1. /\ l \in SUBSET log /\ synced \subseteq l
        /\ \A n \in l, m \in log : m < n => m \in l
    BY WhatIsLeft
  <2>2. present' = tables \cup RecordsOf(l)
    BY <1>2 DEF Crash
  <2> SUFFICES ASSUME NEW r \in asked \cap present, NEW q \in asked \cap present,
                      q[1] <= r[1], r \in present'
               PROVE  q \in present'
    BY DEF InOrder
  <2>3. r[1] \in Nat /\ q[1] \in Nat /\ l \subseteq Nat /\ log \subseteq Nat
    BY <2>1 DEF IInv, TypeOK
  <2>4. ASSUME r[1] \in l, q[1] \in log PROVE q \in present'
    <3>1. q[1] \in l
      BY <2>1, <2>3, <2>4
    <3> QED
      BY <2>2, <3>1 DEF RecordsOf
  <2>5. r \in tables \/ r[1] \in l
    BY <2>2 DEF RecordsOf
  <2>6. CASE Families = {Default}
    <3>1. q \in tables \/ q[1] \in log
      BY <2>6 DEF Order, AskedLogged, OnFiles, RecordsOf
    <3>2. r \in tables => q \in tables
      BY <2>6 DEF Order, TablesBehindLog
    <3> QED
      BY <2>2, <2>4, <2>5, <3>1, <3>2
  <2>7. CASE Families # {Default}
    <3>1. r[1] \in log /\ q[1] \in log
      BY <2>7 DEF Order, AskedLogged, RecordsOf
    <3>2. r[1] \in l
      BY <2>1, <2>5, <2>7, <3>1 DEF Order, TablesBehindLog
    <3> QED
      BY <2>4, <3>1, <3>2
  <2> QED
    BY <2>6, <2>7
<1>3. Close => db' # "down"
  BY DEF Close
<1>4. ASSUME NEW t \in Threads, WriteInCpp(t) \/ LogInCpp(t) PROVE present \subseteq present'
  BY <1>4 DEF WriteInCpp, LogInCpp
<1>5. ASSUME NEW families, WriteTables(families) PROVE present \subseteq present'
  BY <1>5 DEF WriteTables
<1>6. StaysPut => present \subseteq present'
  BY DEF StaysPut
<1>7. Close => InOrder
  BY <1>3 DEF InOrder
<1> QED
  BY <1>1, <1>2, <1>4, <1>5, <1>6, <1>7, StepKinds

-------------------------------------------------------------------------------
(* Theorems *)

THEOREM Invariant == Spec => [](IInv /\ Order)
<1>1. IInv /\ Order /\ [Next]_vars => (IInv /\ Order)'
  BY StepIInv, StepOrder
<1> QED
  BY InitIInv, <1>1, PTL DEF Spec

\* What a call that returned promised survives: the death of the process, and the crash
\* of the machine at any moment, as far as sync, flush and flush_wal say so.
THEOREM PromisesSurvive == Spec => []PromisesKept
<1>1. IInv => PromisesKept
  <2> SUFFICES ASSUME IInv PROVE PromisesKept
    OBVIOUS
  <2>1. OnFiles \subseteq present
    BY DEF IInv, TypeOK, OnFiles, RecordsOf
  <2> QED
    BY <2>1 DEF IInv, Grounded, PromisesKept
<1> QED
  BY <1>1, Invariant, PTL

\* A backup holds the writes that returned before create_backup was called.
THEOREM BackupsHoldAll == Spec => []BackupsComplete
<1>1. IInv => BackupsComplete
  BY DEF IInv, BackupsComplete, Knows
<1> QED
  BY <1>1, Invariant, PTL

\* What a crash leaves of the writes whose callers left the log on is whole and without
\* gaps.
THEOREM SurvivesInOrder == Spec => LogSurvivesInOrder
<1>1. IInv /\ Order /\ [Next]_vars => [InOrder]_vars
  BY StepInOrder
<1>2. Spec => [][InOrder]_vars
  BY <1>1, Invariant, PTL DEF Spec
<1> QED
  BY <1>2 DEF LogSurvivesInOrder, InOrder
===============================================================================
