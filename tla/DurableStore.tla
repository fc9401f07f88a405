----------------------------- MODULE DurableStore -----------------------------
(***************************************************************************)
(* What put, delete, merge, write, flush, flush_wal and close of a DB do   *)
(* for the survival of what was written, when the process dies or the      *)
(* machine does; and what a backup holds.                                  *)
(*                                                                         *)
(* A write is a batch over some column families; put, delete and merge are *)
(* batches over one.  Every method enters C++ without the GIL and returns  *)
(* later: calls of several threads overlap, and a crash comes between any  *)
(* two steps.  Of RocksDB: the tables of a column family, on the disk, and *)
(* the log (WAL), of which a part is on the disk and the rest with the     *)
(* operating system.                                                       *)
(***************************************************************************)
EXTENDS Integers

CONSTANTS
    Threads,
    Families,
    Default,    \* the default column family
    Batches,    \* the sets of column families that writes go to
    MaxWrites   \* bound: no write is begun after so many

ASSUME StoreAssumption == Default \in Families /\ Batches \subseteq SUBSET Families

VARIABLES
    db,         \* open, closed, down (the process died)
    last,       \* the last write; writes are numbered in their order
    present,    \* the records <<write, family>> in the database
    tables,     \* those in table files
    log,        \* the writes in the log
    synced,     \* those whose part of the log is on the disk
    call,       \* the call each thread is in
    asked,      \* history: the records written for callers who left the log on
    returned,   \* the writes that returned
    kept,       \* the records that are to survive the death of the process
    promised    \* those that are to survive a crash of the machine, too

storage == <<last, present, tables, log, synced>>
told == <<asked, returned, kept, promised>>
vars == <<db, call, storage, told>>

-------------------------------------------------------------------------------
RecordsOf(ns) == {r \in present : r[1] \in ns}

\* The database that a process finds on the files.
OnFiles == tables \cup RecordsOf(log)

\* What a crash of the machine may leave of the log: no gaps.
LogsLeft == {l \in SUBSET log :
                 /\ synced \subseteq l
                 /\ \A n \in l, m \in log : m < n => m \in l}

-------------------------------------------------------------------------------
(* Calls *)

\* due: the records the program may count on when the call has returned;
\* survives: what they survive then.
Call(at, families, opts, due, survives) ==
    [at |-> at, families |-> families, opts |-> opts, due |-> due,
     survives |-> survives]

\* Wrong: the two options are mixed up.
WriteOptions_Swapped(sync, disable_wal) == [sync |-> disable_wal, disableWAL |-> sync]

\* Wrong: sync is not handed over.
WriteOptions_NotSync(sync, disable_wal) == [sync |-> FALSE, disableWAL |-> disable_wal]

WriteOptions(sync, disable_wal) == [sync |-> sync, disableWAL |-> disable_wal]

Defaults == [sync |-> FALSE, disableWAL |-> FALSE]

Idle == Call("idle", {}, Defaults, {}, "nothing")

Survives(sync, disable_wal) == IF sync THEN "machine"
                               ELSE IF disable_wal THEN "nothing" ELSE "process"

Enter(t, c) ==
    /\ db = "open"
    /\ call[t].at = "idle"
    /\ call' = [call EXCEPT ![t] = c]
    /\ UNCHANGED <<db, storage, told>>

\* put, delete_single, delete_range and merge write to one family, write() to those
\* of the batch.
Write(t, families, sync, disable_wal) ==
    /\ last < MaxWrites
    /\ Enter(t, Call("write", families, WriteOptions(sync, disable_wal), {},
                     Survives(sync, disable_wal)))

\* Of the default column family.
Flush(t) ==
    Enter(t, Call("tables", {Default}, Defaults,
                  {r \in RecordsOf(returned) : r[2] = Default}, "machine"))

FlushWal(t, sync) ==
    Enter(t, Call("log", {}, WriteOptions(sync, FALSE), RecordsOf(returned \cap log),
                  Survives(sync, FALSE)))

\* Wrong: flush_before_backup is not handed over.
CreateBackup_NoFlush(t, flush) ==
    Enter(t, Call("copy", {}, Defaults,
                  IF flush THEN RecordsOf(returned) ELSE RecordsOf(returned \cap log),
                  "nothing"))

\* BackupEngine.create_backup: it may flush all column families, then copies what is
\* on the files.
CreateBackup(t, flush) ==
    IF flush
    THEN Enter(t, Call("tables", Families, Defaults, RecordsOf(returned), "nothing"))
    ELSE Enter(t, Call("copy", {}, Defaults, RecordsOf(returned \cap log), "nothing"))

-------------------------------------------------------------------------------
(* In RocksDB *)

Goes(t, at, due) ==
    call' = [call EXCEPT ![t] = Call(at, {}, IF at = "return" THEN Defaults ELSE @.opts,
                                     due, @.survives)]

\* A batch is logged and applied as one.  One that is to be synced and not logged is
\* refused, see Fail.
WriteInCpp(t) ==
    /\ call[t].at = "write"
    /\ ~(call[t].opts.sync /\ call[t].opts.disableWAL)
    /\ last' = last + 1
    /\ LET records == {last'} \X call[t].families
       IN  /\ present' = present \cup records
           /\ log' = IF call[t].opts.disableWAL THEN log ELSE log \cup {last'}
           /\ asked' = IF call[t].survives = "nothing" THEN asked ELSE asked \cup records
           /\ Goes(t, IF call[t].opts.sync THEN "log" ELSE "return", records)
    /\ UNCHANGED <<db, tables, synced, returned, kept, promised>>

LogInCpp(t) ==
    /\ call[t].at = "log"
    /\ synced' = IF call[t].opts.sync THEN log ELSE synced
    /\ Goes(t, "return", call[t].due)
    /\ UNCHANGED <<db, last, present, tables, log, told>>

\* Where there are several column families none may be ahead of the log.
WriteTables(families) ==
    /\ tables' = tables \cup {r \in present : r[2] \in families}
    /\ synced' = IF Families # {Default} THEN log ELSE synced
    /\ UNCHANGED <<db, last, present, log, told>>

\* Followed by the copy, where it is done for a backup.
FlushInCpp(t) ==
    /\ call[t].at = "tables"
    /\ WriteTables(call[t].families)
    /\ Goes(t, IF call[t].survives = "nothing" THEN "copy" ELSE "return", call[t].due)

CopyInCpp(t) ==
    /\ call[t].at = "copy"
    /\ Goes(t, "return", call[t].due)
    /\ UNCHANGED <<db, storage, told>>

BackgroundFlush(f) == db = "open" /\ WriteTables({f}) /\ UNCHANGED call

\* check_status finds no error.
Return(t) ==
    /\ call[t].at = "return"
    /\ returned' = returned \cup {r[1] : r \in call[t].due}
    /\ kept' = IF call[t].survives = "nothing" THEN kept ELSE kept \cup call[t].due
    /\ promised' = IF call[t].survives = "machine" THEN promised \cup call[t].due
                   ELSE promised
    /\ call' = [call EXCEPT ![t] = Idle]
    /\ UNCHANGED <<db, storage, asked>>

\* check_status raises, whatever RocksDB had done by then.
Fail(t) ==
    /\ call[t].at # "idle"
    /\ call' = [call EXCEPT ![t] = Idle]
    /\ UNCHANGED <<db, storage, told>>

-------------------------------------------------------------------------------
(* Closing, crashes, opening *)

\* Deleting the database may write its tables, and has no way to say that it failed.
Close ==
    /\ db = "open"
    /\ \A t \in Threads : call[t].at = "idle"
    /\ db' = "closed"
    /\ tables' \in {tables, present}
    /\ synced' = IF tables' # tables THEN log ELSE synced
    /\ present' = tables' \cup RecordsOf(log)
    /\ UNCHANGED <<call, last, log, told>>

Crash(l) ==
    /\ db' = "down"
    /\ call' = [t \in Threads |-> Idle]
    /\ log' = l
    /\ present' = tables \cup RecordsOf(l)
    /\ UNCHANGED <<last, tables, synced, asked, returned, promised>>

ProcessDies == db = "open" /\ Crash(log) /\ UNCHANGED kept

MachineCrashes ==
    /\ \E l \in LogsLeft : Crash(l)
    /\ kept' = promised

\* The log is replayed.
Open == /\ db # "open"
        /\ db' = "open"
        /\ UNCHANGED <<call, storage, told>>

-------------------------------------------------------------------------------
Init ==
    /\ db = "open"
    /\ last = 0
    /\ call = [t \in Threads |-> Idle]
    /\ present = {} /\ tables = {} /\ log = {} /\ synced = {}
    /\ asked = {} /\ returned = {} /\ kept = {} /\ promised = {}

CallStep(t) ==
    \/ \E sync \in BOOLEAN :
           \/ FlushWal(t, sync) \/ CreateBackup(t, sync)
           \/ \E fs \in Batches, disable_wal \in BOOLEAN :
                  Write(t, fs, sync, disable_wal)
    \/ Flush(t)
    \/ WriteInCpp(t) \/ LogInCpp(t) \/ FlushInCpp(t) \/ CopyInCpp(t)
    \/ Return(t) \/ Fail(t)

StoreStep ==
    \/ \E f \in Families : BackgroundFlush(f)
    \/ Close \/ ProcessDies \/ MachineCrashes \/ Open

Next == StoreStep \/ \E t \in Threads : CallStep(t)

Spec == Init /\ [][Next]_vars

-------------------------------------------------------------------------------
(* Properties *)

\* What a call that returned has promised is in the database: after the process died
\* whatever was logged, after a crash of the machine what was written with sync, or
\* before a flush_wal(sync=True), or to the default column family before a flush().
PromisesKept == promised \subseteq kept /\ kept \subseteq present

\* A crash keeps of the writes whose callers left the log on all up to some point, and
\* each of them in all its column families or in none, although these go to the disk
\* apart from each other and writes without log lie between them.
LogSurvivesInOrder ==
    [][db' = "down" =>
        \A r, q \in asked \cap present :
            q[1] <= r[1] /\ r \in present' => q \in present']_vars

\* A backup that is made after a flush holds every write that had returned before,
\* and one that is made without holds those that were logged.
BackupsComplete == \A t \in Threads : call[t].at = "copy" => call[t].due \subseteq OnFiles
===============================================================================
