--------------------------- MODULE CallbackOwnership ---------------------------
(***************************************************************************)
(* Who keeps a Python callback alive while RocksDB may call it.            *)
(*                                                                         *)
(* A comparator, merge operator, filter policy or slice transform reaches  *)
(* C++ as a bare pointer, copied with the options of a column family.  The *)
(* Python object behind it lives as long as the py_* field of an options   *)
(* object refers to it, and the options object as long as the program, a   *)
(* DB's opts and cf_options or a running method do.  RocksDB may call back *)
(* as long as it has the column family in memory: after a drop, while      *)
(* iterators, calls or background jobs use it; after close(), until the    *)
(* database is deleted.  One DB object; of an options object's callbacks   *)
(* one stands for all.                                                     *)
(***************************************************************************)
EXTENDS FiniteSets, Functions

CONSTANTS
    Options,    \* Options and ColumnFamilyOptions objects
    Callbacks,  \* PyGenericComparator, PyMergeOperator, ... objects
    Families,   \* column families
    Default,    \* the default column family
    Calls,      \* calls and iterators that can be under way at a time
    Jobs,       \* RocksDB's background jobs
    None

ASSUME OwnershipAssumption ==
    /\ None \notin Options \cup Callbacks \cup Families
    /\ Default \in Families
    /\ Calls \cap Jobs = {}

\* A column family in memory: the options object it was made with, whether that is
\* its own and not the DB's, and the callback that RocksDB copied from it.
Family == [opts : Options, own : BOOLEAN, callback : Callbacks \cup {None}]

ASSUME NoneAssumption == None \notin Family

VARIABLES
    pointer,  \* the callback in the C++ struct of an options object (copts, opts)
    owned,    \* the Python object in its py_* field
    program,  \* the options objects the program refers to
    db,       \* none, opening, open, closing, closed
    dbOpts,   \* DB.opts, or opts in the constructor
    entry,    \* DB.cf_options, family by family; None: not there, or a None entry
    making,   \* the argument of create_column_family while it runs, family by family
    memory,   \* the column families RocksDB has in memory: options and callback
    dropped,  \* those it has only because somebody uses them
    user,     \* the family a call, an iterator or a job uses
    replaced  \* history: callbacks a setter replaced while RocksDB had a pointer to them

vars == <<pointer, owned, program, db, dbOpts, entry, making, memory, dropped,
          user, replaced>>

-------------------------------------------------------------------------------
(* Python references *)

Referenced(o) == \/ o \in program \cup {dbOpts}
                 \/ \E f \in Families : o \in {entry[f], making[f]}

\* A callback lives while an options object that lives refers to it.
Alive(c) == \E o \in Options : Referenced(o) /\ owned[o] = c

Used(f) == \E u \in Calls \cup Jobs : user[u] = f

InMemory(f) == memory[f] # None

\* RocksDB has copied the options, or a method that is running will.
AtWork(o) == \/ o = dbOpts /\ db # "closed"
             \/ \E f \in Families : \/ o \in {entry[f], making[f]}
                                    \/ InMemory(f) /\ memory[f].opts = o

\* in_use, of an options object that no failed open or creation has left flagged.
InUse(o) == \/ o = dbOpts /\ db # "closed"
            \/ \E f \in Families : o \in {entry[f], making[f]}

-------------------------------------------------------------------------------
(* The program and its options objects *)

\* A new wrapper: nothing refers to it, and C++ has no pointer to it.
Fresh(c) == /\ \A o \in Options : c \notin {owned[o], pointer[o]}
            /\ \A f \in Families : InMemory(f) => memory[f].callback # c

InRocksDB == {memory[f].callback : f \in {g \in Families : InMemory(g)}}

\* The setters of comparator, merge_operator, prefix_extractor, table_factory and
\* memtable_factory: none of them looks at in_use.
SetCallback(o, c) ==
    /\ o \in program
    /\ Fresh(c)
    /\ owned' = [owned EXCEPT ![o] = c]
    /\ pointer' = [pointer EXCEPT ![o] = c]
    /\ replaced' = (replaced \ {c}) \cup ({owned[o]} \cap InRocksDB \cap Callbacks)
    /\ UNCHANGED <<program, db, dbOpts, entry, making, memory, dropped, user>>

NewOptions(o) ==
    /\ ~Referenced(o) /\ ~AtWork(o)
    /\ owned' = [owned EXCEPT ![o] = None]
    /\ pointer' = [pointer EXCEPT ![o] = None]
    /\ program' = program \cup {o}
    /\ UNCHANGED <<db, dbOpts, entry, making, memory, dropped, user, replaced>>

Forget(o) ==
    /\ o \in program
    /\ program' = program \ {o}
    /\ UNCHANGED <<pointer, owned, db, dbOpts, entry, making, memory, dropped,
                   user, replaced>>

-------------------------------------------------------------------------------
(* Opening and closing *)

InMemoryAs(o, own) == [opts |-> o, own |-> own, callback |-> pointer[o]]

\* The families of a database that is opened with o, see Open.
Opened(o, fams) ==
    [f \in Families |-> IF f \notin DOMAIN fams THEN None
                       ELSE IF fams[f] = None THEN InMemoryAs(o, FALSE)
                       ELSE InMemoryAs(fams[f], TRUE)]

\* The constructor copies the options into the descriptors before it releases
\* the GIL.  fams gives the options of each family; None stands for the DB's.
Open(o, fams) ==
    /\ db = "none"
    /\ o \in program /\ \A f \in DOMAIN fams : fams[f] \in program \cup {None}
    /\ db' = "opening"
    /\ dbOpts' = o
    /\ entry' = [f \in Families |-> IF f \in DOMAIN fams THEN fams[f] ELSE None]
    /\ memory' = Opened(o, fams)
    /\ UNCHANGED <<pointer, owned, program, making, dropped, user, replaced>>

OpenDone ==
    /\ db = "opening"
    /\ db' = "open"
    /\ UNCHANGED <<pointer, owned, program, dbOpts, entry, making, memory,
                   dropped, user, replaced>>

\* The object is dismissed with everything it referred to.
OpenFailed ==
    /\ db = "opening"
    /\ \A u \in Jobs : user[u] = None
    /\ db' = "none"
    /\ dbOpts' = None
    /\ entry' = [f \in Families |-> None]
    /\ memory' = [f \in Families |-> None]
    /\ UNCHANGED <<pointer, owned, program, making, dropped, user, replaced>>

\* Wrong: close() lets go of the Options, too.
Close_ClearsOptions ==
    /\ db = "open"
    /\ \A u \in Calls : user[u] = None
    /\ \A f \in Families : making[f] = None
    /\ db' = "closing"
    /\ entry' = [f \in Families |-> None]
    /\ dbOpts' = None
    /\ UNCHANGED <<pointer, owned, program, making, memory, dropped, user,
                   replaced>>

\* close(), by the program or by __dealloc__, while no call and no iterator uses
\* the DB: cf_options is cleared before the database is deleted.
Close ==
    /\ db = "open"
    /\ \A u \in Calls : user[u] = None
    /\ \A f \in Families : making[f] = None
    /\ db' = "closing"
    /\ entry' = [f \in Families |-> None]
    /\ UNCHANGED <<pointer, owned, program, dbOpts, making, memory, dropped,
                   user, replaced>>

\* The database is deleted once its background jobs are over.
CloseDone ==
    /\ db = "closing"
    /\ \A u \in Jobs : user[u] = None
    /\ db' = "closed"
    /\ memory' = [f \in Families |-> None]
    /\ UNCHANGED <<pointer, owned, program, dbOpts, entry, making, dropped,
                   user, replaced>>

\* The DB object is gone; a new one may be made.
Gone ==
    /\ db = "closed"
    /\ db' = "none"
    /\ dbOpts' = None
    /\ UNCHANGED <<pointer, owned, program, entry, making, memory, dropped,
                   user, replaced>>

-------------------------------------------------------------------------------
(* Column families *)

Create(f, o) ==
    /\ db = "open"
    /\ ~InMemory(f) /\ making[f] = None
    /\ o \in program /\ ~InUse(o)
    /\ making' = [making EXCEPT ![f] = o]
    /\ UNCHANGED <<pointer, owned, program, db, dbOpts, entry, memory, dropped,
                   user, replaced>>

\* The C++ call reads the options without the GIL.
CreateInCpp(f) ==
    /\ making[f] # None /\ ~InMemory(f)
    /\ memory' = [memory EXCEPT ![f] = InMemoryAs(making[f], TRUE)]
    /\ UNCHANGED <<pointer, owned, program, db, dbOpts, entry, making, dropped,
                   user, replaced>>

CreateFailed(f) ==
    /\ making[f] # None /\ ~InMemory(f)
    /\ making' = [making EXCEPT ![f] = None]
    /\ UNCHANGED <<pointer, owned, program, db, dbOpts, entry, memory, dropped,
                   user, replaced>>

CreateReturn(f) ==
    /\ making[f] # None /\ InMemory(f)
    /\ entry' = [entry EXCEPT ![f] = making[f]]
    /\ making' = [making EXCEPT ![f] = None]
    /\ UNCHANGED <<pointer, owned, program, db, dbOpts, memory, dropped, user,
                   replaced>>

\* Wrong: RocksDB keeps a family that nobody uses.
Drop_KeepsUnused(f) ==
    /\ db = "open"
    /\ f # Default
    /\ InMemory(f) /\ making[f] = None /\ f \notin dropped
    /\ entry' = [entry EXCEPT ![f] = None]
    /\ dropped' = dropped \cup {f}
    /\ UNCHANGED <<pointer, owned, program, db, dbOpts, making, memory, user,
                   replaced>>

\* From the end of the C++ call to the return: the entry goes.  RocksDB keeps the
\* family in memory while somebody uses it.
Drop(f) ==
    /\ db = "open"
    /\ f # Default
    /\ InMemory(f) /\ making[f] = None /\ f \notin dropped
    /\ entry' = [entry EXCEPT ![f] = None]
    /\ memory' = [memory EXCEPT ![f] = IF Used(f) THEN @ ELSE None]
    /\ dropped' = IF Used(f) THEN dropped \cup {f} ELSE dropped
    /\ UNCHANGED <<pointer, owned, program, db, dbOpts, making, user, replaced>>

-------------------------------------------------------------------------------
(* Users of a column family *)

BeginCall(u, f) ==
    /\ db = "open" /\ user[u] = None
    /\ InMemory(f) /\ making[f] = None /\ f \notin dropped
    /\ user' = [user EXCEPT ![u] = f]
    /\ UNCHANGED <<pointer, owned, program, db, dbOpts, entry, making, memory,
                   dropped, replaced>>

\* Flushes and compactions, those of a database that is being deleted included.
BeginJob(u, f) ==
    /\ db \in {"opening", "open", "closing"} /\ user[u] = None
    /\ InMemory(f)
    /\ user' = [user EXCEPT ![u] = f]
    /\ UNCHANGED <<pointer, owned, program, db, dbOpts, entry, making, memory,
                   dropped, replaced>>

\* The last user of a dropped family takes it with him.
End(u) ==
    /\ user[u] # None
    /\ user' = [user EXCEPT ![u] = None]
    /\ LET f == user[u]
           last == f \in dropped /\ \A w \in (Calls \cup Jobs) \ {u} : user[w] # f
       IN  /\ memory' = [memory EXCEPT ![f] = IF last THEN None ELSE @]
           /\ dropped' = IF last THEN dropped \ {f} ELSE dropped
    /\ UNCHANGED <<pointer, owned, program, db, dbOpts, entry, making,
                   replaced>>

-------------------------------------------------------------------------------
Init ==
    /\ pointer = [o \in Options |-> None]
    /\ owned = [o \in Options |-> None]
    /\ program = {}
    /\ db = "none"
    /\ dbOpts = None
    /\ entry = [f \in Families |-> None]
    /\ making = [f \in Families |-> None]
    /\ memory = [f \in Families |-> None]
    /\ dropped = {}
    /\ user = [u \in Calls \cup Jobs |-> None]
    /\ replaced = {}

\* The column_families argument, with the default family's entry.  An options
\* object given to two families is refused: the first sets in_use.
FamilyOptions ==
    {fams \in UNION {[fs -> Options \cup {None}] : fs \in SUBSET Families} :
        /\ Default \in DOMAIN fams
        /\ \A f \in DOMAIN fams : fams[f] = None => f = Default
        /\ IsInjective(fams)}

ProgramStep ==
    \/ \E o \in Options : NewOptions(o) \/ Forget(o)
    \/ \E o \in Options, c \in Callbacks : SetCallback(o, c)
    \/ \E o \in Options, fams \in FamilyOptions : Open(o, fams)
    \/ Close
    \/ \E f \in Families : Drop(f) \/ \E o \in Options : Create(f, o)
    \/ \E u \in Calls, f \in Families : BeginCall(u, f)

RocksStep ==
    \/ OpenDone \/ OpenFailed \/ CloseDone \/ Gone
    \/ \E f \in Families : CreateInCpp(f) \/ CreateFailed(f) \/ CreateReturn(f)
    \/ \E u \in Jobs, f \in Families : BeginJob(u, f)
    \/ \E u \in Calls \cup Jobs : End(u)

Next == ProgramStep \/ RocksStep

Spec == Init /\ [][Next]_vars

-------------------------------------------------------------------------------
(* Properties *)

OptionsOrNone == Options \cup {None}
CallbackOrNone == Callbacks \cup {None}

\* Types; a family is dropped and still in memory only while somebody uses it.
TypeOK ==
    /\ replaced \subseteq Callbacks
    /\ pointer \in [Options -> CallbackOrNone]
    /\ owned \in [Options -> CallbackOrNone]
    /\ program \subseteq Options
    /\ db \in {"none", "opening", "open", "closing", "closed"}
    /\ dbOpts \in OptionsOrNone
    /\ entry \in [Families -> OptionsOrNone]
    /\ making \in [Families -> OptionsOrNone]
    /\ memory \in [Families -> Family \cup {None}]
    /\ dropped \subseteq Families
    /\ user \in [Calls \cup Jobs -> Families \cup {None}]
    /\ \A f \in dropped : InMemory(f) /\ Used(f)

\* What RocksDB may call for family f exists.
Callable(f) == memory[f].callback # None => Alive(memory[f].callback)

\* Whatever a program does, the callbacks of open families are there, and those that
\* come from the DB's Options until the database is deleted: DB.opts and cf_options keep
\* the options objects.  So are those of families that are dropped or being closed, while
\* the program keeps the options object they were made with.  Only a callback that a
\* setter replaced under RocksDB is lost.
ListedFamiliesKeepCallbacks ==
    \A f \in Families :
        /\ InMemory(f) /\ memory[f].callback \notin replaced
        /\ \/ ~memory[f].own \/ (db # "closing" /\ f \notin dropped)
           \/ memory[f].opts \in program
        => Callable(f)

\* Python callbacks are executed in background threads: a flush or a compaction that
\* runs finds those of its column family.
JobsFindCallbacks ==
    \A j \in Jobs : user[j] # None /\ memory[user[j]].callback \notin replaced
                       => Callable(user[j])
===============================================================================
