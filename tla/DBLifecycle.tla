------------------------------ MODULE DBLifecycle ------------------------------
(***************************************************************************)
(* The life of DB objects and of everything they own: the C++ database,    *)
(* its column family handles, the options objects leased to it, and the    *)
(* iterators and snapshots that keep it alive.                             *)
(*                                                                         *)
(* Threads run Python under the GIL.  A stretch of a method between two    *)
(* points where the GIL is released is one action; a method that has a     *)
(* `with nogil` block is therefore an action that enters the block, the    *)
(* steps of the C++ call where they matter, and an action that runs from   *)
(* the end of the block to the return.  frame[t] is what thread t's        *)
(* current method keeps on its stack.                                      *)
(***************************************************************************)
EXTENDS Naturals, Sequences, FiniteSets, SequencesExt

CONSTANTS
    Threads,       \* Python threads
    DBs,           \* DB objects (a slot is used again once its object is gone)
    Opts,          \* Options objects
    COpts,         \* ColumnFamilyOptions objects
    Handles,       \* _ColumnFamilyHandle wrappers, each around one C++ handle
    Children,      \* iterators and snapshots
    None,          \* Python's None, C++'s NULL
    OpenFamilies,  \* the column family lists the program opens a DB with
    Liberties,     \* disciplines the program does not keep, see below
    Failures       \* operations that may fail, see below

(***************************************************************************)
(* A column family list gives the options of each family; None stands for  *)
(* the default family when it takes its options from the DB's Options.     *)
(* Liberties:                                                              *)
(*   "share"  opens with an Options object while another open with it runs *)
(*   "race"   drops a column family while another thread uses its handle,  *)
(*            or uses the handle after it                                  *)
(*   "foreign" passes a DB the handle of another DB                        *)
(*   "close"  calls close() explicitly, at any time                        *)
(* Failures: "reject" an open raises before C++ is called, "open",         *)
(* "create", "drop": the C++ call returns an error status.                 *)
(***************************************************************************)
ASSUME ConstantsAssumption ==
    /\ None \notin DBs \cup Opts \cup COpts \cup Handles \cup Children
    /\ \A fams \in OpenFamilies :
          /\ fams \in Seq(COpts \cup {None})
          /\ fams # <<>>
          /\ \A i, j \in 1..Len(fams) : fams[i] = fams[j] => i = j
    /\ Liberties \subseteq {"share", "race", "foreign", "close"}
    /\ Failures \subseteq {"reject", "open", "create", "drop"}

\* What a live C++ handle stands for, see Column.
Family == [db : DBs, opts : COpts \cup {None}, default : BOOLEAN, dropped : BOOLEAN]

ASSUME NoneAssumption == None \notin Family

VARIABLES
    cpp,        \* DB.db, the C++ database: null, open, deleting or deleted
    optsOf,     \* DB.opts
    cfHandles,  \* DB.cf_handles
    cfOptions,  \* DB.cf_options
    inUse,      \* Options.in_use and ColumnFamilyOptions.in_use
    family,     \* what a live wrapper's C++ handle refers to; None once deleted
    child,      \* the DB an iterator or snapshot keeps alive
    held,       \* the DBs the program holds a reference to
    frame       \* the method each thread is in

vars == <<cpp, optsOf, cfHandles, cfOptions, inUse, family, child,
          held, frame>>

-------------------------------------------------------------------------------
(* Frames *)

Places == {"idle", "open", "create", "created", "drop", "dropped", "call",
           "release", "close", "dealloc"}

\* raw: C++ handles the call uses; pin: wrappers kept alive by local variables.
Method(place, d, o, fams, raw, pin, kid) ==
    [at |-> place, db |-> d, opts |-> o, fams |-> fams, raw |-> raw, pin |-> pin,
     kid |-> kid]

Idle == Method("idle", None, None, <<>>, {}, {}, None)

Enter(t, f) == /\ frame[t].at = "idle"
               /\ frame' = [frame EXCEPT ![t] = f]

Leave(t) == frame' = [frame EXCEPT ![t] = Idle]

-------------------------------------------------------------------------------
(* References *)

FramesOf(d) == {t \in Threads : frame[t].db = d}

\* Wrong: iterators and snapshots do not keep their DB alive.
ChildrenOf_Borrowed(d) == {}

ChildrenOf(d) == {k \in Children : child[k] = d}

Referenced(d) == d \in held \/ ChildrenOf(d) # {} \/ FramesOf(d) # {}

Listed == UNION {Range(cfHandles[d]) : d \in DBs}

Pinned == UNION {frame[t].pin : t \in Threads}

Live == {h \in Handles : family[h] # None}

\* A wrapper nothing refers to is deallocated and deletes its C++ handle.
Reap == family' = [h \in Handles |->
                      IF h \in Listed' \cup Pinned' THEN family[h] ELSE None]

\* get_handle: the weak reference of a handle the program was given resolves.
Resolves(h) == /\ h \in Live
               /\ \A t \in Threads : frame[t].at = "created" => h \notin frame[t].raw

\* A wrapper may resolve although it was dropped: a local variable keeps it.
Retired(h) == \/ h \notin Listed
              \/ \E t \in Threads : /\ frame[t].at \in {"drop", "dropped"}
                                    /\ h \in frame[t].raw

Usable(d, h) == /\ Resolves(h)
                /\ family[h].db = d \/ "foreign" \in Liberties
                /\ ~Retired(h) \/ "race" \in Liberties

-------------------------------------------------------------------------------
(* Opening *)

Free(d) == cpp[d] = "null" /\ ~Referenced(d)

\* Wrong: the constructor does not look at Options.in_use.
Admit_AnyOptions(o, fams) ==
    /\ \A c \in COpts \cap Range(fams) : ~inUse[c]
    /\ inUse' = [c \in DOMAIN inUse |-> inUse[c] \/ c \in Range(fams)]

\* Wrong: the constructor does not look at ColumnFamilyOptions.in_use.
Admit_AnyFamily(o, fams) ==
    /\ ~inUse[o]
    /\ "share" \in Liberties \/ \A t \in Threads : frame[t].opts # o
    /\ inUse' = [c \in DOMAIN inUse |-> inUse[c] \/ c \in Range(fams)]

\* The in_use checks of the constructor, and the flags it sets on the way.
Admit(o, fams) ==
    /\ ~inUse[o]
    /\ "share" \in Liberties \/ \A t \in Threads : frame[t].opts # o
    /\ \A c \in COpts \cap Range(fams) : ~inUse[c]
    /\ inUse' = [c \in DOMAIN inUse |-> inUse[c] \/ c \in Range(fams)]

\* Wrong: cf_options gets the DB's Options, and not None, for the default family.
Open_ListsOptions(t, d, o, fams) ==
    /\ Free(d)
    /\ Admit(o, fams)
    /\ Enter(t, Method("open", d, o, [i \in DOMAIN fams |->
                                        IF fams[i] = None THEN o ELSE fams[i]], {}, {}, None))
    /\ UNCHANGED <<cpp, optsOf, cfHandles, cfOptions, family, child, held>>

Open(t, d, o, fams) ==
    /\ Free(d)
    /\ Admit(o, fams)
    /\ Enter(t, Method("open", d, o, fams, {}, {}, None))
    /\ UNCHANGED <<cpp, optsOf, cfHandles, cfOptions, family, child, held>>

\* A later entry of column_families, or secondary_path without read_only, makes
\* the constructor raise after it has accepted fams.
OpenRejected(t, o, fams) ==
    /\ "reject" \in Failures
    /\ frame[t].at = "idle"
    /\ Admit(o, fams)
    /\ UNCHANGED <<cpp, optsOf, cfHandles, cfOptions, family, child,
                   held, frame>>

OpenFailed(t) ==
    /\ "open" \in Failures
    /\ frame[t].at = "open"
    /\ Leave(t)
    /\ UNCHANGED <<cpp, optsOf, cfHandles, cfOptions, inUse, family,
                   child, held>>

\* A column family of d: the options it was made with, whether it is the default
\* family, whether it was dropped.
Column(d, o, default, dropped) ==
    [db |-> d, opts |-> o, default |-> default, dropped |-> dropped]

\* What the C++ handle at position i of a list stands for.
Describe(d, fams, i) ==
    Column(d, fams[i], fams[i] = None \/ (i = 1 /\ None \notin Range(fams)), FALSE)

Position(hs, h) == CHOOSE i \in DOMAIN hs : hs[i] = h

\* Wrappers that are made now; a thread that took the C++ handle out of a wrapper that is
\* gone has no new one in its place.
Unmade == {h \in Handles \ Live : \A t \in Threads : h \notin frame[t].raw}

OpenDone(t) ==
    LET d == frame[t].db
        o == frame[t].opts
        fams == frame[t].fams
    IN  /\ frame[t].at = "open"
        /\ \E hs \in [1..Len(fams) -> Unmade] :
              /\ \A i, j \in 1..Len(fams) : hs[i] = hs[j] => i = j
              /\ cfHandles' = [cfHandles EXCEPT ![d] = hs]
              /\ family' = [h \in Handles |->
                               IF h \in Range(hs) THEN Describe(d, fams, Position(hs, h))
                                                  ELSE family[h]]
        /\ cfOptions' = [cfOptions EXCEPT ![d] = fams]
        /\ cpp' = [cpp EXCEPT ![d] = "open"]
        /\ optsOf' = [optsOf EXCEPT ![d] = o]
        /\ inUse' = [inUse EXCEPT ![o] = TRUE]
        /\ held' = held \cup {d}
        /\ Leave(t)
        /\ UNCHANGED child

-------------------------------------------------------------------------------
(* Column families *)

\* The duplicate-name loop leaves its variable `handle` on the last wrapper,
\* which stays alive until the method returns.
Create(t, d, c) ==
    /\ d \in held
    /\ ~inUse[c]
    /\ inUse' = [inUse EXCEPT ![c] = TRUE]
    /\ LET last == IF cfHandles[d] = <<>> THEN {} ELSE {Last(cfHandles[d])}
       IN  Enter(t, Method("create", d, None, <<c>>, {}, last, None))
    /\ UNCHANGED <<cpp, optsOf, cfHandles, cfOptions, family, child, held>>

CreateInCpp(t) ==
    /\ frame[t].at = "create"
    /\ \E h \in Unmade :
          /\ family' = [family EXCEPT ![h] =
                Column(frame[t].db, frame[t].fams[1], FALSE, FALSE)]
          /\ frame' = [frame EXCEPT ![t] =
                Method("created", @.db, None, @.fams, {h}, @.pin \cup {h}, None)]
    /\ UNCHANGED <<cpp, optsOf, cfHandles, cfOptions, inUse, child, held>>

CreateFailed(t) ==
    /\ "create" \in Failures
    /\ frame[t].at = "create"
    /\ Leave(t)
    /\ UNCHANGED <<cpp, optsOf, cfHandles, cfOptions, inUse, child, held>>
    /\ Reap

CreateReturn(t) ==
    LET d == frame[t].db
    IN  /\ frame[t].at = "created"
        /\ \E h \in frame[t].raw : cfHandles' = [cfHandles EXCEPT ![d] = Append(@, h)]
        /\ cfOptions' = [cfOptions EXCEPT ![d] = Append(@, frame[t].fams[1])]
        /\ Leave(t)
        /\ Reap
        /\ UNCHANGED <<cpp, optsOf, inUse, child, held>>

\* Wrong: the wrapper leaves the lists before the C++ call.
Drop_UnlistsFirst(t, d, h) ==
    /\ d \in held
    /\ \E i \in DOMAIN cfHandles[d] :
          /\ cfHandles[d][i] = h
          /\ \A u \in Threads : h \notin frame[u].raw
          /\ cfHandles' = [cfHandles EXCEPT ![d] = RemoveAt(@, i)]
          /\ cfOptions' = [cfOptions EXCEPT ![d] = RemoveAt(@, i)]
    /\ Enter(t, Method("drop", d, None, <<>>, {h}, {}, None))
    /\ Reap
    /\ UNCHANGED <<cpp, optsOf, inUse, child, held>>

Drop(t, d, h) ==
    /\ d \in held
    /\ Resolves(h)
    /\ family[h].db = d \/ "foreign" \in Liberties
    /\ \/ "race" \in Liberties
       \/ h \in Listed /\ \A u \in Threads : h \notin frame[u].raw
    /\ Enter(t, Method("drop", d, None, <<>>, {h}, {}, None))
    /\ UNCHANGED <<cpp, optsOf, cfHandles, cfOptions, inUse, family,
                   child, held>>

\* A deleted handle makes the C++ call undefined: it may return either way.
DropInCpp(t) ==
    /\ frame[t].at = "drop"
    /\ \A h \in frame[t].raw \cap Live : ~family[h].default /\ ~family[h].dropped
    /\ family' = [h \in Handles |->
          IF h \in frame[t].raw \cap Live
          THEN Column(family[h].db, family[h].opts, FALSE, TRUE)
          ELSE family[h]]
    /\ frame' = [frame EXCEPT ![t] =
          Method("dropped", @.db, None, <<>>, @.raw, {}, None)]
    /\ UNCHANGED <<cpp, optsOf, cfHandles, cfOptions, inUse, child, held>>

DropFailed(t) ==
    /\ frame[t].at = "drop"
    /\ \/ "drop" \in Failures
       \/ \E h \in frame[t].raw : h \in Live => family[h].default \/ family[h].dropped
    /\ Leave(t)
    /\ UNCHANGED <<cpp, optsOf, cfHandles, cfOptions, inUse, family,
                   child, held>>

\* Wrong: the options stay in cf_options.
DropReturn_KeepsOptions(t) ==
    LET d == frame[t].db
    IN  /\ frame[t].at = "dropped"
        /\ \E i \in DOMAIN cfHandles[d] :
              /\ cfHandles[d][i] \in frame[t].raw
              /\ cfHandles' = [cfHandles EXCEPT ![d] = RemoveAt(@, i)]
        /\ Leave(t)
        /\ Reap
        /\ UNCHANGED <<cpp, optsOf, cfOptions, inUse, child, held>>

\* Wrong: the flag of the dropped family's options is not reset.
DropReturn_KeepsFlag(t) ==
    LET d == frame[t].db
    IN  /\ frame[t].at = "dropped"
        /\ \E i \in DOMAIN cfHandles[d] :
              /\ cfHandles[d][i] \in frame[t].raw
              /\ cfHandles' = [cfHandles EXCEPT ![d] = RemoveAt(@, i)]
              /\ cfOptions' = [cfOptions EXCEPT ![d] = RemoveAt(@, i)]
        /\ Leave(t)
        /\ Reap
        /\ UNCHANGED <<cpp, optsOf, inUse, child, held>>

DropReturn(t) ==
    LET d == frame[t].db
    IN  /\ frame[t].at = "dropped"
        /\ \E i \in DOMAIN cfHandles[d] :
              /\ cfHandles[d][i] \in frame[t].raw
              /\ cfHandles' = [cfHandles EXCEPT ![d] = RemoveAt(@, i)]
              /\ cfOptions' = [cfOptions EXCEPT ![d] = RemoveAt(@, i)]
              /\ inUse' = [c \in DOMAIN inUse |-> inUse[c] /\ c # cfOptions[d][i]]
        /\ Leave(t)
        /\ Reap
        /\ UNCHANGED <<cpp, optsOf, child, held>>

\* list.index raises ValueError: the wrapper has left the list meanwhile.
DropUnlisted(t) ==
    /\ frame[t].at = "dropped"
    /\ frame[t].raw \cap Range(cfHandles[frame[t].db]) = {}
    /\ Leave(t)
    /\ UNCHANGED <<cpp, optsOf, cfHandles, cfOptions, inUse, family,
                   child, held>>

-------------------------------------------------------------------------------
(* Calls that read or write, iterators and snapshots *)

Call(t, d, hs) ==
    /\ d \in held
    /\ \A h \in hs : Usable(d, h)
    /\ Enter(t, Method("call", d, None, <<>>, hs, {}, None))
    /\ UNCHANGED <<cpp, optsOf, cfHandles, cfOptions, inUse, family,
                   child, held>>

\* A client-visible iterator is moved, or a snapshot is read under.
UseChild(t, k) ==
    /\ child[k] # None
    /\ \A u \in Threads : frame[u].kid = k => frame[u].at = "call"
    /\ Enter(t, Method("call", child[k], None, <<>>, {}, {}, k))
    /\ UNCHANGED <<cpp, optsOf, cfHandles, cfOptions, inUse, family,
                   child, held>>

Return(t) ==
    /\ frame[t].at = "call"
    /\ Leave(t)
    /\ UNCHANGED <<cpp, optsOf, cfHandles, cfOptions, inUse, family,
                   child, held>>

\* The call made an iterator or a snapshot: it refers to the DB object.
ReturnChild(t, k) ==
    /\ frame[t].at = "call" /\ frame[t].kid = None
    /\ child[k] = None
    /\ child' = [child EXCEPT ![k] = frame[t].db]
    /\ Leave(t)
    /\ UNCHANGED <<cpp, optsOf, cfHandles, cfOptions, inUse, family, held>>

\* The last reference to an iterator or snapshot goes: it releases its C++
\* object first and its reference to the DB after.
Release(t, k) ==
    /\ child[k] # None
    /\ \A u \in Threads : frame[u].kid # k
    /\ Enter(t, Method("release", child[k], None, <<>>, {}, {}, k))
    /\ UNCHANGED <<cpp, optsOf, cfHandles, cfOptions, inUse, family,
                   child, held>>

\* Wrong: the reference that the iterator or snapshot had on the DB is leaked.
Released_LeaksReference(t) ==
    /\ frame[t].at = "release"
    /\ child' = [child EXCEPT ![frame[t].kid] = None]
    /\ frame' = [frame EXCEPT ![t] = Method("idle", @.db, None, <<>>, {}, {}, None)]
    /\ UNCHANGED <<cpp, optsOf, cfHandles, cfOptions, inUse, family, held>>

Released(t) ==
    /\ frame[t].at = "release"
    /\ child' = [child EXCEPT ![frame[t].kid] = None]
    /\ Leave(t)
    /\ UNCHANGED <<cpp, optsOf, cfHandles, cfOptions, inUse, family, held>>

-------------------------------------------------------------------------------
(* Closing *)

\* Wrong: the database is deleted while its handles exist.
CloseBody_KeepsHandles(d) ==
    /\ inUse' = [c \in DOMAIN inUse |-> inUse[c] /\ c \notin Range(cfOptions[d])]
    /\ cfOptions' = [cfOptions EXCEPT ![d] = <<>>]
    /\ cpp' = [cpp EXCEPT ![d] = "deleting"]
    /\ UNCHANGED <<cfHandles, family>>

\* close() up to its nogil block.  DB.db is not reset: what was deleted before
\* is deleted again.
CloseBody(d) ==
    /\ cfHandles' = [cfHandles EXCEPT ![d] = <<>>]
    /\ inUse' = [c \in DOMAIN inUse |-> inUse[c] /\ c \notin Range(cfOptions[d])]
    /\ cfOptions' = [cfOptions EXCEPT ![d] = <<>>]
    /\ cpp' = [cpp EXCEPT ![d] = "deleting"]
    /\ Reap

Close(t, d) ==
    /\ "close" \in Liberties
    /\ d \in held
    /\ Enter(t, Method("close", d, None, <<>>, {}, {}, None))
    /\ CloseBody(d)
    /\ UNCHANGED <<optsOf, child, held>>

\* Wrong: the database is deleted as soon as the program lets go of the DB.
Dealloc_AtForget(t, d) ==
    /\ cpp[d] # "null" /\ d \notin held
    /\ Enter(t, Method("dealloc", d, None, <<>>, {}, {}, None))
    /\ CloseBody(d)
    /\ UNCHANGED <<optsOf, child, held>>

\* Any thread may be the one that drops the last reference.
Dealloc(t, d) ==
    /\ cpp[d] # "null" /\ ~Referenced(d)
    /\ Enter(t, Method("dealloc", d, None, <<>>, {}, {}, None))
    /\ CloseBody(d)
    /\ UNCHANGED <<optsOf, child, held>>

\* From the end of the nogil block; after a __dealloc__ the slot is free again.
CloseReturn(t) ==
    LET d == frame[t].db
        gone == frame[t].at = "dealloc"
    IN  /\ frame[t].at \in {"close", "dealloc"}
        /\ inUse' = [inUse EXCEPT ![optsOf[d]] = FALSE]
        /\ cpp' = [cpp EXCEPT ![d] = IF gone THEN "null" ELSE "deleted"]
        /\ optsOf' = [optsOf EXCEPT ![d] = IF gone THEN None ELSE @]
        /\ Leave(t)
        /\ UNCHANGED <<cfHandles, cfOptions, family, child, held>>

\* The program lets go of its reference to a DB.
Forget(d) ==
    /\ d \in held
    /\ held' = held \ {d}
    /\ UNCHANGED <<cpp, optsOf, cfHandles, cfOptions, inUse, family,
                   child, frame>>

-------------------------------------------------------------------------------
Init ==
    /\ cpp = [d \in DBs |-> "null"]
    /\ optsOf = [d \in DBs |-> None]
    /\ cfHandles = [d \in DBs |-> <<>>]
    /\ cfOptions = [d \in DBs |-> <<>>]
    /\ inUse = [c \in Opts \cup COpts |-> FALSE]
    /\ family = [h \in Handles |-> None]
    /\ child = [k \in Children |-> None]
    /\ held = {}
    /\ frame = [t \in Threads |-> Idle]

\* The steps that bring thread t's method to its return.
Proceed(t) ==
    \/ OpenFailed(t) \/ OpenDone(t)
    \/ CreateInCpp(t) \/ CreateFailed(t) \/ CreateReturn(t)
    \/ DropInCpp(t) \/ DropFailed(t) \/ DropReturn(t) \/ DropUnlisted(t)
    \/ Return(t) \/ \E k \in Children : ReturnChild(t, k)
    \/ Released(t) \/ CloseReturn(t)

\* The methods the program may call in thread t.
Invoke(t) ==
    \/ \E d \in DBs, o \in Opts, fams \in OpenFamilies : Open(t, d, o, fams)
    \/ \E o \in Opts, fams \in OpenFamilies : OpenRejected(t, o, fams)
    \/ \E d \in DBs, c \in COpts : Create(t, d, c)
    \/ \E d \in DBs, h \in Handles : Drop(t, d, h)
    \/ \E d \in DBs, hs \in SUBSET Handles : Call(t, d, hs)
    \/ \E k \in Children : UseChild(t, k) \/ Release(t, k)
    \/ \E d \in DBs : Close(t, d)

Next ==
    \/ \E t \in Threads : Proceed(t) \/ Invoke(t)
    \/ \E t \in Threads, d \in DBs : Dealloc(t, d)
    \/ \E d \in DBs : Forget(d)

Spec == Init /\ [][Next]_vars

\* C++ calls return, and CPython deallocates an object nothing refers to: the
\* thread that drops the last reference does it, whatever the others do.
Fairness ==
    /\ \A t \in Threads : WF_vars(Proceed(t))
    /\ \A d \in DBs : SF_vars(\E t \in Threads : Dealloc(t, d))

FairSpec == Spec /\ Fairness

-------------------------------------------------------------------------------
(* Properties *)

Frame == [at : Places, db : DBs \cup {None}, opts : Opts \cup {None},
          fams : Seq(COpts \cup {None}), raw : SUBSET Handles,
          pin : SUBSET Handles, kid : Children \cup {None}]

\* Every variable keeps the shape the code gives it.
TypeOK ==
    /\ cpp \in [DBs -> {"null", "open", "deleting", "deleted"}]
    /\ optsOf \in [DBs -> Opts \cup {None}]
    /\ cfHandles \in [DBs -> Seq(Handles)]
    /\ cfOptions \in [DBs -> Seq(COpts \cup {None})]
    /\ inUse \in [Opts \cup COpts -> BOOLEAN]
    /\ family \in [Handles -> Family \cup {None}]
    /\ child \in [Children -> DBs \cup {None}]
    /\ held \subseteq DBs
    /\ frame \in [Threads -> Frame]

\* While a thread is in a C++ call that goes through DB.db, that database is
\* there: no other thread has deleted it meanwhile.
DbLiveInCalls ==
    \A t \in Threads :
        frame[t].at \in {"create", "created", "drop", "dropped", "call", "release"}
            => cpp[frame[t].db] = "open"

\* The C++ handles that a call obtained from get_handle() before it released the
\* GIL are not deleted before the call is over.
HandlesLiveInCalls ==
    \A t \in Threads : frame[t].at \in {"drop", "call"} => frame[t].raw \subseteq Live

\* close() deletes every column family handle before it deletes the database.
HandlesBeforeDb == \A h \in Live : cpp[family[h].db] = "open"

\* An iterator or a snapshot never outlives the database it reads.
ChildrenBeforeDb == \A k \in Children : child[k] # None => cpp[child[k]] = "open"

\* cf_handles and cf_options stay paired: the i-th options object is the one the
\* i-th C++ handle's column family was made with, and every listed handle is a
\* live handle of this database, listed once.
ListsPaired ==
    \A d \in DBs :
        /\ Len(cfHandles[d]) = Len(cfOptions[d])
        /\ \A i \in 1..Len(cfHandles[d]) :
              /\ cfHandles[d][i] \in Live
              /\ family[cfHandles[d][i]].db = d
              /\ family[cfHandles[d][i]].opts = cfOptions[d][i]
        /\ \A i, j \in 1..Len(cfHandles[d]) :
              cfHandles[d][i] = cfHandles[d][j] => i = j

\* The places that lease the column family options c: an entry of some
\* cf_options, or a constructor or create_column_family that is running.
Entries(c) == UNION {{<<d, i>> : i \in {j \in DOMAIN cfOptions[d] : cfOptions[d][j] = c}} :
                        d \in DBs}

Reservations(c) == {t \in Threads : /\ frame[t].at \in {"open", "create", "created"}
                                    /\ c \in Range(frame[t].fams)}

\* A ColumnFamilyOptions object, with the Python comparator and merge operator it
\* owns, never serves two column families, and is flagged while it serves one.
FamilyOptionsExclusive ==
    \A c \in COpts :
        /\ Cardinality(Entries(c)) + Cardinality(Reservations(c)) <= 1
        /\ Entries(c) \cup Reservations(c) # {} => inUse[c]

\* A ColumnFamilyOptions object that is flagged serves a column family, so the
\* flag keeps nobody out for nothing.
FamilyFlagsEarned == \A c \in COpts \ Opts : inUse[c] => Entries(c) \cup Reservations(c) # {}

\* No two DB objects hold one Options object, in whatever places the program passes it.
OptionsNotShared ==
    \A o \in Opts : \A d, e \in DBs : optsOf[d] = o /\ optsOf[e] = o => d = e

\* Options.in_use is set as long as a DB object holds the Options, and no longer where they
\* are nobody's column family options; no two DB objects hold the same one.
OptionsExclusive ==
    /\ OptionsNotShared
    /\ \A o \in Opts :
          /\ (\E d \in DBs : optsOf[d] = o) => inUse[o]
          /\ inUse[o] => (\E d \in DBs : optsOf[d] = o) \/ o \in COpts

\* A DB object that the program, its iterators and its snapshots no longer refer
\* to is torn down in the end, once the calls that still use it have returned.
Reclaimed == \A d \in DBs : []<>(cpp[d] = "null" \/ d \in held \/ ChildrenOf(d) # {})

-------------------------------------------------------------------------------
(* Refinement *)

\* Whom a ColumnFamilyOptions object serves.  A flag without anybody is what a failed
\* constructor or create_column_family leaves behind.
Lease(c) ==
    IF Reservations(c) # {} THEN <<"claimed", CHOOSE t \in Reservations(c) : TRUE>>
    ELSE IF Entries(c) # {} THEN <<"used", (CHOOSE e \in Entries(c) : TRUE)[1]>>
    ELSE IF inUse[c] THEN <<"lost">> ELSE <<"free">>

Leases == INSTANCE OptionLease WITH
              Options <- COpts, Calls <- Threads, Databases <- DBs,
              lease <- [c \in COpts |-> Lease(c)]

\* A ColumnFamilyOptions object passes from a call to the one database that uses it, and
\* is free again only when that database drops its family or closes.
FamiliesLeased == Leases!Spec
===============================================================================
