------------------------ MODULE CallbackOwnershipProofs ------------------------
(***************************************************************************)
(* For any number of options objects, callbacks, families, calls and jobs: *)
(* TypeOK and ListedFamiliesKeepCallbacks.                                 *)
(*                                                                         *)
(* The properties are not inductive: that a callback lives has to be       *)
(* traced to the options object that owns it, which is the one the family  *)
(* was made with, and from there to whoever refers to that object: the     *)
(* DB, a creation that runs, cf_options or the program.                    *)
(***************************************************************************)
EXTENDS CallbackOwnership, TLAPS

\* The setters keep the C++ pointer and the Python object in step.
InStep == \A o \in Options : pointer[o] = owned[o]

\* As long as no setter replaced it, the callback RocksDB copied is the one its
\* options object owns.
Traced ==
    \A f \in Families :
        InMemory(f) /\ memory[f].callback \notin replaced \cup {None}
            => memory[f].callback = owned[memory[f].opts]

\* Who refers to the options object of a family in memory.
Backed ==
    \A f \in Families :
        InMemory(f) =>
            /\ db \in {"opening", "open", "closing"}
            /\ ~memory[f].own => memory[f].opts = dbOpts
            /\ (memory[f].own /\ db # "closing" /\ f \notin dropped)
                   => memory[f].opts \in {entry[f], making[f]}

\* create_column_family runs only on an open database, for a family that is not
\* waiting for its last user.
Makings ==
    \A f \in Families :
        making[f] # None =>
            /\ db = "open"
            /\ f \notin dropped
            /\ InMemory(f) => memory[f].opts = making[f]

\* Calls and iterators use an open database only.
CallsWhileOpen == db # "open" => \A u \in Calls : user[u] = None

IInv == TypeOK /\ InStep /\ Traced /\ Backed /\ Makings /\ CallsWhileOpen

USE OwnershipAssumption, NoneAssumption

\* The entry of a family in memory is a Family.
LEMMA MemoryTyped ==
  ASSUME TypeOK, NEW f \in Families, InMemory(f)
  PROVE  /\ memory[f] \in Family
         /\ memory[f].opts \in Options
         /\ memory[f].own \in BOOLEAN
         /\ memory[f].callback \in CallbackOrNone
BY DEF TypeOK, InMemory, Family, CallbackOrNone

\* The type invariant holds initially, with the rest.
LEMMA InitIInv == Init => IInv
<1> SUFFICES ASSUME Init PROVE IInv
    OBVIOUS
<1>1. TypeOK
    BY DEF Init, TypeOK, OptionsOrNone, CallbackOrNone
<1>2. InStep /\ Traced /\ Backed /\ Makings /\ CallsWhileOpen
    BY DEF Init, InStep, Traced, Backed, Makings, CallsWhileOpen, InMemory
<1> QED
    BY <1>1, <1>2 DEF IInv

\* The families of a database being opened have the options they were given.
LEMMA OpenedFamilies ==
  ASSUME TypeOK, NEW o \in Options, NEW fams \in FamilyOptions
  PROVE  /\ Opened(o, fams) \in [Families -> Family \cup {None}]
         /\ \A f \in Families :
              Opened(o, fams)[f] # None =>
                  /\ f \in DOMAIN fams
                  /\ Opened(o, fams)[f].opts \in {o, fams[f]}
                  /\ Opened(o, fams)[f].own => Opened(o, fams)[f].opts = fams[f]
                  /\ ~Opened(o, fams)[f].own => Opened(o, fams)[f].opts = o
                  /\ Opened(o, fams)[f].callback = pointer[Opened(o, fams)[f].opts]
<1>1. \A f \in DOMAIN fams : fams[f] \in Options \cup {None}
    BY DEF FamilyOptions
<1>2. ASSUME NEW p \in Options, NEW own \in BOOLEAN
      PROVE  /\ InMemoryAs(p, own) \in Family
             /\ InMemoryAs(p, own).opts = p
             /\ InMemoryAs(p, own).own = own
             /\ InMemoryAs(p, own).callback = pointer[p]
    BY DEF TypeOK, InMemoryAs, Family, CallbackOrNone
<1>3. ASSUME NEW f \in Families
      PROVE  Opened(o, fams)[f] = IF f \notin DOMAIN fams THEN None
                                  ELSE IF fams[f] = None THEN InMemoryAs(o, FALSE)
                                  ELSE InMemoryAs(fams[f], TRUE)
    BY DEF Opened
<1>4. \A f \in Families : Opened(o, fams)[f] \in Family \cup {None}
    BY <1>1, <1>2, <1>3
<1>5. Opened(o, fams) \in [Families -> Family \cup {None}]
    BY <1>4 DEF Opened
<1>6. ASSUME NEW f \in Families, Opened(o, fams)[f] # None
      PROVE  /\ f \in DOMAIN fams
             /\ Opened(o, fams)[f].opts \in {o, fams[f]}
             /\ Opened(o, fams)[f].own => Opened(o, fams)[f].opts = fams[f]
             /\ ~Opened(o, fams)[f].own => Opened(o, fams)[f].opts = o
             /\ Opened(o, fams)[f].callback = pointer[Opened(o, fams)[f].opts]
    <2>1. f \in DOMAIN fams
        BY <1>3, <1>6
    <2>2. CASE fams[f] = None
        <3>1. Opened(o, fams)[f] = InMemoryAs(o, FALSE)
            BY <1>3, <2>1, <2>2
        <3>2. InMemoryAs(o, FALSE).opts = o
            BY <1>2
        <3>3. InMemoryAs(o, FALSE).own = FALSE
            BY <1>2
        <3>4. InMemoryAs(o, FALSE).callback = pointer[o]
            BY <1>2
        <3> QED
            BY <3>1, <3>2, <3>3, <3>4, <2>1
    <2>3. CASE fams[f] # None
        <3>1. Opened(o, fams)[f] = InMemoryAs(fams[f], TRUE)
            BY <1>3, <2>1, <2>3
        <3>2. fams[f] \in Options
            BY <1>1, <2>1, <2>3
        <3>3. InMemoryAs(fams[f], TRUE).opts = fams[f]
            BY <3>2, <1>2
        <3>4. InMemoryAs(fams[f], TRUE).own = TRUE
            BY <3>2, <1>2
        <3>5. InMemoryAs(fams[f], TRUE).callback = pointer[fams[f]]
            BY <3>2, <1>2
        <3> QED
            BY <3>1, <3>3, <3>4, <3>5, <2>1
    <2> QED
        BY <2>2, <2>3
<1> QED
    BY <1>5, <1>6

-------------------------------------------------------------------------------
(* Steps *)

\* A new options object is one RocksDB does not work with.
LEMMA NewOptionsKeeps ==
  ASSUME IInv, NEW o \in Options, NewOptions(o)
  PROVE  IInv'
<1> USE DEF IInv
<1>1. TypeOK'
    BY DEF NewOptions, TypeOK, InMemory, Used, OptionsOrNone, CallbackOrNone
<1>2. InStep' /\ CallsWhileOpen'
    BY DEF NewOptions, InStep, CallsWhileOpen, TypeOK, Backed
<1>3. Traced'
    BY MemoryTyped DEF NewOptions, Traced, InStep, TypeOK, InMemory, InMemoryAs, AtWork, Fresh, Makings
<1>4. Backed'
    BY MemoryTyped DEF NewOptions, Backed, TypeOK, InMemory, InMemoryAs, Makings
<1>5. Makings'
    BY MemoryTyped DEF NewOptions, Makings, Backed, TypeOK, InMemory, InMemoryAs, Used
<1> QED
    BY <1>1, <1>2, <1>3, <1>4, <1>5

\* Who refers to an options object besides the program stays as it is.
LEMMA ForgetKeeps ==
  ASSUME IInv, NEW o \in Options, Forget(o)
  PROVE  IInv'
<1> USE DEF IInv
<1>1. TypeOK'
    BY DEF Forget, TypeOK, InMemory, Used, OptionsOrNone, CallbackOrNone
<1>2. InStep' /\ CallsWhileOpen'
    BY DEF Forget, InStep, CallsWhileOpen, TypeOK, Backed
<1>3. Traced'
    BY MemoryTyped DEF Forget, Traced, InStep, TypeOK, InMemory, InMemoryAs, AtWork, Fresh, Makings
<1>4. Backed'
    BY MemoryTyped DEF Forget, Backed, TypeOK, InMemory, InMemoryAs, Makings
<1>5. Makings'
    BY MemoryTyped DEF Forget, Makings, Backed, TypeOK, InMemory, InMemoryAs, Used
<1> QED
    BY <1>1, <1>2, <1>3, <1>4, <1>5

\* A callback RocksDB has, and whose options object gets another, is among those
\* replaced; the new one is unknown to RocksDB.
LEMMA SetCallbackKeeps ==
  ASSUME IInv, NEW o \in Options, NEW c \in Callbacks, SetCallback(o, c)
  PROVE  IInv'
<1> USE DEF IInv
<1>1. TypeOK'
    BY DEF SetCallback, TypeOK, InMemory, Used, OptionsOrNone, CallbackOrNone
<1>2. InStep' /\ CallsWhileOpen'
    BY DEF SetCallback, InStep, CallsWhileOpen, TypeOK, Backed
<1>3. Traced'
    <2> SUFFICES ASSUME NEW f \in Families, InMemory(f)',
                        (memory[f].callback \notin replaced \cup {None})'
                 PROVE  (memory[f].callback = owned[memory[f].opts])'
        BY DEF Traced
    <2>1. InMemory(f) /\ memory' = memory
        BY DEF SetCallback, InMemory
    <2>2. /\ memory[f].opts \in Options
          /\ memory[f].callback \in Callbacks
        BY <2>1, MemoryTyped DEF CallbackOrNone
    <2>3. memory[f].callback # c
        BY <2>1 DEF SetCallback, Fresh
    <2>4. memory[f].callback \in InRocksDB
        BY <2>1 DEF InRocksDB
    <2>5. memory[f].callback \notin replaced
        BY <2>1, <2>3 DEF SetCallback
    <2>6. memory[f].callback = owned[memory[f].opts]
        BY <2>1, <2>2, <2>5 DEF Traced
    <2>7. memory[f].callback # owned[o]
        BY <2>1, <2>2, <2>4 DEF SetCallback
    <2> QED
        BY <2>1, <2>2, <2>6, <2>7 DEF SetCallback, TypeOK
<1>4. Backed'
    BY MemoryTyped DEF SetCallback, Backed, TypeOK, InMemory, InMemoryAs, Makings
<1>5. Makings'
    BY MemoryTyped DEF SetCallback, Makings, Backed, TypeOK, InMemory, InMemoryAs, Used
<1> QED
    BY <1>1, <1>2, <1>3, <1>4, <1>5

\* Opening ends.
LEMMA OpenDoneKeeps ==
  ASSUME IInv, OpenDone
  PROVE  IInv'
<1> USE DEF IInv
<1>1. TypeOK'
    BY DEF OpenDone, TypeOK, InMemory, Used, OptionsOrNone, CallbackOrNone
<1>2. InStep' /\ CallsWhileOpen'
    BY DEF OpenDone, InStep, CallsWhileOpen, TypeOK, Backed
<1>3. Traced'
    BY MemoryTyped DEF OpenDone, Traced, InStep, TypeOK, InMemory, InMemoryAs, AtWork, Fresh, Makings
<1>4. Backed'
    BY MemoryTyped DEF OpenDone, Backed, TypeOK, InMemory, InMemoryAs, Makings
<1>5. Makings'
    BY MemoryTyped DEF OpenDone, Makings, Backed, TypeOK, InMemory, InMemoryAs, Used
<1> QED
    BY <1>1, <1>2, <1>3, <1>4, <1>5

\* Nothing is left of a failed opening.
LEMMA OpenFailedKeeps ==
  ASSUME IInv, OpenFailed
  PROVE  IInv'
<1> USE DEF IInv
<1>0. dropped = {}
    BY DEF OpenFailed, TypeOK, Used, CallsWhileOpen
<1>1. TypeOK'
    BY <1>0 DEF OpenFailed, TypeOK, OptionsOrNone, CallbackOrNone
<1>2. InStep' /\ CallsWhileOpen'
    BY DEF OpenFailed, InStep, CallsWhileOpen, TypeOK, Backed
<1>3. Traced'
    BY MemoryTyped DEF OpenFailed, Traced, InStep, TypeOK, InMemory, InMemoryAs, AtWork, Fresh, Makings
<1>4. Backed'
    BY MemoryTyped DEF OpenFailed, Backed, TypeOK, InMemory, InMemoryAs, Makings
<1>5. Makings'
    BY MemoryTyped DEF OpenFailed, Makings, Backed, TypeOK, InMemory, InMemoryAs, Used
<1> QED
    BY <1>1, <1>2, <1>3, <1>4, <1>5

\* cf_options is cleared; DB.opts is not.
LEMMA CloseKeeps ==
  ASSUME IInv, Close
  PROVE  IInv'
<1> USE DEF IInv
<1>1. TypeOK'
    BY DEF Close, TypeOK, InMemory, Used, OptionsOrNone, CallbackOrNone
<1>2. InStep' /\ CallsWhileOpen'
    BY DEF Close, InStep, CallsWhileOpen, TypeOK, Backed
<1>3. Traced'
    BY MemoryTyped DEF Close, Traced, InStep, TypeOK, InMemory, InMemoryAs, AtWork, Fresh, Makings
<1>4. Backed'
    BY MemoryTyped DEF Close, Backed, TypeOK, InMemory, InMemoryAs, Makings
<1>5. Makings'
    BY MemoryTyped DEF Close, Makings, Backed, TypeOK, InMemory, InMemoryAs, Used
<1> QED
    BY <1>1, <1>2, <1>3, <1>4, <1>5

\* The families go with the database.
LEMMA CloseDoneKeeps ==
  ASSUME IInv, CloseDone
  PROVE  IInv'
<1> USE DEF IInv
<1>0. dropped = {}
    BY DEF CloseDone, TypeOK, Used, CallsWhileOpen
<1>1. TypeOK'
    BY <1>0 DEF CloseDone, TypeOK, OptionsOrNone, CallbackOrNone
<1>2. InStep' /\ CallsWhileOpen'
    BY DEF CloseDone, InStep, CallsWhileOpen, TypeOK, Backed
<1>3. Traced'
    BY MemoryTyped DEF CloseDone, Traced, InStep, TypeOK, InMemory, InMemoryAs, AtWork, Fresh, Makings
<1>4. Backed'
    BY MemoryTyped DEF CloseDone, Backed, TypeOK, InMemory, InMemoryAs, Makings
<1>5. Makings'
    BY MemoryTyped DEF CloseDone, Makings, Backed, TypeOK, InMemory, InMemoryAs, Used
<1> QED
    BY <1>1, <1>2, <1>3, <1>4, <1>5

\* No family is left when the DB object goes.
LEMMA GoneKeeps ==
  ASSUME IInv, Gone
  PROVE  IInv'
<1> USE DEF IInv
<1>1. TypeOK'
    BY DEF Gone, TypeOK, InMemory, Used, OptionsOrNone, CallbackOrNone
<1>2. InStep' /\ CallsWhileOpen'
    BY DEF Gone, InStep, CallsWhileOpen, TypeOK, Backed
<1>3. Traced'
    BY MemoryTyped DEF Gone, Traced, InStep, TypeOK, InMemory, InMemoryAs, AtWork, Fresh, Makings
<1>4. Backed'
    BY MemoryTyped DEF Gone, Backed, TypeOK, InMemory, InMemoryAs, Makings
<1>5. Makings'
    BY MemoryTyped DEF Gone, Makings, Backed, TypeOK, InMemory, InMemoryAs, Used
<1> QED
    BY <1>1, <1>2, <1>3, <1>4, <1>5

\* The new family's options are the running method's.
LEMMA CreateKeeps ==
  ASSUME IInv, NEW f \in Families, NEW o \in Options, Create(f, o)
  PROVE  IInv'
<1> USE DEF IInv
<1>1. TypeOK'
    BY DEF Create, TypeOK, InMemory, Used, OptionsOrNone, CallbackOrNone
<1>2. InStep' /\ CallsWhileOpen'
    BY DEF Create, InStep, CallsWhileOpen, TypeOK, Backed
<1>3. Traced'
    BY MemoryTyped DEF Create, Traced, InStep, TypeOK, InMemory, InMemoryAs, AtWork, Fresh, Makings
<1>4. Backed'
    BY MemoryTyped DEF Create, Backed, TypeOK, InMemory, InMemoryAs, Makings
<1>5. Makings'
    BY MemoryTyped DEF Create, Makings, Backed, TypeOK, InMemory, InMemoryAs, Used
<1> QED
    BY <1>1, <1>2, <1>3, <1>4, <1>5

\* RocksDB copies the options of the running method.
LEMMA CreateInCppKeeps ==
  ASSUME IInv, NEW f \in Families, CreateInCpp(f)
  PROVE  IInv'
<1> USE DEF IInv
<1>0. InMemoryAs(making[f], TRUE) \in Family
    BY DEF CreateInCpp, InMemoryAs, Family, TypeOK, OptionsOrNone, CallbackOrNone
<1>1. TypeOK'
    <2>1. memory' \in [Families -> Family \cup {None}]
        BY <1>0 DEF CreateInCpp, TypeOK
    <2>2. \A g \in dropped' : InMemory(g)' /\ Used(g)'
        BY <1>0 DEF CreateInCpp, TypeOK, InMemory, Used
    <2> QED
        BY <2>1, <2>2 DEF CreateInCpp, TypeOK
<1>2. InStep' /\ CallsWhileOpen'
    BY DEF CreateInCpp, InStep, CallsWhileOpen, TypeOK, Backed
<1>3. Traced'
    BY MemoryTyped DEF CreateInCpp, Traced, InStep, TypeOK, InMemory, InMemoryAs, AtWork, Fresh, Makings, Family
<1>4. Backed'
    BY MemoryTyped DEF CreateInCpp, Backed, TypeOK, InMemory, InMemoryAs, Makings
<1>5. Makings'
    BY MemoryTyped DEF CreateInCpp, Makings, Backed, TypeOK, InMemory, InMemoryAs, Used
<1> QED
    BY <1>1, <1>2, <1>3, <1>4, <1>5

\* The method ends without a family.
LEMMA CreateFailedKeeps ==
  ASSUME IInv, NEW f \in Families, CreateFailed(f)
  PROVE  IInv'
<1> USE DEF IInv
<1>1. TypeOK'
    BY DEF CreateFailed, TypeOK, InMemory, Used, OptionsOrNone, CallbackOrNone
<1>2. InStep' /\ CallsWhileOpen'
    BY DEF CreateFailed, InStep, CallsWhileOpen, TypeOK, Backed
<1>3. Traced'
    BY MemoryTyped DEF CreateFailed, Traced, InStep, TypeOK, InMemory, InMemoryAs, AtWork, Fresh, Makings
<1>4. Backed'
    BY MemoryTyped DEF CreateFailed, Backed, TypeOK, InMemory, InMemoryAs, Makings
<1>5. Makings'
    BY MemoryTyped DEF CreateFailed, Makings, Backed, TypeOK, InMemory, InMemoryAs, Used
<1> QED
    BY <1>1, <1>2, <1>3, <1>4, <1>5

\* The entry takes over from the method.
LEMMA CreateReturnKeeps ==
  ASSUME IInv, NEW f \in Families, CreateReturn(f)
  PROVE  IInv'
<1> USE DEF IInv
<1>1. TypeOK'
    BY DEF CreateReturn, TypeOK, InMemory, Used, OptionsOrNone, CallbackOrNone
<1>2. InStep' /\ CallsWhileOpen'
    BY DEF CreateReturn, InStep, CallsWhileOpen, TypeOK, Backed
<1>3. Traced'
    BY MemoryTyped DEF CreateReturn, Traced, InStep, TypeOK, InMemory, InMemoryAs, AtWork, Fresh, Makings
<1>4. Backed'
    BY MemoryTyped DEF CreateReturn, Backed, TypeOK, InMemory, InMemoryAs, Makings
<1>5. Makings'
    BY MemoryTyped DEF CreateReturn, Makings, Backed, TypeOK, InMemory, InMemoryAs, Used
<1> QED
    BY <1>1, <1>2, <1>3, <1>4, <1>5

\* The family stays in memory only as a dropped one.
LEMMA DropKeeps ==
  ASSUME IInv, NEW f \in Families, Drop(f)
  PROVE  IInv'
<1> USE DEF IInv
<1>1. TypeOK'
    BY DEF Drop, TypeOK, InMemory, Used, OptionsOrNone, CallbackOrNone
<1>2. InStep' /\ CallsWhileOpen'
    BY DEF Drop, InStep, CallsWhileOpen, TypeOK, Backed
<1>3. Traced'
    BY MemoryTyped DEF Drop, Traced, InStep, TypeOK, InMemory, InMemoryAs, AtWork, Fresh, Makings
<1>4. Backed'
    BY MemoryTyped DEF Drop, Backed, TypeOK, InMemory, InMemoryAs, Makings
<1>5. Makings'
    BY MemoryTyped DEF Drop, Makings, Backed, TypeOK, InMemory, InMemoryAs, Used
<1> QED
    BY <1>1, <1>2, <1>3, <1>4, <1>5

\* A call needs an open database.
LEMMA BeginCallKeeps ==
  ASSUME IInv, NEW u \in Calls, NEW f \in Families, BeginCall(u, f)
  PROVE  IInv'
<1> USE DEF IInv
<1>1. TypeOK'
    BY DEF BeginCall, TypeOK, InMemory, Used, OptionsOrNone, CallbackOrNone
<1>2. InStep' /\ CallsWhileOpen'
    BY DEF BeginCall, InStep, CallsWhileOpen, TypeOK, Backed
<1>3. Traced'
    BY MemoryTyped DEF BeginCall, Traced, InStep, TypeOK, InMemory, InMemoryAs, AtWork, Fresh, Makings
<1>4. Backed'
    BY MemoryTyped DEF BeginCall, Backed, TypeOK, InMemory, InMemoryAs, Makings
<1>5. Makings'
    BY MemoryTyped DEF BeginCall, Makings, Backed, TypeOK, InMemory, InMemoryAs, Used
<1> QED
    BY <1>1, <1>2, <1>3, <1>4, <1>5

\* Jobs change nothing but the users.
LEMMA BeginJobKeeps ==
  ASSUME IInv, NEW u \in Jobs, NEW f \in Families, BeginJob(u, f)
  PROVE  IInv'
<1> USE DEF IInv
<1>1. TypeOK'
    BY DEF BeginJob, TypeOK, InMemory, Used, OptionsOrNone, CallbackOrNone
<1>2. InStep' /\ CallsWhileOpen'
    BY DEF BeginJob, InStep, CallsWhileOpen, TypeOK, Backed
<1>3. Traced'
    BY MemoryTyped DEF BeginJob, Traced, InStep, TypeOK, InMemory, InMemoryAs, AtWork, Fresh, Makings
<1>4. Backed'
    BY MemoryTyped DEF BeginJob, Backed, TypeOK, InMemory, InMemoryAs, Makings
<1>5. Makings'
    BY MemoryTyped DEF BeginJob, Makings, Backed, TypeOK, InMemory, InMemoryAs, Used
<1> QED
    BY <1>1, <1>2, <1>3, <1>4, <1>5

\* The last user takes a dropped family with him.
LEMMA EndKeeps ==
  ASSUME IInv, NEW u \in Calls \cup Jobs, End(u)
  PROVE  IInv'
<1> USE DEF IInv
<1>1. TypeOK'
    BY DEF End, TypeOK, InMemory, Used, OptionsOrNone, CallbackOrNone
<1>2. InStep' /\ CallsWhileOpen'
    BY DEF End, InStep, CallsWhileOpen, TypeOK, Backed
<1>3. Traced'
    BY MemoryTyped DEF End, Traced, InStep, TypeOK, InMemory, InMemoryAs, AtWork, Fresh, Makings
<1>4. Backed'
    BY MemoryTyped DEF End, Backed, TypeOK, InMemory, InMemoryAs, Makings
<1>5. Makings'
    BY MemoryTyped DEF End, Makings, Backed, TypeOK, InMemory, InMemoryAs, Used
<1> QED
    BY <1>1, <1>2, <1>3, <1>4, <1>5
\* Opening copies the options the method was given, which it keeps.
LEMMA OpenKeeps ==
  ASSUME IInv, NEW o \in Options, NEW fams \in FamilyOptions, Open(o, fams)
  PROVE  IInv'
<1> USE DEF IInv
<1>0. /\ dropped = {}
      /\ \A f \in Families : making[f] = None
      /\ memory' = Opened(o, fams)
    BY DEF Open, TypeOK, Backed, Makings, InMemory
<1>1. TypeOK'
    <2>1. memory' \in [Families -> Family \cup {None}]
        BY <1>0, OpenedFamilies
    <2>2. entry' \in [Families -> OptionsOrNone]
        BY DEF Open, FamilyOptions, OptionsOrNone
    <2> QED
        BY <2>1, <2>2, <1>0 DEF Open, TypeOK, OptionsOrNone
<1>2. InStep' /\ CallsWhileOpen'
    BY DEF Open, InStep, CallsWhileOpen, TypeOK
<1>3. \A f \in Families :
        memory'[f] # None =>
            /\ f \in DOMAIN fams
            /\ memory'[f].opts \in {o, fams[f]}
            /\ memory'[f].own => memory'[f].opts = fams[f]
            /\ ~memory'[f].own => memory'[f].opts = o
            /\ memory'[f].callback = pointer[memory'[f].opts]
    BY <1>0, OpenedFamilies
<1>4. \A f \in Families : memory'[f] # None => memory'[f].opts \in Options
    BY <1>1 DEF TypeOK, Family
<1>5. Traced'
    BY <1>3, <1>4 DEF Traced, InStep, Open, InMemory
<1>6. Backed'
    BY <1>3 DEF Backed, Open, InMemory
<1>7. Makings'
    BY <1>0 DEF Makings, Open
<1> QED
    BY <1>1, <1>2, <1>5, <1>6, <1>7

-------------------------------------------------------------------------------
(* Theorems *)

\* Every step keeps the inductive invariant.
LEMMA NextKeeps ==
  ASSUME IInv, [Next]_vars
  PROVE  IInv'
<1>1. CASE ProgramStep
    BY <1>1, NewOptionsKeeps, ForgetKeeps, SetCallbackKeeps, OpenKeeps, CloseKeeps,
       DropKeeps, CreateKeeps, BeginCallKeeps DEF ProgramStep
<1>2. CASE RocksStep
    BY <1>2, OpenDoneKeeps, OpenFailedKeeps, CloseDoneKeeps, GoneKeeps,
       CreateInCppKeeps, CreateFailedKeeps, CreateReturnKeeps, BeginJobKeeps,
       EndKeeps DEF RocksStep
<1>3. CASE UNCHANGED vars
    BY <1>3 DEF vars, IInv, TypeOK, InStep, Traced, Backed, Makings,
                CallsWhileOpen, InMemory, Used
<1> QED
    BY <1>1, <1>2, <1>3 DEF Next

\* The inductive invariant holds of every run.
LEMMA Invariance == Spec => []IInv
<1> QED
    BY InitIInv, NextKeeps, PTL DEF Spec

\* Types, and families that stay in memory after a drop only while they are used.
THEOREM OwnershipTypes == Spec => []TypeOK
<1>1. IInv => TypeOK
    BY DEF IInv
<1> QED
    BY <1>1, Invariance, PTL

\* Whatever the program sets and forgets, DB.opts and cf_options keep the callbacks of
\* open families, and those that come from the DB's Options until the database is
\* deleted; a program that keeps a family's options object keeps its callback through
\* drops and close().  A replaced callback is the only one that is lost.
THEOREM ListedFamiliesSafe == Spec => []ListedFamiliesKeepCallbacks
<1>1. ASSUME IInv
      PROVE  ListedFamiliesKeepCallbacks
    <2> SUFFICES ASSUME NEW f \in Families, InMemory(f),
                        memory[f].callback \notin replaced \cup {None},
                        \/ ~memory[f].own \/ (db # "closing" /\ f \notin dropped)
                        \/ memory[f].opts \in program
                 PROVE  Alive(memory[f].callback)
        BY DEF ListedFamiliesKeepCallbacks, Callable
    <2>1. memory[f].opts \in Options
        BY <1>1, MemoryTyped DEF IInv
    <2>2. memory[f].opts \in program \cup {dbOpts, entry[f], making[f]}
        BY <1>1, MemoryTyped DEF IInv, Backed
    <2>3. memory[f].callback = owned[memory[f].opts]
        BY <1>1 DEF IInv, Traced
    <2> QED
        BY <2>1, <2>2, <2>3 DEF Alive, Referenced
<1> QED
    BY <1>1, Invariance, PTL
===============================================================================
