--------------------------- MODULE DBLifecycleProofs ---------------------------
(* Theorems about DBLifecycle, for every value of its constants. *)
EXTENDS DBLifecycle, SequenceTheorems, FiniteSetTheorems, TLAPS

-------------------------------------------------------------------------------
(* What the helpers return *)

\* A method's stack frame is a frame.
LEMMA MethodType ==
    ASSUME NEW place \in Places, NEW d \in DBs \cup {None}, NEW o \in Opts \cup {None},
           NEW fams \in Seq(COpts \cup {None}), NEW raw \in SUBSET Handles,
           NEW pin \in SUBSET Handles, NEW kid \in Children \cup {None}
    PROVE  Method(place, d, o, fams, raw, pin, kid) \in Frame
BY DEF Method, Frame

LEMMA FrameFields ==
    ASSUME NEW f \in Frame
    PROVE  /\ f.at \in Places
           /\ f.db \in DBs \cup {None}
           /\ f.opts \in Opts \cup {None}
           /\ f.fams \in Seq(COpts \cup {None})
           /\ f.raw \subseteq Handles
           /\ f.pin \subseteq Handles
           /\ f.kid \in Children \cup {None}
BY DEF Frame

LEMMA IdleType == Idle \in Frame /\ Idle.at = "idle"
BY DEF Idle, Method, Frame, Places

\* Removing the i-th element of a list moves the later ones up by one.
LEMMA RemoveAtProperties ==
    ASSUME NEW S, NEW s \in Seq(S), NEW i \in 1..Len(s)
    PROVE  /\ RemoveAt(s, i) \in Seq(S)
           /\ Len(RemoveAt(s, i)) = Len(s) - 1
           /\ \A j \in 1..(Len(s) - 1) :
                 RemoveAt(s, i)[j] = IF j < i THEN s[j] ELSE s[j + 1]
<1> DEFINE s1 == SubSeq(s, 1, i - 1)
           s2 == SubSeq(s, i + 1, Len(s))
<1>1. /\ s1 \in Seq(S)
      /\ Len(s1) = i - 1
      /\ \A j \in 1..(i - 1) : s1[j] = s[j]
  BY SubSeqProperties
<1>2. /\ s2 \in Seq(S)
      /\ Len(s2) = Len(s) - i
      /\ \A j \in 1..(Len(s) - i) : s2[j] = s[i + j]
  BY SubSeqProperties
<1>3. RemoveAt(s, i) = s1 \o s2
  BY DEF RemoveAt
<1> HIDE DEF s1, s2
<1>4. /\ s1 \o s2 \in Seq(S)
      /\ Len(s1 \o s2) = Len(s) - 1
      /\ \A j \in 1..(Len(s) - 1) : (s1 \o s2)[j] = IF j < i THEN s1[j] ELSE s2[j - i + 1]
  BY <1>1, <1>2, ConcatProperties
<1> QED
  BY <1>1, <1>2, <1>3, <1>4

\* Reap keeps the type of family.
LEMMA ReapType ==
    ASSUME family \in [Handles -> Family \cup {None}], Reap
    PROVE  family' \in [Handles -> Family \cup {None}]
BY DEF Reap

LEMMA ColumnType ==
    ASSUME NEW d \in DBs, NEW o \in COpts \cup {None}, NEW default \in BOOLEAN,
           NEW dropped \in BOOLEAN
    PROVE  Column(d, o, default, dropped) \in Family
BY DEF Column, Family

LEMMA DescribeType ==
    ASSUME NEW d \in DBs, NEW fams \in Seq(COpts \cup {None}), NEW i \in 1..Len(fams)
    PROVE  /\ Describe(d, fams, i) \in Family
           /\ Describe(d, fams, i).db = d
           /\ Describe(d, fams, i).opts = fams[i]
<1> DEFINE default == fams[i] = None \/ (i = 1 /\ None \notin Range(fams))
<1>1. default \in BOOLEAN
  OBVIOUS
<1>2. fams[i] \in COpts \cup {None}
  OBVIOUS
<1>3. Describe(d, fams, i) = Column(d, fams[i], default, FALSE)
  BY DEF Describe
<1> HIDE DEF default
<1>4. Column(d, fams[i], default, FALSE) \in Family
  BY <1>1, <1>2, ColumnType
<1>5. /\ Column(d, fams[i], default, FALSE).db = d
      /\ Column(d, fams[i], default, FALSE).opts = fams[i]
  BY DEF Column
<1> QED
  BY <1>3, <1>4, <1>5

\* Position finds a handle of the list.
LEMMA PositionFinds ==
    ASSUME NEW n \in Nat, NEW hs \in [1..n -> Handles], NEW h \in Range(hs)
    PROVE  Position(hs, h) \in 1..n /\ hs[Position(hs, h)] = h
BY DEF Position, Range

-------------------------------------------------------------------------------
(* Type correctness *)

\* What a frame holds in each place.
FrameOK(f) ==
    /\ f.at = "idle" => f = Idle
    /\ f.at # "idle" => f.db \in DBs
    /\ f.at = "open" => f.opts \in Opts /\ f.fams # <<>>
    /\ f.at \in {"create", "created"} => \E c \in COpts : f.fams = <<c>>
    /\ f.at = "release" => f.kid \in Children

TypeInv ==
    /\ TypeOK
    /\ \A t \in Threads : FrameOK(frame[t])
    /\ \A d \in DBs : Len(cfHandles[d]) = Len(cfOptions[d])

LEMMA EnterType ==
    ASSUME NEW t \in Threads, NEW f \in Frame, TypeInv, Enter(t, f), FrameOK(f)
    PROVE  /\ frame' \in [Threads -> Frame]
           /\ \A u \in Threads : FrameOK(frame'[u])
           /\ frame[t] = Idle
BY DEF Enter, TypeInv, TypeOK, FrameOK

LEMMA LeaveType ==
    ASSUME NEW t \in Threads, TypeInv, Leave(t)
    PROVE  /\ frame' \in [Threads -> Frame]
           /\ \A u \in Threads : FrameOK(frame'[u])
BY IdleType DEF Leave, TypeInv, TypeOK, FrameOK

LEMMA TypeInit == Init => TypeInv
BY IdleType DEF Init, TypeInv, TypeOK, FrameOK

LEMMA TypeOpen ==
    ASSUME TypeInv, NEW t \in Threads, NEW d \in DBs, NEW o \in Opts,
           NEW fams \in OpenFamilies, Open(t, d, o, fams)
    PROVE  TypeInv'
<1> DEFINE f == Method("open", d, o, fams, {}, {}, None)
<1>1. fams \in Seq(COpts \cup {None}) /\ fams # <<>>
  BY ConstantsAssumption
<1>2. f \in Frame
  BY <1>1, MethodType DEF Places
<1>3. FrameOK(f)
  BY <1>1 DEF FrameOK, Method
<1>4. /\ frame' \in [Threads -> Frame]
      /\ \A u \in Threads : FrameOK(frame'[u])
  BY <1>2, <1>3, EnterType DEF Open
<1>5. inUse' \in [Opts \cup COpts -> BOOLEAN]
  BY DEF Open, Admit, TypeInv, TypeOK
<1> QED
  BY <1>4, <1>5 DEF Open, TypeInv, TypeOK

LEMMA TypeOpenDone ==
    ASSUME TypeInv, NEW t \in Threads, OpenDone(t)
    PROVE  TypeInv'
<1> DEFINE d == frame[t].db
           fams == frame[t].fams
<1>1. d \in DBs /\ frame[t].opts \in Opts /\ fams \in Seq(COpts \cup {None})
  BY DEF TypeInv, TypeOK, FrameOK, Frame, OpenDone
<1>2. PICK hs \in [1..Len(fams) -> Handles \ Live] :
         /\ cfHandles' = [cfHandles EXCEPT ![d] = hs]
         /\ family' = [h \in Handles |->
                          IF h \in Range(hs) THEN Describe(d, fams, Position(hs, h))
                                             ELSE family[h]]
  BY DEF OpenDone, Unmade
<1>3. hs \in [1..Len(fams) -> Handles] /\ Len(fams) \in Nat
  BY <1>1, <1>2
<1>4. hs \in Seq(Handles)
  BY <1>3
<1>5. \A h \in Range(hs) : Describe(d, fams, Position(hs, h)) \in Family
  BY <1>1, <1>3, PositionFinds, DescribeType
<1>6. family' \in [Handles -> Family \cup {None}]
  BY <1>2, <1>5 DEF TypeInv, TypeOK
<1>7. /\ frame' \in [Threads -> Frame]
      /\ \A u \in Threads : FrameOK(frame'[u])
  BY LeaveType DEF OpenDone
<1> QED
  BY <1>1, <1>2, <1>4, <1>6, <1>7 DEF OpenDone, TypeInv, TypeOK

LEMMA TypeCreate ==
    ASSUME TypeInv, NEW t \in Threads, NEW d \in DBs, NEW c \in COpts, Create(t, d, c)
    PROVE  TypeInv'
<1> DEFINE last == IF cfHandles[d] = <<>> THEN {} ELSE {Last(cfHandles[d])}
           f == Method("create", d, None, <<c>>, {}, last, None)
<1>1. last \in SUBSET Handles
  <2>1. cfHandles[d] \in Seq(Handles)
    BY DEF TypeInv, TypeOK
  <2>2. cfHandles[d] # <<>> => Last(cfHandles[d]) \in Handles
    BY <2>1 DEF Last
  <2> QED
    BY <2>2
<1> HIDE DEF last
<1>2. f \in Frame
  BY <1>1 DEF Method, Frame, Places
<1>3. FrameOK(f)
  BY DEF FrameOK, Method
<1>4. Enter(t, f)
  BY DEF Create, last
<1> HIDE DEF f
<1>5. /\ frame' \in [Threads -> Frame]
      /\ \A u \in Threads : FrameOK(frame'[u])
  BY <1>2, <1>3, <1>4, EnterType
<1> QED
  BY <1>5 DEF Create, TypeInv, TypeOK

LEMMA TypeCreateInCpp ==
    ASSUME TypeInv, NEW t \in Threads, CreateInCpp(t)
    PROVE  TypeInv'
<1>1. PICK c \in COpts : frame[t].fams = <<c>>
  BY DEF CreateInCpp, TypeInv, FrameOK
<1>2. frame[t] \in Frame /\ frame[t].db \in DBs
  BY DEF CreateInCpp, TypeInv, TypeOK, FrameOK
<1>3. PICK h \in Handles \ Live :
         /\ family' = [family EXCEPT ![h] =
                Column(frame[t].db, frame[t].fams[1], FALSE, FALSE)]
         /\ frame' = [frame EXCEPT ![t] =
                Method("created", @.db, None, @.fams, {h}, @.pin \cup {h}, None)]
  BY DEF CreateInCpp, Unmade
<1> DEFINE f == Method("created", frame[t].db, None, <<c>>, {h},
                       frame[t].pin \cup {h}, None)
<1>4. f \in Frame
  <2>1. frame[t].pin \cup {h} \in SUBSET Handles
    BY <1>2, FrameFields
  <2>2. <<c>> \in Seq(COpts \cup {None})
    OBVIOUS
  <2> QED
    BY <1>2, <2>1, <2>2 DEF Method, Frame, Places
<1>5. FrameOK(f)
  BY <1>2 DEF FrameOK, Method
<1>6. family' \in [Handles -> Family \cup {None}]
  <2>1. Column(frame[t].db, frame[t].fams[1], FALSE, FALSE) \in Family
    BY <1>1, <1>2 DEF Column, Family
  <2> QED
    BY <1>3, <2>1 DEF TypeInv, TypeOK
<1>7. frame' = [frame EXCEPT ![t] = f]
  BY <1>1, <1>3
<1> QED
  BY <1>4, <1>5, <1>6, <1>7 DEF CreateInCpp, TypeInv, TypeOK

LEMMA TypeCreateReturn ==
    ASSUME TypeInv, NEW t \in Threads, CreateReturn(t)
    PROVE  TypeInv'
<1> DEFINE d == frame[t].db
<1>1. PICK c \in COpts : frame[t].fams = <<c>>
  BY DEF CreateReturn, TypeInv, FrameOK
<1>2. d \in DBs /\ frame[t].raw \subseteq Handles
  BY DEF CreateReturn, TypeInv, TypeOK, FrameOK, Frame
<1>3. cfHandles' \in [DBs -> Seq(Handles)]
  BY <1>2 DEF CreateReturn, TypeInv, TypeOK
<1>4. cfOptions' \in [DBs -> Seq(COpts \cup {None})]
  BY <1>1, <1>2 DEF CreateReturn, TypeInv, TypeOK
<1>5. family' \in [Handles -> Family \cup {None}]
  BY ReapType DEF CreateReturn, TypeInv, TypeOK
<1>6. /\ frame' \in [Threads -> Frame]
      /\ \A u \in Threads : FrameOK(frame'[u])
  BY LeaveType DEF CreateReturn
<1> QED
  BY <1>3, <1>4, <1>5, <1>6 DEF CreateReturn, TypeInv, TypeOK

LEMMA TypeDropInCpp ==
    ASSUME TypeInv, NEW t \in Threads, DropInCpp(t)
    PROVE  TypeInv'
<1>1. frame[t] \in Frame /\ frame[t].db \in DBs
  BY DEF DropInCpp, TypeInv, TypeOK, FrameOK
<1> DEFINE f == Method("dropped", frame[t].db, None, <<>>, frame[t].raw, {}, None)
<1>2. f \in Frame
  BY <1>1, FrameFields DEF Method, Frame, Places
<1>3. FrameOK(f)
  BY <1>1 DEF FrameOK, Method
<1>4. \A h \in Live : Column(family[h].db, family[h].opts, FALSE, TRUE) \in Family
  <2>1. \A x \in Family : x.db \in DBs /\ x.opts \in COpts \cup {None}
    BY DEF Family
  <2>2. \A h \in Live : family[h] \in Family
    BY DEF Live, TypeInv, TypeOK
  <2> QED
    BY <2>1, <2>2, ColumnType
<1>5. family' \in [Handles -> Family \cup {None}]
  BY <1>4 DEF DropInCpp, TypeInv, TypeOK
<1> QED
  BY <1>2, <1>3, <1>5 DEF DropInCpp, TypeInv, TypeOK

LEMMA TypeDropReturn ==
    ASSUME TypeInv, NEW t \in Threads, DropReturn(t)
    PROVE  TypeInv'
<1> DEFINE d == frame[t].db
<1>1. d \in DBs
  BY DEF DropReturn, TypeInv, FrameOK
<1>2. PICK i \in DOMAIN cfHandles[d] :
         /\ cfHandles' = [cfHandles EXCEPT ![d] = RemoveAt(@, i)]
         /\ cfOptions' = [cfOptions EXCEPT ![d] = RemoveAt(@, i)]
         /\ inUse' = [c \in DOMAIN inUse |-> inUse[c] /\ c # cfOptions[d][i]]
  BY DEF DropReturn
<1>3. inUse' \in [Opts \cup COpts -> BOOLEAN]
  BY <1>2 DEF TypeInv, TypeOK
<1>4. i \in 1..Len(cfHandles[d]) /\ i \in 1..Len(cfOptions[d])
  BY <1>1, <1>2 DEF TypeInv, TypeOK
<1>5. cfHandles' \in [DBs -> Seq(Handles)]
  BY <1>1, <1>2, <1>4, RemoveAtProperties DEF TypeInv, TypeOK
<1>6. cfOptions' \in [DBs -> Seq(COpts \cup {None})]
  BY <1>1, <1>2, <1>4, RemoveAtProperties DEF TypeInv, TypeOK
<1>7. Len(RemoveAt(cfHandles[d], i)) = Len(RemoveAt(cfOptions[d], i))
  BY <1>1, <1>4, RemoveAtProperties DEF TypeInv, TypeOK
<1>8. family' \in [Handles -> Family \cup {None}]
  BY ReapType DEF DropReturn, TypeInv, TypeOK
<1>9. /\ frame' \in [Threads -> Frame]
      /\ \A u \in Threads : FrameOK(frame'[u])
  BY LeaveType DEF DropReturn
<1> QED
  BY <1>1, <1>2, <1>3, <1>5, <1>6, <1>7, <1>8, <1>9 DEF DropReturn, TypeInv, TypeOK

\* The methods that enter with nothing but a DB, handles and an iterator.
LEMMA TypeEnterSimple ==
    ASSUME TypeInv, NEW t \in Threads, NEW d \in DBs, NEW raw \in SUBSET Handles,
           NEW kid \in Children \cup {None},
           NEW place \in {"drop", "call", "release", "close", "dealloc"},
           place = "release" => kid \in Children,
           Enter(t, Method(place, d, None, <<>>, raw, {}, kid))
    PROVE  /\ frame' \in [Threads -> Frame]
           /\ \A u \in Threads : FrameOK(frame'[u])
<1> DEFINE f == Method(place, d, None, <<>>, raw, {}, kid)
<1>1. f \in Frame
  BY DEF Method, Frame, Places
<1>2. FrameOK(f)
  BY DEF FrameOK, Method
<1> HIDE DEF f
<1>3. Enter(t, f)
  BY DEF f
<1> QED
  BY <1>1, <1>2, <1>3, EnterType

LEMMA TypeEnters ==
    ASSUME TypeInv, NEW t \in Threads,
           \/ \E d \in DBs, h \in Handles : Drop(t, d, h)
           \/ \E d \in DBs, hs \in SUBSET Handles : Call(t, d, hs)
           \/ \E k \in Children : UseChild(t, k) \/ Release(t, k)
    PROVE  TypeInv'
<1>1. \A k \in Children : child[k] # None => child[k] \in DBs
  BY DEF TypeInv, TypeOK
<1>2. /\ frame' \in [Threads -> Frame]
      /\ \A u \in Threads : FrameOK(frame'[u])
  <2>1. CASE \E d \in DBs, h \in Handles : Drop(t, d, h)
    BY <2>1, TypeEnterSimple DEF Drop
  <2>2. CASE \E d \in DBs, hs \in SUBSET Handles : Call(t, d, hs)
    BY <2>2, TypeEnterSimple DEF Call
  <2>3. CASE \E k \in Children : UseChild(t, k) \/ Release(t, k)
    BY <2>3, <1>1, TypeEnterSimple DEF UseChild, Release
  <2> QED
    BY <2>1, <2>2, <2>3
<1> QED
  BY <1>2 DEF Drop, Call, UseChild, Release, TypeInv, TypeOK

LEMMA TypeLeaves ==
    ASSUME TypeInv, NEW t \in Threads,
           \/ OpenFailed(t) \/ CreateFailed(t) \/ DropFailed(t) \/ DropUnlisted(t)
           \/ Return(t) \/ Released(t) \/ \E k \in Children : ReturnChild(t, k)
    PROVE  TypeInv'
<1>1. /\ frame' \in [Threads -> Frame]
      /\ \A u \in Threads : FrameOK(frame'[u])
  BY LeaveType DEF OpenFailed, CreateFailed, DropFailed, DropUnlisted, Return, Released,
                   ReturnChild
<1>2. family' \in [Handles -> Family \cup {None}]
  BY ReapType DEF OpenFailed, CreateFailed, DropFailed, DropUnlisted, Return, Released,
                  ReturnChild, TypeInv, TypeOK
<1>3. child' \in [Children -> DBs \cup {None}]
  <2>1. frame[t].at # "idle" => frame[t].db \in DBs
    BY DEF TypeInv, FrameOK
  <2> QED
    BY <2>1 DEF OpenFailed, CreateFailed, DropFailed, DropUnlisted, Return, Released,
                ReturnChild, TypeInv, TypeOK
<1> QED
  BY <1>1, <1>2, <1>3 DEF OpenFailed, CreateFailed, DropFailed, DropUnlisted, Return,
                          Released, ReturnChild, TypeInv, TypeOK

LEMMA TypeClosing ==
    ASSUME TypeInv, NEW t \in Threads, NEW d \in DBs, Close(t, d) \/ Dealloc(t, d)
    PROVE  TypeInv'
<1>1. CloseBody(d) /\ UNCHANGED <<optsOf, child, held>>
  BY DEF Close, Dealloc
<1>2. /\ frame' \in [Threads -> Frame]
      /\ \A u \in Threads : FrameOK(frame'[u])
  BY TypeEnterSimple DEF Close, Dealloc
<1>3. family' \in [Handles -> Family \cup {None}]
  BY <1>1, ReapType DEF CloseBody, TypeInv, TypeOK
<1>4. inUse' \in [Opts \cup COpts -> BOOLEAN]
  BY <1>1 DEF CloseBody, TypeInv, TypeOK
<1> QED
  BY <1>1, <1>2, <1>3, <1>4 DEF CloseBody, TypeInv, TypeOK

LEMMA TypeCloseReturn ==
    ASSUME TypeInv, NEW t \in Threads, CloseReturn(t)
    PROVE  TypeInv'
<1>1. /\ frame' \in [Threads -> Frame]
      /\ \A u \in Threads : FrameOK(frame'[u])
  BY LeaveType DEF CloseReturn
<1> QED
  BY <1>1 DEF CloseReturn, TypeInv, TypeOK

LEMMA TypeNext == TypeInv /\ [Next]_vars => TypeInv'
<1> SUFFICES ASSUME TypeInv, [Next]_vars PROVE TypeInv'
  OBVIOUS
<1>1. ASSUME NEW t \in Threads, Proceed(t) PROVE TypeInv'
  BY <1>1, TypeOpenDone, TypeCreateInCpp, TypeCreateReturn, TypeDropInCpp,
     TypeDropReturn, TypeLeaves, TypeCloseReturn DEF Proceed
<1>2. ASSUME NEW t \in Threads, Invoke(t) PROVE TypeInv'
  <2>1. ASSUME NEW o \in Opts, NEW fams \in OpenFamilies, OpenRejected(t, o, fams)
        PROVE  TypeInv'
    BY <2>1 DEF OpenRejected, Admit, TypeInv, TypeOK
  <2> QED
    BY <1>2, <2>1, TypeOpen, TypeCreate, TypeEnters, TypeClosing DEF Invoke
<1>3. ASSUME NEW t \in Threads, NEW d \in DBs, Dealloc(t, d) PROVE TypeInv'
  BY <1>3, TypeClosing
<1>4. ASSUME NEW d \in DBs, Forget(d) PROVE TypeInv'
  BY <1>4 DEF Forget, TypeInv, TypeOK
<1>5. CASE UNCHANGED vars
  BY <1>5 DEF vars, TypeInv, TypeOK
<1> QED
  BY <1>1, <1>2, <1>3, <1>4, <1>5 DEF Next

\* Every variable keeps the shape the code gives it: the two lists of a DB hold
\* handles and options, flags are Booleans, a frame refers to what its method took.
THEOREM TypeCorrect == Spec => []TypeOK
<1>1. TypeInv => TypeOK
  BY DEF TypeInv
<1> QED
  BY <1>1, TypeInit, TypeNext, PTL DEF Spec

-------------------------------------------------------------------------------
(* Constructors and __dealloc__ are alone *)

(***************************************************************************)
(* A constructor and a __dealloc__ have their DB to themselves: nothing    *)
(* refers to it, and its lists are empty.                                  *)
(***************************************************************************)
Unreferred(d) ==
    d \notin held /\ cfHandles[d] = <<>> /\ \A k \in Children : child[k] # d

AloneInv ==
    /\ \A t \in Threads :
          /\ frame[t].at \in {"open", "dealloc"} =>
                /\ Unreferred(frame[t].db)
                /\ \A u \in Threads : frame[u].db = frame[t].db => u = t
          /\ frame[t].at = "open" => cpp[frame[t].db] = "null"
          /\ frame[t].at \notin {"idle", "open"} => cpp[frame[t].db] # "null"
    /\ \A d \in DBs : cpp[d] = "null" => Unreferred(d)

LEMMA IdleFields == Idle.at = "idle" /\ Idle.db = None /\ Idle.pin = {} /\ None \notin DBs
BY ConstantsAssumption DEF Idle, Method

LEMMA AloneInit == Init => AloneInv
<1>1. \A k \in Children, d \in DBs : None # d
  BY IdleFields
<1> QED
  BY <1>1, IdleFields DEF Init, AloneInv, Unreferred

OthersStay(t) == \A u \in Threads : u # t => frame'[u] = frame[u]

LEMMA LeaveFacts ==
    ASSUME TypeInv, NEW t \in Threads, Leave(t)
    PROVE  OthersStay(t) /\ frame'[t] = Idle
BY DEF Leave, OthersStay, TypeInv, TypeOK

LEMMA EnterFacts ==
    ASSUME TypeInv, NEW t \in Threads, NEW f, Enter(t, f)
    PROVE  OthersStay(t) /\ frame'[t] = f /\ frame[t] = Idle
BY DEF Enter, OthersStay, TypeInv, TypeOK, FrameOK

\* A step of a method on a DB that others may be using too, and that touches
\* only that DB.
LEMMA AloneShared ==
    ASSUME TypeInv, AloneInv, NEW t \in Threads, NEW d \in DBs, OthersStay(t),
           \/ frame'[t] = Idle
           \/ frame'[t].db = d /\ frame'[t].at \notin {"idle", "open", "dealloc"},
           cpp[d] # "null", cpp'[d] # "null",
           \A u \in Threads : frame[u].at \in {"open", "dealloc"} => frame[u].db # d,
           \A e \in DBs : e # d => cpp'[e] = cpp[e] /\ cfHandles'[e] = cfHandles[e],
           held' \subseteq held,
           \A k \in Children : child'[k] \in {child[k], d, None}
    PROVE  AloneInv'
<1>2. \A e \in DBs : e # d /\ Unreferred(e) => Unreferred(e)'
  BY IdleFields DEF Unreferred
<1>3. \A u \in Threads : frame[u].at # "idle" => frame[u].db \in DBs
  BY DEF TypeInv, FrameOK
<1>4. \A u \in Threads :
         frame'[u].at \in {"open", "dealloc"} =>
            /\ u # t /\ frame'[u] = frame[u] /\ frame[u].db \in DBs \ {d}
            /\ Unreferred(frame[u].db)'
  BY <1>2, <1>3, IdleFields DEF AloneInv, OthersStay
<1>5. \A u \in Threads :
         frame'[u].at \in {"open", "dealloc"} =>
            \A v \in Threads : frame'[v].db = frame'[u].db => v = u
  BY <1>3, <1>4, IdleFields DEF AloneInv, OthersStay
<1>6. \A u \in Threads :
         /\ frame'[u].at = "open" => cpp'[frame'[u].db] = "null"
         /\ frame'[u].at \notin {"idle", "open"} => cpp'[frame'[u].db] # "null"
  BY <1>3, <1>4, IdleFields DEF AloneInv, OthersStay
<1>7. \A e \in DBs : cpp'[e] = "null" => Unreferred(e)'
  BY <1>2 DEF AloneInv
<1> QED
  BY <1>4, <1>5, <1>6, <1>7 DEF AloneInv

\* The method that has a DB to itself returns.
LEMMA AloneExit ==
    ASSUME TypeInv, AloneInv, NEW t \in Threads, NEW d \in DBs, Leave(t),
           frame[t].at \in {"open", "dealloc"}, frame[t].db = d,
           \A e \in DBs : e # d => cpp'[e] = cpp[e] /\ (Unreferred(e) => Unreferred(e)'),
           cpp'[d] = "null" => Unreferred(d)'
    PROVE  AloneInv'
<1>1. OthersStay(t) /\ frame'[t] = Idle
  BY LeaveFacts
<1>2. \A u \in Threads : u # t => frame[u].db # d
  BY DEF AloneInv
<1>3. \A u \in Threads : frame[u].at # "idle" => frame[u].db \in DBs
  BY DEF TypeInv, FrameOK
<1>4. \A u \in Threads :
         frame'[u].at \in {"open", "dealloc"} =>
            /\ u # t /\ frame'[u] = frame[u] /\ frame[u].db \in DBs \ {d}
            /\ Unreferred(frame[u].db)'
  BY <1>1, <1>2, <1>3, IdleFields DEF AloneInv, OthersStay
<1>5. \A u \in Threads :
         frame'[u].at \in {"open", "dealloc"} =>
            \A v \in Threads : frame'[v].db = frame'[u].db => v = u
  BY <1>1, <1>3, <1>4, IdleFields DEF AloneInv, OthersStay
<1>6. \A u \in Threads :
         /\ frame'[u].at = "open" => cpp'[frame'[u].db] = "null"
         /\ frame'[u].at \notin {"idle", "open"} => cpp'[frame'[u].db] # "null"
  BY <1>1, <1>2, <1>3, <1>4, IdleFields DEF AloneInv, OthersStay
<1>7. \A e \in DBs : cpp'[e] = "null" => Unreferred(e)'
  BY DEF AloneInv
<1> QED
  BY <1>4, <1>5, <1>6, <1>7 DEF AloneInv

\* A DB that the program holds, or that an iterator or a running method other
\* than its constructor or __dealloc__ refers to, is nobody's alone.
LEMMA SharedDB ==
    ASSUME TypeInv, AloneInv, NEW d \in DBs,
           \/ d \in held
           \/ \E k \in Children : child[k] = d
           \/ \E t \in Threads : /\ frame[t].at \notin {"idle", "open", "dealloc"}
                                 /\ frame[t].db = d
    PROVE  /\ cpp[d] # "null"
           /\ \A u \in Threads : frame[u].at \in {"open", "dealloc"} => frame[u].db # d
BY DEF AloneInv, Unreferred

LEMMA AloneNext == TypeInv /\ AloneInv /\ [Next]_vars => AloneInv'
<1> SUFFICES ASSUME TypeInv, AloneInv, [Next]_vars PROVE AloneInv'
  OBVIOUS
<1>1. ASSUME NEW t \in Threads, Proceed(t) PROVE AloneInv'
  <2> DEFINE d == frame[t].db
  <2>1. frame[t].at # "idle" => d \in DBs
    BY DEF TypeInv, FrameOK
  <2>2. CASE OpenDone(t)
    <3>1. frame[t].at = "open" /\ d \in DBs /\ Leave(t)
      BY <2>1, <2>2 DEF OpenDone
    <3>2. \A e \in DBs : e # d => cpp'[e] = cpp[e] /\ (Unreferred(e) => Unreferred(e)')
      BY <3>1, <2>2 DEF OpenDone, Unreferred, TypeInv, TypeOK
    <3>3. cpp'[d] # "null"
      BY <3>1, <2>2 DEF OpenDone, TypeInv, TypeOK
    <3> QED
      BY <3>1, <3>2, <3>3, AloneExit
  <2>3. CASE OpenFailed(t)
    <3>1. frame[t].at = "open" /\ d \in DBs /\ Leave(t)
      BY <2>1, <2>3 DEF OpenFailed
    <3>2. \A e \in DBs : cpp'[e] = cpp[e] /\ (Unreferred(e) => Unreferred(e)')
      BY <2>3 DEF OpenFailed, Unreferred
    <3> QED
      BY <3>1, <3>2, AloneExit DEF AloneInv
  <2>6. CASE CloseReturn(t) /\ frame[t].at = "dealloc"
    <3>1. d \in DBs /\ Leave(t)
      BY <2>1, <2>6 DEF CloseReturn
    <3>2. \A e \in DBs : e # d => cpp'[e] = cpp[e]
      BY <3>1, <2>6 DEF CloseReturn, TypeInv, TypeOK
    <3>3. \A e \in DBs : Unreferred(e) => Unreferred(e)'
      BY <2>6 DEF CloseReturn, Unreferred
    <3> QED
      BY <2>6, <3>1, <3>2, <3>3, AloneExit DEF AloneInv
  <2>4. CASE frame[t].at \notin {"idle", "open", "dealloc"}
    <3>1. /\ cpp[d] # "null"
          /\ \A u \in Threads : frame[u].at \in {"open", "dealloc"} => frame[u].db # d
      BY <2>1, <2>4, SharedDB
    <3>2. CASE CreateInCpp(t) \/ DropInCpp(t)
      <4>1. /\ frame'[t].db = d /\ frame'[t].at \in {"created", "dropped"}
            /\ OthersStay(t)
        <5>1. CASE CreateInCpp(t)
          BY <5>1 DEF CreateInCpp, Method, OthersStay, TypeInv, TypeOK
        <5>2. CASE DropInCpp(t)
          BY <5>2 DEF DropInCpp, Method, OthersStay, TypeInv, TypeOK
        <5> QED
          BY <3>2, <5>1, <5>2
      <4>2. UNCHANGED <<cpp, cfHandles, held, child>>
        BY <3>2 DEF CreateInCpp, DropInCpp
      <4> QED
        BY <2>1, <2>4, <3>1, <4>1, <4>2, AloneShared
    <3>4. CASE CreateReturn(t) \/ DropReturn(t) \/ CloseReturn(t)
      <4>1. Leave(t) /\ UNCHANGED <<held, child>>
        BY <3>4 DEF CreateReturn, DropReturn, CloseReturn
      <4>2. \A e \in DBs : e # d => cfHandles'[e] = cfHandles[e]
        BY <2>1, <2>4, <3>4 DEF CreateReturn, DropReturn, CloseReturn, TypeInv, TypeOK
      <4>3. cpp'[d] # "null" /\ \A e \in DBs : e # d => cpp'[e] = cpp[e]
        BY <2>1, <2>4, <3>1, <3>4 DEF CreateReturn, DropReturn, CloseReturn, TypeInv, TypeOK
      <4> QED
        BY <2>1, <2>4, <3>1, <4>1, <4>2, <4>3, LeaveFacts, AloneShared
    <3>5. CASE \/ CreateFailed(t) \/ DropFailed(t) \/ DropUnlisted(t) \/ Return(t)
               \/ Released(t) \/ \E k \in Children : ReturnChild(t, k)
      <4>1. Leave(t) /\ UNCHANGED <<held, cpp, cfHandles>>
        BY <3>5 DEF CreateFailed, DropFailed, DropUnlisted, Return, Released, ReturnChild
      <4>2. \A k \in Children : child'[k] \in {child[k], d, None}
        BY <3>5 DEF CreateFailed, DropFailed, DropUnlisted, Return, Released, ReturnChild,
                    TypeInv, TypeOK
      <4> QED
        BY <2>1, <2>4, <3>1, <4>1, <4>2, LeaveFacts, AloneShared
    <3> QED
      BY <1>1, <2>4, <3>2, <3>4, <3>5 DEF Proceed, OpenDone, OpenFailed
  <2>5. \/ OpenDone(t) \/ OpenFailed(t)
        \/ CloseReturn(t) /\ frame[t].at = "dealloc"
        \/ frame[t].at \notin {"idle", "open", "dealloc"}
    <3>1. CreateInCpp(t) \/ CreateFailed(t) => frame[t].at = "create"
      BY DEF CreateInCpp, CreateFailed
    <3>2. CreateReturn(t) => frame[t].at = "created"
      BY DEF CreateReturn
    <3>3. DropInCpp(t) \/ DropFailed(t) => frame[t].at = "drop"
      BY DEF DropInCpp, DropFailed
    <3>4. DropReturn(t) \/ DropUnlisted(t) => frame[t].at = "dropped"
      BY DEF DropReturn, DropUnlisted
    <3>5. Return(t) \/ (\E k \in Children : ReturnChild(t, k)) => frame[t].at = "call"
      BY DEF Return, ReturnChild
    <3>6. /\ Released(t) => frame[t].at = "release"
          /\ CloseReturn(t) => frame[t].at \in {"close", "dealloc"}
      BY DEF Released, CloseReturn
    <3> QED
      BY <1>1, <3>1, <3>2, <3>3, <3>4, <3>5, <3>6 DEF Proceed
  <2> QED
    BY <2>2, <2>3, <2>4, <2>5, <2>6
<1>2. ASSUME NEW t \in Threads, Invoke(t) PROVE AloneInv'
  <2>1. ASSUME NEW d \in DBs, NEW o \in Opts, NEW fams \in OpenFamilies,
               Open(t, d, o, fams)
        PROVE  AloneInv'
    <3> DEFINE f == Method("open", d, o, fams, {}, {}, None)
    <3>1. f.db = d /\ f.at = "open"
      BY DEF Method
    <3> HIDE DEF f
    <3>2. \A u \in Threads : frame'[u] = IF u = t THEN f ELSE frame[u]
      BY <2>1 DEF Open, Enter, TypeInv, TypeOK, f
    <3>3. \A u \in Threads : frame[u].db # d
      BY <2>1 DEF Open, Free, Referenced, FramesOf
    <3> QED
      BY <2>1, <3>1, <3>2, <3>3 DEF Open, Free, AloneInv, Unreferred
  <2>2. ASSUME NEW o \in Opts, NEW fams \in OpenFamilies, OpenRejected(t, o, fams)
        PROVE  AloneInv'
    BY <2>2 DEF OpenRejected, AloneInv, Unreferred
  <2>3. ASSUME NEW d \in DBs,
               \/ \E c \in COpts : Create(t, d, c)
               \/ \E h \in Handles : Drop(t, d, h)
               \/ \E hs \in SUBSET Handles : Call(t, d, hs)
               \/ \E k \in Children : child[k] = d /\ (UseChild(t, k) \/ Release(t, k))
               \/ Close(t, d)
        PROVE  AloneInv'
    <3>1. d \in held \/ \E k \in Children : child[k] = d
      BY <2>3 DEF Create, Drop, Call, Close
    <3>2. /\ cpp[d] # "null"
          /\ \A u \in Threads : frame[u].at \in {"open", "dealloc"} => frame[u].db # d
      BY <3>1, SharedDB
    <3>3. /\ frame'[t].db = d /\ frame'[t].at \notin {"idle", "open", "dealloc"}
          /\ OthersStay(t)
      <4>1. ASSUME NEW c \in COpts, Create(t, d, c) PROVE <3>3!:
        BY <4>1 DEF Create, Enter, Method, OthersStay, TypeInv, TypeOK
      <4>2. ASSUME NEW h \in Handles, Drop(t, d, h) PROVE <3>3!:
        BY <4>2 DEF Drop, Enter, Method, OthersStay, TypeInv, TypeOK
      <4>3. ASSUME NEW hs \in SUBSET Handles, Call(t, d, hs) PROVE <3>3!:
        BY <4>3 DEF Call, Enter, Method, OthersStay, TypeInv, TypeOK
      <4>4. ASSUME NEW k \in Children, child[k] = d, UseChild(t, k) \/ Release(t, k)
            PROVE  <3>3!:
        BY <4>4 DEF UseChild, Release, Enter, Method, OthersStay, TypeInv, TypeOK
      <4>5. CASE Close(t, d)
        BY <4>5 DEF Close, Enter, Method, OthersStay, TypeInv, TypeOK
      <4> QED
        BY <2>3, <4>1, <4>2, <4>3, <4>4, <4>5
    <3>4. /\ cpp'[d] # "null" /\ UNCHANGED <<held, child>>
          /\ \A e \in DBs : e # d => cpp'[e] = cpp[e] /\ cfHandles'[e] = cfHandles[e]
      BY <2>3, <3>2 DEF Create, Drop, Call, UseChild, Release, Close, CloseBody,
                        TypeInv, TypeOK
    <3> QED
      BY <3>2, <3>3, <3>4, AloneShared
  <2>4. \A k \in Children : child[k] # None => child[k] \in DBs
    BY DEF TypeInv, TypeOK
  <2> QED
    BY <1>2, <2>1, <2>2, <2>3, <2>4 DEF Invoke, UseChild, Release
<1>3. ASSUME NEW t \in Threads, NEW d \in DBs, Dealloc(t, d) PROVE AloneInv'
  <2> DEFINE f == Method("dealloc", d, None, <<>>, {}, {}, None)
  <2>1. f.db = d /\ f.at = "dealloc"
    BY DEF Method
  <2> HIDE DEF f
  <2>2. \A u \in Threads : frame'[u] = IF u = t THEN f ELSE frame[u]
    BY <1>3 DEF Dealloc, Enter, TypeInv, TypeOK, f
  <2>3. \A u \in Threads : frame[u].db # d
    BY <1>3 DEF Dealloc, Referenced, FramesOf
  <2>4. Unreferred(d)' /\ cpp'[d] # "null"
    BY <1>3 DEF Dealloc, Referenced, ChildrenOf, CloseBody, Unreferred, TypeInv, TypeOK
  <2>5. \A e \in DBs : e # d => /\ cpp'[e] = cpp[e]
                                /\ Unreferred(e) => Unreferred(e)'
    BY <1>3 DEF Dealloc, CloseBody, Unreferred, TypeInv, TypeOK
  <2> QED
    BY <2>1, <2>2, <2>3, <2>4, <2>5, IdleFields DEF AloneInv, TypeInv, FrameOK
<1>4. ASSUME NEW d \in DBs, Forget(d) PROVE AloneInv'
  BY <1>4 DEF Forget, AloneInv, Unreferred
<1>5. CASE UNCHANGED vars
  BY <1>5 DEF vars, AloneInv, Unreferred
<1> QED
  BY <1>1, <1>2, <1>3, <1>4, <1>5 DEF Next

-------------------------------------------------------------------------------
(* ColumnFamilyOptions serve one column family *)

(***************************************************************************)
(* FamilyOptionsExclusive is not inductive: that a constructor does not    *)
(* list an options object twice rests on the list it was called with.      *)
(* LeaseInv says so, and says the rest without counting.                   *)
(***************************************************************************)
Reserves(t, c) == frame[t].at \in {"open", "create", "created"} /\ c \in Range(frame[t].fams)

EntryOf(c, d, i) == i \in 1..Len(cfOptions[d]) /\ cfOptions[d][i] = c

Distinct(fams) == \A i, j \in 1..Len(fams) : fams[i] = fams[j] => i = j

OneEntry(c) ==
    \A d, e \in DBs : \A i, j \in Nat : EntryOf(c, d, i) /\ EntryOf(c, e, j) => d = e /\ i = j

OneReservation(c) == \A t, u \in Threads : Reserves(t, c) /\ Reserves(u, c) => t = u

ReservedOrEntered(c) ==
    \A t \in Threads, d \in DBs : \A i \in Nat : ~(Reserves(t, c) /\ EntryOf(c, d, i))

Flagged(c) ==
    /\ \A t \in Threads : Reserves(t, c) => inUse[c]
    /\ \A d \in DBs : \A i \in Nat : EntryOf(c, d, i) => inUse[c]

LeaseInv ==
    /\ \A t \in Threads : frame[t].at = "open" => Distinct(frame[t].fams)
    /\ \A c \in COpts :
          OneEntry(c) /\ OneReservation(c) /\ ReservedOrEntered(c) /\ Flagged(c)

LEMMA LeaseInit == Init => LeaseInv
<1> SUFFICES ASSUME Init PROVE LeaseInv
  OBVIOUS
<1>1. \A t \in Threads : frame[t].at = "idle"
  BY IdleFields DEF Init
<1>2. \A t \in Threads : \A c : ~Reserves(t, c)
  BY <1>1 DEF Reserves
<1>3. \A d \in DBs : \A i \in Nat : \A c : ~EntryOf(c, d, i)
  BY DEF Init, EntryOf
<1> QED
  BY <1>1, <1>2, <1>3 DEF LeaseInv, OneEntry, OneReservation, ReservedOrEntered, Flagged

\* A step that takes no lease and gives none back: reservations may be given up.
LEMMA LeaseQuiet ==
    ASSUME LeaseInv, UNCHANGED cfOptions,
           \A u \in Threads : frame'[u].at = "open" => Distinct(frame'[u].fams),
           \A u \in Threads : \A c \in COpts : Reserves(u, c)' => Reserves(u, c),
           \A c \in COpts : inUse[c] => inUse'[c]
    PROVE  LeaseInv'
<1>1. \A c, d, i : EntryOf(c, d, i)' <=> EntryOf(c, d, i)
  BY DEF EntryOf
<1>2. ASSUME NEW c \in COpts
      PROVE  (OneEntry(c) /\ OneReservation(c) /\ ReservedOrEntered(c) /\ Flagged(c))'
  <2>1. OneEntry(c) /\ OneReservation(c) /\ ReservedOrEntered(c) /\ Flagged(c)
    BY DEF LeaseInv
  <2>2. OneEntry(c)'
    BY <1>1, <2>1 DEF OneEntry
  <2>3. OneReservation(c)'
    BY <2>1 DEF OneReservation
  <2>4. ReservedOrEntered(c)'
    BY <1>1, <2>1 DEF ReservedOrEntered
  <2>5. Flagged(c)'
    BY <1>1, <2>1 DEF Flagged
  <2> QED
    BY <2>2, <2>3, <2>4, <2>5
<1> QED
  BY <1>2 DEF LeaseInv

\* Thread t, which had no lease, takes objects that are not flagged and flags them.
LEMMA LeaseTake ==
    ASSUME LeaseInv, UNCHANGED cfOptions, NEW t \in Threads, OthersStay(t),
           frame'[t].at = "open" => Distinct(frame'[t].fams),
           \A c \in COpts : ~Reserves(t, c),
           \A c \in COpts : Reserves(t, c)' => ~inUse[c] /\ inUse'[c],
           \A c \in COpts : inUse[c] => inUse'[c]
    PROVE  LeaseInv'
<1>1. \A c, d, i : EntryOf(c, d, i)' <=> EntryOf(c, d, i)
  BY DEF EntryOf
<1>2. \A c : \A u \in Threads \ {t} : Reserves(u, c)' <=> Reserves(u, c)
  BY DEF Reserves, OthersStay
<1>3. ASSUME NEW c \in COpts
      PROVE  (OneEntry(c) /\ OneReservation(c) /\ ReservedOrEntered(c) /\ Flagged(c))'
  <2>1. OneEntry(c) /\ OneReservation(c) /\ ReservedOrEntered(c) /\ Flagged(c)
    BY DEF LeaseInv
  <2>2. OneEntry(c)'
    BY <1>1, <2>1 DEF OneEntry
  <2>3. OneReservation(c)'
    BY <1>2, <2>1 DEF OneReservation, Flagged
  <2>4. ReservedOrEntered(c)'
    BY <1>1, <1>2, <2>1 DEF ReservedOrEntered, Flagged
  <2>5. Flagged(c)'
    BY <1>1, <1>2, <2>1 DEF Flagged
  <2> QED
    BY <2>2, <2>3, <2>4, <2>5
<1>4. \A u \in Threads : frame'[u].at = "open" => Distinct(frame'[u].fams)
  BY DEF LeaseInv, OthersStay
<1> QED
  BY <1>3, <1>4 DEF LeaseInv

\* Thread t's reservations become entries of d.
LEMMA LeaseDeliver ==
    ASSUME LeaseInv, NEW t \in Threads, NEW d \in DBs, OthersStay(t), frame'[t] = Idle,
           \A c \in COpts : \A e \in DBs : \A i \in Nat :
               EntryOf(c, e, i)' => EntryOf(c, e, i) \/ (e = d /\ Reserves(t, c)),
           \A c \in COpts : \A i, j \in Nat :
               Reserves(t, c) /\ EntryOf(c, d, i)' /\ EntryOf(c, d, j)' => i = j,
           \A c \in COpts : inUse[c] => inUse'[c]
    PROVE  LeaseInv'
<1>1. \A c : ~Reserves(t, c)'
  BY IdleFields DEF Reserves
<1>2. \A c : \A u \in Threads \ {t} : Reserves(u, c)' <=> Reserves(u, c)
  BY DEF Reserves, OthersStay
<1>3. ASSUME NEW c \in COpts
      PROVE  (OneEntry(c) /\ OneReservation(c) /\ ReservedOrEntered(c) /\ Flagged(c))'
  <2>1. OneEntry(c) /\ OneReservation(c) /\ ReservedOrEntered(c) /\ Flagged(c)
    BY DEF LeaseInv
  <2>2. OneEntry(c)'
    <3>1. CASE Reserves(t, c)
      <4>1. \A e \in DBs : \A i \in Nat : ~EntryOf(c, e, i)
        BY <2>1, <3>1 DEF ReservedOrEntered
      <4> QED
        BY <3>1, <4>1 DEF OneEntry
    <3>2. CASE ~Reserves(t, c)
      BY <2>1, <3>2 DEF OneEntry
    <3> QED
      BY <3>1, <3>2
  <2>3. OneReservation(c)'
    BY <1>1, <1>2, <2>1 DEF OneReservation
  <2>4. ReservedOrEntered(c)'
    BY <1>1, <1>2, <2>1 DEF ReservedOrEntered, OneReservation
  <2>5. Flagged(c)'
    BY <1>1, <1>2, <2>1 DEF Flagged
  <2> QED
    BY <2>2, <2>3, <2>4, <2>5
<1>4. \A u \in Threads : frame'[u].at = "open" => Distinct(frame'[u].fams)
  BY IdleFields DEF LeaseInv, OthersStay
<1> QED
  BY <1>3, <1>4 DEF LeaseInv

\* d gives objects back: an entry of before has moved to from(i), or is gone and
\* its object's flag with it.
LEMMA LeaseReturn ==
    ASSUME LeaseInv, NEW t \in Threads, NEW d \in DBs, OthersStay(t),
           frame'[t].at \notin {"open", "create", "created"}, NEW from \in [Nat -> Nat],
           \A i, j \in Nat : from[i] = from[j] => i = j,
           \A c \in COpts : \A e \in DBs : \A i \in Nat :
               EntryOf(c, e, i)' => EntryOf(c, e, IF e = d THEN from[i] ELSE i),
           \A c \in COpts : inUse[c] /\ ~inUse'[c] =>
               \E i \in Nat : EntryOf(c, d, i) /\ \A j \in Nat : EntryOf(c, d, j)' => from[j] # i
    PROVE  LeaseInv'
<1>1. \A c : ~Reserves(t, c)'
  BY DEF Reserves
<1>2. \A c : \A u \in Threads \ {t} : Reserves(u, c)' <=> Reserves(u, c)
  BY DEF Reserves, OthersStay
<1>3. ASSUME NEW c \in COpts
      PROVE  (OneEntry(c) /\ OneReservation(c) /\ ReservedOrEntered(c) /\ Flagged(c))'
  <2>1. OneEntry(c) /\ OneReservation(c) /\ ReservedOrEntered(c) /\ Flagged(c)
    BY DEF LeaseInv
  <2>2. OneEntry(c)'
    <3> SUFFICES ASSUME NEW e \in DBs, NEW f \in DBs, NEW i \in Nat, NEW j \in Nat,
                        EntryOf(c, e, i)', EntryOf(c, f, j)'
                 PROVE  e = f /\ i = j
      BY DEF OneEntry
    <3>1. /\ EntryOf(c, e, IF e = d THEN from[i] ELSE i)
          /\ EntryOf(c, f, IF f = d THEN from[j] ELSE j)
      OBVIOUS
    <3>2. e = f /\ (IF e = d THEN from[i] ELSE i) = (IF f = d THEN from[j] ELSE j)
      BY <2>1, <3>1 DEF OneEntry
    <3> QED
      BY <3>2
  <2>3. OneReservation(c)'
    BY <1>1, <1>2, <2>1 DEF OneReservation
  <2>4. ReservedOrEntered(c)'
    <3> SUFFICES ASSUME NEW u \in Threads, NEW e \in DBs, NEW i \in Nat, Reserves(u, c)',
                        EntryOf(c, e, i)'
                 PROVE  FALSE
      BY DEF ReservedOrEntered
    <3>1. EntryOf(c, e, IF e = d THEN from[i] ELSE i)
      OBVIOUS
    <3>2. Reserves(u, c)
      BY <1>1, <1>2
    <3> QED
      BY <2>1, <3>1, <3>2 DEF ReservedOrEntered
  <2>5. Flagged(c)'
    <3>1. CASE inUse[c] => inUse'[c]
      <4>1. \A u \in Threads : Reserves(u, c)' => inUse'[c]
        BY <1>1, <1>2, <2>1, <3>1 DEF Flagged
      <4>2. ASSUME NEW e \in DBs, NEW i \in Nat, EntryOf(c, e, i)' PROVE inUse'[c]
        <5>1. EntryOf(c, e, IF e = d THEN from[i] ELSE i)
          BY <4>2
        <5> QED
          BY <2>1, <3>1, <5>1 DEF Flagged
      <4> QED
        BY <4>1, <4>2 DEF Flagged
    <3>2. CASE inUse[c] /\ ~inUse'[c]
      <4>1. PICK k \in Nat : EntryOf(c, d, k) /\ \A j \in Nat : EntryOf(c, d, j)' => from[j] # k
        BY <3>2
      <4>2. \A u \in Threads : ~Reserves(u, c)'
        BY <1>1, <1>2, <2>1, <4>1 DEF ReservedOrEntered
      <4>3. ASSUME NEW e \in DBs, NEW i \in Nat, EntryOf(c, e, i)' PROVE FALSE
        <5>1. EntryOf(c, e, IF e = d THEN from[i] ELSE i)
          BY <4>3
        <5>2. e = d /\ from[i] = k
          BY <2>1, <4>1, <5>1 DEF OneEntry
        <5> QED
          BY <4>1, <4>3, <5>2
      <4> QED
        BY <4>2, <4>3 DEF Flagged
    <3> QED
      BY <3>1, <3>2
  <2> QED
    BY <2>2, <2>3, <2>4, <2>5
<1>4. \A u \in Threads : frame'[u].at = "open" => Distinct(frame'[u].fams)
  BY DEF LeaseInv, OthersStay
<1> QED
  BY <1>3, <1>4 DEF LeaseInv

-------------------------------------------------------------------------------
\* The steps that take leases.
LEMMA LeaseOpen ==
    ASSUME TypeInv, LeaseInv, NEW t \in Threads, NEW d \in DBs, NEW o \in Opts,
           NEW fams \in OpenFamilies, Open(t, d, o, fams)
    PROVE  LeaseInv'
<1> DEFINE f == Method("open", d, o, fams, {}, {}, None)
<1>1. OthersStay(t) /\ frame'[t] = f /\ frame[t] = Idle
  BY EnterFacts DEF Open
<1>2. f.at = "open" /\ f.fams = fams
  BY DEF Method
<1> HIDE DEF f
<1>3. Distinct(fams)
  BY ConstantsAssumption DEF Distinct
<1>4. \A c \in COpts : /\ c \in Range(fams) => ~inUse[c] /\ inUse'[c]
                       /\ inUse[c] => inUse'[c]
  BY DEF Open, Admit, TypeInv, TypeOK
<1>5. \A c \in COpts : ~Reserves(t, c) /\ (Reserves(t, c)' => c \in Range(fams))
  BY <1>1, <1>2, IdleFields DEF Reserves
<1>6. UNCHANGED cfOptions
  BY DEF Open
<1> QED
  BY <1>1, <1>2, <1>3, <1>4, <1>5, <1>6, LeaseTake

LEMMA LeaseCreate ==
    ASSUME TypeInv, LeaseInv, NEW t \in Threads, NEW d \in DBs, NEW c \in COpts,
           Create(t, d, c)
    PROVE  LeaseInv'
<1>1. /\ OthersStay(t) /\ frame[t] = Idle
      /\ frame'[t].at = "create" /\ frame'[t].fams = <<c>>
  BY EnterFacts DEF Create, Method
<1>2. /\ ~inUse[c] /\ inUse'[c]
      /\ \A b \in COpts : inUse[b] => inUse'[b]
  BY DEF Create, TypeInv, TypeOK
<1>3. \A b \in COpts : ~Reserves(t, b) /\ (Reserves(t, b)' => b = c)
  BY <1>1, IdleFields DEF Reserves, Range
<1>4. UNCHANGED cfOptions
  BY DEF Create
<1> QED
  BY <1>1, <1>2, <1>3, <1>4, LeaseTake

\* The steps that turn them into entries of a list.
LEMMA LeaseOpenDone ==
    ASSUME TypeInv, AloneInv, LeaseInv, NEW t \in Threads, OpenDone(t)
    PROVE  LeaseInv'
<1>0. PICK d \in DBs, fams \in Seq(COpts \cup {None}) : d = frame[t].db /\ fams = frame[t].fams
  BY DEF OpenDone, TypeInv, TypeOK, FrameOK, Frame
<1>1. /\ d \in DBs /\ frame[t].at = "open" /\ Distinct(fams)
      /\ fams \in Seq(COpts \cup {None})
  BY <1>0 DEF OpenDone, LeaseInv
<1>2. OthersStay(t) /\ frame'[t] = Idle
  BY LeaveFacts DEF OpenDone
<1>3. /\ cfOptions'[d] = fams
      /\ \A e \in DBs : e # d => cfOptions'[e] = cfOptions[e]
  BY <1>0 DEF OpenDone, TypeInv, TypeOK
<1>4. ASSUME NEW c \in COpts, NEW e \in DBs, NEW i \in Nat, EntryOf(c, e, i)'
      PROVE  EntryOf(c, e, i) \/ (e = d /\ Reserves(t, c))
  <2>1. CASE e = d
    <3>1. i \in DOMAIN fams /\ fams[i] = c
      BY <1>1, <1>3, <1>4, <2>1 DEF EntryOf
    <3> QED
      BY <1>0, <1>1, <2>1, <3>1 DEF Reserves, Range
  <2>2. CASE e # d
    BY <1>3, <1>4, <2>2 DEF EntryOf
  <2> QED
    BY <2>1, <2>2
<1>5. \A c \in COpts : \A i, j \in Nat : EntryOf(c, d, i)' /\ EntryOf(c, d, j)' => i = j
  BY <1>1, <1>3 DEF EntryOf, Distinct
<1>6. \A c \in COpts : inUse[c] => inUse'[c]
  BY <1>1 DEF OpenDone, TypeInv, TypeOK
<1> QED
  BY <1>1, <1>2, <1>4, <1>5, <1>6, LeaseDeliver

LEMMA LeaseCreateReturn ==
    ASSUME TypeInv, LeaseInv, NEW t \in Threads, CreateReturn(t)
    PROVE  LeaseInv'
<1>0. PICK d \in DBs : d = frame[t].db
  BY DEF CreateReturn, TypeInv, FrameOK
<1>00. PICK n \in Nat : n = Len(cfOptions[d])
  BY DEF TypeInv, TypeOK
<1>1. frame[t].at = "created"
  BY DEF CreateReturn
<1>2. PICK c \in COpts : frame[t].fams = <<c>>
  BY <1>1 DEF TypeInv, FrameOK
<1>3. OthersStay(t) /\ frame'[t] = Idle
  BY LeaveFacts DEF CreateReturn
<1>4. /\ cfOptions'[d] = Append(cfOptions[d], c)
      /\ \A e \in DBs : e # d => cfOptions'[e] = cfOptions[e]
      /\ cfOptions[d] \in Seq(COpts \cup {None})
  BY <1>0, <1>2 DEF CreateReturn, TypeInv, TypeOK
<1>5. /\ Len(cfOptions'[d]) = n + 1 /\ cfOptions'[d][n + 1] = c
      /\ \A i \in 1..n : cfOptions'[d][i] = cfOptions[d][i]
  BY <1>00, <1>4
<1>6. Reserves(t, c)
  BY <1>1, <1>2 DEF Reserves, Range
<1>7. \A b : \A i \in Nat : EntryOf(b, d, i)' => EntryOf(b, d, i) \/ (i = n + 1 /\ b = c)
  BY <1>00, <1>5 DEF EntryOf
<1>8. \A b \in COpts : \A e \in DBs : \A i \in Nat :
         EntryOf(b, e, i)' => EntryOf(b, e, i) \/ (e = d /\ Reserves(t, b))
  BY <1>4, <1>6, <1>7 DEF EntryOf
<1>9. \A b \in COpts : \A i, j \in Nat :
         Reserves(t, b) /\ EntryOf(b, d, i)' /\ EntryOf(b, d, j)' => i = j
  BY <1>1, <1>7 DEF LeaseInv, ReservedOrEntered
<1>10. \A b \in COpts : inUse[b] => inUse'[b]
  BY DEF CreateReturn
<1> QED
  BY <1>1, <1>3, <1>8, <1>9, <1>10, LeaseDeliver

\* DropReturn takes one entry off the list: those above it move down.
LEMMA DropMoves ==
    ASSUME TypeInv, NEW t \in Threads, DropReturn(t)
    PROVE  \E d \in DBs, k \in Nat :
              /\ \A c : \A i \in Nat :
                    EntryOf(c, d, i)' <=> EntryOf(c, d, IF i < k THEN i ELSE i + 1)
              /\ \A c : \A e \in DBs : \A i \in Nat :
                    e # d => (EntryOf(c, e, i)' <=> EntryOf(c, e, i))
              /\ \A c \in COpts : inUse'[c] <=> inUse[c] /\ ~EntryOf(c, d, k)
<1>1. PICK d \in DBs : d = frame[t].db
  BY DEF DropReturn, TypeInv, FrameOK
<1>2. PICK k \in DOMAIN cfHandles[d] :
         /\ cfOptions' = [cfOptions EXCEPT ![d] = RemoveAt(@, k)]
         /\ inUse' = [c \in DOMAIN inUse |-> inUse[c] /\ c # cfOptions[d][k]]
  BY <1>1 DEF DropReturn
<1> DEFINE S == COpts \cup {None}
<1>3. PICK old \in Seq(S) : old = cfOptions[d] /\ k \in 1..Len(old)
  <2>1. /\ cfHandles[d] \in Seq(Handles) /\ cfOptions[d] \in Seq(S)
        /\ Len(cfHandles[d]) = Len(cfOptions[d])
    BY DEF TypeInv, TypeOK
  <2> QED
    BY <1>2, <2>1
<1>4. /\ cfOptions'[d] = RemoveAt(old, k)
      /\ \A e \in DBs : e # d => cfOptions'[e] = cfOptions[e]
  BY <1>2, <1>3 DEF TypeInv, TypeOK
<1> HIDE DEF S
<1>5. PICK n \in Nat : n = Len(old)
  BY <1>3
<1>6. /\ Len(RemoveAt(old, k)) = n - 1
      /\ \A j \in 1..(n - 1) : RemoveAt(old, k)[j] = IF j < k THEN old[j] ELSE old[j + 1]
  BY <1>3, <1>5, RemoveAtProperties
<1>7. ASSUME NEW c, NEW i \in Nat
      PROVE  EntryOf(c, d, i)' <=> EntryOf(c, d, IF i < k THEN i ELSE i + 1)
  <2>1. EntryOf(c, d, i)' <=> i \in 1..(n - 1) /\ RemoveAt(old, k)[i] = c
    BY <1>4, <1>6 DEF EntryOf
  <2>2. \A j : EntryOf(c, d, j) <=> j \in 1..n /\ old[j] = c
    BY <1>3, <1>5 DEF EntryOf
  <2>3. CASE i < k
    <3>1. i \in 1..(n - 1) <=> i \in 1..n
      BY <1>3, <1>5, <2>3
    <3> QED
      BY <1>6, <2>1, <2>2, <2>3, <3>1
  <2>4. CASE ~(i < k)
    <3>1. i \in 1..(n - 1) <=> i + 1 \in 1..n
      BY <1>3, <1>5, <2>4
    <3> QED
      BY <1>6, <2>1, <2>2, <2>4, <3>1
  <2> QED
    BY <2>3, <2>4
<1>8. \A c : \A e \in DBs : \A i \in Nat : e # d => (EntryOf(c, e, i)' <=> EntryOf(c, e, i))
  BY <1>4 DEF EntryOf
<1>9. \A c \in COpts : inUse'[c] <=> inUse[c] /\ ~EntryOf(c, d, k)
  BY <1>2, <1>3 DEF EntryOf, TypeInv, TypeOK
<1>10. k \in Nat
  BY <1>3
<1> QED
  BY <1>7, <1>8, <1>9, <1>10

\* The steps that give leases back.
LEMMA LeaseDropReturn ==
    ASSUME TypeInv, LeaseInv, NEW t \in Threads, DropReturn(t)
    PROVE  LeaseInv'
<1>1. PICK d \in DBs, k \in Nat :
         /\ \A c : \A i \in Nat :
               EntryOf(c, d, i)' <=> EntryOf(c, d, IF i < k THEN i ELSE i + 1)
         /\ \A c : \A e \in DBs : \A i \in Nat :
               e # d => (EntryOf(c, e, i)' <=> EntryOf(c, e, i))
         /\ \A c \in COpts : inUse'[c] <=> inUse[c] /\ ~EntryOf(c, d, k)
  BY DropMoves
<1>2. OthersStay(t) /\ frame'[t].at \notin {"open", "create", "created"}
  BY LeaveFacts, IdleFields DEF DropReturn
<1> DEFINE from == [i \in Nat |-> IF i < k THEN i ELSE i + 1]
<1>3. /\ from \in [Nat -> Nat]
      /\ \A i, j \in Nat : from[i] = from[j] => i = j
      /\ \A i \in Nat : from[i] # k
  BY <1>1
<1>4. \A c \in COpts : \A e \in DBs : \A i \in Nat :
         EntryOf(c, e, i)' => EntryOf(c, e, IF e = d THEN from[i] ELSE i)
  BY <1>1
<1> HIDE DEF from
<1>5. \A c \in COpts : inUse[c] /\ ~inUse'[c] =>
         \E i \in Nat : EntryOf(c, d, i) /\ \A j \in Nat : EntryOf(c, d, j)' => from[j] # i
  BY <1>1, <1>3
<1> QED
  BY <1>2, <1>3, <1>4, <1>5, LeaseReturn

LEMMA LeaseClosing ==
    ASSUME TypeInv, LeaseInv, NEW t \in Threads, NEW d \in DBs, Close(t, d) \/ Dealloc(t, d)
    PROVE  LeaseInv'
<1>1. CloseBody(d)
  BY DEF Close, Dealloc
<1>2. OthersStay(t) /\ frame'[t].at \notin {"open", "create", "created"}
  <2>1. CASE Close(t, d)
    BY <2>1, EnterFacts DEF Close, Method
  <2>2. CASE Dealloc(t, d)
    BY <2>2, EnterFacts DEF Dealloc, Method
  <2> QED
    BY <2>1, <2>2
<1>3. /\ cfOptions'[d] = <<>>
      /\ \A e \in DBs : e # d => cfOptions'[e] = cfOptions[e]
      /\ inUse' = [c \in DOMAIN inUse |-> inUse[c] /\ c \notin Range(cfOptions[d])]
  BY <1>1 DEF CloseBody, TypeInv, TypeOK
<1> DEFINE from == [i \in Nat |-> i]
<1>4. from \in [Nat -> Nat] /\ \A i, j \in Nat : from[i] = from[j] => i = j
  OBVIOUS
<1>5. \A c, i : ~EntryOf(c, d, i)'
  BY <1>3 DEF EntryOf
<1>6. \A c \in COpts : \A e \in DBs : \A i \in Nat :
         EntryOf(c, e, i)' => EntryOf(c, e, IF e = d THEN from[i] ELSE i)
  BY <1>3, <1>5 DEF EntryOf
<1>7. ASSUME NEW c \in COpts, inUse[c], ~inUse'[c]
      PROVE  \E i \in Nat : EntryOf(c, d, i)
  <2>1. c \in Range(cfOptions[d])
    BY <1>3, <1>7 DEF TypeInv, TypeOK
  <2>2. DOMAIN cfOptions[d] = 1..Len(cfOptions[d]) /\ Len(cfOptions[d]) \in Nat
    BY DEF TypeInv, TypeOK
  <2> QED
    BY <2>1, <2>2 DEF Range, EntryOf
<1> HIDE DEF from
<1> QED
  BY <1>2, <1>4, <1>5, <1>6, <1>7, LeaseReturn

\* The steps that take and give back nothing.  A reservation that a failed call
\* gives up leaves its flag behind.  close() resets the flag of Options: they
\* must not be column family options too.
LEMMA LeaseFrame ==
    ASSUME TypeInv, LeaseInv, NEW t \in Threads, OthersStay(t), UNCHANGED cfOptions,
           frame'[t].at \in {"open", "create", "created"} =>
              frame[t].at \in {"create", "created"} /\ frame'[t].at # "open"
                 /\ frame'[t].fams = frame[t].fams,
           \A c \in COpts : inUse[c] => inUse'[c]
    PROVE  LeaseInv'
<1>1. \A u \in Threads : \A c \in COpts : Reserves(u, c)' => Reserves(u, c)
  BY DEF Reserves, OthersStay
<1>2. \A u \in Threads : frame'[u].at = "open" => Distinct(frame'[u].fams)
  BY DEF LeaseInv, OthersStay
<1> QED
  BY <1>1, <1>2, LeaseQuiet

LEMMA LeaseQuietProceed ==
    ASSUME Opts \cap COpts = {}, TypeInv, LeaseInv, NEW t \in Threads, Proceed(t),
           ~OpenDone(t), ~CreateReturn(t), ~DropReturn(t)
    PROVE  LeaseInv'
<1>1. CASE CreateInCpp(t)
  <2>1. frame[t].at = "create" /\ UNCHANGED <<cfOptions, inUse>>
    BY <1>1 DEF CreateInCpp
  <2>2. OthersStay(t) /\ frame'[t].at = "created" /\ frame'[t].fams = frame[t].fams
    BY <1>1 DEF CreateInCpp, Method, OthersStay, TypeInv, TypeOK
  <2> QED
    BY <2>1, <2>2, LeaseFrame
<1>2. CASE DropInCpp(t)
  <2>1. UNCHANGED <<cfOptions, inUse>>
    BY <1>2 DEF DropInCpp
  <2>2. OthersStay(t) /\ frame'[t].at = "dropped"
    BY <1>2 DEF DropInCpp, Method, OthersStay, TypeInv, TypeOK
  <2> QED
    BY <2>1, <2>2, LeaseFrame
<1>3. CASE \/ OpenFailed(t) \/ CreateFailed(t) \/ DropFailed(t) \/ DropUnlisted(t)
           \/ Return(t) \/ (\E k \in Children : ReturnChild(t, k)) \/ Released(t)
           \/ CloseReturn(t)
  <2>1. Leave(t) /\ UNCHANGED cfOptions
    BY <1>3 DEF OpenFailed, CreateFailed, DropFailed, DropUnlisted, Return, ReturnChild,
                Released, CloseReturn
  <2>2. OthersStay(t) /\ frame'[t].at = "idle"
    BY <2>1, LeaveFacts, IdleFields
  <2>3. \A c \in COpts : inUse[c] => inUse'[c]
    <3>1. CASE CloseReturn(t)
      <4>1. PICK d \in DBs : d = frame[t].db
        BY <3>1 DEF CloseReturn, TypeInv, FrameOK
      <4>2. optsOf[d] \notin COpts
        BY ConstantsAssumption DEF TypeInv, TypeOK
      <4> QED
        BY <3>1, <4>1, <4>2 DEF CloseReturn, TypeInv, TypeOK
    <3>2. CASE ~CloseReturn(t)
      BY <1>3, <3>2 DEF OpenFailed, CreateFailed, DropFailed, DropUnlisted, Return,
                        ReturnChild, Released
    <3> QED
      BY <3>1, <3>2
  <2> QED
    BY <2>1, <2>2, <2>3, LeaseFrame
<1> QED
  BY <1>1, <1>2, <1>3 DEF Proceed

LEMMA LeaseQuietInvoke ==
    ASSUME TypeInv, LeaseInv, NEW t \in Threads,
           \/ \E o \in Opts, fams \in OpenFamilies : OpenRejected(t, o, fams)
           \/ \E d \in DBs, h \in Handles : Drop(t, d, h)
           \/ \E d \in DBs, hs \in SUBSET Handles : Call(t, d, hs)
           \/ \E k \in Children : UseChild(t, k) \/ Release(t, k)
    PROVE  LeaseInv'
<1>1. CASE \E o \in Opts, fams \in OpenFamilies : OpenRejected(t, o, fams)
  <2>1. UNCHANGED <<cfOptions, frame>> /\ OthersStay(t)
    BY <1>1 DEF OpenRejected, OthersStay
  <2>2. \A c \in COpts : inUse[c] => inUse'[c]
    BY <1>1 DEF OpenRejected, Admit, TypeInv, TypeOK
  <2>3. frame'[t].at = "idle"
    BY <1>1 DEF OpenRejected
  <2> QED
    BY <2>1, <2>2, <2>3, LeaseFrame
<1>2. CASE \/ \E d \in DBs, h \in Handles : Drop(t, d, h)
           \/ \E d \in DBs, hs \in SUBSET Handles : Call(t, d, hs)
           \/ \E k \in Children : UseChild(t, k) \/ Release(t, k)
  <2>1. UNCHANGED <<cfOptions, inUse>>
    BY <1>2 DEF Drop, Call, UseChild, Release
  <2>2. OthersStay(t) /\ frame'[t].at \in {"drop", "call", "release"}
    <3>1. ASSUME NEW d \in DBs, NEW h \in Handles, Drop(t, d, h) PROVE <2>2!:
      BY <3>1, EnterFacts DEF Drop, Method
    <3>2. ASSUME NEW d \in DBs, NEW hs \in SUBSET Handles, Call(t, d, hs) PROVE <2>2!:
      BY <3>2, EnterFacts DEF Call, Method
    <3>3. ASSUME NEW k \in Children, UseChild(t, k) \/ Release(t, k) PROVE <2>2!:
      BY <3>3, EnterFacts DEF UseChild, Release, Method
    <3> QED
      BY <1>2, <3>1, <3>2, <3>3
  <2> QED
    BY <2>1, <2>2, LeaseFrame
<1> QED
  BY <1>1, <1>2

LEMMA LeaseNext ==
    ASSUME Opts \cap COpts = {}
    PROVE  TypeInv /\ AloneInv /\ LeaseInv /\ [Next]_vars => LeaseInv'
<1> SUFFICES ASSUME TypeInv, AloneInv, LeaseInv, [Next]_vars PROVE LeaseInv'
  OBVIOUS
<1>1. ASSUME NEW t \in Threads, Proceed(t) PROVE LeaseInv'
  BY <1>1, LeaseOpenDone, LeaseCreateReturn, LeaseDropReturn, LeaseQuietProceed
<1>2. ASSUME NEW t \in Threads, Invoke(t) PROVE LeaseInv'
  BY <1>2, LeaseOpen, LeaseCreate, LeaseQuietInvoke, LeaseClosing DEF Invoke
<1>3. ASSUME NEW t \in Threads, NEW d \in DBs, Dealloc(t, d) PROVE LeaseInv'
  BY <1>3, LeaseClosing
<1>4. CASE UNCHANGED <<frame, cfOptions, inUse>>
  <2>1. \A u \in Threads : \A c : Reserves(u, c)' <=> Reserves(u, c)
    BY <1>4 DEF Reserves
  <2>2. \A u \in Threads : frame'[u].at = "open" => Distinct(frame'[u].fams)
    BY <1>4 DEF LeaseInv
  <2> QED
    BY <1>4, <2>1, <2>2, LeaseQuiet
<1>5. (\E d \in DBs : Forget(d)) \/ UNCHANGED vars => UNCHANGED <<frame, cfOptions, inUse>>
  BY DEF Forget, vars
<1> QED
  BY <1>1, <1>2, <1>3, <1>4, <1>5 DEF Next

\* LeaseInv in the words of the property: at most one place leases an object.
LEMMA LeaseExclusive == TypeInv /\ LeaseInv => FamilyOptionsExclusive
<1> SUFFICES ASSUME TypeInv, LeaseInv, NEW c \in COpts
             PROVE  /\ Cardinality(Entries(c)) + Cardinality(Reservations(c)) <= 1
                    /\ Entries(c) \cup Reservations(c) # {} => inUse[c]
  BY DEF FamilyOptionsExclusive
<1>1. OneEntry(c) /\ OneReservation(c) /\ ReservedOrEntered(c) /\ Flagged(c)
  BY DEF LeaseInv
<1>2. \A t : t \in Reservations(c) <=> t \in Threads /\ Reserves(t, c)
  BY DEF Reservations, Reserves
<1>3. \A p : p \in Entries(c) <=> \E d \in DBs : \E i \in Nat : p = <<d, i>> /\ EntryOf(c, d, i)
  <2>1. \A d \in DBs : DOMAIN cfOptions[d] = 1..Len(cfOptions[d]) /\ Len(cfOptions[d]) \in Nat
    BY DEF TypeInv, TypeOK
  <2> QED
    BY <2>1 DEF Entries, EntryOf
<1>4. \A p, q \in Entries(c) : p = q
  BY <1>1, <1>3 DEF OneEntry
<1>5. \A t, u \in Reservations(c) : t = u
  BY <1>1, <1>2 DEF OneReservation
<1>6. Entries(c) = {} \/ Reservations(c) = {}
  BY <1>1, <1>2, <1>3 DEF ReservedOrEntered
<1>7. ASSUME NEW S, \A x, y \in S : x = y
      PROVE  Cardinality(S) \in {0, 1} /\ (S = {} => Cardinality(S) = 0)
  <2>1. S = {} \/ \E x : S = {x}
    BY <1>7
  <2> QED
    BY <2>1, FS_EmptySet, FS_Singleton
<1>8. Cardinality(Entries(c)) + Cardinality(Reservations(c)) <= 1
  BY <1>4, <1>5, <1>6, <1>7
<1> QED
  BY <1>1, <1>2, <1>3, <1>8 DEF Flagged

\* A ColumnFamilyOptions object never serves two column families, nor one and a
\* call that is about to make another, and is flagged meanwhile, whatever fails
\* and whatever the program does.
THEOREM FamilyLeasesExclusive ==
    ASSUME Opts \cap COpts = {}
    PROVE  Spec => []FamilyOptionsExclusive
<1> DEFINE Inv == TypeInv /\ AloneInv /\ LeaseInv
<1>1. Init => Inv
  BY TypeInit, AloneInit, LeaseInit
<1>2. Inv /\ [Next]_vars => Inv'
  BY TypeNext, AloneNext, LeaseNext
<1>3. Inv => FamilyOptionsExclusive
  BY LeaseExclusive
<1> QED
  BY <1>1, <1>2, <1>3, PTL DEF Spec

-------------------------------------------------------------------------------
(* The leases refine OptionLease *)

(***************************************************************************)
(* LeaseInv makes Lease a function of who reserves, who lists and whether  *)
(* the flag is set; an action is then known by what it does to these three.*)
(***************************************************************************)
Serves(d, c) == \E i \in Nat : EntryOf(c, d, i)

\* What Lease says of c, in the words of LeaseInv.
LeaseOf(c) ==
    /\ \A t \in Threads : Lease(c) = <<"claimed", t>> <=> Reserves(t, c)
    /\ \A d \in DBs : Lease(c) = <<"used", d>> <=> Serves(d, c)
    /\ Lease(c) = <<"free">> <=> ~inUse[c]
    /\ \/ \E t \in Threads : Lease(c) = <<"claimed", t>>
       \/ \E d \in DBs : Lease(c) = <<"used", d>>
       \/ Lease(c) = <<"lost">>
       \/ Lease(c) = <<"free">>

LeasesMean == \A c \in COpts : LeaseOf(c)

LEMMA LeaseMeans == TypeInv /\ LeaseInv => LeasesMean
<1> SUFFICES ASSUME TypeInv, LeaseInv, NEW c \in COpts PROVE LeaseOf(c)
  BY DEF LeasesMean
<1>1. OneEntry(c) /\ OneReservation(c) /\ ReservedOrEntered(c) /\ Flagged(c)
  BY DEF LeaseInv
<1>2. \A t \in Threads : t \in Reservations(c) <=> Reserves(t, c)
  BY DEF Reservations, Reserves
<1>3. /\ \A d \in DBs : \A i \in Nat : EntryOf(c, d, i) => <<d, i>> \in Entries(c)
      /\ \A e \in Entries(c) : \E d \in DBs : \E i \in Nat : e = <<d, i>> /\ EntryOf(c, d, i)
  <2>1. \A d \in DBs : DOMAIN cfOptions[d] = 1..Len(cfOptions[d])
    BY DEF TypeInv, TypeOK
  <2> QED
    BY <2>1 DEF EntryOf, Entries
<1>4. ASSUME NEW t \in Threads, Reserves(t, c) PROVE LeaseOf(c)
  <2>1. \A u \in Threads : Reserves(u, c) => u = t
    BY <1>1, <1>4 DEF OneReservation
  <2>2. t \in Reservations(c) /\ (CHOOSE u \in Reservations(c) : TRUE) = t
    BY <1>2, <1>4, <2>1 DEF Reservations
  <2>3. Lease(c) = <<"claimed", t>>
    BY <2>2 DEF Lease
  <2>4. \A d \in DBs : \A i \in Nat : ~EntryOf(c, d, i)
    BY <1>1, <1>4 DEF ReservedOrEntered
  <2>5. inUse[c]
    BY <1>1, <1>4 DEF Flagged
  <2> QED
    BY <1>4, <2>1, <2>3, <2>4, <2>5 DEF LeaseOf, Serves
<1>5. ASSUME \A t \in Threads : ~Reserves(t, c), NEW d \in DBs, NEW i \in Nat, EntryOf(c, d, i)
      PROVE  LeaseOf(c)
  <2>1. Reservations(c) = {}
    BY <1>2, <1>5 DEF Reservations
  <2>2. \A e \in Entries(c) : e = <<d, i>>
    BY <1>1, <1>3, <1>5 DEF OneEntry
  <2>3. Entries(c) # {} /\ (CHOOSE e \in Entries(c) : TRUE) = <<d, i>>
    BY <1>3, <1>5, <2>2
  <2>4. Lease(c) = <<"used", d>>
    <3>1. Lease(c) = <<"used", <<d, i>>[1]>>
      BY <2>1, <2>3 DEF Lease
    <3> QED
      BY <3>1
  <2>5. \A e \in DBs : (\E j \in Nat : EntryOf(c, e, j)) => e = d
    BY <1>1, <1>5 DEF OneEntry
  <2>6. inUse[c]
    BY <1>1, <1>5 DEF Flagged
  <2> QED
    BY <1>5, <2>4, <2>5, <2>6 DEF LeaseOf, Serves
<1>6. ASSUME \A t \in Threads : ~Reserves(t, c), \A d \in DBs : \A i \in Nat : ~EntryOf(c, d, i)
      PROVE  LeaseOf(c)
  <2>1. Reservations(c) = {} /\ Entries(c) = {}
    BY <1>2, <1>3, <1>6 DEF Reservations
  <2>2. Lease(c) = IF inUse[c] THEN <<"lost">> ELSE <<"free">>
    BY <2>1 DEF Lease
  <2> QED
    BY <1>6, <2>2 DEF LeaseOf, Serves
<1> QED
  BY <1>4, <1>5, <1>6

LEMMA LeaseMeansThen == TypeInv' /\ LeaseInv' => LeasesMean'
BY LeaseMeans, PTL

\* An options object whose reservation, entry and flag stay serves whom it served.
Undisturbed(c) ==
    /\ \A t \in Threads : Reserves(t, c)' <=> Reserves(t, c)
    /\ \A d \in DBs : Serves(d, c)' <=> Serves(d, c)
    /\ inUse'[c] <=> inUse[c]

LEMMA LeaseTags ==
    /\ \A t, d : <<"claimed", t>> # <<"used", d>>
    /\ \A t : <<"claimed", t>> # <<"lost">> /\ <<"claimed", t>> # <<"free">>
    /\ \A d : <<"used", d>> # <<"lost">> /\ <<"used", d>> # <<"free">>
    /\ <<"lost">> # <<"free">>
OBVIOUS

LEMMA LeaseKept ==
    ASSUME LeasesMean, LeasesMean', NEW c \in COpts, Undisturbed(c)
    PROVE  Lease(c)' = Lease(c)
BY LeaseTags DEF LeasesMean, LeaseOf, Undisturbed

\* The objects in cs come to serve l, the others go on as before.
Turn(cs, l) == \A c \in COpts : Lease(c)' = IF c \in cs THEN l ELSE Lease(c)

LEMMA TurnBecomes ==
    ASSUME NEW cs, NEW l, Turn(cs, l)
    PROVE  Leases!Becomes(cs, l)
BY DEF Turn, Leases!Becomes

LEMMA LeasedIs == \A l : Leases!Leased(l) = {c \in COpts : Lease(c) = l}
BY DEF Leases!Leased

\* Each kind of step, by what it does to reservations, entries and flags.
LEMMA StepClaim ==
    ASSUME LeasesMean, LeasesMean', NEW t \in Threads, NEW cs \in SUBSET COpts,
           \A c \in COpts : ~Reserves(t, c) /\ (Reserves(t, c)' <=> c \in cs),
           \A c \in cs : ~inUse[c],
           \A c \in COpts \ cs : Undisturbed(c)
    PROVE  Leases!Next
<1>1. Turn(cs, <<"claimed", t>>)
  <2>1. \A c \in cs : Lease(c)' = <<"claimed", t>>
    BY DEF LeasesMean, LeaseOf
  <2> QED
    BY <2>1, LeaseKept DEF Turn
<1>2. \A c \in cs : Lease(c) = <<"free">>
  BY DEF LeasesMean, LeaseOf
<1>3. \A c \in COpts : Lease(c) # <<"claimed", t>>
  BY DEF LeasesMean, LeaseOf
<1>4. Leases!Claim(t, cs)
  BY <1>1, <1>2, <1>3, TurnBecomes, LeasedIs DEF Leases!Claim, Leases!Claimed, Leases!Free
<1> QED
  BY <1>4 DEF Leases!Next

LEMMA StepReject ==
    ASSUME LeasesMean, LeasesMean', NEW cs \in SUBSET COpts,
           \A c \in cs : /\ ~inUse[c] /\ inUse'[c]
                         /\ \A t \in Threads : Reserves(t, c)' <=> Reserves(t, c)
                         /\ \A d \in DBs : Serves(d, c)' <=> Serves(d, c),
           \A c \in COpts \ cs : Undisturbed(c)
    PROVE  Leases!Next
<1>1. \A c \in cs : Lease(c) = <<"free">>
  BY DEF LeasesMean, LeaseOf
<1>2. Turn(cs, <<"lost">>)
  <2>1. \A c \in cs : Lease(c)' = <<"lost">>
    BY <1>1, LeaseTags DEF LeasesMean, LeaseOf
  <2> QED
    BY <2>1, LeaseKept DEF Turn
<1>3. Leases!Reject(cs)
  BY <1>1, <1>2, TurnBecomes, LeasedIs DEF Leases!Reject, Leases!Lost, Leases!Free
<1> QED
  BY <1>3 DEF Leases!Next

LEMMA StepFail ==
    ASSUME LeasesMean, LeasesMean', NEW t \in Threads,
           \A c \in COpts : ~Reserves(t, c)',
           \A u \in Threads \ {t}, c \in COpts : Reserves(u, c)' <=> Reserves(u, c),
           \A d \in DBs, c \in COpts : Serves(d, c)' <=> Serves(d, c),
           \A c \in COpts : inUse'[c] <=> inUse[c]
    PROVE  Leases!Next
<1> DEFINE cs == {c \in COpts : Reserves(t, c)}
<1>1. cs = Leases!Leased(Leases!Claimed(t))
  BY LeasedIs DEF LeasesMean, LeaseOf, Leases!Claimed
<1>2. Turn(cs, <<"lost">>)
  <2>1. ASSUME NEW c \in cs PROVE Lease(c)' = <<"lost">>
    <3>1. Lease(c) = <<"claimed", t>>
      BY DEF LeasesMean, LeaseOf
    <3>2. /\ inUse[c] /\ \A d \in DBs : ~Serves(d, c)
          /\ \A u \in Threads \ {t} : ~Reserves(u, c)
      BY <3>1, LeaseTags DEF LeasesMean, LeaseOf
    <3> QED
      BY <3>2, LeaseTags DEF LeasesMean, LeaseOf
  <2>2. \A c \in COpts \ cs : Undisturbed(c)
    BY DEF Undisturbed
  <2> QED
    BY <2>1, <2>2, LeaseKept DEF Turn
<1> HIDE DEF cs
<1>3. Leases!Fail(t)
  BY <1>1, <1>2, TurnBecomes DEF Leases!Fail, Leases!Lost
<1> QED
  BY <1>3 DEF Leases!Next

LEMMA StepDeliver ==
    ASSUME LeasesMean, LeasesMean', NEW t \in Threads, NEW d \in DBs,
           \A c \in COpts : ~Reserves(t, c)',
           \A u \in Threads \ {t}, c \in COpts : Reserves(u, c)' <=> Reserves(u, c),
           \A e \in DBs, c \in COpts :
               Serves(e, c)' <=> Serves(e, c) \/ (e = d /\ Reserves(t, c)),
           \A c \in COpts : inUse'[c] <=> inUse[c]
    PROVE  Leases!Next
<1> DEFINE cs == {c \in COpts : Reserves(t, c)}
<1>1. cs = Leases!Leased(Leases!Claimed(t))
  BY LeasedIs DEF LeasesMean, LeaseOf, Leases!Claimed
<1>2. Turn(cs, <<"used", d>>)
  <2>1. \A c \in cs : Lease(c)' = <<"used", d>>
    BY DEF LeasesMean, LeaseOf
  <2>2. \A c \in COpts \ cs : Undisturbed(c)
    BY DEF Undisturbed
  <2> QED
    BY <2>1, <2>2, LeaseKept DEF Turn
<1> HIDE DEF cs
<1>3. Leases!Deliver(t, d)
  BY <1>1, <1>2, TurnBecomes DEF Leases!Deliver, Leases!Used
<1> QED
  BY <1>3 DEF Leases!Next

LEMMA StepGiveBack ==
    ASSUME LeasesMean, LeasesMean', NEW d \in DBs,
           \A t \in Threads, c \in COpts : Reserves(t, c)' <=> Reserves(t, c),
           \A e \in DBs \ {d}, c \in COpts : Serves(e, c)' <=> Serves(e, c),
           \A c \in COpts : inUse[c] /\ ~inUse'[c] => Serves(d, c),
           \A c \in COpts : inUse'[c] => inUse[c] /\ (Serves(d, c)' <=> Serves(d, c))
    PROVE  Leases!Next
<1> DEFINE cs == {c \in COpts : inUse[c] /\ ~inUse'[c]}
<1>1. \A c \in cs : Lease(c) = <<"used", d>>
  BY DEF LeasesMean, LeaseOf
<1>2. Turn(cs, <<"free">>)
  <2>1. \A c \in COpts : ~inUse[c] => Lease(c) = <<"free">>
    BY DEF LeasesMean, LeaseOf
  <2>2. \A c \in COpts : ~inUse'[c] => Lease(c)' = <<"free">>
    BY DEF LeasesMean, LeaseOf
  <2>3. ASSUME NEW c \in COpts, inUse'[c] PROVE Lease(c)' = Lease(c)
    <3>1. Undisturbed(c)
      BY <2>3 DEF Undisturbed
    <3> QED
      BY <3>1, LeaseKept
  <2> QED
    BY <2>1, <2>2, <2>3 DEF Turn
<1> HIDE DEF cs
<1>3. cs \in SUBSET COpts
  BY DEF cs
<1>4. Leases!GiveBack(d, cs)
  BY <1>1, <1>2, <1>3, TurnBecomes, LeasedIs DEF Leases!GiveBack, Leases!Used, Leases!Free
<1> QED
  BY <1>3, <1>4 DEF Leases!Next

-------------------------------------------------------------------------------
\* Which step each action is.
LEMMA ServesSame ==
    ASSUME UNCHANGED cfOptions
    PROVE  \A d, c : Serves(d, c)' <=> Serves(d, c)
BY DEF Serves, EntryOf

LEMMA OthersReserve ==
    ASSUME NEW t \in Threads, OthersStay(t)
    PROVE  \A u \in Threads \ {t} : \A c : Reserves(u, c)' <=> Reserves(u, c)
BY DEF Reserves, OthersStay

LEMMA StepQuiet ==
    ASSUME NEW t \in Threads, OthersStay(t), UNCHANGED cfOptions,
           \A c \in COpts : Reserves(t, c)' <=> Reserves(t, c),
           \A c \in COpts : inUse'[c] <=> inUse[c]
    PROVE  \A c \in COpts : Undisturbed(c)
BY ServesSame, OthersReserve DEF Undisturbed

LEMMA LeasesOpen ==
    ASSUME TypeInv, LeasesMean, LeasesMean', NEW t \in Threads, NEW d \in DBs,
           NEW o \in Opts, NEW fams \in OpenFamilies, Open(t, d, o, fams)
    PROVE  Leases!Next
<1> DEFINE cs == COpts \cap Range(fams)
<1>1. /\ OthersStay(t) /\ frame[t] = Idle
      /\ frame'[t].at = "open" /\ frame'[t].fams = fams
  BY EnterFacts DEF Open, Method
<1>2. \A c \in COpts : ~Reserves(t, c) /\ (Reserves(t, c)' <=> c \in cs)
  BY <1>1, IdleFields DEF Reserves
<1>3. \A c \in COpts : /\ c \in cs => ~inUse[c]
                       /\ c \notin cs => (inUse'[c] <=> inUse[c])
  BY DEF Open, Admit, TypeInv, TypeOK
<1>4. \A d1, c : Serves(d1, c)' <=> Serves(d1, c)
  BY ServesSame DEF Open
<1>5. \A c \in COpts \ cs : Undisturbed(c)
  BY <1>1, <1>2, <1>3, <1>4, OthersReserve DEF Undisturbed
<1>6. cs \in SUBSET COpts
  OBVIOUS
<1> HIDE DEF cs
<1> QED
  BY <1>2, <1>3, <1>5, <1>6, StepClaim

LEMMA LeasesOpenRejected ==
    ASSUME TypeInv, LeasesMean, LeasesMean', NEW t \in Threads,
           NEW o \in Opts, NEW fams \in OpenFamilies, OpenRejected(t, o, fams)
    PROVE  Leases!Next
<1> DEFINE cs == COpts \cap Range(fams)
<1>1. \A u \in Threads : \A c : Reserves(u, c)' <=> Reserves(u, c)
  BY DEF OpenRejected, Reserves
<1>2. \A c \in COpts : /\ c \in cs => ~inUse[c] /\ inUse'[c]
                       /\ c \notin cs => (inUse'[c] <=> inUse[c])
  BY DEF OpenRejected, Admit, TypeInv, TypeOK
<1>3. \A d, c : Serves(d, c)' <=> Serves(d, c)
  BY ServesSame DEF OpenRejected
<1>4. \A c \in COpts \ cs : Undisturbed(c)
  BY <1>1, <1>2, <1>3 DEF Undisturbed
<1>5. cs \in SUBSET COpts
  OBVIOUS
<1> HIDE DEF cs
<1> QED
  BY <1>1, <1>2, <1>3, <1>4, <1>5, StepReject

LEMMA LeasesCreate ==
    ASSUME TypeInv, LeasesMean, LeasesMean', NEW t \in Threads, NEW d \in DBs,
           NEW c \in COpts, Create(t, d, c)
    PROVE  Leases!Next
<1>1. /\ OthersStay(t) /\ frame[t] = Idle
      /\ frame'[t].at = "create" /\ frame'[t].fams = <<c>>
  BY EnterFacts DEF Create, Method
<1>2. \A b \in COpts : ~Reserves(t, b) /\ (Reserves(t, b)' <=> b \in {c})
  BY <1>1, IdleFields DEF Reserves, Range
<1>3. ~inUse[c] /\ \A b \in COpts : b # c => (inUse'[b] <=> inUse[b])
  BY DEF Create, TypeInv, TypeOK
<1>4. \A e, b : Serves(e, b)' <=> Serves(e, b)
  BY ServesSame DEF Create
<1>5. \A b \in COpts \ {c} : Undisturbed(b)
  BY <1>1, <1>2, <1>3, <1>4, OthersReserve DEF Undisturbed
<1>6. {c} \in SUBSET COpts
  OBVIOUS
<1> QED
  BY <1>2, <1>3, <1>5, <1>6, StepClaim

LEMMA LeasesFailed ==
    ASSUME TypeInv, LeasesMean, LeasesMean', NEW t \in Threads,
           OpenFailed(t) \/ CreateFailed(t)
    PROVE  Leases!Next
<1>1. Leave(t) /\ UNCHANGED <<cfOptions, inUse>>
  BY DEF OpenFailed, CreateFailed
<1>2. OthersStay(t) /\ frame'[t].at = "idle"
  BY <1>1, LeaveFacts, IdleFields
<1>3. \A c \in COpts : ~Reserves(t, c)'
  BY <1>2 DEF Reserves
<1> QED
  BY <1>1, <1>2, <1>3, ServesSame, OthersReserve, StepFail

LEMMA LeasesOpenDone ==
    ASSUME Opts \cap COpts = {}, TypeInv, AloneInv, LeasesMean, LeasesMean',
           NEW t \in Threads, OpenDone(t)
    PROVE  Leases!Next
<1>1. PICK d \in DBs, fams \in Seq(COpts \cup {None}) : d = frame[t].db /\ fams = frame[t].fams
  BY DEF OpenDone, TypeInv, TypeOK, FrameOK, Frame
<1>2. frame[t].at = "open" /\ frame[t].opts \in Opts
  BY DEF OpenDone, TypeInv, FrameOK
<1>3. OthersStay(t) /\ frame'[t].at = "idle"
  BY LeaveFacts, IdleFields DEF OpenDone
<1>4. \A c \in COpts : ~Reserves(t, c)'
  BY <1>3 DEF Reserves
<1>5. /\ cfOptions'[d] = fams
      /\ \A e \in DBs : e # d => cfOptions'[e] = cfOptions[e]
  BY <1>1 DEF OpenDone, TypeInv, TypeOK
<1>6. \A c \in COpts : inUse'[c] <=> inUse[c]
  BY <1>2 DEF OpenDone, TypeInv, TypeOK
<1>7. \A c \in COpts : Serves(d, c)' <=> Reserves(t, c)
  <2>1. DOMAIN fams = 1..Len(fams) /\ Len(fams) \in Nat
    BY <1>1
  <2>2. \A c : Reserves(t, c) <=> \E i \in 1..Len(fams) : fams[i] = c
    BY <1>1, <1>2, <2>1 DEF Reserves, Range
  <2>3. \A c : Serves(d, c)' <=> \E i \in Nat : i \in 1..Len(fams) /\ fams[i] = c
    BY <1>5 DEF Serves, EntryOf
  <2> QED
    BY <2>1, <2>2, <2>3
<1>8. \A c \in COpts : Serves(d, c) => Reserves(t, c)
  <2>1. cpp[d] = "null" /\ Unreferred(d)
    BY <1>1, <1>2 DEF AloneInv
  <2>2. Len(cfOptions[d]) = 0
    BY <2>1 DEF Unreferred, TypeInv, TypeOK
  <2> QED
    BY <2>2 DEF Serves, EntryOf
<1>9. \A e \in DBs, c \in COpts : Serves(e, c)' <=> Serves(e, c) \/ (e = d /\ Reserves(t, c))
  <2>1. \A e \in DBs, c \in COpts : e # d => (Serves(e, c)' <=> Serves(e, c))
    BY <1>5 DEF Serves, EntryOf
  <2> QED
    BY <1>7, <1>8, <2>1
<1> QED
  BY <1>3, <1>4, <1>6, <1>9, OthersReserve, StepDeliver

LEMMA LeasesCreateReturn ==
    ASSUME TypeInv, LeasesMean, LeasesMean', NEW t \in Threads, CreateReturn(t)
    PROVE  Leases!Next
<1>1. PICK d \in DBs : d = frame[t].db
  BY DEF CreateReturn, TypeInv, FrameOK
<1>2. frame[t].at = "created" /\ UNCHANGED inUse
  BY DEF CreateReturn
<1>3. PICK c \in COpts : frame[t].fams = <<c>>
  BY <1>2 DEF TypeInv, FrameOK
<1>4. OthersStay(t) /\ frame'[t].at = "idle"
  BY LeaveFacts, IdleFields DEF CreateReturn
<1>5. \A b \in COpts : ~Reserves(t, b)' /\ (Reserves(t, b) <=> b = c)
  BY <1>2, <1>3, <1>4 DEF Reserves, Range
<1>6. PICK old \in Seq(COpts \cup {None}) :
         /\ old = cfOptions[d] /\ cfOptions'[d] = Append(old, c)
         /\ \A e \in DBs : e # d => cfOptions'[e] = cfOptions[e]
  <2>1. /\ cfOptions[d] \in Seq(COpts \cup {None})
        /\ cfOptions \in [DBs -> Seq(COpts \cup {None})]
    BY DEF TypeInv, TypeOK
  <2>2. cfOptions' = [cfOptions EXCEPT ![d] = Append(cfOptions[d], c)]
    BY <1>1, <1>3 DEF CreateReturn
  <2> QED
    BY <2>1, <2>2
<1>7. PICK n \in Nat : n = Len(old)
  BY <1>6
<1>8. /\ Len(cfOptions'[d]) = n + 1 /\ cfOptions'[d][n + 1] = c
      /\ \A i \in 1..n : cfOptions'[d][i] = old[i]
  BY <1>6, <1>7
<1>9. \A b : \A i \in Nat : EntryOf(b, d, i)' <=> EntryOf(b, d, i) \/ (i = n + 1 /\ b = c)
  BY <1>6, <1>7, <1>8 DEF EntryOf
<1>10. n + 1 \in Nat
  BY <1>7
<1>11. \A b : Serves(d, b)' <=> Serves(d, b) \/ b = c
  BY <1>9, <1>10 DEF Serves
<1>12. \A e \in DBs, b \in COpts : e # d => (Serves(e, b)' <=> Serves(e, b))
  BY <1>6 DEF Serves, EntryOf
<1>13. \A e \in DBs, b \in COpts :
          Serves(e, b)' <=> Serves(e, b) \/ (e = d /\ Reserves(t, b))
  BY <1>5, <1>11, <1>12
<1> QED
  BY <1>2, <1>4, <1>5, <1>13, OthersReserve, StepDeliver

LEMMA LeasesDropReturn ==
    ASSUME TypeInv, LeasesMean, LeasesMean', NEW t \in Threads, DropReturn(t)
    PROVE  Leases!Next
<1>1. PICK d \in DBs, k \in Nat :
         /\ \A c : \A i \in Nat :
               EntryOf(c, d, i)' <=> EntryOf(c, d, IF i < k THEN i ELSE i + 1)
         /\ \A c : \A e \in DBs : \A i \in Nat :
               e # d => (EntryOf(c, e, i)' <=> EntryOf(c, e, i))
         /\ \A c \in COpts : inUse'[c] <=> inUse[c] /\ ~EntryOf(c, d, k)
  BY DropMoves
<1>2. OthersStay(t) /\ frame'[t].at = "idle" /\ frame[t].at = "dropped"
  BY LeaveFacts, IdleFields DEF DropReturn
<1>3. \A u \in Threads, c \in COpts : Reserves(u, c)' <=> Reserves(u, c)
  BY <1>2, OthersReserve DEF Reserves
<1>4. \A e \in DBs \ {d}, c \in COpts : Serves(e, c)' <=> Serves(e, c)
  BY <1>1 DEF Serves
<1>5. \A c \in COpts : inUse[c] /\ ~inUse'[c] => Serves(d, c)
  BY <1>1 DEF Serves
<1>6. ASSUME NEW c \in COpts, inUse'[c]
      PROVE  Serves(d, c)' <=> Serves(d, c)
  <2>1. ~EntryOf(c, d, k)
    BY <1>1, <1>6
  <2>2. Serves(d, c)' => Serves(d, c)
    <3>1. \A i \in Nat : (IF i < k THEN i ELSE i + 1) \in Nat
      OBVIOUS
    <3> QED
      BY <1>1, <3>1 DEF Serves
  <2>3. ASSUME NEW j \in Nat, EntryOf(c, d, j) PROVE Serves(d, c)'
    <3>1. j # k /\ j >= 1
      BY <2>1, <2>3 DEF EntryOf
    <3>2. CASE j < k
      BY <1>1, <2>3, <3>2 DEF Serves
    <3>3. CASE ~(j < k)
      <4>1. PICK i \in Nat : i + 1 = j /\ ~(i < k)
        <5>1. j - 1 \in Nat /\ (j - 1) + 1 = j /\ ~(j - 1 < k)
          BY <3>1, <3>3
        <5> QED
          BY <5>1
      <4>2. (IF i < k THEN i ELSE i + 1) = j
        BY <4>1
      <4>3. EntryOf(c, d, i)'
        BY <1>1, <2>3, <4>2
      <4> QED
        BY <4>3 DEF Serves
    <3> QED
      BY <3>2, <3>3
  <2> QED
    BY <2>2, <2>3 DEF Serves
<1> QED
  BY <1>1, <1>3, <1>4, <1>5, <1>6, StepGiveBack

LEMMA LeasesClosing ==
    ASSUME TypeInv, LeasesMean, LeasesMean', NEW t \in Threads, NEW d \in DBs,
           Close(t, d) \/ Dealloc(t, d)
    PROVE  Leases!Next
<1>1. CloseBody(d)
  BY DEF Close, Dealloc
<1>2. OthersStay(t) /\ frame[t] = Idle /\ frame'[t].at \in {"close", "dealloc"}
  <2>1. CASE Close(t, d)
    BY <2>1, EnterFacts DEF Close, Method
  <2>2. CASE Dealloc(t, d)
    BY <2>2, EnterFacts DEF Dealloc, Method
  <2> QED
    BY <2>1, <2>2
<1>3. \A u \in Threads, c \in COpts : Reserves(u, c)' <=> Reserves(u, c)
  BY <1>2, IdleFields, OthersReserve DEF Reserves
<1>4. /\ cfOptions'[d] = <<>>
      /\ \A e \in DBs : e # d => cfOptions'[e] = cfOptions[e]
      /\ inUse' = [c \in DOMAIN inUse |-> inUse[c] /\ c \notin Range(cfOptions[d])]
  BY <1>1 DEF CloseBody, TypeInv, TypeOK
<1>5. \A c : c \in Range(cfOptions[d]) <=> Serves(d, c)
  <2>1. DOMAIN cfOptions[d] = 1..Len(cfOptions[d]) /\ Len(cfOptions[d]) \in Nat
    BY DEF TypeInv, TypeOK
  <2> QED
    BY <2>1 DEF Range, Serves, EntryOf
<1>6. \A c : ~Serves(d, c)'
  BY <1>4 DEF Serves, EntryOf
<1>7. \A e \in DBs \ {d}, c \in COpts : Serves(e, c)' <=> Serves(e, c)
  BY <1>4 DEF Serves, EntryOf
<1>8. \A c \in COpts : inUse'[c] <=> inUse[c] /\ ~Serves(d, c)
  BY <1>4, <1>5 DEF TypeInv, TypeOK
<1> QED
  BY <1>3, <1>6, <1>7, <1>8, StepGiveBack

\* The other steps leave every lease where it is.
LEMMA LeasesQuietProceed ==
    ASSUME Opts \cap COpts = {}, TypeInv, NEW t \in Threads, Proceed(t),
           ~OpenDone(t), ~OpenFailed(t), ~CreateFailed(t), ~CreateReturn(t), ~DropReturn(t)
    PROVE  \A c \in COpts : Undisturbed(c)
<1>1. CASE CreateInCpp(t)
  <2>1. frame[t].at = "create" /\ UNCHANGED <<cfOptions, inUse>>
    BY <1>1 DEF CreateInCpp
  <2>2. OthersStay(t) /\ frame'[t].at = "created" /\ frame'[t].fams = frame[t].fams
    BY <1>1 DEF CreateInCpp, Method, OthersStay, TypeInv, TypeOK
  <2>3. \A c \in COpts : Reserves(t, c)' <=> Reserves(t, c)
    BY <2>1, <2>2 DEF Reserves
  <2> QED
    BY <2>1, <2>2, <2>3, StepQuiet
<1>2. CASE DropInCpp(t)
  <2>1. frame[t].at = "drop" /\ UNCHANGED <<cfOptions, inUse>>
    BY <1>2 DEF DropInCpp
  <2>2. OthersStay(t) /\ frame'[t].at = "dropped"
    BY <1>2 DEF DropInCpp, Method, OthersStay, TypeInv, TypeOK
  <2>3. \A c \in COpts : Reserves(t, c)' <=> Reserves(t, c)
    BY <2>1, <2>2 DEF Reserves
  <2> QED
    BY <2>1, <2>2, <2>3, StepQuiet
<1>3. CASE \/ DropFailed(t) \/ DropUnlisted(t) \/ Return(t)
           \/ (\E k \in Children : ReturnChild(t, k)) \/ Released(t) \/ CloseReturn(t)
  <2>1. /\ Leave(t) /\ UNCHANGED cfOptions
        /\ frame[t].at \in {"drop", "dropped", "call", "release", "close", "dealloc"}
    BY <1>3 DEF DropFailed, DropUnlisted, Return, ReturnChild, Released, CloseReturn
  <2>2. OthersStay(t) /\ frame'[t].at = "idle"
    BY <2>1, LeaveFacts, IdleFields
  <2>3. \A c \in COpts : Reserves(t, c)' <=> Reserves(t, c)
    BY <2>1, <2>2 DEF Reserves
  <2>4. \A c \in COpts : inUse'[c] <=> inUse[c]
    <3>1. CASE CloseReturn(t)
      <4>1. PICK d \in DBs : d = frame[t].db
        BY <3>1 DEF CloseReturn, TypeInv, FrameOK
      <4>2. optsOf[d] \notin COpts
        BY ConstantsAssumption DEF TypeInv, TypeOK
      <4> QED
        BY <3>1, <4>1, <4>2 DEF CloseReturn, TypeInv, TypeOK
    <3>2. CASE ~CloseReturn(t)
      BY <1>3, <3>2 DEF DropFailed, DropUnlisted, Return, ReturnChild, Released
    <3> QED
      BY <3>1, <3>2
  <2> QED
    BY <2>1, <2>2, <2>3, <2>4, StepQuiet
<1> QED
  BY <1>1, <1>2, <1>3 DEF Proceed

LEMMA LeasesQuietInvoke ==
    ASSUME TypeInv, NEW t \in Threads,
           \/ \E d \in DBs, h \in Handles : Drop(t, d, h)
           \/ \E d \in DBs, hs \in SUBSET Handles : Call(t, d, hs)
           \/ \E k \in Children : UseChild(t, k) \/ Release(t, k)
    PROVE  \A c \in COpts : Undisturbed(c)
<1>1. UNCHANGED <<cfOptions, inUse>>
  BY DEF Drop, Call, UseChild, Release
<1>2. /\ OthersStay(t) /\ frame[t] = Idle
      /\ frame'[t].at \in {"drop", "call", "release"}
  <2>1. ASSUME NEW d \in DBs, NEW h \in Handles, Drop(t, d, h) PROVE <1>2!:
    BY <2>1, EnterFacts DEF Drop, Method
  <2>2. ASSUME NEW d \in DBs, NEW hs \in SUBSET Handles, Call(t, d, hs) PROVE <1>2!:
    BY <2>2, EnterFacts DEF Call, Method
  <2>3. ASSUME NEW k \in Children, UseChild(t, k) \/ Release(t, k) PROVE <1>2!:
    BY <2>3, EnterFacts DEF UseChild, Release, Method
  <2> QED
    BY <2>1, <2>2, <2>3
<1>3. \A c \in COpts : Reserves(t, c)' <=> Reserves(t, c)
  BY <1>2, IdleFields DEF Reserves
<1> QED
  BY <1>1, <1>2, <1>3, StepQuiet

LEMMA LeasesStep ==
    ASSUME Opts \cap COpts = {}
    PROVE  TypeInv /\ AloneInv /\ LeasesMean /\ LeasesMean' /\ [Next]_vars
              => [Leases!Next]_([c \in COpts |-> Lease(c)])
<1> SUFFICES ASSUME TypeInv, AloneInv, LeasesMean, LeasesMean', [Next]_vars
             PROVE  Leases!Next \/ \A c \in COpts : Lease(c)' = Lease(c)
  OBVIOUS
<1>1. ASSUME NEW t \in Threads, Proceed(t)
      PROVE  Leases!Next \/ \A c \in COpts : Undisturbed(c)
  BY <1>1, LeasesOpenDone, LeasesFailed, LeasesCreateReturn, LeasesDropReturn,
     LeasesQuietProceed
<1>2. ASSUME NEW t \in Threads, Invoke(t)
      PROVE  Leases!Next \/ \A c \in COpts : Undisturbed(c)
  BY <1>2, LeasesOpen, LeasesOpenRejected, LeasesCreate, LeasesClosing, LeasesQuietInvoke
     DEF Invoke
<1>3. ASSUME NEW t \in Threads, NEW d \in DBs, Dealloc(t, d) PROVE Leases!Next
  BY <1>3, LeasesClosing
<1>4. CASE UNCHANGED <<frame, cfOptions, inUse>>
  <2>1. \A c \in COpts : Undisturbed(c)
    BY <1>4, ServesSame DEF Undisturbed, Reserves
  <2> QED
    BY <2>1, LeaseKept
<1>5. (\E d \in DBs : Forget(d)) \/ UNCHANGED vars => UNCHANGED <<frame, cfOptions, inUse>>
  BY DEF Forget, vars
<1> QED
  BY <1>1, <1>2, <1>3, <1>4, <1>5, LeaseKept DEF Next

\* A ColumnFamilyOptions object passes from a call to the one database that uses
\* it and is freed by nothing but that database's drop or close, whatever fails
\* and whatever the program does.
THEOREM FamiliesStayLeased ==
    ASSUME Opts \cap COpts = {}
    PROVE  Spec => FamiliesLeased
<1> DEFINE Inv == TypeInv /\ AloneInv /\ LeaseInv
<1>1. Init => Leases!Init
  <2> SUFFICES ASSUME Init, NEW c \in COpts PROVE Lease(c) = <<"free">>
    BY DEF Leases!Init, Leases!Free
  <2>1. TypeInv /\ LeaseInv /\ ~inUse[c]
    BY TypeInit, LeaseInit DEF Init
  <2> QED
    BY <2>1, LeaseMeans DEF LeasesMean, LeaseOf
<1>2. Init => Inv
  BY TypeInit, AloneInit, LeaseInit
<1>3. Inv /\ [Next]_vars => Inv'
  BY TypeNext, AloneNext, LeaseNext
<1>4. Inv /\ [Next]_vars => [Leases!Next]_([c \in COpts |-> Lease(c)])
  BY <1>3, LeaseMeans, LeaseMeansThen, LeasesStep
<1> QED
  BY <1>1, <1>2, <1>3, <1>4, PTL DEF Spec, FamiliesLeased, Leases!Spec

-------------------------------------------------------------------------------
(* A flagged ColumnFamilyOptions object is leased *)

Leased(c) == \/ \E t \in Threads : Reserves(t, c)
             \/ \E d \in DBs : \E i \in Nat : EntryOf(c, d, i)

Earned == \A c \in COpts \ Opts : inUse[c] => Leased(c)

LEMMA EarnedInit == Init => Earned
BY DEF Init, Earned

\* A step that gives no lease back and sets no flag.
LEMMA EarnedQuiet ==
    ASSUME Earned, UNCHANGED cfOptions,
           \A u \in Threads : \A c \in COpts : Reserves(u, c) => Reserves(u, c)',
           \A c \in COpts \ Opts : inUse'[c] => inUse[c]
    PROVE  Earned'
<1>1. \A c, d, i : EntryOf(c, d, i) <=> EntryOf(c, d, i)'
  BY DEF EntryOf
<1> QED
  BY <1>1 DEF Earned, Leased

\* Thread t flags what it reserves.
LEMMA EarnedTake ==
    ASSUME Earned, UNCHANGED cfOptions, NEW t \in Threads, OthersStay(t), frame[t].at = "idle",
           \A c \in COpts \ Opts : inUse'[c] => inUse[c] \/ Reserves(t, c)'
    PROVE  Earned'
<1>1. \A c, d, i : EntryOf(c, d, i) <=> EntryOf(c, d, i)'
  BY DEF EntryOf
<1>2. \A u \in Threads : \A c : Reserves(u, c) => Reserves(u, c)'
  BY DEF Reserves, OthersStay
<1> QED
  BY <1>1, <1>2 DEF Earned, Leased

LEMMA EarnedInvoke ==
    ASSUME Failures \subseteq {"drop"}, TypeInv, Earned, NEW t \in Threads, Invoke(t),
           \A d \in DBs : ~Close(t, d)
    PROVE  Earned'
<1>1. ASSUME NEW d \in DBs, NEW o \in Opts, NEW fams \in OpenFamilies, Open(t, d, o, fams)
      PROVE  Earned'
  <2>1. /\ OthersStay(t) /\ frame[t] = Idle
        /\ frame'[t].at = "open" /\ frame'[t].fams = fams
    BY <1>1, EnterFacts DEF Open, Method
  <2>2. \A c \in COpts : inUse'[c] => inUse[c] \/ c \in Range(fams)
    BY <1>1 DEF Open, Admit, TypeInv, TypeOK
  <2>3. \A c \in COpts : inUse'[c] => inUse[c] \/ Reserves(t, c)'
    BY <2>1, <2>2 DEF Reserves
  <2>4. UNCHANGED cfOptions
    BY <1>1 DEF Open
  <2> QED
    BY <2>1, <2>3, <2>4, IdleFields, EarnedTake
<1>2. \A o \in Opts, fams \in OpenFamilies : ~OpenRejected(t, o, fams)
  BY DEF OpenRejected
<1>3. ASSUME NEW d \in DBs, NEW c \in COpts, Create(t, d, c) PROVE Earned'
  <2>1. /\ OthersStay(t) /\ frame[t] = Idle
        /\ frame'[t].at = "create" /\ frame'[t].fams = <<c>>
    BY <1>3, EnterFacts DEF Create, Method
  <2>2. \A b \in COpts : inUse'[b] => inUse[b] \/ b = c
    BY <1>3 DEF Create, TypeInv, TypeOK
  <2>3. \A b \in COpts : inUse'[b] => inUse[b] \/ Reserves(t, b)'
    BY <2>1, <2>2 DEF Reserves, Range
  <2>4. UNCHANGED cfOptions
    BY <1>3 DEF Create
  <2> QED
    BY <2>1, <2>3, <2>4, IdleFields, EarnedTake
<1>4. CASE \/ \E d \in DBs, h \in Handles : Drop(t, d, h)
           \/ \E d \in DBs, hs \in SUBSET Handles : Call(t, d, hs)
           \/ \E k \in Children : UseChild(t, k) \/ Release(t, k)
  <2>1. UNCHANGED <<cfOptions, inUse>>
    BY <1>4 DEF Drop, Call, UseChild, Release
  <2>2. OthersStay(t) /\ frame[t] = Idle
    BY <1>4, EnterFacts DEF Drop, Call, UseChild, Release
  <2> QED
    BY <2>1, <2>2, IdleFields, EarnedTake
<1> QED
  BY <1>1, <1>2, <1>3, <1>4 DEF Invoke

\* The new list of a constructor's DB is what the constructor had reserved, and
\* there was none before.
LEMMA EarnedOpenDone ==
    ASSUME TypeInv, AloneInv, Earned, NEW t \in Threads, OpenDone(t)
    PROVE  Earned'
<1>0. PICK d \in DBs, fams \in Seq(COpts \cup {None}) : d = frame[t].db /\ fams = frame[t].fams
  BY DEF OpenDone, TypeInv, TypeOK, FrameOK, Frame
<1>1. frame[t].at = "open" /\ OthersStay(t)
  BY LeaveFacts DEF OpenDone
<1>2. cfOptions[d] = <<>>
  <2>1. cfHandles[d] = <<>>
    BY <1>0, <1>1 DEF AloneInv, Unreferred
  <2> QED
    BY <2>1 DEF TypeInv, TypeOK
<1>3. /\ cfOptions'[d] = fams
      /\ \A e \in DBs : e # d => cfOptions'[e] = cfOptions[e]
  BY <1>0 DEF OpenDone, TypeInv, TypeOK
<1>4. \A c : \A e \in DBs, i \in Nat : EntryOf(c, e, i) => EntryOf(c, e, i)'
  BY <1>2, <1>3 DEF EntryOf
<1>5. \A c : Reserves(t, c) => \E i \in Nat : EntryOf(c, d, i)'
  <2>1. DOMAIN fams = 1..Len(fams) /\ Len(fams) \in Nat
    BY <1>0
  <2>2. \A c : Reserves(t, c) => \E i \in 1..Len(fams) : fams[i] = c
    BY <1>0, <2>1 DEF Reserves, Range
  <2> QED
    BY <1>3, <2>1, <2>2 DEF EntryOf
<1>6. \A c : \A u \in Threads : u # t /\ Reserves(u, c) => Reserves(u, c)'
  BY <1>1 DEF Reserves, OthersStay
<1>7. \A c \in COpts \ Opts : inUse'[c] => inUse[c]
  <2>1. frame[t].opts \in Opts
    BY <1>1 DEF TypeInv, FrameOK
  <2> QED
    BY <2>1 DEF OpenDone, TypeInv, TypeOK
<1> QED
  BY <1>4, <1>5, <1>6, <1>7 DEF Earned, Leased

LEMMA EarnedCreateReturn ==
    ASSUME TypeInv, Earned, NEW t \in Threads, CreateReturn(t)
    PROVE  Earned'
<1>0. PICK d \in DBs : d = frame[t].db
  BY DEF CreateReturn, TypeInv, FrameOK
<1>1. PICK n \in Nat : n = Len(cfOptions[d])
  BY DEF TypeInv, TypeOK
<1>2. PICK c \in COpts : frame[t].fams = <<c>>
  BY DEF CreateReturn, TypeInv, FrameOK
<1>3. OthersStay(t)
  BY LeaveFacts DEF CreateReturn
<1>4. /\ cfOptions'[d] = Append(cfOptions[d], c)
      /\ \A e \in DBs : e # d => cfOptions'[e] = cfOptions[e]
      /\ cfOptions[d] \in Seq(COpts \cup {None})
  BY <1>0, <1>2 DEF CreateReturn, TypeInv, TypeOK
<1>5. /\ Len(cfOptions'[d]) = n + 1 /\ cfOptions'[d][n + 1] = c
      /\ \A i \in 1..n : cfOptions'[d][i] = cfOptions[d][i]
  BY <1>1, <1>4
<1>6. \A b : \A e \in DBs, i \in Nat : EntryOf(b, e, i) => EntryOf(b, e, i)'
  BY <1>1, <1>4, <1>5 DEF EntryOf
<1>7. EntryOf(c, d, n + 1)'
  BY <1>5 DEF EntryOf
<1>8. \A b : Reserves(t, b) => b = c
  BY <1>2 DEF Reserves, Range
<1>9. \A b : \A u \in Threads : u # t /\ Reserves(u, b) => Reserves(u, b)'
  BY <1>3 DEF Reserves, OthersStay
<1>10. \A b \in COpts \ Opts : inUse'[b] => inUse[b]
  BY DEF CreateReturn
<1> QED
  BY <1>6, <1>7, <1>8, <1>9, <1>10 DEF Earned, Leased

LEMMA EarnedDropReturn ==
    ASSUME TypeInv, Earned, NEW t \in Threads, DropReturn(t)
    PROVE  Earned'
<1>1. PICK d \in DBs, k \in Nat :
         /\ \A c : \A i \in Nat :
               EntryOf(c, d, i)' <=> EntryOf(c, d, IF i < k THEN i ELSE i + 1)
         /\ \A c : \A e \in DBs : \A i \in Nat :
               e # d => (EntryOf(c, e, i)' <=> EntryOf(c, e, i))
         /\ \A c \in COpts : inUse'[c] <=> inUse[c] /\ ~EntryOf(c, d, k)
  BY DropMoves
<1>2. ASSUME NEW c, NEW i \in Nat, EntryOf(c, d, i), i # k
      PROVE  \E j \in Nat : EntryOf(c, d, j)'
  <2>1. CASE i < k
    BY <1>1, <1>2, <2>1
  <2>2. CASE i > k
    <3>1. i - 1 \in Nat /\ ~(i - 1 < k) /\ (i - 1) + 1 = i
      BY <1>1, <2>2
    <3> QED
      BY <1>1, <1>2, <3>1
  <2> QED
    BY <1>1, <1>2, <2>1, <2>2
<1>3. \A u \in Threads : \A c : Reserves(u, c) => Reserves(u, c)'
  BY LeaveFacts DEF Reserves, OthersStay, DropReturn
<1> QED
  BY <1>1, <1>2, <1>3 DEF Earned, Leased

\* close() resets the flags of what it takes off the list.
LEMMA EarnedClosing ==
    ASSUME TypeInv, Earned, NEW t \in Threads, NEW d \in DBs, Close(t, d) \/ Dealloc(t, d)
    PROVE  Earned'
<1>1. OthersStay(t) /\ frame[t] = Idle
  BY EnterFacts DEF Close, Dealloc
<1>2. /\ \A e \in DBs : e # d => cfOptions'[e] = cfOptions[e]
      /\ inUse' = [c \in DOMAIN inUse |-> inUse[c] /\ c \notin Range(cfOptions[d])]
  BY DEF Close, Dealloc, CloseBody, TypeInv, TypeOK
<1>3. \A c : \A i \in Nat : EntryOf(c, d, i) => c \in Range(cfOptions[d])
  <2>1. DOMAIN cfOptions[d] = 1..Len(cfOptions[d])
    BY DEF TypeInv, TypeOK
  <2> QED
    BY <2>1 DEF EntryOf, Range
<1>4. \A c \in COpts : inUse'[c] => inUse[c] /\ \A i \in Nat : ~EntryOf(c, d, i)
  BY <1>2, <1>3 DEF TypeInv, TypeOK
<1>5. \A c : \A e \in DBs, i \in Nat : e # d /\ EntryOf(c, e, i) => EntryOf(c, e, i)'
  BY <1>2 DEF EntryOf
<1>6. \A c : \A u \in Threads : Reserves(u, c) => Reserves(u, c)'
  BY <1>1, IdleFields DEF Reserves, OthersStay
<1> QED
  BY <1>4, <1>5, <1>6 DEF Earned, Leased

LEMMA EarnedQuietProceed ==
    ASSUME Failures \subseteq {"drop"}, TypeInv, Earned, NEW t \in Threads, Proceed(t),
           ~OpenDone(t), ~CreateReturn(t), ~DropReturn(t)
    PROVE  Earned'
<1>1. ~OpenFailed(t) /\ ~CreateFailed(t)
  BY DEF OpenFailed, CreateFailed
<1>2. UNCHANGED cfOptions /\ \A c \in COpts : inUse'[c] => inUse[c]
  <2>1. CASE CloseReturn(t)
    BY <2>1 DEF CloseReturn, TypeInv, TypeOK
  <2>2. CASE ~CloseReturn(t)
    BY <1>1, <2>2 DEF Proceed, CreateInCpp, DropInCpp, DropFailed, DropUnlisted, Return,
                      ReturnChild, Released
  <2> QED
    BY <2>1, <2>2
<1>3. \A c : Reserves(t, c) => Reserves(t, c)'
  <2>1. CASE CreateInCpp(t)
    <3>1. frame'[t].at = "created" /\ frame'[t].fams = frame[t].fams
      BY <2>1 DEF CreateInCpp, Method, TypeInv, TypeOK
    <3> QED
      BY <3>1 DEF Reserves
  <2>2. CASE ~CreateInCpp(t)
    <3>1. frame[t].at \in {"drop", "dropped", "call", "release", "close", "dealloc"}
      BY <1>1, <2>2 DEF Proceed, DropInCpp, DropFailed, DropUnlisted, Return, ReturnChild,
                        Released, CloseReturn
    <3> QED
      BY <3>1 DEF Reserves
  <2> QED
    BY <2>1, <2>2
<1>4. OthersStay(t)
  <2>1. CASE CreateInCpp(t) \/ DropInCpp(t)
    BY <2>1 DEF CreateInCpp, DropInCpp, OthersStay, TypeInv, TypeOK
  <2>2. CASE ~CreateInCpp(t) /\ ~DropInCpp(t)
    <3>1. Leave(t)
      BY <1>1, <2>2 DEF Proceed, DropFailed, DropUnlisted, Return, ReturnChild, Released,
                        CloseReturn
    <3> QED
      BY <3>1, LeaveFacts
  <2> QED
    BY <2>1, <2>2
<1>5. \A u \in Threads : \A c : Reserves(u, c) => Reserves(u, c)'
  BY <1>3, <1>4 DEF Reserves, OthersStay
<1> QED
  BY <1>2, <1>5, EarnedQuiet

LEMMA EarnedNext ==
    ASSUME Failures \subseteq {"drop"}
    PROVE  TypeInv /\ AloneInv /\ Earned /\ [Next]_vars => Earned'
<1> SUFFICES ASSUME TypeInv, AloneInv, Earned, [Next]_vars PROVE Earned'
  OBVIOUS
<1>1. ASSUME NEW t \in Threads, Proceed(t) PROVE Earned'
  BY <1>1, EarnedOpenDone, EarnedCreateReturn, EarnedDropReturn, EarnedQuietProceed
<1>2. ASSUME NEW t \in Threads, Invoke(t) PROVE Earned'
  BY <1>2, EarnedInvoke, EarnedClosing
<1>3. ASSUME NEW t \in Threads, NEW d \in DBs, Dealloc(t, d) PROVE Earned'
  BY <1>3, EarnedClosing
<1>4. CASE UNCHANGED <<frame, cfOptions, inUse>>
  <2>1. \A u \in Threads : \A c : Reserves(u, c) => Reserves(u, c)'
    BY <1>4 DEF Reserves
  <2> QED
    BY <1>4, <2>1, EarnedQuiet
<1>5. (\E d \in DBs : Forget(d)) \/ UNCHANGED vars => UNCHANGED <<frame, cfOptions, inUse>>
  BY DEF Forget, vars
<1> QED
  BY <1>1, <1>2, <1>3, <1>4, <1>5 DEF Next

\* The flag of a ColumnFamilyOptions object keeps nobody out for nothing, in any
\* program, as long as nothing but a drop_column_family fails: the failures of
\* opens and of create_column_family are exactly what the theorem has to exclude.
THEOREM FamilyFlagsStayEarned ==
    ASSUME Failures \subseteq {"drop"}
    PROVE  Spec => []FamilyFlagsEarned
<1> DEFINE Inv == TypeInv /\ AloneInv /\ Earned
<1>1. Init => Inv
  BY TypeInit, AloneInit, EarnedInit
<1>2. Inv /\ [Next]_vars => Inv'
  BY TypeNext, AloneNext, EarnedNext
<1>3. Inv => FamilyFlagsEarned
  <2> SUFFICES ASSUME Inv, NEW c \in COpts \ Opts, Leased(c)
               PROVE  Entries(c) \cup Reservations(c) # {}
    BY DEF FamilyFlagsEarned, Earned
  <2>1. ASSUME NEW t \in Threads, Reserves(t, c) PROVE t \in Reservations(c)
    BY <2>1 DEF Reserves, Reservations
  <2>2. ASSUME NEW d \in DBs, NEW i \in Nat, EntryOf(c, d, i) PROVE <<d, i>> \in Entries(c)
    <3>1. DOMAIN cfOptions[d] = 1..Len(cfOptions[d])
      BY DEF TypeInv, TypeOK
    <3> QED
      BY <2>2, <3>1 DEF EntryOf, Entries
  <2> QED
    BY <2>1, <2>2 DEF Leased
<1> QED
  BY <1>1, <1>2, <1>3, PTL DEF Spec

-------------------------------------------------------------------------------
(* Options serve one database *)

(***************************************************************************)
(* OptionsExclusive is not inductive: that a constructor may flag and keep *)
(* its Options when it is done rests on nobody's having flagged them since *)
(* its check, and that a __dealloc__ may reset the flag on its DB's having *)
(* them alone.                                                             *)
(***************************************************************************)
Holds(d, o) == optsOf[d] = o

OpensWith(t, o) == frame[t].at = "open" /\ frame[t].opts = o

OptsInv ==
    /\ \A t \in Threads : frame[t].at # "close"
    /\ \A d \in DBs : Holds(d, None) <=> cpp[d] = "null"
    /\ \A o \in Opts :
          /\ inUse[o] <=> \E d \in DBs : Holds(d, o)
          /\ \A d, e \in DBs : Holds(d, o) /\ Holds(e, o) => d = e
          /\ \A t \in Threads : OpensWith(t, o) => ~inUse[o]
          /\ \A t, u \in Threads : OpensWith(t, o) /\ OpensWith(u, o) => t = u

LEMMA OptsInit == Init => OptsInv
BY IdleFields, ConstantsAssumption DEF Init, OptsInv, Holds, OpensWith

\* A step that hands no Options over.
LEMMA OptsQuiet ==
    ASSUME OptsInv, UNCHANGED optsOf, NEW t \in Threads, OthersStay(t),
           frame'[t].at \notin {"open", "close"},
           \A d \in DBs : cpp'[d] = "null" <=> cpp[d] = "null",
           \A o \in Opts : inUse'[o] <=> inUse[o]
    PROVE  OptsInv'
<1>1. \A d, o : Holds(d, o)' <=> Holds(d, o)
  BY DEF Holds
<1>2. \A u \in Threads, o \in Opts : OpensWith(u, o)' => OpensWith(u, o)
  BY DEF OpensWith, OthersStay
<1>3. \A u \in Threads : frame'[u].at # "close"
  BY DEF OptsInv, OthersStay
<1> QED
  BY <1>1, <1>2, <1>3 DEF OptsInv

LEMMA OptsOpen ==
    ASSUME Opts \cap COpts = {}, "share" \notin Liberties, TypeInv, OptsInv,
           NEW t \in Threads, NEW d \in DBs, NEW o \in Opts, NEW fams \in OpenFamilies,
           Open(t, d, o, fams)
    PROVE  OptsInv'
<1>1. /\ OthersStay(t) /\ frame'[t].at = "open" /\ frame'[t].opts = o
  BY EnterFacts DEF Open, Method
<1>2. ~inUse[o] /\ \A u \in Threads : ~OpensWith(u, o)
  BY DEF Open, Admit, OpensWith
<1>3. \A p \in Opts : inUse'[p] <=> inUse[p]
  <2>1. Range(fams) \subseteq COpts \cup {None}
    BY ConstantsAssumption DEF Range
  <2> QED
    BY <2>1, ConstantsAssumption DEF Open, Admit, TypeInv, TypeOK
<1>4. UNCHANGED <<optsOf, cpp>>
  BY DEF Open
<1>5. \A e, p : Holds(e, p)' <=> Holds(e, p)
  BY <1>4 DEF Holds
<1>6. /\ \A u \in Threads, p \in Opts : u # t => (OpensWith(u, p)' <=> OpensWith(u, p))
      /\ \A p \in Opts : OpensWith(t, p)' <=> p = o
  BY <1>1 DEF OpensWith, OthersStay
<1>7. \A u \in Threads : frame'[u].at # "close"
  BY <1>1 DEF OptsInv, OthersStay
<1>8. ASSUME NEW p \in Opts
      PROVE  /\ \A u \in Threads : OpensWith(u, p)' => ~inUse'[p]
             /\ \A u, v \in Threads : OpensWith(u, p)' /\ OpensWith(v, p)' => u = v
  BY <1>2, <1>3, <1>6 DEF OptsInv
<1> QED
  BY <1>3, <1>4, <1>5, <1>7, <1>8 DEF OptsInv

LEMMA OptsOpenDone ==
    ASSUME TypeInv, AloneInv, OptsInv, NEW t \in Threads, OpenDone(t)
    PROVE  OptsInv'
<1>1. PICK d \in DBs, o \in Opts : d = frame[t].db /\ o = frame[t].opts
  BY DEF OpenDone, TypeInv, FrameOK
<1>2. frame[t].at = "open" /\ OthersStay(t) /\ frame'[t] = Idle
  BY LeaveFacts DEF OpenDone
<1>3. /\ cpp'[d] = "open" /\ \A e \in DBs : e # d => cpp'[e] = cpp[e]
      /\ optsOf'[d] = o /\ \A e \in DBs : e # d => optsOf'[e] = optsOf[e]
      /\ inUse'[o] /\ \A p \in Opts : p # o => inUse'[p] = inUse[p]
  BY <1>1 DEF OpenDone, TypeInv, TypeOK
<1>4. ~inUse[o] /\ \A e \in DBs : ~Holds(e, o)
  BY <1>1, <1>2 DEF OptsInv, OpensWith
<1>5. Holds(d, None)
  BY <1>1, <1>2 DEF AloneInv, OptsInv
<1>6. \A e \in DBs : \A p : Holds(e, p)' <=> IF e = d THEN p = o ELSE Holds(e, p)
  BY <1>3 DEF Holds
<1>7. \A u \in Threads, p \in Opts : OpensWith(u, p)' => u # t /\ OpensWith(u, p)
  BY <1>2, IdleFields DEF OpensWith, OthersStay
<1>8. \A u \in Threads : ~OpensWith(u, o)'
  <2>1. OpensWith(t, o)
    BY <1>1, <1>2 DEF OpensWith
  <2> QED
    BY <1>7, <2>1 DEF OptsInv
<1>9. \A u \in Threads : frame'[u].at # "close"
  BY <1>2, IdleFields DEF OptsInv, OthersStay
<1>10. o # None /\ None \notin Opts
  BY ConstantsAssumption
<1>11. \A e \in DBs : Holds(e, None)' <=> cpp'[e] = "null"
  BY <1>3, <1>6, <1>10 DEF OptsInv
<1>12. ASSUME NEW p \in Opts
       PROVE  /\ inUse'[p] <=> \E e \in DBs : Holds(e, p)'
              /\ \A e, f \in DBs : Holds(e, p)' /\ Holds(f, p)' => e = f
  <2>1. ~Holds(d, p)
    BY <1>5, <1>10 DEF Holds
  <2> QED
    BY <1>3, <1>4, <1>6, <2>1 DEF OptsInv
<1>13. ASSUME NEW p \in Opts
       PROVE  /\ \A u \in Threads : OpensWith(u, p)' => ~inUse'[p]
              /\ \A u, v \in Threads : OpensWith(u, p)' /\ OpensWith(v, p)' => u = v
  BY <1>3, <1>7, <1>8 DEF OptsInv
<1> QED
  BY <1>9, <1>11, <1>12, <1>13 DEF OptsInv

\* A __dealloc__ is over: its DB's Options are nobody's.
LEMMA OptsCloseReturn ==
    ASSUME TypeInv, AloneInv, OptsInv, NEW t \in Threads, CloseReturn(t)
    PROVE  OptsInv'
<1>1. PICK d \in DBs : d = frame[t].db
  BY DEF CloseReturn, TypeInv, FrameOK
<1>2. frame[t].at = "dealloc" /\ OthersStay(t) /\ frame'[t] = Idle
  BY LeaveFacts DEF CloseReturn, OptsInv
<1>3. PICK o \in Opts : Holds(d, o)
  <2>1. cpp[d] # "null"
    BY <1>1, <1>2 DEF AloneInv
  <2> QED
    BY <2>1 DEF OptsInv, Holds, TypeInv, TypeOK
<1>4. /\ cpp'[d] = "null" /\ \A e \in DBs : e # d => cpp'[e] = cpp[e]
      /\ optsOf'[d] = None /\ \A e \in DBs : e # d => optsOf'[e] = optsOf[e]
      /\ ~inUse'[o] /\ \A p \in Opts : p # o => inUse'[p] = inUse[p]
  BY <1>1, <1>2, <1>3 DEF CloseReturn, Holds, TypeInv, TypeOK
<1>5. \A e \in DBs : \A p : Holds(e, p)' <=> IF e = d THEN p = None ELSE Holds(e, p)
  BY <1>4 DEF Holds
<1>6. \A u \in Threads, p \in Opts : OpensWith(u, p)' => OpensWith(u, p)
  BY <1>2, IdleFields DEF OpensWith, OthersStay
<1>7. \A u \in Threads : frame'[u].at # "close"
  BY <1>2, IdleFields DEF OptsInv, OthersStay
<1>8. None \notin Opts
  BY ConstantsAssumption
<1>9. \A e \in DBs : Holds(e, None)' <=> cpp'[e] = "null"
  BY <1>4, <1>5 DEF OptsInv
<1>10. ASSUME NEW p \in Opts
       PROVE  /\ inUse'[p] <=> \E e \in DBs : Holds(e, p)'
              /\ \A e, f \in DBs : Holds(e, p)' /\ Holds(f, p)' => e = f
  <2>1. Holds(d, p) => p = o
    BY <1>3 DEF Holds
  <2>2. \A e, f \in DBs : Holds(e, p) /\ Holds(f, p) => e = f
    BY DEF OptsInv
  <2>3. inUse[p] <=> \E e \in DBs : Holds(e, p)
    BY DEF OptsInv
  <2> QED
    BY <1>3, <1>4, <1>5, <1>8, <2>1, <2>2, <2>3
<1>11. ASSUME NEW p \in Opts
       PROVE  /\ \A u \in Threads : OpensWith(u, p)' => ~inUse'[p]
              /\ \A u, v \in Threads : OpensWith(u, p)' /\ OpensWith(v, p)' => u = v
  BY <1>4, <1>6 DEF OptsInv
<1> QED
  BY <1>7, <1>9, <1>10, <1>11 DEF OptsInv

\* A __dealloc__ resets the flags of column family options only, at first.
LEMMA OptsDealloc ==
    ASSUME Opts \cap COpts = {}, TypeInv, OptsInv, NEW t \in Threads, NEW d \in DBs,
           Dealloc(t, d)
    PROVE  OptsInv'
<1>1. OthersStay(t) /\ frame'[t].at = "dealloc" /\ UNCHANGED optsOf
  BY EnterFacts DEF Dealloc, Method
<1>2. \A e \in DBs : cpp'[e] = "null" <=> cpp[e] = "null"
  BY DEF Dealloc, CloseBody, TypeInv, TypeOK
<1>3. \A o \in Opts : inUse'[o] <=> inUse[o]
  <2>1. Range(cfOptions[d]) \subseteq COpts \cup {None}
    BY DEF Range, TypeInv, TypeOK
  <2> QED
    BY <2>1, ConstantsAssumption DEF Dealloc, CloseBody, TypeInv, TypeOK
<1> QED
  BY <1>1, <1>2, <1>3, OptsQuiet

LEMMA OptsProceed ==
    ASSUME Opts \cap COpts = {}, TypeInv, AloneInv, OptsInv, NEW t \in Threads, Proceed(t)
    PROVE  OptsInv'
<1>1. CASE CreateInCpp(t) \/ DropInCpp(t)
  <2>1. OthersStay(t) /\ frame'[t].at \in {"created", "dropped"}
    <3>1. CASE CreateInCpp(t)
      BY <3>1 DEF CreateInCpp, Method, OthersStay, TypeInv, TypeOK
    <3>2. CASE DropInCpp(t)
      BY <3>2 DEF DropInCpp, Method, OthersStay, TypeInv, TypeOK
    <3> QED
      BY <1>1, <3>1, <3>2
  <2>2. UNCHANGED <<cpp, optsOf, inUse>>
    BY <1>1 DEF CreateInCpp, DropInCpp
  <2> QED
    BY <2>1, <2>2, OptsQuiet
<1>2. CASE \/ OpenFailed(t) \/ CreateFailed(t) \/ CreateReturn(t) \/ DropFailed(t)
           \/ DropReturn(t) \/ DropUnlisted(t) \/ Return(t) \/ Released(t)
           \/ \E k \in Children : ReturnChild(t, k)
  <2>1. Leave(t) /\ UNCHANGED <<cpp, optsOf>>
    BY <1>2 DEF OpenFailed, CreateFailed, CreateReturn, DropFailed, DropReturn, DropUnlisted,
                Return, ReturnChild, Released
  <2>2. OthersStay(t) /\ frame'[t].at = "idle"
    BY <2>1, LeaveFacts, IdleFields
  <2>3. \A o \in Opts : inUse'[o] <=> inUse[o]
    <3>1. CASE DropReturn(t)
      <4>1. PICK d \in DBs : d = frame[t].db
        BY <3>1 DEF DropReturn, TypeInv, FrameOK
      <4>2. PICK i \in DOMAIN cfHandles[d] :
               inUse' = [c \in DOMAIN inUse |-> inUse[c] /\ c # cfOptions[d][i]]
        BY <3>1, <4>1 DEF DropReturn
      <4>3. cfOptions[d][i] \in COpts \cup {None}
        BY <4>1, <4>2 DEF TypeInv, TypeOK
      <4> QED
        BY <4>2, <4>3, ConstantsAssumption DEF TypeInv, TypeOK
    <3>2. CASE ~DropReturn(t)
      BY <1>2, <3>2 DEF OpenFailed, CreateFailed, CreateReturn, DropFailed, DropUnlisted,
                        Return, ReturnChild, Released
    <3> QED
      BY <3>1, <3>2
  <2> QED
    BY <2>1, <2>2, <2>3, OptsQuiet
<1> QED
  BY <1>1, <1>2, OptsOpenDone, OptsCloseReturn DEF Proceed

LEMMA OptsInvoke ==
    ASSUME Opts \cap COpts = {}, {"share", "close"} \cap Liberties = {}, TypeInv, OptsInv,
           NEW t \in Threads, Invoke(t)
    PROVE  OptsInv'
<1>1. ASSUME NEW o \in Opts, NEW fams \in OpenFamilies, OpenRejected(t, o, fams)
      PROVE  OptsInv'
  <2>1. OthersStay(t) /\ frame'[t].at = "idle" /\ UNCHANGED <<cpp, optsOf>>
    BY <1>1 DEF OpenRejected, OthersStay
  <2>2. \A p \in Opts : inUse'[p] <=> inUse[p]
    <3>1. Range(fams) \subseteq COpts \cup {None}
      BY ConstantsAssumption DEF Range
    <3> QED
      BY <1>1, <3>1, ConstantsAssumption DEF OpenRejected, Admit, TypeInv, TypeOK
  <2> QED
    BY <2>1, <2>2, OptsQuiet
<1>2. CASE \/ \E d \in DBs, c \in COpts : Create(t, d, c)
           \/ \E d \in DBs, h \in Handles : Drop(t, d, h)
           \/ \E d \in DBs, hs \in SUBSET Handles : Call(t, d, hs)
           \/ \E k \in Children : UseChild(t, k) \/ Release(t, k)
  <2>1. UNCHANGED <<cpp, optsOf>>
    BY <1>2 DEF Create, Drop, Call, UseChild, Release
  <2>2. OthersStay(t) /\ frame'[t].at \in {"create", "drop", "call", "release"}
    <3>1. ASSUME NEW d \in DBs, NEW h \in Handles, Drop(t, d, h) PROVE <2>2!:
      BY <3>1, EnterFacts DEF Drop, Method
    <3>2. ASSUME NEW d \in DBs, NEW hs \in SUBSET Handles, Call(t, d, hs) PROVE <2>2!:
      BY <3>2, EnterFacts DEF Call, Method
    <3>3. ASSUME NEW k \in Children, UseChild(t, k) \/ Release(t, k) PROVE <2>2!:
      BY <3>3, EnterFacts DEF UseChild, Release, Method
    <3>4. ASSUME NEW d \in DBs, NEW c \in COpts, Create(t, d, c) PROVE <2>2!:
      BY <3>4, EnterFacts DEF Create, Method
    <3> QED
      BY <1>2, <3>1, <3>2, <3>3, <3>4
  <2>3. \A o \in Opts : inUse'[o] <=> inUse[o]
    BY <1>2 DEF Create, Drop, Call, UseChild, Release, TypeInv, TypeOK
  <2> QED
    BY <2>1, <2>2, <2>3, OptsQuiet
<1>3. \A d \in DBs : ~Close(t, d)
  BY DEF Close
<1> QED
  BY <1>1, <1>2, <1>3, OptsOpen DEF Invoke

LEMMA OptsNext ==
    ASSUME Opts \cap COpts = {}, {"share", "close"} \cap Liberties = {}
    PROVE  TypeInv /\ AloneInv /\ OptsInv /\ [Next]_vars => OptsInv'
<1> SUFFICES ASSUME TypeInv, AloneInv, OptsInv, [Next]_vars PROVE OptsInv'
  OBVIOUS
<1>1. CASE UNCHANGED <<cpp, optsOf, inUse, frame>>
  <2>1. /\ \A d, o : Holds(d, o)' <=> Holds(d, o)
        /\ \A t, o : OpensWith(t, o)' <=> OpensWith(t, o)
    BY <1>1 DEF Holds, OpensWith
  <2> QED
    BY <1>1, <2>1 DEF OptsInv
<1>2. (\E d \in DBs : Forget(d)) \/ UNCHANGED vars => UNCHANGED <<cpp, optsOf, inUse, frame>>
  BY DEF Forget, vars
<1> QED
  BY <1>1, <1>2, OptsProceed, OptsInvoke, OptsDealloc DEF Next

\* No two DB objects hold the same Options, whose flag says exactly whether one
\* does - in a program that opens with an Options object once at a time and leaves
\* closing to the garbage collector.  Each of the two is needed: the flag is set
\* when the constructor is done, and reset by a close() that keeps the Options.
THEOREM OptionsStayExclusive ==
    ASSUME Opts \cap COpts = {}, {"share", "close"} \cap Liberties = {}
    PROVE  Spec => []OptionsExclusive
<1> DEFINE Inv == TypeInv /\ AloneInv /\ OptsInv
<1>1. Init => Inv
  BY TypeInit, AloneInit, OptsInit
<1>2. Inv /\ [Next]_vars => Inv'
  BY TypeNext, AloneNext, OptsNext
<1>3. Inv => OptionsExclusive
  BY DEF OptionsExclusive, OptionsNotShared, OptsInv, Holds
<1> QED
  BY <1>1, <1>2, <1>3, PTL DEF Spec

===============================================================================
