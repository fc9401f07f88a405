-------------------------- MODULE DBLifecycleHandles ---------------------------
(***************************************************************************)
(* Theorems about DBLifecycle, on column family handles: the two lists     *)
(* of a DB stay paired, nothing outlives the database it uses, and handles *)
(* outlive the calls that use them.                                        *)
(***************************************************************************)
EXTENDS DBLifecycleProofs

-------------------------------------------------------------------------------
(* cf_handles and cf_options stay paired, whatever the program does *)

(***************************************************************************)
(* ListsPaired is not inductive: what create_column_family appends was     *)
(* made in an earlier step, and a handle is in the list only as long as it *)
(* is alive.  OwnInv adds what a running create_column_family owns, and    *)
(* that a handle is alive exactly while a list or a local variable has it. *)
(***************************************************************************)
CreatedOK(f) ==
    f.at = "created" => \E h \in f.pin : /\ f.raw = {h}
                                         /\ family[h].opts = f.fams[1]
                                         /\ h \notin Listed

PinsLive ==
    \A t \in Threads : \A h \in frame[t].pin : h \in Live /\ family[h].db = frame[t].db

CreatedApart ==
    \A t, u \in Threads :
        frame[t].at = "created" /\ frame[u].at = "created" /\ frame[t].raw = frame[u].raw
            => t = u

PinsInCreate == \A t \in Threads : frame[t].pin # {} => frame[t].at \in {"create", "created"}

OwnInv ==
    /\ ListsPaired
    /\ PinsLive
    /\ PinsInCreate
    /\ \A t \in Threads : CreatedOK(frame[t])
    /\ CreatedApart
    /\ Live \subseteq Listed \cup Pinned

-------------------------------------------------------------------------------
(* Being listed, being pinned, being reaped *)

LEMMA ListedFacts ==
    ASSUME TypeInv
    PROVE  \A h : h \in Listed <=> \E d \in DBs : \E i \in 1..Len(cfHandles[d]) :
                                       cfHandles[d][i] = h
<1>1. \A d \in DBs : DOMAIN cfHandles[d] = 1..Len(cfHandles[d])
  BY DEF TypeInv, TypeOK
<1> QED
  BY <1>1 DEF Listed, Range

LEMMA PinnedFacts == \A h : h \in Pinned <=> \E t \in Threads : h \in frame[t].pin
BY DEF Pinned

LEMMA ReapFacts ==
    ASSUME Reap
    PROVE  \A h \in Handles :
              /\ h \in Listed' \cup Pinned' => family'[h] = family[h]
              /\ h \notin Listed' \cup Pinned' => family'[h] = None
BY DEF Reap

-------------------------------------------------------------------------------
(* The steps of methods that own no wrapper *)

\* A frame without wrappers is replaced by another one, and nothing else moves.
LEMMA OwnFrame ==
    ASSUME TypeInv, OwnInv, NEW t \in Threads, NEW f,
           UNCHANGED <<cfHandles, cfOptions, family>>,
           frame' = [frame EXCEPT ![t] = f],
           frame[t].pin = {}, f.pin = {}, f.at # "created"
    PROVE  OwnInv'
<1>1. \A u \in Threads : frame'[u] = IF u = t THEN f ELSE frame[u]
  BY DEF TypeInv, TypeOK
<1>2. Live' = Live /\ Listed' = Listed /\ Pinned' = Pinned
  <2>1. Pinned' = Pinned
    BY <1>1 DEF Pinned
  <2> QED
    BY <2>1 DEF Live, Listed
<1>3. ListsPaired'
  BY <1>2 DEF OwnInv, ListsPaired
<1>4. PinsLive' /\ PinsInCreate'
  BY <1>1, <1>2 DEF OwnInv, PinsLive, PinsInCreate
<1>5. \A u \in Threads : CreatedOK(frame[u])'
  BY <1>1, <1>2 DEF OwnInv, CreatedOK
<1>6. CreatedApart'
  BY <1>1 DEF OwnInv, CreatedApart
<1> QED
  BY <1>2, <1>3, <1>4, <1>5, <1>6 DEF OwnInv

LEMMA OwnFrameSteps ==
    ASSUME TypeInv, OwnInv, NEW t \in Threads,
           \/ \E d \in DBs, o \in Opts, fams \in OpenFamilies : Open(t, d, o, fams)
           \/ \E d \in DBs, h \in Handles : Drop(t, d, h)
           \/ \E d \in DBs, hs \in SUBSET Handles : Call(t, d, hs)
           \/ \E k \in Children : UseChild(t, k) \/ Release(t, k)
           \/ OpenFailed(t) \/ DropFailed(t) \/ DropUnlisted(t)
           \/ Return(t) \/ Released(t) \/ CloseReturn(t)
           \/ \E k \in Children : ReturnChild(t, k)
    PROVE  OwnInv'
<1>1. frame[t].pin = {}
  BY DEF OwnInv, PinsInCreate, Open, Drop, Call, UseChild, Release, OpenFailed,
         DropFailed, DropUnlisted, Return, Released, CloseReturn, ReturnChild, Enter
<1>2. UNCHANGED <<cfHandles, cfOptions, family>>
  BY DEF Open, Drop, Call, UseChild, Release, OpenFailed, DropFailed, DropUnlisted,
         Return, Released, CloseReturn, ReturnChild
<1>3. \E f : frame' = [frame EXCEPT ![t] = f] /\ f.pin = {} /\ f.at # "created"
  BY DEF Open, Drop, Call, UseChild, Release, OpenFailed, DropFailed, DropUnlisted,
         Return, Released, CloseReturn, ReturnChild, Enter, Leave, Idle, Method
<1> QED
  BY <1>1, <1>2, <1>3, OwnFrame

LEMMA OwnDropInCpp ==
    ASSUME TypeInv, OwnInv, NEW t \in Threads, DropInCpp(t)
    PROVE  OwnInv'
<1> DEFINE f == Method("dropped", frame[t].db, None, <<>>, frame[t].raw, {}, None)
<1>1. /\ frame' = [frame EXCEPT ![t] = f]
      /\ f.pin = {} /\ f.at # "created" /\ frame[t].pin = {}
      /\ UNCHANGED <<cfHandles, cfOptions>>
  BY DEF DropInCpp, Method, OwnInv, PinsInCreate
<1>2. /\ Live' = Live
      /\ \A h \in Live : family'[h].db = family[h].db /\ family'[h].opts = family[h].opts
  <2>2. \A h \in Live : Column(family[h].db, family[h].opts, FALSE, TRUE) # None
    <3>1. \A h \in Live : family[h].db \in DBs /\ family[h].opts \in COpts \cup {None}
      BY DEF TypeInv, TypeOK, Family, Live
    <3> QED
      BY <3>1, NoneAssumption, ColumnType
  <2>3. \A h \in Handles : family'[h] = IF h \in frame[t].raw \cap Live
                              THEN Column(family[h].db, family[h].opts, FALSE, TRUE)
                              ELSE family[h]
    BY DEF DropInCpp
  <2>4. Live' = Live
    BY <2>2, <2>3 DEF Live
  <2>5. ASSUME NEW h \in Live
        PROVE  family'[h].db = family[h].db /\ family'[h].opts = family[h].opts
    <3>1. h \in Handles
      BY DEF Live
    <3>2. CASE h \in frame[t].raw
      <4>1. family'[h] = Column(family[h].db, family[h].opts, FALSE, TRUE)
        BY <2>3, <3>1, <3>2
      <4> QED
        BY <4>1 DEF Column
    <3>3. CASE h \notin frame[t].raw
      BY <2>3, <3>1, <3>3
    <3> QED
      BY <3>2, <3>3
  <2> QED
    BY <2>4, <2>5
<1>3. \A u \in Threads : frame'[u] = IF u = t THEN f ELSE frame[u]
  BY <1>1 DEF TypeInv, TypeOK
<1>4. Pinned' = Pinned /\ Listed' = Listed
  BY <1>1, <1>3 DEF Pinned, Listed
<1> HIDE DEF f
<1>5. ListsPaired'
  BY <1>1, <1>2 DEF OwnInv, ListsPaired
<1>6. PinsLive' /\ PinsInCreate'
  BY <1>1, <1>2, <1>3 DEF OwnInv, PinsLive, PinsInCreate
<1>7. \A u \in Threads : CreatedOK(frame[u])'
  BY <1>1, <1>2, <1>3, <1>4 DEF OwnInv, CreatedOK, PinsLive
<1>8. CreatedApart'
  BY <1>1, <1>3 DEF OwnInv, CreatedApart
<1> QED
  BY <1>2, <1>4, <1>5, <1>6, <1>7, <1>8 DEF OwnInv

LEMMA OwnOpenDone ==
    ASSUME TypeInv, AloneInv, OwnInv, NEW t \in Threads, OpenDone(t)
    PROVE  OwnInv'
<1> DEFINE d == frame[t].db
           fams == frame[t].fams
<1>1. d \in DBs /\ fams \in Seq(COpts \cup {None}) /\ frame[t].pin = {}
  BY DEF TypeInv, TypeOK, FrameOK, Frame, OpenDone, OwnInv, PinsInCreate
<1>2. PICK hs \in [1..Len(fams) -> Handles \ Live] :
         /\ \A i, j \in 1..Len(fams) : hs[i] = hs[j] => i = j
         /\ cfHandles' = [cfHandles EXCEPT ![d] = hs]
         /\ family' = [h \in Handles |->
                          IF h \in Range(hs) THEN Describe(d, fams, Position(hs, h))
                                             ELSE family[h]]
  BY DEF OpenDone, Unmade
<1>3. cfOptions' = [cfOptions EXCEPT ![d] = fams]
  BY DEF OpenDone
<1>4. \A u \in Threads : frame'[u] = IF u = t THEN Idle ELSE frame[u]
  BY DEF OpenDone, Leave, TypeInv, TypeOK
<1>5. Len(fams) \in Nat /\ hs \in [1..Len(fams) -> Handles] /\ Len(hs) = Len(fams)
  BY <1>1, <1>2
<1>6. \A h \in Range(hs) : h \in Handles /\ h \notin Live
  BY <1>2, <1>5 DEF Range
<1>7. \A i \in 1..Len(fams) : hs[i] \in Range(hs) /\ Position(hs, hs[i]) = i
  <2>1. \A i \in 1..Len(fams) : hs[i] \in Range(hs)
    BY <1>5 DEF Range
  <2>2. \A i \in 1..Len(fams) : /\ Position(hs, hs[i]) \in 1..Len(fams)
                                /\ hs[Position(hs, hs[i])] = hs[i]
    BY <1>5, <2>1, PositionFinds
  <2> QED
    BY <1>2, <2>1, <2>2
<1>8. \A i \in 1..Len(fams) : /\ family'[hs[i]] # None
                              /\ family'[hs[i]].db = d
                              /\ family'[hs[i]].opts = fams[i]
  <2>1. \A i \in 1..Len(fams) : family'[hs[i]] = Describe(d, fams, i)
    BY <1>2, <1>6, <1>7
  <2> QED
    BY <1>1, <2>1, DescribeType, NoneAssumption
<1>9. \A h \in Live : h \notin Range(hs) /\ family'[h] = family[h]
  BY <1>2, <1>6 DEF Live
<1>10. Live' = Live \cup Range(hs)
  <2>1. \A h \in Range(hs) : family'[h] # None
    BY <1>5, <1>8 DEF Range
  <2>2. \A h \in Handles \ Range(hs) : family'[h] = family[h]
    BY <1>2
  <2> QED
    BY <1>6, <2>1, <2>2 DEF Live
<1>11. ListsPaired'
  <2> SUFFICES ASSUME NEW e \in DBs
               PROVE  /\ Len(cfHandles'[e]) = Len(cfOptions'[e])
                      /\ \A i \in 1..Len(cfHandles'[e]) :
                            /\ cfHandles'[e][i] \in Live'
                            /\ family'[cfHandles'[e][i]].db = e
                            /\ family'[cfHandles'[e][i]].opts = cfOptions'[e][i]
                      /\ \A i, j \in 1..Len(cfHandles'[e]) :
                            cfHandles'[e][i] = cfHandles'[e][j] => i = j
    BY DEF ListsPaired
  <2>1. CASE e = d
    <3>1. cfHandles'[e] = hs /\ cfOptions'[e] = fams
      BY <1>1, <1>2, <1>3, <2>1 DEF TypeInv, TypeOK
    <3> QED
      BY <1>2, <1>5, <1>7, <1>8, <1>10, <2>1, <3>1
  <2>2. CASE e # d
    <3>1. cfHandles'[e] = cfHandles[e] /\ cfOptions'[e] = cfOptions[e]
      BY <1>1, <1>2, <1>3, <2>2 DEF TypeInv, TypeOK
    <3> QED
      BY <1>9, <1>10, <3>1 DEF OwnInv, ListsPaired
  <2> QED
    BY <2>1, <2>2
<1>12. PinsLive' /\ PinsInCreate'
  BY <1>4, <1>9, <1>10, IdleType DEF OwnInv, PinsLive, PinsInCreate, Idle, Method
<1>13. \A h \in Live : h \notin Listed => h \notin Listed'
  <2> SUFFICES ASSUME NEW h \in Live, NEW e \in DBs, h \in Range(cfHandles'[e])
               PROVE  h \in Range(cfHandles[e])
    BY DEF Listed
  <2> QED
    BY <1>1, <1>2, <1>9 DEF TypeInv, TypeOK
<1>14. \A u \in Threads : CreatedOK(frame[u])'
  BY <1>4, <1>9, <1>13, IdleType DEF OwnInv, CreatedOK, PinsLive
<1>15. CreatedApart'
  BY <1>4, IdleType DEF OwnInv, CreatedApart
<1>16. Live' \subseteq Listed' \cup Pinned'
  <2>1. Range(hs) \subseteq Listed'
    BY <1>1, <1>2 DEF Listed, TypeInv, TypeOK
  <2>2. Pinned \subseteq Pinned'
    BY <1>1, <1>4 DEF Pinned
  <2>3. cfHandles[d] = <<>>
    BY DEF AloneInv, Unreferred, OpenDone
  <2>4. Listed \subseteq Listed'
    BY <1>1, <1>2, <2>3 DEF Listed, Range, TypeInv, TypeOK
  <2> QED
    BY <1>10, <2>1, <2>2, <2>4 DEF OwnInv
<1> QED
  BY <1>11, <1>12, <1>14, <1>15, <1>16 DEF OwnInv

LEMMA OwnCreate ==
    ASSUME TypeInv, OwnInv, NEW t \in Threads, NEW d \in DBs, NEW c \in COpts,
           Create(t, d, c)
    PROVE  OwnInv'
<1> DEFINE last == IF cfHandles[d] = <<>> THEN {} ELSE {Last(cfHandles[d])}
           f == Method("create", d, None, <<c>>, {}, last, None)
<1>1. /\ OthersStay(t) /\ frame'[t] = f /\ frame[t] = Idle
      /\ UNCHANGED <<cfHandles, cfOptions, family>>
  BY EnterFacts DEF Create
<1>2. f.at = "create" /\ f.db = d /\ f.pin = last
  BY DEF Method
<1>3. \A h \in last : h \in Live /\ family[h].db = d
  <2>1. cfHandles[d] \in Seq(Handles)
    BY DEF TypeInv, TypeOK
  <2> QED
    BY <2>1 DEF Last, OwnInv, ListsPaired
<1> HIDE DEF last, f
<1>4. Live' = Live /\ Listed' = Listed /\ Pinned \subseteq Pinned'
  <2>1. \A u \in Threads : frame[u].pin \subseteq frame'[u].pin
    BY <1>1, IdleFields DEF OthersStay
  <2> QED
    BY <1>1, <2>1 DEF Live, Listed, Pinned
<1>5. ListsPaired'
  BY <1>1, <1>4 DEF OwnInv, ListsPaired
<1>6. PinsLive' /\ PinsInCreate'
  BY <1>1, <1>2, <1>3, <1>4 DEF OwnInv, PinsLive, PinsInCreate, OthersStay
<1>7. \A u \in Threads : CreatedOK(frame[u])'
  BY <1>1, <1>2, <1>4 DEF OwnInv, CreatedOK, OthersStay
<1>8. CreatedApart'
  BY <1>1, <1>2 DEF OwnInv, CreatedApart, OthersStay
<1> QED
  BY <1>4, <1>5, <1>6, <1>7, <1>8 DEF OwnInv

LEMMA OwnCreateInCpp ==
    ASSUME TypeInv, OwnInv, NEW t \in Threads, CreateInCpp(t)
    PROVE  OwnInv'
<1>1. PICK c \in COpts : frame[t].fams = <<c>>
  BY DEF CreateInCpp, TypeInv, FrameOK
<1> DEFINE d == frame[t].db
<1>2. frame[t].at = "create" /\ d \in DBs
  BY DEF CreateInCpp, TypeInv, FrameOK
<1>3. PICK h \in Handles \ Live :
         /\ family' = [family EXCEPT ![h] = Column(d, c, FALSE, FALSE)]
         /\ frame' = [frame EXCEPT ![t] =
                Method("created", d, None, <<c>>, {h}, frame[t].pin \cup {h}, None)]
  <2>1. frame[t].fams[1] = c
    BY <1>1
  <2> QED
    BY <1>1, <2>1 DEF CreateInCpp, Unmade
<1> DEFINE f == Method("created", d, None, <<c>>, {h}, frame[t].pin \cup {h}, None)
<1>4. /\ f.at = "created" /\ f.db = d /\ f.fams = <<c>>
      /\ f.raw = {h} /\ f.pin = frame[t].pin \cup {h}
  BY DEF Method
<1>5. OthersStay(t) /\ frame'[t] = f
  BY <1>3 DEF OthersStay, TypeInv, TypeOK
<1> HIDE DEF f
<1>6. /\ family'[h] # None /\ family'[h].db = d /\ family'[h].opts = c
      /\ \A g \in Live : g # h /\ family'[g] = family[g]
  <2>1. family'[h] = Column(d, c, FALSE, FALSE)
    BY <1>3 DEF TypeInv, TypeOK
  <2>2. /\ Column(d, c, FALSE, FALSE).db = d
        /\ Column(d, c, FALSE, FALSE).opts = c
        /\ Column(d, c, FALSE, FALSE) # None
    BY <1>2, ColumnType, NoneAssumption DEF Column
  <2>3. \A g \in Live : g # h /\ family'[g] = family[g]
    BY <1>3 DEF Live, TypeInv, TypeOK
  <2> QED
    BY <2>1, <2>2, <2>3
<1>7. Live' = Live \cup {h}
  <2>1. \A g \in Handles : g # h => family'[g] = family[g]
    BY <1>3 DEF TypeInv, TypeOK
  <2> QED
    BY <1>3, <1>6, <2>1 DEF Live
<1>8. UNCHANGED <<cfHandles, cfOptions>> /\ Listed' = Listed
  BY DEF CreateInCpp, Listed
<1>9. Pinned \subseteq Pinned' /\ h \in Pinned'
  <2>1. \A u \in Threads : frame[u].pin \subseteq frame'[u].pin
    BY <1>4, <1>5 DEF OthersStay
  <2> QED
    BY <1>4, <1>5, <2>1 DEF Pinned
<1>10. h \notin Listed
  BY <1>3, ListedFacts DEF OwnInv, ListsPaired
<1>11. ListsPaired'
  BY <1>6, <1>7, <1>8 DEF OwnInv, ListsPaired
<1>12. PinsLive' /\ PinsInCreate'
  BY <1>4, <1>5, <1>6, <1>7 DEF OwnInv, PinsLive, PinsInCreate, OthersStay
<1>13. \A u \in Threads : CreatedOK(frame[u])'
  <2>1. CreatedOK(frame[t])'
    BY <1>4, <1>5, <1>6, <1>8, <1>10 DEF CreatedOK
  <2>2. ASSUME NEW u \in Threads, u # t PROVE CreatedOK(frame[u])'
    BY <1>5, <1>6, <1>8, <2>2 DEF OwnInv, CreatedOK, PinsLive, OthersStay
  <2> QED
    BY <2>1, <2>2
<1>14. CreatedApart'
  <2>1. ASSUME NEW u \in Threads, u # t, frame[u].at = "created"
        PROVE  frame[u].raw # {h}
    BY <1>3, <2>1 DEF OwnInv, CreatedOK, PinsLive
  <2> QED
    BY <1>4, <1>5, <2>1 DEF OwnInv, CreatedApart, OthersStay
<1> QED
  BY <1>7, <1>8, <1>9, <1>11, <1>12, <1>13, <1>14 DEF OwnInv

-------------------------------------------------------------------------------
(* The steps that reap *)

LEMMA OwnReap ==
    ASSUME TypeInv, OwnInv, NEW t \in Threads, Reap, OthersStay(t),
           frame'[t].pin = {}, frame'[t].at # "created",
           \A d \in DBs :
              /\ Len(cfHandles'[d]) = Len(cfOptions'[d])
              /\ \A i \in 1..Len(cfHandles'[d]) :
                    /\ cfHandles'[d][i] \in Live
                    /\ family[cfHandles'[d][i]].db = d
                    /\ family[cfHandles'[d][i]].opts = cfOptions'[d][i]
                    /\ cfHandles'[d][i] \in Listed'
              /\ \A i, j \in 1..Len(cfHandles'[d]) :
                    cfHandles'[d][i] = cfHandles'[d][j] => i = j,
           \A h \in Listed' : h \in Listed \/ (frame[t].at = "created" /\ h \in frame[t].raw)
    PROVE  OwnInv'
<1>1. \A h \in Live : h \in Listed' \cup Pinned' => h \in Live' /\ family'[h] = family[h]
  BY ReapFacts DEF Live
<1>2. Live' \subseteq Listed' \cup Pinned'
  BY ReapFacts DEF Live
<1>3. \A u \in Threads : \A h \in frame'[u].pin : u # t /\ h \in frame[u].pin /\ h \in Pinned'
  BY DEF OthersStay, Pinned
<1>4. ListsPaired'
  BY <1>1 DEF ListsPaired
<1>5. PinsLive' /\ PinsInCreate'
  BY <1>1, <1>3 DEF OwnInv, PinsLive, PinsInCreate, OthersStay
<1>6. ASSUME NEW u \in Threads PROVE CreatedOK(frame[u])'
  <2>1. CASE u = t
    BY <2>1 DEF CreatedOK
  <2>2. CASE u # t /\ frame'[u].at = "created"
    <3>1. frame'[u] = frame[u]
      BY <2>2 DEF OthersStay
    <3>2. PICK h \in frame[u].pin : /\ frame[u].raw = {h}
                                    /\ family[h].opts = frame[u].fams[1]
                                    /\ h \notin Listed
      BY <2>2, <3>1 DEF OwnInv, CreatedOK
    <3>3. h \in Live /\ family'[h] = family[h]
      BY <1>1, <1>3, <3>1, <3>2 DEF OwnInv, PinsLive
    <3>4. ~(frame[t].at = "created" /\ h \in frame[t].raw)
      <4>1. SUFFICES ASSUME frame[t].at = "created", h \in frame[t].raw PROVE FALSE
        OBVIOUS
      <4>2. PICK g \in frame[t].pin : frame[t].raw = {g}
        BY <4>1 DEF OwnInv, CreatedOK
      <4>3. frame[t].raw = frame[u].raw
        BY <3>2, <4>1, <4>2
      <4> QED
        BY <2>2, <3>1, <4>1, <4>3 DEF OwnInv, CreatedApart
    <3>5. h \notin Listed'
      BY <3>2, <3>4
    <3> QED
      BY <3>1, <3>2, <3>3, <3>5 DEF CreatedOK
  <2> QED
    BY <2>1, <2>2 DEF CreatedOK
<1>7. CreatedApart'
  BY DEF OwnInv, CreatedApart, OthersStay
<1> QED
  BY <1>2, <1>4, <1>5, <1>6, <1>7 DEF OwnInv

LEMMA OwnCreateFailed ==
    ASSUME TypeInv, OwnInv, NEW t \in Threads, CreateFailed(t)
    PROVE  OwnInv'
<1>1. /\ OthersStay(t) /\ frame'[t] = Idle /\ Reap
      /\ UNCHANGED <<cfHandles, cfOptions>> /\ Listed' = Listed
  BY LeaveFacts DEF CreateFailed, Listed
<1>2. \A d \in DBs : \A i \in 1..Len(cfHandles[d]) : cfHandles[d][i] \in Listed
  BY ListedFacts
<1> QED
  BY <1>1, <1>2, IdleFields, OwnReap DEF OwnInv, ListsPaired

LEMMA OwnCreateReturn ==
    ASSUME TypeInv, OwnInv, NEW t \in Threads, CreateReturn(t)
    PROVE  OwnInv'
<1> DEFINE d == frame[t].db
<1>1. d \in DBs /\ frame[t].at = "created"
  BY DEF CreateReturn, TypeInv, FrameOK
<1>2. PICK h \in frame[t].pin : /\ frame[t].raw = {h}
                                /\ family[h].opts = frame[t].fams[1]
                                /\ h \notin Listed
  BY <1>1 DEF OwnInv, CreatedOK
<1>3. h \in Live /\ family[h].db = d /\ h \in Handles
  BY <1>2 DEF OwnInv, PinsLive, Live
<1>4. OthersStay(t) /\ frame'[t] = Idle /\ Reap
  BY LeaveFacts DEF CreateReturn
<1>5. /\ cfHandles'[d] = Append(cfHandles[d], h)
      /\ cfOptions'[d] = Append(cfOptions[d], family[h].opts)
      /\ \A e \in DBs : e # d => cfHandles'[e] = cfHandles[e] /\ cfOptions'[e] = cfOptions[e]
  BY <1>1, <1>2 DEF CreateReturn, TypeInv, TypeOK
<1>6. /\ cfHandles[d] \in Seq(Handles) /\ cfOptions[d] \in Seq(COpts \cup {None})
      /\ Len(cfHandles[d]) = Len(cfOptions[d])
      /\ family[h].opts \in COpts \cup {None}
  BY <1>1, <1>3 DEF TypeInv, TypeOK, Live, Family
<1> DEFINE n == Len(cfHandles[d])
<1>7. /\ Len(cfHandles'[d]) = n + 1 /\ Len(cfOptions'[d]) = n + 1
      /\ cfHandles'[d][n + 1] = h /\ cfOptions'[d][n + 1] = family[h].opts
      /\ \A i \in 1..n : /\ cfHandles'[d][i] = cfHandles[d][i]
                         /\ cfOptions'[d][i] = cfOptions[d][i]
  BY <1>3, <1>5, <1>6
<1>8. \A i \in 1..n : cfHandles[d][i] # h
  BY <1>1, <1>2, ListedFacts
<1>9. TypeInv'
  BY TypeCreateReturn
<1>10. \A e \in DBs : \A i \in 1..Len(cfHandles'[e]) : cfHandles'[e][i] \in Listed'
  BY <1>9 DEF Listed, Range, TypeInv, TypeOK
<1>11. \A g \in Listed' : g \in Listed \/ g = h
  <2>1. ASSUME NEW e \in DBs, NEW i \in 1..Len(cfHandles'[e])
        PROVE  cfHandles'[e][i] \in Listed \/ cfHandles'[e][i] = h
    <3>1. CASE e # d
      BY <1>5, <3>1, ListedFacts
    <3>2. CASE e = d
      <4>1. i \in 1..(n + 1)
        BY <1>7, <3>2
      <4>2. i \in 1..n \/ i = n + 1
        BY <1>6, <4>1
      <4> QED
        BY <1>1, <1>7, <3>2, <4>2, ListedFacts
    <3> QED
      BY <3>1, <3>2
  <2>2. \A g \in Listed' : \E e \in DBs : \E i \in 1..Len(cfHandles'[e]) : cfHandles'[e][i] = g
    BY <1>9 DEF Listed, Range, TypeInv, TypeOK
  <2> QED
    BY <2>1, <2>2
<1>12. ASSUME NEW e \in DBs
       PROVE  /\ Len(cfHandles'[e]) = Len(cfOptions'[e])
              /\ \A i \in 1..Len(cfHandles'[e]) :
                    /\ cfHandles'[e][i] \in Live
                    /\ family[cfHandles'[e][i]].db = e
                    /\ family[cfHandles'[e][i]].opts = cfOptions'[e][i]
              /\ \A i, j \in 1..Len(cfHandles'[e]) :
                    cfHandles'[e][i] = cfHandles'[e][j] => i = j
  <2>1. CASE e # d
    BY <1>5, <2>1 DEF OwnInv, ListsPaired
  <2>2. CASE e = d
    <3>1. /\ n \in Nat
          /\ \A i \in 1..(n + 1) : i \in 1..n \/ i = n + 1
      BY <1>6
    <3>2. \A i \in 1..n : /\ cfHandles[d][i] \in Live
                          /\ family[cfHandles[d][i]].db = d
                          /\ family[cfHandles[d][i]].opts = cfOptions[d][i]
      BY <1>1 DEF OwnInv, ListsPaired
    <3>3. \A i, j \in 1..n : cfHandles[d][i] = cfHandles[d][j] => i = j
      BY <1>1 DEF OwnInv, ListsPaired
    <3> HIDE DEF n
    <3>4. \A i \in 1..(n + 1) : /\ cfHandles'[d][i] \in Live
                                /\ family[cfHandles'[d][i]].db = d
                                /\ family[cfHandles'[d][i]].opts = cfOptions'[d][i]
      BY <1>3, <1>7, <3>1, <3>2
    <3>5. \A i, j \in 1..(n + 1) : cfHandles'[d][i] = cfHandles'[d][j] => i = j
      BY <1>7, <1>8, <3>1, <3>3
    <3> QED
      BY <1>7, <2>2, <3>4, <3>5
  <2> QED
    BY <2>1, <2>2
<1> QED
  BY <1>1, <1>2, <1>4, <1>10, <1>11, <1>12, IdleFields, OwnReap

LEMMA OwnDropReturn ==
    ASSUME TypeInv, OwnInv, NEW t \in Threads, DropReturn(t)
    PROVE  OwnInv'
<1> DEFINE d == frame[t].db
<1>1. d \in DBs /\ frame[t].at = "dropped"
  BY DEF DropReturn, TypeInv, FrameOK
<1>2. PICK k \in DOMAIN cfHandles[d] :
         /\ cfHandles' = [cfHandles EXCEPT ![d] = RemoveAt(@, k)]
         /\ cfOptions' = [cfOptions EXCEPT ![d] = RemoveAt(@, k)]
  BY DEF DropReturn
<1>3. OthersStay(t) /\ frame'[t] = Idle /\ Reap
  BY LeaveFacts DEF DropReturn
<1> DEFINE n == Len(cfHandles[d])
           shift(i) == IF i < k THEN i ELSE i + 1
<1>4. /\ cfHandles[d] \in Seq(Handles) /\ cfOptions[d] \in Seq(COpts \cup {None})
      /\ n = Len(cfOptions[d]) /\ n \in Nat /\ k \in 1..n
  <2>1. /\ cfHandles[d] \in Seq(Handles) /\ cfOptions[d] \in Seq(COpts \cup {None})
        /\ n = Len(cfOptions[d])
    BY <1>1 DEF TypeInv, TypeOK
  <2> QED
    BY <1>2, <2>1
<1>5. /\ cfHandles'[d] = RemoveAt(cfHandles[d], k)
      /\ cfOptions'[d] = RemoveAt(cfOptions[d], k)
      /\ \A e \in DBs : e # d => cfHandles'[e] = cfHandles[e] /\ cfOptions'[e] = cfOptions[e]
  BY <1>1, <1>2 DEF TypeInv, TypeOK
<1>6. /\ Len(cfHandles'[d]) = n - 1 /\ Len(cfOptions'[d]) = n - 1
      /\ \A i \in 1..(n - 1) : /\ cfHandles'[d][i] = cfHandles[d][shift(i)]
                               /\ cfOptions'[d][i] = cfOptions[d][shift(i)]
  <2>1. /\ Len(cfHandles'[d]) = n - 1
        /\ \A i \in 1..(n - 1) : cfHandles'[d][i] = cfHandles[d][shift(i)]
    <3>1. /\ Len(RemoveAt(cfHandles[d], k)) = n - 1
          /\ \A j \in 1..(n - 1) : RemoveAt(cfHandles[d], k)[j] =
                IF j < k THEN cfHandles[d][j] ELSE cfHandles[d][j + 1]
      BY <1>4, RemoveAtProperties
    <3> QED
      BY <1>5, <3>1
  <2>2. /\ Len(cfOptions'[d]) = n - 1
        /\ \A i \in 1..(n - 1) : cfOptions'[d][i] = cfOptions[d][shift(i)]
    <3>1. /\ Len(RemoveAt(cfOptions[d], k)) = n - 1
          /\ \A j \in 1..(n - 1) : RemoveAt(cfOptions[d], k)[j] =
                IF j < k THEN cfOptions[d][j] ELSE cfOptions[d][j + 1]
      <4> DEFINE s == cfOptions[d]
                 S == COpts \cup {None}
      <4>1. s \in Seq(S) /\ Len(s) = n /\ k \in 1..Len(s)
        BY <1>4
      <4> HIDE DEF s, S, n
      <4>2. /\ Len(RemoveAt(s, k)) = Len(s) - 1
            /\ \A j \in 1..(Len(s) - 1) :
                  RemoveAt(s, k)[j] = IF j < k THEN s[j] ELSE s[j + 1]
        BY <4>1, RemoveAtProperties
      <4> QED
        BY <4>1, <4>2 DEF s
    <3> QED
      BY <1>5, <3>1
  <2> QED
    BY <2>1, <2>2
<1>7. /\ \A i \in 1..(n - 1) : shift(i) \in 1..n
      /\ \A i, j \in 1..(n - 1) : shift(i) = shift(j) => i = j
  BY <1>4
<1>8. TypeInv'
  BY TypeDropReturn
<1>9. \A e \in DBs : \A i \in 1..Len(cfHandles'[e]) : cfHandles'[e][i] \in Listed'
  BY <1>8 DEF Listed, Range, TypeInv, TypeOK
<1> HIDE DEF n, shift
<1>10. ASSUME NEW e \in DBs
       PROVE  /\ Len(cfHandles'[e]) = Len(cfOptions'[e])
              /\ \A i \in 1..Len(cfHandles'[e]) :
                    /\ cfHandles'[e][i] \in Live
                    /\ family[cfHandles'[e][i]].db = e
                    /\ family[cfHandles'[e][i]].opts = cfOptions'[e][i]
                    /\ cfHandles'[e][i] \in Listed
              /\ \A i, j \in 1..Len(cfHandles'[e]) :
                    cfHandles'[e][i] = cfHandles'[e][j] => i = j
  <2>1. CASE e # d
    BY <1>5, <2>1, ListedFacts DEF OwnInv, ListsPaired
  <2>2. CASE e = d
    <3>1. \A i \in 1..n : /\ cfHandles[d][i] \in Live
                          /\ family[cfHandles[d][i]].db = d
                          /\ family[cfHandles[d][i]].opts = cfOptions[d][i]
                          /\ cfHandles[d][i] \in Listed
      BY <1>1, ListedFacts DEF OwnInv, ListsPaired, n
    <3>2. \A i, j \in 1..n : cfHandles[d][i] = cfHandles[d][j] => i = j
      BY <1>1 DEF OwnInv, ListsPaired, n
    <3> QED
      BY <1>6, <1>7, <2>2, <3>1, <3>2
  <2> QED
    BY <2>1, <2>2
<1>11. \A g \in Listed' : g \in Listed
  <2>1. \A g \in Listed' : \E e \in DBs : \E i \in 1..Len(cfHandles'[e]) : cfHandles'[e][i] = g
    BY <1>8 DEF Listed, Range, TypeInv, TypeOK
  <2> QED
    BY <1>10, <2>1
<1> QED
  BY <1>3, <1>9, <1>10, <1>11, IdleFields, OwnReap

LEMMA OwnClosing ==
    ASSUME TypeInv, OwnInv, NEW t \in Threads, NEW d \in DBs, Close(t, d) \/ Dealloc(t, d)
    PROVE  OwnInv'
<1>1. CloseBody(d)
  BY DEF Close, Dealloc
<1>2. /\ OthersStay(t) /\ frame'[t].pin = {} /\ frame'[t].at # "created"
  <2>1. CASE Close(t, d)
    BY <2>1, EnterFacts DEF Close, Method
  <2>2. CASE Dealloc(t, d)
    BY <2>2, EnterFacts DEF Dealloc, Method
  <2> QED
    BY <2>1, <2>2
<1>3. /\ cfHandles'[d] = <<>> /\ cfOptions'[d] = <<>>
      /\ \A e \in DBs : e # d => cfHandles'[e] = cfHandles[e] /\ cfOptions'[e] = cfOptions[e]
  BY <1>1 DEF CloseBody, TypeInv, TypeOK
<1>4. /\ \A e \in DBs : e # d => \A i \in 1..Len(cfHandles'[e]) : cfHandles'[e][i] \in Listed'
      /\ \A g \in Listed' : g \in Listed
  <2>1. \A e \in DBs : Range(cfHandles'[e]) \subseteq Range(cfHandles[e])
    BY <1>3 DEF Range
  <2>2. \A e \in DBs : DOMAIN cfHandles[e] = 1..Len(cfHandles[e])
    BY DEF TypeInv, TypeOK
  <2> QED
    BY <1>3, <2>1, <2>2 DEF Listed, Range
<1>5. ASSUME NEW e \in DBs
      PROVE  /\ Len(cfHandles'[e]) = Len(cfOptions'[e])
             /\ \A i \in 1..Len(cfHandles'[e]) :
                   /\ cfHandles'[e][i] \in Live
                   /\ family[cfHandles'[e][i]].db = e
                   /\ family[cfHandles'[e][i]].opts = cfOptions'[e][i]
                   /\ cfHandles'[e][i] \in Listed'
             /\ \A i, j \in 1..Len(cfHandles'[e]) :
                   cfHandles'[e][i] = cfHandles'[e][j] => i = j
  <2>1. CASE e # d
    BY <1>3, <1>4, <2>1 DEF OwnInv, ListsPaired
  <2>2. CASE e = d
    BY <1>3, <2>2
  <2> QED
    BY <2>1, <2>2
<1>6. Reap
  BY <1>1 DEF CloseBody
<1> QED
  BY <1>2, <1>4, <1>5, <1>6, OwnReap

-------------------------------------------------------------------------------
LEMMA OwnInit == Init => OwnInv
BY IdleFields DEF Init, OwnInv, ListsPaired, PinsLive, PinsInCreate, CreatedOK,
                  CreatedApart, Live

LEMMA OwnNext == TypeInv /\ AloneInv /\ OwnInv /\ [Next]_vars => OwnInv'
<1> SUFFICES ASSUME TypeInv, AloneInv, OwnInv, [Next]_vars PROVE OwnInv'
  OBVIOUS
<1>1. ASSUME NEW t \in Threads, Proceed(t) PROVE OwnInv'
  BY <1>1, OwnFrameSteps, OwnOpenDone, OwnCreateInCpp, OwnCreateFailed, OwnCreateReturn,
     OwnDropInCpp, OwnDropReturn DEF Proceed
<1>2. ASSUME NEW t \in Threads, Invoke(t) PROVE OwnInv'
  <2>1. ASSUME NEW o \in Opts, NEW fams \in OpenFamilies, OpenRejected(t, o, fams)
        PROVE  OwnInv'
    BY <2>1 DEF OpenRejected, OwnInv, ListsPaired, PinsLive, PinsInCreate, CreatedOK,
                CreatedApart, Live, Listed, Pinned
  <2> QED
    BY <1>2, <2>1, OwnFrameSteps, OwnCreate, OwnClosing DEF Invoke
<1>3. ASSUME NEW t \in Threads, NEW d \in DBs, Dealloc(t, d) PROVE OwnInv'
  BY <1>3, OwnClosing
<1>4. ASSUME NEW d \in DBs, Forget(d) PROVE OwnInv'
  BY <1>4 DEF Forget, OwnInv, ListsPaired, PinsLive, PinsInCreate, CreatedOK,
              CreatedApart, Live, Listed, Pinned
<1>5. CASE UNCHANGED vars
  BY <1>5 DEF vars, OwnInv, ListsPaired, PinsLive, PinsInCreate, CreatedOK,
              CreatedApart, Live, Listed, Pinned
<1> QED
  BY <1>1, <1>2, <1>3, <1>4, <1>5 DEF Next

\* cf_handles and cf_options stay paired under every interleaving of opens, drops,
\* creations, closes and deallocations, explicit close() included.
THEOREM ListsStayPaired == Spec => []ListsPaired
<1>1. Init => TypeInv /\ AloneInv /\ OwnInv
  BY TypeInit, AloneInit, OwnInit
<1>2. TypeInv /\ AloneInv /\ OwnInv /\ [Next]_vars => (TypeInv /\ AloneInv /\ OwnInv)'
  BY TypeNext, AloneNext, OwnNext
<1>3. OwnInv => ListsPaired
  BY DEF OwnInv
<1> QED
  BY <1>1, <1>2, <1>3, PTL DEF Spec

-------------------------------------------------------------------------------
(* Programs that leave closing to the garbage collector *)

Working == {"create", "created", "drop", "dropped", "call", "release"}

(***************************************************************************)
(* The four properties are not inductive by themselves: that a DB is open  *)
(* while anything refers to it rests on a __dealloc__ being the only       *)
(* method that deletes a database, and on its being there until it has     *)
(* finished.                                                               *)
(***************************************************************************)
FrameRef(t) ==
    /\ frame[t].at # "close"
    /\ frame[t].at \in Working => cpp[frame[t].db] = "open"
    /\ frame[t].at = "dealloc" => cpp[frame[t].db] = "deleting"

DbRef(d) ==
    /\ cpp[d] # "deleted"
    /\ cpp[d] = "deleting" => \E t \in Threads : frame[t].at = "dealloc" /\ frame[t].db = d
    /\ d \in held => cpp[d] = "open"
    /\ cfHandles[d] # <<>> => cpp[d] = "open"

RefInv ==
    /\ \A t \in Threads : FrameRef(t)
    /\ \A d \in DBs : DbRef(d)
    /\ \A k \in Children : child[k] # None => cpp[child[k]] = "open"

LEMMA RefInit == Init => RefInv
BY IdleFields DEF Init, RefInv, FrameRef, DbRef, Working

\* A step that opens, closes and deletes no database: what it adds refers to an
\* open one.
LEMMA RefQuiet ==
    ASSUME TypeInv, RefInv, NEW t \in Threads, OthersStay(t), UNCHANGED cpp,
           frame[t].at # "dealloc",
           \/ frame'[t] = Idle
           \/ frame'[t].at = "open"
           \/ frame'[t].at \in Working /\ cpp[frame'[t].db] = "open",
           held' \subseteq held,
           \A d \in DBs : cfHandles'[d] # <<>> => cfHandles[d] # <<>> \/ cpp[d] = "open",
           \A k \in Children : child'[k] # None =>
               child'[k] = child[k] \/ cpp[child'[k]] = "open"
    PROVE  RefInv'
<1>1. \A u \in Threads : FrameRef(u)'
  BY IdleFields DEF RefInv, FrameRef, Working, OthersStay
<1>2. \A d \in DBs : DbRef(d)'
  <2>1. \A d \in DBs : cpp[d] = "deleting" =>
           \E u \in Threads : frame'[u].at = "dealloc" /\ frame'[u].db = d
    BY DEF RefInv, DbRef, OthersStay
  <2> QED
    BY <2>1 DEF RefInv, DbRef
<1>3. \A k \in Children : child'[k] # None => cpp'[child'[k]] = "open"
  BY DEF RefInv
<1> QED
  BY <1>1, <1>2, <1>3 DEF RefInv

LEMMA RefOpenDone ==
    ASSUME TypeInv, AloneInv, RefInv, NEW t \in Threads, OpenDone(t)
    PROVE  RefInv'
<1> DEFINE d == frame[t].db
<1>1. frame[t].at = "open" /\ d \in DBs
  BY DEF OpenDone, TypeInv, FrameOK
<1>2. OthersStay(t) /\ frame'[t] = Idle
  BY LeaveFacts DEF OpenDone
<1>3. /\ cpp'[d] = "open" /\ child' = child
      /\ held' = held \cup {d}
      /\ \A e \in DBs : e # d => cpp'[e] = cpp[e] /\ cfHandles'[e] = cfHandles[e]
  BY <1>1 DEF OpenDone, TypeInv, TypeOK
<1>4. \A u \in Threads : u # t => frame[u].db # d
  BY <1>1 DEF AloneInv
<1>5. \A u \in Threads : frame[u].at # "idle" => frame[u].db \in DBs
  BY DEF TypeInv, FrameOK
<1>6. \A u \in Threads : FrameRef(u)'
  BY <1>2, <1>3, <1>4, <1>5, IdleFields DEF RefInv, FrameRef, Working, OthersStay
<1>7. \A e \in DBs : DbRef(e)'
  <2>1. \A e \in DBs : e # d /\ cpp[e] = "deleting" =>
           \E u \in Threads : frame'[u].at = "dealloc" /\ frame'[u].db = e
    BY <1>1, <1>2 DEF RefInv, DbRef, OthersStay
  <2> QED
    BY <1>3, <2>1 DEF RefInv, DbRef
<1>8. \A k \in Children : child'[k] # None => cpp'[child'[k]] = "open"
  BY <1>3 DEF RefInv, TypeInv, TypeOK
<1> QED
  BY <1>3, <1>6, <1>7, <1>8 DEF RefInv

LEMMA RefCloseReturn ==
    ASSUME TypeInv, AloneInv, RefInv, NEW t \in Threads, CloseReturn(t)
    PROVE  RefInv'
<1> DEFINE d == frame[t].db
<1>1. frame[t].at = "dealloc" /\ d \in DBs
  BY DEF CloseReturn, RefInv, FrameRef, TypeInv, FrameOK
<1>2. OthersStay(t) /\ frame'[t] = Idle
  BY LeaveFacts DEF CloseReturn
<1>3. /\ cpp'[d] = "null" /\ UNCHANGED <<child, held, cfHandles>>
      /\ \A e \in DBs : e # d => cpp'[e] = cpp[e]
  BY <1>1 DEF CloseReturn, TypeInv, TypeOK
<1>4. Unreferred(d) /\ \A u \in Threads : u # t => frame[u].db # d
  BY <1>1 DEF AloneInv
<1>5. \A u \in Threads : frame[u].at # "idle" => frame[u].db \in DBs
  BY DEF TypeInv, FrameOK
<1>6. \A u \in Threads : FrameRef(u)'
  BY <1>2, <1>3, <1>4, <1>5, IdleFields DEF RefInv, FrameRef, Working, OthersStay
<1>7. \A e \in DBs : DbRef(e)'
  <2>1. \A e \in DBs : e # d /\ cpp[e] = "deleting" =>
           \E u \in Threads : frame'[u].at = "dealloc" /\ frame'[u].db = e
    BY <1>2 DEF RefInv, DbRef, OthersStay
  <2> QED
    BY <1>3, <1>4, <2>1 DEF RefInv, DbRef, Unreferred
<1>8. \A k \in Children : child'[k] # None => cpp'[child'[k]] = "open"
  BY <1>3, <1>4 DEF RefInv, Unreferred, TypeInv, TypeOK
<1> QED
  BY <1>3, <1>6, <1>7, <1>8 DEF RefInv

\* Nothing refers to the DB, so no __dealloc__ of it has begun: it is open, and
\* is deleted for the first time.
LEMMA RefDealloc ==
    ASSUME TypeInv, AloneInv, RefInv, NEW t \in Threads, NEW d \in DBs, Dealloc(t, d)
    PROVE  RefInv'
<1> DEFINE f == Method("dealloc", d, None, <<>>, {}, {}, None)
<1>1. f.at = "dealloc" /\ f.db = d
  BY DEF Method
<1> HIDE DEF f
<1>2. OthersStay(t) /\ frame'[t] = f /\ frame[t] = Idle
  BY EnterFacts DEF Dealloc, f
<1>3. /\ d \notin held /\ \A k \in Children : child[k] # d
      /\ \A u \in Threads : frame[u].db # d
  BY DEF Dealloc, Referenced, ChildrenOf, FramesOf
<1>4. cpp[d] = "open"
  BY <1>3 DEF Dealloc, RefInv, DbRef, TypeInv, TypeOK
<1>5. /\ cpp'[d] = "deleting" /\ cfHandles'[d] = <<>> /\ UNCHANGED <<child, held>>
      /\ \A e \in DBs : e # d => cpp'[e] = cpp[e] /\ cfHandles'[e] = cfHandles[e]
  BY <1>4 DEF Dealloc, CloseBody, TypeInv, TypeOK
<1>6. \A u \in Threads : FrameRef(u)'
  <2>1. \A u \in Threads : frame[u].at # "idle" => frame[u].db \in DBs
    BY DEF TypeInv, FrameOK
  <2> QED
    BY <1>1, <1>2, <1>3, <1>5, <2>1 DEF RefInv, FrameRef, Working, OthersStay
<1>7. \A e \in DBs : DbRef(e)'
  <2>1. \A e \in DBs : cpp'[e] = "deleting" =>
           \E u \in Threads : frame'[u].at = "dealloc" /\ frame'[u].db = e
    BY <1>1, <1>2, <1>5, IdleFields DEF RefInv, DbRef, OthersStay
  <2> QED
    BY <1>3, <1>5, <2>1 DEF RefInv, DbRef
<1>8. \A k \in Children : child'[k] # None => cpp'[child'[k]] = "open"
  BY <1>3, <1>5 DEF RefInv, TypeInv, TypeOK
<1> QED
  BY <1>5, <1>6, <1>7, <1>8 DEF RefInv

\* The steps of a running method that delete nothing.
LEMMA RefProceed ==
    ASSUME TypeInv, RefInv, NEW t \in Threads, Proceed(t), ~OpenDone(t), ~CloseReturn(t)
    PROVE  RefInv'
<1> DEFINE d == frame[t].db
<1>1. CASE OpenFailed(t)
  BY <1>1, LeaveFacts, RefQuiet DEF OpenFailed
<1>2. CASE CreateInCpp(t) \/ DropInCpp(t)
  <2>1. /\ frame'[t].db = d /\ frame'[t].at \in {"created", "dropped"}
        /\ OthersStay(t) /\ frame[t].at \in {"create", "drop"}
    <3>1. CASE CreateInCpp(t)
      BY <3>1 DEF CreateInCpp, Method, OthersStay, TypeInv, TypeOK
    <3>2. CASE DropInCpp(t)
      BY <3>2 DEF DropInCpp, Method, OthersStay, TypeInv, TypeOK
    <3> QED
      BY <1>2, <3>1, <3>2
  <2>2. UNCHANGED <<cpp, cfHandles, held, child>>
    BY <1>2 DEF CreateInCpp, DropInCpp
  <2>3. cpp[d] = "open"
    BY <2>1 DEF RefInv, FrameRef, Working
  <2> QED
    BY <2>1, <2>2, <2>3, RefQuiet DEF Working
<1>3. CASE \/ CreateFailed(t) \/ CreateReturn(t) \/ DropFailed(t) \/ DropReturn(t)
           \/ DropUnlisted(t) \/ Return(t) \/ (\E k \in Children : ReturnChild(t, k))
           \/ Released(t)
  <2>1. frame[t].at \in Working /\ Leave(t) /\ UNCHANGED <<cpp, held>>
    BY <1>3 DEF CreateFailed, CreateReturn, DropFailed, DropReturn, DropUnlisted, Return,
                ReturnChild, Released, Working
  <2>2. d \in DBs /\ cpp[d] = "open"
    BY <2>1 DEF RefInv, FrameRef, TypeInv, FrameOK, Working
  <2>3. \A e \in DBs : e # d => cfHandles'[e] = cfHandles[e]
    BY <1>3 DEF CreateFailed, CreateReturn, DropFailed, DropReturn, DropUnlisted, Return,
                ReturnChild, Released, TypeInv, TypeOK
  <2>4. \A k \in Children : child'[k] \in {child[k], d, None}
    BY <1>3 DEF CreateFailed, CreateReturn, DropFailed, DropReturn, DropUnlisted, Return,
                ReturnChild, Released, TypeInv, TypeOK
  <2>5. frame[t].at # "dealloc"
    BY <2>1 DEF Working
  <2>6. OthersStay(t) /\ frame'[t] = Idle
    BY <2>1, LeaveFacts
  <2>7. \A e \in DBs : cfHandles'[e] # <<>> => cfHandles[e] # <<>> \/ cpp[e] = "open"
    BY <2>2, <2>3
  <2>8. \A k \in Children : child'[k] # None =>
           child'[k] = child[k] \/ cpp[child'[k]] = "open"
    BY <2>2, <2>4
  <2> QED
    BY <2>1, <2>5, <2>6, <2>7, <2>8, RefQuiet
<1> QED
  BY <1>1, <1>2, <1>3 DEF Proceed

\* The steps that enter a method, the explicit close() excepted.
LEMMA RefInvoke ==
    ASSUME TypeInv, RefInv, NEW t \in Threads, Invoke(t), "close" \notin Liberties
    PROVE  RefInv'
<1>1. ASSUME NEW d \in DBs, NEW o \in Opts, NEW fams \in OpenFamilies, Open(t, d, o, fams)
      PROVE  RefInv'
  <2>1. OthersStay(t) /\ frame'[t].at = "open" /\ frame[t] = Idle
    BY <1>1, EnterFacts DEF Open, Method
  <2>2. UNCHANGED <<cpp, cfHandles, held, child>>
    BY <1>1 DEF Open
  <2> QED
    BY <2>1, <2>2, IdleFields, RefQuiet
<1>2. ASSUME NEW o \in Opts, NEW fams \in OpenFamilies, OpenRejected(t, o, fams)
      PROVE  RefInv'
  BY <1>2 DEF OpenRejected, RefInv, FrameRef, DbRef
<1>3. ASSUME NEW d \in DBs,
             \/ \E c \in COpts : Create(t, d, c)
             \/ \E h \in Handles : Drop(t, d, h)
             \/ \E hs \in SUBSET Handles : Call(t, d, hs)
             \/ \E k \in Children : child[k] = d /\ (UseChild(t, k) \/ Release(t, k))
      PROVE  RefInv'
  <2>1. cpp[d] = "open"
    <3>1. d # None
      BY IdleFields
    <3> QED
      BY <1>3, <3>1 DEF Create, Drop, Call, RefInv, DbRef
  <2>2. /\ frame'[t].db = d /\ frame'[t].at \in Working
        /\ OthersStay(t) /\ frame[t] = Idle
    <3>1. ASSUME NEW c \in COpts, Create(t, d, c) PROVE <2>2!:
      BY <3>1, EnterFacts DEF Create, Method, Working
    <3>2. ASSUME NEW h \in Handles, Drop(t, d, h) PROVE <2>2!:
      BY <3>2, EnterFacts DEF Drop, Method, Working
    <3>3. ASSUME NEW hs \in SUBSET Handles, Call(t, d, hs) PROVE <2>2!:
      BY <3>3, EnterFacts DEF Call, Method, Working
    <3>4. ASSUME NEW k \in Children, child[k] = d, UseChild(t, k) \/ Release(t, k)
          PROVE  <2>2!:
      BY <3>4, EnterFacts DEF UseChild, Release, Method, Working
    <3> QED
      BY <1>3, <3>1, <3>2, <3>3, <3>4
  <2>3. UNCHANGED <<cpp, cfHandles, held, child>>
    BY <1>3 DEF Create, Drop, Call, UseChild, Release
  <2> QED
    BY <2>1, <2>2, <2>3, IdleFields, RefQuiet
<1>4. \A k \in Children : child[k] # None => child[k] \in DBs
  BY DEF TypeInv, TypeOK
<1> QED
  BY <1>1, <1>2, <1>3, <1>4 DEF Invoke, UseChild, Release, Close

LEMMA RefNext ==
    ASSUME "close" \notin Liberties
    PROVE  TypeInv /\ AloneInv /\ RefInv /\ [Next]_vars => RefInv'
<1> SUFFICES ASSUME TypeInv, AloneInv, RefInv, [Next]_vars PROVE RefInv'
  OBVIOUS
<1>1. ASSUME NEW d \in DBs, Forget(d) PROVE RefInv'
  BY <1>1 DEF Forget, RefInv, FrameRef, DbRef
<1>2. CASE UNCHANGED vars
  BY <1>2 DEF vars, RefInv, FrameRef, DbRef
<1> QED
  BY <1>1, <1>2, RefProceed, RefOpenDone, RefCloseReturn, RefInvoke, RefDealloc DEF Next

\* A live C++ handle is listed or pinned, and a DB with either is open.
LEMMA RefHandles ==
    ASSUME TypeInv, OwnInv, RefInv
    PROVE  HandlesBeforeDb
<1> SUFFICES ASSUME NEW h \in Live PROVE cpp[family[h].db] = "open"
  BY DEF HandlesBeforeDb
<1>1. CASE h \in Listed
  <2>1. PICK d \in DBs : \E i \in 1..Len(cfHandles[d]) : cfHandles[d][i] = h
    BY <1>1, ListedFacts
  <2>2. family[h].db = d /\ cfHandles[d] # <<>>
    BY <2>1 DEF OwnInv, ListsPaired
  <2> QED
    BY <2>2 DEF RefInv, DbRef
<1>2. CASE h \in Pinned
  <2>1. PICK t \in Threads : h \in frame[t].pin
    BY <1>2, PinnedFacts
  <2>2. family[h].db = frame[t].db /\ frame[t].at \in Working
    BY <2>1 DEF OwnInv, PinsLive, PinsInCreate, Working
  <2> QED
    BY <2>2 DEF RefInv, FrameRef
<1> QED
  BY <1>1, <1>2 DEF OwnInv

LEMMA RefAlways ==
    ASSUME "close" \notin Liberties
    PROVE  Spec => [](TypeInv /\ AloneInv /\ OwnInv /\ RefInv)
<1>1. Init => TypeInv /\ AloneInv /\ OwnInv /\ RefInv
  BY TypeInit, AloneInit, OwnInit, RefInit
<1>2. TypeInv /\ AloneInv /\ OwnInv /\ RefInv /\ [Next]_vars
          => (TypeInv /\ AloneInv /\ OwnInv /\ RefInv)'
  BY TypeNext, AloneNext, OwnNext, RefNext
<1> QED
  BY <1>1, <1>2, PTL DEF Spec

(***************************************************************************)
(* When the program never calls close() itself, the reference counts alone *)
(* see to it that calls, column family handles, iterators and snapshots    *)
(* never outlive their database, and that no database is deleted twice:    *)
(* even in a program that shares Options, races drops against calls and    *)
(* mixes up the handles of two DBs.                                        *)
(***************************************************************************)

\* No call runs in a C++ database that is closed: each has a reference to the DB
\* object, whose __dealloc__ is all that closes it.
THEOREM CallsEndBeforeDb ==
    ASSUME "close" \notin Liberties
    PROVE  Spec => []DbLiveInCalls
<1>1. RefInv => DbLiveInCalls
  BY DEF DbLiveInCalls, RefInv, FrameRef, Working
<1> QED
  BY <1>1, RefAlways, PTL

\* No C++ handle is alive when its database is deleted: DB.close() resets the list
\* before, and whoever holds another wrapper holds the DB too.
THEOREM HandlesEndBeforeDb ==
    ASSUME "close" \notin Liberties
    PROVE  Spec => []HandlesBeforeDb
<1>1. TypeInv /\ OwnInv /\ RefInv => HandlesBeforeDb
  BY RefHandles
<1> QED
  BY <1>1, RefAlways, PTL

\* Iterators and snapshots hold the DB they are of.
THEOREM ChildrenEndBeforeDb ==
    ASSUME "close" \notin Liberties
    PROVE  Spec => []ChildrenBeforeDb
<1>1. RefInv => ChildrenBeforeDb
  BY DEF ChildrenBeforeDb, RefInv
<1> QED
  BY <1>1, RefAlways, PTL

-------------------------------------------------------------------------------
(* Handles in calls *)

(***************************************************************************)
(* HandlesLiveInCalls is not inductive: that a handle outlives the calls   *)
(* that use it rests on its staying in its DB's list, and that on the only *)
(* method which takes one handle off the list having it to itself.         *)
(***************************************************************************)
Uses(t, h) == frame[t].at \in {"drop", "dropped", "call"} /\ h \in frame[t].raw

Drops(t, h) == frame[t].at \in {"drop", "dropped"} /\ h \in frame[t].raw

Lists(d, h) == \E i \in 1..Len(cfHandles[d]) : cfHandles[d][i] = h

HandInv ==
    /\ \A t \in Threads : \A h : Uses(t, h) => Lists(frame[t].db, h)
    /\ \A t, u \in Threads : \A h : Drops(t, h) /\ Uses(u, h) => t = u

LEMMA HandInit == Init => HandInv
BY IdleFields DEF Init, HandInv, Uses, Drops

\* A step after which every call uses what it used before and finds it listed.
LEMMA HandQuiet ==
    ASSUME HandInv,
           \A t \in Threads : \A h :
              /\ Uses(t, h)' => Uses(t, h)
              /\ Drops(t, h)' => Drops(t, h)
              /\ Uses(t, h)' /\ Lists(frame[t].db, h) => Lists(frame[t].db, h)'
    PROVE  HandInv'
BY DEF HandInv

\* A method that uses the handles raw begins.
LEMMA HandEnter ==
    ASSUME HandInv, UNCHANGED cfHandles, NEW t \in Threads, NEW d, NEW raw,
           OthersStay(t), frame[t].at = "idle", frame'[t].db = d, frame'[t].raw = raw,
           \A h \in raw : Lists(d, h),
           \A u \in Threads : \A h \in raw : ~Drops(u, h),
           frame'[t].at \in {"drop", "dropped"} => \A u \in Threads : \A h \in raw : ~Uses(u, h)
    PROVE  HandInv'
<1>1. \A e, h : Lists(e, h)' <=> Lists(e, h)
  BY DEF Lists
<1>2. \A u \in Threads : \A h : u # t => /\ Uses(u, h)' <=> Uses(u, h)
                                         /\ Drops(u, h)' <=> Drops(u, h)
  BY DEF Uses, Drops, OthersStay
<1>3. \A h : /\ Uses(t, h)' => h \in raw
             /\ Drops(t, h)' => h \in raw /\ frame'[t].at \in {"drop", "dropped"}
  BY DEF Uses, Drops
<1>4. ASSUME NEW u \in Threads, NEW h, Uses(u, h)' PROVE Lists(frame[u].db, h)'
  <2>1. CASE u = t
    <3>1. \E i \in 1..Len(cfHandles[d]) : cfHandles[d][i] = h
      BY <1>3, <1>4, <2>1 DEF Lists
    <3> QED
      BY <2>1, <3>1 DEF Lists
  <2>2. CASE u # t
    BY <1>2, <1>4, <2>2 DEF HandInv, Lists, OthersStay
  <2> QED
    BY <2>1, <2>2
<1>5. ASSUME NEW u \in Threads, NEW v \in Threads, NEW h, Drops(u, h)', Uses(v, h)'
      PROVE  u = v
  BY <1>2, <1>3, <1>5 DEF HandInv
<1> QED
  BY <1>4, <1>5 DEF HandInv

\* A listed handle is listed by the DB it was opened or created in.
LEMMA HandHome ==
    ASSUME TypeInv, OwnInv, NEW h \in Listed
    PROVE  Lists(family[h].db, h)
<1>1. PICK d \in DBs : \E i \in 1..Len(cfHandles[d]) : cfHandles[d][i] = h
  BY ListedFacts
<1>2. family[h].db = d
  BY <1>1 DEF OwnInv, ListsPaired
<1> QED
  BY <1>1, <1>2 DEF Lists

LEMMA HandDrop ==
    ASSUME {"race", "foreign"} \cap Liberties = {}, TypeInv, OwnInv, HandInv, NEW t \in Threads,
           NEW d \in DBs, NEW h \in Handles, Drop(t, d, h)
    PROVE  HandInv'
<1>1. OthersStay(t) /\ frame[t] = Idle /\ frame'[t].db = d /\ frame'[t].raw = {h}
  BY EnterFacts DEF Drop, Method
<1>2. /\ h \in Listed /\ family[h].db = d /\ UNCHANGED cfHandles
      /\ \A u \in Threads : h \notin frame[u].raw
  BY DEF Drop
<1>3. Lists(d, h)
  BY <1>2, HandHome
<1>4. \A u \in Threads : ~Drops(u, h) /\ ~Uses(u, h)
  BY <1>2 DEF Drops, Uses
<1> QED
  BY <1>1, <1>2, <1>3, <1>4, IdleFields, HandEnter

LEMMA HandCall ==
    ASSUME {"race", "foreign"} \cap Liberties = {}, TypeInv, OwnInv, HandInv,
           NEW t \in Threads, NEW d \in DBs, NEW hs \in SUBSET Handles, Call(t, d, hs)
    PROVE  HandInv'
<1>1. /\ OthersStay(t) /\ frame[t] = Idle
      /\ frame'[t].db = d /\ frame'[t].raw = hs /\ frame'[t].at = "call"
  BY EnterFacts DEF Call, Method
<1>2. UNCHANGED cfHandles /\ \A h \in hs : family[h].db = d /\ ~Retired(h)
  BY DEF Call, Usable
<1>3. \A h \in hs : Lists(d, h)
  BY <1>2, HandHome DEF Retired
<1>4. \A u \in Threads : \A h \in hs : ~Drops(u, h)
  BY <1>2 DEF Retired, Drops
<1> QED
  BY <1>1, <1>2, <1>3, <1>4, IdleFields, HandEnter

LEMMA HandUseChild ==
    ASSUME TypeInv, HandInv, NEW t \in Threads, NEW k \in Children,
           UseChild(t, k) \/ Release(t, k)
    PROVE  HandInv'
<1>1. OthersStay(t) /\ frame[t] = Idle /\ frame'[t].raw = {}
  BY EnterFacts DEF UseChild, Release, Method
<1>2. UNCHANGED cfHandles
  BY DEF UseChild, Release
<1> QED
  BY <1>1, <1>2, IdleFields, HandEnter

\* What is taken off the list is used by nobody else.
LEMMA HandDropReturn ==
    ASSUME TypeInv, HandInv, NEW t \in Threads, DropReturn(t)
    PROVE  HandInv'
<1>1. PICK d \in DBs : d = frame[t].db
  BY DEF DropReturn, TypeInv, FrameOK
<1>2. PICK k \in DOMAIN cfHandles[d] :
         /\ cfHandles[d][k] \in frame[t].raw
         /\ cfHandles' = [cfHandles EXCEPT ![d] = RemoveAt(@, k)]
  BY <1>1 DEF DropReturn
<1>3. OthersStay(t) /\ frame'[t] = Idle /\ frame[t].at = "dropped"
  BY LeaveFacts DEF DropReturn
<1>4. PICK old \in Seq(Handles), n \in Nat :
         old = cfHandles[d] /\ n = Len(old) /\ k \in 1..n
  <2>1. cfHandles[d] \in Seq(Handles)
    BY DEF TypeInv, TypeOK
  <2> QED
    BY <1>2, <2>1
<1>5. /\ cfHandles'[d] = RemoveAt(old, k)
      /\ \A e : e # d => cfHandles'[e] = cfHandles[e]
  BY <1>2, <1>4 DEF TypeInv, TypeOK
<1>6. /\ Len(RemoveAt(old, k)) = n - 1
      /\ \A j \in 1..(n - 1) : RemoveAt(old, k)[j] = IF j < k THEN old[j] ELSE old[j + 1]
  BY <1>4, RemoveAtProperties
<1>7. ASSUME NEW h, Lists(d, h), h # old[k]
      PROVE  \E j \in 1..Len(cfHandles'[d]) : cfHandles'[d][j] = h
  <2>1. PICK i \in 1..n : old[i] = h
    BY <1>4, <1>7 DEF Lists
  <2>2. CASE i < k
    <3>1. i \in 1..(n - 1) /\ RemoveAt(old, k)[i] = h
      BY <1>4, <1>6, <2>1, <2>2
    <3> QED
      BY <1>5, <1>6, <3>1
  <2>3. CASE i > k
    <3>1. i - 1 \in 1..(n - 1) /\ RemoveAt(old, k)[i - 1] = h
      BY <1>4, <1>6, <2>1, <2>3
    <3> QED
      BY <1>5, <1>6, <3>1
  <2> QED
    BY <1>4, <1>7, <2>1, <2>2, <2>3
<1>8. ASSUME NEW u \in Threads, NEW h, Uses(u, h)', Lists(frame[u].db, h)
      PROVE  Lists(frame[u].db, h)'
  <2>1. u # t /\ frame'[u] = frame[u]
    BY <1>3, <1>8, IdleFields DEF Uses, OthersStay
  <2>2. Drops(t, old[k]) /\ Uses(u, h)
    BY <1>2, <1>3, <1>4, <1>8, <2>1 DEF Drops, Uses
  <2>3. h # old[k]
    BY <2>1, <2>2 DEF HandInv
  <2>4. CASE frame[u].db = d
    BY <1>7, <1>8, <2>1, <2>3, <2>4 DEF Lists
  <2>5. CASE frame[u].db # d
    BY <1>5, <1>8, <2>1, <2>5 DEF Lists
  <2> QED
    BY <2>4, <2>5
<1>9. \A u \in Threads : \A h : (Uses(u, h)' => Uses(u, h)) /\ (Drops(u, h)' => Drops(u, h))
  BY <1>3, IdleFields DEF Uses, Drops, OthersStay
<1> QED
  BY <1>8, <1>9, HandQuiet

\* The steps that change a list and let its handles be.
LEMMA HandGrow ==
    ASSUME TypeInv, AloneInv, HandInv, NEW t \in Threads, OpenDone(t) \/ CreateReturn(t)
    PROVE  HandInv'
<1>1. PICK d \in DBs : d = frame[t].db
  BY DEF OpenDone, CreateReturn, TypeInv, FrameOK
<1>2. OthersStay(t) /\ frame'[t] = Idle
  BY LeaveFacts DEF OpenDone, CreateReturn
<1>3. \A e \in DBs : e # d => cfHandles'[e] = cfHandles[e]
  BY <1>1 DEF OpenDone, CreateReturn, TypeInv, TypeOK
<1>4. ASSUME NEW u \in Threads, NEW h, u # t, frame[u].db = d, Lists(d, h)
      PROVE  \E i \in 1..Len(cfHandles'[d]) : cfHandles'[d][i] = h
  <2>1. ~OpenDone(t)
    BY <1>1, <1>4 DEF OpenDone, AloneInv
  <2>2. PICK g \in frame[t].raw : cfHandles' = [cfHandles EXCEPT ![d] = Append(@, g)]
    BY <1>1, <2>1 DEF CreateReturn
  <2>3. cfHandles'[d] = Append(cfHandles[d], g)
    BY <2>2 DEF TypeInv, TypeOK
  <2>4. cfHandles[d] \in Seq(Handles)
    BY DEF TypeInv, TypeOK
  <2>5. PICK i \in 1..Len(cfHandles[d]) : cfHandles[d][i] = h
    BY <1>4 DEF Lists
  <2>6. i \in 1..Len(cfHandles'[d]) /\ cfHandles'[d][i] = h
    BY <2>3, <2>4, <2>5
  <2> QED
    BY <2>6
<1>5. ASSUME NEW u \in Threads, NEW h, Uses(u, h)', Lists(frame[u].db, h)
      PROVE  Lists(frame[u].db, h)'
  <2>1. u # t /\ frame'[u] = frame[u]
    BY <1>2, <1>5, IdleFields DEF Uses, OthersStay
  <2>2. CASE frame[u].db = d
    BY <1>4, <1>5, <2>1, <2>2 DEF Lists
  <2>3. CASE frame[u].db # d
    <3>1. frame[u].db \in DBs
      BY <1>5, <2>1 DEF Uses, TypeInv, FrameOK
    <3> QED
      BY <1>3, <1>5, <2>1, <2>3, <3>1 DEF Lists
  <2> QED
    BY <2>2, <2>3
<1>6. \A u \in Threads : \A h : (Uses(u, h)' => Uses(u, h)) /\ (Drops(u, h)' => Drops(u, h))
  BY <1>2, IdleFields DEF Uses, Drops, OthersStay
<1> QED
  BY <1>5, <1>6, HandQuiet

\* Nothing uses a DB whose __dealloc__ begins.
LEMMA HandDealloc ==
    ASSUME TypeInv, HandInv, NEW t \in Threads, NEW d \in DBs, Dealloc(t, d)
    PROVE  HandInv'
<1>1. OthersStay(t) /\ frame'[t].at = "dealloc" /\ frame'[t].raw = {}
  BY EnterFacts DEF Dealloc, Method
<1>2. \A u \in Threads : frame[u].db # d
  BY DEF Dealloc, Referenced, FramesOf
<1>3. \A e : e # d => cfHandles'[e] = cfHandles[e]
  BY DEF Dealloc, CloseBody, TypeInv, TypeOK
<1>4. \A u \in Threads : \A h : (Uses(u, h)' => Uses(u, h)) /\ (Drops(u, h)' => Drops(u, h))
  BY <1>1 DEF Uses, Drops, OthersStay
<1>5. ASSUME NEW u \in Threads, NEW h, Uses(u, h)', Lists(frame[u].db, h)
      PROVE  Lists(frame[u].db, h)'
  <2>1. u # t /\ frame'[u] = frame[u]
    BY <1>1, <1>5 DEF Uses, OthersStay
  <2> QED
    BY <1>2, <1>3, <1>5, <2>1 DEF Lists
<1> QED
  BY <1>4, <1>5, HandQuiet

\* The steps that let the lists be and in which no method begins to use a handle.
LEMMA HandFrame ==
    ASSUME HandInv, UNCHANGED cfHandles, NEW t \in Threads, OthersStay(t),
           \/ frame'[t].at \notin {"drop", "dropped", "call"}
           \/ /\ frame[t].at = "drop" /\ frame'[t].at = "dropped"
              /\ frame'[t].raw = frame[t].raw /\ frame'[t].db = frame[t].db
    PROVE  HandInv'
<1>1. \A u \in Threads : \A h : (Uses(u, h)' => Uses(u, h)) /\ (Drops(u, h)' => Drops(u, h))
  BY DEF Uses, Drops, OthersStay
<1>2. \A u \in Threads : \A h : Uses(u, h)' => frame'[u].db = frame[u].db
  BY DEF Uses, OthersStay
<1>3. \A u \in Threads : \A h :
         Uses(u, h)' /\ Lists(frame[u].db, h) => Lists(frame[u].db, h)'
  BY <1>2 DEF Lists
<1> QED
  BY <1>1, <1>3, HandQuiet

LEMMA HandProceed ==
    ASSUME TypeInv, AloneInv, HandInv, NEW t \in Threads, Proceed(t)
    PROVE  HandInv'
<1>1. CASE CreateInCpp(t)
  <2>1. OthersStay(t) /\ frame'[t].at = "created" /\ UNCHANGED cfHandles
    BY <1>1 DEF CreateInCpp, Method, OthersStay, TypeInv, TypeOK
  <2> QED
    BY <2>1, HandFrame
<1>2. CASE DropInCpp(t)
  <2>1. /\ OthersStay(t) /\ UNCHANGED cfHandles
        /\ frame[t].at = "drop" /\ frame'[t].at = "dropped"
        /\ frame'[t].raw = frame[t].raw /\ frame'[t].db = frame[t].db
    BY <1>2 DEF DropInCpp, Method, OthersStay, TypeInv, TypeOK
  <2> QED
    BY <2>1, HandFrame
<1>3. CASE \/ OpenFailed(t) \/ CreateFailed(t) \/ DropFailed(t) \/ DropUnlisted(t)
           \/ Return(t) \/ Released(t) \/ CloseReturn(t)
           \/ \E k \in Children : ReturnChild(t, k)
  <2>1. Leave(t) /\ UNCHANGED cfHandles
    BY <1>3 DEF OpenFailed, CreateFailed, DropFailed, DropUnlisted, Return, Released,
                CloseReturn, ReturnChild
  <2>2. OthersStay(t) /\ frame'[t].at = "idle"
    BY <2>1, LeaveFacts, IdleFields
  <2> QED
    BY <2>1, <2>2, HandFrame
<1> QED
  BY <1>1, <1>2, <1>3, HandGrow, HandDropReturn DEF Proceed

LEMMA HandInvoke ==
    ASSUME {"race", "foreign", "close"} \cap Liberties = {}, TypeInv, OwnInv, HandInv,
           NEW t \in Threads, Invoke(t)
    PROVE  HandInv'
<1>1. ASSUME NEW d \in DBs,
             \/ \E o \in Opts, fams \in OpenFamilies : Open(t, d, o, fams)
             \/ \E c \in COpts : Create(t, d, c)
      PROVE  HandInv'
  <2>1. OthersStay(t) /\ frame'[t].at \in {"open", "create"}
    <3>1. ASSUME NEW o \in Opts, NEW fams \in OpenFamilies, Open(t, d, o, fams) PROVE <2>1!:
      BY <3>1, EnterFacts DEF Open, Method
    <3>2. ASSUME NEW c \in COpts, Create(t, d, c) PROVE <2>1!:
      BY <3>2, EnterFacts DEF Create, Method
    <3> QED
      BY <1>1, <3>1, <3>2
  <2>2. UNCHANGED cfHandles
    BY <1>1 DEF Open, Create
  <2> QED
    BY <2>1, <2>2, HandFrame
<1>2. ASSUME NEW o \in Opts, NEW fams \in OpenFamilies, OpenRejected(t, o, fams)
      PROVE  HandInv'
  BY <1>2 DEF OpenRejected, HandInv, Uses, Drops, Lists
<1>3. \A d \in DBs : ~Close(t, d)
  BY DEF Close
<1> QED
  BY <1>1, <1>2, <1>3, HandDrop, HandCall, HandUseChild DEF Invoke

LEMMA HandNext ==
    ASSUME {"race", "foreign", "close"} \cap Liberties = {}
    PROVE  TypeInv /\ AloneInv /\ OwnInv /\ HandInv /\ [Next]_vars => HandInv'
<1> SUFFICES ASSUME TypeInv, AloneInv, OwnInv, HandInv, [Next]_vars PROVE HandInv'
  OBVIOUS
<1>1. CASE UNCHANGED <<cfHandles, frame>>
  BY <1>1 DEF HandInv, Uses, Drops, Lists
<1>2. (\E d \in DBs : Forget(d)) \/ UNCHANGED vars => UNCHANGED <<cfHandles, frame>>
  BY DEF Forget, vars
<1> QED
  BY <1>1, <1>2, HandProceed, HandInvoke, HandDealloc DEF Next

\* The C++ handles a call took from get_handle() are not deleted before it is over,
\* although it keeps no reference to their wrappers: the lists do, in a program
\* that neither drops a family another call uses, nor passes a DB the handle of
\* another, nor calls close().
THEOREM HandlesOutliveCalls ==
    ASSUME {"race", "foreign", "close"} \cap Liberties = {}
    PROVE  Spec => []HandlesLiveInCalls
<1> DEFINE Inv == TypeInv /\ AloneInv /\ OwnInv /\ HandInv
<1>1. Init => Inv
  BY TypeInit, AloneInit, OwnInit, HandInit
<1>2. Inv /\ [Next]_vars => Inv'
  BY TypeNext, AloneNext, OwnNext, HandNext
<1>3. Inv => HandlesLiveInCalls
  <2> SUFFICES ASSUME Inv, NEW t \in Threads, NEW h \in frame[t].raw,
                      frame[t].at \in {"drop", "call"}
               PROVE  h \in Live
    BY DEF HandlesLiveInCalls
  <2>1. frame[t].db \in DBs
    BY DEF TypeInv, FrameOK
  <2>2. PICK i \in 1..Len(cfHandles[frame[t].db]) : cfHandles[frame[t].db][i] = h
    BY DEF HandInv, Uses, Lists
  <2> QED
    BY <2>1, <2>2 DEF OwnInv, ListsPaired
<1> QED
  BY <1>1, <1>2, <1>3, PTL DEF Spec

===============================================================================
