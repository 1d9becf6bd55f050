------------------------ MODULE Distribution_proofs ------------------------
(***************************************************************************)
(* Proofs about the two ways in which a signal reaches its subscribers: the *)
(* jobs of Distribution, for any number of signals, subscribers and         *)
(* consumers, any delays and any batch limit; and the broadcasts of         *)
(* Delivery, for any messages, clients, filters and limits.                 *)
(*                                                                         *)
(* Two facts carry the jobs.  A job is in one lane, the one its signal and  *)
(* its subscriber call for, and is queued once.  And no job that is queued  *)
(* while a batch runs is due in it: what the batch left behind in a lane    *)
(* stays as it was, except for what other consumers take.                   *)
(*                                                                         *)
(* The broadcasts rest on the list of those still waited for: whom an       *)
(* earlier broadcast of a stream awaits a later one awaits too, and it       *)
(* comes to nobody before.  Last come the types of both, with the bounds on *)
(* their counters and lists.                                                *)
(***************************************************************************)
EXTENDS Distribution, Delivery, FiniteSetTheorems, SequenceTheorems, TLAPS

AnyJob == [sub : Subscribers, version : Nat, due : Nat]
InFlight == {"numbered", "queueing"}

(* The types of what is stored, without the bounds on the counters.         *)
ShapeOK ==
    /\ dsClock \in Nat /\ dsVersion \in Nat /\ dsRaced \in BOOLEAN
    /\ dsPublish \in [Signals -> [at : {"new", "numbered", "queueing", "done"},
                                  version : Nat, todo : SUBSET Subscribers]]
    /\ dsQueue \in [LaneNames -> SUBSET AnyJob]
    /\ dsBatch \in [Consumers -> [lane : 0..4, now : Nat, read : SUBSET AnyJob, got : SUBSET AnyJob]]
    /\ \A c \in Consumers : dsBatch[c].read # {} => dsBatch[c].lane \in 1..3
    /\ dsGiven \in [DOMAIN dsGiven -> Nat] /\ DOMAIN dsGiven \subseteq AnyJob

-----------------------------------------------------------------------------
LEMMA LaneOfPriority == \A s, sub : Priority(s, sub) \in LaneNames
BY DEF Priority, LaneNames

LEMMA LaneNumbers ==
    /\ \A l \in 1..3 : Lanes[l] \in LaneNames
    /\ \A k, l \in 1..3 : Lanes[k] = Lanes[l] => k = l
    /\ \A lane \in LaneNames : \E l \in 1..3 : Lanes[l] = lane
<1>1. Lanes[1] = "high" /\ Lanes[2] = "normal" /\ Lanes[3] = "delayed"
    BY DEF Lanes
<1>2. \A l \in 1..3 : l = 1 \/ l = 2 \/ l = 3
    OBVIOUS
<1>3. \A lane \in LaneNames : lane = Lanes[1] \/ lane = Lanes[2] \/ lane = Lanes[3]
    BY <1>1 DEF LaneNames
<1>4. 1 \in 1..3 /\ 2 \in 1..3 /\ 3 \in 1..3
    OBVIOUS
<1> QED BY <1>1, <1>2, <1>3, <1>4 DEF LaneNames

LEMMA RestingShape ==
    /\ Resting \in [lane : 0..4, now : Nat, read : SUBSET AnyJob, got : SUBSET AnyJob]
    /\ Resting.read = {} /\ Resting.got = {} /\ Resting.lane = 0
BY DEF Resting

LEMMA ShapeInit == DsInit => ShapeOK
<1> SUFFICES ASSUME DsInit PROVE ShapeOK
    OBVIOUS
<1>1. /\ dsClock \in Nat /\ dsVersion \in Nat /\ dsRaced \in BOOLEAN
      /\ dsQueue \in [LaneNames -> SUBSET AnyJob]
    BY DEF DsInit
<1>2. dsPublish \in [Signals -> [at : {"new", "numbered", "queueing", "done"},
                                 version : Nat, todo : SUBSET Subscribers]]
    BY DEF DsInit, Unpublished
<1>3. /\ dsBatch \in [Consumers -> [lane : 0..4, now : Nat, read : SUBSET AnyJob, got : SUBSET AnyJob]]
      /\ \A c \in Consumers : dsBatch[c].read = {}
    BY RestingShape DEF DsInit
<1>4. dsGiven \in [DOMAIN dsGiven -> Nat] /\ DOMAIN dsGiven \subseteq AnyJob
    BY DEF DsInit
<1> QED BY <1>1, <1>2, <1>3, <1>4 DEF ShapeOK

LEMMA ShapeStep == ShapeOK /\ [DsNext]_dsVars => ShapeOK'
<1> SUFFICES ASSUME ShapeOK, [DsNext]_dsVars PROVE ShapeOK'
    OBVIOUS
<1>1. ASSUME NEW s \in Signals, TakeVersion(s) PROVE ShapeOK'
    BY <1>1 DEF TakeVersion, ShapeOK
<1>2. ASSUME NEW s \in Signals, SaveLatest(s) PROVE ShapeOK'
    <2>1. Eligible(s) \subseteq Subscribers
        BY DEF Eligible
    <2> QED BY <1>2, <2>1 DEF SaveLatest, ShapeOK
<1>3. ASSUME NEW s \in Signals, Enqueue(s) PROVE ShapeOK'
    <2>1. CASE dsPublish[s].todo = {}
        BY <1>3, <2>1 DEF Enqueue, ShapeOK
    <2>2. CASE dsPublish[s].todo # {}
        <3> DEFINE sub == CHOOSE x \in dsPublish[s].todo : TRUE
                   lane == Priority(s, sub)
        <3>1. sub \in Subscribers /\ lane \in LaneNames
            BY <2>2, LaneOfPriority DEF ShapeOK
        <3>2. PICK delay \in Delays[lane] :
                 /\ dsQueue' = [dsQueue EXCEPT ![lane] = @ \cup
                       {[sub |-> sub, version |-> dsPublish[s].version, due |-> dsClock + delay]}]
                 /\ dsPublish' = [dsPublish EXCEPT ![s].todo = @ \ {sub}]
            BY <1>3, <2>2 DEF Enqueue
        <3>3. delay \in Nat \ {0}
            BY <3>1, <3>2, DistributionAssumption DEF DistributionAssumption, LaneNames
        <3>4. [sub |-> sub, version |-> dsPublish[s].version, due |-> dsClock + delay] \in AnyJob
            BY <3>1, <3>3 DEF ShapeOK, AnyJob
        <3> HIDE DEF sub, lane
        <3> QED BY <1>3, <3>1, <3>2, <3>4 DEF Enqueue, ShapeOK
    <2> QED BY <2>1, <2>2
<1>4. ASSUME NEW c \in Consumers, StartBatch(c) PROVE ShapeOK'
    BY <1>4 DEF StartBatch, ShapeOK
<1>5. ASSUME NEW c \in Consumers, ReadDue(c) PROVE ShapeOK'
    <2>1. PICK read \in Earliest(Due(Lanes[dsBatch[c].lane], dsBatch[c].now), Room(c)) :
             dsBatch' = [dsBatch EXCEPT ![c].read = read]
        BY <1>5 DEF ReadDue
    <2>2. Lanes[dsBatch[c].lane] \in LaneNames
        BY <1>5, LaneNumbers DEF ReadDue
    <2>3. read \in SUBSET AnyJob
        BY <2>1, <2>2 DEF Earliest, Due, ShapeOK
    <2> QED BY <1>5, <2>1, <2>3 DEF ReadDue, ShapeOK
<1>6. ASSUME NEW c \in Consumers, NothingDue(c) PROVE ShapeOK'
    <2>1. dsBatch[c].lane + 1 \in 0..4
        BY <1>6 DEF NothingDue
    <2> QED BY <1>6, <2>1 DEF NothingDue, ShapeOK
<1>7. ASSUME NEW c \in Consumers, RemoveRead(c) PROVE ShapeOK'
    <2>1. dsBatch[c].lane + 1 \in 0..4 /\ Lanes[dsBatch[c].lane] \in LaneNames
        BY <1>7, LaneNumbers DEF RemoveRead, ShapeOK
    <2> QED BY <1>7, <2>1 DEF RemoveRead, ShapeOK
<1>8. ASSUME NEW c \in Consumers, ReturnBatch(c) PROVE ShapeOK'
    <2>1. dsGiven' \in [DOMAIN dsGiven' -> Nat]
        BY <1>8 DEF ReturnBatch, ShapeOK
    <2> QED BY <1>8, <2>1, RestingShape DEF ReturnBatch, ShapeOK
<1>9. ASSUME NEW c \in Consumers, ConsumerDies(c) PROVE ShapeOK'
    BY <1>9, RestingShape DEF ConsumerDies, ShapeOK
<1>10. CASE DsTick
    BY <1>10 DEF DsTick, ShapeOK
<1>11. CASE UNCHANGED dsVars
    BY <1>11 DEF dsVars, ShapeOK
<1> QED
    BY <1>1, <1>2, <1>3, <1>4, <1>5, <1>6, <1>7, <1>8, <1>9, <1>10, <1>11 DEF DsNext

-----------------------------------------------------------------------------
(* Versions.  Each publication has its own; as long as no two publications  *)
(* were under way at once, the one that saves the latest signal is the one  *)
(* that was numbered last.                                                  *)

VersionInv ==
    /\ \A s \in Signals : dsPublish[s].at # "new" => dsPublish[s].version <= dsVersion
    /\ \A r, s \in Signals :
          dsPublish[r].at # "new" /\ dsPublish[s].at # "new"
          /\ dsPublish[r].version = dsPublish[s].version => r = s

LatestInv ==
    ~dsRaced =>
        /\ \A r, s \in Signals : dsPublish[r].at \in InFlight /\ dsPublish[s].at \in InFlight => r = s
        /\ \A s \in Signals : dsPublish[s].at = "numbered" => dsPublish[s].version = dsVersion
        /\ (\A s \in Signals : dsPublish[s].at # "numbered") => dsLatest = dsVersion

LEMMA VersionInit == DsInit => VersionInv /\ LatestInv
BY DEF DsInit, VersionInv, LatestInv, InFlight, Unpublished

LEMMA VersionStep ==
    ASSUME ShapeOK, VersionInv, LatestInv, [DsNext]_dsVars
    PROVE  VersionInv' /\ LatestInv'
<1>1. ASSUME NEW s \in Signals, TakeVersion(s) PROVE VersionInv' /\ LatestInv'
    <2>1. /\ dsPublish[s].at = "new" /\ dsVersion' = dsVersion + 1 /\ dsVersion \in Nat
          /\ dsPublish'[s].at = "numbered" /\ dsPublish'[s].version = dsVersion + 1
          /\ \A r \in Signals : r # s => dsPublish'[r] = dsPublish[r]
          /\ \A r \in Signals : dsPublish[r].version \in Nat
          /\ ~dsRaced' => ~dsRaced /\ \A r \in Signals \ {s} : dsPublish[r].at \notin InFlight
        BY <1>1 DEF TakeVersion, ShapeOK, InFlight
    <2>2. VersionInv'
        BY <2>1 DEF VersionInv
    <2>3. LatestInv'
        BY <2>1 DEF LatestInv, InFlight
    <2> QED BY <2>2, <2>3
<1>2. ASSUME NEW s \in Signals, SaveLatest(s) PROVE VersionInv' /\ LatestInv'
    <2>1. /\ dsPublish[s].at = "numbered" /\ dsVersion' = dsVersion /\ dsRaced' = dsRaced
          /\ dsLatest' = dsPublish[s].version
          /\ dsPublish'[s].at = "queueing" /\ dsPublish'[s].version = dsPublish[s].version
          /\ \A r \in Signals : r # s => dsPublish'[r] = dsPublish[r]
        BY <1>2 DEF SaveLatest, ShapeOK
    <2>2. VersionInv'
        BY <2>1 DEF VersionInv
    <2>3. LatestInv'
        BY <2>1 DEF LatestInv, InFlight
    <2> QED BY <2>2, <2>3
<1>3. ASSUME NEW s \in Signals, Enqueue(s) PROVE VersionInv' /\ LatestInv'
    <2>1. /\ dsPublish[s].at = "queueing" /\ UNCHANGED <<dsVersion, dsRaced, dsLatest>>
          /\ dsPublish'[s].at \in {"queueing", "done"}
          /\ dsPublish'[s].version = dsPublish[s].version
          /\ \A r \in Signals : r # s => dsPublish'[r] = dsPublish[r]
        BY <1>3 DEF Enqueue, ShapeOK
    <2>2. VersionInv'
        BY <2>1 DEF VersionInv
    <2>3. LatestInv'
        BY <2>1 DEF LatestInv, InFlight
    <2> QED BY <2>2, <2>3
<1>4. ASSUME UNCHANGED <<dsVersion, dsRaced, dsLatest, dsPublish>> PROVE VersionInv' /\ LatestInv'
    BY <1>4 DEF VersionInv, LatestInv
<1>5. ASSUME NEW c \in Consumers,
             \/ StartBatch(c) \/ ReadDue(c) \/ NothingDue(c) \/ RemoveRead(c)
             \/ ReturnBatch(c) \/ ConsumerDies(c)
      PROVE  VersionInv' /\ LatestInv'
    BY <1>4, <1>5 DEF StartBatch, ReadDue, NothingDue, RemoveRead, ReturnBatch, ConsumerDies
<1>6. CASE DsTick \/ UNCHANGED dsVars
    BY <1>4, <1>6 DEF DsTick, dsVars
<1> QED BY <1>1, <1>2, <1>3, <1>5, <1>6 DEF DsNext

-----------------------------------------------------------------------------
(* Jobs and lanes.  A job is issued once a publication has queued it.       *)

Out(s) == dsPublish[s].at \in {"queueing", "done"}

Issued(j, lane) ==
    \E s \in Signals : /\ Out(s) /\ dsPublish[s].version = j.version
                       /\ j.sub \notin dsPublish[s].todo /\ Priority(s, j.sub) = lane

LEMMA IssuedOnce ==
    ASSUME VersionInv, NEW j, NEW k, NEW l, Issued(j, k), Issued(j, l)
    PROVE  k = l
BY DEF Issued, Out, VersionInv

(* What an Enqueue that finds a subscriber left does.                       *)
LEMMA EnqueueEffect ==
    ASSUME ShapeOK, NEW s \in Signals, Enqueue(s), dsPublish[s].todo # {}
    PROVE  \E sub \in dsPublish[s].todo, j \in AnyJob, lane \in LaneNames :
              /\ j.sub = sub /\ j.version = dsPublish[s].version /\ j.due > dsClock
              /\ lane = Priority(s, sub)
              /\ dsQueue' = [dsQueue EXCEPT ![lane] = @ \cup {j}]
              /\ dsPublish' = [dsPublish EXCEPT ![s].todo = @ \ {sub}]
<1> DEFINE sub == CHOOSE x \in dsPublish[s].todo : TRUE
           lane == Priority(s, sub)
<1>1. sub \in dsPublish[s].todo /\ sub \in Subscribers /\ lane \in LaneNames
    BY LaneOfPriority DEF ShapeOK
<1>2. PICK delay \in Delays[lane] :
         /\ dsQueue' = [dsQueue EXCEPT ![lane] = @ \cup
               {[sub |-> sub, version |-> dsPublish[s].version, due |-> dsClock + delay]}]
         /\ dsPublish' = [dsPublish EXCEPT ![s].todo = @ \ {sub}]
    BY DEF Enqueue
<1> DEFINE j == [sub |-> sub, version |-> dsPublish[s].version, due |-> dsClock + delay]
<1>3. delay \in Nat \ {0}
    BY <1>1, <1>2, DistributionAssumption DEF DistributionAssumption, LaneNames
<1>4. j \in AnyJob /\ j.sub = sub /\ j.version = dsPublish[s].version /\ j.due > dsClock
    BY <1>1, <1>3 DEF ShapeOK, AnyJob
<1> HIDE DEF sub, j
<1> QED BY <1>1, <1>2, <1>4 DEF j

(* A job that is issued stays issued; one about to be queued is not yet.    *)
LEMMA IssuedStable ==
    ASSUME ShapeOK, [DsNext]_dsVars, NEW j, NEW lane, Issued(j, lane)
    PROVE  Issued(j, lane)'
<1>0. PICK s \in Signals : /\ Out(s) /\ dsPublish[s].version = j.version
                           /\ j.sub \notin dsPublish[s].todo /\ Priority(s, j.sub) = lane
    BY DEF Issued
<1>1. Out(s)' /\ dsPublish'[s].version = dsPublish[s].version /\ dsPublish'[s].todo \subseteq dsPublish[s].todo
    <2>1. CASE UNCHANGED dsPublish
        BY <1>0, <2>1 DEF Out
    <2>2. ASSUME NEW r \in Signals, TakeVersion(r) \/ SaveLatest(r) PROVE dsPublish'[s] = dsPublish[s]
        BY <1>0, <2>2 DEF TakeVersion, SaveLatest, Out, ShapeOK
    <2>3. ASSUME NEW r \in Signals, Enqueue(r)
          PROVE  /\ Out(s)' /\ dsPublish'[s].version = dsPublish[s].version
                 /\ dsPublish'[s].todo \subseteq dsPublish[s].todo
        BY <1>0, <2>3 DEF Enqueue, Out, ShapeOK
    <2>4. ASSUME NEW c \in Consumers,
                 \/ StartBatch(c) \/ ReadDue(c) \/ NothingDue(c) \/ RemoveRead(c)
                 \/ ReturnBatch(c) \/ ConsumerDies(c)
          PROVE  UNCHANGED dsPublish
        BY <2>4 DEF StartBatch, ReadDue, NothingDue, RemoveRead, ReturnBatch, ConsumerDies
    <2>5. ASSUME DsTick \/ UNCHANGED dsVars PROVE UNCHANGED dsPublish
        BY <2>5 DEF DsTick, dsVars
    <2> QED BY <1>0, <2>1, <2>2, <2>3, <2>4, <2>5 DEF DsNext, Out
<1> QED BY <1>0, <1>1 DEF Issued

Got(c)  == dsBatch[c].got
Took(c) == dsBatch[c].read
At(c)   == dsBatch[c].lane

(* What is queued, read or taken was issued in its lane, and what is queued *)
(* was never taken out.                                                     *)
JobInv ==
    /\ \A lane \in LaneNames : \A j \in dsQueue[lane] :
          /\ Issued(j, lane) /\ j \notin DOMAIN dsGiven
          /\ \A c \in Consumers : j \notin Got(c)
    /\ \A c \in Consumers : \A j \in Took(c) : Issued(j, Lanes[At(c)])
    /\ \A c \in Consumers : \A j \in Got(c) : \E l \in 1..3 : l < At(c) /\ Issued(j, Lanes[l])
    /\ \A j \in DOMAIN dsGiven : \E lane \in LaneNames : Issued(j, lane)

LEMMA JobInit == DsInit => JobInv
<1> SUFFICES ASSUME DsInit PROVE JobInv
    OBVIOUS
<1>1. \A c \in Consumers : Got(c) = {} /\ Took(c) = {}
    BY RestingShape DEF DsInit, Got, Took
<1>2. DOMAIN dsGiven = {} /\ \A lane \in LaneNames : dsQueue[lane] = {}
    BY DEF DsInit
<1> QED BY <1>1, <1>2 DEF JobInv

LEMMA JobStep ==
    ASSUME ShapeOK, VersionInv, JobInv, [DsNext]_dsVars
    PROVE  JobInv'
<1>0. \A j, lane : Issued(j, lane) => Issued(j, lane)'
    BY IssuedStable
<1>1. ASSUME UNCHANGED <<dsQueue, dsBatch, dsGiven>> PROVE JobInv'
    <2>1. \A c \in Consumers : Got(c)' = Got(c) /\ Took(c)' = Took(c) /\ At(c)' = At(c)
        BY <1>1 DEF Got, Took, At
    <2> QED BY <1>0, <1>1, <2>1 DEF JobInv
<1>2. ASSUME NEW s \in Signals, Enqueue(s) PROVE JobInv'
    <2>1. CASE dsPublish[s].todo = {}
        BY <1>1, <1>2, <2>1 DEF Enqueue
    <2>2. CASE dsPublish[s].todo # {}
        <3>1. PICK sub \in dsPublish[s].todo, j \in AnyJob, lane \in LaneNames :
                  /\ j.sub = sub /\ j.version = dsPublish[s].version
                  /\ lane = Priority(s, sub)
                  /\ dsQueue' = [dsQueue EXCEPT ![lane] = @ \cup {j}]
                  /\ dsPublish' = [dsPublish EXCEPT ![s].todo = @ \ {sub}]
            BY <1>2, <2>2, EnqueueEffect
        <3>2. dsPublish[s].at = "queueing" /\ UNCHANGED <<dsBatch, dsGiven>>
            BY <1>2 DEF Enqueue
        <3>3. \A l : ~Issued(j, l)
            BY <3>1, <3>2 DEF Issued, Out, VersionInv
        <3>4. Issued(j, lane)'
            BY <3>1, <3>2 DEF Issued, Out, ShapeOK
        <3>5. j \notin DOMAIN dsGiven /\ \A c \in Consumers : j \notin Got(c)
            BY <3>3 DEF JobInv
        <3>6. \A c \in Consumers : Got(c)' = Got(c) /\ Took(c)' = Took(c) /\ At(c)' = At(c)
            BY <3>2 DEF Got, Took, At
        <3>7. \A l \in LaneNames : \A k \in dsQueue'[l] : k \in dsQueue[l] \/ (k = j /\ l = lane)
            BY <3>1 DEF ShapeOK
        <3> QED BY <1>0, <3>2, <3>4, <3>5, <3>6, <3>7 DEF JobInv
    <2> QED BY <2>1, <2>2
<1>3. ASSUME NEW c \in Consumers, StartBatch(c) PROVE JobInv'
    <2>1. /\ UNCHANGED <<dsQueue, dsGiven>>
          /\ Got(c)' = {} /\ Took(c)' = {}
          /\ \A d \in Consumers : d # c => Got(d)' = Got(d) /\ Took(d)' = Took(d) /\ At(d)' = At(d)
        BY <1>3 DEF StartBatch, Got, Took, At, ShapeOK
    <2> QED BY <1>0, <2>1 DEF JobInv
<1>4. ASSUME NEW c \in Consumers, ReadDue(c) PROVE JobInv'
    <2>1. PICK read \in Earliest(Due(Lanes[At(c)], dsBatch[c].now), Room(c)) :
              dsBatch' = [dsBatch EXCEPT ![c].read = read]
        BY <1>4 DEF ReadDue, At
    <2>2. Lanes[At(c)] \in LaneNames
        BY <1>4, LaneNumbers DEF ReadDue, At
    <2>3. read \subseteq dsQueue[Lanes[At(c)]]
        BY <2>1 DEF Earliest, Due
    <2>4. /\ UNCHANGED <<dsQueue, dsGiven>>
          /\ Got(c)' = Got(c) /\ Took(c)' = read /\ At(c)' = At(c)
          /\ \A d \in Consumers : d # c => Got(d)' = Got(d) /\ Took(d)' = Took(d) /\ At(d)' = At(d)
        BY <1>4, <2>1 DEF ReadDue, Got, Took, At, ShapeOK
    <2> QED BY <1>0, <2>2, <2>3, <2>4 DEF JobInv
<1>5. ASSUME NEW c \in Consumers, NothingDue(c) PROVE JobInv'
    <2>1. /\ UNCHANGED <<dsQueue, dsGiven>> /\ Took(c) = {}
          /\ Got(c)' = Got(c) /\ Took(c)' = Took(c) /\ At(c)' = At(c) + 1 /\ At(c) \in 1..3
          /\ \A d \in Consumers : d # c => Got(d)' = Got(d) /\ Took(d)' = Took(d) /\ At(d)' = At(d)
        BY <1>5 DEF NothingDue, Got, Took, At, ShapeOK
    <2>2. \A l \in 1..3 : l < At(c) => l < At(c)'
        BY <2>1
    <2> QED BY <1>0, <2>1, <2>2 DEF JobInv
<1>6. ASSUME NEW c \in Consumers, RemoveRead(c) PROVE JobInv'
    <2>1. /\ UNCHANGED dsGiven /\ Took(c) # {} /\ At(c) \in 1..3
          /\ dsQueue' = [dsQueue EXCEPT ![Lanes[At(c)]] = @ \ Took(c)]
          /\ Got(c)' = Got(c) \cup Took(c) /\ Took(c)' = {} /\ At(c)' = At(c) + 1
          /\ \A d \in Consumers : d # c => Got(d)' = Got(d) /\ Took(d)' = Took(d) /\ At(d)' = At(d)
        BY <1>6 DEF RemoveRead, Got, Took, At, ShapeOK
    <2>2. \A l \in 1..3 : l <= At(c) => l < At(c)'
        BY <2>1
    <2>3. \A lane \in LaneNames : dsQueue'[lane] \subseteq dsQueue[lane]
        BY <2>1 DEF ShapeOK
    <2>4. ASSUME NEW lane \in LaneNames, NEW j \in dsQueue'[lane] PROVE j \notin Took(c)
        <3>1. j \in dsQueue[lane] /\ Issued(j, lane)
            BY <2>3, <2>4 DEF JobInv
        <3>2. CASE lane = Lanes[At(c)]
            BY <2>1, <2>4, <3>2 DEF ShapeOK
        <3>3. CASE lane # Lanes[At(c)]
            BY <3>1, <3>3, IssuedOnce DEF JobInv
        <3> QED BY <3>2, <3>3
    <2>5. \A j \in Got(c)' : \E l \in 1..3 : l < At(c)' /\ Issued(j, Lanes[l])'
        <3>1. \A j \in Took(c) : Issued(j, Lanes[At(c)])
            BY DEF JobInv
        <3>2. \A j \in Got(c) : \E l \in 1..3 : l < At(c) /\ Issued(j, Lanes[l])
            BY DEF JobInv
        <3>3. \A l \in 1..3 : l < At(c) => l <= At(c)
            BY <2>1
        <3>4. At(c) <= At(c)
            BY <2>1
        <3> QED BY <1>0, <2>1, <2>2, <3>1, <3>2, <3>3, <3>4
    <2> QED BY <1>0, <2>1, <2>3, <2>4, <2>5 DEF JobInv
<1>7. ASSUME NEW c \in Consumers, ReturnBatch(c) PROVE JobInv'
    <2>1. /\ UNCHANGED dsQueue /\ DOMAIN dsGiven' = DOMAIN dsGiven \cup Got(c)
          /\ Got(c)' = {} /\ Took(c)' = {}
          /\ \A d \in Consumers : d # c => Got(d)' = Got(d) /\ Took(d)' = Took(d) /\ At(d)' = At(d)
        BY <1>7, RestingShape DEF ReturnBatch, Got, Took, At, ShapeOK
    <2>2. \A j \in Got(c) : \E lane \in LaneNames : Issued(j, lane)
        BY LaneNumbers DEF JobInv
    <2> QED BY <1>0, <2>1, <2>2 DEF JobInv
<1>8. ASSUME NEW c \in Consumers, ConsumerDies(c) PROVE JobInv'
    <2>1. /\ UNCHANGED <<dsQueue, dsGiven>>
          /\ Got(c)' = {} /\ Took(c)' = {}
          /\ \A d \in Consumers : d # c => Got(d)' = Got(d) /\ Took(d)' = Took(d) /\ At(d)' = At(d)
        BY <1>8, RestingShape DEF ConsumerDies, Got, Took, At, ShapeOK
    <2> QED BY <1>0, <2>1 DEF JobInv
<1>9. CASE DsTick \/ UNCHANGED dsVars \/ \E s \in Signals : TakeVersion(s) \/ SaveLatest(s)
    BY <1>1, <1>9 DEF DsTick, dsVars, TakeVersion, SaveLatest
<1> QED BY <1>2, <1>3, <1>4, <1>5, <1>6, <1>7, <1>8, <1>9 DEF DsNext

-----------------------------------------------------------------------------
(* Twice only when contested.  A job that no two consumers had read at once *)
(* is in one place: in its lane until the consumer that read it removes it. *)

ContestInv ==
    \A j \in AnyJob : j \notin dsContested =>
        /\ \A c \in Consumers : j \in Took(c) =>
              /\ j \in dsQueue[Lanes[At(c)]]
              /\ \A d \in Consumers : j \in Took(d) => c = d
        /\ \A c, d \in Consumers : j \in Got(c) /\ j \in Got(d) => c = d
        /\ \A c \in Consumers : j \in Got(c) => j \notin DOMAIN dsGiven
        /\ j \in DOMAIN dsGiven => dsGiven[j] <= 1

LEMMA ContestInit == DsInit => ContestInv
<1> SUFFICES ASSUME DsInit PROVE ContestInv
    OBVIOUS
<1>1. \A c \in Consumers : Got(c) = {} /\ Took(c) = {}
    BY RestingShape DEF DsInit, Got, Took
<1>2. DOMAIN dsGiven = {}
    BY DEF DsInit
<1> QED BY <1>1, <1>2 DEF ContestInv

LEMMA ContestStep ==
    ASSUME ShapeOK, VersionInv, JobInv, ContestInv, [DsNext]_dsVars
    PROVE  ContestInv'
<1>1. ASSUME UNCHANGED <<dsQueue, dsBatch, dsGiven, dsContested>> PROVE ContestInv'
    <2>1. \A c \in Consumers : Got(c)' = Got(c) /\ Took(c)' = Took(c) /\ At(c)' = At(c)
        BY <1>1 DEF Got, Took, At
    <2> QED BY <1>1, <2>1 DEF ContestInv
<1>2. ASSUME NEW s \in Signals, Enqueue(s) PROVE ContestInv'
    <2>1. /\ UNCHANGED <<dsBatch, dsGiven, dsContested>>
          /\ \A lane \in LaneNames : dsQueue[lane] \subseteq dsQueue'[lane]
        <3>1. CASE dsPublish[s].todo = {}
            BY <1>2, <3>1 DEF Enqueue
        <3>2. CASE dsPublish[s].todo # {}
            BY <1>2, <3>2, EnqueueEffect DEF Enqueue, ShapeOK
        <3> QED BY <3>1, <3>2
    <2>2. \A c \in Consumers : Got(c)' = Got(c) /\ Took(c)' = Took(c) /\ At(c)' = At(c)
        BY <2>1 DEF Got, Took, At
    <2>3. \A c \in Consumers : Took(c) # {} => Lanes[At(c)] \in LaneNames
        BY LaneNumbers DEF ShapeOK, Took, At
    <2> QED BY <2>1, <2>2, <2>3 DEF ContestInv
<1>3. ASSUME NEW c \in Consumers, StartBatch(c) PROVE ContestInv'
    <2>1. /\ UNCHANGED <<dsQueue, dsGiven, dsContested>>
          /\ Got(c)' = {} /\ Took(c)' = {}
          /\ \A d \in Consumers : d # c => Got(d)' = Got(d) /\ Took(d)' = Took(d) /\ At(d)' = At(d)
        BY <1>3 DEF StartBatch, Got, Took, At, ShapeOK
    <2> QED BY <2>1 DEF ContestInv
<1>4. ASSUME NEW c \in Consumers, ReadDue(c) PROVE ContestInv'
    <2>1. PICK read \in Earliest(Due(Lanes[At(c)], dsBatch[c].now), Room(c)) :
              /\ dsBatch' = [dsBatch EXCEPT ![c].read = read]
              /\ dsContested' = dsContested \cup UNION {read \cap dsBatch[d].read : d \in Consumers \ {c}}
        BY <1>4 DEF ReadDue, At
    <2>2. read \subseteq dsQueue[Lanes[At(c)]]
        BY <2>1 DEF Earliest, Due
    <2>3. /\ UNCHANGED <<dsQueue, dsGiven>>
          /\ Got(c)' = Got(c) /\ Took(c)' = read /\ At(c)' = At(c)
          /\ \A d \in Consumers : d # c => Got(d)' = Got(d) /\ Took(d)' = Took(d) /\ At(d)' = At(d)
        BY <1>4, <2>1 DEF ReadDue, Got, Took, At, ShapeOK
    <2>4. \A j, d : j \notin dsContested' /\ d \in Consumers /\ d # c /\ j \in Took(d) => j \notin read
        BY <2>1 DEF Took
    <2>5. \A j : j \notin dsContested' => j \notin dsContested
        BY <2>1
    <2> QED BY <2>2, <2>3, <2>4, <2>5 DEF ContestInv
<1>5. ASSUME NEW c \in Consumers, NothingDue(c) PROVE ContestInv'
    <2>1. /\ UNCHANGED <<dsQueue, dsGiven, dsContested>> /\ Took(c) = {}
          /\ Got(c)' = Got(c) /\ Took(c)' = Took(c)
          /\ \A d \in Consumers : d # c => Got(d)' = Got(d) /\ Took(d)' = Took(d) /\ At(d)' = At(d)
        BY <1>5 DEF NothingDue, Got, Took, At, ShapeOK
    <2> QED BY <2>1 DEF ContestInv
<1>6. ASSUME NEW c \in Consumers, RemoveRead(c) PROVE ContestInv'
    <2>1. /\ UNCHANGED <<dsGiven, dsContested>> /\ Took(c) # {} /\ At(c) \in 1..3
          /\ dsQueue' = [dsQueue EXCEPT ![Lanes[At(c)]] = @ \ Took(c)]
          /\ Got(c)' = Got(c) \cup Took(c) /\ Took(c)' = {}
          /\ \A d \in Consumers : d # c => Got(d)' = Got(d) /\ Took(d)' = Took(d) /\ At(d)' = At(d)
        BY <1>6 DEF RemoveRead, Got, Took, At, ShapeOK
    <2>2. Lanes[At(c)] \in LaneNames
        BY <2>1, LaneNumbers
    <2> SUFFICES ASSUME NEW j \in AnyJob, j \notin dsContested
                 PROVE  /\ \A d \in Consumers : j \in Took(d)' =>
                              /\ j \in dsQueue'[Lanes[At(d)']]
                              /\ \A e \in Consumers : j \in Took(e)' => d = e
                        /\ \A d, e \in Consumers : j \in Got(d)' /\ j \in Got(e)' => d = e
                        /\ \A d \in Consumers : j \in Got(d)' => j \notin DOMAIN dsGiven
                        /\ j \in DOMAIN dsGiven => dsGiven[j] <= 1
        BY <2>1 DEF ContestInv
    <2>3. j \in Took(c) => /\ j \in dsQueue[Lanes[At(c)]]
                           /\ \A d \in Consumers : j \in Took(d) => c = d
                           /\ j \notin DOMAIN dsGiven
                           /\ \A d \in Consumers : j \notin Got(d)
        BY <2>2 DEF ContestInv, JobInv
    <2>4. ASSUME NEW d \in Consumers, j \in Took(d)'
          PROVE  /\ j \in dsQueue'[Lanes[At(d)']]
                 /\ \A e \in Consumers : j \in Took(e)' => d = e
        <3>1. d # c /\ j \in Took(d) /\ At(d)' = At(d) /\ j \notin Took(c)
            BY <2>1, <2>3, <2>4
        <3>2. j \in dsQueue[Lanes[At(d)]] /\ \A e \in Consumers : j \in Took(e) => d = e
            BY <3>1 DEF ContestInv
        <3>3. Lanes[At(d)] \in LaneNames
            BY <3>1, LaneNumbers DEF ShapeOK, Took, At
        <3> QED BY <2>1, <3>1, <3>2, <3>3 DEF ShapeOK
    <2> QED BY <2>1, <2>3, <2>4 DEF ContestInv
<1>7. ASSUME NEW c \in Consumers, ReturnBatch(c) PROVE ContestInv'
    <2>1. /\ UNCHANGED <<dsQueue, dsContested>> /\ DOMAIN dsGiven' = DOMAIN dsGiven \cup Got(c)
          /\ Got(c)' = {} /\ Took(c)' = {}
          /\ \A d \in Consumers : d # c => Got(d)' = Got(d) /\ Took(d)' = Took(d) /\ At(d)' = At(d)
        BY <1>7, RestingShape DEF ReturnBatch, Got, Took, At, ShapeOK
    <2>2. ASSUME NEW j \in DOMAIN dsGiven', j \notin DOMAIN dsGiven \/ j \notin Got(c)
          PROVE  dsGiven'[j] <= (IF j \in DOMAIN dsGiven THEN dsGiven[j] ELSE 1)
        BY <1>7, <2>2 DEF ReturnBatch, Got, ShapeOK
    <2> SUFFICES ASSUME NEW j \in AnyJob, j \notin dsContested
                 PROVE  /\ \A d \in Consumers : j \in Took(d)' =>
                              /\ j \in dsQueue'[Lanes[At(d)']]
                              /\ \A e \in Consumers : j \in Took(e)' => d = e
                        /\ \A d, e \in Consumers : j \in Got(d)' /\ j \in Got(e)' => d = e
                        /\ \A d \in Consumers : j \in Got(d)' => j \notin DOMAIN dsGiven'
                        /\ j \in DOMAIN dsGiven' => dsGiven'[j] <= 1
        BY <2>1 DEF ContestInv
    <2>3. ASSUME NEW d \in Consumers, j \in Got(d)' PROVE j \notin DOMAIN dsGiven'
        BY <2>1, <2>3 DEF ContestInv
    <2>4. ASSUME j \in DOMAIN dsGiven' PROVE dsGiven'[j] <= 1
        <3>1. j \notin DOMAIN dsGiven \/ j \notin Got(c)
            BY DEF ContestInv
        <3>2. j \in DOMAIN dsGiven => dsGiven[j] <= 1 /\ dsGiven[j] \in Nat
            BY DEF ContestInv, ShapeOK
        <3>3. dsGiven'[j] <= (IF j \in DOMAIN dsGiven THEN dsGiven[j] ELSE 1)
            BY <2>2, <2>4, <3>1
        <3>4. dsGiven'[j] \in Nat
            BY <1>7, <2>4 DEF ReturnBatch, ShapeOK
        <3> QED BY <3>2, <3>3, <3>4
    <2> QED BY <2>1, <2>3, <2>4 DEF ContestInv
<1>8. ASSUME NEW c \in Consumers, ConsumerDies(c) PROVE ContestInv'
    <2>1. /\ UNCHANGED <<dsQueue, dsGiven, dsContested>>
          /\ Got(c)' = {} /\ Took(c)' = {}
          /\ \A d \in Consumers : d # c => Got(d)' = Got(d) /\ Took(d)' = Took(d) /\ At(d)' = At(d)
        BY <1>8, RestingShape DEF ConsumerDies, Got, Took, At, ShapeOK
    <2> QED BY <2>1 DEF ContestInv
<1>9. CASE DsTick \/ UNCHANGED dsVars \/ \E s \in Signals : TakeVersion(s) \/ SaveLatest(s)
    BY <1>1, <1>9 DEF DsTick, dsVars, TakeVersion, SaveLatest
<1> QED BY <1>2, <1>3, <1>4, <1>5, <1>6, <1>7, <1>8, <1>9 DEF DsNext

-----------------------------------------------------------------------------
(* No job vanishes.  Removing a job from its lane is taking it, returning a *)
(* batch is giving it, dying is losing it: a job that is somewhere stays    *)
(* somewhere.                                                               *)

Here(j) ==
    \/ \E lane \in LaneNames : j \in dsQueue[lane]
    \/ \E c \in Consumers : j \in Got(c)
    \/ j \in DOMAIN dsGiven \/ j \in dsLost

KeptInv ==
    \A s \in Signals : Out(s) => \A sub \in Eligible(s) \ dsPublish[s].todo :
        \E j \in AnyJob : j.sub = sub /\ j.version = dsPublish[s].version /\ Here(j)

LEMMA KeptStable ==
    ASSUME ShapeOK, JobInv, [DsNext]_dsVars, NEW j, Here(j)
    PROVE  Here(j)'
<1>1. ASSUME UNCHANGED <<dsBatch, dsGiven, dsLost>>,
             \A l \in LaneNames : dsQueue[l] \subseteq dsQueue'[l]
      PROVE  Here(j)'
    BY <1>1 DEF Here, Got
<1>2. ASSUME NEW s \in Signals, Enqueue(s) PROVE Here(j)'
    <2>1. \A lane \in LaneNames : dsQueue[lane] \subseteq dsQueue'[lane]
        <3>1. CASE dsPublish[s].todo = {}
            BY <1>2, <3>1 DEF Enqueue
        <3>2. CASE dsPublish[s].todo # {}
            BY <1>2, <3>2, EnqueueEffect DEF ShapeOK
        <3> QED BY <3>1, <3>2
    <2> QED BY <1>1, <1>2, <2>1 DEF Enqueue
<1>3. ASSUME NEW c \in Consumers, StartBatch(c) PROVE Here(j)'
    <2>1. Got(c) = {}
        BY <1>3 DEF StartBatch, JobInv, At
    <2> QED BY <1>3, <2>1 DEF StartBatch, Here, Got, ShapeOK
<1>4. ASSUME NEW c \in Consumers, ReadDue(c) \/ NothingDue(c) PROVE Here(j)'
    BY <1>4 DEF ReadDue, NothingDue, Here, Got, ShapeOK
<1>5. ASSUME NEW c \in Consumers, RemoveRead(c) PROVE Here(j)'
    BY <1>5 DEF RemoveRead, Here, Got, ShapeOK
<1>6. ASSUME NEW c \in Consumers, ReturnBatch(c) PROVE Here(j)'
    <2>1. /\ UNCHANGED <<dsQueue, dsLost>> /\ DOMAIN dsGiven' = DOMAIN dsGiven \cup Got(c)
          /\ \A d \in Consumers : d # c => Got(d)' = Got(d)
        BY <1>6 DEF ReturnBatch, Got, ShapeOK
    <2> QED BY <2>1 DEF Here
<1>7. ASSUME NEW c \in Consumers, ConsumerDies(c) PROVE Here(j)'
    <2>1. /\ UNCHANGED <<dsQueue, dsGiven>> /\ dsLost' = dsLost \cup Got(c)
          /\ \A d \in Consumers : d # c => Got(d)' = Got(d)
        BY <1>7 DEF ConsumerDies, Got, ShapeOK
    <2> QED BY <2>1 DEF Here
<1>8. CASE DsTick \/ UNCHANGED dsVars \/ \E s \in Signals : TakeVersion(s) \/ SaveLatest(s)
    BY <1>1, <1>8 DEF DsTick, dsVars, TakeVersion, SaveLatest
<1> QED BY <1>2, <1>3, <1>4, <1>5, <1>6, <1>7, <1>8 DEF DsNext

LEMMA KeptStep ==
    ASSUME ShapeOK, JobInv, KeptInv, [DsNext]_dsVars
    PROVE  KeptInv'
<1> SUFFICES ASSUME NEW s \in Signals, Out(s)', NEW sub \in Eligible(s) \ dsPublish'[s].todo
             PROVE  \E j \in AnyJob : j.sub = sub /\ j.version = dsPublish'[s].version /\ Here(j)'
    BY DEF KeptInv, Eligible
<1>1. ASSUME Out(s), dsPublish'[s].version = dsPublish[s].version, sub \notin dsPublish[s].todo
      PROVE  \E j \in AnyJob : j.sub = sub /\ j.version = dsPublish'[s].version /\ Here(j)'
    BY <1>1, KeptStable DEF KeptInv
<1>2. ASSUME NEW r \in Signals, TakeVersion(r) \/ SaveLatest(r)
      PROVE  Out(s) /\ dsPublish'[s].version = dsPublish[s].version /\ sub \notin dsPublish[s].todo
    BY <1>2 DEF TakeVersion, SaveLatest, Out, ShapeOK
<1>3. ASSUME NEW r \in Signals, Enqueue(r)
      PROVE  \E j \in AnyJob : j.sub = sub /\ j.version = dsPublish'[s].version /\ Here(j)'
    <2>1. Out(s) /\ dsPublish'[s].version = dsPublish[s].version
        BY <1>3 DEF Enqueue, Out, ShapeOK
    <2>2. CASE sub \notin dsPublish[s].todo
        BY <1>1, <2>1, <2>2
    <2>3. CASE sub \in dsPublish[s].todo
        <3>1. r = s /\ dsPublish[s].todo # {}
            BY <1>3, <2>3 DEF Enqueue, ShapeOK
        <3>2. PICK x \in dsPublish[s].todo, j \in AnyJob, lane \in LaneNames :
                  /\ j.sub = x /\ j.version = dsPublish[s].version
                  /\ dsQueue' = [dsQueue EXCEPT ![lane] = @ \cup {j}]
                  /\ dsPublish' = [dsPublish EXCEPT ![s].todo = @ \ {x}]
            BY <1>3, <3>1, EnqueueEffect
        <3>3. sub = x /\ Here(j)'
            BY <2>3, <3>2 DEF ShapeOK, Here
        <3> QED BY <2>1, <3>2, <3>3
    <2> QED BY <2>2, <2>3
<1>4. ASSUME UNCHANGED dsPublish
      PROVE  Out(s) /\ dsPublish'[s].version = dsPublish[s].version /\ sub \notin dsPublish[s].todo
    BY <1>4 DEF Out
<1>5. ASSUME NEW c \in Consumers,
             \/ StartBatch(c) \/ ReadDue(c) \/ NothingDue(c) \/ RemoveRead(c)
             \/ ReturnBatch(c) \/ ConsumerDies(c)
      PROVE  UNCHANGED dsPublish
    BY <1>5 DEF StartBatch, ReadDue, NothingDue, RemoveRead, ReturnBatch, ConsumerDies
<1>6. ASSUME DsTick \/ UNCHANGED dsVars PROVE UNCHANGED dsPublish
    BY <1>6 DEF DsTick, dsVars
<1> QED BY <1>1, <1>2, <1>3, <1>4, <1>5, <1>6 DEF DsNext

-----------------------------------------------------------------------------
AccountInv == ShapeOK /\ VersionInv /\ LatestInv /\ JobInv /\ ContestInv /\ KeptInv

LEMMA AccountImplies == AccountInv => JobsAccounted
<1> SUFFICES ASSUME AccountInv PROVE JobsAccounted
    OBVIOUS
<1>1. NoJobVanishes
    <2> SUFFICES ASSUME NEW s \in Signals, Out(s), NEW sub \in Queued(s)
                 PROVE  \E j \in (UNION {dsQueue[l] : l \in LaneNames}) \cup (UNION {Held(c) : c \in Consumers})
                                 \cup DOMAIN dsGiven \cup dsLost :
                            j.sub = sub /\ j.version = dsPublish[s].version
        BY DEF NoJobVanishes, Out
    <2>1. PICK j \in AnyJob : j.sub = sub /\ j.version = dsPublish[s].version /\ Here(j)
        BY DEF AccountInv, KeptInv, Queued
    <2>2. \A c \in Consumers : Got(c) \subseteq Held(c)
        BY DEF Got, Held
    <2>3. j \in (UNION {dsQueue[l] : l \in LaneNames}) \cup (UNION {Held(c) : c \in Consumers})
                \cup DOMAIN dsGiven \cup dsLost
        <3> DEFINE queues == UNION {dsQueue[l] : l \in LaneNames}
                   hands  == UNION {Held(c) : c \in Consumers}
        <3>1. \A lane \in LaneNames : j \in dsQueue[lane] => j \in queues
            OBVIOUS
        <3>2. \A c \in Consumers : j \in Held(c) => j \in hands
            OBVIOUS
        <3> HIDE DEF queues, hands
        <3>3. j \in queues \cup hands \cup DOMAIN dsGiven \cup dsLost
            BY <2>1, <2>2, <3>1, <3>2 DEF Here
        <3> QED BY <3>3 DEF queues, hands
    <2> QED BY <2>1, <2>3
<1>2. TwiceOnlyWhenContested
    <2> SUFFICES ASSUME NEW j \in DOMAIN dsGiven, j \notin dsContested
                 PROVE  ~(dsGiven[j] > 1)
        BY DEF TwiceOnlyWhenContested
    <2>1. j \in AnyJob /\ dsGiven[j] \in Nat
        BY DEF AccountInv, ShapeOK
    <2> QED BY <2>1 DEF AccountInv, ContestInv
<1>3. LatestIsNewest
    BY DEF AccountInv, LatestInv, LatestIsNewest
<1> QED BY <1>1, <1>2, <1>3 DEF JobsAccounted

(* For any number of subscribers, consumers and publications: a job that    *)
(* was queued is in a lane, in hands, handed out or lost with a consumer    *)
(* that died; it is handed out twice only if two consumers had read it at   *)
(* once; and the signal shown as the latest is the newest, unless two       *)
(* publications overlapped.                                                 *)
THEOREM JobsAreAccounted == DsSpec => []JobsAccounted
<1>1. DsInit => AccountInv
    <2>1. DsInit => KeptInv
        <3> SUFFICES ASSUME DsInit PROVE KeptInv
            OBVIOUS
        <3>1. \A s \in Signals : ~Out(s)
            BY DEF DsInit, Out, Unpublished
        <3> QED BY <3>1 DEF KeptInv
    <2> QED BY <2>1, ShapeInit, VersionInit, JobInit, ContestInit DEF AccountInv
<1>2. AccountInv /\ [DsNext]_dsVars => AccountInv'
    BY ShapeStep, VersionStep, JobStep, ContestStep, KeptStep DEF AccountInv
<1> QED BY <1>1, <1>2, AccountImplies, PTL DEF DsSpec

-----------------------------------------------------------------------------
(* Higher lanes first.  A batch that is not full has left nothing due in    *)
(* the lanes it has passed; what it has read of its lane fills it or is all *)
(* that is due there.                                                       *)

Now(c) == dsBatch[c].now
Full(c) == Cardinality(Got(c)) >= BatchLimit
LeftNothing(c) == \A l \in 1..3 : l < At(c) => Due(Lanes[l], Now(c)) = {}

PassedLane(c) ==
    /\ IsFiniteSet(Got(c)) /\ IsFiniteSet(Took(c))
    /\ At(c) # 0 =>
          /\ Now(c) <= dsClock
          /\ Full(c) \/ LeftNothing(c)
    /\ Took(c) # {} =>
          /\ At(c) # 0 /\ ~Full(c)
          /\ \/ Cardinality(Got(c)) + Cardinality(Took(c)) = BatchLimit
             \/ Due(Lanes[At(c)], Now(c)) \subseteq Took(c)

LaneInv ==
    /\ \A lane \in LaneNames : IsFiniteSet(dsQueue[lane])
    /\ \A c \in Consumers : PassedLane(c)

LEMMA LaneInit == DsInit => LaneInv
<1> SUFFICES ASSUME DsInit PROVE LaneInv
    OBVIOUS
<1>1. \A c \in Consumers : Got(c) = {} /\ Took(c) = {} /\ At(c) = 0
    BY RestingShape DEF DsInit, Got, Took, At
<1>2. \A lane \in LaneNames : dsQueue[lane] = {}
    BY DEF DsInit
<1> QED BY <1>1, <1>2, FS_EmptySet DEF LaneInv, PassedLane

(* Of a finite set, Earliest takes all there is or as many as there is room for. *)
LEMMA EarliestFills ==
    ASSUME NEW jobs, IsFiniteSet(jobs), NEW n \in Nat, NEW some \in Earliest(jobs, n)
    PROVE  IsFiniteSet(some) /\ (Cardinality(some) = n \/ some = jobs)
<1>1. some \subseteq jobs
    BY DEF Earliest
<1>2. IsFiniteSet(some) /\ (Cardinality(some) = Cardinality(jobs) => some = jobs)
    BY <1>1, FS_Subset
<1>3. Cardinality(some) = n \/ Cardinality(some) = Cardinality(jobs)
    BY DEF Earliest
<1> QED BY <1>2, <1>3

(* What a consumer has passed stays passed while others move: its lanes     *)
(* only lose jobs, or gain jobs that are not due to it.                     *)
LEMMA PassedStable ==
    ASSUME ShapeOK, ShapeOK', NEW c \in Consumers, PassedLane(c), dsBatch'[c] = dsBatch[c],
           dsClock' >= dsClock,
           \A lane \in LaneNames : \A j \in dsQueue'[lane] : j \in dsQueue[lane] \/ j.due > dsClock
    PROVE  PassedLane(c)'
<1>1. Got(c)' = Got(c) /\ Took(c)' = Took(c) /\ At(c)' = At(c) /\ Now(c)' = Now(c)
    BY DEF Got, Took, At, Now
<1>2. At(c) \in 0..4 /\ Now(c) \in Nat /\ dsClock \in Nat /\ (Took(c) # {} => At(c) \in 1..3)
    BY DEF ShapeOK, At, Now, Took
<1>3. ASSUME NEW l \in 1..3, At(c) # 0 PROVE Due(Lanes[l], Now(c))' \subseteq Due(Lanes[l], Now(c))
    <2> SUFFICES ASSUME NEW j \in Due(Lanes[l], Now(c))' PROVE j \in Due(Lanes[l], Now(c))
        OBVIOUS
    <2>1. Lanes[l] \in LaneNames
        BY LaneNumbers
    <2>2. j \in dsQueue'[Lanes[l]] /\ j.due <= Now(c)
        BY <1>1 DEF Due
    <2>3. Now(c) <= dsClock
        BY <1>3 DEF PassedLane
    <2>4. CASE j \in dsQueue[Lanes[l]]
        BY <2>2, <2>4 DEF Due
    <2>5. CASE j \notin dsQueue[Lanes[l]]
        <3>1. j.due > dsClock
            BY <2>1, <2>2, <2>5
        <3>2. j.due \in Nat
            BY <2>1, <2>2 DEF ShapeOK, AnyJob
        <3> QED BY <1>2, <2>2, <2>3, <3>1, <3>2
    <2> QED BY <2>4, <2>5
<1>4. Full(c)' <=> Full(c)
    BY <1>1 DEF Full
<1>5. LeftNothing(c) /\ At(c) # 0 => LeftNothing(c)'
    BY <1>1, <1>3 DEF LeftNothing
<1>6. At(c) # 0 => Now(c) <= dsClock'
    BY <1>2 DEF PassedLane, ShapeOK
<1> QED BY <1>1, <1>2, <1>3, <1>4, <1>5, <1>6 DEF PassedLane

LEMMA LaneStep ==
    ASSUME ShapeOK, ShapeOK', VersionInv, JobInv, LaneInv, [DsNext]_dsVars
    PROVE  LaneInv'
<1>0. BatchLimit \in Nat \ {0}
    BY DistributionAssumption DEF DistributionAssumption
(* Only the lanes change, or nothing of them: what was passed stays passed. *)
<1>1. ASSUME UNCHANGED dsBatch, dsClock' >= dsClock,
             \A lane \in LaneNames : IsFiniteSet(dsQueue'[lane]),
             \A lane \in LaneNames : \A j \in dsQueue'[lane] : j \in dsQueue[lane] \/ j.due > dsClock
      PROVE  LaneInv'
    BY <1>1, PassedStable DEF LaneInv
<1>2. ASSUME NEW s \in Signals, Enqueue(s) PROVE LaneInv'
    <2>1. UNCHANGED <<dsBatch, dsClock>> /\ dsClock \in Nat
        BY <1>2 DEF Enqueue, ShapeOK
    <2>2. CASE dsPublish[s].todo = {}
        BY <1>1, <1>2, <2>1, <2>2 DEF Enqueue, LaneInv
    <2>3. CASE dsPublish[s].todo # {}
        <3>1. PICK j \in AnyJob, lane \in LaneNames :
                  j.due > dsClock /\ dsQueue' = [dsQueue EXCEPT ![lane] = @ \cup {j}]
            BY <1>2, <2>3, EnqueueEffect
        <3>2. \A l \in LaneNames : dsQueue'[l] = dsQueue[l] \/ dsQueue'[l] = dsQueue[l] \cup {j}
            BY <3>1 DEF ShapeOK
        <3>3. \A l \in LaneNames : IsFiniteSet(dsQueue'[l])
            <4> TAKE l \in LaneNames
            <4>1. IsFiniteSet(dsQueue[l]) /\ IsFiniteSet(dsQueue[l] \cup {j})
                BY FS_AddElement DEF LaneInv
            <4> QED BY <3>2, <4>1
        <3> QED BY <1>1, <2>1, <3>1, <3>2, <3>3
    <2> QED BY <2>2, <2>3
(* A step of one consumer that leaves its own part in order.                *)
<1>3. ASSUME NEW c \in Consumers, PassedLane(c)', UNCHANGED dsClock,
             \A d \in Consumers : d # c => dsBatch'[d] = dsBatch[d],
             \A lane \in LaneNames : dsQueue'[lane] \subseteq dsQueue[lane]
      PROVE  LaneInv'
    <2>1. \A lane \in LaneNames : IsFiniteSet(dsQueue'[lane])
        BY <1>3, FS_Subset DEF LaneInv
    <2>2. dsClock' >= dsClock
        BY <1>3 DEF ShapeOK
    <2>3. \A d \in Consumers : d # c => PassedLane(d)'
        BY <1>3, <2>2, PassedStable DEF LaneInv
    <2> QED BY <1>3, <2>1, <2>3 DEF LaneInv
<1>4. ASSUME NEW c \in Consumers, StartBatch(c) PROVE LaneInv'
    <2>1. /\ UNCHANGED <<dsQueue, dsClock>>
          /\ Got(c)' = {} /\ Took(c)' = {} /\ At(c)' = 1 /\ Now(c)' = dsClock
          /\ \A d \in Consumers : d # c => dsBatch'[d] = dsBatch[d]
        BY <1>4 DEF StartBatch, Got, Took, At, Now, ShapeOK
    <2>2. LeftNothing(c)' /\ dsClock <= dsClock
        BY <2>1 DEF LeftNothing, ShapeOK
    <2>3. PassedLane(c)'
        BY <2>1, <2>2, FS_EmptySet DEF PassedLane
    <2> QED BY <1>3, <2>1, <2>3
<1>5. ASSUME NEW c \in Consumers, ReadDue(c) PROVE LaneInv'
    <2> DEFINE due == Due(Lanes[At(c)], Now(c))
    <2>1. PICK read \in Earliest(due, Room(c)) : dsBatch' = [dsBatch EXCEPT ![c].read = read]
        BY <1>5 DEF ReadDue, At, Now
    <2>2. /\ UNCHANGED <<dsQueue, dsClock>> /\ At(c) \in 1..3
          /\ Got(c)' = Got(c) /\ Took(c)' = read /\ At(c)' = At(c) /\ Now(c)' = Now(c)
          /\ \A d \in Consumers : d # c => dsBatch'[d] = dsBatch[d]
        BY <1>5, <2>1 DEF ReadDue, Got, Took, At, Now, ShapeOK
    <2>3. Cardinality(Got(c)) \in Nat /\ PassedLane(c)
        BY FS_CardinalityType DEF LaneInv, PassedLane
    <2>4. Room(c) \in Nat /\ Room(c) = BatchLimit - Cardinality(Got(c)) /\ ~Full(c)
        BY <1>0, <1>5, <2>3 DEF ReadDue, Room, Got, Full
    <2>5. IsFiniteSet(due)
        BY <2>2, LaneNumbers, FS_Subset DEF Due, LaneInv
    <2>6. IsFiniteSet(read) /\ (Cardinality(read) = Room(c) \/ read = due)
        BY <2>1, <2>4, <2>5, EarliestFills
    <2>7. Due(Lanes[At(c)], Now(c))' = due
        BY <2>2 DEF Due
    <2>8. ~Full(c)' /\ (LeftNothing(c) => LeftNothing(c)')
        BY <2>2, <2>4 DEF Full, LeftNothing, Due
    <2>9. Cardinality(read) = Room(c) => Cardinality(Got(c)') + Cardinality(Took(c)') = BatchLimit
        BY <1>0, <2>2, <2>3, <2>4
    <2>10. PassedLane(c)'
        <3>1. At(c) # 0 /\ Now(c) <= dsClock /\ LeftNothing(c)
            BY <2>2, <2>3, <2>4 DEF PassedLane
        <3>2. IsFiniteSet(Got(c)') /\ IsFiniteSet(Took(c)')
            BY <2>2, <2>3, <2>6 DEF PassedLane
        <3>3. Now(c)' <= dsClock' /\ LeftNothing(c)' /\ At(c)' # 0
            BY <2>2, <2>8, <3>1
        <3>4. \/ Cardinality(Got(c)') + Cardinality(Took(c)') = BatchLimit
              \/ Due(Lanes[At(c)], Now(c))' \subseteq Took(c)'
            BY <2>2, <2>6, <2>7, <2>9
        <3> QED BY <2>8, <3>2, <3>3, <3>4 DEF PassedLane
    <2> QED BY <1>3, <2>2, <2>10
<1>6. ASSUME NEW c \in Consumers, NothingDue(c) PROVE LaneInv'
    <2>1. /\ UNCHANGED <<dsQueue, dsClock>> /\ At(c) \in 1..3
          /\ Took(c) = {} /\ Got(c)' = Got(c) /\ Took(c)' = {} /\ At(c)' = At(c) + 1 /\ Now(c)' = Now(c)
          /\ Due(Lanes[At(c)], Now(c)) = {}
          /\ \A d \in Consumers : d # c => dsBatch'[d] = dsBatch[d]
        BY <1>6 DEF NothingDue, Got, Took, At, Now, ShapeOK
    <2>2. PassedLane(c) /\ Cardinality(Got(c)) \in Nat
        BY FS_CardinalityType DEF LaneInv, PassedLane
    <2>3. ~Full(c)
        BY <1>0, <1>6, <2>2 DEF NothingDue, Room, Got, Full
    <2>4. LeftNothing(c)
        BY <2>1, <2>2, <2>3 DEF PassedLane
    <2>5. \A l \in 1..3 : l < At(c) + 1 => l < At(c) \/ l = At(c)
        BY <2>1
    <2>6. LeftNothing(c)'
        BY <2>1, <2>4, <2>5 DEF LeftNothing, Due
    <2>7. Now(c)' <= dsClock'
        BY <2>1, <2>2 DEF PassedLane
    <2>8. PassedLane(c)'
        BY <2>1, <2>2, <2>6, <2>7, FS_EmptySet DEF PassedLane
    <2> QED BY <1>3, <2>1, <2>8
<1>7. ASSUME NEW c \in Consumers, RemoveRead(c) PROVE LaneInv'
    <2>1. /\ UNCHANGED dsClock /\ Took(c) # {} /\ At(c) \in 1..3
          /\ dsQueue' = [dsQueue EXCEPT ![Lanes[At(c)]] = @ \ Took(c)]
          /\ Got(c)' = Got(c) \cup Took(c) /\ Took(c)' = {} /\ At(c)' = At(c) + 1 /\ Now(c)' = Now(c)
          /\ \A d \in Consumers : d # c => dsBatch'[d] = dsBatch[d]
        BY <1>7 DEF RemoveRead, Got, Took, At, Now, ShapeOK
    <2>2. PassedLane(c) /\ IsFiniteSet(Got(c)) /\ IsFiniteSet(Took(c)) /\ ~Full(c)
        BY <2>1 DEF LaneInv, PassedLane
    <2>3. \A lane \in LaneNames : dsQueue'[lane] \subseteq dsQueue[lane]
        BY <2>1 DEF ShapeOK
    <2>4. Got(c) \cap Took(c) = {}
        <3> SUFFICES ASSUME NEW j \in Got(c), j \in Took(c) PROVE FALSE
            OBVIOUS
        <3>1. PICK l \in 1..3 : l < At(c) /\ Issued(j, Lanes[l])
            BY DEF JobInv
        <3>2. Lanes[l] = Lanes[At(c)]
            BY <3>1, IssuedOnce DEF JobInv
        <3> QED BY <2>1, <3>1, <3>2, LaneNumbers
    <2>5. IsFiniteSet(Got(c)') /\ Cardinality(Got(c)') = Cardinality(Got(c)) + Cardinality(Took(c))
        <3>1. Cardinality(Got(c) \cup Took(c)) =
                 Cardinality(Got(c)) + Cardinality(Took(c)) - Cardinality(Got(c) \cap Took(c))
            BY <2>2, FS_Union
        <3>2. Cardinality(Got(c) \cap Took(c)) = 0
            BY <2>4, FS_EmptySet
        <3>3. Cardinality(Got(c)) \in Nat /\ Cardinality(Took(c)) \in Nat
            BY <2>2, FS_CardinalityType
        <3> QED BY <2>1, <2>2, <3>1, <3>2, <3>3, FS_Union
    <2>6. Full(c)' \/ LeftNothing(c)'
        <3>1. CASE Cardinality(Got(c)) + Cardinality(Took(c)) = BatchLimit
            BY <1>0, <2>5, <3>1 DEF Full
        <3>2. CASE Due(Lanes[At(c)], Now(c)) \subseteq Took(c)
            <4> DEFINE left(l) == {j \in dsQueue'[Lanes[l]] : j.due <= Now(c)}
            <4>1. left(At(c)) = {}
                BY <2>1, <3>2, LaneNumbers DEF Due, ShapeOK
            <4>2. \A l \in 1..3 : l < At(c) => left(l) = {}
                <5>1. LeftNothing(c)
                    BY <2>1, <2>2 DEF PassedLane
                <5> QED BY <2>3, <5>1, LaneNumbers DEF LeftNothing, Due
            <4>3. \A l \in 1..3 : l < At(c) + 1 => l < At(c) \/ l = At(c)
                BY <2>1
            <4>4. \A l \in 1..3 : l < At(c) + 1 => left(l) = {}
                BY <4>1, <4>2, <4>3
            <4> QED BY <2>1, <4>4 DEF LeftNothing, Due
        <3> QED BY <2>1, <2>2, <3>1, <3>2 DEF PassedLane
    <2>7. Now(c)' <= dsClock'
        BY <2>1, <2>2 DEF PassedLane
    <2>8. PassedLane(c)'
        BY <2>1, <2>5, <2>6, <2>7, FS_EmptySet DEF PassedLane
    <2> QED BY <1>3, <2>1, <2>3, <2>8
<1>8. ASSUME NEW c \in Consumers, ReturnBatch(c) \/ ConsumerDies(c) PROVE LaneInv'
    <2>1. /\ UNCHANGED <<dsQueue, dsClock>>
          /\ Got(c)' = {} /\ Took(c)' = {} /\ At(c)' = 0
          /\ \A d \in Consumers : d # c => dsBatch'[d] = dsBatch[d]
        BY <1>8, RestingShape DEF ReturnBatch, ConsumerDies, Got, Took, At, ShapeOK
    <2>2. PassedLane(c)'
        BY <2>1, FS_EmptySet DEF PassedLane
    <2> QED BY <1>3, <2>1, <2>2
<1>9. CASE DsTick \/ UNCHANGED dsVars \/ \E s \in Signals : TakeVersion(s) \/ SaveLatest(s)
    <2>1. /\ UNCHANGED <<dsBatch, dsQueue>>
          /\ dsClock' = dsClock \/ dsClock' = dsClock + 1
        <3>1. CASE DsTick
            BY <3>1 DEF DsTick
        <3>2. CASE UNCHANGED dsVars
            BY <3>2 DEF dsVars
        <3>3. ASSUME NEW s \in Signals, TakeVersion(s) \/ SaveLatest(s)
              PROVE  UNCHANGED <<dsBatch, dsQueue, dsClock>>
            BY <3>3 DEF TakeVersion, SaveLatest
        <3> QED BY <1>9, <3>1, <3>2, <3>3
    <2>2. dsClock' >= dsClock
        BY <2>1 DEF ShapeOK
    <2> QED BY <1>1, <2>1, <2>2 DEF LaneInv
<1> QED BY <1>2, <1>4, <1>5, <1>6, <1>7, <1>8, <1>9 DEF DsNext

-----------------------------------------------------------------------------
LEMMA ReadsInOrder ==
    ASSUME ShapeOK, LaneInv, [DsNext]_dsVars, NEW c \in Consumers,
           dsBatch[c].read = {}, dsBatch'[c].read # {}
    PROVE  \A l \in 1..(dsBatch[c].lane - 1) : Due(Lanes[l], dsBatch[c].now) = {}
<1>1. ReadDue(c)
    <2>1. ASSUME NEW d \in Consumers,
                 \/ StartBatch(d) \/ NothingDue(d) \/ RemoveRead(d)
                 \/ ReturnBatch(d) \/ ConsumerDies(d)
          PROVE  dsBatch'[c].read = {}
        BY <2>1, RestingShape DEF StartBatch, NothingDue, RemoveRead, ReturnBatch, ConsumerDies, ShapeOK
    <2>2. ASSUME NEW d \in Consumers, ReadDue(d), d # c PROVE dsBatch'[c] = dsBatch[c]
        BY <2>2 DEF ReadDue, ShapeOK
    <2>3. ASSUME \/ DsTick \/ UNCHANGED dsVars
                 \/ \E s \in Signals : TakeVersion(s) \/ SaveLatest(s) \/ Enqueue(s)
          PROVE  UNCHANGED dsBatch
        BY <2>3 DEF DsTick, dsVars, TakeVersion, SaveLatest, Enqueue
    <2> QED BY <2>1, <2>2, <2>3 DEF DsNext
<1>2. At(c) \in 1..3 /\ Room(c) > 0 /\ PassedLane(c)
    BY <1>1 DEF ReadDue, At, LaneInv
<1>3. ~Full(c)
    <2>1. Cardinality(Got(c)) \in Nat /\ BatchLimit \in Nat
        BY <1>2, FS_CardinalityType, DistributionAssumption DEF PassedLane, DistributionAssumption
    <2> QED BY <1>2, <2>1 DEF Room, Got, Full
<1>4. LeftNothing(c)
    BY <1>2, <1>3 DEF PassedLane
<1>5. \A l \in 1..(At(c) - 1) : l \in 1..3 /\ l < At(c)
    BY <1>2
<1> QED BY <1>4, <1>5 DEF LeftNothing, At, Now

(* For any number of jobs and consumers: a batch reads a lane only when     *)
(* nothing it could take is left in the lanes above it.                     *)
THEOREM LanesAreReadInOrder == DsSpec => HigherLanesFirst
<1> DEFINE Inv == ShapeOK /\ VersionInv /\ LatestInv /\ JobInv /\ LaneInv
           InOrder == \A c \in Consumers : dsBatch[c].read = {} /\ dsBatch'[c].read # {} =>
                          \A l \in 1..(dsBatch[c].lane - 1) : Due(Lanes[l], dsBatch[c].now) = {}
<1>1. DsInit => Inv
    BY ShapeInit, VersionInit, JobInit, LaneInit
<1>2. Inv /\ [DsNext]_dsVars => Inv'
    <2> SUFFICES ASSUME Inv, [DsNext]_dsVars PROVE Inv'
        OBVIOUS
    <2>1. ShapeOK'
        BY ShapeStep
    <2> QED BY <2>1, VersionStep, JobStep, LaneStep
<1>3. Inv /\ [DsNext]_dsVars => InOrder
    BY ReadsInOrder
<1>4. Inv /\ [DsNext]_dsVars => [InOrder]_dsVars
    BY <1>3
<1> HIDE DEF Inv, InOrder
<1>5. DsSpec => [][InOrder]_dsVars
    BY <1>1, <1>2, <1>4, PTL DEF DsSpec
<1> QED BY <1>5 DEF HigherLanesFirst, InOrder

-----------------------------------------------------------------------------
(* The broadcasts of Delivery.                                              *)
Ids == {m.id : m \in ToSet(Messages)}
Envelope == [name : {m.name : m \in ToSet(Messages)}, id : Ids, stream : Streams, number : Nat, turn : Nat]
Cast == [event : Envelope, to : SUBSET Clients, stale : SUBSET Clients]

(* The types of what is kept, without the bounds on the counters.           *)
DvShape ==
    /\ dvPublished \in Nat /\ dvInbox \in Seq(ToSet(Messages))
    /\ dvSequence \in [Streams -> Nat] /\ dvTurn \in Nat
    /\ dvRecent \in Seq(Ids) /\ dvBuffer \in [Streams -> Seq(Envelope)]
    /\ dvRegistered \in SUBSET Clients /\ dvDropped \in SUBSET Clients
    /\ dvJoined \in [Clients -> Nat] /\ dvOpen \in [Clients -> {"new", "open", "closed"}]
    /\ dvHandled \in [Clients -> BOOLEAN]
    /\ dvCasts \in SUBSET Cast
    /\ dvGot \in [Clients -> Seq(Envelope)] /\ dvOwed \in [Clients -> SUBSET Envelope]

(* The envelope that the head of the inbox is put in. *)
Drawn(m) == [name |-> m.name, id |-> m.id, stream |-> m.stream,
             number |-> dvSequence[m.stream] + 1, turn |-> dvTurn + 1]

(* What a broadcast still awaits after c, and what becomes of it.           *)
Rest(b, c) == Ahead(b.to \ {c}, b.event)
On(b, c, failed) == [event |-> b.event, to |-> Rest(b, c), stale |-> b.stale \cup failed]

-----------------------------------------------------------------------------
(* What LastFew leaves: the last entries, in their order.                   *)
LEMMA LastFewLemma ==
    ASSUME NEW S, NEW s \in Seq(S), NEW n \in Nat \ {0}
    PROVE  /\ LastFew(s, n) \in Seq(S)
           /\ Len(LastFew(s, n)) = IF Len(s) > n THEN n ELSE Len(s)
           /\ \A i \in 1..Len(LastFew(s, n)) : LastFew(s, n)[i] = s[Len(s) - Len(LastFew(s, n)) + i]
<1>1. CASE Len(s) > n
    <2> DEFINE m == Len(s) - n + 1
    <2>1. m \in Int /\ Len(s) \in Int /\ m <= Len(s) /\ Len(s) - m + 1 = n /\ m >= 1
        BY <1>1
    <2>2. \A i \in m..Len(s) : s[i] \in S
        BY <2>1
    <2>3. LastFew(s, n) = SubSeq(s, m, Len(s))
        BY <1>1 DEF LastFew
    <2> HIDE DEF m
    <2>4. /\ SubSeq(s, m, Len(s)) \in Seq(S)
          /\ Len(SubSeq(s, m, Len(s))) = n
          /\ \A i \in 1..n : SubSeq(s, m, Len(s))[i] = s[m + i - 1]
        BY <2>1, <2>2, SubSeqProperties
    <2>5. \A i \in 1..n : m + i - 1 = Len(s) - n + i
        BY <2>1
    <2> QED BY <1>1, <2>3, <2>4, <2>5
<1>2. CASE ~(Len(s) > n)
    BY <1>2 DEF LastFew
<1> QED BY <1>1, <1>2

LEMMA DrawnShape ==
    ASSUME DvShape, dvInbox # <<>>
    PROVE  /\ Head(dvInbox).stream \in Streams /\ Head(dvInbox).id \in Ids
           /\ Drawn(Head(dvInbox)) \in Envelope
           /\ Drawn(Head(dvInbox)).stream = Head(dvInbox).stream /\ Drawn(Head(dvInbox)).id = Head(dvInbox).id
           /\ Drawn(Head(dvInbox)).number = dvSequence[Head(dvInbox).stream] + 1
           /\ Drawn(Head(dvInbox)).turn = dvTurn + 1
           /\ Tail(dvInbox) \in Seq(ToSet(Messages))
<1>1. Head(dvInbox) \in ToSet(Messages) /\ Tail(dvInbox) \in Seq(ToSet(Messages))
    BY HeadTailProperties DEF DvShape
<1>2. Head(dvInbox).stream \in Streams /\ Head(dvInbox).id \in Ids
    BY <1>1 DEF Streams, Ids
<1>3. dvSequence[Head(dvInbox).stream] + 1 \in Nat /\ dvTurn + 1 \in Nat
    BY <1>2 DEF DvShape
<1>4. Head(dvInbox).name \in {m.name : m \in ToSet(Messages)}
    BY <1>1
<1> QED BY <1>1, <1>2, <1>3, <1>4 DEF Drawn, Envelope

-----------------------------------------------------------------------------
(* The kinds of step, as far as what follows tells them apart.              *)
Settled == \A c \in Clients : dvOpen[c] = "new" <=> dvOpen'[c] = "new"

Quiet ==
    /\ UNCHANGED <<dvNumbered, dvCasts, dvRegistered, dvJoined, dvHistory>>
    /\ Settled

(* A new broadcast, or a duplicate that only draws a number. *)
Enters(m) ==
    /\ dvSequence' = [dvSequence EXCEPT ![m.stream] = @ + 1] /\ dvTurn' = dvTurn + 1
    /\ \/ m.id \in ToSet(dvRecent) /\ UNCHANGED <<dvRecent, dvBuffer, dvCasts, dvOwed>>
       \/ /\ m.id \notin ToSet(dvRecent)
          /\ dvRecent' = LastFew(Append(dvRecent, m.id), RecentLimit)
          /\ dvBuffer' = [dvBuffer EXCEPT ![m.stream] = LastFew(Append(@, Drawn(m)), BufferLimit)]
          /\ dvCasts' = dvCasts \cup {[event |-> Drawn(m), to |-> c, stale |-> {}] :
                                         c \in {Ahead(dvRegistered, Drawn(m))} \ {{}}}
          /\ dvOwed' = [c \in Clients |-> IF c \in dvRegistered /\ Interested(c, Drawn(m))
                                             THEN dvOwed[c] \cup {Drawn(m)} ELSE dvOwed[c]]
    /\ UNCHANGED <<dvRegistered, dvPeers, dvGot, dvDropped>>

(* A send ended: a client that did not get the message has failed. *)
Sent(b, c) ==
    /\ InTurn(b, c)
    /\ \E failed \in {{}, {c}} : /\ failed = {} => Receives(c, b.event)
                                 /\ Advance(b, c, failed)
    /\ Receives(c, b.event) \/ UNCHANGED dvGot
    /\ UNCHANGED <<dvNumbered, dvPeers, dvOwed>>

LEMMA BeginKind == ASSUME DvShape, BeginBroadcast PROVE dvInbox # <<>> /\ Enters(Head(dvInbox))
BY DEF BeginBroadcast, Enters, Drawn, Remember, Buffered

LEMMA Kinds ==
    ASSUME DvShape, [DvNext]_dvVars
    PROVE  \/ Quiet
           \/ dvInbox # <<>> /\ Enters(Head(dvInbox))
           \/ \E c \in Clients : ConnectClient(c) \/ HandlerEnds(c)
           \/ \E b \in dvCasts, c \in Clients : Sent(b, c)
<1>1. CASE PublishMessage
    BY <1>1 DEF PublishMessage, Quiet, Settled, dvPeers
<1>2. CASE LoseChannel
    BY <1>2 DEF LoseChannel, Quiet, Settled, dvPeers
<1>3. CASE Resubscribe
    BY <1>3 DEF Resubscribe, Quiet, Settled, dvPeers
<1>4. CASE BeginBroadcast
    BY <1>4, BeginKind
<1>5. ASSUME NEW c \in Clients, PeerCloses(c) PROVE Quiet
    BY <1>5 DEF PeerCloses, Quiet, Settled, DvShape
<1>6. ASSUME NEW b \in dvCasts, NEW c \in Clients, SendText(b, c) \/ SendFails(b, c) PROVE Sent(b, c)
    BY <1>6 DEF SendText, SendFails, Sent
<1>7. CASE UNCHANGED dvVars
    BY <1>7 DEF dvVars, Quiet, Settled, dvNumbered, dvHistory
<1> QED BY <1>1, <1>2, <1>3, <1>4, <1>5, <1>6, <1>7 DEF DvNext

-----------------------------------------------------------------------------
LEMMA DvShapeInit == DvInit => DvShape
<1> SUFFICES ASSUME DvInit PROVE DvShape
    OBVIOUS
<1>1. dvSequence \in [Streams -> Nat] /\ dvBuffer \in [Streams -> Seq(Envelope)]
    BY DEF DvInit
<1>2. dvOpen \in [Clients -> {"new", "open", "closed"}] /\ dvHandled \in [Clients -> BOOLEAN]
    BY DEF DvInit
<1>3. dvGot \in [Clients -> Seq(Envelope)] /\ dvOwed \in [Clients -> SUBSET Envelope]
    BY DEF DvInit
<1> QED BY <1>1, <1>2, <1>3 DEF DvInit, DvShape

(* What Advance leaves of a broadcast: it awaits the rest, or has ended.    *)
GoesOn(b, c, failed) ==
    /\ On(b, c, failed) \in Cast /\ On(b, c, failed).event = b.event
    /\ On(b, c, failed).to = Rest(b, c) /\ On(b, c, failed).stale = b.stale \cup failed
    /\ Rest(b, c) \subseteq b.to \ {c} /\ b.to \subseteq Clients /\ b.stale \subseteq Clients
    /\ \/ /\ Rest(b, c) # {}
          /\ dvCasts' = (dvCasts \ {b}) \cup {On(b, c, failed)}
          /\ UNCHANGED <<dvRegistered, dvDropped>>
       \/ /\ Rest(b, c) = {}
          /\ dvCasts' = dvCasts \ {b}
          /\ dvRegistered' = dvRegistered \ (b.stale \cup failed)
          /\ dvDropped' = dvDropped \cup (b.stale \cup failed)

LEMMA AdvanceCases ==
    ASSUME DvShape, NEW b \in dvCasts, NEW c, NEW failed \in SUBSET Clients, Advance(b, c, failed)
    PROVE  GoesOn(b, c, failed)
<1>1. b \in [event : {b.event}, to : {b.to}, stale : {b.stale}]
      /\ b.event \in Envelope /\ b.to \in SUBSET Clients /\ b.stale \in SUBSET Clients
    BY DEF DvShape, Cast
<1>2. Rest(b, c) \subseteq b.to \ {c}
    BY DEF Rest, Ahead
<1>3. On(b, c, failed) \in Cast
    BY <1>1, <1>2 DEF Cast, On
<1>4. CASE Rest(b, c) # {}
    BY <1>1, <1>2, <1>3, <1>4 DEF Advance, On, Rest, GoesOn
<1>5. CASE Rest(b, c) = {}
    BY <1>1, <1>2, <1>3, <1>5 DEF Advance, Disconnect, Rest, On, GoesOn
<1> QED BY <1>4, <1>5

LEMMA AdvanceShape ==
    ASSUME DvShape, NEW b \in dvCasts, NEW c \in Clients, NEW failed \in SUBSET Clients, Advance(b, c, failed)
    PROVE  /\ dvCasts' \in SUBSET Cast
           /\ dvRegistered' \in SUBSET Clients /\ dvDropped' \in SUBSET Clients
<1> DEFINE new == On(b, c, failed)
<1>1. new \in Cast /\ b.stale \cup failed \in SUBSET Clients
    BY AdvanceCases DEF GoesOn
<1>2. \/ dvCasts' = (dvCasts \ {b}) \cup {new} /\ UNCHANGED <<dvRegistered, dvDropped>>
      \/ /\ dvCasts' = dvCasts \ {b} /\ dvRegistered' = dvRegistered \ (b.stale \cup failed)
         /\ dvDropped' = dvDropped \cup (b.stale \cup failed)
    BY AdvanceCases DEF GoesOn
<1> HIDE DEF new
<1> QED BY <1>1, <1>2 DEF DvShape

LEMMA ReceivesShape ==
    ASSUME DvShape, NEW b \in dvCasts, NEW c \in Clients, Receives(c, b.event)
    PROVE  dvGot' \in [Clients -> Seq(Envelope)]
<1>1. b.event \in Envelope
    BY DEF DvShape, Cast
<1>2. Append(dvGot[c], b.event) \in Seq(Envelope)
    BY <1>1 DEF DvShape
<1> QED BY <1>2 DEF Receives, DvShape

LEMMA BeginsShape ==
    ASSUME DvShape, BeginBroadcast
    PROVE  DvShape'
<1> DEFINE m == Head(dvInbox)
           e == Drawn(m)
<1>1. dvInbox # <<>> /\ Enters(m) /\ dvInbox' = Tail(dvInbox)
    BY BeginKind DEF BeginBroadcast
<1>2. m.stream \in Streams /\ m.id \in Ids /\ e \in Envelope /\ Tail(dvInbox) \in Seq(ToSet(Messages))
    BY <1>1, DrawnShape
<1>3. UNCHANGED <<dvPublished, dvRegistered, dvJoined, dvOpen, dvHandled, dvGot, dvDropped>>
    BY DEF BeginBroadcast, dvPeers
<1> HIDE DEF m, e
<1>4. dvSequence' \in [Streams -> Nat] /\ dvTurn' \in Nat
    BY <1>1, <1>2 DEF Enters, DvShape
<1>5. CASE UNCHANGED <<dvRecent, dvBuffer, dvCasts, dvOwed>>
    BY <1>1, <1>2, <1>3, <1>4, <1>5 DEF DvShape
<1>6. CASE ~UNCHANGED <<dvRecent, dvBuffer, dvCasts, dvOwed>>
    <2>1. /\ dvRecent' = LastFew(Append(dvRecent, m.id), RecentLimit)
          /\ dvBuffer' = [dvBuffer EXCEPT ![m.stream] = LastFew(Append(@, e), BufferLimit)]
          /\ dvCasts' = dvCasts \cup {[event |-> e, to |-> c, stale |-> {}] :
                                         c \in {Ahead(dvRegistered, e)} \ {{}}}
          /\ dvOwed' = [c \in Clients |-> IF c \in dvRegistered /\ Interested(c, e)
                                             THEN dvOwed[c] \cup {e} ELSE dvOwed[c]]
        BY <1>1, <1>6 DEF Enters, e
    <2>2. Append(dvRecent, m.id) \in Seq(Ids) /\ Append(dvBuffer[m.stream], e) \in Seq(Envelope)
        BY <1>2 DEF DvShape
    <2>3. RecentLimit \in Nat \ {0} /\ BufferLimit \in Nat \ {0}
        BY DeliveryAssumption DEF DeliveryAssumption
    <2>4. dvRecent' \in Seq(Ids)
        BY <2>1, <2>2, <2>3, LastFewLemma
    <2>5. LastFew(Append(dvBuffer[m.stream], e), BufferLimit) \in Seq(Envelope)
        BY <2>2, <2>3, LastFewLemma
    <2>6. dvBuffer' \in [Streams -> Seq(Envelope)]
        BY <2>1, <2>5, <1>2 DEF DvShape
    <2>7. Ahead(dvRegistered, e) \in SUBSET Clients
        BY DEF Ahead, DvShape
    <2>8. dvCasts' \in SUBSET Cast
        BY <1>2, <2>1, <2>7 DEF Cast, DvShape
    <2>9. dvOwed' \in [Clients -> SUBSET Envelope]
        BY <1>2, <2>1 DEF DvShape
    <2> QED BY <1>1, <1>2, <1>3, <1>4, <2>4, <2>6, <2>8, <2>9 DEF DvShape
<1> QED BY <1>5, <1>6

LEMMA DvShapeStep == DvShape /\ [DvNext]_dvVars => DvShape'
<1> SUFFICES ASSUME DvShape, [DvNext]_dvVars PROVE DvShape'
    OBVIOUS
<1>1. CASE PublishMessage
    <2>1. dvPublished + 1 \in 1..Len(Messages)
        BY <1>1 DEF PublishMessage, DvShape
    <2>2. Messages[dvPublished + 1] \in ToSet(Messages)
        BY <2>1, DeliveryAssumption DEF DeliveryAssumption
    <2>3. dvInbox' \in Seq(ToSet(Messages))
        BY <1>1, <2>2 DEF PublishMessage, DvShape
    <2> QED BY <1>1, <2>3 DEF PublishMessage, DvShape, dvNumbered, dvPeers, dvHistory
<1>2. CASE LoseChannel
    BY <1>2 DEF LoseChannel, DvShape, dvNumbered, dvPeers, dvHistory
<1>3. CASE Resubscribe
    BY <1>3 DEF Resubscribe, DvShape, dvNumbered, dvPeers, dvHistory
<1>4. CASE BeginBroadcast
    BY <1>4, BeginsShape
<1>5. ASSUME NEW c \in Clients, ConnectClient(c) PROVE DvShape'
    <2>1. Cardinality({d \in Clients : dvOpen[d] # "new"}) + 1 \in Nat
        <3>1. IsFiniteSet({d \in Clients : dvOpen[d] # "new"})
            BY DeliveryAssumption, FS_Subset DEF DeliveryAssumption
        <3> QED BY <3>1, FS_CardinalityType
    <2> QED BY <1>5, <2>1 DEF ConnectClient, DvShape, dvNumbered, dvChannel, dvHistory
<1>6. ASSUME NEW c \in Clients, PeerCloses(c) PROVE DvShape'
    BY <1>6 DEF PeerCloses, DvShape, dvNumbered, dvChannel, dvHistory
<1>7. ASSUME NEW c \in Clients, HandlerEnds(c) PROVE DvShape'
    BY <1>7 DEF HandlerEnds, Disconnect, DvShape, dvNumbered, dvChannel
<1>8. ASSUME NEW b \in dvCasts, NEW c \in Clients, SendText(b, c) PROVE DvShape'
    <2>1. Advance(b, c, {}) /\ Receives(c, b.event)
        BY <1>8 DEF SendText
    <2>2. dvCasts' \in SUBSET Cast /\ dvRegistered' \in SUBSET Clients /\ dvDropped' \in SUBSET Clients
        BY <2>1, AdvanceShape
    <2>3. dvGot' \in [Clients -> Seq(Envelope)]
        BY <2>1, ReceivesShape
    <2> QED BY <1>8, <2>2, <2>3 DEF SendText, DvShape, dvNumbered, dvPeers, dvChannel
<1>9. ASSUME NEW b \in dvCasts, NEW c \in Clients, SendFails(b, c) PROVE DvShape'
    <2>1. Advance(b, c, {c}) /\ (Receives(c, b.event) \/ UNCHANGED dvGot)
        BY <1>9 DEF SendFails
    <2>2. dvCasts' \in SUBSET Cast /\ dvRegistered' \in SUBSET Clients /\ dvDropped' \in SUBSET Clients
        BY <2>1, AdvanceShape
    <2>3. dvGot' \in [Clients -> Seq(Envelope)]
        BY <2>1, ReceivesShape DEF DvShape
    <2> QED BY <1>9, <2>2, <2>3 DEF SendFails, DvShape, dvNumbered, dvPeers, dvChannel
<1>10. CASE UNCHANGED dvVars
    BY <1>10 DEF dvVars, DvShape
<1> QED BY <1>1, <1>2, <1>3, <1>4, <1>5, <1>6, <1>7, <1>8, <1>9, <1>10 DEF DvNext

-----------------------------------------------------------------------------
(* A send ended: what Sent and Advance say together.                        *)
LEMMA SentCases ==
    ASSUME DvShape, NEW b \in dvCasts, NEW c \in Clients, Sent(b, c)
    PROVE  \E failed \in {{}, {c}} :
              /\ failed = {} => Receives(c, b.event)
              /\ GoesOn(b, c, failed)
<1>1. PICK failed \in {{}, {c}} : (failed = {} => Receives(c, b.event)) /\ Advance(b, c, failed)
    BY DEF Sent
<1>2. failed \in SUBSET Clients
    BY <1>1
<1> QED BY <1>1, <1>2, AdvanceCases

(* What a send does to what its client received.                            *)
LEMMA SentGot ==
    ASSUME DvShape, NEW b \in dvCasts, NEW c \in Clients, Sent(b, c)
    PROVE  /\ b.event \in Envelope
           /\ \A d \in Clients : d # c => dvGot'[d] = dvGot[d]
           /\ dvGot'[c] = dvGot[c] \/ dvGot'[c] = Append(dvGot[c], b.event)
           /\ \A d \in Clients : Received(d) \subseteq Received(d)'
           /\ \A d \in Clients : Received(d)' \subseteq Received(d) \cup {b.event}
           /\ Receives(c, b.event) => b.event \in Received(c)'
<1>1. b.event \in Envelope
    BY DEF DvShape, Cast
<1>2. /\ \A d \in Clients : d # c => dvGot'[d] = dvGot[d]
      /\ dvGot'[c] = dvGot[c] \/ dvGot'[c] = Append(dvGot[c], b.event)
      /\ Receives(c, b.event) => dvGot'[c] = Append(dvGot[c], b.event)
    BY DEF Sent, Receives, DvShape
<1>3. ASSUME NEW s \in Seq(Envelope)
      PROVE  ToSet(Append(s, b.event)) = ToSet(s) \cup {b.event}
    <2>1. /\ Append(s, b.event) \in Seq(Envelope) /\ Len(Append(s, b.event)) = Len(s) + 1
          /\ Append(s, b.event)[Len(s) + 1] = b.event
          /\ \A i \in 1..Len(s) : Append(s, b.event)[i] = s[i]
        BY <1>1
    <2>2. DOMAIN s = 1..Len(s) /\ DOMAIN Append(s, b.event) = 1..(Len(s) + 1) /\ Len(s) \in Nat
        BY <2>1
    <2>3. 1..(Len(s) + 1) = 1..Len(s) \cup {Len(s) + 1}
        BY <2>2
    <2> QED BY <2>1, <2>2, <2>3 DEF ToSet
<1>4. dvGot[c] \in Seq(Envelope)
    BY DEF DvShape
<1>5. ToSet(Append(dvGot[c], b.event)) = ToSet(dvGot[c]) \cup {b.event}
    BY <1>3, <1>4
<1> QED BY <1>1, <1>2, <1>5 DEF Received

-----------------------------------------------------------------------------
(* The places of the clients in the map, and who is still waited for: what  *)
(* is left of a broadcast is of clients that came, and from every one of    *)
(* them on the list has, before it or there, one to send to.                *)
Came == {c \in Clients : dvOpen[c] # "new"}

PlacesOK ==
    /\ \A c \in Came : dvJoined[c] <= Cardinality(Came)
    /\ \A c, d \in Came : dvJoined[c] = dvJoined[d] => c = d

Awaited(b) == \A c \in b.to : \E d \in b.to : ~Skips(d, b.event) /\ dvJoined[d] <= dvJoined[c]

CastsOK ==
    /\ dvRegistered \cup dvDropped \subseteq Came
    /\ \A b \in dvCasts : b.to \cup b.stale \subseteq dvRegistered \cup dvDropped /\ Awaited(b)

PlaceInv == PlacesOK /\ CastsOK

LEMMA AheadIsAwaited ==
    ASSUME DvShape, NEW to \in SUBSET Clients, NEW event
    PROVE  \A c \in Ahead(to, event) : \E d \in Ahead(to, event) :
               ~Skips(d, event) /\ dvJoined[d] <= dvJoined[c]
<1> SUFFICES ASSUME NEW c \in Ahead(to, event)
             PROVE  \E d \in Ahead(to, event) : ~Skips(d, event) /\ dvJoined[d] <= dvJoined[c]
    OBVIOUS
<1>1. PICK d \in to : ~Skips(d, event) /\ dvJoined[d] <= dvJoined[c]
    BY DEF Ahead
<1>2. d \in Ahead(to, event)
    BY <1>1 DEF Ahead, DvShape
<1> QED BY <1>1, <1>2

(* The client that a broadcast sends to is never one to be passed over.     *)
LEMMA NextIsWilling ==
    ASSUME DvShape, PlaceInv, NEW b \in dvCasts, NEW c \in Clients, IsNext(b, c)
    PROVE  ~Skips(c, b.event) /\ c \in Came
<1>1. c \in b.to /\ b.to \subseteq Came
    BY DEF IsNext, PlaceInv, CastsOK
<1>2. PICK d \in b.to : ~Skips(d, b.event) /\ dvJoined[d] <= dvJoined[c]
    BY <1>1 DEF PlaceInv, CastsOK, Awaited
<1>3. dvJoined[c] <= dvJoined[d] /\ d \in Clients
    BY <1>1, <1>2 DEF IsNext, Came
<1>4. dvJoined[c] = dvJoined[d]
    BY <1>2, <1>3 DEF DvShape
<1> QED BY <1>1, <1>2, <1>4 DEF PlaceInv, PlacesOK

LEMMA PlaceInit == DvInit => PlaceInv
BY DEF DvInit, PlaceInv, PlacesOK, CastsOK, Came

LEMMA PlacesStep ==
    ASSUME DvShape, PlacesOK, [DvNext]_dvVars
    PROVE  PlacesOK'
<1>1. ASSUME Came' = Came, UNCHANGED dvJoined PROVE PlacesOK'
    BY <1>1 DEF PlacesOK
<1>2. CASE Quiet
    BY <1>1, <1>2 DEF Quiet, Settled, Came
<1>3. CASE dvInbox # <<>> /\ Enters(Head(dvInbox))
    BY <1>1, <1>3 DEF Enters, dvPeers, Came
<1>4. ASSUME NEW c \in Clients, HandlerEnds(c) PROVE PlacesOK'
    BY <1>1, <1>4 DEF HandlerEnds, Came
<1>5. ASSUME NEW b \in dvCasts, NEW c \in Clients, Sent(b, c) PROVE PlacesOK'
    BY <1>1, <1>5 DEF Sent, dvPeers, Came
<1>6. ASSUME NEW c \in Clients, ConnectClient(c) PROVE PlacesOK'
    <2>1. Came' = Came \cup {c} /\ c \notin Came
        BY <1>6 DEF ConnectClient, Came, DvShape
    <2>2. IsFiniteSet(Came)
        BY DeliveryAssumption, FS_Subset DEF DeliveryAssumption, Came
    <2>3. Cardinality(Came') = Cardinality(Came) + 1 /\ Cardinality(Came) \in Nat
        BY <2>1, <2>2, FS_AddElement, FS_CardinalityType
    <2>4. dvJoined' = [dvJoined EXCEPT ![c] = Cardinality(Came) + 1]
        BY <1>6 DEF ConnectClient, Came
    <2>5. dvJoined'[c] = Cardinality(Came) + 1 /\ \A d \in Came : dvJoined'[d] = dvJoined[d]
        BY <2>1, <2>4 DEF DvShape, Came
    <2>6. \A d \in Came : dvJoined[d] \in Nat
        BY DEF DvShape, Came
    <2> QED BY <2>1, <2>3, <2>5, <2>6 DEF PlacesOK
<1> QED BY <1>2, <1>3, <1>4, <1>5, <1>6, Kinds

LEMMA CastsStep ==
    ASSUME DvShape, PlaceInv, [DvNext]_dvVars
    PROVE  CastsOK'
<1>0. \A b \in dvCasts : b.to \subseteq Came /\ b.to \subseteq Clients /\ b.stale \subseteq Came
    BY DEF PlaceInv, CastsOK, Came
(* What a client was not passed over for, it is not passed over for later. *)
<1>1. ASSUME NEW b \in dvCasts, NEW d \in b.to, ~Skips(d, b.event),
             dvRegistered' \cap Came \subseteq dvRegistered
      PROVE  ~Skips(d, b.event)'
    BY <1>0, <1>1 DEF Skips, Interested
<1>2. ASSUME NEW b \in dvCasts, dvRegistered' \cap Came \subseteq dvRegistered,
             \A d \in Came : dvJoined'[d] = dvJoined[d]
      PROVE  Awaited(b)'
    BY <1>0, <1>1, <1>2 DEF Awaited, PlaceInv, CastsOK
<1>3. CASE Quiet
    <2>1. Came' = Came
        BY <1>3 DEF Quiet, Settled, Came
    <2>2. \A b \in dvCasts : Awaited(b)'
        BY <1>2, <1>3 DEF Quiet
    <2> QED BY <1>3, <2>1, <2>2 DEF Quiet, CastsOK, PlaceInv, dvHistory
<1>4. CASE dvInbox # <<>> /\ Enters(Head(dvInbox))
    <2> DEFINE e == Drawn(Head(dvInbox))
               new == [event |-> e, to |-> Ahead(dvRegistered, e), stale |-> {}]
    <2>1. Came' = Came /\ UNCHANGED <<dvRegistered, dvDropped, dvJoined>>
        BY <1>4 DEF Enters, dvPeers, Came
    <2>2. \A b \in dvCasts : Awaited(b)'
        BY <1>2, <2>1
    <2>3. dvCasts' \subseteq dvCasts \cup {new}
        BY <1>4 DEF Enters
    <2>4. \A c \in new.to : \E d \in new.to : ~Skips(d, new.event) /\ dvJoined[d] <= dvJoined[c]
        BY AheadIsAwaited DEF DvShape
    <2>5. ASSUME NEW b \in dvCasts', b = new PROVE Awaited(b)'
        BY <2>1, <2>4, <2>5 DEF Awaited, Skips
    <2>6. new.to \subseteq dvRegistered /\ new.stale = {}
        BY DEF Ahead
    <2> HIDE DEF new, e
    <2> QED BY <2>1, <2>2, <2>3, <2>5, <2>6 DEF CastsOK, PlaceInv
<1>5. ASSUME NEW c \in Clients, ConnectClient(c) PROVE CastsOK'
    <2>1. /\ Came' = Came \cup {c} /\ c \notin Came /\ dvRegistered' = dvRegistered \cup {c}
          /\ UNCHANGED <<dvCasts, dvDropped>> /\ dvRegistered' \cap Came \subseteq dvRegistered
          /\ \A d \in Came : dvJoined'[d] = dvJoined[d]
        BY <1>5 DEF ConnectClient, Came, DvShape, dvHistory
    <2>2. \A b \in dvCasts : Awaited(b)'
        BY <1>2, <2>1
    <2> QED BY <2>1, <2>2 DEF CastsOK, PlaceInv
<1>6. ASSUME NEW c \in Clients, HandlerEnds(c) PROVE CastsOK'
    <2>1. /\ Came' = Came /\ c \in Came /\ dvRegistered' = dvRegistered \ {c} /\ dvDropped' = dvDropped \cup {c}
          /\ UNCHANGED <<dvCasts, dvJoined>>
        BY <1>6 DEF HandlerEnds, Disconnect, Came
    <2>2. \A b \in dvCasts : Awaited(b)'
        BY <1>2, <2>1
    <2> QED BY <2>1, <2>2 DEF CastsOK, PlaceInv
<1>7. ASSUME NEW b \in dvCasts, NEW c \in Clients, Sent(b, c) PROVE CastsOK'
    <2>1. PICK failed \in {{}, {c}} : GoesOn(b, c, failed)
        BY <1>7, SentCases
    <2>2. Came' = Came /\ UNCHANGED dvJoined /\ c \in b.to
        BY <1>7 DEF Sent, InTurn, IsNext, dvPeers, Came
    <2>6. dvRegistered' \subseteq dvRegistered
        BY <2>1 DEF GoesOn
    <2>3. \A a \in dvCasts : Awaited(a)'
        BY <1>2, <2>2, <2>6
    <2>4. CASE Rest(b, c) # {}
        <3>1. \A x \in Rest(b, c) : \E d \in Rest(b, c) : ~Skips(d, b.event) /\ dvJoined[d] <= dvJoined[x]
            <4>1. b.to \ {c} \in SUBSET Clients
                BY <2>1 DEF GoesOn
            <4> QED BY <4>1, AheadIsAwaited DEF Rest
        <3> DEFINE new == On(b, c, failed)
        <3>2. /\ new.event = b.event /\ new.to = Rest(b, c) /\ new.stale = b.stale \cup failed
              /\ dvCasts' = (dvCasts \ {b}) \cup {new} /\ UNCHANGED <<dvRegistered, dvDropped>>
            BY <2>1, <2>4 DEF GoesOn
        <3> HIDE DEF new
        <3>3. \A x \in new.to : \E d \in new.to : ~Skips(d, new.event) /\ dvJoined[d] <= dvJoined[x]
            BY <3>1, <3>2
        <3>4. ASSUME NEW a \in dvCasts', a = new PROVE Awaited(a)'
            BY <2>2, <3>2, <3>3, <3>4 DEF Awaited, Skips
        <3>5. Rest(b, c) \subseteq b.to /\ failed \subseteq b.to
            BY <2>1, <2>2 DEF GoesOn
        <3> QED BY <2>2, <2>3, <3>2, <3>4, <3>5 DEF CastsOK, PlaceInv
    <2>5. CASE Rest(b, c) = {}
        BY <1>0, <2>1, <2>2, <2>3, <2>5 DEF CastsOK, PlaceInv, GoesOn
    <2> QED BY <2>4, <2>5
<1> QED BY <1>3, <1>4, <1>5, <1>6, <1>7, Kinds

-----------------------------------------------------------------------------
(* What was ever broadcast and is still of account.  Only a new broadcast   *)
(* adds to it.                                                              *)
Known == {b.event : b \in dvCasts} \cup (UNION {Received(c) \cup dvOwed[c] : c \in Clients})

Fresh == dvInbox # <<>> /\ Head(dvInbox).id \notin ToSet(dvRecent) /\ Enters(Head(dvInbox))
Again == dvInbox # <<>> /\ Enters(Head(dvInbox)) /\ UNCHANGED <<dvRecent, dvBuffer, dvCasts, dvOwed>>

LEMMA KnownMembers ==
    /\ \A e : e \in Known <=> \/ \E b \in dvCasts : e = b.event
                            \/ \E c \in Clients : e \in Received(c) \/ e \in dvOwed[c]
    /\ \A e : e \in Known' <=> \/ \E b \in dvCasts' : e = b.event
                             \/ \E c \in Clients : e \in Received(c)' \/ e \in dvOwed'[c]
<1> DEFINE Under == {b.event : b \in dvCasts}
           Had == UNION {Received(c) \cup dvOwed[c] : c \in Clients}
<1>1. Known = Under \cup Had /\ Known' = Under' \cup Had'
    BY DEF Known
<1>2. /\ \A e : e \in Under <=> \E b \in dvCasts : e = b.event
      /\ \A e : e \in Under' <=> \E b \in dvCasts' : e = b.event
    OBVIOUS
<1>3. /\ \A e : e \in Had <=> \E c \in Clients : e \in Received(c) \/ e \in dvOwed[c]
      /\ \A e : e \in Had' <=> \E c \in Clients : e \in Received(c)' \/ e \in dvOwed'[c]
    OBVIOUS
<1> HIDE DEF Under, Had
<1> QED BY <1>1, <1>2, <1>3

LEMMA KnownShape == DvShape => Known \subseteq Envelope
<1> SUFFICES ASSUME DvShape, NEW e \in Known PROVE e \in Envelope
    OBVIOUS
<1>1. CASE \E b \in dvCasts : e = b.event
    BY <1>1 DEF DvShape, Cast
<1>2. ASSUME NEW c \in Clients, e \in Received(c) PROVE e \in Envelope
    BY <1>2 DEF Received, ToSet, DvShape
<1>3. ASSUME NEW c \in Clients, e \in dvOwed[c] PROVE e \in Envelope
    BY <1>3 DEF DvShape
<1> QED BY <1>1, <1>2, <1>3, KnownMembers

LEMMA KnownStep ==
    ASSUME DvShape, [DvNext]_dvVars
    PROVE  \/ Known' \subseteq Known /\ UNCHANGED dvNumbered
           \/ Known' \subseteq Known /\ Again
           \/ Known' \subseteq Known \cup {Drawn(Head(dvInbox))} /\ Fresh
<1>1. CASE Quiet
    BY <1>1 DEF Quiet, Known, Received, dvHistory
<1>2. CASE dvInbox # <<>> /\ Enters(Head(dvInbox))
    <2> DEFINE m == Head(dvInbox)
               e == Drawn(m)
    <2>1. UNCHANGED dvGot
        BY <1>2 DEF Enters
    <2>2. CASE UNCHANGED <<dvRecent, dvBuffer, dvCasts, dvOwed>>
        BY <1>2, <2>1, <2>2 DEF Again, Known, Received
    <2>3. CASE ~UNCHANGED <<dvRecent, dvBuffer, dvCasts, dvOwed>>
        <3>1. /\ m.id \notin ToSet(dvRecent)
              /\ dvCasts' = dvCasts \cup {[event |-> e, to |-> c, stale |-> {}] :
                                             c \in {Ahead(dvRegistered, e)} \ {{}}}
              /\ dvOwed' = [c \in Clients |-> IF c \in dvRegistered /\ Interested(c, e)
                                                 THEN dvOwed[c] \cup {e} ELSE dvOwed[c]]
            BY <1>2, <2>3 DEF Enters
        <3> HIDE DEF e
        <3>2. {b.event : b \in dvCasts'} \subseteq {b.event : b \in dvCasts} \cup {e}
            BY <3>1
        <3>3. \A c \in Clients : dvOwed'[c] \subseteq dvOwed[c] \cup {e}
            BY <3>1
        <3>4. Known' \subseteq Known \cup {e}
            BY <2>1, <3>2, <3>3, KnownMembers DEF Received
        <3> QED BY <1>2, <3>1, <3>4 DEF Fresh, e
    <2> QED BY <2>2, <2>3
<1>3. ASSUME NEW c \in Clients, ConnectClient(c) PROVE Known' \subseteq Known /\ UNCHANGED dvNumbered
    BY <1>3 DEF ConnectClient, Known, Received, dvHistory
<1>4. ASSUME NEW c \in Clients, HandlerEnds(c) PROVE Known' \subseteq Known /\ UNCHANGED dvNumbered
    BY <1>4 DEF HandlerEnds, Known, Received
<1>5. ASSUME NEW b \in dvCasts, NEW c \in Clients, Sent(b, c) PROVE Known' \subseteq Known /\ UNCHANGED dvNumbered
    <2>1. PICK failed \in {{}, {c}} : GoesOn(b, c, failed)
        BY <1>5, SentCases
    <2>2. {a.event : a \in dvCasts'} \subseteq {a.event : a \in dvCasts}
        BY <2>1 DEF GoesOn
    <2>3. b.event \in {a.event : a \in dvCasts} /\ \A d \in Clients : Received(d)' \subseteq Received(d) \cup {b.event}
        BY <1>5, SentGot
    <2>4. UNCHANGED <<dvNumbered, dvOwed>>
        BY <1>5 DEF Sent
    <2> QED BY <2>2, <2>3, <2>4 DEF Known
<1> QED BY <1>1, <1>2, <1>3, <1>4, <1>5, Kinds

(* Turns and numbers count up, together within a stream.                    *)
NumberInv ==
    /\ \A e \in Known : e.turn <= dvTurn /\ e.number <= dvSequence[e.stream]
    /\ \A e, f \in Known : e.stream = f.stream /\ e.turn < f.turn => e.number < f.number

LEMMA KnownInit == DvInit => Known = {}
BY DEF DvInit, Known, Received, ToSet

LEMMA NumberStep ==
    ASSUME DvShape, NumberInv, [DvNext]_dvVars
    PROVE  NumberInv'
<1>1. CASE Known' \subseteq Known /\ UNCHANGED dvNumbered
    BY <1>1 DEF NumberInv, dvNumbered
<1>2. CASE Known' \subseteq Known /\ Again
    <2> DEFINE m == Head(dvInbox)
    <2>1. m.stream \in Streams
        BY <1>2, DrawnShape DEF Again
    <2>2. dvTurn' = dvTurn + 1 /\ dvSequence' = [dvSequence EXCEPT ![m.stream] = @ + 1]
        BY <1>2 DEF Again, Enters
    <2>3. \A e \in Known : e.stream \in Streams /\ e.number \in Nat /\ e.turn \in Nat
        BY KnownShape DEF Envelope
    <2> HIDE DEF m
    <2> QED BY <1>2, <2>1, <2>2, <2>3 DEF NumberInv, DvShape
<1>3. CASE Known' \subseteq Known \cup {Drawn(Head(dvInbox))} /\ Fresh
    <2> DEFINE m == Head(dvInbox)
               d == Drawn(m)
    <2>1. m.stream \in Streams /\ d.stream = m.stream /\ d.number = dvSequence[m.stream] + 1 /\ d.turn = dvTurn + 1
        BY <1>3, DrawnShape DEF Fresh
    <2>2. dvTurn' = dvTurn + 1 /\ dvSequence' = [dvSequence EXCEPT ![m.stream] = @ + 1]
        BY <1>3 DEF Fresh, Enters
    <2>3. \A e \in Known : e.stream \in Streams /\ e.number \in Nat /\ e.turn \in Nat
        BY KnownShape DEF Envelope
    <2>4. Known' \subseteq Known \cup {d}
        BY <1>3
    <2> HIDE DEF m, d
    <2>5. \A e \in Known' : e.turn <= dvTurn' /\ e.number <= dvSequence'[e.stream]
        BY <2>1, <2>2, <2>3, <2>4 DEF NumberInv, DvShape
    <2>6. \A e, f \in Known' : e.stream = f.stream /\ e.turn < f.turn => e.number < f.number
        <3> SUFFICES ASSUME NEW e \in Known', NEW f \in Known', e.stream = f.stream, e.turn < f.turn
                     PROVE  e.number < f.number
            OBVIOUS
        <3>1. CASE e \in Known /\ f \in Known
            BY <3>1 DEF NumberInv
        <3>2. CASE e \in Known /\ f = d
            BY <2>1, <2>3, <3>2 DEF NumberInv, DvShape
        <3>3. CASE e = d
            <4>1. f = d \/ f.turn <= dvTurn
                BY <2>4 DEF NumberInv
            <4> QED BY <2>1, <2>3, <2>4, <3>3, <4>1 DEF DvShape
        <3> QED BY <2>4, <3>1, <3>2, <3>3
    <2> QED BY <2>5, <2>6 DEF NumberInv
<1> QED BY <1>1, <1>2, <1>3, KnownStep

-----------------------------------------------------------------------------
(* The broadcasts are told apart by their turns.                            *)
TurnInv == \A a, b \in dvCasts : a.event.turn = b.event.turn => a = b

LEMMA TurnStep ==
    ASSUME DvShape, NumberInv, TurnInv, [DvNext]_dvVars
    PROVE  TurnInv'
<1>1. CASE UNCHANGED dvCasts
    BY <1>1 DEF TurnInv
<1>2. CASE dvInbox # <<>> /\ Enters(Head(dvInbox))
    <2> DEFINE e == Drawn(Head(dvInbox))
               new == [event |-> e, to |-> Ahead(dvRegistered, e), stale |-> {}]
    <2>1. dvCasts' \subseteq dvCasts \cup {new}
        BY <1>2 DEF Enters
    <2>2. new.event.turn = dvTurn + 1
        BY <1>2, DrawnShape
    <2>3. \A b \in dvCasts : b.event.turn <= dvTurn /\ b.event.turn \in Nat
        BY KnownMembers DEF NumberInv, DvShape, Cast, Envelope
    <2>4. dvTurn \in Nat
        BY DEF DvShape
    <2> HIDE DEF new
    <2>5. ASSUME NEW a \in dvCasts', NEW b \in dvCasts', a.event.turn = b.event.turn PROVE a = b
        <3>1. CASE a \in dvCasts /\ b \in dvCasts
            BY <2>5, <3>1 DEF TurnInv
        <3>2. CASE a = new \/ b = new
            BY <2>1, <2>2, <2>3, <2>4, <2>5, <3>2
        <3> QED BY <2>1, <3>1, <3>2
    <2> QED BY <2>5 DEF TurnInv
<1>3. ASSUME NEW b \in dvCasts, NEW c \in Clients, Sent(b, c) PROVE TurnInv'
    <2>1. PICK failed \in {{}, {c}} : GoesOn(b, c, failed)
        BY <1>3, SentCases
    <2> DEFINE new == On(b, c, failed)
    <2>2. new.event = b.event /\ dvCasts' \subseteq (dvCasts \ {b}) \cup {new}
        BY <2>1 DEF GoesOn
    <2> HIDE DEF new
    <2> QED BY <2>2 DEF TurnInv
<1>4. ASSUME NEW c \in Clients, ConnectClient(c) \/ HandlerEnds(c) PROVE UNCHANGED dvCasts
    BY <1>4 DEF ConnectClient, HandlerEnds
<1>5. Quiet => UNCHANGED dvCasts
    BY DEF Quiet
<1> QED BY <1>1, <1>2, <1>3, <1>4, <1>5, Kinds

-----------------------------------------------------------------------------
(* What was broadcast lately is remembered, at most as many places from the *)
(* end as turns have passed.                                                *)
Remembered(e) ==
    \/ dvTurn - e.turn >= RecentLimit
    \/ \E p \in 1..Len(dvRecent) : dvRecent[p] = e.id /\ dvTurn - e.turn >= Len(dvRecent) - p

RecentInv ==
    /\ Len(dvRecent) <= RecentLimit
    /\ \A e \in Known : Remembered(e)
    /\ \A e, f \in Known : e.turn < f.turn /\ e.id = f.id => f.turn - e.turn > RecentLimit

LEMMA RecentStep ==
    ASSUME DvShape, NumberInv, RecentInv, [DvNext]_dvVars
    PROVE  RecentInv'
<1>0. /\ RecentLimit \in Nat \ {0} /\ Len(dvRecent) \in Nat /\ dvTurn \in Nat
      /\ \A e \in Known : e.turn \in Nat /\ e.turn <= dvTurn
    <2>1. RecentLimit \in Nat \ {0}
        BY DeliveryAssumption DEF DeliveryAssumption
    <2>2. Len(dvRecent) \in Nat /\ dvTurn \in Nat
        BY DEF DvShape
    <2>3. \A e \in Known : e.turn \in Nat
        BY KnownShape DEF Envelope
    <2> QED BY <2>1, <2>2, <2>3 DEF NumberInv
<1>1. CASE Known' \subseteq Known /\ UNCHANGED dvNumbered
    BY <1>1 DEF RecentInv, Remembered, dvNumbered
<1>2. CASE Known' \subseteq Known /\ Again
    <2>1. dvTurn' = dvTurn + 1 /\ UNCHANGED dvRecent
        BY <1>2 DEF Again, Enters
    <2>2. \A e \in Known : Remembered(e)'
        BY <1>0, <2>1 DEF RecentInv, Remembered
    <2> QED BY <1>2, <2>1, <2>2 DEF RecentInv
<1>3. CASE Known' \subseteq Known \cup {Drawn(Head(dvInbox))} /\ Fresh
    <2> DEFINE m == Head(dvInbox)
               d == Drawn(m)
               longer == Append(dvRecent, m.id)
               l == Len(dvRecent')
    <2>1. m.id \in Ids /\ d.id = m.id /\ d.turn = dvTurn + 1 /\ m.id \notin ToSet(dvRecent)
        BY <1>3, DrawnShape DEF Fresh
    <2>2. dvTurn' = dvTurn + 1 /\ dvRecent' = LastFew(longer, RecentLimit)
        BY <1>3 DEF Fresh, Enters
    <2>3. Known' \subseteq Known \cup {d}
        BY <1>3
    <2>4. /\ longer \in Seq(Ids) /\ Len(longer) = Len(dvRecent) + 1
          /\ longer[Len(dvRecent) + 1] = m.id
          /\ \A i \in 1..Len(dvRecent) : longer[i] = dvRecent[i]
        BY <2>1 DEF DvShape
    <2> HIDE DEF m, d, longer
    <2>5. /\ l = IF Len(dvRecent) + 1 > RecentLimit THEN RecentLimit ELSE Len(dvRecent) + 1
          /\ \A i \in 1..l : dvRecent'[i] = longer[Len(dvRecent) + 1 - l + i]
        <3> DEFINE few == LastFew(longer, RecentLimit)
        <3>1. /\ Len(few) = IF Len(longer) > RecentLimit THEN RecentLimit ELSE Len(longer)
              /\ \A i \in 1..Len(few) : few[i] = longer[Len(longer) - Len(few) + i]
            BY <1>0, <2>4, LastFewLemma
        <3> HIDE DEF few
        <3>2. dvRecent' = few
            BY <2>2 DEF few
        <3>3. l = Len(few) /\ l \in Nat
            BY <1>0, <2>4, <3>1, <3>2
        <3>4. \A i \in 1..l : Len(longer) - Len(few) + i = Len(dvRecent) + 1 - l + i
            BY <1>0, <2>4, <3>3
        <3> QED BY <2>4, <3>1, <3>2, <3>3, <3>4
    <2>6. l \in Nat /\ l >= 1 /\ l <= RecentLimit /\ l <= Len(dvRecent) + 1
          /\ (l < Len(dvRecent) + 1 => l = RecentLimit)
        BY <1>0, <2>5
    <2>7. dvRecent'[l] = m.id
        <3>1. l \in 1..l /\ Len(dvRecent) + 1 - l + l = Len(dvRecent) + 1
            BY <1>0, <2>6
        <3> QED BY <2>4, <2>5, <3>1
    <2> HIDE DEF l
    <2>8. ASSUME NEW e \in Known PROVE Remembered(e)'
        <3>1. CASE dvTurn - e.turn >= RecentLimit
            BY <1>0, <2>2, <3>1 DEF Remembered
        <3>2. CASE \E p \in 1..Len(dvRecent) : dvRecent[p] = e.id /\ dvTurn - e.turn >= Len(dvRecent) - p
            <4>1. PICK p \in 1..Len(dvRecent) : dvRecent[p] = e.id /\ dvTurn - e.turn >= Len(dvRecent) - p
                BY <3>2
            <4> DEFINE q == p - (Len(dvRecent) + 1 - l)
            <4>2. CASE q \in 1..l
                <5>1. Len(dvRecent) + 1 - l + q = p
                    BY <1>0, <2>6
                <5>2. dvRecent'[q] = e.id
                    BY <2>4, <2>5, <4>1, <4>2, <5>1 DEF l
                <5>3. dvTurn' - e.turn >= l - q
                    BY <1>0, <2>2, <2>6, <4>1, <5>1
                <5> HIDE DEF q
                <5> QED BY <4>2, <5>2, <5>3 DEF Remembered, l
            <4>3. CASE q \notin 1..l
                <5>1. q < 1 /\ l = RecentLimit
                    BY <1>0, <2>6, <4>3
                <5>2. dvTurn' - e.turn >= RecentLimit
                    BY <1>0, <2>2, <2>6, <4>1, <5>1
                <5> QED BY <5>2 DEF Remembered
            <4> QED BY <4>2, <4>3
        <3> QED BY <3>1, <3>2 DEF RecentInv, Remembered
    <2>9. ASSUME NEW e \in Known', e = d PROVE Remembered(e)'
        <3>1. dvTurn' - e.turn >= l - l /\ l \in 1..l
            BY <1>0, <2>1, <2>2, <2>6, <2>9
        <3>2. e.id = dvRecent'[l]
            BY <2>1, <2>7, <2>9
        <3> QED BY <3>1, <3>2 DEF Remembered, l
    <2>10. ASSUME NEW e \in Known, e.id = d.id PROVE d.turn - e.turn > RecentLimit
        <3>1. \A p \in 1..Len(dvRecent) : dvRecent[p] # e.id
            BY <2>1, <2>10 DEF ToSet, DvShape
        <3> QED BY <1>0, <2>1, <3>1 DEF RecentInv, Remembered
    <2>11. \A e, f \in Known' : e.turn < f.turn /\ e.id = f.id => f.turn - e.turn > RecentLimit
        <3> SUFFICES ASSUME NEW e \in Known', NEW f \in Known', e.turn < f.turn, e.id = f.id
                     PROVE  f.turn - e.turn > RecentLimit
            OBVIOUS
        <3>1. CASE e \in Known /\ f \in Known
            BY <3>1 DEF RecentInv
        <3>2. CASE e \in Known /\ f = d
            BY <2>10, <3>2
        <3>3. CASE e = d
            BY <1>0, <2>1, <2>3, <3>3
        <3> QED BY <2>3, <3>1, <3>2, <3>3
    <2>12. Len(dvRecent') <= RecentLimit
        BY <2>6 DEF l
    <2>13. \A e \in Known' : Remembered(e)'
        <3> SUFFICES ASSUME NEW e \in Known' PROVE Remembered(e)'
            OBVIOUS
        <3> QED BY <2>3, <2>8, <2>9
    <2> QED BY <2>11, <2>12, <2>13 DEF RecentInv
<1> QED BY <1>1, <1>2, <1>3, KnownStep

LEMMA RecentHolds == DvShape /\ RecentInv => TwiceOnlyWhenForgotten
<1> SUFFICES ASSUME DvShape, RecentInv, NEW c \in Clients, NEW i \in DOMAIN dvGot[c], NEW j \in DOMAIN dvGot[c],
                    dvGot[c][i].turn < dvGot[c][j].turn, dvGot[c][i].id = dvGot[c][j].id
             PROVE  dvGot[c][j].turn - dvGot[c][i].turn > RecentLimit
    BY DEF TwiceOnlyWhenForgotten
<1>1. dvGot[c][i] \in Received(c) /\ dvGot[c][j] \in Received(c)
    BY DEF Received, ToSet
<1>2. dvGot[c][i] \in Known /\ dvGot[c][j] \in Known
    BY <1>1, KnownMembers
<1> QED BY <1>2 DEF RecentInv

-----------------------------------------------------------------------------
(* What is owed is what the filters let through, to clients that came.  A   *)
(* registered client that a broadcast still owes its event stays on the     *)
(* list, since it is not one to be passed over.                             *)
MissInv ==
    /\ \A c \in Clients : dvOwed[c] # {} => c \in Came
    /\ \A c \in Clients : \A e \in dvOwed[c] : Interested(c, e)
    /\ RegisteredMissedNothing

LEMMA UnderWayMembers ==
    \A c : /\ \A e : e \in UnderWay(c) <=> \E b \in dvCasts : c \in b.to \cup b.stale /\ e = b.event
           /\ \A e : e \in UnderWay(c)' <=> \E b \in dvCasts' : c \in b.to \cup b.stale /\ e = b.event
BY DEF UnderWay

LEMMA MissStep ==
    ASSUME DvShape, PlaceInv, MissInv, [DvNext]_dvVars
    PROVE  MissInv'
<1>1. CASE Quiet
    BY <1>1 DEF Quiet, Settled, MissInv, RegisteredMissedNothing, UnderWay, Received, Interested, Came, dvHistory
<1>2. CASE dvInbox # <<>> /\ Enters(Head(dvInbox))
    <2> DEFINE e == Drawn(Head(dvInbox))
               new == [event |-> e, to |-> Ahead(dvRegistered, e), stale |-> {}]
    <2>1. UNCHANGED <<dvRegistered, dvGot, dvOpen>> /\ Came' = Came
        BY <1>2 DEF Enters, dvPeers, Came
    <2>2. CASE UNCHANGED <<dvRecent, dvBuffer, dvCasts, dvOwed>>
        BY <2>1, <2>2 DEF MissInv, RegisteredMissedNothing, UnderWay, Received, Interested
    <2>3. CASE ~UNCHANGED <<dvRecent, dvBuffer, dvCasts, dvOwed>>
        <3>1. /\ dvCasts' = dvCasts \cup {[event |-> e, to |-> c, stale |-> {}] :
                                             c \in {Ahead(dvRegistered, e)} \ {{}}}
              /\ dvOwed' = [c \in Clients |-> IF c \in dvRegistered /\ Interested(c, e)
                                                 THEN dvOwed[c] \cup {e} ELSE dvOwed[c]]
            BY <1>2, <2>3 DEF Enters
        <3>2. ASSUME NEW c \in dvRegistered, Interested(c, e)
              PROVE  c \in Ahead(dvRegistered, e)
            BY <3>2 DEF Ahead, Skips, DvShape
        <3>3. ASSUME NEW c \in dvRegistered, Interested(c, e)
              PROVE  new \in dvCasts' /\ c \in new.to /\ new.event = e
            <4>1. Ahead(dvRegistered, e) \in {Ahead(dvRegistered, e)} \ {{}}
                BY <3>2, <3>3
            <4> HIDE DEF e
            <4> QED BY <3>1, <3>2, <3>3, <4>1 DEF e
        <3>4. dvCasts \subseteq dvCasts' /\ dvRegistered \subseteq Clients
            BY <3>1 DEF DvShape
        <3> HIDE DEF e, new
        <3>5. ASSUME NEW c \in dvRegistered', NEW f \in dvOwed'[c]
              PROVE  f \in Received(c)' \cup UnderWay(c)'
            <4>1. c \in dvRegistered /\ (f \in dvOwed[c] \/ (f = e /\ Interested(c, e)))
                BY <2>1, <3>1, <3>4
            <4>2. CASE f \in dvOwed[c]
                <5>1. f \in Received(c) \cup UnderWay(c)
                    BY <4>1, <4>2 DEF MissInv, RegisteredMissedNothing
                <5>2. Received(c)' = Received(c)
                    BY <2>1 DEF Received
                <5>3. UnderWay(c) \subseteq UnderWay(c)'
                    BY <3>4, UnderWayMembers
                <5> QED BY <5>1, <5>2, <5>3
            <4>3. CASE f = e /\ Interested(c, e)
                BY <3>3, <4>1, <4>3, UnderWayMembers
            <4> QED BY <4>1, <4>2, <4>3
        <3>6. \A c \in Clients : dvOwed'[c] # {} => c \in Came'
            BY <2>1, <3>1 DEF MissInv, PlaceInv, CastsOK
        <3>7. \A c \in Clients : \A f \in dvOwed'[c] : Interested(c, f)
            BY <3>1 DEF MissInv
        <3> QED BY <3>5, <3>6, <3>7 DEF MissInv, RegisteredMissedNothing, Interested
    <2> QED BY <2>2, <2>3
<1>3. ASSUME NEW c \in Clients, ConnectClient(c) PROVE MissInv'
    <2>1. /\ Came' = Came \cup {c} /\ c \notin Came /\ dvRegistered' = dvRegistered \cup {c}
          /\ UNCHANGED <<dvCasts, dvGot, dvOwed>>
        BY <1>3 DEF ConnectClient, Came, DvShape, dvHistory
    <2>2. dvOwed'[c] = {}
        BY <2>1 DEF MissInv
    <2>3. \A d \in Clients : UnderWay(d)' = UnderWay(d) /\ Received(d)' = Received(d)
        BY <2>1 DEF UnderWay, Received
    <2>4. \A d \in dvRegistered' : dvOwed'[d] \subseteq Received(d)' \cup UnderWay(d)'
        BY <2>1, <2>2, <2>3 DEF MissInv, RegisteredMissedNothing, DvShape
    <2> QED BY <2>1, <2>4 DEF MissInv, RegisteredMissedNothing, Interested
<1>4. ASSUME NEW c \in Clients, HandlerEnds(c) PROVE MissInv'
    <2>1. /\ Came' = Came /\ dvRegistered' \subseteq dvRegistered
          /\ UNCHANGED <<dvCasts, dvGot, dvOwed>>
        BY <1>4 DEF HandlerEnds, Disconnect, Came
    <2> QED BY <2>1 DEF MissInv, RegisteredMissedNothing, UnderWay, Received, Interested
<1>5. ASSUME NEW b \in dvCasts, NEW c \in Clients, Sent(b, c) PROVE MissInv'
    <2>1. PICK failed \in {{}, {c}} : (failed = {} => Receives(c, b.event)) /\ GoesOn(b, c, failed)
        BY <1>5, SentCases
    <2>2. Came' = Came /\ UNCHANGED dvOwed /\ dvRegistered' \subseteq dvRegistered
        BY <1>5, <2>1 DEF Sent, dvPeers, Came, GoesOn
    <2>3. \A d \in Clients : Received(d) \subseteq Received(d)'
        BY <1>5, SentGot
    <2>4. ASSUME NEW d \in dvRegistered', NEW f \in dvOwed'[d]
          PROVE  f \in Received(d)' \cup UnderWay(d)'
        <3>1. d \in Clients /\ d \in dvRegistered /\ f \in dvOwed[d] /\ Interested(d, f)
            BY <2>2 DEF DvShape, MissInv
        <3>2. f \in Received(d) \/ \E a \in dvCasts : d \in a.to \cup a.stale /\ f = a.event
            BY <3>1, UnderWayMembers DEF MissInv, RegisteredMissedNothing
        <3>3. CASE f \in Received(d)
            BY <2>3, <3>1, <3>3
        <3>4. ASSUME NEW a \in dvCasts, a # b, d \in a.to \cup a.stale, f = a.event
              PROVE  f \in UnderWay(d)'
            <4>1. a \in dvCasts'
                BY <2>1, <3>4 DEF GoesOn
            <4> QED BY <3>4, <4>1, UnderWayMembers
        <3>5. ASSUME d \in b.to \cup b.stale, f = b.event
              PROVE  f \in Received(d)' \cup UnderWay(d)'
            <4>1. CASE d = c /\ failed = {}
                BY <1>5, <2>1, <3>5, <4>1, SentGot
            <4>2. CASE d \in b.stale \cup failed
                <5>1. Rest(b, c) # {}
                    BY <2>1, <4>2 DEF GoesOn
                <5> DEFINE new == On(b, c, failed)
                <5>2. new \in dvCasts' /\ new.stale = b.stale \cup failed /\ new.event = b.event
                    BY <2>1, <5>1 DEF GoesOn
                <5> HIDE DEF new
                <5> QED BY <3>5, <4>2, <5>2, UnderWayMembers
            <4>3. CASE d \in b.to /\ d # c
                <5>1. d \in Rest(b, c)
                    BY <3>1, <3>5, <4>3 DEF Rest, Ahead, Skips, DvShape
                <5> DEFINE new == On(b, c, failed)
                <5>2. new \in dvCasts' /\ new.to = Rest(b, c) /\ new.event = b.event
                    BY <2>1, <5>1 DEF GoesOn
                <5> HIDE DEF new
                <5> QED BY <3>5, <5>1, <5>2, UnderWayMembers
            <4> QED BY <2>1, <3>5, <4>1, <4>2, <4>3
        <3> QED BY <3>2, <3>3, <3>4, <3>5
    <2> QED BY <2>2, <2>4 DEF MissInv, RegisteredMissedNothing, Interested
<1> QED BY <1>1, <1>2, <1>3, <1>4, <1>5, Kinds

-----------------------------------------------------------------------------
LEMMA FiltersStep ==
    ASSUME DvShape, PlaceInv, FiltersHold, [DvNext]_dvVars
    PROVE  FiltersHold'
<1>1. ASSUME UNCHANGED dvGot, dvDropped \subseteq dvDropped' PROVE FiltersHold'
    BY <1>1 DEF FiltersHold, Received, Interested
<1>2. Quiet => UNCHANGED dvGot /\ UNCHANGED dvDropped
    BY DEF Quiet, dvHistory
<1>3. dvInbox # <<>> /\ Enters(Head(dvInbox)) => UNCHANGED dvGot /\ UNCHANGED dvDropped
    BY DEF Enters
<1>4. ASSUME NEW c \in Clients, ConnectClient(c) \/ HandlerEnds(c)
      PROVE  UNCHANGED dvGot /\ dvDropped \subseteq dvDropped'
    BY <1>4 DEF ConnectClient, HandlerEnds, Disconnect, dvHistory
<1>5. ASSUME NEW b \in dvCasts, NEW c \in Clients, Sent(b, c) PROVE FiltersHold'
    <2>1. PICK failed \in {{}, {c}} : GoesOn(b, c, failed)
        BY <1>5, SentCases
    <2>2. dvDropped \subseteq dvDropped'
        BY <2>1 DEF GoesOn
    <2>3. ~Skips(c, b.event) /\ c \in b.to
        BY <1>5, NextIsWilling DEF Sent, InTurn, IsNext
    <2>4. Interested(c, b.event) \/ c \in dvDropped
        BY <2>3 DEF Skips, PlaceInv, CastsOK
    <2>5. /\ \A d \in Clients : d # c => Received(d)' = Received(d)
          /\ Received(c)' \subseteq Received(c) \cup {b.event}
        BY <1>5, SentGot DEF Received
    <2> QED BY <2>2, <2>4, <2>5 DEF FiltersHold, Interested
<1> QED BY <1>1, <1>2, <1>3, <1>4, <1>5, Kinds

-----------------------------------------------------------------------------
(* The numbers in a buffer count up, so that an event that left it is as    *)
(* far back as the buffer is long.                                          *)
Rising(s) == \A i, j \in 1..Len(s) : i < j => s[i].number + (j - i) <= s[j].number

BufferInv ==
    /\ \A s \in Streams : /\ Rising(dvBuffer[s])
                          /\ \A i \in 1..Len(dvBuffer[s]) : dvBuffer[s][i].number <= dvSequence[s]
    /\ \A c \in Clients : \A e \in dvOwed[c] :
           dvSequence[e.stream] - e.number < BufferLimit => e \in ToSet(dvBuffer[e.stream])

LEMMA RisingOn ==
    ASSUME NEW s \in Seq(Envelope), Rising(s), NEW n \in Nat, \A i \in 1..Len(s) : s[i].number <= n,
           NEW d \in Envelope, d.number = n + 1, NEW limit \in Nat \ {0}
    PROVE  LET new == LastFew(Append(s, d), limit)
           IN  /\ Rising(new) /\ \A i \in 1..Len(new) : new[i].number <= n + 1
               /\ d \in ToSet(new)
               /\ \A e \in ToSet(s) : e \in ToSet(new) \/ n + 1 - e.number >= limit
<1> DEFINE longer == Append(s, d)
           new == LastFew(longer, limit)
           k == Len(s)
           l == Len(new)
<1>1. /\ longer \in Seq(Envelope) /\ Len(longer) = k + 1 /\ k \in Nat
      /\ longer[k + 1] = d /\ \A i \in 1..k : longer[i] = s[i]
    OBVIOUS
<1>2. /\ new \in Seq(Envelope) /\ Len(new) = IF Len(longer) > limit THEN limit ELSE Len(longer)
      /\ \A i \in 1..Len(new) : new[i] = longer[Len(longer) - Len(new) + i]
    <2> HIDE DEF longer
    <2> QED BY <1>1, LastFewLemma
<1>3. \A i \in 1..k : s[i].number \in Nat
    <2>1. \A i \in 1..k : s[i] \in Envelope
        OBVIOUS
    <2> QED BY <2>1 DEF Envelope
<1> HIDE DEF longer, new
<1>4. l \in Nat /\ l >= 1 /\ l <= limit /\ l <= k + 1 /\ (l < k + 1 => l = limit)
    BY <1>1, <1>2
<1>5. \A i \in 1..l : new[i] = longer[k + 1 - l + i] /\ k + 1 - l + i \in 1..(k + 1)
    <2>1. \A i \in 1..l : Len(longer) - Len(new) + i = k + 1 - l + i /\ k + 1 - l + i \in 1..(k + 1)
        BY <1>1, <1>4
    <2> QED BY <1>2, <2>1
<1>6. \A i \in 1..(k + 1) : longer[i].number <= n + 1 /\ longer[i].number \in Nat
    <2> SUFFICES ASSUME NEW i \in 1..(k + 1) PROVE longer[i].number <= n + 1 /\ longer[i].number \in Nat
        OBVIOUS
    <2>1. CASE i \in 1..k
        BY <1>1, <1>3, <2>1
    <2>2. CASE i = k + 1
        BY <1>1, <2>2
    <2> QED BY <1>1, <2>1, <2>2
<1>7. \A i, j \in 1..(k + 1) : i < j => longer[i].number + (j - i) <= longer[j].number
    <2> SUFFICES ASSUME NEW i \in 1..(k + 1), NEW j \in 1..(k + 1), i < j
                 PROVE  longer[i].number + (j - i) <= longer[j].number
        OBVIOUS
    <2>1. i \in 1..k /\ longer[i] = s[i]
        BY <1>1
    <2>2. CASE j \in 1..k
        BY <1>1, <2>1, <2>2 DEF Rising
    <2>3. CASE j = k + 1
        <3>1. k \in 1..k /\ s[k].number <= n /\ s[k].number \in Nat /\ s[i].number \in Nat
            BY <1>1, <1>3, <2>1
        <3>2. i = k \/ s[i].number + (k - i) <= s[k].number
            BY <1>1, <2>1, <3>1 DEF Rising
        <3>3. s[i].number + (k - i) <= n
            BY <1>1, <2>1, <3>1, <3>2
        <3> QED BY <1>1, <2>1, <2>3, <3>1, <3>3
    <2> QED BY <1>1, <2>2, <2>3
<1> HIDE DEF k, l
<1>8. Rising(new)
    <2> SUFFICES ASSUME NEW i \in 1..l, NEW j \in 1..l, i < j
                 PROVE  new[i].number + (j - i) <= new[j].number
        BY DEF Rising, l
    <2> DEFINE x == k + 1 - l + i
               y == k + 1 - l + j
    <2>1. x \in 1..(k + 1) /\ y \in 1..(k + 1) /\ x < y /\ y - x = j - i
        BY <1>1, <1>4 DEF k
    <2>2. new[i] = longer[x] /\ new[j] = longer[y]
        BY <1>5
    <2> HIDE DEF x, y
    <2> QED BY <1>7, <2>1, <2>2
<1>9. \A i \in 1..l : new[i].number <= n + 1
    BY <1>5, <1>6
<1>10. d \in ToSet(new)
    <2>1. l \in 1..l /\ k + 1 - l + l = k + 1
        BY <1>1, <1>4 DEF k
    <2>2. new[l] = d
        BY <1>1, <1>5, <2>1 DEF k
    <2> QED BY <1>2, <2>1, <2>2 DEF ToSet, l
<1>11. ASSUME NEW e \in ToSet(s) PROVE e \in ToSet(new) \/ n + 1 - e.number >= limit
    <2>1. PICK p \in 1..k : s[p] = e
        BY DEF ToSet, k
    <2> DEFINE q == p - (k + 1 - l)
    <2>2. CASE q \in 1..l
        <3>1. k + 1 - l + q = p
            BY <1>1, <1>4 DEF k
        <3>2. new[q] = e
            BY <1>1, <1>5, <2>1, <2>2, <3>1 DEF k
        <3> HIDE DEF q
        <3> QED BY <1>2, <2>2, <3>2 DEF ToSet, l
    <2>3. CASE q \notin 1..l
        <3>1. q < 1 /\ l = limit
            BY <1>1, <1>4, <2>3 DEF k
        <3>2. p \in 1..(k + 1) /\ k + 1 \in 1..(k + 1) /\ p < k + 1
            BY <1>1 DEF k
        <3>3. e.number + (k + 1 - p) <= n + 1
            BY <1>1, <1>7, <2>1, <3>2 DEF k
        <3>4. k + 1 - p >= limit /\ e.number \in Nat
            BY <1>1, <1>3, <1>4, <2>1, <3>1 DEF k
        <3> QED BY <1>1, <3>2, <3>3, <3>4 DEF k
    <2> QED BY <2>2, <2>3
<1> QED BY <1>8, <1>9, <1>10, <1>11 DEF new, longer, l

LEMMA OwedStep ==
    ASSUME DvShape, [DvNext]_dvVars
    PROVE  \/ UNCHANGED <<dvNumbered, dvOwed>>
           \/ Again
           \/ Fresh /\ dvOwed' = [c \in Clients |->
                                    IF c \in dvRegistered /\ Interested(c, Drawn(Head(dvInbox)))
                                    THEN dvOwed[c] \cup {Drawn(Head(dvInbox))} ELSE dvOwed[c]]
<1>1. Quiet => UNCHANGED <<dvNumbered, dvOwed>>
    BY DEF Quiet, dvHistory
<1>2. ASSUME NEW c \in Clients, ConnectClient(c) \/ HandlerEnds(c) PROVE UNCHANGED <<dvNumbered, dvOwed>>
    BY <1>2 DEF ConnectClient, HandlerEnds, dvHistory
<1>3. ASSUME NEW b \in dvCasts, NEW c \in Clients, Sent(b, c) PROVE UNCHANGED <<dvNumbered, dvOwed>>
    BY <1>3 DEF Sent
<1>4. CASE dvInbox # <<>> /\ Enters(Head(dvInbox))
    BY <1>4 DEF Enters, Again, Fresh
<1> QED BY <1>1, <1>2, <1>3, <1>4, Kinds

LEMMA BufferStep ==
    ASSUME DvShape, BufferInv, [DvNext]_dvVars
    PROVE  BufferInv'
<1>1. CASE UNCHANGED <<dvNumbered, dvOwed>>
    BY <1>1 DEF BufferInv, dvNumbered
<1>2. CASE Again
    <2> DEFINE m == Head(dvInbox)
    <2>1. m.stream \in Streams /\ dvSequence' = [dvSequence EXCEPT ![m.stream] = @ + 1]
        BY <1>2, DrawnShape DEF Again, Enters
    <2>2. UNCHANGED <<dvBuffer, dvOwed>>
        BY <1>2 DEF Again
    <2>3. \A s \in Streams : dvSequence'[s] = dvSequence[s] \/ dvSequence'[s] = dvSequence[s] + 1
        BY <2>1 DEF DvShape
    <2>4. \A s \in Streams : /\ \A i \in 1..Len(dvBuffer[s]) : dvBuffer[s][i].number \in Nat
                             /\ dvSequence[s] \in Nat
        <3>1. \A s \in Streams : \A i \in 1..Len(dvBuffer[s]) : dvBuffer[s][i] \in Envelope
            BY DEF DvShape
        <3> QED BY <3>1 DEF DvShape, Envelope
    <2>5. \A c \in Clients : \A e \in dvOwed[c] : e.stream \in Streams /\ e.number \in Nat
        BY DEF DvShape, Envelope
    <2>6. BufferLimit \in Nat
        BY DeliveryAssumption DEF DeliveryAssumption
    <2> HIDE DEF m
    <2>7. \A s \in Streams : \A i \in 1..Len(dvBuffer[s]) : dvBuffer[s][i].number <= dvSequence'[s]
        BY <2>3, <2>4 DEF BufferInv
    <2>8. \A c \in Clients : \A e \in dvOwed[c] :
              dvSequence'[e.stream] - e.number < BufferLimit => e \in ToSet(dvBuffer[e.stream])
        BY <2>3, <2>4, <2>5, <2>6 DEF BufferInv
    <2> QED BY <2>2, <2>7, <2>8 DEF BufferInv
<1>3. CASE Fresh /\ dvOwed' = [c \in Clients |->
                                 IF c \in dvRegistered /\ Interested(c, Drawn(Head(dvInbox)))
                                 THEN dvOwed[c] \cup {Drawn(Head(dvInbox))} ELSE dvOwed[c]]
    <2> DEFINE m == Head(dvInbox)
               d == Drawn(m)
               x == m.stream
               new == LastFew(Append(dvBuffer[x], d), BufferLimit)
    <2>1. x \in Streams /\ d \in Envelope /\ d.stream = x /\ d.number = dvSequence[x] + 1
        BY <1>3, DrawnShape DEF Fresh
    <2>2. dvSequence' = [dvSequence EXCEPT ![x] = @ + 1]
        BY <1>3 DEF Fresh, Enters
    <2>3. dvBuffer' = [dvBuffer EXCEPT ![x] = new]
        <3>1. m.id \notin ToSet(dvRecent) /\ Enters(m)
            BY <1>3 DEF Fresh
        <3> QED BY <3>1 DEF Enters
    <2>4. \A c \in Clients : dvOwed'[c] \subseteq dvOwed[c] \cup {d}
        BY <1>3
    <2> HIDE DEF m, d, x
    <2>5. /\ dvBuffer[x] \in Seq(Envelope) /\ Rising(dvBuffer[x]) /\ dvSequence[x] \in Nat
          /\ \A i \in 1..Len(dvBuffer[x]) : dvBuffer[x][i].number <= dvSequence[x]
          /\ BufferLimit \in Nat \ {0}
        BY <2>1, DeliveryAssumption DEF DeliveryAssumption, DvShape, BufferInv
    <2>6. /\ Rising(new) /\ \A i \in 1..Len(new) : new[i].number <= dvSequence[x] + 1
          /\ d \in ToSet(new)
          /\ \A e \in ToSet(dvBuffer[x]) : e \in ToSet(new) \/ dvSequence[x] + 1 - e.number >= BufferLimit
        BY <2>1, <2>5, RisingOn
    <2> HIDE DEF new
    <2>7. /\ dvBuffer'[x] = new /\ dvSequence'[x] = dvSequence[x] + 1
          /\ \A s \in Streams : s # x => dvBuffer'[s] = dvBuffer[s] /\ dvSequence'[s] = dvSequence[s]
        BY <2>1, <2>2, <2>3 DEF DvShape
    <2>8. \A s \in Streams : /\ Rising(dvBuffer'[s])
                             /\ \A i \in 1..Len(dvBuffer'[s]) : dvBuffer'[s][i].number <= dvSequence'[s]
        BY <2>6, <2>7 DEF BufferInv
    <2>9. ASSUME NEW c \in Clients, NEW e \in dvOwed'[c], dvSequence'[e.stream] - e.number < BufferLimit
          PROVE  e \in ToSet(dvBuffer'[e.stream])
        <3>1. CASE e = d
            BY <2>1, <2>6, <2>7, <3>1
        <3>2. CASE e \in dvOwed[c] /\ e.stream = x
            <4>1. e.number \in Nat
                BY <3>2 DEF DvShape, Envelope
            <4>2. dvSequence[x] - e.number < BufferLimit /\ ~(dvSequence[x] + 1 - e.number >= BufferLimit)
                BY <2>5, <2>7, <2>9, <3>2, <4>1
            <4>3. e \in ToSet(dvBuffer[x])
                BY <3>2, <4>2 DEF BufferInv
            <4> QED BY <2>6, <2>7, <3>2, <4>2, <4>3
        <3>3. CASE e \in dvOwed[c] /\ e.stream # x
            <4>1. e.stream \in Streams
                BY <3>3 DEF DvShape, Envelope
            <4> QED BY <2>7, <2>9, <3>3, <4>1 DEF BufferInv
        <3> QED BY <2>4, <3>1, <3>2, <3>3
    <2> QED BY <2>8, <2>9 DEF BufferInv, Rising
<1> QED BY <1>1, <1>2, <1>3, OwedStep

LEMMA BufferHolds == DvShape /\ BufferInv => GapsReplayable
BY DEF DvShape, BufferInv, GapsReplayable, Replay, Envelope

-----------------------------------------------------------------------------
(* While every client that came is still registered, a later broadcast of a *)
(* stream awaits whomever an earlier one awaits, and what a client it       *)
(* awaits has received of the stream has a lower number.                    *)
Follows(a, b) == a.event.stream = b.event.stream /\ a.event.turn < b.event.turn

OrderInv ==
    dvDropped = {} =>
        /\ \A a, b \in dvCasts : Follows(a, b) => a.to \subseteq b.to
        /\ \A b \in dvCasts : \A c \in b.to : \A i \in 1..Len(dvGot[c]) :
               dvGot[c][i].stream = b.event.stream => dvGot[c][i].number < b.event.number
        /\ InOrderUntilDrop

LEMMA OrderAfterBegin ==
    ASSUME DvShape, PlaceInv, NumberInv, OrderInv, dvInbox # <<>>, Enters(Head(dvInbox)), dvDropped = {}
    PROVE  OrderInv'
<1> DEFINE e == Drawn(Head(dvInbox))
           new == [event |-> e, to |-> Ahead(dvRegistered, e), stale |-> {}]
<1>1. UNCHANGED <<dvGot, dvDropped>> /\ dvCasts' \subseteq dvCasts \cup {new}
    BY DEF Enters
<1>2. /\ e.turn = dvTurn + 1 /\ e \in Envelope
      /\ e.number = dvSequence[e.stream] + 1 /\ dvSequence[e.stream] \in Nat /\ dvTurn \in Nat
    BY DrawnShape DEF DvShape
<1>3. \A b \in dvCasts : b.event.turn \in Nat /\ b.event.turn <= dvTurn
    BY KnownMembers, KnownShape DEF NumberInv, Envelope
<1>4. ASSUME NEW a \in dvCasts, a.event.stream = e.stream PROVE a.to \subseteq new.to
    <2> SUFFICES ASSUME NEW c \in a.to PROVE c \in Ahead(dvRegistered, e)
        OBVIOUS
    <2>1. a.to \subseteq dvRegistered
        BY DEF PlaceInv, CastsOK
    <2>2. PICK d \in a.to : ~Skips(d, a.event) /\ dvJoined[d] <= dvJoined[c]
        BY DEF PlaceInv, CastsOK, Awaited
    <2>3. ~Skips(d, e)
        BY <1>4, <2>2 DEF Skips, Interested
    <2> HIDE DEF e
    <2> QED BY <2>1, <2>2, <2>3 DEF Ahead
<1>5. ASSUME NEW c \in new.to, NEW i \in 1..Len(dvGot[c]), dvGot[c][i].stream = e.stream
      PROVE  dvGot[c][i].number < e.number
    <2>1. c \in Clients
        BY DEF Ahead, DvShape
    <2>2. dvGot[c][i] \in Received(c)
        BY <2>1 DEF Received, ToSet, DvShape
    <2>3. dvGot[c][i] \in Known /\ dvGot[c][i] \in Envelope
        BY <2>1, <2>2, KnownMembers, KnownShape
    <2>4. dvGot[c][i].number <= dvSequence[e.stream] /\ dvGot[c][i].number \in Nat
        BY <1>5, <2>3 DEF NumberInv, Envelope
    <2> HIDE DEF e
    <2> QED BY <1>2, <2>4
<1>6. new.event = e
    OBVIOUS
<1> HIDE DEF new, e
<1>7. ASSUME NEW a \in dvCasts', NEW b \in dvCasts', Follows(a, b) PROVE a.to \subseteq b.to
    <2>1. CASE a \in dvCasts /\ b \in dvCasts
        BY <1>7, <2>1 DEF OrderInv
    <2>2. CASE a \in dvCasts /\ b = new
        BY <1>4, <1>6, <1>7, <2>2 DEF Follows
    <2>3. CASE a = new
        BY <1>1, <1>2, <1>3, <1>6, <1>7, <2>3 DEF Follows
    <2> QED BY <1>1, <2>1, <2>2, <2>3
<1>8. ASSUME NEW b \in dvCasts', NEW c \in b.to, NEW i \in 1..Len(dvGot[c]), dvGot[c][i].stream = b.event.stream
      PROVE  dvGot[c][i].number < b.event.number
    BY <1>1, <1>5, <1>6, <1>8 DEF OrderInv
<1> QED BY <1>1, <1>7, <1>8 DEF OrderInv, InOrderUntilDrop

LEMMA OrderAfterSent ==
    ASSUME DvShape, PlaceInv, NumberInv, TurnInv, OrderInv,
           NEW b \in dvCasts, NEW c \in Clients, Sent(b, c), dvDropped' = {}
    PROVE  OrderInv'
<1>1. PICK failed \in {{}, {c}} : GoesOn(b, c, failed)
    BY SentCases
<1>2. dvDropped = {} /\ b.event \in Envelope
    BY <1>1, SentGot DEF GoesOn
<1> DEFINE new == On(b, c, failed)
<1>3. /\ new.event = b.event /\ new.to = Rest(b, c) /\ new.to \subseteq b.to \ {c}
      /\ dvCasts' = dvCasts \ {b} \/ dvCasts' = (dvCasts \ {b}) \cup {new}
    BY <1>1 DEF GoesOn
<1> HIDE DEF new
<1>4. \A a \in dvCasts : a.to \subseteq Clients /\ a.event.turn \in Nat /\ a.event.number \in Nat /\ a.event \in Known
    BY KnownMembers, KnownShape DEF Envelope, DvShape, Cast
(* No earlier broadcast of the stream awaits c. *)
<1>5. ASSUME NEW a \in dvCasts, Follows(a, b) PROVE c \notin a.to
    <2>1. a.to \subseteq b.to
        BY <1>2, <1>5 DEF OrderInv
    <2>2. IsNext(b, c) /\ ~IsNext(a, c)
        BY <1>5 DEF Sent, InTurn, Follows
    <2> QED BY <2>1, <2>2 DEF IsNext
(* Nor does a broadcast of the stream that awaits c come before it. *)
<1>6. ASSUME NEW a \in dvCasts, a # b, c \in a.to, a.event.stream = b.event.stream
      PROVE  b.event.number < a.event.number
    <2>1. b.event.turn < a.event.turn
        BY <1>4, <1>5, <1>6 DEF Follows, TurnInv
    <2> QED BY <1>4, <1>6, <2>1 DEF NumberInv
<1>7. ASSUME NEW x \in dvCasts', NEW y \in dvCasts', Follows(x, y) PROVE x.to \subseteq y.to
    <2>1. CASE x \in dvCasts /\ y \in dvCasts
        BY <1>2, <1>7, <2>1 DEF OrderInv
    <2>2. CASE x = new /\ y \in dvCasts
        BY <1>2, <1>3, <1>7, <2>2 DEF OrderInv, Follows
    <2>3. CASE x \in dvCasts /\ y = new
        <3>1. Follows(x, b) /\ x.to \subseteq b.to /\ c \notin x.to
            BY <1>2, <1>3, <1>5, <1>7, <2>3 DEF OrderInv, Follows
        <3> SUFFICES ASSUME NEW d \in x.to PROVE d \in Rest(b, c)
            BY <1>3, <2>3
        <3>2. PICK z \in x.to : ~Skips(z, x.event) /\ dvJoined[z] <= dvJoined[d]
            BY <2>3 DEF PlaceInv, CastsOK, Awaited
        <3>3. ~Skips(z, b.event)
            BY <3>1, <3>2 DEF Skips, Interested, Follows
        <3> QED BY <3>1, <3>2, <3>3 DEF Rest, Ahead
    <2>4. CASE x = new /\ y = new
        BY <2>4
    <2> QED BY <1>3, <2>1, <2>2, <2>3, <2>4
<1>8. /\ \A d \in Clients : d # c => dvGot'[d] = dvGot[d]
      /\ dvGot'[c] = dvGot[c] \/ dvGot'[c] = Append(dvGot[c], b.event)
    BY SentGot
<1>9. \A i \in 1..Len(dvGot'[c]) : \/ i \in 1..Len(dvGot[c]) /\ dvGot'[c][i] = dvGot[c][i]
                                   \/ i = Len(dvGot[c]) + 1 /\ dvGot'[c][i] = b.event
    <2>1. dvGot[c] \in Seq(Envelope)
        BY DEF DvShape
    <2> QED BY <1>2, <1>8, <2>1
<1>10. ASSUME NEW x \in dvCasts', NEW d \in x.to, NEW i \in 1..Len(dvGot'[d]),
              dvGot'[d][i].stream = x.event.stream
       PROVE  dvGot'[d][i].number < x.event.number
    <2>1. CASE d # c
        <3>1. d \in Clients /\ dvGot'[d] = dvGot[d]
            BY <1>3, <1>4, <1>8, <2>1
        <3>2. PICK y \in dvCasts : y.event = x.event /\ d \in y.to
            BY <1>3
        <3> QED BY <1>2, <1>10, <3>1, <3>2 DEF OrderInv
    <2>2. CASE d = c
        <3>1. x \in dvCasts /\ x # b
            BY <1>3, <2>2
        <3>2. CASE i \in 1..Len(dvGot[c]) /\ dvGot'[c][i] = dvGot[c][i]
            BY <1>2, <1>10, <2>2, <3>1, <3>2 DEF OrderInv
        <3>3. CASE dvGot'[c][i] = b.event
            BY <1>6, <1>10, <2>2, <3>1, <3>3
        <3> QED BY <1>9, <2>2, <3>2, <3>3
    <2> QED BY <2>1, <2>2
<1>11. ASSUME NEW d \in Clients, NEW i \in 1..Len(dvGot'[d]), NEW j \in 1..Len(dvGot'[d]),
              i < j, dvGot'[d][i].stream = dvGot'[d][j].stream
       PROVE  dvGot'[d][i].number < dvGot'[d][j].number
    <2>0. Len(dvGot[c]) \in Nat /\ DOMAIN dvGot[d] = 1..Len(dvGot[d])
        BY DEF DvShape
    <2>1. CASE dvGot'[d] = dvGot[d]
        BY <1>2, <1>11, <2>0, <2>1 DEF OrderInv, InOrderUntilDrop
    <2>2. CASE d = c
        <3>1. i \in 1..Len(dvGot[c]) /\ dvGot'[c][i] = dvGot[c][i]
            BY <1>9, <1>11, <2>0, <2>2
        <3>2. CASE j \in 1..Len(dvGot[c]) /\ dvGot'[c][j] = dvGot[c][j]
            BY <1>2, <1>11, <2>0, <2>2, <3>1, <3>2 DEF OrderInv, InOrderUntilDrop
        <3>3. CASE dvGot'[c][j] = b.event
            <4>1. c \in b.to
                BY DEF Sent, InTurn, IsNext
            <4> QED BY <1>2, <1>11, <2>2, <3>1, <3>3, <4>1 DEF OrderInv
        <3> QED BY <1>9, <2>2, <3>2, <3>3
    <2> QED BY <1>8, <2>1, <2>2
<1>12. \A d \in Clients : DOMAIN dvGot'[d] = 1..Len(dvGot'[d])
    <2>1. dvGot[c] \in Seq(Envelope) /\ Append(dvGot[c], b.event) \in Seq(Envelope)
        BY <1>2 DEF DvShape
    <2> QED BY <1>8, <2>1 DEF DvShape
<1>13. InOrderUntilDrop'
    BY <1>11, <1>12 DEF InOrderUntilDrop
<1> QED BY <1>7, <1>10, <1>13 DEF OrderInv

LEMMA OrderStep ==
    ASSUME DvShape, PlaceInv, NumberInv, TurnInv, OrderInv, [DvNext]_dvVars
    PROVE  OrderInv'
<1>1. ASSUME UNCHANGED <<dvCasts, dvGot>>, dvDropped \subseteq dvDropped' PROVE OrderInv'
    BY <1>1 DEF OrderInv, InOrderUntilDrop
<1>2. CASE Quiet
    BY <1>1, <1>2 DEF Quiet, dvHistory
<1>3. CASE dvInbox # <<>> /\ Enters(Head(dvInbox))
    <2>1. UNCHANGED dvDropped
        BY <1>3 DEF Enters
    <2>2. CASE dvDropped = {}
        BY <1>3, <2>2, OrderAfterBegin
    <2>3. CASE dvDropped # {}
        BY <2>1, <2>3 DEF OrderInv
    <2> QED BY <2>2, <2>3
<1>4. ASSUME NEW c \in Clients, ConnectClient(c) \/ HandlerEnds(c) PROVE OrderInv'
    BY <1>1, <1>4 DEF ConnectClient, HandlerEnds, Disconnect, dvHistory
<1>5. ASSUME NEW b \in dvCasts, NEW c \in Clients, Sent(b, c) PROVE OrderInv'
    <2>1. CASE dvDropped' = {}
        BY <1>5, <2>1, OrderAfterSent
    <2>2. CASE dvDropped' # {}
        BY <2>2 DEF OrderInv
    <2> QED BY <2>1, <2>2
<1> QED BY <1>2, <1>3, <1>4, <1>5, Kinds

-----------------------------------------------------------------------------
(* For any messages, clients, filters and limits: what a client receives is *)
(* in order until some client is dropped, is of the streams it asked for    *)
(* and comes once within the memory of the sequencer; a registered client   *)
(* misses nothing, and what another misses can be replayed as far back as   *)
(* the buffer reaches.                                                      *)
THEOREM StreamsStayIntact == DvSpec => []StreamsIntact
<1> DEFINE Inv == /\ DvShape /\ PlaceInv /\ NumberInv /\ TurnInv /\ RecentInv
                  /\ MissInv /\ FiltersHold /\ BufferInv /\ OrderInv
<1>1. DvInit => Inv
    <2> SUFFICES ASSUME DvInit PROVE Inv
        OBVIOUS
    <2>1. DvShape /\ PlaceInv /\ Known = {}
        BY DvShapeInit, PlaceInit, KnownInit
    <2>2. NumberInv /\ TurnInv
        BY <2>1 DEF NumberInv, TurnInv, DvInit
    <2>3. RecentInv
        BY <2>1, DeliveryAssumption DEF RecentInv, DvInit, DeliveryAssumption
    <2>4. MissInv /\ FiltersHold
        BY DEF DvInit, MissInv, RegisteredMissedNothing, FiltersHold, Received, ToSet
    <2>5. BufferInv
        BY DEF DvInit, BufferInv, Rising
    <2>6. OrderInv
        BY DEF DvInit, OrderInv, InOrderUntilDrop
    <2> QED BY <2>1, <2>2, <2>3, <2>4, <2>5, <2>6
<1>2. Inv /\ [DvNext]_dvVars => Inv'
    <2> SUFFICES ASSUME Inv, [DvNext]_dvVars PROVE Inv'
        OBVIOUS
    <2>1. DvShape' /\ PlaceInv'
        BY DvShapeStep, PlacesStep, CastsStep DEF PlaceInv
    <2>2. NumberInv' /\ TurnInv' /\ RecentInv'
        BY NumberStep, TurnStep, RecentStep
    <2>3. MissInv' /\ FiltersHold' /\ BufferInv' /\ OrderInv'
        BY MissStep, FiltersStep, BufferStep, OrderStep
    <2> QED BY <2>1, <2>2, <2>3
<1>3. Inv => StreamsIntact
    <2> SUFFICES ASSUME Inv PROVE StreamsIntact
        OBVIOUS
    <2>1. TwiceOnlyWhenForgotten /\ GapsReplayable
        BY RecentHolds, BufferHolds
    <2>2. InOrderUntilDrop
        BY DEF OrderInv, InOrderUntilDrop
    <2> QED BY <2>1, <2>2 DEF StreamsIntact, MissInv
<1> QED BY <1>1, <1>2, <1>3, PTL DEF DvSpec

-----------------------------------------------------------------------------
(* The bounds on what is stored: as many versions as signals that were       *)
(* numbered, and no batch larger than its limit.                             *)
Begun == {s \in Signals : dsPublish[s].at # "new"}
Fits(got, read) == Cardinality(got) + Cardinality(read) <= BatchLimit

VersionsOK ==
    /\ dsVersion = Cardinality(Begun) /\ dsLatest \in Nat /\ dsLatest <= dsVersion
    /\ \A s \in Signals : dsPublish[s].version <= dsVersion /\ (s \in Begun => dsPublish[s].version >= 1)

BatchesOK ==
    /\ dsClock <= LastTick /\ dsBatches \in 0..MaxBatches
    /\ \A c \in Consumers : Now(c) <= LastTick /\ IsFiniteSet(Got(c)) /\ IsFiniteSet(Took(c)) /\ Fits(Got(c), Took(c))
    /\ dsContested \subseteq Job /\ dsLost \subseteq Job

LEMMA DistributionFacts ==
    /\ IsFiniteSet(Signals) /\ Cardinality(Signals) \in Nat /\ BatchLimit \in Nat /\ BatchLimit > 0
    /\ LastTick \in Nat /\ MaxBatches \in Nat
BY DistributionAssumption, FS_CardinalityType DEF DistributionAssumption

LEMMA VersionsInit == DsInit => VersionsOK
<1> SUFFICES ASSUME DsInit PROVE VersionsOK
    OBVIOUS
<1>1. Begun = {} /\ dsVersion = 0 /\ dsLatest = 0 /\ \A s \in Signals : dsPublish[s].version = 0
    BY DEF DsInit, Begun, Unpublished
<1>2. Cardinality({}) = 0
    BY FS_EmptySet
<1> QED BY <1>1, <1>2 DEF VersionsOK

LEMMA VersionsStep ==
    ASSUME ShapeOK, VersionsOK, [DsNext]_dsVars
    PROVE  VersionsOK'
<1>1. ASSUME UNCHANGED <<dsVersion, dsLatest, dsPublish>> PROVE VersionsOK'
    BY <1>1 DEF VersionsOK, Begun
<1>2. ASSUME NEW s \in Signals, TakeVersion(s) PROVE VersionsOK'
    <2>1. /\ dsPublish[s].at = "new" /\ dsVersion' = dsVersion + 1 /\ dsVersion \in Nat /\ dsLatest' = dsLatest
          /\ dsPublish'[s].at = "numbered" /\ dsPublish'[s].version = dsVersion + 1
          /\ \A r \in Signals : r # s => dsPublish'[r] = dsPublish[r]
        BY <1>2 DEF TakeVersion, ShapeOK
    <2>2. Begun' = Begun \cup {s} /\ s \notin Begun
        BY <2>1 DEF Begun
    <2>3. IsFiniteSet(Begun)
        <3>1. Begun \subseteq Signals
            BY DEF Begun
        <3> QED BY <3>1, DistributionFacts, FS_Subset
    <2>4. Cardinality(Begun') = Cardinality(Begun) + 1
        BY <2>2, <2>3, FS_AddElement
    <2>5. \A r \in Signals : dsPublish[r].version \in Nat
        BY DEF ShapeOK
    <2> QED BY <2>1, <2>2, <2>4, <2>5 DEF VersionsOK
<1>3. ASSUME NEW s \in Signals, SaveLatest(s) PROVE VersionsOK'
    <2>1. /\ dsPublish[s].at = "numbered" /\ dsVersion' = dsVersion /\ dsVersion \in Nat
          /\ dsLatest' = dsPublish[s].version /\ dsPublish[s].version \in Nat
          /\ dsPublish'[s].at = "queueing" /\ dsPublish'[s].version = dsPublish[s].version
          /\ \A r \in Signals : r # s => dsPublish'[r] = dsPublish[r]
        BY <1>3 DEF SaveLatest, ShapeOK
    <2>2. Begun' = Begun
        BY <2>1 DEF Begun
    <2> QED BY <2>1, <2>2 DEF VersionsOK
<1>4. ASSUME NEW s \in Signals, Enqueue(s) PROVE VersionsOK'
    <2>1. /\ dsPublish[s].at = "queueing" /\ UNCHANGED <<dsVersion, dsLatest>>
          /\ dsPublish'[s].at \in {"queueing", "done"} /\ dsPublish'[s].version = dsPublish[s].version
          /\ \A r \in Signals : r # s => dsPublish'[r] = dsPublish[r]
        BY <1>4 DEF Enqueue, ShapeOK
    <2>2. Begun' = Begun
        BY <2>1 DEF Begun
    <2> QED BY <2>1, <2>2 DEF VersionsOK
<1>5. ASSUME NEW c \in Consumers,
             \/ StartBatch(c) \/ ReadDue(c) \/ NothingDue(c) \/ RemoveRead(c)
             \/ ReturnBatch(c) \/ ConsumerDies(c)
      PROVE  VersionsOK'
    BY <1>1, <1>5 DEF StartBatch, ReadDue, NothingDue, RemoveRead, ReturnBatch, ConsumerDies
<1>6. CASE DsTick \/ UNCHANGED dsVars
    BY <1>1, <1>6 DEF DsTick, dsVars
<1> QED BY <1>2, <1>3, <1>4, <1>5, <1>6 DEF DsNext

(* What was issued is a job.                                                *)
LEMMA IssuedJob ==
    ASSUME ShapeOK, VersionsOK, NEW j \in AnyJob, NEW lane, Issued(j, lane)
    PROVE  j \in Job
<1>1. PICK s \in Signals : Out(s) /\ dsPublish[s].version = j.version
    BY DEF Issued
<1>2. s \in Begun /\ dsPublish[s].version \in Nat /\ dsVersion \in Nat
    BY <1>1 DEF Out, Begun, ShapeOK
<1>3. j.version >= 1 /\ j.version <= Cardinality(Begun)
    BY <1>1, <1>2 DEF VersionsOK
<1>4. Cardinality(Begun) <= Cardinality(Signals) /\ Cardinality(Begun) \in Nat
    <2>1. Begun \subseteq Signals
        BY DEF Begun
    <2> QED BY <2>1, DistributionFacts, FS_Subset, FS_CardinalityType
<1>5. j.version \in 1..Cardinality(Signals)
    BY <1>1, <1>2, <1>3, <1>4, DistributionFacts
<1> QED BY <1>5 DEF AnyJob, Job

LEMMA JobsOfAll ==
    ASSUME ShapeOK, VersionsOK, JobInv
    PROVE  /\ \A lane \in LaneNames : dsQueue[lane] \subseteq Job
           /\ \A c \in Consumers : Got(c) \subseteq Job /\ Took(c) \subseteq Job
           /\ DOMAIN dsGiven \subseteq Job
<1>1. \A lane \in LaneNames : dsQueue[lane] \subseteq Job
    BY IssuedJob DEF JobInv, ShapeOK
<1>2. \A c \in Consumers : Got(c) \subseteq Job
    BY IssuedJob DEF JobInv, ShapeOK, Got
<1>3. \A c \in Consumers : Took(c) \subseteq Job
    BY IssuedJob DEF JobInv, ShapeOK, Took
<1>4. DOMAIN dsGiven \subseteq Job
    BY IssuedJob DEF JobInv, ShapeOK
<1> QED BY <1>1, <1>2, <1>3, <1>4

LEMMA NothingFits == IsFiniteSet({}) /\ Fits({}, {})
<1>1. Cardinality({}) = 0 /\ IsFiniteSet({})
    BY FS_EmptySet
<1> QED BY <1>1, DistributionFacts DEF Fits

LEMMA BatchesInit == DsInit => BatchesOK
<1> SUFFICES ASSUME DsInit PROVE BatchesOK
    OBVIOUS
<1>1. \A c \in Consumers : Now(c) = 0 /\ Got(c) = {} /\ Took(c) = {}
    BY DEF DsInit, Now, Got, Took, Resting
<1>2. dsClock = 0 /\ dsBatches = 0 /\ dsContested = {} /\ dsLost = {}
    BY DEF DsInit
<1> QED BY <1>1, <1>2, NothingFits, DistributionFacts DEF BatchesOK

LEMMA BatchesStep ==
    ASSUME ShapeOK, VersionsOK, JobInv, LaneInv, BatchesOK, [DsNext]_dsVars
    PROVE  BatchesOK'
<1>0. /\ dsClock \in Nat /\ \A c \in Consumers : Now(c) \in Nat
      /\ DOMAIN dsBatch = Consumers
    BY DEF ShapeOK, Now
<1>1. ASSUME UNCHANGED <<dsBatch, dsContested, dsLost, dsBatches>>, dsClock' <= LastTick PROVE BatchesOK'
    <2>1. \A c \in Consumers : Now(c)' = Now(c) /\ Got(c)' = Got(c) /\ Took(c)' = Took(c)
        BY <1>1 DEF Now, Got, Took
    <2> QED BY <1>1, <2>1 DEF BatchesOK
(* A step of one consumer.                                                   *)
<1>2. ASSUME NEW c \in Consumers, dsClock' = dsClock, dsBatches' \in 0..MaxBatches,
             dsContested' \subseteq Job, dsLost' \subseteq Job,
             \A d \in Consumers : d # c => dsBatch'[d] = dsBatch[d],
             Now(c)' <= LastTick, IsFiniteSet(Got(c)'), IsFiniteSet(Took(c)'), Fits(Got(c)', Took(c)')
      PROVE  BatchesOK'
    <2>1. \A d \in Consumers : d # c => Now(d)' = Now(d) /\ Got(d)' = Got(d) /\ Took(d)' = Took(d)
        BY <1>2 DEF Now, Got, Took
    <2>2. \A d \in Consumers : /\ Now(d)' <= LastTick /\ IsFiniteSet(Got(d)') /\ IsFiniteSet(Took(d)')
                               /\ Fits(Got(d)', Took(d)')
        BY <1>2, <2>1 DEF BatchesOK
    <2>3. \A d \in Consumers : Fits(Got(d), Took(d))'
        BY <2>2 DEF Fits
    <2> QED BY <1>2, <2>2, <2>3 DEF BatchesOK
<1>3. dsContested \subseteq Job /\ dsLost \subseteq Job /\ dsBatches \in 0..MaxBatches /\ dsClock <= LastTick
    BY DEF BatchesOK
<1>4. ASSUME NEW c \in Consumers, StartBatch(c) PROVE BatchesOK'
    <2>1. /\ Now(c)' = dsClock /\ Got(c)' = {} /\ Took(c)' = {} /\ dsClock' = dsClock
          /\ UNCHANGED <<dsContested, dsLost>>
          /\ \A d \in Consumers : d # c => dsBatch'[d] = dsBatch[d]
        BY <1>0, <1>4 DEF StartBatch, Now, Got, Took
    <2>2. dsBatches' \in 0..MaxBatches
        BY <1>3, <1>4, DistributionFacts DEF StartBatch
    <2> QED BY <1>2, <1>3, <2>1, <2>2, NothingFits
<1>5. ASSUME NEW c \in Consumers, ReadDue(c) PROVE BatchesOK'
    <2>1. PICK read \in Earliest(Due(Lanes[At(c)], Now(c)), Room(c)) :
              /\ dsBatch' = [dsBatch EXCEPT ![c].read = read]
              /\ dsContested' = dsContested \cup UNION {read \cap dsBatch[d].read : d \in Consumers \ {c}}
        BY <1>5 DEF ReadDue, At, Now
    <2>2. Lanes[At(c)] \in LaneNames /\ Room(c) > 0
        BY <1>5, LaneNumbers DEF ReadDue, At
    <2>3. read \subseteq Due(Lanes[At(c)], Now(c)) /\ Due(Lanes[At(c)], Now(c)) \subseteq dsQueue[Lanes[At(c)]]
        BY <2>1 DEF Earliest, Due
    <2>4. IsFiniteSet(Due(Lanes[At(c)], Now(c)))
        BY <2>2, <2>3, FS_Subset DEF LaneInv
    <2>5. IsFiniteSet(read) /\ Cardinality(read) <= Room(c)
        <3>1. IsFiniteSet(read) /\ Cardinality(read) \in Nat
            BY <2>3, <2>4, FS_Subset, FS_CardinalityType
        <3>2. PICK n, m, r : n = Cardinality(read) /\ m = Cardinality(Due(Lanes[At(c)], Now(c))) /\ r = Room(c)
            OBVIOUS
        <3>3. n = IF m < r THEN m ELSE r
            BY <2>1, <3>2 DEF Earliest
        <3>4. IsFiniteSet(Got(c)) /\ Cardinality(Got(c)) \in Nat
            BY FS_CardinalityType DEF BatchesOK
        <3>5. r \in Int /\ m \in Nat
            BY <2>4, <3>2, <3>4, DistributionFacts, FS_CardinalityType DEF Room, Got
        <3>6. n <= r
            BY ONLY <3>3, <3>5
        <3> QED BY <3>1, <3>2, <3>6
    <2>6. read \subseteq Job /\ dsContested' \subseteq Job
        <3>1. read \subseteq Job
            BY <2>2, <2>3, JobsOfAll
        <3>2. UNION {read \cap dsBatch[d].read : d \in Consumers \ {c}} \subseteq Job
            BY <3>1
        <3> QED BY <1>3, <2>1, <3>1, <3>2
    <2>7. /\ Now(c)' = Now(c) /\ Got(c)' = Got(c) /\ Took(c)' = read
          /\ \A d \in Consumers : d # c => dsBatch'[d] = dsBatch[d]
        BY <2>1 DEF Now, Got, Took, ShapeOK
    <2>8. Fits(Got(c)', Took(c)')
        <3>1. IsFiniteSet(Got(c)) /\ Cardinality(Got(c)) \in Nat /\ Cardinality(read) \in Nat
            BY <2>5, FS_CardinalityType DEF BatchesOK
        <3>2. Cardinality(read) <= BatchLimit - Cardinality(Got(c))
            BY <2>5 DEF Room, Got
        <3>3. Cardinality(Got(c)) + Cardinality(read) <= BatchLimit
            BY <3>1, <3>2, DistributionFacts
        <3> QED BY <2>7, <3>3 DEF Fits
    <2>9. UNCHANGED <<dsClock, dsLost, dsBatches>>
        BY <1>5 DEF ReadDue
    <2> QED BY <1>2, <1>3, <2>5, <2>6, <2>7, <2>8, <2>9 DEF BatchesOK
<1>6. ASSUME NEW c \in Consumers, NothingDue(c) PROVE BatchesOK'
    <2>1. /\ Now(c)' = Now(c) /\ Got(c)' = Got(c) /\ Took(c)' = Took(c)
          /\ UNCHANGED <<dsClock, dsContested, dsLost, dsBatches>>
          /\ \A d \in Consumers : d # c => dsBatch'[d] = dsBatch[d]
        BY <1>6 DEF NothingDue, Now, Got, Took, ShapeOK
    <2> QED BY <1>2, <1>3, <2>1 DEF BatchesOK
<1>7. ASSUME NEW c \in Consumers, RemoveRead(c) PROVE BatchesOK'
    <2>1. /\ Now(c)' = Now(c) /\ Got(c)' = Got(c) \cup Took(c) /\ Took(c)' = {}
          /\ UNCHANGED <<dsClock, dsContested, dsLost, dsBatches>>
          /\ \A d \in Consumers : d # c => dsBatch'[d] = dsBatch[d]
        BY <1>7 DEF RemoveRead, Now, Got, Took, ShapeOK
    <2>2. IsFiniteSet(Got(c)) /\ IsFiniteSet(Took(c)) /\ Fits(Got(c), Took(c))
        BY DEF BatchesOK
    <2>3. /\ IsFiniteSet(Got(c) \cup Took(c))
          /\ Cardinality(Got(c) \cup Took(c)) = Cardinality(Got(c)) + Cardinality(Took(c)) - Cardinality(Got(c) \cap Took(c))
        BY <2>2, FS_Union
    <2>4. /\ Cardinality(Got(c)) \in Nat /\ Cardinality(Took(c)) \in Nat /\ Cardinality(Got(c) \cap Took(c)) \in Nat
          /\ Cardinality(Got(c) \cup Took(c)) \in Nat
        BY <2>2, <2>3, FS_Intersection, FS_CardinalityType
    <2>5. Cardinality(Got(c) \cup Took(c)) + 0 <= BatchLimit
        BY <2>2, <2>3, <2>4, DistributionFacts DEF Fits
    <2>6. Fits(Got(c)', Took(c)')
        BY <2>1, <2>5, FS_EmptySet DEF Fits
    <2> QED BY <1>2, <1>3, <2>1, <2>3, <2>6, NothingFits DEF BatchesOK
<1>8. ASSUME NEW c \in Consumers, ReturnBatch(c) \/ ConsumerDies(c) PROVE BatchesOK'
    <2>1. /\ Now(c)' = 0 /\ Got(c)' = {} /\ Took(c)' = {}
          /\ UNCHANGED <<dsClock, dsContested, dsBatches>> /\ dsLost' \subseteq dsLost \cup Got(c)
          /\ \A d \in Consumers : d # c => dsBatch'[d] = dsBatch[d]
        BY <1>0, <1>8 DEF ReturnBatch, ConsumerDies, Now, Got, Took, Resting
    <2>2. dsLost' \subseteq Job
        BY <1>3, <2>1, JobsOfAll
    <2> QED BY <1>2, <1>3, <2>1, <2>2, NothingFits, DistributionFacts
<1>9. ASSUME NEW s \in Signals, TakeVersion(s) \/ SaveLatest(s) \/ Enqueue(s) PROVE BatchesOK'
    BY <1>1, <1>3, <1>9 DEF TakeVersion, SaveLatest, Enqueue
<1>10. CASE DsTick
    <2>1. dsClock' <= LastTick
        BY <1>0, <1>10, DistributionFacts DEF DsTick
    <2> QED BY <1>1, <1>10, <2>1 DEF DsTick
<1>11. CASE UNCHANGED dsVars
    BY <1>1, <1>3, <1>11 DEF dsVars
<1> QED BY <1>4, <1>5, <1>6, <1>7, <1>8, <1>9, <1>10, <1>11 DEF DsNext

JobsInv == ShapeOK /\ VersionInv /\ LatestInv /\ JobInv /\ LaneInv /\ VersionsOK /\ BatchesOK

LEMMA JobsInit == DsInit => JobsInv
BY ShapeInit, VersionInit, JobInit, LaneInit, VersionsInit, BatchesInit DEF JobsInv

LEMMA JobsStep == JobsInv /\ [DsNext]_dsVars => JobsInv'
<1> SUFFICES ASSUME JobsInv, [DsNext]_dsVars PROVE JobsInv'
    OBVIOUS
<1>1. ShapeOK'
    BY ShapeStep DEF JobsInv
<1>2. VersionInv' /\ LatestInv' /\ JobInv' /\ LaneInv'
    BY <1>1, VersionStep, JobStep, LaneStep DEF JobsInv
<1>3. VersionsOK' /\ BatchesOK'
    BY VersionsStep, BatchesStep DEF JobsInv
<1> QED BY <1>1, <1>2, <1>3 DEF JobsInv

LEMMA JobsTyped == JobsInv => DsTypeOK
<1> SUFFICES ASSUME JobsInv PROVE DsTypeOK
    OBVIOUS
<1>1. /\ \A lane \in LaneNames : dsQueue[lane] \subseteq Job
      /\ \A c \in Consumers : Got(c) \subseteq Job /\ Took(c) \subseteq Job
      /\ DOMAIN dsGiven \subseteq Job
    BY JobsOfAll DEF JobsInv
<1>2. ShapeOK /\ VersionsOK /\ BatchesOK
    BY DEF JobsInv
<1>3. dsVersion \in 0..Cardinality(Signals) /\ dsLatest \in 0..Cardinality(Signals)
    <2>1. Begun \subseteq Signals
        BY DEF Begun
    <2>2. Cardinality(Begun) <= Cardinality(Signals) /\ Cardinality(Begun) \in Nat
        BY <2>1, DistributionFacts, FS_Subset, FS_CardinalityType
    <2> QED BY <1>2, <2>2, DistributionFacts DEF VersionsOK
<1>4. ASSUME NEW s \in Signals
      PROVE  /\ dsPublish[s].at \in {"new", "numbered", "queueing", "done"}
             /\ dsPublish[s].version \in 0..Cardinality(Signals) /\ dsPublish[s].todo \subseteq Subscribers
    <2>1. dsPublish[s].version \in Nat /\ dsPublish[s].version <= dsVersion
        BY <1>2 DEF ShapeOK, VersionsOK
    <2>2. dsPublish[s].version \in 0..Cardinality(Signals)
        BY <1>3, <2>1, DistributionFacts
    <2> QED BY <1>2, <2>2 DEF ShapeOK
<1>5. ASSUME NEW c \in Consumers
      PROVE  /\ dsBatch[c].lane \in 0..4 /\ dsBatch[c].now \in 0..LastTick
             /\ dsBatch[c].read \subseteq Job /\ dsBatch[c].got \subseteq Job
             /\ Cardinality(dsBatch[c].got \cup dsBatch[c].read) <= BatchLimit
    <2>1. dsBatch[c].lane \in 0..4 /\ dsBatch[c].now \in Nat
        BY <1>2 DEF ShapeOK
    <2>2. Now(c) <= LastTick /\ IsFiniteSet(Got(c)) /\ IsFiniteSet(Took(c)) /\ Fits(Got(c), Took(c))
        BY <1>2 DEF BatchesOK
    <2>3. dsBatch[c].now \in 0..LastTick
        BY <2>1, <2>2, DistributionFacts DEF Now
    <2>4. Cardinality(Got(c) \cup Took(c)) <= BatchLimit
        <3>1. /\ IsFiniteSet(Got(c) \cup Took(c))
              /\ Cardinality(Got(c) \cup Took(c)) = Cardinality(Got(c)) + Cardinality(Took(c)) - Cardinality(Got(c) \cap Took(c))
            BY <2>2, FS_Union
        <3>2. /\ Cardinality(Got(c)) \in Nat /\ Cardinality(Took(c)) \in Nat /\ Cardinality(Got(c) \cap Took(c)) \in Nat
            BY <2>2, FS_Intersection, FS_CardinalityType
        <3> QED BY <2>2, <3>1, <3>2, DistributionFacts DEF Fits
    <2> QED BY <1>1, <2>1, <2>3, <2>4 DEF Got, Took
<1>6. dsClock \in 0..LastTick /\ dsBatches \in 0..MaxBatches /\ dsRaced \in BOOLEAN
    BY <1>2, DistributionFacts DEF ShapeOK, BatchesOK
<1>7. dsContested \subseteq Job /\ dsLost \subseteq Job
    BY <1>2 DEF BatchesOK
<1> QED BY <1>1, <1>3, <1>4, <1>5, <1>6, <1>7 DEF DsTypeOK

(* For any number of signals, subscribers and consumers: what is stored is   *)
(* well typed, as many versions as signals, and no batch over its limit.     *)
THEOREM JobsAreTyped == DsSpec => []DsTypeOK
BY JobsInit, JobsStep, JobsTyped, PTL DEF DsSpec

-----------------------------------------------------------------------------
(* The bounds on what is kept: no more turns and numbers than messages were  *)
(* published, and no list longer than its limit.                            *)
ChannelOK ==
    /\ dvListening \in BOOLEAN /\ dvReconnects \in 0..MaxReconnects
    /\ dvPublished <= Len(Messages) /\ dvTurn + Len(dvInbox) <= dvPublished
    /\ \A s \in Streams : dvSequence[s] <= dvTurn

EventsOK ==
    /\ Len(dvRecent) <= RecentLimit
    /\ \A s \in Streams : Len(dvBuffer[s]) <= BufferLimit /\ \A i \in 1..Len(dvBuffer[s]) : dvBuffer[s][i] \in Event
    /\ \A b \in dvCasts : b.event \in Event
    /\ \A c \in Clients : dvOwed[c] \subseteq Event

LEMMA DeliveryFacts ==
    /\ Len(Messages) \in Nat /\ RecentLimit \in Nat /\ RecentLimit > 0 /\ BufferLimit \in Nat /\ BufferLimit > 0
    /\ MaxReconnects \in Nat
<1>1. Messages \in Seq(ToSet(Messages))
    BY DeliveryAssumption DEF DeliveryAssumption
<1>2. Len(Messages) \in Nat
    BY <1>1
<1> QED BY <1>2, DeliveryAssumption DEF DeliveryAssumption

LEMMA ChannelInit == DvInit => ChannelOK
<1> SUFFICES ASSUME DvInit PROVE ChannelOK
    OBVIOUS
<1>1. dvPublished = 0 /\ dvTurn = 0 /\ Len(dvInbox) = 0 /\ dvReconnects = 0 /\ dvListening = TRUE
    BY DEF DvInit
<1>2. \A s \in Streams : dvSequence[s] = 0
    BY DEF DvInit
<1> QED BY <1>1, <1>2, DeliveryFacts DEF ChannelOK

LEMMA EventsInit == DvInit => EventsOK
<1> SUFFICES ASSUME DvInit PROVE EventsOK
    OBVIOUS
<1>1. Len(dvRecent) = 0 /\ dvCasts = {}
    BY DEF DvInit
<1>2. \A s \in Streams : Len(dvBuffer[s]) = 0
    BY DEF DvInit
<1>3. \A c \in Clients : dvOwed[c] = {}
    BY DEF DvInit
<1> QED BY <1>1, <1>2, <1>3, DeliveryFacts DEF EventsOK

(* The envelope of the next broadcast is within the bounds.                 *)
LEMMA DrawnFits ==
    ASSUME DvShape, ChannelOK, dvInbox # <<>>
    PROVE  /\ Drawn(Head(dvInbox)) \in Event
           /\ dvTurn + 1 + Len(Tail(dvInbox)) <= dvPublished
<1>1. PICK m, e : m = Head(dvInbox) /\ e = Drawn(m)
    OBVIOUS
<1>2. m \in ToSet(Messages) /\ m.stream \in Streams
    <2>1. m \in ToSet(Messages)
        BY <1>1, HeadTailProperties DEF DvShape
    <2> QED BY <1>1, <2>1, DrawnShape
<1>3. dvInbox \in Seq(ToSet(Messages))
    BY DEF DvShape
<1>4. Len(dvInbox) \in Nat /\ Len(dvInbox) > 0 /\ Len(Tail(dvInbox)) = Len(dvInbox) - 1
    BY <1>3
<1>5. PICK l, r, n : l = Len(dvInbox) /\ r = Len(Tail(dvInbox)) /\ n = Len(Messages)
    OBVIOUS
<1>6. l \in Nat /\ l > 0 /\ r = l - 1 /\ n \in Nat
    BY <1>4, <1>5, DeliveryFacts
<1>7. dvTurn + l <= dvPublished /\ dvPublished <= n /\ dvTurn \in Nat /\ dvPublished \in Nat
    BY <1>5 DEF ChannelOK, DvShape
<1>8. dvTurn + 1 + r <= dvPublished /\ dvTurn + 1 \in 1..n
    BY ONLY <1>6, <1>7
<1>9. dvSequence[m.stream] + 1 \in 1..n
    <2>1. dvSequence[m.stream] \in Nat /\ dvSequence[m.stream] <= dvTurn
        BY <1>2 DEF DvShape, ChannelOK
    <2> QED BY <1>6, <1>7, <1>8, <2>1
<1>10. e \in Event
    <2>1. dvSequence[m.stream] + 1 \in Numbers /\ dvTurn + 1 \in Numbers
        BY <1>5, <1>8, <1>9 DEF Numbers
    <2> QED BY <1>1, <1>2, <2>1 DEF Drawn, Event
<1> QED BY <1>1, <1>5, <1>8, <1>10

LEMMA ChannelStep ==
    ASSUME DvShape, ChannelOK, [DvNext]_dvVars
    PROVE  ChannelOK'
<1>1. ASSUME UNCHANGED <<dvListening, dvReconnects, dvPublished, dvTurn, dvInbox, dvSequence>> PROVE ChannelOK'
    BY <1>1 DEF ChannelOK
<1>2. CASE PublishMessage
    <2>1. /\ dvPublished < Len(Messages) /\ dvPublished' = dvPublished + 1
          /\ UNCHANGED <<dvListening, dvReconnects, dvSequence, dvTurn>>
          /\ dvInbox' = dvInbox \/ \E m \in ToSet(Messages) : dvInbox' = Append(dvInbox, m)
        <3>1. dvPublished + 1 \in 1..Len(Messages)
            BY <1>2, DeliveryFacts DEF PublishMessage, DvShape
        <3>2. Messages[dvPublished + 1] \in ToSet(Messages)
            BY <3>1, DeliveryAssumption DEF DeliveryAssumption
        <3> QED BY <1>2, <3>2 DEF PublishMessage, dvNumbered
    <2>2. dvInbox \in Seq(ToSet(Messages)) /\ Len(dvInbox) \in Nat
        BY DEF DvShape
    <2>3. Len(dvInbox') = Len(dvInbox) \/ Len(dvInbox') = Len(dvInbox) + 1
        BY <2>1, <2>2
    <2>4. PICK k, l, n : k = Len(dvInbox) /\ l = Len(dvInbox') /\ n = Len(Messages)
        OBVIOUS
    <2>5. k \in Nat /\ (l = k \/ l = k + 1) /\ n \in Nat
        BY <2>2, <2>3, <2>4, DeliveryFacts
    <2>6. dvTurn + k <= dvPublished /\ dvPublished < n /\ dvTurn \in Nat /\ dvPublished \in Nat
        BY <2>1, <2>4 DEF ChannelOK, DvShape
    <2>7. dvTurn + l <= dvPublished + 1 /\ dvPublished + 1 <= n
        BY ONLY <2>5, <2>6
    <2> QED BY <2>1, <2>4, <2>7 DEF ChannelOK
<1>3. CASE LoseChannel
    <2>1. dvReconnects' \in 0..MaxReconnects
        BY <1>3, DeliveryFacts DEF LoseChannel, ChannelOK
    <2> QED BY <1>3, <2>1 DEF LoseChannel, ChannelOK, dvNumbered
<1>4. CASE Resubscribe
    BY <1>4 DEF Resubscribe, ChannelOK, dvNumbered
<1>5. CASE BeginBroadcast
    <2>1. dvInbox # <<>> /\ Enters(Head(dvInbox)) /\ dvInbox' = Tail(dvInbox)
          /\ UNCHANGED <<dvListening, dvReconnects, dvPublished>>
        BY <1>5, BeginKind DEF BeginBroadcast
    <2>2. PICK s \in Streams : s = Head(dvInbox).stream
        BY <2>1, DrawnShape
    <2>3. dvSequence' = [dvSequence EXCEPT ![s] = @ + 1] /\ dvTurn' = dvTurn + 1
        BY <2>1, <2>2 DEF Enters
    <2>4. \A x \in Streams : dvSequence'[x] <= dvTurn'
        <3>1. \A x \in Streams : dvSequence[x] \in Nat /\ dvSequence[x] <= dvTurn
            BY DEF DvShape, ChannelOK
        <3>2. \A x \in Streams : dvSequence'[x] = dvSequence[x] \/ dvSequence'[x] = dvSequence[x] + 1
            BY <2>3 DEF DvShape
        <3>3. dvTurn \in Nat
            BY DEF DvShape
        <3> QED BY ONLY <2>3, <3>1, <3>2, <3>3
    <2>5. dvTurn' + Len(dvInbox') <= dvPublished'
        BY <2>1, <2>3, DrawnFits
    <2> QED BY <2>1, <2>4, <2>5 DEF ChannelOK
<1>6. ASSUME NEW c \in Clients, ConnectClient(c) \/ PeerCloses(c) \/ HandlerEnds(c) PROVE ChannelOK'
    BY <1>1, <1>6 DEF ConnectClient, PeerCloses, HandlerEnds, dvNumbered, dvChannel
<1>7. ASSUME NEW b \in dvCasts, NEW c \in Clients, SendText(b, c) \/ SendFails(b, c) PROVE ChannelOK'
    BY <1>1, <1>7 DEF SendText, SendFails, dvNumbered, dvChannel
<1>8. CASE UNCHANGED dvVars
    BY <1>1, <1>8 DEF dvVars
<1> QED BY <1>2, <1>3, <1>4, <1>5, <1>6, <1>7, <1>8 DEF DvNext

LEMMA EventsStep ==
    ASSUME DvShape, ChannelOK, EventsOK, [DvNext]_dvVars
    PROVE  EventsOK'
<1>1. ASSUME Quiet \/ \E c \in Clients : ConnectClient(c) \/ HandlerEnds(c) PROVE EventsOK'
    <2>1. UNCHANGED <<dvRecent, dvBuffer, dvCasts, dvOwed>>
        BY <1>1 DEF Quiet, ConnectClient, HandlerEnds, dvNumbered, dvHistory
    <2> QED BY <2>1 DEF EventsOK
<1>2. ASSUME dvInbox # <<>>, Enters(Head(dvInbox)) PROVE EventsOK'
    <2>1. PICK m, e : m = Head(dvInbox) /\ e = Drawn(m)
        OBVIOUS
    <2>2. m.stream \in Streams /\ m.id \in Ids /\ e \in Envelope /\ e \in Event
        BY <1>2, <2>1, DrawnShape, DrawnFits
    <2>3. CASE UNCHANGED <<dvRecent, dvBuffer, dvCasts, dvOwed>>
        BY <2>3 DEF EventsOK
    <2>4. CASE ~UNCHANGED <<dvRecent, dvBuffer, dvCasts, dvOwed>>
        <3>1. /\ dvRecent' = LastFew(Append(dvRecent, m.id), RecentLimit)
              /\ dvBuffer' = [dvBuffer EXCEPT ![m.stream] = LastFew(Append(@, e), BufferLimit)]
              /\ dvCasts' = dvCasts \cup {[event |-> e, to |-> c, stale |-> {}] :
                                             c \in {Ahead(dvRegistered, e)} \ {{}}}
              /\ dvOwed' = [c \in Clients |-> IF c \in dvRegistered /\ Interested(c, e)
                                                 THEN dvOwed[c] \cup {e} ELSE dvOwed[c]]
            BY <1>2, <2>1, <2>4 DEF Enters
        <3>2. RecentLimit \in Nat \ {0} /\ BufferLimit \in Nat \ {0}
            BY DeliveryFacts
        <3>3. Len(dvRecent') <= RecentLimit
            <4>1. Append(dvRecent, m.id) \in Seq(Ids)
                BY <2>2 DEF DvShape
            <4>2. PICK s : s = Append(dvRecent, m.id)
                OBVIOUS
            <4>3. s \in Seq(Ids) /\ Len(s) \in Nat /\ dvRecent' = LastFew(s, RecentLimit)
                BY <3>1, <4>1, <4>2
            <4>4. Len(dvRecent') = IF Len(s) > RecentLimit THEN RecentLimit ELSE Len(s)
                BY <3>2, <4>3, LastFewLemma
            <4> QED BY <3>2, <4>3, <4>4
        <3>4. PICK s : s = Append(dvBuffer[m.stream], e)
            OBVIOUS
        <3>5. s \in Seq(Envelope) /\ Len(s) \in Nat /\ \A i \in 1..Len(s) : s[i] \in Event
            <4>1. PICK b : b = dvBuffer[m.stream]
                OBVIOUS
            <4>2. b \in Seq(Envelope) /\ Len(b) \in Nat /\ \A i \in 1..Len(b) : b[i] \in Event
                BY <2>2, <4>1 DEF DvShape, EventsOK
            <4>3. /\ s \in Seq(Envelope) /\ Len(s) = Len(b) + 1 /\ s[Len(b) + 1] = e
                  /\ \A i \in 1..Len(b) : s[i] = b[i]
                BY <2>2, <3>4, <4>1, <4>2
            <4>4. \A i \in 1..Len(b) + 1 : i \in 1..Len(b) \/ i = Len(b) + 1
                BY <4>2
            <4> QED BY <2>2, <4>2, <4>3, <4>4
        <3>6. PICK f : f = LastFew(s, BufferLimit)
            OBVIOUS
        <3>7. /\ Len(f) = IF Len(s) > BufferLimit THEN BufferLimit ELSE Len(s)
              /\ \A i \in 1..Len(f) : f[i] = s[Len(s) - Len(f) + i]
            BY <3>2, <3>5, <3>6, LastFewLemma
        <3>8. Len(f) \in Nat /\ Len(f) <= BufferLimit /\ Len(f) <= Len(s)
            BY <3>2, <3>5, <3>7
        <3>9. \A i \in 1..Len(f) : Len(s) - Len(f) + i \in 1..Len(s)
            BY <3>5, <3>8
        <3>10. \A i \in 1..Len(f) : f[i] \in Event
            BY <3>5, <3>7, <3>9
        <3>11. \A x \in Streams : dvBuffer'[x] = dvBuffer[x] \/ dvBuffer'[x] = f
            BY <3>1, <3>4, <3>6 DEF DvShape
        <3>12. \A x \in Streams : Len(dvBuffer'[x]) <= BufferLimit /\ \A i \in 1..Len(dvBuffer'[x]) : dvBuffer'[x][i] \in Event
            BY <3>8, <3>10, <3>11 DEF EventsOK
        <3>13. \A b \in dvCasts' : b \in dvCasts \/ b.event = e
            BY <3>1
        <3>14. \A b \in dvCasts' : b.event \in Event
            BY <2>2, <3>13 DEF EventsOK
        <3>15. \A c \in Clients : dvOwed'[c] \subseteq Event
            BY <2>2, <3>1 DEF EventsOK
        <3> QED BY <3>3, <3>12, <3>14, <3>15 DEF EventsOK
    <2> QED BY <2>3, <2>4
<1>3. ASSUME NEW b \in dvCasts, NEW c \in Clients, Sent(b, c) PROVE EventsOK'
    <2>1. PICK failed \in {{}, {c}} : GoesOn(b, c, failed)
        BY <1>3, SentCases
    <2>2. \A x \in dvCasts' : x \in dvCasts \/ x.event = b.event
        BY <2>1 DEF GoesOn
    <2>3. UNCHANGED <<dvRecent, dvBuffer, dvOwed>>
        BY <1>3 DEF Sent, dvNumbered
    <2> QED BY <2>2, <2>3 DEF EventsOK
<1> QED BY <1>1, <1>2, <1>3, Kinds

BroadcastInv == DvShape /\ ChannelOK /\ EventsOK

LEMMA BroadcastInit == DvInit => BroadcastInv
BY DvShapeInit, ChannelInit, EventsInit DEF BroadcastInv

LEMMA BroadcastStep == BroadcastInv /\ [DvNext]_dvVars => BroadcastInv'
BY DvShapeStep, ChannelStep, EventsStep DEF BroadcastInv

LEMMA BroadcastTyped == BroadcastInv => DvTypeOK
<1> SUFFICES ASSUME BroadcastInv PROVE DvTypeOK
    OBVIOUS
<1>1. DvShape /\ ChannelOK /\ EventsOK
    BY DEF BroadcastInv
<1>2. dvPublished \in 0..Len(Messages) /\ ToSet(dvInbox) \subseteq ToSet(Messages)
    <2>1. dvPublished \in 0..Len(Messages)
        BY <1>1, DeliveryFacts DEF DvShape, ChannelOK
    <2>2. ToSet(dvInbox) \subseteq ToSet(Messages)
        BY <1>1 DEF DvShape, ToSet
    <2> QED BY <2>1, <2>2
<1>3. dvSequence \in [Streams -> 0..Len(Messages)]
    <2>1. dvSequence \in [Streams -> Nat] /\ \A s \in Streams : dvSequence[s] <= dvTurn
        BY <1>1 DEF DvShape, ChannelOK
    <2>2. dvTurn <= Len(Messages)
        <3>1. PICK l, n : l = Len(dvInbox) /\ n = Len(Messages)
            OBVIOUS
        <3>2. l \in Nat /\ n \in Nat
            BY <1>1, <3>1, DeliveryFacts DEF DvShape
        <3>3. dvTurn + l <= dvPublished /\ dvPublished <= n /\ dvTurn \in Nat /\ dvPublished \in Nat
            BY <1>1, <3>1 DEF ChannelOK, DvShape
        <3>4. dvTurn <= n
            BY ONLY <3>2, <3>3
        <3> QED BY <3>1, <3>4
    <2>3. \A s \in Streams : dvSequence[s] \in 0..Len(Messages)
        <3>1. dvTurn \in Nat
            BY <1>1 DEF DvShape
        <3> QED BY <2>1, <2>2, <3>1, DeliveryFacts
    <2> QED BY <2>1, <2>3
<1>4. ASSUME NEW s \in Streams PROVE Len(dvBuffer[s]) <= BufferLimit /\ ToSet(dvBuffer[s]) \subseteq Event
    <2>1. dvBuffer[s] \in Seq(Envelope)
        BY <1>1 DEF DvShape
    <2> QED BY <1>1, <2>1 DEF EventsOK, ToSet
<1>5. ASSUME NEW b \in dvCasts PROVE b.event \in Event /\ {b.to, b.stale} \subseteq SUBSET Clients
    <2>1. b.to \in SUBSET Clients /\ b.stale \in SUBSET Clients
        BY <1>1 DEF DvShape, Cast
    <2> QED BY <1>1, <2>1 DEF EventsOK
<1>6. dvOwed \in [Clients -> SUBSET Event]
    BY <1>1 DEF EventsOK, DvShape
<1>7. /\ dvListening \in BOOLEAN /\ dvReconnects \in 0..MaxReconnects /\ Len(dvRecent) <= RecentLimit
      /\ dvRegistered \subseteq Clients /\ dvDropped \subseteq Clients /\ dvJoined \in [Clients -> Nat]
      /\ dvOpen \in [Clients -> {"new", "open", "closed"}] /\ dvHandled \in [Clients -> BOOLEAN]
    BY <1>1 DEF DvShape, ChannelOK, EventsOK
<1> QED BY <1>2, <1>3, <1>4, <1>5, <1>6, <1>7 DEF DvTypeOK

(* For any messages, clients and filters: what is kept is well typed, no     *)
(* number exceeds the messages', and no list its limit.                     *)
THEOREM BroadcastsAreTyped == DvSpec => []DvTypeOK
BY BroadcastInit, BroadcastStep, BroadcastTyped, PTL DEF DvSpec
=============================================================================
