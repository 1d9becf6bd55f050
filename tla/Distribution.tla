---------------------------- MODULE Distribution ----------------------------
(***************************************************************************)
(* A signal on its way to the subscribers' execution jobs: SignalBroadcaster*)
(* .publish_signal, ShardManager.queue_priority, ExecutionQueueManager and  *)
(* RedisCache.zpop_due_json.                                                *)
(*                                                                         *)
(* One symbol, one shard: three sorted sets, one per priority, scored by    *)
(* the time a job is due.  A publication and a batch run without awaits;    *)
(* each command to the cache is a step of its own because the replicas      *)
(* share the cache.                                                         *)
(***************************************************************************)
EXTENDS Integers, FiniteSets, FiniteSetsExt, Sequences

CONSTANTS
    Signals,       \* [id, high, boost, tier, floor, profiles], see Priority and Eligible
    Subscribers,   \* [id, tier, balance, profile]
    Consumers,     \* processes that take batches of the shard
    Delays,        \* _random_delay_ms in ticks, by lane: never due when queued
    BatchLimit,    \* execution_queue_batch_size
    LastTick,      \* bound: the clock
    MaxBatches     \* bound: batches started

ASSUME DistributionAssumption ==
    /\ Signals # {} /\ IsFiniteSet(Signals) /\ Subscribers # {}
    /\ Delays \in [{"high", "normal", "delayed"} -> SUBSET (Nat \ {0})]
    /\ BatchLimit \in Nat \ {0} /\ LastTick \in Nat /\ MaxBatches \in Nat

VARIABLES
    dsClock,     \* time.time()
    dsVersion,   \* signals:version
    dsLatest,    \* signal:latest:<symbol>, its signal_version
    dsPublish,   \* a publication: where it is, its version, whom it still has to queue
    dsQueue,     \* execution:queue:<priority>, jobs with the tick they are due
    dsBatch,     \* a consumer's batch: the priority it is at, what it has read, what it has taken
    dsGiven,     \* history: the batches returned, as job -> how often
    dsContested, \* history: jobs that were in two reads at once
    dsLost,      \* history: jobs removed by a consumer that died with them
    dsRaced,     \* history: two publications were under way at once
    dsBatches    \* history: batches started

dsVars == <<dsClock, dsVersion, dsLatest, dsPublish, dsQueue, dsBatch, dsGiven, dsContested, dsLost, dsRaced, dsBatches>>

Lanes == <<"high", "normal", "delayed">>
LaneNames == {"high", "normal", "delayed"}

Job == [sub : Subscribers, version : 1..Cardinality(Signals), due : Nat]
Resting == [lane |-> 0, now |-> 0, read |-> {}, got |-> {}]
Unpublished == [at |-> "new", version |-> 0, todo |-> {}]

DsTypeOK ==
    /\ dsClock \in 0..LastTick
    /\ dsVersion \in 0..Cardinality(Signals) /\ dsLatest \in 0..Cardinality(Signals)
    /\ \A s \in Signals :
          /\ dsPublish[s].at \in {"new", "numbered", "queueing", "done"}
          /\ dsPublish[s].version \in 0..Cardinality(Signals)
          /\ dsPublish[s].todo \subseteq Subscribers
    /\ \A l \in LaneNames : dsQueue[l] \subseteq Job
    /\ \A c \in Consumers :
          /\ dsBatch[c].lane \in 0..4 /\ dsBatch[c].now \in 0..LastTick
          /\ dsBatch[c].read \subseteq Job /\ dsBatch[c].got \subseteq Job
          /\ Cardinality(dsBatch[c].got \cup dsBatch[c].read) <= BatchLimit
    /\ DOMAIN dsGiven \subseteq Job /\ dsContested \subseteq Job /\ dsLost \subseteq Job
    /\ dsRaced \in BOOLEAN /\ dsBatches \in 0..MaxBatches

DsInit ==
    /\ dsClock = 0 /\ dsVersion = 0 /\ dsLatest = 0
    /\ dsPublish = [s \in Signals |-> Unpublished]
    /\ dsQueue = [l \in LaneNames |-> {}]
    /\ dsBatch = [c \in Consumers |-> Resting]
    /\ dsGiven = [j \in {} |-> 0]
    /\ dsContested = {} /\ dsLost = {} /\ dsRaced = FALSE /\ dsBatches = 0

-----------------------------------------------------------------------------
(* Who gets a job, in which lane, and when                                  *)

TierRank == [free |-> 0, pro |-> 1, vip |-> 2, institutional |-> 3]

(* filter_subscriptions *)
Eligible(signal) ==
    {sub \in Subscribers : /\ TierRank[sub.tier] >= TierRank[signal.tier]
                           /\ sub.balance >= signal.floor
                           /\ sub.profile \in signal.profiles}

(* queue_priority *)
Priority(signal, sub) ==
    IF (signal.high \/ signal.boost) /\ TierRank[sub.tier] >= 2 THEN "high"
    ELSE IF /\ sub.tier = "free" \/ sub.profile = "conservative"
            /\ ~(signal.boost /\ sub.profile # "conservative") THEN "delayed"
    ELSE "normal"

-----------------------------------------------------------------------------
(* publish_signal *)

TakeVersion(s) ==
    /\ dsPublish[s].at = "new"
    /\ dsVersion' = dsVersion + 1
    /\ dsPublish' = [dsPublish EXCEPT ![s] = [at |-> "numbered", version |-> dsVersion + 1, todo |-> {}]]
    /\ dsRaced' = (dsRaced \/ \E r \in Signals \ {s} : dsPublish[r].at \in {"numbered", "queueing"})
    /\ UNCHANGED <<dsClock, dsLatest, dsQueue, dsBatch, dsGiven, dsContested, dsLost, dsBatches>>

SaveLatest(s) ==
    /\ dsPublish[s].at = "numbered"
    /\ dsLatest' = dsPublish[s].version
    /\ dsPublish' = [dsPublish EXCEPT ![s].at = "queueing", ![s].todo = Eligible(s)]
    /\ UNCHANGED <<dsClock, dsVersion, dsQueue, dsBatch, dsGiven, dsContested, dsLost, dsRaced, dsBatches>>

Enqueue(s) ==
    /\ dsPublish[s].at = "queueing"
    /\ IF dsPublish[s].todo = {}
       THEN dsPublish' = [dsPublish EXCEPT ![s].at = "done"] /\ UNCHANGED dsQueue
       ELSE LET sub  == CHOOSE x \in dsPublish[s].todo : TRUE
                lane == Priority(s, sub)
            IN  \E delay \in Delays[lane] :
                   /\ dsQueue' = [dsQueue EXCEPT ![lane] = @ \cup
                         {[sub |-> sub, version |-> dsPublish[s].version, due |-> dsClock + delay]}]
                   /\ dsPublish' = [dsPublish EXCEPT ![s].todo = @ \ {sub}]
    /\ UNCHANGED <<dsClock, dsVersion, dsLatest, dsBatch, dsGiven, dsContested, dsLost, dsRaced, dsBatches>>

-----------------------------------------------------------------------------
(* dequeue_batch *)

Due(lane, now) == {j \in dsQueue[lane] : j.due <= now}
Room(c) == BatchLimit - Cardinality(dsBatch[c].got)

StartBatch(c) ==
    /\ dsBatch[c].lane = 0 /\ dsBatches < MaxBatches
    /\ dsBatches' = dsBatches + 1
    /\ dsBatch' = [dsBatch EXCEPT ![c] = [lane |-> 1, now |-> dsClock, read |-> {}, got |-> {}]]
    /\ UNCHANGED <<dsClock, dsVersion, dsLatest, dsPublish, dsQueue, dsGiven, dsContested, dsLost, dsRaced>>

(* zrangebyscore of the lane the batch is at: the first due, as many as     *)
(* there is room for.  An empty lane sends it to the next one.              *)
Earliest(jobs, n) ==
    {some \in SUBSET jobs :
        /\ Cardinality(some) = IF Cardinality(jobs) < n THEN Cardinality(jobs) ELSE n
        /\ \A j \in some, k \in jobs \ some : j.due <= k.due}

ReadDue(c) ==
    /\ dsBatch[c].lane \in 1..3 /\ dsBatch[c].read = {} /\ Room(c) > 0
    /\ \E read \in Earliest(Due(Lanes[dsBatch[c].lane], dsBatch[c].now), Room(c)) :
          /\ read # {}
          /\ dsBatch' = [dsBatch EXCEPT ![c].read = read]
          /\ dsContested' = dsContested \cup UNION {read \cap dsBatch[d].read : d \in Consumers \ {c}}
    /\ UNCHANGED <<dsClock, dsVersion, dsLatest, dsPublish, dsQueue, dsGiven, dsLost, dsRaced, dsBatches>>

(* Mutant: the next lane is read while jobs are due in this one. *)
LeaveLane(c) ==
    /\ dsBatch[c].lane \in 1..3 /\ dsBatch[c].read = {} /\ Room(c) > 0
    /\ dsBatch' = [dsBatch EXCEPT ![c].lane = @ + 1]
    /\ UNCHANGED <<dsClock, dsVersion, dsLatest, dsPublish, dsQueue, dsGiven, dsContested, dsLost, dsRaced, dsBatches>>

NothingDue(c) ==
    /\ dsBatch[c].lane \in 1..3 /\ dsBatch[c].read = {} /\ Room(c) > 0
    /\ Due(Lanes[dsBatch[c].lane], dsBatch[c].now) = {}
    /\ dsBatch' = [dsBatch EXCEPT ![c].lane = @ + 1]
    /\ UNCHANGED <<dsClock, dsVersion, dsLatest, dsPublish, dsQueue, dsGiven, dsContested, dsLost, dsRaced, dsBatches>>

(* Mutant: the lane is emptied of all that is due. *)
RemoveAllDue(c) ==
    /\ dsBatch[c].read # {}
    /\ dsQueue' = [dsQueue EXCEPT ![Lanes[dsBatch[c].lane]] = {j \in @ : j.due > dsBatch[c].now}]
    /\ dsBatch' = [dsBatch EXCEPT ![c].got = @ \cup dsBatch[c].read, ![c].read = {},
                                  ![c].lane = @ + 1]
    /\ UNCHANGED <<dsClock, dsVersion, dsLatest, dsPublish, dsGiven, dsContested, dsLost, dsRaced, dsBatches>>

(* The pipeline of zrem: what another consumer removed is taken all the same. *)
RemoveRead(c) ==
    /\ dsBatch[c].read # {}
    /\ dsQueue' = [dsQueue EXCEPT ![Lanes[dsBatch[c].lane]] = @ \ dsBatch[c].read]
    /\ dsBatch' = [dsBatch EXCEPT ![c].got = @ \cup dsBatch[c].read, ![c].read = {},
                                  ![c].lane = @ + 1]
    /\ UNCHANGED <<dsClock, dsVersion, dsLatest, dsPublish, dsGiven, dsContested, dsLost, dsRaced, dsBatches>>

(* The batch is returned when it is full or the last lane was read. *)
ReturnBatch(c) ==
    /\ dsBatch[c].lane # 0 /\ dsBatch[c].read = {}
    /\ Room(c) = 0 \/ dsBatch[c].lane = 4
    /\ dsGiven' = [j \in DOMAIN dsGiven \cup dsBatch[c].got |->
                      (IF j \in DOMAIN dsGiven THEN dsGiven[j] ELSE 0) + (IF j \in dsBatch[c].got THEN 1 ELSE 0)]
    /\ dsBatch' = [dsBatch EXCEPT ![c] = Resting]
    /\ UNCHANGED <<dsClock, dsVersion, dsLatest, dsPublish, dsQueue, dsContested, dsLost, dsRaced, dsBatches>>

(* The process dies with what it has removed. *)
ConsumerDies(c) ==
    /\ dsBatch[c].lane # 0
    /\ dsLost' = dsLost \cup dsBatch[c].got
    /\ dsBatch' = [dsBatch EXCEPT ![c] = Resting]
    /\ UNCHANGED <<dsClock, dsVersion, dsLatest, dsPublish, dsQueue, dsGiven, dsContested, dsRaced, dsBatches>>

DsTick ==
    /\ dsClock < LastTick
    /\ dsClock' = dsClock + 1
    /\ UNCHANGED <<dsVersion, dsLatest, dsPublish, dsQueue, dsBatch, dsGiven, dsContested, dsLost, dsRaced, dsBatches>>

DsNext ==
    \/ \E s \in Signals : TakeVersion(s) \/ SaveLatest(s) \/ Enqueue(s)
    \/ \E c \in Consumers :
          \/ StartBatch(c) \/ ReadDue(c) \/ NothingDue(c) \/ RemoveRead(c)
          \/ ReturnBatch(c) \/ ConsumerDies(c)
    \/ DsTick

DsSpec == DsInit /\ [][DsNext]_dsVars

-----------------------------------------------------------------------------
Held(c)   == dsBatch[c].read \cup dsBatch[c].got
Queued(s) == {sub \in Eligible(s) : sub \notin dsPublish[s].todo}

(* A subscriber whose job was queued has it: in a lane, in the hands of a   *)
(* consumer, in a batch that was returned, or lost with a consumer that     *)
(* died after it had removed the job and before it returned the batch.      *)
NoJobVanishes ==
    \A s \in Signals : dsPublish[s].at \in {"queueing", "done"} => \A sub \in Queued(s) :
        \E j \in (UNION {dsQueue[l] : l \in LaneNames}) \cup (UNION {Held(c) : c \in Consumers})
                 \cup DOMAIN dsGiven \cup dsLost :
            j.sub = sub /\ j.version = dsPublish[s].version

(* zpop_due_json reads and then removes: a job is handed out twice only     *)
(* when two consumers had read it before either removed it.                 *)
TwiceOnlyWhenContested ==
    \A j \in DOMAIN dsGiven : dsGiven[j] > 1 => j \in dsContested

(* A batch passes to a lower lane only when no job of a higher lane that    *)
(* was due when the batch began is left there.                              *)
HigherLanesFirst ==
    [][\A c \in Consumers : dsBatch[c].read = {} /\ dsBatch'[c].read # {} =>
          \A l \in 1..(dsBatch[c].lane - 1) : Due(Lanes[l], dsBatch[c].now) = {}]_dsVars

(* The newest version is the one the cache shows as the latest signal, once *)
(* the publications are over: unless two replicas published at once.        *)
LatestIsNewest ==
    ~dsRaced /\ (\A s \in Signals : dsPublish[s].at # "numbered") => dsLatest = dsVersion

(* Every job is handed out, once unless two consumers met, and the signal   *)
(* shown as the latest is the one of the newest jobs.                       *)
JobsAccounted == NoJobVanishes /\ TwiceOnlyWhenContested /\ LatestIsNewest
=============================================================================
