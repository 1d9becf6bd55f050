--------------------------- MODULE Trading_proofs ---------------------------
(***************************************************************************)
(* Proofs about the parts of MCTrading that have no module of proofs of     *)
(* their own, for all values of their constants: DrawdownProtection,        *)
(* Gateway, Scanner, MarketData, LiveSignals, Sleeves.  Last come all parts *)
(* side by side: a part that does not move keeps its invariant.             *)
(***************************************************************************)
EXTENDS MCTrading, Orders_proofs, Distribution_proofs, FunctionTheorems

-----------------------------------------------------------------------------
(* The drawdown of an account.  The provers need nothing about the           *)
(* arithmetic of Fallen but that equity at its peak has not fallen.          *)

(* As far as the last close was assessed, the record tells the equity, and  *)
(* an account that may trade is not in a deep drawdown.                     *)
AssessedInv ==
    ~lapsed => /\ status.current = equity
               /\ status.state \notin Blocking => ~Fallen(status.peak, equity, PauseLimit)

DdInv == DdTypeOK /\ AssessedInv /\ TrackedLossStops

-----------------------------------------------------------------------------
LEMMA PeakNotFallen == ~Fallen(StartEquity, StartEquity, PauseLimit)
<1>1. StartEquity \in Nat \ {0} /\ PauseLimit \in Nat \ {0}
    BY DrawdownAssumption DEF DrawdownAssumption
<1>2. \A a, b \in Nat \ {0} : ~((a - a) * 100 >= b * a)
    OBVIOUS
<1> QED BY <1>1, <1>2 DEF Fallen

(* The three writes of update() are well typed. *)
LEMMA UpdateTypes ==
    ASSUME DdTypeOK, NEW now \in Equities
    PROVE  /\ TrackedDay(now) \in [today : BOOLEAN, start : Equities, current : Equities]
           /\ TrackedDay(now).today /\ TrackedDay(now).current = now
           /\ Assessed(now) \in [peak : Equities, current : Equities, state : States, cooling : BOOLEAN]
           /\ Enforced(now) \in [manual : BOOLEAN, auto : BOOLEAN, limit : DailyLimits]
<1>1. /\ TrackedDay(now) \in [today : BOOLEAN, start : Equities, current : Equities]
      /\ TrackedDay(now).today /\ TrackedDay(now).current = now
    BY DEF DdTypeOK, TrackedDay
<1>2. Higher(status.peak, now) \in Equities
    BY DEF DdTypeOK, Higher
<1>3. Assessed(now) \in [peak : Equities, current : Equities, state : States, cooling : BOOLEAN]
    <2> DEFINE peak   == Higher(status.peak, now)
               deep   == Fallen(peak, now, PauseLimit)
               marked == Fallen(peak, now, RollingLimit)
               state  == CASE deep -> "PAUSED"
                           [] ~deep /\ status.cooling -> "COOLDOWN"
                           [] ~deep /\ ~status.cooling /\ marked -> "REDUCED"
                           [] OTHER -> "NORMAL"
    <2>1. state \in States
        BY DEF States
    <2>2. (deep \/ status.cooling \/ marked) \in BOOLEAN
        OBVIOUS
    <2>3. Assessed(now) = [peak |-> peak, current |-> now, state |-> state,
                           cooling |-> deep \/ status.cooling \/ marked]
        BY DEF Assessed
    <2> HIDE DEF peak, deep, marked, state
    <2> QED BY <1>2, <2>1, <2>2, <2>3 DEF peak
<1>4. Enforced(now) \in [manual : BOOLEAN, auto : BOOLEAN, limit : DailyLimits]
    BY DEF DdTypeOK, Enforced
<1> QED BY <1>1, <1>3, <1>4

(* The new status blocks a deep drawdown. *)
LEMMA AssessedBlocks ==
    ASSUME DdTypeOK, NEW now \in Equities
    PROVE  /\ Assessed(now).current = now
           /\ Assessed(now).state \notin Blocking => ~Fallen(Assessed(now).peak, now, PauseLimit)
BY DEF Assessed, Blocking

(* After update() the tracked loss is within the limit or trading stopped.  *)
LEMMA EnforcedStops ==
    ASSUME DdTypeOK, NEW now \in Equities,
           Fallen(TrackedDay(now).start, now, Enforced(now).limit)
    PROVE  Enforced(now).manual \/ Enforced(now).auto
<1>1. Enforced(now).limit = controls.limit
    BY DEF Enforced, DdTypeOK
<1> QED BY <1>1 DEF Enforced, Stopped, DdTypeOK

-----------------------------------------------------------------------------
(* What an absent key stands for. *)
LEMMA Defaults ==
    /\ NoStatus \in [peak : Equities, current : Equities, state : States, cooling : BOOLEAN]
    /\ NoDaily \in [today : BOOLEAN, start : Equities, current : Equities]
    /\ NoControls \in [manual : BOOLEAN, auto : BOOLEAN, limit : DailyLimits]
<1>1. StartEquity \in Equities /\ DefaultLimit \in DailyLimits
    BY DrawdownAssumption DEF DrawdownAssumption
<1>2. NoStatus \in [peak : Equities, current : Equities, state : States, cooling : BOOLEAN]
    BY <1>1 DEF NoStatus, States
<1>3. NoDaily \in [today : BOOLEAN, start : Equities, current : Equities]
    BY <1>1 DEF NoDaily
<1>4. NoControls \in [manual : BOOLEAN, auto : BOOLEAN, limit : DailyLimits]
    BY <1>1 DEF NoControls
<1> QED BY <1>2, <1>3, <1>4

LEMMA InductiveInit == DdInit => DdInv
<1> SUFFICES ASSUME DdInit PROVE DdInv
    OBVIOUS
<1>1. DdTypeOK
    <2>1. StartEquity \in Equities /\ 0 \in 0..MaxOpen /\ 0 \in 0..MaxEntering
        BY DrawdownAssumption DEF DrawdownAssumption
    <2> QED BY <2>1, Defaults DEF DdInit, DdTypeOK
<1>2. AssessedInv
    BY PeakNotFallen DEF DdInit, AssessedInv, NoStatus
<1>3. TrackedLossStops
    BY DEF DdInit, TrackedLossStops, NoDaily
<1> QED BY <1>1, <1>2, <1>3 DEF DdInv

LEMMA CloseStep ==
    ASSUME DdInv, NEW now \in Equities, Close(now)
    PROVE  DdInv'
<1>0. /\ DdTypeOK /\ open' \in 0..MaxOpen /\ equity' = now /\ dayStart' = dayStart
      /\ ddMode' = ddMode /\ waiting' = waiting
    BY DrawdownAssumption DEF DrawdownAssumption, DdInv, DdTypeOK, Close
<1>1. CASE Update(now)
    <2>1. DdTypeOK'
        BY <1>0, <1>1, UpdateTypes DEF Update, DdTypeOK
    <2>2. AssessedInv'
        BY <1>0, <1>1, AssessedBlocks DEF Update, AssessedInv
    <2>3. TrackedLossStops'
        BY <1>0, <1>1, UpdateTypes, EnforcedStops DEF Update, TrackedLossStops, Stopped
    <2> QED BY <2>1, <2>2, <2>3 DEF DdInv
<1>2. CASE UpdateDies(now)
    <2>1. DdTypeOK'
        <3>1. controls' = controls /\ excused' \in BOOLEAN /\ lapsed' \in BOOLEAN
            BY <1>2 DEF UpdateDies
        <3>2. daily' \in {daily, TrackedDay(now)} /\ status' \in {status, Assessed(now)}
            BY <1>2 DEF UpdateDies
        <3> QED BY <1>0, <3>1, <3>2, UpdateTypes DEF DdTypeOK
    <2>2. AssessedInv'
        BY <1>0, <1>2, AssessedBlocks DEF UpdateDies, AssessedInv
    <2>3. TrackedLossStops'
        BY <1>2 DEF UpdateDies, TrackedLossStops
    <2> QED BY <2>1, <2>2, <2>3 DEF DdInv
<1> QED BY <1>1, <1>2 DEF Close

LEMMA InductiveStep == DdInv /\ [DdNext]_ddVars => DdInv'
<1> SUFFICES ASSUME DdInv, [DdNext]_ddVars PROVE DdInv'
    OBVIOUS
<1>0. DdTypeOK /\ AssessedInv /\ TrackedLossStops
    BY DEF DdInv
<1>1. CASE Admit \/ Enter \/ GiveUpEntering
    <2>1. open' \in 0..MaxOpen /\ waiting' \in 0..MaxEntering
        BY <1>0, <1>1, DrawdownAssumption
           DEF DrawdownAssumption, Admit, Enter, GiveUpEntering, DdTypeOK
    <2>2. UNCHANGED <<ddMode, equity, status, daily, controls, dayStart, lapsed, excused>>
        BY <1>1 DEF Admit, Enter, GiveUpEntering
    <2> QED BY <1>0, <2>1, <2>2 DEF DdInv, DdTypeOK, AssessedInv, TrackedLossStops, Stopped
<1>2. CASE \E now \in Equities : Close(now)
    BY <1>2, CloseStep
<1>3. CASE StopEngine
    <2>1. controls' \in [manual : BOOLEAN, auto : BOOLEAN, limit : DailyLimits] /\ Stopped'
        BY <1>0, <1>3 DEF StopEngine, DdTypeOK, Stopped
    <2> QED BY <1>0, <1>3, <2>1 DEF StopEngine, DdInv, DdTypeOK, AssessedInv, TrackedLossStops
<1>4. CASE ClearStop \/ (\E limit \in DailyLimits : SetLimit(limit)) \/ ExpireControls
    <2>1. controls' \in [manual : BOOLEAN, auto : BOOLEAN, limit : DailyLimits]
        <3>1. CASE ClearStop
            BY <1>0, <3>1 DEF ClearStop, DdTypeOK
        <3>2. ASSUME NEW limit \in DailyLimits, SetLimit(limit)
              PROVE  controls' \in [manual : BOOLEAN, auto : BOOLEAN, limit : DailyLimits]
            BY <1>0, <3>2 DEF SetLimit, DdTypeOK
        <3>3. CASE ExpireControls
            BY <3>3, Defaults DEF ExpireControls
        <3> QED BY <1>4, <3>1, <3>2, <3>3
    <2>2. excused' = TRUE /\ UNCHANGED <<ddMode, equity, open, waiting, status, daily, dayStart, lapsed>>
        BY <1>4 DEF ClearStop, SetLimit, ExpireControls
    <2> QED BY <1>0, <2>1, <2>2 DEF DdInv, DdTypeOK, AssessedInv, TrackedLossStops
<1>5. CASE CooldownEnds
    <2>1. /\ status' \in [peak : Equities, current : Equities, state : States, cooling : BOOLEAN]
          /\ status'.state = status.state /\ status'.peak = status.peak
          /\ status'.current = status.current
        BY <1>0, <1>5 DEF CooldownEnds, DdTypeOK
    <2> QED BY <1>0, <1>5, <2>1 DEF CooldownEnds, DdInv, DdTypeOK, AssessedInv, TrackedLossStops, Stopped
<1>6. CASE NewDay
    <2>1. daily' \in [today : BOOLEAN, start : Equities, current : Equities] /\ ~daily'.today
        BY <1>0, <1>6 DEF NewDay, DdTypeOK
    <2> QED BY <1>0, <1>6, <2>1 DEF NewDay, DdInv, DdTypeOK, AssessedInv, TrackedLossStops
<1>7. CASE ExpireStatus
    <2>1. status' \in [peak : Equities, current : Equities, state : States, cooling : BOOLEAN]
        BY <1>7, Defaults DEF ExpireStatus
    <2> QED BY <1>0, <1>7, <2>1 DEF ExpireStatus, DdInv, DdTypeOK, AssessedInv, TrackedLossStops, Stopped
<1>8. CASE UNCHANGED ddVars
    BY <1>0, <1>8 DEF ddVars, DdInv, DdTypeOK, AssessedInv, TrackedLossStops, Stopped
<1> QED BY <1>1, <1>2, <1>3, <1>4, <1>5, <1>6, <1>7, <1>8 DEF DdNext

-----------------------------------------------------------------------------
(* The invariant holds in every reachable state. *)
THEOREM DrawdownInvariance == DdSpec => []DdInv
<1> QED BY InductiveInit, InductiveStep, PTL DEF DdSpec

(* Every variable has its type. *)
THEOREM DrawdownIsTyped == DdSpec => []DdTypeOK
<1>1. DdInv => DdTypeOK
    BY DEF DdInv
<1> QED BY <1>1, DrawdownInvariance, PTL

(* A tracked loss of the limit or more leaves the account stopped, until    *)
(* the user changes the controls or the process dies inside an update.      *)
THEOREM LossStops == DdSpec => []TrackedLossStops
<1>1. DdInv => TrackedLossStops
    BY DEF DdInv
<1> QED BY <1>1, DrawdownInvariance, PTL

(* In a deep drawdown that has been assessed no request passes the first    *)
(* gate, and those past it open no live position, and at most one paper     *)
(* position each.                                                           *)
THEOREM DrawdownGate == DdSpec => NoEntryInDeepDrawdown
<1>1. ASSUME DdInv, DdNext, DeepDrawdown
      PROVE  waiting' <= waiting /\ (open' > open => ddMode = "paper" /\ waiting' < waiting)
    <2>0. /\ open \in Nat /\ waiting \in Nat /\ status.state \in Blocking
          /\ Fallen(status.peak, status.current, PauseLimit)
        BY <1>1, DrawdownAssumption
           DEF DrawdownAssumption, DdInv, DdTypeOK, AssessedInv, DeepDrawdown
    <2>1. ASSUME NEW now \in Equities, Close(now) PROVE ~(open' > open) /\ waiting' <= waiting
        BY <2>0, <2>1 DEF Close
    <2>2. ~Admit
        BY <2>0 DEF Admit, MayEnter
    <2>3. ASSUME Enter PROVE ddMode = "paper" /\ waiting' < waiting
        BY <1>1, <2>0, <2>3 DEF Enter, Governed, DdInv, DdTypeOK
    <2>4. ASSUME GiveUpEntering PROVE ~(open' > open) /\ waiting' < waiting
        BY <2>0, <2>4 DEF GiveUpEntering
    <2>5. CASE \E now \in Equities : Close(now)
        BY <2>1, <2>5
    <2>6. CASE Enter \/ GiveUpEntering
        <3>1. waiting' < waiting => waiting' <= waiting
            BY <2>0, <2>6 DEF Enter, GiveUpEntering
        <3> QED BY <2>3, <2>4, <2>6, <3>1
    <2>7. ASSUME open' = open, waiting' = waiting
          PROVE  waiting' <= waiting /\ ~(open' > open)
        BY <2>0, <2>7
    <2>8. CASE \/ StopEngine \/ ClearStop \/ \E limit \in DailyLimits : SetLimit(limit)
               \/ CooldownEnds \/ NewDay \/ ExpireStatus \/ ExpireControls
        BY <2>7, <2>8
           DEF StopEngine, ClearStop, SetLimit, CooldownEnds, NewDay, ExpireStatus, ExpireControls
    <2> QED BY <1>1, <2>2, <2>5, <2>6, <2>8 DEF DdNext
<1>2. DdInv /\ [DdNext]_ddVars =>
         [DeepDrawdown => /\ waiting' <= waiting
                          /\ open' > open => ddMode = "paper" /\ waiting' < waiting]_ddVars
    BY <1>1
<1> QED BY <1>2, DrawdownInvariance, PTL DEF DdSpec, NoEntryInDeepDrawdown

(* An assessment during a cooldown blocks: a deeper fall pauses the account *)
(* anew, anything else leaves it in the cooldown.                           *)
LEMMA CooldownBlocks ==
    ASSUME status.cooling, NEW now
    PROVE  Assessed(now).state \in Blocking
BY DEF Assessed, Blocking

(* Neither a profit during the cooldown, nor a new limit, nor a new day     *)
(* lifts what stopped the account: a cooldown is served, and a stop ends by *)
(* the user's hand or with its key.                                         *)
THEOREM StopsAreKept == DdSpec => StopsLast
<1>1. ASSUME DdTypeOK, DdNext, status.state \in Blocking, status.cooling, status'.cooling
      PROVE  status'.state \in Blocking
    <2>1. ASSUME NEW now \in Equities, Close(now) PROVE status'.state \in Blocking
        <3>1. status' = status \/ status' = Assessed(now)
            BY <2>1 DEF Close, Update, UpdateDies
        <3> QED BY <1>1, <3>1, CooldownBlocks
    <2>2. ~CooldownEnds
        BY <1>1 DEF CooldownEnds, DdTypeOK
    <2> QED
        BY <1>1, <2>1, <2>2
           DEF DdNext, Admit, Enter, GiveUpEntering, StopEngine, ClearStop, SetLimit, NewDay,
               ExpireStatus, ExpireControls
<1>2. ASSUME DdTypeOK, DdNext, Stopped, ~Stopped'
      PROVE  ClearStop \/ ExpireControls
    <2>1. ASSUME NEW now \in Equities, Close(now) PROVE controls' = controls
        BY <1>2, <2>1 DEF Close, Update, UpdateDies, Enforced
    <2>2. ASSUME StopEngine PROVE FALSE
        BY <1>2, <2>2 DEF StopEngine, Stopped, DdTypeOK
    <2>3. ASSUME NEW limit \in DailyLimits, SetLimit(limit) PROVE FALSE
        BY <1>2, <2>3 DEF SetLimit, Stopped, DdTypeOK
    <2> QED
        BY <1>2, <2>1, <2>2, <2>3 DEF DdNext, Admit, Enter, GiveUpEntering, CooldownEnds,
                                        NewDay, ExpireStatus, Stopped
<1>3. DdTypeOK /\ [DdNext]_ddVars =>
        /\ [status.state \in Blocking /\ status.cooling /\ status'.cooling
            => status'.state \in Blocking]_ddVars
        /\ [Stopped /\ ~Stopped' => ClearStop \/ ExpireControls]_ddVars
    BY <1>1, <1>2
<1> QED BY <1>3, DrawdownIsTyped, PTL DEF DdSpec, StopsLast, CooldownIsServed, StopEndsOnPurpose

-----------------------------------------------------------------------------
(* The gateway: any keys, expiry times, replicas, callers and limits.         *)
(*                                                                           *)
(* A cached answer was true when it was found, and lives no longer than the  *)
(* cache's lifetime from then on: the invariant ties its end to the last     *)
(* moment at which it was true.  A counter outlives its window: as long as   *)
(* the window lasts it counts at least the requests that were let through.   *)

-----------------------------------------------------------------------------
(* Keys *)

AkShape ==
    /\ akNow \in Nat /\ akUp \subseteq Replicas
    /\ akDocument \in [DOMAIN Documented -> {"absent", "active", "revoked"}]
    /\ akEntry \in [Replicas -> [Keys -> [valid : BOOLEAN, until : Int]]]
    /\ akValidAt \in [Keys -> Int] /\ akInvalidAt \in [Keys -> Int]

(* When the answer was last true of the key: now, or when it changed.       *)
LastTrue(k, answer) ==
    IF Valid(k) = answer THEN akNow ELSE IF answer THEN akValidAt[k] ELSE akInvalidAt[k]

AnswerInv ==
    \A k \in Keys :
        /\ akValidAt[k] \in Never..akNow /\ akInvalidAt[k] \in Never..akNow
        /\ \A r \in Replicas :
              /\ akEntry[r][k].until <= LastTrue(k, akEntry[r][k].valid) + AuthTtl
              /\ akEntry[r][k].valid => akEntry[r][k].until < Expiry(k) + Second

AkInv == AkShape /\ AnswerInv

LEMMA KeyFacts ==
    /\ \A k \in Keys : Expiry(k) \in Nat
    /\ AuthTtl \in Nat /\ AuthTtl >= 2 /\ Second = 2 /\ Never = -AuthTtl
    /\ \A k : Valid(k) \in BOOLEAN
BY ApiKeysAssumption DEF ApiKeysAssumption, Keys, Expiry, Second, Never, Valid

(* How long an answer is kept. *)
LEMMA LifetimeBounds ==
    ASSUME AkShape, NEW k \in Keys
    PROVE  /\ Lifetime(k) \in Nat /\ Lifetime(k) <= AuthTtl
           /\ Valid(k) => akNow + Lifetime(k) < Expiry(k) + Second
<1>1. CASE ~Valid(k)
    BY <1>1, KeyFacts DEF Lifetime
<1>2. CASE Valid(k)
    <2> DEFINE left == ((Expiry(k) - akNow) \div 2) * 2
    <2>1. /\ akNow < Expiry(k) /\ akNow \in Nat /\ Expiry(k) \in Nat
        BY <1>2, KeyFacts DEF Valid, AkShape
    <2>2. left \in Nat /\ left <= Expiry(k) - akNow
        BY <2>1
    <2>3. Lifetime(k) = IF left < 2 THEN 2 ELSE IF left < AuthTtl THEN left ELSE AuthTtl
        BY <1>2, KeyFacts DEF Lifetime
    <2> HIDE DEF left
    <2> QED BY <2>1, <2>2, <2>3, KeyFacts
<1> QED BY <1>1, <1>2

(* A write or a tick notes how things stood before it.                      *)
LEMMA NotedBefore ==
    ASSUME AkInv, AkShape', NoteValidity, UNCHANGED akEntry, akNow' >= akNow
    PROVE  AnswerInv'
<1> SUFFICES ASSUME NEW k \in Keys
             PROVE  /\ akValidAt'[k] \in Never..akNow' /\ akInvalidAt'[k] \in Never..akNow'
                    /\ \A r \in Replicas :
                          /\ akEntry[r][k].until <= LastTrue(k, akEntry[r][k].valid)' + AuthTtl
                          /\ akEntry[r][k].valid => akEntry[r][k].until < Expiry(k) + Second
    BY DEF AnswerInv
<1>1. /\ akNow \in Nat /\ akNow' \in Nat /\ akNow' >= akNow
      /\ akValidAt[k] \in Never..akNow /\ akInvalidAt[k] \in Never..akNow
      /\ Never \in Int /\ Never <= 0 /\ AuthTtl \in Nat
    BY KeyFacts DEF AkInv, AkShape, AnswerInv
<1>2. /\ akValidAt'[k] = IF Valid(k) THEN akNow ELSE akValidAt[k]
      /\ akInvalidAt'[k] = IF Valid(k) THEN akInvalidAt[k] ELSE akNow
    BY DEF NoteValidity
<1>3. akValidAt'[k] \in Never..akNow' /\ akInvalidAt'[k] \in Never..akNow'
    BY <1>1, <1>2
<1>4. \A answer \in BOOLEAN :
          LastTrue(k, answer) \in Int /\ LastTrue(k, answer)' \in Int
          /\ LastTrue(k, answer)' >= LastTrue(k, answer)
    BY <1>1, <1>2, KeyFacts DEF LastTrue
<1>5. ASSUME NEW r \in Replicas
      PROVE  /\ akEntry[r][k].until <= LastTrue(k, akEntry[r][k].valid)' + AuthTtl
             /\ akEntry[r][k].valid => akEntry[r][k].until < Expiry(k) + Second
    <2>1. akEntry[r][k].valid \in BOOLEAN /\ akEntry[r][k].until \in Int
        BY DEF AkInv, AkShape
    <2>2. akEntry[r][k].until <= LastTrue(k, akEntry[r][k].valid) + AuthTtl
        BY DEF AkInv, AnswerInv
    <2> HIDE DEF LastTrue
    <2>3. akEntry[r][k].until <= LastTrue(k, akEntry[r][k].valid)' + AuthTtl
        BY <1>1, <1>4, <2>1, <2>2
    <2> QED BY <2>3 DEF AkInv, AnswerInv
<1> QED BY <1>3, <1>5

(* The clock, the documents and the notes stay: answers keep their standing. *)
LEMMA StandingKept ==
    ASSUME UNCHANGED <<akNow, akDocument, akValidAt, akInvalidAt>>, NEW k, NEW answer
    PROVE  LastTrue(k, answer)' = LastTrue(k, answer) /\ Valid(k)' = Valid(k)
BY DEF LastTrue, Valid

LEMMA MissingShape ==
    Missing \in [valid : BOOLEAN, until : Int] /\ Missing.until = Never /\ ~Missing.valid
BY KeyFacts DEF Missing

LEMMA AkInitInv == AkInit => AkInv
<1> SUFFICES ASSUME AkInit PROVE AkInv
    OBVIOUS
<1>1. /\ akNow \in Nat /\ akNow = 0 /\ akUp \subseteq Replicas
      /\ akDocument \in [DOMAIN Documented -> {"absent", "active", "revoked"}]
      /\ akValidAt \in [Keys -> Int] /\ akInvalidAt \in [Keys -> Int]
      /\ akEntry \in [Replicas -> [Keys -> [valid : BOOLEAN, until : Int]]]
    BY KeyFacts, MissingShape DEF AkInit
<1>2. \A k \in Keys : akValidAt[k] = Never /\ akInvalidAt[k] = Never
                      /\ \A r \in Replicas : akEntry[r][k] = Missing
    BY DEF AkInit
<1>3. \A k \in Keys, r \in Replicas : akEntry[r][k].valid = FALSE /\ akEntry[r][k].until = Never
    BY <1>2 DEF Missing
<1>4. \A k \in Keys, r \in Replicas : akEntry[r][k].until <= LastTrue(k, akEntry[r][k].valid) + AuthTtl
    BY <1>1, <1>2, <1>3, KeyFacts DEF LastTrue
<1>5. \A k \in Keys : akValidAt[k] \in Never..akNow /\ akInvalidAt[k] \in Never..akNow
    BY <1>1, <1>2, KeyFacts
<1> QED BY <1>1, <1>3, <1>4, <1>5 DEF AkInv, AkShape, AnswerInv

LEMMA AkStepInv == AkInv /\ [AkNext]_akVars => AkInv'
<1> SUFFICES ASSUME AkInv, [AkNext]_akVars PROVE AkInv'
    OBVIOUS
<1>1. ASSUME NEW r \in Replicas, NEW k \in Keys, Authenticate(r, k) PROVE AkInv'
    <2>1. /\ UNCHANGED <<akNow, akDocument, akValidAt, akInvalidAt, akUp>>
          /\ akEntry' = [akEntry EXCEPT ![r][k] = Found(k)]
        BY <1>1 DEF Authenticate
    <2>2. /\ Found(k).valid = Valid(k) /\ Found(k).until = akNow + Lifetime(k)
          /\ Found(k) \in [valid : BOOLEAN, until : Int]
        BY KeyFacts, LifetimeBounds DEF Found, AkInv, AkShape
    <2>3. AkShape'
        BY <2>1, <2>2 DEF AkInv, AkShape
    <2>4. /\ Found(k).until <= LastTrue(k, Found(k).valid) + AuthTtl
          /\ Found(k).valid => Found(k).until < Expiry(k) + Second
        BY <2>2, KeyFacts, LifetimeBounds DEF LastTrue, AkInv, AkShape
    <2>5. ASSUME NEW q \in Replicas, NEW l \in Keys
          PROVE  /\ akEntry'[q][l].until <= LastTrue(l, akEntry'[q][l].valid) + AuthTtl
                 /\ akEntry'[q][l].valid => akEntry'[q][l].until < Expiry(l) + Second
        <3>1. CASE q = r /\ l = k
            BY <2>1, <2>4, <3>1 DEF AkInv, AkShape
        <3>2. CASE ~(q = r /\ l = k)
            <4>1. akEntry'[q][l] = akEntry[q][l]
                BY <2>1, <3>2 DEF AkInv, AkShape
            <4> QED BY <4>1 DEF AkInv, AnswerInv
        <3> QED BY <3>1, <3>2
    <2>6. \A q \in Replicas, l \in Keys :
              LastTrue(l, akEntry[q][l].valid)' = LastTrue(l, akEntry'[q][l].valid)
        BY <2>1 DEF LastTrue, Valid
    <2>7. \A l \in Keys : akValidAt'[l] \in Never..akNow' /\ akInvalidAt'[l] \in Never..akNow'
        BY <2>1 DEF AkInv, AnswerInv
    <2> QED BY <2>3, <2>5, <2>6, <2>7 DEF AkInv, AnswerInv
<1>2. ASSUME NEW k, NEW before \in {"absent", "active"}, NEW after \in {"active", "revoked"},
             Write(k, before, after)
      PROVE  AkInv'
    <2>1. AkShape' /\ NoteValidity /\ UNCHANGED <<akEntry, akNow>>
        BY <1>2 DEF Write, NoteValidity, AkInv, AkShape
    <2>2. akNow' >= akNow
        BY <2>1 DEF AkInv, AkShape
    <2> QED BY <2>1, <2>2, NotedBefore DEF AkInv
<1>3. CASE AkTick
    <2>1. AkShape' /\ NoteValidity /\ UNCHANGED akEntry
        BY <1>3 DEF AkTick, NoteValidity, AkInv, AkShape
    <2>2. akNow' >= akNow
        BY <1>3 DEF AkTick, AkInv, AkShape
    <2> QED BY <2>1, <2>2, NotedBefore DEF AkInv
<1>4. ASSUME NEW r \in Replicas, Dies(r) PROVE AkInv'
    <2>1. /\ UNCHANGED <<akNow, akDocument, akValidAt, akInvalidAt>> /\ akUp' = akUp \ {r}
          /\ akEntry' = [akEntry EXCEPT ![r] = [k \in Keys |-> Missing]]
        BY <1>4 DEF Dies
    <2>2. AkShape'
        BY <2>1, MissingShape DEF AkInv, AkShape
    <2>3. ASSUME NEW q \in Replicas, NEW l \in Keys
          PROVE  /\ akEntry'[q][l].until <= LastTrue(l, akEntry'[q][l].valid) + AuthTtl
                 /\ akEntry'[q][l].valid => akEntry'[q][l].until < Expiry(l) + Second
        <3>1. CASE q = r
            <4>1. akEntry'[q][l].valid = FALSE /\ akEntry'[q][l].until = Never
                BY <2>1, <3>1 DEF AkInv, AkShape, Missing
            <4>2. akNow >= Never /\ akInvalidAt[l] >= Never /\ akNow \in Int /\ akInvalidAt[l] \in Int
                BY KeyFacts DEF AkInv, AkShape, AnswerInv
            <4> QED BY <4>1, <4>2, KeyFacts DEF LastTrue
        <3>2. CASE q # r
            <4>1. akEntry'[q][l] = akEntry[q][l]
                BY <2>1, <3>2 DEF AkInv, AkShape
            <4> QED BY <4>1 DEF AkInv, AnswerInv
        <3> QED BY <3>1, <3>2
    <2>4. \A q \in Replicas, l \in Keys :
              LastTrue(l, akEntry[q][l].valid)' = LastTrue(l, akEntry'[q][l].valid)
        BY <2>1 DEF LastTrue, Valid
    <2>5. \A l \in Keys : akValidAt'[l] \in Never..akNow' /\ akInvalidAt'[l] \in Never..akNow'
        BY <2>1 DEF AkInv, AnswerInv
    <2> QED BY <2>2, <2>3, <2>4, <2>5 DEF AkInv, AnswerInv
<1>5. ASSUME UNCHANGED <<akNow, akDocument, akEntry, akValidAt, akInvalidAt>>, akUp' \subseteq Replicas PROVE AkInv'
    BY <1>5 DEF AkInv, AkShape, AnswerInv, LastTrue, Valid
<1>6. ASSUME NEW r \in Replicas, Starts(r) PROVE AkInv'
    BY <1>5, <1>6 DEF Starts, AkInv, AkShape
<1>7. CASE UNCHANGED akVars
    BY <1>5, <1>7 DEF akVars, AkInv, AkShape
<1> QED BY <1>1, <1>2, <1>3, <1>4, <1>6, <1>7 DEF AkNext, Issue, Revoke

LEMMA AnswersHold == AkInv => AnswersAreRecent /\ ExpiredSoonRefused
<1> SUFFICES ASSUME AkInv, NEW r \in akUp, NEW k \in Keys, Usable(r, k)
             PROVE  /\ akEntry[r][k].valid # Valid(k) =>
                          akNow - (IF akEntry[r][k].valid THEN akValidAt[k] ELSE akInvalidAt[k]) < AuthTtl
                    /\ akEntry[r][k].valid => akNow < Expiry(k) + Second
    BY DEF AnswersAreRecent, ExpiredSoonRefused
<1>1. r \in Replicas /\ akNow \in Nat /\ akNow < akEntry[r][k].until /\ akEntry[r][k].until \in Int
      /\ akEntry[r][k].valid \in BOOLEAN /\ akValidAt[k] \in Int /\ akInvalidAt[k] \in Int
    BY DEF AkInv, AkShape, Usable
<1>2. /\ akEntry[r][k].until <= LastTrue(k, akEntry[r][k].valid) + AuthTtl
      /\ akEntry[r][k].valid => akEntry[r][k].until < Expiry(k) + Second
    BY <1>1 DEF AkInv, AnswerInv
<1>3. ASSUME akEntry[r][k].valid # Valid(k)
      PROVE  LastTrue(k, akEntry[r][k].valid) = IF akEntry[r][k].valid THEN akValidAt[k] ELSE akInvalidAt[k]
    BY <1>3 DEF LastTrue
<1> QED BY <1>1, <1>2, <1>3, KeyFacts

-----------------------------------------------------------------------------
(* Windows *)

End(w) == (Bucket(w) + 1) * Lengths[w]

LEMMA Dividing ==
    ASSUME NEW n \in Nat, NEW d \in Nat \ {0}
    PROVE  \E q \in Nat : \E r \in 0..(d - 1) : n \div d = q /\ n % d = r /\ n = d * q + r
<1> DEFINE q == n \div d
           r == n % d
<1>1. q \in Nat /\ r \in Nat /\ r <= d - 1
    <2>1. n \div d \in Nat
        OBVIOUS
    <2>2. n % d \in Nat /\ n % d <= d - 1
        OBVIOUS
    <2> QED BY <2>1, <2>2
<1>2. q = n \div d /\ r = n % d
    OBVIOUS
<1> HIDE DEF q, r
<1>3. n = d * q + r
    BY <1>1, <1>2, SMTT(20)
<1>4. r \in 0..(d - 1)
    BY <1>1
<1> QED BY <1>1, <1>2, <1>3, <1>4, Zenon

LEMMA Multiples ==
    ASSUME NEW a \in Nat, NEW b \in Nat, NEW d \in Nat, a <= b
    PROVE  d * a \in Nat /\ d * b \in Nat /\ d * a <= d * b
<1>1. b - a \in Nat /\ d * (b - a) \in Nat
    OBVIOUS
<1>2. d * b = d * a + d * (b - a)
    OBVIOUS
<1> QED BY <1>1, <1>2

(* A larger number has no smaller quotient. *)
LEMMA DivisionGrows ==
    ASSUME NEW m \in Nat, NEW n \in Nat, NEW d \in Nat \ {0}, NEW q \in Nat, d * q <= m, m <= n
    PROVE  q <= n \div d
<1>1. PICK p \in Nat, r \in 0..(d - 1) : n \div d = p /\ n = d * p + r
    BY Dividing
<1>2. SUFFICES ASSUME p + 1 <= q PROVE FALSE
    BY <1>1
<1>3. d * (p + 1) <= d * q
    BY <1>1, <1>2, Multiples
<1>4. d * (p + 1) = d * p + d
    BY <1>1
<1>5. d * p \in Nat /\ d * q \in Nat
    BY <1>1
<1> QED BY <1>1, <1>3, <1>4, <1>5

(* A counter's ttl reaches past the end of its window. *)
LEMMA WindowEnds ==
    ASSUME rtNow \in Nat, NEW w \in Windows
    PROVE  /\ Bucket(w) \in Nat /\ End(w) \in Nat
           /\ WindowTtl(w) \in Nat
           /\ rtNow < End(w) /\ End(w) <= rtNow + WindowTtl(w)
<1>1. PICK L \in Nat \ {0}, h \in 1..1800 : L = Lengths[w] /\ L = 2 * h
    <2>1. Lengths[w] \in {2 * n : n \in 1..1800}
        BY RateLimitsAssumption DEF RateLimitsAssumption
    <2>2. PICK h \in 1..1800 : Lengths[w] = 2 * h
        BY <2>1
    <2>3. 2 * h \in Nat \ {0}
        OBVIOUS
    <2> QED BY <2>2, <2>3
<1>2. PICK b \in Nat, r \in 0..(L - 1) : rtNow \div L = b /\ rtNow = L * b + r
    BY <1>1, Dividing
<1>3. PICK e \in Nat, even \in Nat : rtNow \div 2 = e /\ even = e * 2 /\ even <= rtNow /\ rtNow <= even + 1
    BY Dividing
<1>4. PICK c \in Nat, s \in 0..(L - 1) : even \div L = c /\ even % L = s /\ even = L * c + s
    BY <1>1, Dividing
<1>5. L * b <= even
    <2>1. L * b = 2 * (h * b) /\ h * b \in Nat
        BY <1>1, <1>2
    <2>2. PICK hb \in Nat : hb = h * b /\ L * b = 2 * hb
        BY <2>1
    <2>3. 2 * hb <= rtNow
        BY <1>2, <2>2
    <2> QED BY <1>3, <2>2, <2>3
<1>6. L * b \in Nat /\ L * c \in Nat /\ L * b <= L * c
    <2>1. b <= c
        BY <1>1, <1>2, <1>3, <1>4, <1>5, DivisionGrows
    <2> QED BY <1>1, <1>2, <1>4, <2>1, Multiples
<1>7. Bucket(w) = b /\ End(w) = L * b + L
    BY <1>1, <1>2 DEF End, Bucket
<1>8. WindowTtl(w) = L - s + 2
    BY <1>1, <1>3, <1>4 DEF WindowTtl
<1>9. PICK x \in Nat, y \in Nat : x = L * b /\ y = L * c
    BY <1>6
<1> QED BY <1>1, <1>2, <1>3, <1>4, <1>6, <1>7, <1>8, <1>9

Counter == [bucket : Nat, n : Nat, until : Int]

RtShape ==
    /\ rtNow \in Nat /\ rtInMemory \subseteq Processes
    /\ rtCount \in [Caches -> [Callers -> [Windows -> Counter]]]
    /\ rtPassed \in [Caches -> [Callers -> [Windows -> Counter]]]

(* A window's counter lives as long as the window; it counts what passed.   *)
InWindow(count, passed, w) ==
    /\ passed.n <= Limits[w] /\ passed.bucket <= Bucket(w) /\ count.bucket <= Bucket(w)
    /\ count.n > 0 /\ count.bucket = Bucket(w) => End(w) <= count.until
    /\ passed.n > 0 /\ passed.bucket = Bucket(w) => count.bucket = Bucket(w) /\ passed.n <= count.n

RtInv ==
    /\ RtShape
    /\ \A c \in Caches, i \in Callers, w \in Windows : InWindow(rtCount[c][i][w], rtPassed[c][i][w], w)

LEMMA LimitTypes == \A w \in Windows : Limits[w] \in Nat /\ Limits[w] > 0 /\ Lengths[w] \in Nat \ {0}
<1>1. Limits \in [Windows -> Nat \ {0}] /\ Lengths \in [Windows -> {2 * n : n \in 1..1800}]
    BY RateLimitsAssumption DEF RateLimitsAssumption
<1>2. \A x \in {2 * n : n \in 1..1800} : x \in Nat \ {0}
    <2> SUFFICES ASSUME NEW n \in 1..1800 PROVE 2 * n \in Nat \ {0}
        OBVIOUS
    <2> QED OBVIOUS
<1> QED BY <1>1, <1>2

LEMMA NoCountShape ==
    /\ NoCount \in [Callers -> [Windows -> Counter]]
    /\ \A i \in Callers, w \in Windows : NoCount[i][w].n = 0 /\ NoCount[i][w].bucket = 0
<1>1. [bucket |-> 0, n |-> 0, until |-> 0] \in Counter
    BY DEF Counter
<1> QED BY <1>1 DEF NoCount

LEMMA NothingCounted ==
    ASSUME rtNow \in Nat, NEW i \in Callers, NEW w \in Windows
    PROVE  InWindow(NoCount[i][w], NoCount[i][w], w)
<1>1. Bucket(w) \in Nat
    BY WindowEnds
<1> QED BY <1>1, NoCountShape, LimitTypes DEF InWindow

LEMMA RtInitInv == RtInit => RtInv
<1> SUFFICES ASSUME RtInit PROVE RtInv
    OBVIOUS
<1>1. RtShape
    BY NoCountShape DEF RtInit, RtShape
<1>2. ASSUME NEW c \in Caches, NEW i \in Callers, NEW w \in Windows
      PROVE  InWindow(rtCount[c][i][w], rtPassed[c][i][w], w)
    <2>1. rtCount[c][i][w] = NoCount[i][w] /\ rtPassed[c][i][w] = NoCount[i][w] /\ rtNow \in Nat
        BY DEF RtInit
    <2> QED BY <2>1, NothingCounted
<1> QED BY <1>1, <1>2 DEF RtInv

(* Counting one more request keeps a window in order, and makes room for it *)
(* among those that passed.                                                 *)
LEMMA CountingOneMore ==
    ASSUME rtNow \in Nat, NEW w \in Windows, NEW count \in Counter, NEW passed \in Counter,
           InWindow(count, passed, w)
    PROVE  LET more == Incremented(count, w)
           IN  /\ more \in Counter /\ more.bucket = Bucket(w)
               /\ InWindow(more, passed, w)
               /\ passed.bucket = Bucket(w) => passed.n + 1 <= more.n
               /\ 1 <= more.n
<1> DEFINE more == Incremented(count, w)
           alive == count.bucket = Bucket(w) /\ count.until > rtNow
<1>1. /\ Bucket(w) \in Nat /\ End(w) \in Nat /\ WindowTtl(w) \in Nat
      /\ rtNow < End(w) /\ End(w) <= rtNow + WindowTtl(w)
    BY WindowEnds
<1>2. /\ more.bucket = Bucket(w) /\ more.until = rtNow + WindowTtl(w)
      /\ more.n = IF alive THEN count.n + 1 ELSE 1
      /\ more = [bucket |-> more.bucket, until |-> more.until, n |-> more.n]
    BY DEF Incremented, OneMore
<1>3. /\ count.n \in Nat /\ count.bucket \in Nat /\ count.until \in Int
      /\ passed.n \in Nat /\ passed.bucket \in Nat
    BY DEF Counter
<1> HIDE DEF more
<1>4. more.n \in Nat /\ more.n >= 1 /\ more \in Counter
    BY <1>1, <1>2, <1>3 DEF Counter
<1>5. ASSUME passed.bucket = Bucket(w) PROVE passed.n + 1 <= more.n
    <2>1. CASE passed.n = 0
        BY <1>4, <2>1
    <2>2. CASE passed.n > 0
        <3>1. count.bucket = Bucket(w) /\ passed.n <= count.n
            BY <1>5, <2>2 DEF InWindow
        <3>2. End(w) <= count.until
            BY <1>3, <2>2, <3>1 DEF InWindow
        <3>3. more.n = count.n + 1
            BY <1>1, <1>2, <1>3, <3>1, <3>2
        <3> QED BY <1>3, <3>1, <3>3
    <2> QED BY <1>3, <2>1, <2>2
<1>6. InWindow(more, passed, w)
    BY <1>1, <1>2, <1>3, <1>4, <1>5 DEF InWindow
<1> QED BY <1>2, <1>4, <1>5, <1>6 DEF more

LEMMA RtStepInv == RtInv /\ [RtNext]_rtVars => RtInv'
<1> SUFFICES ASSUME RtInv, [RtNext]_rtVars PROVE RtInv'
    OBVIOUS
<1>0. rtNow \in Nat /\ \A w \in Windows : Bucket(w) \in Nat /\ Limits[w] \in Nat
    BY WindowEnds, LimitTypes DEF RtInv, RtShape
<1>1. ASSUME NEW r \in Processes, NEW i \in Callers, Counted(r, i) PROVE RtInv'
    <2> DEFINE c == CacheOf(r)
               count == [w \in Windows |-> Incremented(rtCount[c][i][w], w)]
               through == [w \in Windows |->
                              [bucket |-> Bucket(w), until |-> 0,
                               n |-> IF rtPassed[c][i][w].bucket = Bucket(w) THEN rtPassed[c][i][w].n + 1 ELSE 1]]
    <2>1. c \in Caches
        BY DEF CacheOf, Caches
    <2>2. /\ UNCHANGED <<rtNow, rtInMemory>>
          /\ rtCount' = [rtCount EXCEPT ![c][i] = count]
          /\ \/ \E w \in Windows : count[w].n > Limits[w] /\ rtPassed' = rtPassed
             \/ /\ \A w \in Windows : ~(count[w].n > Limits[w])
                /\ rtPassed' = [rtPassed EXCEPT ![c][i] = through]
        BY <1>1, <2>1 DEF Counted, RtInv, RtShape
    <2>3. /\ count \in [Windows -> Counter]
          /\ \A w \in Windows : /\ InWindow(count[w], rtPassed[c][i][w], w)
                                /\ count[w].bucket = Bucket(w) /\ 1 <= count[w].n
                                /\ rtPassed[c][i][w].bucket = Bucket(w) => rtPassed[c][i][w].n + 1 <= count[w].n
        <3>1. ASSUME NEW w \in Windows
              PROVE  /\ count[w] \in Counter /\ InWindow(count[w], rtPassed[c][i][w], w)
                     /\ count[w].bucket = Bucket(w) /\ 1 <= count[w].n
                     /\ rtPassed[c][i][w].bucket = Bucket(w) => rtPassed[c][i][w].n + 1 <= count[w].n
            <4>1. /\ rtCount[c][i][w] \in Counter /\ rtPassed[c][i][w] \in Counter
                  /\ InWindow(rtCount[c][i][w], rtPassed[c][i][w], w)
                BY <2>1 DEF RtInv, RtShape
            <4> QED BY <1>0, <4>1, CountingOneMore
        <3> QED BY <3>1
    <2>4. /\ through \in [Windows -> Counter]
          /\ (\A w \in Windows : ~(count[w].n > Limits[w])) =>
                \A w \in Windows : InWindow(count[w], through[w], w)
        <3>1. ASSUME NEW w \in Windows
              PROVE  /\ through[w] \in Counter
                     /\ count[w].n <= Limits[w] => InWindow(count[w], through[w], w)
            <4>1. /\ through[w].bucket = Bucket(w) /\ through[w].until = 0
                  /\ through[w].n = IF rtPassed[c][i][w].bucket = Bucket(w) THEN rtPassed[c][i][w].n + 1 ELSE 1
                  /\ through[w] = [bucket |-> through[w].bucket, until |-> through[w].until, n |-> through[w].n]
                OBVIOUS
            <4>2. /\ rtPassed[c][i][w].n \in Nat /\ count[w].n \in Nat /\ Bucket(w) \in Nat
                  /\ Limits[w] \in Nat
                BY <1>0, <2>1, <2>3 DEF RtInv, RtShape, Counter
            <4> HIDE DEF through, count, c
            <4>3. through[w] \in Counter
                BY <4>1, <4>2 DEF Counter
            <4>4. count[w].n <= Limits[w] => InWindow(count[w], through[w], w)
                BY <2>3, <4>1, <4>2 DEF InWindow
            <4> QED BY <4>3, <4>4
        <3> HIDE DEF count
        <3>2. \A w \in Windows : count[w].n \in Nat
            BY <2>3 DEF Counter
        <3> QED BY <1>0, <2>3, <3>1, <3>2
    <2> HIDE DEF c, count, through
    <2>5. \/ rtPassed' = rtPassed
          \/ /\ \A w \in Windows : ~(count[w].n > Limits[w])
             /\ rtPassed' = [rtPassed EXCEPT ![c][i] = through]
        BY <2>2
    <2>6. RtShape'
        <3>1. rtCount' \in [Caches -> [Callers -> [Windows -> Counter]]]
            BY <2>1, <2>2, <2>3 DEF RtInv, RtShape
        <3>2. rtPassed' \in [Caches -> [Callers -> [Windows -> Counter]]]
            <4>1. \/ rtPassed' = rtPassed
                  \/ rtPassed' = [rtPassed EXCEPT ![c][i] = through]
                BY <2>5
            <4>2. through \in [Windows -> Counter]
                BY <2>4
            <4>3. CASE rtPassed' = rtPassed
                BY <4>3 DEF RtInv, RtShape
            <4>4. CASE rtPassed' = [rtPassed EXCEPT ![c][i] = through]
                BY <2>1, <4>2, <4>4 DEF RtInv, RtShape
            <4> QED BY <4>1, <4>3, <4>4
        <3> QED BY <2>2, <3>1, <3>2 DEF RtInv, RtShape
    <2>7. ASSUME NEW d \in Caches, NEW j \in Callers, NEW w \in Windows
          PROVE  InWindow(rtCount'[d][j][w], rtPassed'[d][j][w], w)
        <3>1. CASE d = c /\ j = i
            <4>1. rtCount'[d][j][w] = count[w]
                BY <2>1, <2>2, <3>1 DEF RtInv, RtShape
            <4>2. CASE rtPassed' = rtPassed
                BY <2>3, <3>1, <4>1, <4>2
            <4>3. CASE /\ \A v \in Windows : ~(count[v].n > Limits[v])
                       /\ rtPassed' = [rtPassed EXCEPT ![c][i] = through]
                <5>1. rtPassed'[d][j][w] = through[w]
                    BY <2>1, <3>1, <4>3 DEF RtInv, RtShape
                <5> QED BY <2>4, <4>1, <4>3, <5>1
            <4> QED BY <2>5, <4>2, <4>3
        <3>2. CASE ~(d = c /\ j = i)
            <4>1. rtCount'[d][j] = rtCount[d][j] /\ rtPassed'[d][j] = rtPassed[d][j]
                BY <2>1, <2>2, <2>5, <3>2 DEF RtInv, RtShape
            <4> QED BY <4>1 DEF RtInv
        <3> QED BY <3>1, <3>2
    <2> QED BY <2>2, <2>6, <2>7 DEF RtInv, InWindow, Bucket, End
<1>2. ASSUME NEW r \in Processes, NEW i \in Callers, Uncounted(r, i) PROVE RtInv'
    <2>1. PICK made \in {{}, {"minute"}, Windows} :
              rtCount' = [rtCount EXCEPT !["redis"][i] =
                             [w \in Windows |-> IF w \in made THEN Incremented(@[w], w) ELSE @[w]]]
        BY <1>2 DEF Uncounted
    <2>2. UNCHANGED <<rtNow, rtInMemory, rtPassed>> /\ "redis" \in Caches
        BY <1>2 DEF Uncounted, Caches
    <2>3. ASSUME NEW d \in Caches, NEW j \in Callers, NEW w \in Windows
          PROVE  rtCount'[d][j][w] \in Counter /\ InWindow(rtCount'[d][j][w], rtPassed[d][j][w], w)
        <3>1. /\ rtCount[d][j][w] \in Counter /\ rtPassed[d][j][w] \in Counter
              /\ InWindow(rtCount[d][j][w], rtPassed[d][j][w], w)
            BY DEF RtInv, RtShape
        <3>2. rtCount'[d][j][w] = rtCount[d][j][w] \/ rtCount'[d][j][w] = Incremented(rtCount[d][j][w], w)
            BY <2>1, <2>2 DEF RtInv, RtShape
        <3> QED BY <1>0, <3>1, <3>2, CountingOneMore
    <2>4. rtCount' \in [Caches -> [Callers -> [Windows -> Counter]]]
        <3>1. rtCount' \in [Caches -> [Callers -> [Windows -> {rtCount'[d][j][w] : d \in Caches, j \in Callers, w \in Windows}]]]
            BY <2>1, <2>2 DEF RtInv, RtShape
        <3> QED BY <2>3, <3>1
    <2> QED BY <2>2, <2>3, <2>4 DEF RtInv, RtShape, InWindow, Bucket, End
<1>3. ASSUME NEW r \in Processes, Restart(r) PROVE RtInv'
    <2>1. /\ UNCHANGED rtNow /\ rtInMemory' \subseteq Processes
          /\ rtCount' = [rtCount EXCEPT ![r] = NoCount] /\ rtPassed' = [rtPassed EXCEPT ![r] = NoCount]
        BY <1>3 DEF Restart, RtInv, RtShape
    <2>2. ASSUME NEW d \in Caches, NEW j \in Callers, NEW w \in Windows
          PROVE  InWindow(rtCount'[d][j][w], rtPassed'[d][j][w], w)
        <3>1. CASE d = r
            <4>1. rtCount'[d][j][w] = NoCount[j][w] /\ rtPassed'[d][j][w] = NoCount[j][w]
                BY <2>1, <3>1 DEF RtInv, RtShape
            <4> QED BY <1>0, <4>1, NothingCounted
        <3>2. CASE d # r
            <4>1. rtCount'[d] = rtCount[d] /\ rtPassed'[d] = rtPassed[d]
                BY <2>1, <3>2 DEF RtInv, RtShape
            <4> QED BY <4>1 DEF RtInv
        <3> QED BY <3>1, <3>2
    <2>3. RtShape'
        BY <2>1, NoCountShape DEF RtInv, RtShape
    <2> QED BY <2>1, <2>2, <2>3 DEF RtInv, InWindow, Bucket, End
<1>4. CASE RtTick
    <2>1. UNCHANGED <<rtInMemory, rtCount, rtPassed>> /\ rtNow' = rtNow + 1
        BY <1>4 DEF RtTick
    <2>2. ASSUME NEW w \in Windows PROVE Bucket(w)' \in Nat /\ Bucket(w) <= Bucket(w)'
        <3>1. PICK q \in Nat : rtNow \div Lengths[w] = q /\ Lengths[w] * q <= rtNow
            <4>1. PICK q \in Nat, k \in 0..(Lengths[w] - 1) : rtNow \div Lengths[w] = q /\ rtNow = Lengths[w] * q + k
                BY <1>0, LimitTypes, Dividing
            <4>2. Lengths[w] * q \in Int
                BY LimitTypes
            <4> QED BY <4>1, <4>2
        <3>2. q <= (rtNow + 1) \div Lengths[w]
            BY <1>0, <3>1, LimitTypes, DivisionGrows
        <3>3. (rtNow + 1) \div Lengths[w] \in Nat
            <4>1. rtNow + 1 \in Nat
                BY <1>0
            <4> QED BY <4>1, LimitTypes, Dividing
        <3> QED BY <2>1, <3>1, <3>2, <3>3 DEF Bucket
    <2>3. ASSUME NEW d \in Caches, NEW j \in Callers, NEW w \in Windows
          PROVE  InWindow(rtCount[d][j][w], rtPassed[d][j][w], w)'
        <3>1. /\ rtCount[d][j][w] \in Counter /\ rtPassed[d][j][w] \in Counter
              /\ InWindow(rtCount[d][j][w], rtPassed[d][j][w], w)
            BY DEF RtInv, RtShape
        <3>2. /\ rtCount[d][j][w].bucket \in Nat /\ rtPassed[d][j][w].bucket \in Nat
            BY <3>1 DEF Counter
        <3>3. Bucket(w)' # Bucket(w) \/ End(w)' = End(w)
            BY DEF End
        <3>4. Bucket(w)' \in Nat /\ Bucket(w) \in Nat /\ Bucket(w) <= Bucket(w)'
            BY <1>0, <2>2
        <3> QED BY <2>1, <3>1, <3>2, <3>3, <3>4 DEF InWindow
    <2>4. RtShape'
        BY <1>0, <2>1 DEF RtInv, RtShape
    <2> QED BY <2>1, <2>3, <2>4 DEF RtInv
<1>5. CASE UNCHANGED rtVars
    BY <1>5 DEF rtVars, RtInv, RtShape, InWindow, Bucket, End
<1> QED BY <1>1, <1>2, <1>3, <1>4, <1>5 DEF RtNext

-----------------------------------------------------------------------------
(* For any keys, replicas, callers and limits: a cached answer was true      *)
(* less than the cache's lifetime ago, an expired key is refused within a    *)
(* second, and no window lets more requests through than its limit.          *)
THEOREM GatewayIsTight == GatewaySpec => []GatewayHolds
<1>1. AkInit /\ RtInit => AkInv /\ RtInv
    BY AkInitInv, RtInitInv
<1>2. AkInv /\ [AkNext]_akVars => AkInv'
    BY AkStepInv
<1>3. RtInv /\ [RtNext]_rtVars => RtInv'
    BY RtStepInv
<1>4. AkInv /\ RtInv => GatewayHolds
    <2>1. RtInv => WindowsHold
        BY DEF RtInv, InWindow, WindowsHold
    <2> QED BY <2>1, AnswersHold DEF GatewayHolds
<1> QED BY <1>1, <1>2, <1>3, <1>4, PTL DEF GatewaySpec

-----------------------------------------------------------------------------
(* Ranks, and what a scan chooses.                                          *)

(* As many are among the first k as there are places. *)
LEMMA FirstOnes ==
    ASSUME NEW D, IsFiniteSet(D), NEW below \in [D -> SUBSET D],
           \A i \in D : i \notin below[i],
           \A i, j \in D : i # j => \/ i \in below[j] /\ below[i] \subseteq below[j]
                                    \/ j \in below[i] /\ below[j] \subseteq below[i],
           NEW k \in Nat
    PROVE  /\ k <= Cardinality(D) => Cardinality({i \in D : Cardinality(below[i]) < k}) = k
           /\ k >= Cardinality(D) => {i \in D : Cardinality(below[i]) < k} = D
<1>1. PICK n : n = Cardinality(D)  OBVIOUS
<1>2. n \in Nat  BY <1>1, FS_CardinalityType
<1> DEFINE rank == [i \in D |-> Cardinality(below[i])]
<1>3. \A i \in D : IsFiniteSet(below[i]) /\ rank[i] \in Nat
  BY FS_Subset, FS_CardinalityType
<1>4. \A i \in D : rank[i] \in 0..n - 1
  <2> SUFFICES ASSUME NEW i \in D PROVE rank[i] \in 0..n - 1  OBVIOUS
  <2>1. below[i] \in SUBSET (D \ {i})  OBVIOUS
  <2>2. IsFiniteSet(D \ {i}) /\ Cardinality(D \ {i}) = n - 1  BY <1>1, OneOff
  <2>3. Cardinality(below[i]) <= n - 1  BY <2>1, <2>2, FS_Subset
  <2>4. rank[i] = Cardinality(below[i])  OBVIOUS
  <2>5. rank[i] \in Nat  BY <1>3
  <2> HIDE DEF rank
  <2> QED  BY ONLY <1>2, <2>3, <2>4, <2>5
<1>5. ASSUME NEW i \in D, NEW j \in D, i \in below[j], below[i] \subseteq below[j]  PROVE rank[i] < rank[j]
  <2>1. below[i] \in SUBSET (below[j] \ {i})  BY <1>5
  <2>2. IsFiniteSet(below[j] \ {i}) /\ Cardinality(below[j] \ {i}) = Cardinality(below[j]) - 1  BY <1>3, <1>5, OneOff
  <2>3. Cardinality(below[i]) <= Cardinality(below[j]) - 1  BY <2>1, <2>2, FS_Subset
  <2>4. rank[i] \in Nat /\ rank[j] \in Nat  BY <1>3
  <2>5. rank[i] = Cardinality(below[i]) /\ rank[j] = Cardinality(below[j])  OBVIOUS
  <2> HIDE DEF rank
  <2> QED  BY ONLY <2>3, <2>4, <2>5
<1>6. \A i, j \in D : rank[i] = rank[j] => i = j
  <2> SUFFICES ASSUME NEW i \in D, NEW j \in D, i # j PROVE rank[i] # rank[j]  OBVIOUS
  <2>1. rank[i] < rank[j] \/ rank[j] < rank[i]  BY <1>5
  <2>2. rank[i] \in Nat /\ rank[j] \in Nat  BY <1>3
  <2> HIDE DEF rank
  <2> QED  BY ONLY <2>1, <2>2
<1> DEFINE T == 0..n - 1  C == {i \in D : rank[i] < k}  U == 0..k - 1
           nth == [i \in C |-> rank[i]]
<1>7. C = {i \in D : Cardinality(below[i]) < k}  OBVIOUS
<1>8. ASSUME k <= n  PROVE Cardinality(C) = k
  <2>1. rank \in Injection(D, T)
    <3>1. rank \in [D -> T]  BY <1>4
    <3> HIDE DEF rank, T
    <3> QED  BY <1>6, <3>1 DEF Injection, IsInjective
  <2>2. IsFiniteSet(T) /\ Cardinality(T) = n
    <3>1. 0 \in Int /\ n - 1 \in Int  BY <1>2
    <3>2. IsFiniteSet(T) /\ Cardinality(T) = (IF 0 > n - 1 THEN 0 ELSE (n - 1) - 0 + 1)  BY ONLY <3>1, FS_Interval
    <3>3. (IF 0 > n - 1 THEN 0 ELSE (n - 1) - 0 + 1) = n  BY ONLY <1>2
    <3> QED  BY <3>2, <3>3
  <2>3. rank \in Surjection(D, T)
    <3> HIDE DEF rank, T
    <3> QED  BY <1>1, <2>1, <2>2, FS_Injection
  <2>4. nth \in Surjection(C, U) /\ nth \in Injection(C, U)
    <3>1. nth \in [C -> U]  BY <1>4
    <3>2. \A u \in U : \E i \in C : nth[i] = u
      <4> SUFFICES ASSUME NEW u \in U PROVE \E i \in C : nth[i] = u  OBVIOUS
      <4>1. u \in T /\ u < k  BY <1>2, <1>8
      <4>2. PICK i \in D : rank[i] = u  BY <2>3, <4>1 DEF Surjection
      <4>3. i \in C  BY <4>1, <4>2
      <4>4. nth[i] = u  BY <4>2, <4>3
      <4> QED  BY <4>3, <4>4
    <3>3. \A i, j \in C : nth[i] = nth[j] => i = j  BY <1>6
    <3> HIDE DEF nth, C, U
    <3> QED  BY <3>1, <3>2, <3>3 DEF Surjection, Injection, IsInjective
  <2>5. IsFiniteSet(U) /\ Cardinality(U) = k
    <3>1. 0 \in Int /\ k - 1 \in Int  OBVIOUS
    <3>2. IsFiniteSet(U) /\ Cardinality(U) = (IF 0 > k - 1 THEN 0 ELSE (k - 1) - 0 + 1)  BY ONLY <3>1, FS_Interval
    <3>3. (IF 0 > k - 1 THEN 0 ELSE (k - 1) - 0 + 1) = k  BY ONLY k \in Nat
    <3> QED  BY <3>2, <3>3
  <2> HIDE DEF nth, C, U
  <2> QED  BY <2>4, <2>5, FS_Injection
<1>9. ASSUME k >= n  PROVE C = D
  <2>1. \A i \in D : rank[i] < k
    <3> SUFFICES ASSUME NEW i \in D PROVE rank[i] < k  OBVIOUS
    <3>1. rank[i] \in 0..n - 1  BY <1>4
    <3> HIDE DEF rank
    <3> QED  BY ONLY <1>2, <1>9, <3>1, k \in Nat
  <2> HIDE DEF rank
  <2> QED  BY <2>1
<1> HIDE DEF C
<1> QED  BY <1>1, <1>7, <1>8, <1>9

(* The first k of the positions in a set.                                   *)
LEMMA FirstPlaces ==
    ASSUME NEW D, IsFiniteSet(D), D \subseteq Nat, NEW k \in Nat
    PROVE  LET C == {i \in D : Cardinality({j \in D : j < i}) < k}
           IN  IsFiniteSet(C) /\ Cardinality(C) \in Nat /\ Cardinality(C) <= k
<1> DEFINE below == [i \in D |-> {j \in D : j < i}]
           C == {i \in D : Cardinality({j \in D : j < i}) < k}
<1>1. below \in [D -> SUBSET D]  OBVIOUS
<1>2. \A i \in D : i \notin below[i]  OBVIOUS
<1>3. \A i, j \in D : i # j => \/ i \in below[j] /\ below[i] \subseteq below[j]
                               \/ j \in below[i] /\ below[j] \subseteq below[i]
  <2> SUFFICES ASSUME NEW i \in D, NEW j \in D, i # j
               PROVE  \/ i \in below[j] /\ below[i] \subseteq below[j]
                      \/ j \in below[i] /\ below[j] \subseteq below[i]
    OBVIOUS
  <2>1. i \in Nat /\ j \in Nat  OBVIOUS
  <2>2. \A x \in D : x \in Nat  OBVIOUS
  <2>3. CASE i < j
    <3>1. \A x \in below[i] : x \in below[j]  BY <2>1, <2>2, <2>3
    <3> QED  BY <2>3, <3>1
  <2>4. CASE j < i
    <3>1. \A x \in below[j] : x \in below[i]  BY <2>1, <2>2, <2>4
    <3> QED  BY <2>4, <3>1
  <2> QED  BY <2>1, <2>3, <2>4
<1>4. C = {i \in D : Cardinality(below[i]) < k}  OBVIOUS
<1>5. C \in SUBSET D  OBVIOUS
<1> HIDE DEF below, C
<1>6. /\ k <= Cardinality(D) => Cardinality(C) = k
      /\ k >= Cardinality(D) => C = D
  BY <1>1, <1>2, <1>3, <1>4, FirstOnes
<1>7. IsFiniteSet(C) /\ Cardinality(C) \in Nat /\ Cardinality(D) \in Nat  BY <1>5, FS_Subset, FS_CardinalityType
<1>8. Cardinality(C) <= k
  <2>1. k <= Cardinality(D) \/ k >= Cardinality(D)  BY <1>7
  <2> QED  BY <1>6, <1>7, <2>1
<1> QED  BY <1>7, <1>8 DEF C

-----------------------------------------------------------------------------
(* The scanner.                                                             *)

(* What is stored or was read: its times are of the clock, and what is       *)
(* active was chosen for it.                                                 *)
FixedRoom == IF ActiveLimit > Cardinality(Fixed) THEN ActiveLimit ELSE Cardinality(Fixed)
ChosenOK(active) == active # {} => Fixed \subseteq active /\ Cardinality(active) <= FixedRoom
Listing(c) == \E n \in Nat : DOMAIN c = 1..n
ScanOK(state) ==
    /\ state.started \in -RotateEvery..LastScan /\ state.refreshed \in -RefreshEvery..LastScan
    /\ state.next \in 0..LastScan + RotateEvery /\ state.until \in Int
    /\ Listing(state.candidates) /\ ChosenOK(state.active)

PassOK(d) ==
    /\ d \in [at : -1..LastScan, read : {d.read}, force : BOOLEAN, stale : BOOLEAN]
    /\ ScanOK(d.read)

ScanInv ==
    /\ scNow \in 0..LastScan /\ ScanOK(scState)
    /\ DOMAIN scPass = Passes /\ \A p \in Passes : PassOK(scPass[p])

(* The constants, one by one. *)
LEMMA ScannerFacts ==
    /\ IsFiniteSet(Fixed) /\ Cardinality(Fixed) \in Nat /\ ActiveLimit \in Nat /\ LastScan \in Nat
    /\ RefreshEvery \in Nat /\ RotateEvery \in Nat /\ RefreshEvery > 0 /\ RotateEvery > 0
    /\ Listing(FallbackSymbols) /\ \A t \in Tickers : Listing(t)
<1>1. \A t \in Tickers \cup {FallbackSymbols} : t \in Seq(ToSet(t))
  BY ScannerAssumption DEF ScannerAssumption
<1>2. ASSUME NEW t, t \in Seq(ToSet(t))  PROVE Listing(t)
  <2>1. DOMAIN t = 1..Len(t) /\ Len(t) \in Nat  BY <1>2
  <2> QED  BY <2>1 DEF Listing
<1>3. Listing(FallbackSymbols) /\ \A t \in Tickers : Listing(t)  BY <1>1, <1>2
<1> QED  BY <1>3, ScannerAssumption, FS_CardinalityType DEF ScannerAssumption

(* _build_rotation_payload fills what the fixed symbols leave.               *)
LEMMA ActiveFits ==
    ASSUME NEW c, Listing(c)
    PROVE  Fixed \subseteq Active(c) /\ ChosenOK(Active(c))
<1> DEFINE room == IF ActiveLimit > Cardinality(Fixed) THEN ActiveLimit - Cardinality(Fixed) ELSE 0
           D == Others(c)
           C == {i \in D : Cardinality({j \in D : j < i}) < room}
<1>1. room \in Nat  BY ScannerFacts
<1>2. IsFiniteSet(D) /\ D \subseteq Nat
  <2>1. PICK n \in Nat : DOMAIN c = 1..n  BY DEF Listing
  <2>2. IsFiniteSet(1..n)  BY FS_Interval
  <2>3. D \in SUBSET (1..n)  BY <2>1 DEF Others
  <2>4. 1..n \subseteq Nat  OBVIOUS
  <2> HIDE DEF D
  <2> QED  BY <2>2, <2>3, <2>4, FS_Subset
<1>3. IsFiniteSet(C) /\ Cardinality(C) \in Nat /\ Cardinality(C) <= room
  <2> HIDE DEF D, room
  <2> QED  BY <1>1, <1>2, FirstPlaces
<1>4. Rotating(c) = {c[i] : i \in C}  BY DEF Rotating
<1> HIDE DEF C
<1>5. IsFiniteSet(Rotating(c)) /\ Cardinality(Rotating(c)) <= Cardinality(C)
  <2> DEFINE f == [i \in C |-> c[i]]  I == {f[i] : i \in C}
  <2>1. f \in Surjection(C, I)  BY DEF Surjection
  <2>2. I = Rotating(c)  BY <1>4
  <2> HIDE DEF f, I
  <2> QED  BY <1>3, <2>1, <2>2, FS_Surjection
<1>6. /\ IsFiniteSet(Active(c)) /\ IsFiniteSet(Fixed \cap Rotating(c))
      /\ Cardinality(Active(c)) = Cardinality(Fixed) + Cardinality(Rotating(c)) - Cardinality(Fixed \cap Rotating(c))
  BY <1>5, ScannerFacts, FS_Union, FS_Intersection DEF Active
<1>7. Cardinality(Rotating(c)) \in Nat /\ Cardinality(Fixed \cap Rotating(c)) \in Nat
  BY <1>5, <1>6, FS_CardinalityType
<1>8. Cardinality(Active(c)) <= Cardinality(Fixed) + room
  <2> HIDE DEF room
  <2>1. Cardinality(Fixed) \in Nat  BY ScannerFacts
  <2> QED  BY ONLY <1>1, <1>3, <1>5, <1>6, <1>7, <2>1
<1>9. Cardinality(Fixed) + room = FixedRoom  BY ScannerFacts DEF FixedRoom
<1> HIDE DEF room
<1> QED  BY <1>8, <1>9 DEF ChosenOK, Active

LEMMA UnscannedOK == ScanOK(Unscanned)
<1>1. Listing(<<>>)
  <2>1. DOMAIN <<>> = 1..0  OBVIOUS
  <2> QED  BY <2>1 DEF Listing
<1>2. /\ Unscanned.started = -RotateEvery /\ Unscanned.refreshed = -RefreshEvery /\ Unscanned.next = 0
      /\ Unscanned.until = 0 /\ Unscanned.candidates = <<>> /\ Unscanned.active = {}
  BY DEF Unscanned
<1>3. ChosenOK({})  BY DEF ChosenOK
<1> QED  BY <1>1, <1>2, <1>3, ScannerFacts DEF ScanOK

LEMMA NoPassOK == PassOK(NoPass) /\ NoPass.at = -1
<1>1. NoPass = [at |-> -1, read |-> Unscanned, force |-> FALSE, stale |-> FALSE]  BY DEF NoPass
<1>2. -1 \in -1..LastScan  BY ScannerFacts
<1> HIDE DEF NoPass
<1> QED  BY <1>1, <1>2, UnscannedOK DEF PassOK

LEMMA ScanInit == ScInit => ScanInv
<1> SUFFICES ASSUME ScInit PROVE ScanInv  OBVIOUS
<1>1. scNow = 0 /\ scState = Unscanned /\ DOMAIN scPass = Passes /\ \A p \in Passes : scPass[p] = NoPass
  BY DEF ScInit
<1>2. scNow \in 0..LastScan /\ ScanOK(scState)  BY <1>1, UnscannedOK, ScannerFacts
<1> QED  BY <1>1, <1>2, NoPassOK DEF ScanInv

(* What the end of a pass stores and leaves of the others. *)
LEMMA FinishScan ==
    ASSUME ScanInv, NEW p \in Passes, NEW since \in 0..LastScan, NEW read, ScanOK(read), NEW c, Listing(c),
           NEW refreshed \in -RefreshEvery..LastScan, NEW force \in BOOLEAN,
           Finish(p, since, read, c, refreshed, force)
    PROVE  /\ ScanOK(scState')
           /\ DOMAIN scPass' = Passes
           /\ \A q \in Passes : PassOK(scPass'[q]) /\ (scPass'[q].at >= 0 => scPass'[q].stale)
           /\ IF RotationDue(read, since, force)
              THEN scState'.active = Active(c) /\ scState'.started = since
              ELSE scState'.active = read.active /\ scState'.started = read.started
           /\ scPass'[p].at = -1
           /\ \A q \in Passes \ {p} : scPass[q].at >= 0 => scPass'[q].at >= 0
<1> DEFINE rotates == RotationDue(read, since, force)
           life == IF RefreshEvery > RotateEvery THEN RefreshEvery ELSE RotateEvery
<1>1. /\ scState'.candidates = c /\ scState'.refreshed = refreshed
      /\ scState'.active = IF rotates THEN Active(c) ELSE read.active
      /\ scState'.started = IF rotates THEN since ELSE read.started
      /\ scState'.next = IF rotates THEN since + RotateEvery ELSE read.next
      /\ scState'.until = scNow + life
  BY DEF Finish
<1>2. life \in Int /\ scNow \in Int  BY ScannerFacts DEF ScanInv
<1>3. ScanOK(scState')
  <2>1. scState'.until \in Int
    <3> HIDE DEF life
    <3> QED  BY <1>1, <1>2
  <2>2. since \in -RotateEvery..LastScan /\ since + RotateEvery \in 0..LastScan + RotateEvery  BY ScannerFacts
  <2>3. ChosenOK(Active(c))  BY ActiveFits
  <2> HIDE DEF rotates
  <2>4. CASE rotates  BY <1>1, <2>1, <2>2, <2>3, <2>4 DEF ScanOK
  <2>5. CASE ~rotates  BY <1>1, <2>1, <2>5 DEF ScanOK
  <2> QED  BY <2>4, <2>5
<1>4. ASSUME NEW q \in Passes
      PROVE  scPass'[q] = IF q = p THEN NoPass
                          ELSE IF scPass[q].at < 0 THEN NoPass ELSE [scPass[q] EXCEPT !.stale = TRUE]
  BY DEF Finish
<1>5. DOMAIN scPass' = Passes  BY DEF Finish
<1>6. ASSUME NEW q \in Passes, q # p, scPass[q].at >= 0
      PROVE  PassOK(scPass'[q]) /\ scPass'[q].stale /\ scPass'[q].at = scPass[q].at
  <2>1. PICK d : d = scPass[q]  OBVIOUS
  <2>2. PassOK(d)  BY <2>1 DEF ScanInv
  <2>3. scPass'[q] = [d EXCEPT !.stale = TRUE]
    <3>1. d.at \in Int  BY <2>2 DEF PassOK
    <3>2. ~(scPass[q].at < 0)  BY <1>6, <2>1, <3>1
    <3> QED  BY <1>4, <1>6, <2>1, <3>2
  <2>4. PICK R, e : R = {d.read} /\ e = [d EXCEPT !.stale = TRUE]  OBVIOUS
  <2>5. d \in [at : -1..LastScan, read : R, force : BOOLEAN, stale : BOOLEAN]  BY <2>2, <2>4 DEF PassOK
  <2>6. e \in [at : -1..LastScan, read : R, force : BOOLEAN, stale : BOOLEAN]
    BY ONLY <2>4, <2>5
  <2>7. e.at = d.at /\ e.read = d.read /\ e.stale = TRUE  BY ONLY <2>4, <2>5
  <2>8. PassOK(e)  BY <2>2, <2>4, <2>6, <2>7 DEF PassOK
  <2> QED  BY <2>1, <2>3, <2>4, <2>7, <2>8
<1>7. ASSUME NEW q \in Passes, q = p \/ ~(scPass[q].at >= 0)
      PROVE  scPass'[q] = NoPass
  <2>1. scPass[q].at \in -1..LastScan  BY DEF ScanInv, PassOK
  <2>2. CASE q = p  BY <1>4, <2>2
  <2>3. CASE ~(scPass[q].at >= 0)
    <3>1. scPass[q].at < 0  BY <2>1, <2>3, ScannerFacts
    <3> QED  BY <1>4, <3>1
  <2> QED  BY <1>7, <2>2, <2>3
<1>8. ASSUME NEW q \in Passes  PROVE PassOK(scPass'[q]) /\ (scPass'[q].at >= 0 => scPass'[q].stale)
  <2>1. CASE q # p /\ scPass[q].at >= 0  BY <1>6, <2>1
  <2>2. CASE ~(q # p /\ scPass[q].at >= 0)  BY <1>7, <2>2, NoPassOK
  <2> QED  BY <2>1, <2>2
<1>9. scPass'[p].at = -1  BY <1>7, NoPassOK
<1>10. \A q \in Passes \ {p} : scPass[q].at >= 0 => scPass'[q].at >= 0  BY <1>6
<1> HIDE DEF rotates
<1> QED  BY <1>1, <1>3, <1>5, <1>8, <1>9, <1>10 DEF rotates

(* The scanner keeps its types, and the fixed symbols active.                *)
LEMMA ScanStep == ScanInv /\ [ScNext]_scVars => ScanInv'
<1> SUFFICES ASSUME ScanInv, [ScNext]_scVars PROVE ScanInv'  OBVIOUS
<1>1. ASSUME NEW p \in Passes, NEW force \in BOOLEAN, BeginPass(p, force)  PROVE ScanInv'
  <2>1. ScanOK(Read)  BY UnscannedOK DEF ScanInv, Read
  <2>2. scNow \in 0..LastScan /\ scNow' = scNow  BY <1>1 DEF ScanInv, BeginPass
  <2>3. CASE RefreshDue(Read, force)
    <3>1. PICK d : d = [at |-> scNow, read |-> Read, force |-> force, stale |-> FALSE]  OBVIOUS
    <3>2. PassOK(d)
      <4>1. scNow \in -1..LastScan  BY <2>2
      <4> QED  BY <2>1, <3>1, <4>1 DEF PassOK
    <3>3. scPass' = [scPass EXCEPT ![p] = d] /\ scState' = scState  BY <1>1, <2>3, <3>1 DEF BeginPass
    <3> QED  BY <2>2, <3>2, <3>3 DEF ScanInv
  <2>4. CASE ~RefreshDue(Read, force)
    <3>1. Finish(p, scNow, Read, Read.candidates, Read.refreshed, FALSE)  BY <1>1, <2>4 DEF BeginPass
    <3>2. Listing(Read.candidates) /\ Read.refreshed \in -RefreshEvery..LastScan  BY <2>1 DEF ScanOK
    <3>3. ScanOK(scState') /\ DOMAIN scPass' = Passes /\ \A q \in Passes : PassOK(scPass'[q])
      BY <2>1, <2>2, <3>1, <3>2, FinishScan
    <3> QED  BY <2>2, <3>3 DEF ScanInv
  <2> QED  BY <2>3, <2>4
<1>2. ASSUME NEW p \in Passes, TickersArrive(p)  PROVE ScanInv'
  <2>1. PassOK(scPass[p])  BY DEF ScanInv
  <2>2. scPass[p].at \in 0..LastScan /\ scPass[p].at \in -RefreshEvery..LastScan
    BY <1>2, <2>1, ScannerFacts DEF TickersArrive, PassOK
  <2>3. PICK t \in Tickers :
          Finish(p, scPass[p].at, scPass[p].read, IF t = <<>> THEN FallbackSymbols ELSE t, scPass[p].at, scPass[p].force)
    BY <1>2 DEF TickersArrive
  <2>4. Listing(IF t = <<>> THEN FallbackSymbols ELSE t)  BY ScannerFacts
  <2>5. ScanOK(scState') /\ DOMAIN scPass' = Passes /\ \A q \in Passes : PassOK(scPass'[q])
    BY <2>1, <2>2, <2>3, <2>4, FinishScan DEF PassOK
  <2> QED  BY <1>2, <2>5 DEF ScanInv, TickersArrive
<1>3. ASSUME NEW p \in Passes, TickersFail(p)  PROVE ScanInv'
  BY <1>3, NoPassOK DEF TickersFail, ScanInv
<1>4. CASE ScTick
  <2>1. scNow' \in 0..LastScan  BY <1>4, ScannerFacts DEF ScTick, ScanInv
  <2> QED  BY <1>4, <2>1 DEF ScTick, ScanInv
<1>5. CASE UNCHANGED scVars  BY <1>5 DEF scVars, ScanInv
<1> QED  BY <1>1, <1>2, <1>3, <1>4, <1>5 DEF ScNext

LEMMA ScanTyped == ScanInv => ScTypeOK /\ FixedStayActive
<1>1. ScanInv => ScTypeOK  BY DEF ScanInv, PassOK, ScanOK, ScTypeOK
<1>2. ScanInv => FixedStayActive
  BY DEF ScanInv, ScanOK, ChosenOK, FixedRoom, FixedStayActive
<1> QED  BY <1>1, <1>2

ScSpec == ScInit /\ [][ScNext]_scVars

(* A pass that no other overtook has read what is stored, unless that has    *)
(* expired since; and with a fixed symbol something is active in it.         *)
ReadsInv ==
    /\ \A p \in Passes : scPass[p].at >= 0 /\ ~scPass[p].stale
                            => scPass[p].read = scState \/ scNow >= scState.until
    /\ scState.active # {} \/ scNow >= scState.until

LEMMA ReadsInit == ScInit => ReadsInv
<1> SUFFICES ASSUME ScInit PROVE ReadsInv  OBVIOUS
<1>1. scNow = 0 /\ scState = Unscanned /\ \A p \in Passes : scPass[p] = NoPass  BY DEF ScInit
<1>2. scState.until = 0  BY <1>1 DEF Unscanned
<1>3. \A p \in Passes : ~(scPass[p].at >= 0)  BY <1>1, NoPassOK
<1> QED  BY <1>1, <1>2, <1>3 DEF ReadsInv

(* What a pass stores in a rotation of its own.                              *)
LEMMA FinishLasts ==
    ASSUME Fixed # {}, ScanInv, ReadsInv, NEW p \in Passes, NEW since \in 0..LastScan, NEW read, ScanOK(read),
           NEW c, Listing(c), NEW refreshed \in -RefreshEvery..LastScan, NEW force \in BOOLEAN,
           Finish(p, since, read, c, refreshed, force)
    PROVE  /\ scState'.active # {}
           /\ \A q \in Passes : scPass'[q].at >= 0 => scPass'[q].stale
           /\ ~force /\ read = scState /\ scNow < scState.until /\ scState'.started # scState.started
                => scState'.started >= scState.next
<1>1. /\ \A q \in Passes : scPass'[q].at >= 0 => scPass'[q].stale
      /\ IF RotationDue(read, since, force)
         THEN scState'.active = Active(c) /\ scState'.started = since
         ELSE scState'.active = read.active /\ scState'.started = read.started
  BY FinishScan
<1>2. Active(c) # {}  BY ActiveFits
<1>3. RotationDue(read, since, force) <=> force \/ read.active = {} \/ since >= read.next
  BY DEF RotationDue
<1>4. scState'.active # {}  BY <1>1, <1>2, <1>3
<1>5. ASSUME ~force, read = scState, scNow < scState.until, scState'.started # scState.started
      PROVE  scState'.started >= scState.next
  <2>1. scState.active # {}
    <3>1. scNow \in Int /\ scState.until \in Int  BY DEF ScanInv, ScanOK
    <3> QED  BY <1>5, <3>1 DEF ReadsInv
  <2> QED  BY <1>1, <1>3, <1>5, <2>1
<1> QED  BY <1>1, <1>4, <1>5

(* A pass begins: with what is stored, or with nothing when that expired.    *)
LEMMA BeginReads ==
    ASSUME Fixed # {}, ScanInv, ReadsInv, NEW p \in Passes, NEW force \in BOOLEAN, BeginPass(p, force)
    PROVE  ReadsInv' /\ RotationLasts
<1>0. scNow \in 0..LastScan /\ scNow' = scNow /\ scState.until \in Int  BY DEF BeginPass, ScanInv, ScanOK
<1>1. ScanOK(Read)  BY UnscannedOK DEF ScanInv, Read
<1>2. Read = scState \/ scNow >= scState.until  BY <1>0 DEF Read
<1>3. CASE RefreshDue(Read, force)
  <2>1. PICK d : d = [at |-> scNow, read |-> Read, force |-> force, stale |-> FALSE]  OBVIOUS
  <2>2. scPass' = [scPass EXCEPT ![p] = d] /\ scState' = scState  BY <1>3, <2>1 DEF BeginPass
  <2>3. d.read = Read  BY <2>1
  <2>4. ReadsInv'
    <3>1. \A q \in Passes : q # p => scPass'[q] = scPass[q]  BY <2>2 DEF ScanInv
    <3>2. scPass'[p] = d  BY <2>2 DEF ScanInv
    <3>3. ASSUME NEW q \in Passes, scPass'[q].at >= 0, ~scPass'[q].stale
          PROVE  scPass'[q].read = scState' \/ scNow' >= scState'.until
      <4>1. CASE q = p  BY <1>0, <1>2, <2>2, <2>3, <3>2, <4>1
      <4>2. CASE q # p  BY <1>0, <2>2, <3>1, <3>3, <4>2 DEF ReadsInv
      <4> QED  BY <4>1, <4>2
    <3> QED  BY <1>0, <2>2, <3>3 DEF ReadsInv
  <2>5. RotationLasts  BY <2>2 DEF RotationLasts
  <2> QED  BY <2>4, <2>5
<1>4. CASE ~RefreshDue(Read, force)
  <2>1. Finish(p, scNow, Read, Read.candidates, Read.refreshed, FALSE)  BY <1>4 DEF BeginPass
  <2>2. Listing(Read.candidates) /\ Read.refreshed \in -RefreshEvery..LastScan  BY <1>1 DEF ScanOK
  <2>3. /\ scState'.active # {}
        /\ \A q \in Passes : scPass'[q].at >= 0 => scPass'[q].stale
        /\ Read = scState /\ scNow < scState.until /\ scState'.started # scState.started
                => scState'.started >= scState.next
    BY <1>0, <1>1, <2>1, <2>2, FinishLasts
  <2>4. ReadsInv'  BY <2>3 DEF ReadsInv
  <2>5. RotationLasts  BY <1>0, <1>2, <2>3 DEF RotationLasts
  <2> QED  BY <2>4, <2>5
<1> QED  BY <1>3, <1>4

LEMMA ReadsStep == Fixed # {} /\ ScanInv /\ ReadsInv /\ [ScNext]_scVars => ReadsInv' /\ [RotationLasts]_scVars
<1> SUFFICES ASSUME Fixed # {}, ScanInv, ReadsInv, [ScNext]_scVars PROVE ReadsInv' /\ [RotationLasts]_scVars
  OBVIOUS
<1>0. scNow \in 0..LastScan /\ scState.until \in Int  BY DEF ScanInv, ScanOK
<1>1. ASSUME NEW p \in Passes, TickersArrive(p)  PROVE ReadsInv' /\ RotationLasts
  <2>1. PassOK(scPass[p])  BY DEF ScanInv
  <2>2. scPass[p].at \in 0..LastScan /\ scPass[p].at \in -RefreshEvery..LastScan
    BY <1>1, <2>1, ScannerFacts DEF TickersArrive, PassOK
  <2>3. PICK t \in Tickers :
          Finish(p, scPass[p].at, scPass[p].read, IF t = <<>> THEN FallbackSymbols ELSE t, scPass[p].at, scPass[p].force)
    BY <1>1 DEF TickersArrive
  <2>4. Listing(IF t = <<>> THEN FallbackSymbols ELSE t)  BY ScannerFacts
  <2>5. scPass[p].force \in BOOLEAN /\ ScanOK(scPass[p].read)  BY <2>1 DEF PassOK
  <2>6. /\ scState'.active # {}
        /\ \A q \in Passes : scPass'[q].at >= 0 => scPass'[q].stale
        /\ ~scPass[p].force /\ scPass[p].read = scState /\ scNow < scState.until /\ scState'.started # scState.started
             => scState'.started >= scState.next
    BY <2>2, <2>3, <2>4, <2>5, FinishLasts
  <2>7. scPass'[p].at = -1  BY <2>2, <2>3, <2>4, <2>5, FinishScan
  <2>8. ReadsInv'  BY <2>6 DEF ReadsInv
  <2>9. ASSUME scState'.started # scState.started, scNow < scState.until, ~scPass[p].force, ~scPass[p].stale
        PROVE  scState'.started >= scState.next
    <3>1. scPass[p].read = scState  BY <1>0, <1>1, <2>9 DEF ReadsInv, TickersArrive
    <3> QED  BY <2>6, <2>9, <3>1
  <2>10. RotationLasts
    <3>1. scPass[p].at >= 0 /\ scPass'[p].at < 0  BY <2>2, <2>7
    <3> QED  BY <2>9, <3>1 DEF RotationLasts
  <2> QED  BY <2>8, <2>10
<1>2. ASSUME NEW p \in Passes, TickersFail(p)  PROVE ReadsInv' /\ RotationLasts
  <2>1. scState' = scState /\ scNow' = scNow  BY <1>2 DEF TickersFail
  <2>2. \A q \in Passes : scPass'[q] = scPass[q] \/ scPass'[q] = NoPass  BY <1>2 DEF TickersFail, ScanInv
  <2>3. ~(NoPass.at >= 0)  BY NoPassOK
  <2> QED  BY <2>1, <2>2, <2>3 DEF ReadsInv, RotationLasts
<1>3. CASE ScTick
  <2>1. scState' = scState /\ scPass' = scPass /\ scNow' = scNow + 1  BY <1>3 DEF ScTick
  <2>2. \A x \in Int : scNow >= x => scNow' >= x  BY <1>0, <2>1
  <2> QED  BY <1>0, <2>1, <2>2 DEF ReadsInv, RotationLasts
<1>4. CASE UNCHANGED scVars  BY <1>4 DEF scVars, ReadsInv
<1> QED  BY <1>1, <1>2, <1>3, <1>4, BeginReads DEF ScNext

(* The symbols in use keep the fixed ones among them, and no more than the   *)
(* limits allow, whatever passes overtake one another; and they are changed   *)
(* before their time only by a pass that was forced, or overtaken, or after   *)
(* the state expired (ScannerService.state, _build_rotation_payload).        *)
THEOREM RotationIsKept == ASSUME Fixed # {} PROVE ScSpec => []FixedStayActive /\ [][RotationLasts]_scVars
<1>1. ScInit => ScanInv /\ ReadsInv  BY ScanInit, ReadsInit
<1>2. ScanInv /\ ReadsInv /\ [ScNext]_scVars => ScanInv' /\ ReadsInv' /\ [RotationLasts]_scVars
  BY ScanStep, ReadsStep
<1>3. ScanInv => FixedStayActive  BY ScanTyped
<1> QED  BY <1>1, <1>2, <1>3, PTL DEF ScSpec

-----------------------------------------------------------------------------
(* Market data.                                                             *)

(* What a sequence of different exchanges, kept or joined, is.               *)
Line(s) == s \in Seq(AllExchanges) /\ IsInjective(s)

LEMMA LineFacts ==
    ASSUME NEW s, Line(s)
    PROVE  /\ s \in Seq(AllExchanges) /\ Len(s) \in Nat /\ DOMAIN s = 1..Len(s)
           /\ ToSet(s) = {s[i] : i \in 1..Len(s)} /\ ToSet(s) \subseteq AllExchanges
           /\ \A i, j \in 1..Len(s) : s[i] = s[j] => i = j
BY DEF Line, ToSet, IsInjective

LEMMA ExchangesLine == Line(Exchanges) /\ Exchanges # <<>>
<1>1. Exchanges \in Seq(ToSet(Exchanges)) /\ Exchanges # <<>> /\ IsInjective(Exchanges)
  BY MarketDataAssumption DEF MarketDataAssumption
<1> QED  BY <1>1 DEF Line, AllExchanges

(* The recursion of Keeping, up to a number of exchanges.                    *)
KeepsUpTo(g, s, some, n) ==
    g = [m \in 0..n |-> IF m = 0 THEN <<>> ELSE IF s[m] \in some THEN Append(g[m - 1], s[m]) ELSE g[m - 1]]

LEMMA KeepsExist ==
    ASSUME NEW s, NEW some
    PROVE  \A n \in Nat : \E g : KeepsUpTo(g, s, some, n)
<1> DEFINE S == {n \in Nat : \E g : KeepsUpTo(g, s, some, n)}
<1>1. 0 \in S
  <2> DEFINE g == [m \in 0..0 |-> <<>>]
  <2>1. \A m \in 0..0 : m = 0  OBVIOUS
  <2>2. g = [m \in 0..0 |-> IF m = 0 THEN <<>> ELSE IF s[m] \in some THEN Append(g[m - 1], s[m]) ELSE g[m - 1]]
    BY ONLY <2>1, Zenon
  <2>3. KeepsUpTo(g, s, some, 0)  BY <2>2 DEF KeepsUpTo
  <2> QED  BY <2>3
<1>2. ASSUME NEW n \in Nat, n \in S  PROVE n + 1 \in S
  <2>1. PICK g : KeepsUpTo(g, s, some, n)  BY <1>2
  <2> DEFINE Next1(k, m) == IF m = 0 THEN <<>> ELSE IF s[m] \in some THEN Append(k[m - 1], s[m]) ELSE k[m - 1]
             h == [m \in 0..n + 1 |-> Next1(g, m)]
  <2>2. \A m \in 0..n : g[m] = h[m]
    <3>1. g = [m \in 0..n |-> Next1(g, m)]  BY <2>1 DEF KeepsUpTo
    <3>2. \A m \in 0..n : m \in 0..n + 1  OBVIOUS
    <3> HIDE DEF Next1
    <3> QED  BY <3>1, <3>2
  <2>3. \A m \in 0..n + 1 : Next1(g, m) = Next1(h, m)
    <3> SUFFICES ASSUME NEW m \in 0..n + 1 PROVE Next1(g, m) = Next1(h, m)  OBVIOUS
    <3>1. CASE m = 0  BY <3>1
    <3>2. CASE m # 0
      <4>1. m - 1 \in 0..n  BY <3>2
      <4>2. g[m - 1] = h[m - 1]  BY <2>2, <4>1
      <4> HIDE DEF h
      <4> QED  BY <4>2
    <3> QED  BY <3>1, <3>2
  <2> HIDE DEF Next1
  <2>4. h = [m \in 0..n + 1 |-> Next1(g, m)]  OBVIOUS
  <2> HIDE DEF h
  <2>5. h = [m \in 0..n + 1 |-> Next1(h, m)]  BY ONLY <2>3, <2>4, Zenon
  <2>6. KeepsUpTo(h, s, some, n + 1)  BY <2>5 DEF KeepsUpTo, Next1
  <2> QED  BY <2>6
<1> HIDE DEF S
<1>3. Nat \subseteq S  BY ONLY <1>1, <1>2, Counting
<1> QED  BY <1>3 DEF S

(* Those of some, in their order, and nothing else.                          *)
LEMMA KeptOnes ==
    ASSUME NEW s, Line(s), NEW some
    PROVE  Line(Keeping(s, some)) /\ ToSet(Keeping(s, some)) = ToSet(s) \cap some
<1>1. PICK l \in Nat : l = Len(s)  BY LineFacts
<1> DEFINE kept == CHOOSE g : g = [m \in 0..l |-> IF m = 0 THEN <<>> ELSE IF s[m] \in some THEN Append(g[m - 1], s[m]) ELSE g[m - 1]]
<1>2. Keeping(s, some) = kept[l]  BY <1>1 DEF Keeping
<1>3. kept = [m \in 0..l |-> IF m = 0 THEN <<>> ELSE IF s[m] \in some THEN Append(kept[m - 1], s[m]) ELSE kept[m - 1]]
  <2>1. PICK g : KeepsUpTo(g, s, some, l)  BY KeepsExist
  <2>2. g = [m \in 0..l |-> IF m = 0 THEN <<>> ELSE IF s[m] \in some THEN Append(g[m - 1], s[m]) ELSE g[m - 1]]
    BY <2>1 DEF KeepsUpTo
  <2> QED  BY <2>2, Zenon
<1> HIDE DEF kept
<1> DEFINE Upto(m) == {s[i] : i \in 1..m} \cap some
           S == {m \in Nat : m <= l => Line(kept[m]) /\ ToSet(kept[m]) = Upto(m)}
<1>4. 0 \in S
  <2>1. kept[0] = <<>>  BY <1>3
  <2>2. Line(<<>>) /\ ToSet(<<>>) = {}  BY DEF Line, ToSet, IsInjective
  <2>3. Upto(0) = {}  OBVIOUS
  <2> QED  BY <2>1, <2>2, <2>3
<1>5. ASSUME NEW m \in Nat, m \in S  PROVE m + 1 \in S
  <2> SUFFICES ASSUME m + 1 <= l PROVE Line(kept[m + 1]) /\ ToSet(kept[m + 1]) = Upto(m + 1)  OBVIOUS
  <2>1. PICK k : k = kept[m]  OBVIOUS
  <2>2. Line(k) /\ ToSet(k) = Upto(m)  BY <1>5, <2>1
  <2>3. kept[m + 1] = IF s[m + 1] \in some THEN Append(k, s[m + 1]) ELSE k
    <3>1. m + 1 \in 0..l /\ m + 1 # 0 /\ (m + 1) - 1 = m  OBVIOUS
    <3> QED  BY <1>3, <2>1, <3>1
  <2>4. \A i \in 1..m + 1 : i \in 1..m \/ i = m + 1  OBVIOUS
  <2>5. CASE s[m + 1] \notin some
    <3>1. Upto(m + 1) = Upto(m)  BY <2>4, <2>5
    <3> HIDE DEF Upto
    <3> QED  BY <2>2, <2>3, <2>5, <3>1
  <2>6. CASE s[m + 1] \in some
    <3>1. PICK e : e = s[m + 1]  OBVIOUS
    <3>2. e \in AllExchanges /\ m + 1 \in 1..Len(s)  BY <1>1, <3>1, LineFacts
    <3>3. e \notin ToSet(k)
      <4>1. \A i \in 1..m : s[i] # s[m + 1]  BY <1>1, LineFacts
      <4> QED  BY <2>2, <3>1, <4>1
    <3>4. Upto(m + 1) = Upto(m) \cup {e}  BY <2>4, <2>6, <3>1
    <3>5. Line(Append(k, e)) /\ ToSet(Append(k, e)) = ToSet(k) \cup {e}
      <4> HIDE DEF Upto
      <4>1. Append(k, e) \in Seq(AllExchanges) /\ Len(Append(k, e)) = Len(k) + 1  BY <2>2, <3>2, LineFacts
      <4>2. Len(k) \in Nat /\ \A i \in 1..Len(k) : Append(k, e)[i] = k[i] /\ k[i] \in ToSet(k)
        BY <2>2, <3>2, LineFacts
      <4>3. Append(k, e)[Len(k) + 1] = e  BY <2>2, <3>2, LineFacts
      <4>4. \A i \in 1..Len(k) + 1 : i \in 1..Len(k) \/ i = Len(k) + 1  BY <4>2
      <4>5. DOMAIN Append(k, e) = 1..Len(k) + 1  BY <4>1
      <4>6. IsInjective(Append(k, e))
        <5> SUFFICES ASSUME NEW i \in 1..Len(k) + 1, NEW j \in 1..Len(k) + 1, Append(k, e)[i] = Append(k, e)[j]
                     PROVE i = j
          BY <4>5 DEF IsInjective
        <5> QED  BY <2>2, <3>3, <4>2, <4>3, <4>4, LineFacts
      <4>7. ToSet(Append(k, e)) = {Append(k, e)[i] : i \in 1..Len(k) + 1}  BY <4>5 DEF ToSet
      <4>8. ToSet(k) = {k[i] : i \in 1..Len(k)}  BY <2>2, LineFacts
      <4>9. Len(k) + 1 \in 1..Len(k) + 1 /\ \A i \in 1..Len(k) : i \in 1..Len(k) + 1  BY <4>2
      <4>10. \A x : x \in ToSet(Append(k, e)) <=> x \in ToSet(k) \/ x = e
        BY <4>2, <4>3, <4>4, <4>7, <4>8, <4>9
      <4> QED  BY <4>1, <4>6, <4>10 DEF Line
    <3> HIDE DEF Upto
    <3> QED  BY <2>2, <2>3, <2>6, <3>1, <3>4, <3>5
  <2> QED  BY <2>5, <2>6
<1> HIDE DEF S
<1>6. Nat \subseteq S  BY ONLY <1>4, <1>5, Counting
<1>7. Line(kept[l]) /\ ToSet(kept[l]) = Upto(l)  BY <1>6 DEF S
<1>8. ToSet(s) = {s[i] : i \in 1..l}  BY <1>1, LineFacts
<1> QED  BY <1>2, <1>7, <1>8

FetchOK(d) ==
    /\ d \in [todo : Seq(AllExchanges), old : {"gone", "stale"}, doubt : SUBSET AllExchanges]
    /\ d.doubt \subseteq ToSet(d.todo)
    /\ d # Idle => d.todo # <<>>

MarketInv ==
    /\ mkMode \in {"exchange", "simulated"} /\ Line(mkClients)
    /\ mkDue \subseteq AllExchanges /\ mkUp \subseteq AllExchanges
    /\ mkFrame \in {"fresh", "stale", "gone"} /\ mkAnswer \in {"fresh", "last_valid_cache"}
    /\ DOMAIN mkFetch = Fetches /\ \A f \in Fetches : FetchOK(mkFetch[f])

LEMMA EmptyLine == Line(<<>>) /\ ToSet(<<>>) = {}
BY DEF Line, ToSet, IsInjective

LEMMA IdleOK == FetchOK(Idle)
<1>1. Idle \in [todo : Seq(AllExchanges), old : {"gone", "stale"}, doubt : SUBSET AllExchanges]  BY DEF Idle
<1>2. Idle.doubt = {}  BY DEF Idle
<1> QED  BY <1>1, <1>2 DEF FetchOK

LEMMA MarketInit == MkInit => MarketInv
<1> SUFFICES ASSUME MkInit PROVE MarketInv  OBVIOUS
<1>1. mkMode \in {"exchange", "simulated"} /\ Line(mkClients)  BY EmptyLine, ExchangesLine DEF MkInit
<1>2. mkDue \subseteq AllExchanges /\ mkUp \subseteq AllExchanges /\ mkFrame = "gone" /\ mkAnswer = "fresh"
  BY DEF MkInit
<1>3. DOMAIN mkFetch = Fetches /\ \A f \in Fetches : mkFetch[f] = Idle  BY DEF MkInit
<1> QED  BY <1>1, <1>2, <1>3, IdleOK DEF MarketInv

(* The clients with those made anew: each exchange once.                     *)
LEMMA EnsuredLine == ASSUME MarketInv PROVE Line(Ensured)
<1>1. PICK k, m : k = mkClients /\ m = Keeping(Exchanges, Tried \cap mkUp)  OBVIOUS
<1>2. Line(k) /\ Line(m) /\ ToSet(m) = ToSet(Exchanges) \cap (Tried \cap mkUp)
  BY <1>1, ExchangesLine, KeptOnes DEF MarketInv
<1>3. ToSet(k) \cap ToSet(m) = {}  BY <1>1, <1>2 DEF Tried
<1>4. Ensured = k \o m  BY <1>1 DEF Ensured
<1>5. /\ k \o m \in Seq(AllExchanges) /\ Len(k \o m) = Len(k) + Len(m) /\ DOMAIN (k \o m) = 1..Len(k) + Len(m)
      /\ \A i \in 1..Len(k) : (k \o m)[i] = k[i]
      /\ \A i \in Len(k) + 1..Len(k) + Len(m) : (k \o m)[i] = m[i - Len(k)]
  BY <1>2, LineFacts
<1>6. Len(k) \in Nat /\ Len(m) \in Nat  BY <1>2, LineFacts
<1>7. \A i \in 1..Len(k) + Len(m) : \/ i \in 1..Len(k) /\ k[i] \in ToSet(k)
                                    \/ i \in Len(k) + 1..Len(k) + Len(m) /\ i - Len(k) \in 1..Len(m) /\ m[i - Len(k)] \in ToSet(m)
  <2> SUFFICES ASSUME NEW i \in 1..Len(k) + Len(m)
               PROVE  \/ i \in 1..Len(k) /\ k[i] \in ToSet(k)
                      \/ i \in Len(k) + 1..Len(k) + Len(m) /\ i - Len(k) \in 1..Len(m) /\ m[i - Len(k)] \in ToSet(m)
    OBVIOUS
  <2>1. CASE i <= Len(k)  BY <1>2, <1>6, <2>1, LineFacts
  <2>2. CASE ~(i <= Len(k))
    <3>1. i \in Len(k) + 1..Len(k) + Len(m) /\ i - Len(k) \in 1..Len(m)  BY <1>6, <2>2
    <3> QED  BY <1>2, <3>1, LineFacts
  <2> QED  BY <2>1, <2>2
<1>8. ASSUME NEW i \in 1..Len(k) + Len(m), NEW j \in 1..Len(k) + Len(m), (k \o m)[i] = (k \o m)[j]
      PROVE  i = j
  <2>1. CASE i \in 1..Len(k) /\ j \in 1..Len(k)  BY <1>2, <1>5, <1>8, <2>1, LineFacts
  <2>2. CASE i \notin 1..Len(k) /\ j \notin 1..Len(k)
    <3>1. i - Len(k) \in 1..Len(m) /\ j - Len(k) \in 1..Len(m) /\ m[i - Len(k)] = m[j - Len(k)]
      BY <1>5, <1>7, <1>8, <2>2
    <3>2. i - Len(k) = j - Len(k)  BY <1>2, <3>1, LineFacts
    <3> QED  BY <1>6, <3>2
  <2>3. CASE i \in 1..Len(k) /\ j \notin 1..Len(k)  BY <1>3, <1>5, <1>7, <1>8, <2>3
  <2>4. CASE i \notin 1..Len(k) /\ j \in 1..Len(k)  BY <1>3, <1>5, <1>7, <1>8, <2>4
  <2> QED  BY <2>1, <2>2, <2>3, <2>4
<1> QED  BY <1>4, <1>5, <1>8 DEF Line, IsInjective

LEMMA BeginsOK ==
    ASSUME MarketInv, NEW f \in Fetches, NEW old \in {"gone", "stale"}, Ensured # <<>>, Begins(f, old)
    PROVE  DOMAIN mkFetch' = Fetches /\ \A g \in Fetches : FetchOK(mkFetch'[g])
<1>1. PICK d : d = [todo |-> Ensured, old |-> old, doubt |-> ToSet(Ensured) \ mkUp]  OBVIOUS
<1>2. Ensured \in Seq(AllExchanges) /\ ToSet(Ensured) \subseteq AllExchanges  BY EnsuredLine, LineFacts
<1>3. d.todo = Ensured /\ d.doubt = ToSet(Ensured) \ mkUp  BY <1>1
<1>4. d \in [todo : Seq(AllExchanges), old : {"gone", "stale"}, doubt : SUBSET AllExchanges]  BY <1>1, <1>2
<1>5. FetchOK(d)  BY <1>3, <1>4 DEF FetchOK
<1>6. mkFetch' = [mkFetch EXCEPT ![f] = d]  BY <1>1 DEF Begins
<1> QED  BY <1>5, <1>6 DEF MarketInv

LEMMA FrameArrivesOK ==
    ASSUME MarketInv, NEW got, NEW old, FrameArrives(got, old)
    PROVE  mkFrame' \in {"fresh", "stale", "gone"} /\ mkAnswer' \in {"fresh", "last_valid_cache"}
BY DEF FrameArrives, MarketInv

LEMMA FallbackOK ==
    ASSUME MarketInv, PriceFallback
    PROVE  mkAnswer' \in {"fresh", "last_valid_cache"}
BY DEF PriceFallback, MarketInv

LEMMA PriceStep == ASSUME MarketInv, NEW f \in Fetches, FetchPrice(f) PROVE MarketInv'
<1>1. Line(mkClients') /\ mkDue' \subseteq AllExchanges  BY EnsuredLine DEF FetchPrice, MarketInv
<1>2. mkMode' = mkMode /\ mkUp' = mkUp /\ mkFrame' = mkFrame  BY DEF FetchPrice
<1>3. \/ mkAnswer' = "fresh" /\ UNCHANGED mkFetch
      \/ Ensured # <<>> /\ Begins(f, "gone") /\ UNCHANGED mkAnswer
      \/ Ensured = <<>> /\ PriceFallback /\ UNCHANGED mkFetch
  BY DEF FetchPrice
<1>4. CASE mkAnswer' = "fresh" /\ UNCHANGED mkFetch  BY <1>1, <1>2, <1>4 DEF MarketInv
<1>5. CASE Ensured # <<>> /\ Begins(f, "gone") /\ UNCHANGED mkAnswer
  BY <1>1, <1>2, <1>5, BeginsOK DEF MarketInv
<1>6. CASE Ensured = <<>> /\ PriceFallback /\ UNCHANGED mkFetch
  BY <1>1, <1>2, <1>6, FallbackOK DEF MarketInv
<1> QED  BY <1>3, <1>4, <1>5, <1>6

LEMMA FrameStep == ASSUME MarketInv, NEW f \in Fetches, FetchFrame(f) PROVE MarketInv'
<1>1. PICK old \in {"gone", "stale"} : old = IF mkFrame = "stale" THEN "stale" ELSE "gone"  OBVIOUS
<1>2. Line(mkClients') /\ mkDue' \subseteq AllExchanges  BY EnsuredLine DEF FetchFrame, MarketInv
<1>3. mkMode' = mkMode /\ mkUp' = mkUp  BY DEF FetchFrame
<1>4. \/ CacheServes /\ mkAnswer' = mkFrame /\ UNCHANGED <<mkFetch, mkFrame>>
      \/ ~CacheServes /\ Ensured = <<>> /\ FrameArrives("gone", old) /\ UNCHANGED mkFetch
      \/ ~CacheServes /\ Ensured # <<>> /\ Begins(f, old) /\ UNCHANGED <<mkAnswer, mkFrame>>
  BY <1>1 DEF FetchFrame
<1>5. CASE CacheServes /\ mkAnswer' = mkFrame /\ UNCHANGED <<mkFetch, mkFrame>>
  BY <1>2, <1>3, <1>5 DEF CacheServes, MarketInv
<1>6. CASE Ensured = <<>> /\ FrameArrives("gone", old) /\ UNCHANGED mkFetch
  BY <1>2, <1>3, <1>6, FrameArrivesOK DEF MarketInv
<1>7. CASE Ensured # <<>> /\ Begins(f, old) /\ UNCHANGED <<mkAnswer, mkFrame>>
  BY <1>2, <1>3, <1>7, BeginsOK DEF MarketInv
<1> QED  BY <1>4, <1>5, <1>6, <1>7

LEMMA AnswersMarket == ASSUME MarketInv, NEW f \in Fetches, ExchangeAnswers(f) PROVE MarketInv'
<1>1. /\ mkMode' = mkMode /\ mkClients' = mkClients /\ mkDue' = mkDue /\ mkUp' = mkUp
      /\ mkFetch' = [mkFetch EXCEPT ![f] = Idle]
  BY DEF ExchangeAnswers
<1>2. \/ mkAnswer' = "fresh" /\ UNCHANGED mkFrame
      \/ \E got \in Ages : FrameArrives(got, mkFetch[f].old)
  BY DEF ExchangeAnswers
<1>3. mkFrame' \in {"fresh", "stale", "gone"} /\ mkAnswer' \in {"fresh", "last_valid_cache"}
  BY <1>2, FrameArrivesOK DEF MarketInv
<1> QED  BY <1>1, <1>3, IdleOK DEF MarketInv

LEMMA RaiseStep == ASSUME MarketInv, NEW f \in Fetches, ExchangeRaises(f) PROVE MarketInv'
<1>1. PICK d, e : d = mkFetch[f] /\ e = Head(d.todo)  OBVIOUS
<1>2. FetchOK(d) /\ d # Idle  BY <1>1 DEF MarketInv, ExchangeRaises
<1>3. mkMode' = mkMode /\ mkUp' = mkUp /\ mkClients' = Dropped(mkClients, e) /\ mkDue' = mkDue \ {e}
  BY <1>1 DEF ExchangeRaises
<1>4. Line(mkClients') /\ mkDue' \subseteq AllExchanges  BY <1>3, KeptOnes DEF MarketInv, Dropped
<1>5. CASE Len(d.todo) > 1
  <2>1. /\ mkFetch' = [mkFetch EXCEPT ![f].todo = Tail(@), ![f].doubt = @ \ {e}]
        /\ mkAnswer' = mkAnswer /\ mkFrame' = mkFrame
    BY <1>1, <1>5 DEF ExchangeRaises
  <2>2. PICK t, o, b : t = d.todo /\ o = d.old /\ b = d.doubt  OBVIOUS
  <2>3. d = [todo |-> t, old |-> o, doubt |-> b]  BY <1>2, <2>2 DEF FetchOK
  <2>4. mkFetch'[f] = [todo |-> Tail(t), old |-> o, doubt |-> b \ {e}]
    <3>1. mkFetch'[f] = [d EXCEPT !.todo = Tail(@), !.doubt = @ \ {e}]  BY <1>1, <2>1 DEF MarketInv
    <3> QED  BY <2>3, <3>1
  <2>5. /\ t \in Seq(AllExchanges) /\ o \in {"gone", "stale"} /\ b \subseteq AllExchanges /\ b \subseteq ToSet(t)
        /\ Len(t) > 1 /\ e = Head(t)
    BY <1>1, <1>2, <1>5, <2>2 DEF FetchOK
  <2>6. Tail(t) \in Seq(AllExchanges) /\ Tail(t) # <<>>  BY <2>5
  <2>7. b \ {e} \subseteq ToSet(Tail(t))
    <3> SUFFICES ASSUME NEW x \in b, x # e PROVE x \in ToSet(Tail(t))  OBVIOUS
    <3>1. PICK i \in 1..Len(t) : t[i] = x  BY <2>5 DEF ToSet
    <3>2. t[1] = e /\ i # 1  BY <2>5, <3>1
    <3>3. i - 1 \in 1..Len(Tail(t)) /\ Tail(t)[i - 1] = x /\ DOMAIN Tail(t) = 1..Len(Tail(t))  BY <2>5, <3>1, <3>2
    <3> QED  BY <3>3 DEF ToSet
  <2>8. FetchOK(mkFetch'[f])
    <3>1. PICK c : c = [todo |-> Tail(t), old |-> o, doubt |-> b \ {e}]  OBVIOUS
    <3>2. c \in [todo : Seq(AllExchanges), old : {"gone", "stale"}, doubt : SUBSET AllExchanges]
      BY <2>5, <2>6, <3>1
    <3>3. c.todo = Tail(t) /\ c.doubt = b \ {e}  BY <3>1
    <3>4. FetchOK(c)  BY <2>6, <2>7, <3>2, <3>3 DEF FetchOK
    <3> QED  BY <2>4, <3>1, <3>4
  <2>9. DOMAIN mkFetch' = Fetches /\ \A g \in Fetches : g # f => mkFetch'[g] = mkFetch[g]  BY <2>1 DEF MarketInv
  <2> QED  BY <1>3, <1>4, <2>1, <2>8, <2>9 DEF MarketInv
<1>6. CASE ~(Len(d.todo) > 1)
  <2>1. /\ mkFetch' = [mkFetch EXCEPT ![f] = Idle]
        /\ \/ FrameArrives("gone", d.old)
           \/ PriceFallback /\ UNCHANGED mkFrame
    BY <1>1, <1>6 DEF ExchangeRaises
  <2>2. mkFrame' \in {"fresh", "stale", "gone"} /\ mkAnswer' \in {"fresh", "last_valid_cache"}
    BY <2>1, FrameArrivesOK, FallbackOK DEF MarketInv
  <2> QED  BY <1>3, <1>4, <2>1, <2>2, IdleOK DEF MarketInv
<1> QED  BY <1>5, <1>6

LEMMA DownStep == ASSUME MarketInv, NEW e \in AllExchanges, GoesDown(e) PROVE MarketInv'
<1>1. /\ mkMode' = mkMode /\ mkClients' = mkClients /\ mkDue' = mkDue /\ mkUp' = mkUp \ {e}
      /\ mkFrame' = mkFrame /\ mkAnswer' = mkAnswer
  BY DEF GoesDown
<1>2. DOMAIN mkFetch' = Fetches  BY DEF GoesDown
<1>3. ASSUME NEW f \in Fetches  PROVE FetchOK(mkFetch'[f])
  <2>1. PICK d : d = mkFetch[f]  OBVIOUS
  <2>2. FetchOK(d)  BY <2>1 DEF MarketInv
  <2>3. mkFetch'[f] = IF e \in ToSet(d.todo) THEN [d EXCEPT !.doubt = @ \cup {e}] ELSE d
    BY <2>1 DEF GoesDown
  <2>4. CASE e \in ToSet(d.todo)
    <3>1. PICK t, o, b : t = d.todo /\ o = d.old /\ b = d.doubt  OBVIOUS
    <3>2. d = [todo |-> t, old |-> o, doubt |-> b]  BY <2>2, <3>1 DEF FetchOK
    <3>3. PICK c : c = [todo |-> t, old |-> o, doubt |-> b \cup {e}]  OBVIOUS
    <3>4. mkFetch'[f] = c  BY <2>3, <2>4, <3>2, <3>3
    <3>5. t \in Seq(AllExchanges) /\ o \in {"gone", "stale"} /\ b \subseteq AllExchanges /\ b \subseteq ToSet(t)
      BY <2>2, <3>1 DEF FetchOK
    <3>6. c \in [todo : Seq(AllExchanges), old : {"gone", "stale"}, doubt : SUBSET AllExchanges]
      BY <3>3, <3>5
    <3>7. c.todo = t /\ c.doubt = b \cup {e}  BY <3>3
    <3>8. t # <<>>  BY <2>4, <3>1, EmptyLine
    <3>9. FetchOK(c)  BY <2>4, <3>1, <3>5, <3>6, <3>7, <3>8 DEF FetchOK
    <3> QED  BY <3>4, <3>9
  <2>5. CASE e \notin ToSet(d.todo)  BY <2>2, <2>3, <2>5
  <2> QED  BY <2>4, <2>5
<1> QED  BY <1>1, <1>2, <1>3 DEF MarketInv

LEMMA MarketStep == MarketInv /\ [MkNext]_mkVars => MarketInv'
<1> SUFFICES ASSUME MarketInv, [MkNext]_mkVars PROVE MarketInv'  OBVIOUS
<1>1. CASE InjectMove \/ FrameAges \/ FrameExpires
  BY <1>1 DEF InjectMove, FrameAges, FrameExpires, MarketInv
<1>2. ASSUME NEW e \in AllExchanges, RetryTimePasses(e) \/ ComesUp(e)  PROVE MarketInv'
  BY <1>2 DEF RetryTimePasses, ComesUp, MarketInv
<1>3. CASE UNCHANGED mkVars  BY <1>3 DEF mkVars, MarketInv
<1> QED  BY <1>1, <1>2, <1>3, PriceStep, FrameStep, AnswersMarket, RaiseStep, DownStep DEF MkNext, Step

LEMMA MarketTyped == MarketInv => MkTypeOK /\ OldDataIsMarked
<1> SUFFICES ASSUME MarketInv PROVE MkTypeOK /\ OldDataIsMarked  OBVIOUS
<1>1. IsInjective(mkClients) /\ ToSet(mkClients) \subseteq AllExchanges  BY LineFacts DEF MarketInv, Line
<1>2. ASSUME NEW f \in Fetches
      PROVE  /\ ToSet(mkFetch[f].todo) \subseteq AllExchanges /\ mkFetch[f].doubt \subseteq ToSet(mkFetch[f].todo)
             /\ mkFetch[f].old \in {"gone", "stale"}
  <2>1. FetchOK(mkFetch[f])  BY DEF MarketInv
  <2>2. mkFetch[f].todo \in Seq(AllExchanges)  BY <2>1 DEF FetchOK
  <2>3. ToSet(mkFetch[f].todo) \subseteq AllExchanges  BY <2>2 DEF ToSet
  <2> QED  BY <2>1, <2>3 DEF FetchOK
<1> QED  BY <1>1, <1>2 DEF MarketInv, MkTypeOK, Ages, OldDataIsMarked

MkSpec == MkInit /\ [][MkNext]_mkVars

(* Whatever exchanges fail and come back, and whatever fetches run at once:  *)
(* stale data are only ever handed on as the last valid ones                 *)
(* (MarketDataService).                                                      *)
THEOREM OldDataMarked == MkSpec => []OldDataIsMarked
<1>1. MarketInv => OldDataIsMarked  BY MarketTyped
<1> QED  BY <1>1, MarketInit, MarketStep, PTL DEF MkSpec

-----------------------------------------------------------------------------
(* Live signals.                                                            *)

LvSpec == LvInit /\ [][LvNext]_lvVars

Statuses == {"none", "started", "failed", "accepted", "almost", "skipped"}
Places   == {"none", "evaluation", "events", "stand-in"}
Finding  == [symbol : LvSymbols, kind : {"accepted", "degraded"}, score : Nat]

(* A request: nothing of a scan, or symbols left and what was found in the   *)
(* others.                                                                   *)
AskOK(d) ==
    /\ d \in [at : Places, kept : {d.kept}, left : Seq(LvSymbols), found : Seq(Finding), now : Outcomes \cup {None}]
    /\ Len(d.found) + Len(d.left) <= Len(Ranked)
    /\ d.at = "none" => d = NoAsk
    /\ d.at # "none" => d.left # <<>>
    /\ d.at = "events" => d.now \in Outcomes
    /\ \A x \in d.kept : x.by = "store"

LiveInv ==
    /\ DOMAIN lvStored = LvSymbols /\ \A s \in LvSymbols : lvStored[s] \in Outcomes \cup {None}
    /\ lvBoard \in [LvSymbols -> Statuses]
    /\ DOMAIN lvAsk = Viewers /\ \A v \in Viewers : AskOK(lvAsk[v])
    /\ lvAsks \in 0..MaxAsks /\ lvCut \in BOOLEAN

LEMMA LiveFacts ==
    /\ Target \in Nat /\ Target > 0 /\ MaxAsks \in Nat /\ Ranked \in Seq(LvSymbols) /\ Ranked # <<>> /\ Len(Ranked) > 0
    /\ Len(Ranked) \in Nat /\ Ranked[1] \in LvSymbols /\ Ranked[1] = Head(Ranked)
    /\ \A o \in Outcomes : o.kind \in {"accepted", "almost", "skipped"} /\ o.score \in Nat
<1>1. Ranked \in Seq(LvSymbols) /\ Ranked # <<>>  BY LiveSignalsAssumption DEF LiveSignalsAssumption
<1>2. Len(Ranked) \in Nat /\ Len(Ranked) > 0 /\ Ranked[1] \in LvSymbols /\ Ranked[1] = Head(Ranked)  BY <1>1
<1> QED  BY <1>1, <1>2, LiveSignalsAssumption DEF LiveSignalsAssumption

LEMMA NoAskOK == AskOK(NoAsk) /\ NoAsk.at = "none"
<1>1. /\ NoAsk.at = "none" /\ NoAsk.kept = {} /\ NoAsk.left = <<>> /\ NoAsk.found = <<>> /\ NoAsk.now = None
      /\ NoAsk = [at |-> "none", kept |-> {}, left |-> <<>>, found |-> <<>>, now |-> None]
  BY DEF NoAsk
<1>2. Len(<<>>) + Len(<<>>) <= Len(Ranked)  BY LiveFacts
<1> QED  BY <1>1, <1>2 DEF AskOK, Places

(* What a request has, as a record.                                          *)
LEMMA AskFields ==
    ASSUME NEW d, AskOK(d)
    PROVE  /\ d = [at |-> d.at, kept |-> d.kept, left |-> d.left, found |-> d.found, now |-> d.now]
           /\ d.left \in Seq(LvSymbols) /\ d.found \in Seq(Finding) /\ d.now \in Outcomes \cup {None}
           /\ Len(d.left) \in Nat /\ Len(d.found) \in Nat
           /\ d.at # "none" => /\ Head(d.left) \in LvSymbols /\ Tail(d.left) \in Seq(LvSymbols)
                               /\ Len(Tail(d.left)) = Len(d.left) - 1
<1>1. d \in [at : Places, kept : {d.kept}, left : Seq(LvSymbols), found : Seq(Finding), now : Outcomes \cup {None}]
  BY DEF AskOK
<1>2. d.left \in Seq(LvSymbols) /\ d.found \in Seq(Finding) /\ d.now \in Outcomes \cup {None}  BY <1>1
<1>3. d.at # "none" => d.left # <<>>  BY DEF AskOK
<1> QED  BY <1>1, <1>2, <1>3

LEMMA LiveInit == LvInit => LiveInv
<1> SUFFICES ASSUME LvInit PROVE LiveInv  OBVIOUS
<1>1. DOMAIN lvAsk = Viewers /\ \A v \in Viewers : lvAsk[v] = NoAsk  BY DEF LvInit
<1>2. lvBoard \in [LvSymbols -> Statuses]  BY DEF LvInit, Statuses
<1>3. DOMAIN lvStored = LvSymbols /\ \A s \in LvSymbols : lvStored[s] = None  BY DEF LvInit
<1>4. lvAsks \in 0..MaxAsks  BY LiveFacts DEF LvInit
<1>5. lvCut \in BOOLEAN  BY DEF LvInit
<1> QED  BY <1>1, <1>2, <1>3, <1>4, <1>5, NoAskOK DEF LiveInv

LEMMA AnswerAskOK ==
    ASSUME LiveInv, NEW v \in Viewers, NEW items, NEW whole, NEW found, AnswerAsk(v, items, whole, found)
    PROVE  /\ DOMAIN lvAsk' = Viewers /\ \A w \in Viewers : AskOK(lvAsk'[w])
           /\ lvAsk'[v] = NoAsk /\ \A w \in Viewers : w # v => lvAsk'[w] = lvAsk[w]
BY NoAskOK DEF AnswerAsk, LiveInv

LEMMA OnBoardOK ==
    ASSUME NEW board \in [LvSymbols -> Statuses], NEW s \in LvSymbols, NEW new \in Statuses
    PROVE  OnBoard(board, s, new) \in [LvSymbols -> Statuses]
BY DEF OnBoard

(* A scan that goes on, or ends.                                             *)
LEMMA ProceedOK ==
    ASSUME LiveInv, NEW v \in Viewers, NEW left \in Seq(LvSymbols), NEW found \in Seq(Finding),
           Len(found) + Len(left) <= Len(Ranked), lvAsk[v].at # "none",
           NEW board \in [LvSymbols -> Statuses], Proceed(v, left, found, board)
    PROVE  /\ lvBoard' \in [LvSymbols -> Statuses]
           /\ DOMAIN lvAsk' = Viewers /\ \A w \in Viewers : AskOK(lvAsk'[w])
           /\ \A w \in Viewers : w # v => lvAsk'[w] = lvAsk[w]
           /\ IF left = <<>> THEN lvBoard' = board /\ lvAsk'[v] = NoAsk
              ELSE /\ lvBoard' = OnBoard(board, Head(left), "started")
                   /\ lvAsk'[v].at = "evaluation" /\ lvAsk'[v].left = left /\ lvAsk'[v].found = found
                   /\ lvAsk'[v].kept = lvAsk[v].kept
<1>1. CASE left = <<>>
  <2>1. lvBoard' = board /\ AnswerAsk(v, lvAsk[v].kept \cup Listed(found, Best(found)), TRUE, found)
    BY <1>1 DEF Proceed
  <2> QED  BY <1>1, <2>1, AnswerAskOK
<1>2. CASE left # <<>>
  <2>1. /\ lvBoard' = OnBoard(board, Head(left), "started")
        /\ lvAsk' = [lvAsk EXCEPT ![v].at = "evaluation", ![v].left = left, ![v].found = found, ![v].now = None]
    BY <1>2 DEF Proceed
  <2>2. lvBoard' \in [LvSymbols -> Statuses]
    <3>1. Head(left) \in LvSymbols /\ "started" \in Statuses  BY <1>2 DEF Statuses
    <3> QED  BY <2>1, <3>1, OnBoardOK
  <2>3. PICK k : k = lvAsk[v].kept  OBVIOUS
  <2>4. AskOK(lvAsk[v])  BY DEF LiveInv
  <2>5. PICK e : e = [at |-> "evaluation", kept |-> k, left |-> left, found |-> found, now |-> None]  OBVIOUS
  <2>6. lvAsk'[v] = e
    <3>1. PICK d : d = lvAsk[v]  OBVIOUS
    <3>2. d = [at |-> d.at, kept |-> k, left |-> d.left, found |-> d.found, now |-> d.now]
      BY <2>3, <2>4, <3>1, AskFields
    <3>3. PICK a, l, f, n : d = [at |-> a, kept |-> k, left |-> l, found |-> f, now |-> n]  BY <3>2
    <3>4. lvAsk'[v] = [d EXCEPT !.at = "evaluation", !.left = left, !.found = found, !.now = None]
      BY <2>1, <3>1 DEF LiveInv
    <3> QED  BY <2>5, <3>3, <3>4
  <2>7. e.at = "evaluation" /\ e.left = left /\ e.found = found /\ e.kept = k /\ e.now = None  BY <2>5
  <2>8. e \in [at : Places, kept : {k}, left : Seq(LvSymbols), found : Seq(Finding), now : Outcomes \cup {None}]
    BY <2>5 DEF Places
  <2>9. AskOK(e)  BY <1>2, <2>3, <2>4, <2>7, <2>8 DEF AskOK
  <2>10. DOMAIN lvAsk' = Viewers /\ \A w \in Viewers : w # v => lvAsk'[w] = lvAsk[w]  BY <2>1 DEF LiveInv
  <2>11. \A w \in Viewers : AskOK(lvAsk'[w])  BY <2>6, <2>9, <2>10 DEF LiveInv
  <2> QED  BY <1>2, <2>1, <2>2, <2>3, <2>6, <2>7, <2>10, <2>11
<1> QED  BY <1>1, <1>2

LEMMA FoundMore ==
    ASSUME NEW f \in Seq(Finding), NEW s \in LvSymbols, NEW k \in {"accepted", "degraded"}, NEW n \in Nat
    PROVE  /\ Append(f, [symbol |-> s, kind |-> k, score |-> n]) \in Seq(Finding)
           /\ Len(Append(f, [symbol |-> s, kind |-> k, score |-> n])) = Len(f) + 1
<1>1. [symbol |-> s, kind |-> k, score |-> n] \in Finding  BY DEF Finding
<1> QED  BY <1>1

(* The two ways to go on.                                                    *)
LEMMA SentOK ==
    ASSUME LiveInv, NEW v \in Viewers, EventsSent(v)
    PROVE  \E left \in Seq(LvSymbols), found \in Seq(Finding), board \in [LvSymbols -> Statuses] :
              /\ Proceed(v, left, found, board) /\ lvAsk[v].at # "none" /\ left = Tail(lvAsk[v].left)
              /\ Len(found) + Len(left) <= Len(Ranked)
              /\ \/ found = lvAsk[v].found
                 \/ \E k \in {"accepted", "degraded"}, n \in Nat :
                       found = Append(lvAsk[v].found, [symbol |-> Head(lvAsk[v].left), kind |-> k, score |-> n])
              /\ board[Head(lvAsk[v].left)] # "started"
              /\ \A s \in LvSymbols : s # Head(lvAsk[v].left) => board[s] = lvBoard[s]
<1>1. PICK d, s : d = lvAsk[v] /\ s = Head(d.left)  OBVIOUS
<1>2. AskOK(d)  BY <1>1 DEF LiveInv
<1>3. d.at = "events"  BY <1>1 DEF EventsSent, EventsEnd
<1>4. /\ s \in LvSymbols /\ Tail(d.left) \in Seq(LvSymbols) /\ Len(Tail(d.left)) = Len(d.left) - 1
      /\ Len(d.left) \in Nat /\ Len(d.found) \in Nat /\ d.found \in Seq(Finding)
  BY <1>1, <1>2, <1>3, AskFields
<1>5. d.now \in Outcomes /\ d.now.kind \in {"accepted", "almost", "skipped"} /\ d.now.score \in Nat
  BY <1>2, <1>3, LiveFacts DEF AskOK
<1>6. PICK found : found = IF d.now.kind # "accepted" THEN d.found
                           ELSE Append(d.found, [symbol |-> s, kind |-> "accepted", score |-> d.now.score])
  OBVIOUS
<1>7. found \in Seq(Finding) /\ (Len(found) = Len(d.found) \/ Len(found) = Len(d.found) + 1)
  BY <1>4, <1>5, <1>6, FoundMore
<1>8. Len(d.found) + Len(d.left) <= Len(Ranked)  BY <1>2 DEF AskOK
<1>9. Len(found) + Len(Tail(d.left)) <= Len(Ranked)
  <2>1. Len(Ranked) \in Nat  BY LiveFacts
  <2>2. Len(d.left) \in Nat /\ Len(d.found) \in Nat /\ Len(Tail(d.left)) = Len(d.left) - 1  BY <1>4
  <2>3. PICK a, b, c, e, r :
          a = Len(found) /\ b = Len(Tail(d.left)) /\ c = Len(d.left) /\ e = Len(d.found) /\ r = Len(Ranked)
    OBVIOUS
  <2>4. e + c <= r  BY ONLY <1>8, <2>3, Zenon
  <2>5. r \in Nat /\ c \in Nat /\ e \in Nat /\ b = c - 1  BY ONLY <2>1, <2>2, <2>3, Zenon
  <2>6. a = e \/ a = e + 1  BY ONLY <1>7, <2>3, Zenon
  <2>7. a + b <= r  BY ONLY <2>4, <2>5, <2>6
  <2> QED  BY ONLY <2>3, <2>7, Zenon
<1>10. PICK board : board = OnBoard(lvBoard, s, d.now.kind)  OBVIOUS
<1>11. board \in [LvSymbols -> Statuses] /\ board[s] # "started" /\ \A x \in LvSymbols : x # s => board[x] = lvBoard[x]
  <2>1. board = [lvBoard EXCEPT ![s] = d.now.kind]  BY <1>10 DEF OnBoard
  <2>2. d.now.kind \in Statuses /\ d.now.kind # "started"  BY <1>5 DEF Statuses
  <2>3. lvBoard \in [LvSymbols -> Statuses]  BY DEF LiveInv
  <2> QED  BY <1>4, <2>1, <2>2, <2>3
<1>12. Proceed(v, Tail(d.left), found, board)  BY <1>1, <1>6, <1>10 DEF EventsSent
<1>13. \/ found = d.found
       \/ \E k \in {"accepted", "degraded"}, n \in Nat : found = Append(d.found, [symbol |-> s, kind |-> k, score |-> n])
  BY <1>5, <1>6
<1> QED  BY <1>1, <1>3, <1>4, <1>7, <1>9, <1>11, <1>12, <1>13

LEMMA StandInOK ==
    ASSUME LiveInv, NEW v \in Viewers, StandIn(v)
    PROVE  \E left \in Seq(LvSymbols), found \in Seq(Finding) :
              /\ Proceed(v, left, found, lvBoard) /\ lvAsk[v].at = "stand-in" /\ left = Tail(lvAsk[v].left)
              /\ Len(found) + Len(left) <= Len(Ranked)
              /\ found = Append(lvAsk[v].found, [symbol |-> Head(lvAsk[v].left), kind |-> "degraded", score |-> 0])
<1>1. PICK d, s : d = lvAsk[v] /\ s = Head(d.left)  OBVIOUS
<1>2. AskOK(d)  BY <1>1 DEF LiveInv
<1>3. d.at = "stand-in"  BY <1>1 DEF StandIn
<1>4. /\ s \in LvSymbols /\ Tail(d.left) \in Seq(LvSymbols) /\ Len(Tail(d.left)) = Len(d.left) - 1
      /\ Len(d.left) \in Nat /\ Len(d.found) \in Nat /\ d.found \in Seq(Finding)
  BY <1>1, <1>2, <1>3, AskFields
<1>5. PICK found : found = Append(d.found, [symbol |-> s, kind |-> "degraded", score |-> 0])  OBVIOUS
<1>6. found \in Seq(Finding) /\ Len(found) = Len(d.found) + 1  BY <1>4, <1>5, FoundMore
<1>7. Len(d.found) + Len(d.left) <= Len(Ranked)  BY <1>2 DEF AskOK
<1>8. Len(found) + Len(Tail(d.left)) <= Len(Ranked)
  <2>1. Len(Ranked) \in Nat  BY LiveFacts
  <2>2. Len(d.left) \in Nat /\ Len(d.found) \in Nat /\ Len(Tail(d.left)) = Len(d.left) - 1  BY <1>4
  <2>3. PICK a, b, c, e, r :
          a = Len(found) /\ b = Len(Tail(d.left)) /\ c = Len(d.left) /\ e = Len(d.found) /\ r = Len(Ranked)
    OBVIOUS
  <2>4. e + c <= r  BY ONLY <1>7, <2>3, Zenon
  <2>5. r \in Nat /\ c \in Nat /\ e \in Nat /\ b = c - 1  BY ONLY <2>1, <2>2, <2>3, Zenon
  <2>6. a = e \/ a = e + 1  BY ONLY <1>6, <2>3, Zenon
  <2>7. a + b <= r  BY ONLY <2>4, <2>5, <2>6
  <2> QED  BY ONLY <2>3, <2>7, Zenon
<1>9. Proceed(v, Tail(d.left), found, lvBoard)  BY <1>1, <1>5 DEF StandIn
<1> QED  BY <1>1, <1>3, <1>4, <1>5, <1>6, <1>8, <1>9

(* A request begins a scan.                                                  *)
LEMMA FewOK ==
    ASSUME LiveInv, NEW v \in Viewers, AskFew(v)
    PROVE  /\ LiveInv'
           /\ lvAsk'[v].at = "evaluation" /\ lvAsk'[v].left = Ranked /\ lvAsk'[v].found = <<>>
           /\ \A w \in Viewers : w # v => lvAsk'[w] = lvAsk[w]
           /\ lvBoard' = OnBoard(lvBoard, Ranked[1], "started")
<1>1. PICK d, e, m : d = NoAsk /\ m = Visible(v) /\ e = [d EXCEPT !.at = "evaluation", !.kept = m, !.left = Ranked]
  OBVIOUS
<1>2. lvAsk' = [lvAsk EXCEPT ![v] = e]  BY <1>1 DEF AskFew
<1>3. \A x \in Visible(v) : x.by = "store"  BY DEF Visible
<1>4. d \in [at : Places, kept : {{}}, left : Seq(LvSymbols), found : Seq(Finding), now : Outcomes \cup {None}]
  BY <1>1 DEF NoAsk, Places
<1>5. /\ e \in [at : Places, kept : {m}, left : Seq(LvSymbols), found : Seq(Finding), now : Outcomes \cup {None}]
      /\ e.at = "evaluation" /\ e.kept = Visible(v) /\ e.left = Ranked /\ e.found = <<>>
  <2>1. Ranked \in Seq(LvSymbols) /\ "evaluation" \in Places  BY LiveFacts DEF Places
  <2>2. e \in [at : Places, kept : {m}, left : Seq(LvSymbols), found : Seq(Finding), now : Outcomes \cup {None}]
    BY ONLY <1>1, <1>4, <2>1
  <2>3. e.at = "evaluation" /\ e.kept = m /\ e.left = Ranked /\ e.found = d.found  BY ONLY <1>1, <1>4
  <2>4. d.found = <<>>  BY <1>1 DEF NoAsk
  <2> QED  BY <1>1, <2>2, <2>3, <2>4
<1>6. Len(e.found) + Len(e.left) <= Len(Ranked)
  <2>1. Len(e.found) = 0 /\ Len(e.left) = Len(Ranked)  BY <1>5
  <2> QED  BY <2>1, LiveFacts
<1>7. AskOK(e)  BY <1>1, <1>3, <1>5, <1>6, LiveFacts DEF AskOK
<1>8. lvBoard' = OnBoard(lvBoard, Ranked[1], "started") /\ lvStored' = lvStored /\ lvCut' = lvCut  BY DEF AskFew
<1>9. lvBoard' \in [LvSymbols -> Statuses]
  <2>1. "started" \in Statuses  BY DEF Statuses
  <2> QED  BY <1>8, <2>1, LiveFacts, OnBoardOK DEF LiveInv
<1>10. lvAsks' \in 0..MaxAsks  BY LiveFacts DEF AskFew, LiveInv
<1>11. LiveInv'  BY <1>2, <1>7, <1>8, <1>9, <1>10 DEF LiveInv
<1>12. lvAsk'[v] = e /\ \A w \in Viewers : w # v => lvAsk'[w] = lvAsk[w]  BY <1>2 DEF LiveInv
<1> QED  BY <1>5, <1>8, <1>11, <1>12

LEMMA EvaluatedOK ==
    ASSUME LiveInv, NEW v \in Viewers, NEW o \in Outcomes, Evaluated(v, o)
    PROVE  /\ LiveInv'
           /\ lvAsk'[v].at = "events" /\ lvAsk'[v].left = lvAsk[v].left /\ lvAsk'[v].found = lvAsk[v].found
           /\ \A w \in Viewers : w # v => lvAsk'[w] = lvAsk[w]
<1>1. PICK d : d = lvAsk[v]  OBVIOUS
<1>2. AskOK(d) /\ d.at = "evaluation"  BY <1>1 DEF LiveInv, Evaluated
<1>3. PICK a, k, l, f, n : d = [at |-> a, kept |-> k, left |-> l, found |-> f, now |-> n]  BY <1>2, AskFields
<1>4. PICK e : e = [at |-> "events", kept |-> k, left |-> l, found |-> f, now |-> o]  OBVIOUS
<1>5. lvAsk'[v] = e
  <2>1. lvAsk'[v] = [d EXCEPT !.at = "events", !.now = o]  BY <1>1 DEF Evaluated, LiveInv
  <2> QED  BY <1>3, <1>4, <2>1
<1>6. e.at = "events" /\ e.kept = k /\ e.left = l /\ e.found = f /\ e.now = o  BY <1>4
<1>7. d.kept = k /\ d.left = l /\ d.found = f  BY <1>3
<1>8. l \in Seq(LvSymbols) /\ f \in Seq(Finding)  BY <1>2, <1>7, AskFields
<1>9. e \in [at : Places, kept : {k}, left : Seq(LvSymbols), found : Seq(Finding), now : Outcomes \cup {None}]
  BY <1>4, <1>8 DEF Places
<1>10. AskOK(e)  BY <1>2, <1>6, <1>7, <1>9 DEF AskOK
<1>11. DOMAIN lvAsk' = Viewers /\ \A w \in Viewers : w # v => lvAsk'[w] = lvAsk[w]  BY DEF Evaluated, LiveInv
<1>12. \A w \in Viewers : AskOK(lvAsk'[w])  BY <1>5, <1>10, <1>11 DEF LiveInv
<1>13. /\ lvStored' = [lvStored EXCEPT ![Head(lvAsk[v].left)] = o] /\ lvBoard' = lvBoard
       /\ lvAsks' = lvAsks /\ lvCut' = lvCut
  BY DEF Evaluated
<1>14. DOMAIN lvStored' = LvSymbols /\ \A s \in LvSymbols : lvStored'[s] \in Outcomes \cup {None}
  BY <1>13 DEF LiveInv
<1>15. LiveInv'  BY <1>11, <1>12, <1>13, <1>14 DEF LiveInv
<1> QED  BY <1>1, <1>5, <1>6, <1>7, <1>11, <1>15

LEMMA FailsOK ==
    ASSUME LiveInv, NEW v \in Viewers, EvaluationFails(v)
    PROVE  /\ LiveInv'
           /\ lvAsk'[v].at = "stand-in" /\ lvAsk'[v].left = lvAsk[v].left /\ lvAsk'[v].found = lvAsk[v].found
           /\ \A w \in Viewers : w # v => lvAsk'[w] = lvAsk[w]
           /\ Head(lvAsk[v].left) \in LvSymbols /\ lvBoard' = OnBoard(lvBoard, Head(lvAsk[v].left), "failed")
<1>1. PICK d : d = lvAsk[v]  OBVIOUS
<1>2. AskOK(d) /\ d.at = "evaluation"  BY <1>1 DEF LiveInv, EvaluationFails
<1>3. PICK a, k, l, f, n : d = [at |-> a, kept |-> k, left |-> l, found |-> f, now |-> n]  BY <1>2, AskFields
<1>4. PICK e : e = [at |-> "stand-in", kept |-> k, left |-> l, found |-> f, now |-> n]  OBVIOUS
<1>5. lvAsk'[v] = e
  <2>1. lvAsk'[v] = [d EXCEPT !.at = "stand-in"]  BY <1>1 DEF EvaluationFails, LiveInv
  <2> QED  BY <1>3, <1>4, <2>1
<1>6. e.at = "stand-in" /\ e.kept = k /\ e.left = l /\ e.found = f /\ e.now = n  BY <1>4
<1>7. d.kept = k /\ d.left = l /\ d.found = f /\ d.now = n  BY <1>3
<1>8. l \in Seq(LvSymbols) /\ f \in Seq(Finding) /\ n \in Outcomes \cup {None} /\ Head(d.left) \in LvSymbols
  BY <1>2, <1>7, AskFields
<1>9. e \in [at : Places, kept : {k}, left : Seq(LvSymbols), found : Seq(Finding), now : Outcomes \cup {None}]
  BY <1>4, <1>8 DEF Places
<1>10. AskOK(e)  BY <1>2, <1>6, <1>7, <1>9 DEF AskOK
<1>11. DOMAIN lvAsk' = Viewers /\ \A w \in Viewers : w # v => lvAsk'[w] = lvAsk[w]  BY DEF EvaluationFails, LiveInv
<1>12. \A w \in Viewers : AskOK(lvAsk'[w])  BY <1>5, <1>10, <1>11 DEF LiveInv
<1>13. /\ lvBoard' = OnBoard(lvBoard, Head(d.left), "failed") /\ lvStored' = lvStored
       /\ lvAsks' = lvAsks /\ lvCut' = lvCut
  BY <1>1 DEF EvaluationFails
<1>14. lvBoard' \in [LvSymbols -> Statuses]
  <2>1. "failed" \in Statuses  BY DEF Statuses
  <2> QED  BY <1>8, <1>13, <2>1, OnBoardOK DEF LiveInv
<1>15. LiveInv'  BY <1>11, <1>12, <1>13, <1>14 DEF LiveInv
<1> QED  BY <1>1, <1>5, <1>6, <1>7, <1>8, <1>11, <1>13, <1>15

(* A request ends without the end of its scan, or the viewer leaves it.      *)
EndsAsk(v) == AskEnough(v) \/ StandInFails(v) \/ TimesOut(v) \/ ViewerLeaves(v)

LEMMA EndsOK ==
    ASSUME LiveInv, NEW v \in Viewers, EndsAsk(v)
    PROVE  /\ LiveInv'
           /\ lvAsk'[v] = NoAsk /\ \A w \in Viewers : w # v => lvAsk'[w] = lvAsk[w]
           /\ lvBoard' = lvBoard
           /\ lvCut' \/ (lvCut' = lvCut /\ (lvAsk[v] = NoAsk \/ lvAsk[v].at = "stand-in"))
<1>1. /\ lvStored' = lvStored /\ lvBoard' = lvBoard /\ lvAsks' = lvAsks
      /\ lvCut' = TRUE \/ (lvCut' = lvCut /\ (lvAsk[v] = NoAsk \/ lvAsk[v].at = "stand-in"))
  BY DEF EndsAsk, AskEnough, StandInFails, TimesOut, ViewerLeaves
<1>2. \/ \E items, whole, found : AnswerAsk(v, items, whole, found)
      \/ lvAsk' = [lvAsk EXCEPT ![v] = NoAsk]
  BY DEF EndsAsk, AskEnough, StandInFails, TimesOut, ViewerLeaves
<1>3. lvAsk' = [lvAsk EXCEPT ![v] = NoAsk]  BY <1>2 DEF AnswerAsk
<1>4. /\ DOMAIN lvAsk' = Viewers /\ lvAsk'[v] = NoAsk /\ \A w \in Viewers : w # v => lvAsk'[w] = lvAsk[w]
      /\ \A w \in Viewers : AskOK(lvAsk'[w])
  BY <1>3, NoAskOK DEF LiveInv
<1>5. lvCut' \in BOOLEAN  BY <1>1 DEF LiveInv
<1> QED  BY <1>1, <1>4, <1>5 DEF LiveInv

LEMMA ExpiresOK ==
    ASSUME LiveInv, (\E v \in Viewers : ReplyExpires(v)) \/ (\E s \in LvSymbols : SignalExpires(s)) \/ UNCHANGED lvVars
    PROVE  LiveInv' /\ lvAsk' = lvAsk /\ lvBoard' = lvBoard /\ lvCut' = lvCut
BY DEF ReplyExpires, SignalExpires, lvVars, LiveInv

(* A scan that closes a symbol.                                              *)
ClosesSymbol(v) == EventsSent(v) \/ StandIn(v)

LEMMA ClosesOK ==
    ASSUME LiveInv, NEW v \in Viewers, ClosesSymbol(v)
    PROVE  LiveInv'
<1>1. PICK left \in Seq(LvSymbols), found \in Seq(Finding), board \in [LvSymbols -> Statuses] :
         Proceed(v, left, found, board) /\ lvAsk[v].at # "none" /\ Len(found) + Len(left) <= Len(Ranked)
  <2>1. CASE EventsSent(v)  BY <2>1, SentOK
  <2>2. CASE StandIn(v)
    <3>1. lvBoard \in [LvSymbols -> Statuses]  BY DEF LiveInv
    <3> QED  BY <2>2, <3>1, StandInOK
  <2> QED  BY <2>1, <2>2 DEF ClosesSymbol
<1>2. lvBoard' \in [LvSymbols -> Statuses] /\ DOMAIN lvAsk' = Viewers /\ \A w \in Viewers : AskOK(lvAsk'[w])
  BY <1>1, ProceedOK
<1>3. lvStored' = lvStored /\ lvAsks' = lvAsks /\ lvCut' = lvCut  BY DEF ClosesSymbol, EventsSent, StandIn
<1> QED  BY <1>2, <1>3 DEF LiveInv

(* What the steps do, by what they do to a request.                          *)
LEMMA LiveSteps ==
    [LvNext]_lvVars =>
        \/ \E v \in Viewers : \/ EndsAsk(v) \/ AskFew(v) \/ ClosesSymbol(v) \/ EvaluationFails(v)
                              \/ \E o \in Outcomes : Evaluated(v, o)
        \/ (\E v \in Viewers : ReplyExpires(v)) \/ (\E s \in LvSymbols : SignalExpires(s)) \/ UNCHANGED lvVars
BY DEF LvNext, EndsAsk, ClosesSymbol

LEMMA LiveStep == LiveInv /\ [LvNext]_lvVars => LiveInv'
BY LiveSteps, EndsOK, FewOK, ClosesOK, FailsOK, EvaluatedOK, ExpiresOK

LEMMA LiveTyped == LiveInv => LvTypeOK
<1> SUFFICES ASSUME LiveInv PROVE LvTypeOK  OBVIOUS
<1>1. ASSUME NEW v \in Viewers
      PROVE  /\ lvAsk[v].at \in Places /\ (lvAsk[v].at # "none" => lvAsk[v].left # <<>>)
             /\ Len(lvAsk[v].found) <= Len(Ranked)
  <2>1. AskOK(lvAsk[v])  BY DEF LiveInv
  <2>2. Len(lvAsk[v].left) \in Nat /\ Len(lvAsk[v].found) \in Nat  BY <2>1, AskFields
  <2>3. Len(lvAsk[v].found) + Len(lvAsk[v].left) <= Len(Ranked)  BY <2>1 DEF AskOK
  <2>4. Len(lvAsk[v].found) <= Len(Ranked)
    <3>1. Len(Ranked) \in Nat  BY LiveFacts
    <3>2. PICK b, e, r : b = Len(lvAsk[v].left) /\ e = Len(lvAsk[v].found) /\ r = Len(Ranked)  OBVIOUS
    <3>3. b \in Nat /\ e \in Nat /\ r \in Nat /\ e + b <= r  BY ONLY <2>2, <2>3, <3>1, <3>2, Zenon
    <3>4. e <= r  BY ONLY <3>3
    <3> QED  BY ONLY <3>2, <3>4, Zenon
  <2>5. lvAsk[v].at \in Places /\ (lvAsk[v].at # "none" => lvAsk[v].left # <<>>)  BY <2>1 DEF AskOK
  <2> QED  BY <2>4, <2>5
<1>2. \A s \in LvSymbols : lvStored[s] \in Outcomes \cup {None} /\ lvBoard[s] \in Statuses  BY DEF LiveInv
<1>3. lvAsks \in 0..MaxAsks /\ lvCut \in BOOLEAN  BY DEF LiveInv
<1> QED  BY <1>1, <1>2, <1>3 DEF LvTypeOK, Places, Statuses

(* Who scans a symbol, up to what is said of it at the end.                  *)
Scans(d, s) == d.at \in {"evaluation", "events"} /\ Head(d.left) = s

(* A symbol whose scan has started is scanned, unless a scan was cut.        *)
BoardInv ==
    /\ LiveInv
    /\ ~lvCut => \A s \in LvSymbols : lvBoard[s] = "started" => \E v \in Viewers : Scans(lvAsk[v], s)

LEMMA BoardInit == LvInit => BoardInv
BY LiveInit DEF BoardInv, LvInit

LEMMA BoardStep == BoardInv /\ [LvNext]_lvVars => BoardInv'
<1> SUFFICES ASSUME BoardInv, [LvNext]_lvVars PROVE BoardInv'  OBVIOUS
<1>1. LiveInv /\ LiveInv'  BY LiveStep DEF BoardInv
<1> SUFFICES ASSUME ~lvCut', NEW s \in LvSymbols, lvBoard'[s] = "started"
             PROVE  \E v \in Viewers : Scans(lvAsk'[v], s)
  BY <1>1 DEF BoardInv
<1>2. ASSUME ~lvCut, lvBoard[s] = "started"  PROVE \E v \in Viewers : Scans(lvAsk[v], s)
  BY <1>2 DEF BoardInv
<1>3. ASSUME NEW v \in Viewers, EndsAsk(v)  PROVE \E w \in Viewers : Scans(lvAsk'[w], s)
  <2>1. /\ lvAsk'[v] = NoAsk /\ \A w \in Viewers : w # v => lvAsk'[w] = lvAsk[w]
        /\ lvBoard' = lvBoard /\ lvCut' = lvCut /\ (lvAsk[v] = NoAsk \/ lvAsk[v].at = "stand-in")
    BY <1>1, <1>3, EndsOK
  <2>2. PICK w \in Viewers : Scans(lvAsk[w], s)  BY <1>2, <2>1
  <2>3. w # v  BY <2>1, <2>2, NoAskOK DEF Scans
  <2> QED  BY <2>1, <2>2, <2>3
<1>4. ASSUME NEW v \in Viewers, AskFew(v)  PROVE \E w \in Viewers : Scans(lvAsk'[w], s)
  <2>1. /\ lvAsk'[v].at = "evaluation" /\ lvAsk'[v].left = Ranked
        /\ \A w \in Viewers : w # v => lvAsk'[w] = lvAsk[w]
        /\ lvBoard' = [lvBoard EXCEPT ![Ranked[1]] = "started"]
    BY <1>1, <1>4, FewOK DEF OnBoard
  <2>2. lvCut' = lvCut /\ lvAsk[v] = NoAsk  BY <1>4 DEF AskFew
  <2>3. CASE s = Ranked[1]  BY <2>1, <2>3, LiveFacts DEF Scans
  <2>4. CASE s # Ranked[1]
    <3>1. lvBoard[s] = "started"  BY <1>1, <2>1, <2>4 DEF LiveInv
    <3>2. PICK w \in Viewers : Scans(lvAsk[w], s)  BY <1>2, <2>2, <3>1
    <3>3. w # v  BY <2>2, <3>2, NoAskOK DEF Scans
    <3> QED  BY <2>1, <3>2, <3>3
  <2> QED  BY <2>3, <2>4
<1>5. ASSUME NEW v \in Viewers, EvaluationFails(v)  PROVE \E w \in Viewers : Scans(lvAsk'[w], s)
  <2>1. /\ \A w \in Viewers : w # v => lvAsk'[w] = lvAsk[w]
        /\ Head(lvAsk[v].left) \in LvSymbols
        /\ lvBoard' = [lvBoard EXCEPT ![Head(lvAsk[v].left)] = "failed"]
    BY <1>1, <1>5, FailsOK DEF OnBoard
  <2>2. lvCut' = lvCut  BY <1>5 DEF EvaluationFails
  <2>3. s # Head(lvAsk[v].left) /\ lvBoard[s] = "started"  BY <1>1, <2>1 DEF LiveInv
  <2>4. PICK w \in Viewers : Scans(lvAsk[w], s)  BY <1>2, <2>2, <2>3
  <2>5. w # v  BY <2>3, <2>4 DEF Scans
  <2> QED  BY <2>1, <2>4, <2>5
<1>6. ASSUME NEW v \in Viewers, NEW o \in Outcomes, Evaluated(v, o)  PROVE \E w \in Viewers : Scans(lvAsk'[w], s)
  <2>1. /\ lvAsk'[v].at = "events" /\ lvAsk'[v].left = lvAsk[v].left
        /\ \A w \in Viewers : w # v => lvAsk'[w] = lvAsk[w]
    BY <1>1, <1>6, EvaluatedOK
  <2>2. lvCut' = lvCut /\ lvBoard' = lvBoard  BY <1>6 DEF Evaluated
  <2>3. PICK w \in Viewers : Scans(lvAsk[w], s)  BY <1>2, <2>2
  <2> QED  BY <2>1, <2>3 DEF Scans
<1>7. ASSUME NEW v \in Viewers, ClosesSymbol(v)  PROVE \E w \in Viewers : Scans(lvAsk'[w], s)
  <2>1. PICK left \in Seq(LvSymbols), found \in Seq(Finding), board \in [LvSymbols -> Statuses] :
          /\ Proceed(v, left, found, board) /\ lvAsk[v].at # "none" /\ Len(found) + Len(left) <= Len(Ranked)
          /\ board[s] = "started" => lvBoard[s] = "started" /\ ~Scans(lvAsk[v], s)
    <3>1. CASE EventsSent(v)
      <4>1. PICK left \in Seq(LvSymbols), found \in Seq(Finding), board \in [LvSymbols -> Statuses] :
              /\ Proceed(v, left, found, board) /\ lvAsk[v].at # "none" /\ Len(found) + Len(left) <= Len(Ranked)
              /\ board[Head(lvAsk[v].left)] # "started"
              /\ \A x \in LvSymbols : x # Head(lvAsk[v].left) => board[x] = lvBoard[x]
        BY <1>1, <3>1, SentOK
      <4>2. board[s] = "started" => lvBoard[s] = "started" /\ s # Head(lvAsk[v].left)  BY <4>1
      <4> QED  BY <4>1, <4>2 DEF Scans
    <3>2. CASE StandIn(v)
      <4>1. PICK left \in Seq(LvSymbols), found \in Seq(Finding) :
              /\ Proceed(v, left, found, lvBoard) /\ lvAsk[v].at = "stand-in" /\ Len(found) + Len(left) <= Len(Ranked)
        BY <1>1, <3>2, StandInOK
      <4>2. lvBoard \in [LvSymbols -> Statuses]  BY <1>1 DEF LiveInv
      <4>3. ~Scans(lvAsk[v], s) /\ lvAsk[v].at # "none"  BY <4>1 DEF Scans
      <4> QED  BY <4>1, <4>2, <4>3
    <3> QED  BY <1>7, <3>1, <3>2 DEF ClosesSymbol
  <2>2. /\ \A w \in Viewers : w # v => lvAsk'[w] = lvAsk[w]
        /\ IF left = <<>> THEN lvBoard' = board /\ lvAsk'[v] = NoAsk
           ELSE /\ lvBoard' = [board EXCEPT ![Head(left)] = "started"]
                /\ lvAsk'[v].at = "evaluation" /\ lvAsk'[v].left = left
    BY <1>1, <2>1, ProceedOK DEF OnBoard
  <2>3. lvCut' = lvCut  BY <1>7 DEF ClosesSymbol, EventsSent, StandIn
  <2>4. CASE left # <<>> /\ s = Head(left)  BY <2>2, <2>4 DEF Scans
  <2>5. CASE left = <<>> \/ s # Head(left)
    <3>1. board[s] = "started"  BY <2>2, <2>5
    <3>2. lvBoard[s] = "started" /\ ~Scans(lvAsk[v], s)  BY <2>1, <3>1
    <3>3. PICK w \in Viewers : Scans(lvAsk[w], s)  BY <1>2, <2>3, <3>2
    <3> QED  BY <2>2, <3>2, <3>3
  <2> QED  BY <2>4, <2>5
<1>8. ASSUME (\E v \in Viewers : ReplyExpires(v)) \/ (\E x \in LvSymbols : SignalExpires(x)) \/ UNCHANGED lvVars
      PROVE  \E w \in Viewers : Scans(lvAsk'[w], s)
  <2>1. lvAsk' = lvAsk /\ lvBoard' = lvBoard /\ lvCut' = lvCut  BY <1>1, <1>8, ExpiresOK
  <2> QED  BY <1>2, <2>1
<1> QED  BY <1>3, <1>4, <1>5, <1>6, <1>7, <1>8, LiveSteps

(* For any symbols, viewers and outcomes: when no request waits and no scan  *)
(* was cut, the board shows no scan.                                         *)
THEOREM ScansAreClosed == LvSpec => []BoardSettles
<1>1. BoardInv => BoardSettles
  <2> SUFFICES ASSUME BoardInv, ~lvCut, \A v \in Viewers : lvAsk[v] = NoAsk, NEW s \in LvSymbols, lvBoard[s] = "started"
               PROVE  FALSE
    BY DEF BoardSettles
  <2>1. PICK v \in Viewers : Scans(lvAsk[v], s)  BY DEF BoardInv
  <2> QED  BY <2>1, NoAskOK DEF Scans
<1> QED  BY <1>1, BoardInit, BoardStep, PTL DEF LvSpec

(* What a scan lists is the best of what it found.                          *)
Each(q) == \A i, j \in DOMAIN q : q[i] = q[j] => i = j
EachSymbol(f) == \A i, j \in DOMAIN f : f[i].symbol = f[j].symbol => i = j

(* A request comes to each symbol once.                                      *)
Once(found, left) ==
    /\ Each(left) /\ EachSymbol(found)
    /\ \A i \in DOMAIN found, j \in DOMAIN left : found[i].symbol # left[j]
Spread(d) == Once(d.found, d.left)

(* What a whole scan lists beside what was kept.                             *)
WholeOK(r) ==
    r.whole => /\ r.found \in Seq(Finding) /\ EachSymbol(r.found)
               /\ \E old : (\A x \in old : x.by = "store") /\ r.items = old \cup Listed(r.found, Best(r.found))

ListInv ==
    /\ LiveInv
    /\ \A v \in Viewers : Spread(lvAsk[v])
    /\ DOMAIN lvReply = Viewers /\ \A v \in Viewers : WholeOK(lvReply[v])

(* The best of what was found, and no more than there is room for.           *)
LEMMA BestOnes ==
    ASSUME NEW f \in Seq(Finding)
    PROVE  /\ Best(f) \subseteq DOMAIN f
           /\ Cardinality(Best(f)) = (IF Len(f) < Target THEN Len(f) ELSE Target)
           /\ \A i \in Best(f), j \in DOMAIN f \ Best(f) : f[i].score >= f[j].score
<1> DEFINE D == DOMAIN f
           before(j, i) == f[j].score > f[i].score \/ (f[j].score = f[i].score /\ j < i)
           below == [i \in D |-> {j \in D : before(j, i)}]
<1>1. D = 1..Len(f) /\ Len(f) \in Nat  OBVIOUS
<1>2. \A i \in D : i \in Nat /\ f[i] \in Finding  BY <1>1
<1>3. \A i \in D : i \in Nat /\ f[i].score \in Nat  BY <1>2 DEF Finding
<1>4. IsFiniteSet(D) /\ Cardinality(D) = Len(f)
  <2>1. IsFiniteSet(1..Len(f)) /\ Cardinality(1..Len(f)) = (IF 1 > Len(f) THEN 0 ELSE Len(f) - 1 + 1)
    BY <1>1, FS_Interval
  <2>2. (IF 1 > Len(f) THEN 0 ELSE Len(f) - 1 + 1) = Len(f)  BY <1>1
  <2> QED  BY <1>1, <2>1, <2>2
<1>5. Target \in Nat  BY LiveFacts
<1>6. Best(f) = {i \in D : Cardinality(below[i]) < Target}  BY DEF Best
<1>7. below \in [D -> SUBSET D]  OBVIOUS
<1>8. \A i \in D : i \notin below[i]  BY <1>3
<1>9. ASSUME NEW i \in D, NEW j \in D, before(j, i)  PROVE j \in below[i] /\ below[j] \subseteq below[i]
  <2>1. \A x \in below[j] : x \in D /\ before(x, j)  OBVIOUS
  <2>2. \A x \in below[j] : before(x, i)  BY <1>3, <1>9, <2>1
  <2> QED  BY <1>9, <2>1, <2>2
<1>10. \A i, j \in D : i # j => before(i, j) \/ before(j, i)  BY <1>3
<1>11. \A i, j \in D : i # j => \/ i \in below[j] /\ below[i] \subseteq below[j]
                                \/ j \in below[i] /\ below[j] \subseteq below[i]
  BY <1>9, <1>10
<1>12. /\ Target <= Cardinality(D) => Cardinality(Best(f)) = Target
       /\ Target >= Cardinality(D) => Best(f) = D
  <2> HIDE DEF D, below
  <2>1. /\ Target <= Cardinality(D) => Cardinality({i \in D : Cardinality(below[i]) < Target}) = Target
        /\ Target >= Cardinality(D) => {i \in D : Cardinality(below[i]) < Target} = D
    BY ONLY <1>4, <1>5, <1>7, <1>8, <1>11, FirstOnes
  <2> QED  BY <1>6, <2>1
<1>13. Cardinality(Best(f)) = (IF Len(f) < Target THEN Len(f) ELSE Target)
  <2>1. PICK n : n = Cardinality(Best(f))  OBVIOUS
  <2>2. Len(f) < Target => n = Len(f)  BY <1>1, <1>4, <1>5, <1>12, <2>1
  <2>3. ~(Len(f) < Target) => n = Target  BY <1>1, <1>4, <1>5, <1>12, <2>1
  <2> QED  BY <2>1, <2>2, <2>3
<1>14. ASSUME NEW i \in Best(f), NEW j \in D \ Best(f)  PROVE f[i].score >= f[j].score
  <2>1. i \in D /\ j \in D  BY <1>6
  <2> SUFFICES ASSUME before(j, i) PROVE FALSE  BY <1>3, <2>1
  <2>2. below[j] \in SUBSET below[i]  BY <1>9, <2>1
  <2>3. IsFiniteSet(below[i])
    <3>1. below[i] \in SUBSET D  BY <2>1
    <3> HIDE DEF D, below
    <3> QED  BY <1>4, <3>1, FS_Subset
  <2>4. Cardinality(below[j]) <= Cardinality(below[i]) /\ Cardinality(below[i]) \in Nat /\ Cardinality(below[j]) \in Nat
    <3>1. IsFiniteSet(below[j])  BY <2>2, <2>3, FS_Subset
    <3> HIDE DEF D, below
    <3> QED  BY <2>2, <2>3, <3>1, FS_Subset, FS_CardinalityType
  <2>5. Cardinality(below[i]) < Target  BY <1>6
  <2>6. Cardinality(below[j]) < Target
    <3> HIDE DEF below
    <3> QED  BY <1>5, <2>4, <2>5
  <2>7. j \in Best(f)
    <3> HIDE DEF below
    <3> QED  BY <1>6, <2>1, <2>6
  <2> QED  BY <2>7
<1>15. Best(f) \subseteq D  BY <1>6
<1> HIDE DEF D
<1> QED  BY <1>13, <1>14, <1>15 DEF D

LEMMA WholeLists ==
    ASSUME NEW r, WholeOK(r), r.whole
    PROVE  LET here == {i \in DOMAIN r.found : [symbol |-> r.found[i].symbol, kind |-> r.found[i].kind, by |-> "scan"] \in r.items}
           IN  here = Best(r.found)
<1> DEFINE f == r.found
           item(i) == [symbol |-> f[i].symbol, kind |-> f[i].kind, by |-> "scan"]
<1>1. f \in Seq(Finding) /\ EachSymbol(f)  BY DEF WholeOK
<1>2. PICK old : (\A x \in old : x.by = "store") /\ r.items = old \cup Listed(f, Best(f))  BY DEF WholeOK
<1>3. Best(f) \subseteq DOMAIN f  BY <1>1, BestOnes
<1>4. \A i : item(i).by = "scan" /\ item(i).symbol = f[i].symbol  OBVIOUS
<1>5. \A i : item(i) \notin old
  <2> SUFFICES ASSUME NEW i, item(i) \in old PROVE FALSE  OBVIOUS
  <2>1. item(i).by = "store"  BY <1>2
  <2>2. "scan" # "store"  OBVIOUS
  <2> HIDE DEF item
  <2> QED  BY <1>4, <2>1, <2>2
<1>6. Listed(f, Best(f)) = {item(i) : i \in Best(f)}  BY DEF Listed
<1>7. ASSUME NEW i \in DOMAIN f, item(i) \in r.items  PROVE i \in Best(f)
  <2> HIDE DEF item
  <2>1. PICK j \in Best(f) : item(j) = item(i)  BY <1>2, <1>5, <1>6, <1>7
  <2>2. f[j].symbol = f[i].symbol /\ j \in DOMAIN f  BY <1>3, <1>4, <2>1
  <2>3. i = j  BY <1>1, <2>2 DEF EachSymbol
  <2> QED  BY <2>1, <2>3
<1>8. \A i \in Best(f) : item(i) \in r.items
  <2> HIDE DEF item
  <2> QED  BY <1>2, <1>6
<1> QED  BY <1>3, <1>7, <1>8

LEMMA ListedBest == ListInv => BestAreListed
<1> SUFFICES ASSUME ListInv, NEW v \in Viewers, lvReply[v].whole
             PROVE  LET found == lvReply[v].found
                        here  == {i \in DOMAIN found : [symbol |-> found[i].symbol, kind |-> found[i].kind, by |-> "scan"] \in lvReply[v].items}
                    IN  /\ Cardinality(here) = (IF Len(found) < Target THEN Len(found) ELSE Target)
                        /\ \A i \in here, j \in DOMAIN found \ here : found[i].score >= found[j].score
  BY DEF BestAreListed
<1>1. PICK r : r = lvReply[v]  OBVIOUS
<1>2. WholeOK(r) /\ r.whole  BY <1>1 DEF ListInv
<1>3. r.found \in Seq(Finding)  BY <1>2 DEF WholeOK
<1>4. {i \in DOMAIN r.found : [symbol |-> r.found[i].symbol, kind |-> r.found[i].kind, by |-> "scan"] \in r.items} = Best(r.found)
  BY <1>2, WholeLists
<1>5. /\ Cardinality(Best(r.found)) = (IF Len(r.found) < Target THEN Len(r.found) ELSE Target)
      /\ \A i \in Best(r.found), j \in DOMAIN r.found \ Best(r.found) : r.found[i].score >= r.found[j].score
  BY <1>3, BestOnes
<1> QED  BY <1>1, <1>4, <1>5

LEMMA NothingSpread == Spread(NoAsk) /\ WholeOK(NoReply)
BY DEF Spread, Once, WholeOK, NoAsk, NoReply, Each, EachSymbol

LEMMA ListInit == LvInit => ListInv
BY LiveInit, NothingSpread DEF ListInv, LvInit

(* A symbol that was found is no longer left.                                *)
LEMMA FoundSpread ==
    ASSUME NEW d, AskOK(d), Spread(d), d.at # "none"
    PROVE  /\ Once(d.found, Tail(d.left))
           /\ \A k \in {"accepted", "degraded"}, n \in Nat :
                 Once(Append(d.found, [symbol |-> Head(d.left), kind |-> k, score |-> n]), Tail(d.left))
<1>1. PICK g, m, s : g = d.found /\ m = d.left /\ s = Head(d.left)  OBVIOUS
<1>2. PICK l : l = Tail(m)  OBVIOUS
<1>3. g \in Seq(Finding) /\ m \in Seq(LvSymbols) /\ m # <<>>  BY <1>1, AskFields DEF AskOK
<1>4. /\ DOMAIN l = 1..Len(m) - 1 /\ Len(m) \in Nat /\ DOMAIN m = 1..Len(m) /\ s = m[1] /\ 1 \in DOMAIN m
      /\ \A i \in DOMAIN l : l[i] = m[i + 1]
  BY <1>1, <1>2, <1>3
<1>5. \A i \in DOMAIN l : i \in Nat /\ i + 1 \in DOMAIN m /\ i + 1 # 1  BY <1>4
<1>6. Each(m) /\ EachSymbol(g) /\ \A i \in DOMAIN g, j \in DOMAIN m : g[i].symbol # m[j]
  BY <1>1 DEF Spread, Once
<1>7. Each(l) /\ (\A i \in DOMAIN g, j \in DOMAIN l : g[i].symbol # l[j]) /\ \A j \in DOMAIN l : s # l[j]
  BY <1>4, <1>5, <1>6 DEF Each
<1>8. Once(g, l)  BY <1>6, <1>7 DEF Once
<1>9. ASSUME NEW k \in {"accepted", "degraded"}, NEW n \in Nat
      PROVE  Once(Append(g, [symbol |-> s, kind |-> k, score |-> n]), l)
  <2>1. PICK e : e = [symbol |-> s, kind |-> k, score |-> n]  OBVIOUS
  <2>2. e.symbol = s /\ e \in Finding
    <3>1. s \in LvSymbols  BY <1>1, AskFields
    <3> QED  BY <2>1, <3>1 DEF Finding
  <2>3. PICK f : f = Append(g, e)  OBVIOUS
  <2>4. /\ DOMAIN f = 1..Len(g) + 1 /\ Len(g) \in Nat /\ DOMAIN g = 1..Len(g) /\ f[Len(g) + 1] = e
        /\ \A i \in DOMAIN g : f[i] = g[i]
    BY <1>3, <2>2, <2>3
  <2>5. \A i \in DOMAIN f : i \in DOMAIN g \/ (i = Len(g) + 1 /\ f[i].symbol = s)  BY ONLY <2>2, <2>4
  <2>6. \A i \in DOMAIN g : f[i].symbol = g[i].symbol /\ f[i].symbol # s /\ i # Len(g) + 1
    BY ONLY <1>4, <1>6, <2>4
  <2>7. EachSymbol(f)  BY ONLY <1>6, <2>5, <2>6 DEF EachSymbol
  <2>8. \A i \in DOMAIN f, j \in DOMAIN l : f[i].symbol # l[j]  BY ONLY <1>7, <2>5, <2>6
  <2> QED  BY <1>7, <2>1, <2>3, <2>7, <2>8 DEF Once
<1> QED  BY <1>1, <1>2, <1>8, <1>9

(* Answers, and scans that go on.                                            *)
LEMMA AnswersList ==
    ASSUME ListInv, NEW v \in Viewers, NEW items, NEW whole, NEW found, AnswerAsk(v, items, whole, found),
           whole => /\ found \in Seq(Finding) /\ EachSymbol(found)
                    /\ items = lvAsk[v].kept \cup Listed(found, Best(found))
    PROVE  /\ \A w \in Viewers : Spread(lvAsk'[w])
           /\ DOMAIN lvReply' = Viewers /\ \A w \in Viewers : WholeOK(lvReply'[w])
<1>1. PICK r : r = [whole |-> whole, items |-> items, found |-> found, kept |-> TRUE]  OBVIOUS
<1>2. r.whole = whole /\ r.items = items /\ r.found = found  BY <1>1
<1>3. AskOK(lvAsk[v])  BY DEF ListInv, LiveInv
<1>4. WholeOK(r)
  <2> SUFFICES ASSUME whole PROVE WholeOK(r)  BY <1>2 DEF WholeOK
  <2>1. \A x \in lvAsk[v].kept : x.by = "store"  BY <1>3 DEF AskOK
  <2> QED  BY <1>2, <2>1 DEF WholeOK
<1>5. lvReply' = [lvReply EXCEPT ![v] = r]  BY <1>1 DEF AnswerAsk
<1>6. lvAsk'[v] = NoAsk /\ \A w \in Viewers : w # v => lvAsk'[w] = lvAsk[w]  BY AnswerAskOK DEF ListInv
<1> QED  BY <1>4, <1>5, <1>6, NothingSpread DEF ListInv

LEMMA ProceedLists ==
    ASSUME ListInv, NEW v \in Viewers, NEW left \in Seq(LvSymbols), NEW found \in Seq(Finding),
           Len(found) + Len(left) <= Len(Ranked), lvAsk[v].at # "none",
           NEW board \in [LvSymbols -> Statuses], Proceed(v, left, found, board),
           Once(found, left)
    PROVE  /\ \A w \in Viewers : Spread(lvAsk'[w])
           /\ DOMAIN lvReply' = Viewers /\ \A w \in Viewers : WholeOK(lvReply'[w])
<1>1. CASE left = <<>>
  <2>1. PICK items, whole : whole = TRUE /\ items = lvAsk[v].kept \cup Listed(found, Best(found))  OBVIOUS
  <2>2. AnswerAsk(v, items, whole, found)  BY <1>1, <2>1 DEF Proceed
  <2>3. EachSymbol(found)  BY DEF Once
  <2> QED  BY <2>1, <2>2, <2>3, AnswersList
<1>0. (\A w \in Viewers : Spread(lvAsk[w])) /\ DOMAIN lvReply = Viewers /\ \A w \in Viewers : WholeOK(lvReply[w])
  BY DEF ListInv
<1>2. CASE left # <<>>
  <2>1. lvReply' = lvReply  BY <1>2 DEF Proceed
  <2>2. lvAsk'[v].left = left /\ lvAsk'[v].found = found /\ \A w \in Viewers : w # v => lvAsk'[w] = lvAsk[w]
    BY <1>2, ProceedOK DEF ListInv
  <2>3. Spread(lvAsk'[v])  BY <2>2 DEF Spread, Once
  <2> QED  BY <2>1, <2>2, <2>3 DEF ListInv
<1> QED  BY <1>1, <1>2

LEMMA ListStep ==
    ASSUME Each(Ranked)
    PROVE  ListInv /\ [LvNext]_lvVars => ListInv'
<1> SUFFICES ASSUME ListInv, [LvNext]_lvVars PROVE ListInv'  OBVIOUS
<1>1. LiveInv /\ LiveInv'  BY LiveStep DEF ListInv
<1> SUFFICES /\ \A w \in Viewers : Spread(lvAsk'[w])
             /\ DOMAIN lvReply' = Viewers /\ \A w \in Viewers : WholeOK(lvReply'[w])
  BY <1>1 DEF ListInv
<1> DEFINE Goal == /\ \A w \in Viewers : Spread(lvAsk'[w])
                   /\ DOMAIN lvReply' = Viewers /\ \A w \in Viewers : WholeOK(lvReply'[w])
<1>2. ASSUME NEW v \in Viewers, EndsAsk(v)  PROVE Goal
  <2>1. CASE ViewerLeaves(v)
    <3>1. lvReply' = lvReply  BY <2>1 DEF ViewerLeaves
    <3>2. lvAsk'[v] = NoAsk /\ \A w \in Viewers : w # v => lvAsk'[w] = lvAsk[w]  BY <1>1, <1>2, EndsOK
    <3> QED  BY <3>1, <3>2, NothingSpread DEF ListInv
  <2>2. CASE ~ViewerLeaves(v)
    <3>1. \E items : AnswerAsk(v, items, FALSE, <<>>)
      BY <1>2, <2>2 DEF EndsAsk, AskEnough, StandInFails, TimesOut
    <3> QED  BY <3>1, AnswersList
  <2> QED  BY <2>1, <2>2
<1>3. ASSUME NEW v \in Viewers, AskFew(v)  PROVE Goal
  <2>1. /\ lvAsk'[v].left = Ranked /\ lvAsk'[v].found = <<>>
        /\ \A w \in Viewers : w # v => lvAsk'[w] = lvAsk[w]
    BY <1>1, <1>3, FewOK
  <2>2. lvReply' = lvReply  BY <1>3 DEF AskFew
  <2>3. Spread(lvAsk'[v])  BY <2>1 DEF Spread, Once, EachSymbol
  <2> QED  BY <2>1, <2>2, <2>3 DEF ListInv
<1>4. ASSUME NEW v \in Viewers, EvaluationFails(v)  PROVE Goal
  <2>1. /\ lvAsk'[v].left = lvAsk[v].left /\ lvAsk'[v].found = lvAsk[v].found
        /\ \A w \in Viewers : w # v => lvAsk'[w] = lvAsk[w]
    BY <1>1, <1>4, FailsOK
  <2>2. lvReply' = lvReply  BY <1>4 DEF EvaluationFails
  <2>3. Spread(lvAsk'[v])  BY <2>1 DEF Spread, ListInv
  <2> QED  BY <2>1, <2>2, <2>3 DEF ListInv
<1>5. ASSUME NEW v \in Viewers, NEW o \in Outcomes, Evaluated(v, o)  PROVE Goal
  <2>1. /\ lvAsk'[v].left = lvAsk[v].left /\ lvAsk'[v].found = lvAsk[v].found
        /\ \A w \in Viewers : w # v => lvAsk'[w] = lvAsk[w]
    BY <1>1, <1>5, EvaluatedOK
  <2>2. lvReply' = lvReply  BY <1>5 DEF Evaluated
  <2>3. Spread(lvAsk'[v])  BY <2>1 DEF Spread, ListInv
  <2> QED  BY <2>1, <2>2, <2>3 DEF ListInv
<1>6. ASSUME NEW v \in Viewers, EventsSent(v)  PROVE Goal
  <2>1. PICK left \in Seq(LvSymbols), found \in Seq(Finding), board \in [LvSymbols -> Statuses] :
          /\ Proceed(v, left, found, board) /\ lvAsk[v].at # "none" /\ left = Tail(lvAsk[v].left)
          /\ Len(found) + Len(left) <= Len(Ranked)
          /\ \/ found = lvAsk[v].found
             \/ \E k \in {"accepted", "degraded"}, n \in Nat :
                   found = Append(lvAsk[v].found, [symbol |-> Head(lvAsk[v].left), kind |-> k, score |-> n])
    BY <1>1, <1>6, SentOK
  <2>2. AskOK(lvAsk[v]) /\ Spread(lvAsk[v])  BY <1>1 DEF ListInv, LiveInv
  <2>3. Once(found, left)
    <3>1. PICK d : d = lvAsk[v]  OBVIOUS
    <3>2. AskOK(d) /\ Spread(d) /\ d.at # "none"  BY <2>1, <2>2, <3>1
    <3>3. /\ Once(d.found, left)
          /\ \A k \in {"accepted", "degraded"}, n \in Nat :
                Once(Append(d.found, [symbol |-> Head(d.left), kind |-> k, score |-> n]), left)
      BY <2>1, <3>1, <3>2, FoundSpread
    <3> QED  BY ONLY <2>1, <3>1, <3>3, Zenon
  <2> QED  BY <2>1, <2>3, ProceedLists
<1>7. ASSUME NEW v \in Viewers, StandIn(v)  PROVE Goal
  <2>1. PICK left \in Seq(LvSymbols), found \in Seq(Finding) :
          /\ Proceed(v, left, found, lvBoard) /\ lvAsk[v].at = "stand-in" /\ left = Tail(lvAsk[v].left)
          /\ Len(found) + Len(left) <= Len(Ranked)
          /\ found = Append(lvAsk[v].found, [symbol |-> Head(lvAsk[v].left), kind |-> "degraded", score |-> 0])
    BY <1>1, <1>7, StandInOK
  <2>2. AskOK(lvAsk[v]) /\ Spread(lvAsk[v]) /\ lvBoard \in [LvSymbols -> Statuses]  BY <1>1 DEF ListInv, LiveInv
  <2>3. Once(found, left)
    <3>1. PICK d : d = lvAsk[v]  OBVIOUS
    <3>2. AskOK(d) /\ Spread(d) /\ d.at # "none"  BY <2>1, <2>2, <3>1
    <3>3. \A k \in {"accepted", "degraded"}, n \in Nat :
             Once(Append(d.found, [symbol |-> Head(d.left), kind |-> k, score |-> n]), left)
      BY <2>1, <3>1, <3>2, FoundSpread
    <3>4. 0 \in Nat /\ "degraded" \in {"accepted", "degraded"}  OBVIOUS
    <3> QED  BY ONLY <2>1, <3>1, <3>3, <3>4, Zenon
  <2>4. lvAsk[v].at # "none"  BY <2>1
  <2> QED  BY <2>1, <2>2, <2>3, <2>4, ProceedLists
<1>8. ASSUME NEW v \in Viewers, ReplyExpires(v)  PROVE Goal
  <2>1. lvAsk' = lvAsk /\ lvReply' = [lvReply EXCEPT ![v] = NoReply]  BY <1>8 DEF ReplyExpires
  <2> QED  BY <2>1, NothingSpread DEF ListInv
<1>9. ASSUME (\E x \in LvSymbols : SignalExpires(x)) \/ UNCHANGED lvVars  PROVE Goal
  <2>1. lvAsk' = lvAsk /\ lvReply' = lvReply  BY <1>9 DEF SignalExpires, lvVars
  <2> QED  BY <2>1 DEF ListInv
<1> HIDE DEF Goal
<1>10. Goal  BY <1>2, <1>3, <1>4, <1>5, <1>6, <1>7, <1>8, <1>9, LiveSteps DEF ClosesSymbol
<1> QED  BY <1>10 DEF Goal

(* For any viewers, outcomes and number of places, and symbols named once    *)
(* each: a scan that was not cut fills its places with the best it found.    *)
THEOREM BestIsListed ==
    ASSUME \A i, j \in DOMAIN Ranked : Ranked[i] = Ranked[j] => i = j
    PROVE  LvSpec => []BestAreListed
<1>1. Each(Ranked)  BY DEF Each
<1>2. ListInv /\ [LvNext]_lvVars => ListInv'  BY <1>1, ListStep
<1> QED  BY <1>2, ListInit, ListedBest, PTL DEF LvSpec

-----------------------------------------------------------------------------
(* Factor sleeves.                                                          *)

SlSpec == SlInit /\ [][SlNext]_slVars

(* The totals after a result, and the window with it.                       *)
Added(old, window, pnl) ==
    [TotalsOf(window) EXCEPT !.closed = old.closed + 1,
         !.wins = old.wins + (IF pnl > 0 THEN 1 ELSE 0), !.losses = old.losses + (IF pnl < 0 THEN 1 ELSE 0)]
Grown(window, pnl) == Append(SubSeq(window, Len(window) - LeftOf(Len(window), Window) + 1, Len(window)), pnl)

(* Totals that no more trades than n have reached.                          *)
TotalsFit(f, n) ==
    /\ DOMAIN f = Symbols
    /\ \A s \in Symbols : f[s].closed \in Nat /\ f[s].closed <= Len(Past[s]) + n /\ KeptIn(f[s].recent, Window)

RecordOK(d, n) ==
    \/ d = NotRecording
    \/ /\ d = [at |-> d.at, sleeve |-> d.sleeve, pnl |-> d.pnl, totals |-> d.totals, window |-> d.window]
       /\ d.at \in {"read", "window", "written"} /\ d.sleeve \in Symbols /\ d.pnl \in Pnls
       /\ n >= 1 /\ TotalsFit(d.totals, n - 1)
       /\ d.window \in Seq(Pnls) /\ KeptIn(Len(d.window), Window)

SleeveInv ==
    /\ DOMAIN slWindow = Symbols /\ \A s \in Symbols : slWindow[s] \in Seq(Pnls)
    /\ TotalsFit(slResults, slRecorded)
    /\ DOMAIN slRecord = Recorders /\ \A r \in Recorders : RecordOK(slRecord[r], slRecorded)
    /\ DOMAIN slProfile.shares \subseteq Symbols /\ DOMAIN slProfile.targets \subseteq Symbols
    /\ KeptIn(slHistory, HistoryLimit) /\ slRecorded \in 0..MaxTrades /\ slProfiled \in 0..MaxProfiles
    /\ slLooking = NotLooking \/ slLooking \in Exposures
    /\ slRaced \in BOOLEAN /\ slTorn \in BOOLEAN

LEMMA SleeveFacts ==
    /\ IsFiniteSet(Symbols) /\ Unassigned \in Symbols /\ Window \in Nat \ {0}
    /\ HistoryLimit \in Nat \ {0} /\ MaxTrades \in Nat /\ MaxProfiles \in Nat /\ Pnls \subseteq Int
    /\ DOMAIN Past = Symbols
    /\ \A s \in Symbols : Past[s] \in Seq(Pnls) /\ Len(Past[s]) \in Nat /\ KeptIn(Len(Past[s]), Window)
<1>1. \A s \in Symbols : Past[s] \in Seq(Pnls) /\ (Window = 1 \/ Len(Past[s]) <= Window)
  BY SleevesAssumption DEF SleevesAssumption
<1>2. \A s \in Symbols : Len(Past[s]) \in Nat  BY <1>1
<1> QED  BY <1>1, <1>2, SleevesAssumption DEF SleevesAssumption, KeptIn

LEMMA TotalsFields ==
    ASSUME NEW w
    PROVE  /\ TotalsOf(w).closed = Len(w) /\ TotalsOf(w).wins = Wins(w) /\ TotalsOf(w).recent = Len(w)
           /\ TotalsOf(w).losses = Cardinality({i \in 1..Len(w) : w[i] < 0})
           /\ TotalsOf(w).recentWins = Wins(w)
BY DEF TotalsOf

LEMMA AddedFields ==
    ASSUME NEW old, NEW w, NEW pnl
    PROVE  LET new == Added(old, w, pnl) IN
           /\ new.closed = old.closed + 1 /\ new.recent = Len(w) /\ new.recentWins = Wins(w)
           /\ new.recentPnl = Earned(w)
           /\ new.wins = old.wins + (IF pnl > 0 THEN 1 ELSE 0)
           /\ new.losses = old.losses + (IF pnl < 0 THEN 1 ELSE 0)
<1>1. PICK c, n, l, e, x, p :
        /\ c = Len(w) /\ n = Wins(w) /\ l = Cardinality({i \in 1..Len(w) : w[i] < 0}) /\ e = Len(w) /\ x = Wins(w)
        /\ p = Earned(w)
  OBVIOUS
<1>2. TotalsOf(w) = [closed |-> c, wins |-> n, losses |-> l, recent |-> e, recentWins |-> x, recentPnl |-> p]
  BY <1>1 DEF TotalsOf
<1>3. PICK a, b, d : /\ a = old.closed + 1 /\ b = old.wins + (IF pnl > 0 THEN 1 ELSE 0)
                     /\ d = old.losses + (IF pnl < 0 THEN 1 ELSE 0)
  OBVIOUS
<1>4. Added(old, w, pnl) = [closed |-> a, wins |-> b, losses |-> d, recent |-> e, recentWins |-> x, recentPnl |-> p]
  <2>1. Added(old, w, pnl) = [[closed |-> c, wins |-> n, losses |-> l, recent |-> e, recentWins |-> x, recentPnl |-> p]
                                 EXCEPT !.closed = a, !.wins = b, !.losses = d]
    BY <1>2, <1>3 DEF Added
  <2> QED  BY <2>1
<1> QED  BY <1>1, <1>3, <1>4

(* A window takes a result at its end, and loses its first when it is full. *)
LEMMA GrownIs ==
    ASSUME NEW w \in Seq(Pnls), NEW pnl \in Pnls
    PROVE  \E m \in Nat, k \in Nat :
              /\ m >= 1 /\ k = Len(w) - m + 1 /\ m + k - 1 = Len(w)
              /\ (Len(w) < Window \/ Window = 1 => m = 1) /\ (Len(w) = Window /\ Window > 1 => m = 2)
              /\ (Window = 1 \/ k < Window)
              /\ Grown(w, pnl) \in Seq(Pnls) /\ Len(Grown(w, pnl)) = k + 1
              /\ Grown(w, pnl)[k + 1] = pnl
              /\ \A i \in 1..k : Grown(w, pnl)[i] = w[m + i - 1] /\ m + i - 1 \in 1..Len(w)
<1>1. PICK l \in Nat : l = Len(w)  OBVIOUS
<1>2. PICK m : m = l - LeftOf(l, Window) + 1  OBVIOUS
<1>3. /\ m \in Nat /\ m >= 1 /\ m <= l + 1 /\ l - m + 1 \in Nat
      /\ (l < Window \/ Window = 1 => m = 1) /\ (l = Window /\ Window > 1 => m = 2)
      /\ (Window = 1 \/ l - m + 1 < Window)
  BY <1>2, SleeveFacts DEF LeftOf, Least
<1>4. PICK k \in Nat : k = l - m + 1  BY <1>3
<1>5. m + k - 1 = l  BY <1>3, <1>4
<1>6. PICK s : s = SubSeq(w, m, l)  OBVIOUS
<1>7. \A i \in m..l : w[i] \in Pnls
  <2>1. \A i \in m..l : i \in 1..Len(w)  BY <1>1, <1>3
  <2> QED  BY <2>1
<1>8. s \in Seq(Pnls) /\ Len(s) = k /\ \A i \in 1..k : s[i] = w[m + i - 1]
  <2>1. m \in Int /\ l \in Int  BY <1>3
  <2>2. /\ SubSeq(w, m, l) \in Seq(Pnls) /\ Len(SubSeq(w, m, l)) = (IF m <= l THEN l - m + 1 ELSE 0)
        /\ \A i \in 1..l - m + 1 : SubSeq(w, m, l)[i] = w[m + i - 1]
    BY <1>7, <2>1, SubSeqProperties
  <2>3. (IF m <= l THEN l - m + 1 ELSE 0) = k  BY <1>3, <1>4
  <2> QED  BY <1>4, <1>6, <2>2, <2>3
<1>9. Grown(w, pnl) = Append(s, pnl)  BY <1>1, <1>2, <1>6 DEF Grown
<1>10. /\ Grown(w, pnl) \in Seq(Pnls) /\ Len(Grown(w, pnl)) = k + 1 /\ Grown(w, pnl)[k + 1] = pnl
       /\ \A i \in 1..k : Grown(w, pnl)[i] = s[i]
  BY <1>8, <1>9
<1>11. \A i \in 1..k : m + i - 1 \in 1..l  BY <1>3, <1>4
<1> QED  BY <1>1, <1>3, <1>4, <1>5, <1>8, <1>10, <1>11

LEMMA GrownFits ==
    ASSUME NEW w \in Seq(Pnls), NEW pnl \in Pnls
    PROVE  Grown(w, pnl) \in Seq(Pnls) /\ KeptIn(Len(Grown(w, pnl)), Window)
<1>1. PICK k \in Nat : (Window = 1 \/ k < Window) /\ Grown(w, pnl) \in Seq(Pnls) /\ Len(Grown(w, pnl)) = k + 1  BY GrownIs
<1> QED  BY <1>1, SleeveFacts DEF KeptIn

LEMMA SleeveInit == SlInit => SleeveInv
<1> SUFFICES ASSUME SlInit PROVE SleeveInv  OBVIOUS
<1>1. DOMAIN slWindow = Symbols  BY SleeveFacts DEF SlInit
<1>2. slWindow = Past /\ slRecorded = 0 /\ slProfiled = 0 /\ slHistory = 0  BY DEF SlInit
<1>3. TotalsFit(slResults, slRecorded)
  <2>1. DOMAIN slResults = Symbols /\ \A s \in Symbols : slResults[s] = TotalsOf(Past[s])  BY DEF SlInit
  <2>2. \A s \in Symbols : slResults[s].closed = Len(Past[s]) /\ slResults[s].recent = Len(Past[s])
    BY <2>1, TotalsFields
  <2> QED  BY <1>2, <2>1, <2>2, SleeveFacts DEF TotalsFit
<1>4. DOMAIN slRecord = Recorders /\ \A r \in Recorders : RecordOK(slRecord[r], slRecorded)  BY DEF SlInit, RecordOK
<1>5. DOMAIN slProfile.shares = {} /\ DOMAIN slProfile.targets = {}  BY DEF SlInit, NoProfile
<1>6. slLooking = NotLooking /\ slRaced = FALSE /\ slTorn = FALSE  BY DEF SlInit
<1>7. \A s \in Symbols : slWindow[s] \in Seq(Pnls)  BY <1>2, SleeveFacts
<1>8. KeptIn(slHistory, HistoryLimit) /\ slRecorded \in 0..MaxTrades /\ slProfiled \in 0..MaxProfiles
  BY <1>2, SleeveFacts DEF KeptIn
<1>9. slRaced \in BOOLEAN /\ slTorn \in BOOLEAN  BY <1>6
<1>10. DOMAIN slProfile.shares \subseteq Symbols /\ DOMAIN slProfile.targets \subseteq Symbols  BY <1>5
<1> QED  BY <1>1, <1>3, <1>4, <1>6, <1>7, <1>8, <1>9, <1>10 DEF SleeveInv

(* Steps that leave the recordings and the totals alone.                    *)
LEMMA ProfileSteps ==
    ASSUME SleeveInv, BeginProfile \/ EndProfile \/ ProfileExpires \/ UNCHANGED slVars
    PROVE  SleeveInv'
<1>1. /\ UNCHANGED <<slWindow, slResults, slRecord, slRecorded, slRaced, slTorn>>
  BY DEF BeginProfile, EndProfile, ProfileExpires, slVars
<1>2. /\ TotalsFit(slResults, slRecorded)' /\ DOMAIN slRecord' = Recorders /\ \A r \in Recorders : RecordOK(slRecord'[r], slRecorded')
      /\ DOMAIN slWindow' = Symbols /\ \A s \in Symbols : slWindow'[s] \in Seq(Pnls)
      /\ slRecorded' \in 0..MaxTrades /\ slRaced' \in BOOLEAN /\ slTorn' \in BOOLEAN
  BY <1>1 DEF SleeveInv, TotalsFit, RecordOK
<1>3. /\ slProfiled' \in 0..MaxProfiles /\ (slLooking' = NotLooking \/ slLooking' \in Exposures)
  BY SleeveFacts DEF BeginProfile, EndProfile, ProfileExpires, slVars, SleeveInv
<1>4. KeptIn(slHistory, HistoryLimit)'
  BY SleeveFacts DEF BeginProfile, EndProfile, ProfileExpires, slVars, SleeveInv, Kept, Least, LeftOf, KeptIn
<1>5. DOMAIN slProfile'.shares \subseteq Symbols /\ DOMAIN slProfile'.targets \subseteq Symbols
  <2>1. CASE EndProfile
    <3>1. PICK weight, shares, targets, turnover :
            /\ shares = Attribution(slLooking, weight) /\ targets = Targets(shares)
            /\ slProfile' = [known |-> TRUE, shares |-> shares, targets |-> targets, turnover |-> turnover]
      BY <2>1 DEF EndProfile, Kept
    <3>2. DOMAIN shares \subseteq Symbols  BY <3>1 DEF Attribution
    <3>3. DOMAIN targets \subseteq Symbols
      <4> DEFINE sleeves == DOMAIN shares \cup {s \in Symbols : slResults[s].closed > 0}
                 quality == [s \in sleeves |-> Quality(s)]
                 raw == [s \in sleeves |-> (quality[s] * Scale) \div Total(quality)]
      <4>1. sleeves \subseteq Symbols  BY <3>2
      <4>2. targets = IF sleeves = {} THEN quality ELSE BoundedShares(raw)  BY <3>1 DEF Targets
      <4>3. DOMAIN raw = sleeves /\ DOMAIN quality = sleeves  OBVIOUS
      <4> HIDE DEF raw
      <4>4. DOMAIN BoundedShares(raw) = DOMAIN raw  BY DEF BoundedShares
      <4> HIDE DEF quality, sleeves
      <4> QED  BY <4>1, <4>2, <4>3, <4>4
    <3> QED  BY <3>1, <3>2, <3>3
  <2>2. CASE ProfileExpires  BY <2>2 DEF ProfileExpires, NoProfile
  <2>3. CASE BeginProfile \/ UNCHANGED slVars  BY <2>3 DEF BeginProfile, slVars, SleeveInv
  <2> QED  BY <2>1, <2>2, <2>3
<1> QED  BY <1>2, <1>3, <1>4, <1>5 DEF SleeveInv

(* A recording's steps leave the profiles alone.                            *)
LEMMA RecordSteps ==
    ASSUME SleeveInv, UNCHANGED <<slProfile, slHistory, slLooking, slProfiled>>,
           DOMAIN slWindow' = Symbols, \A s \in Symbols : slWindow'[s] \in Seq(Pnls),
           TotalsFit(slResults, slRecorded)', slRecorded' \in 0..MaxTrades,
           DOMAIN slRecord' = Recorders, \A r \in Recorders : RecordOK(slRecord'[r], slRecorded'),
           slRaced' \in BOOLEAN, slTorn' \in BOOLEAN
    PROVE  SleeveInv'
BY DEF SleeveInv

LEMMA SleevesForOK == ASSUME SleeveInv, NEW s \in Symbols PROVE SleevesFor(s) \subseteq Symbols
BY DEF SleevesFor, SleeveInv

(* What a recording has, as a record.                                       *)
LEMMA RecordFields ==
    ASSUME NEW r \in Recorders, SleeveInv, slRecord[r].at # "none"
    PROVE  \E a \in {"read", "window", "written"}, s \in Symbols, p \in Pnls, w \in Seq(Pnls) : \E t :
              /\ slRecord[r] = [at |-> a, sleeve |-> s, pnl |-> p, totals |-> t, window |-> w]
              /\ slRecorded >= 1 /\ TotalsFit(t, slRecorded - 1) /\ KeptIn(Len(w), Window)
<1>1. NotRecording.at = "none"  BY DEF NotRecording
<1>2. RecordOK(slRecord[r], slRecorded)  BY DEF SleeveInv
<1>3. PICK d : d = slRecord[r]  OBVIOUS
<1>4. d # NotRecording  BY <1>1, <1>3
<1>5. /\ d = [at |-> d.at, sleeve |-> d.sleeve, pnl |-> d.pnl, totals |-> d.totals, window |-> d.window]
      /\ d.at \in {"read", "window", "written"} /\ d.sleeve \in Symbols /\ d.pnl \in Pnls
      /\ slRecorded >= 1 /\ TotalsFit(d.totals, slRecorded - 1)
      /\ d.window \in Seq(Pnls) /\ KeptIn(Len(d.window), Window)
  BY <1>2, <1>3, <1>4 DEF RecordOK
<1> QED  BY <1>3, <1>5

LEMMA RecordMoves ==
    ASSUME NEW a, NEW s, NEW p, NEW t, NEW w, NEW g
    PROVE  /\ [[at |-> a, sleeve |-> s, pnl |-> p, totals |-> t, window |-> w] EXCEPT !.at = "window", !.window = g]
                 = [at |-> "window", sleeve |-> s, pnl |-> p, totals |-> t, window |-> g]
           /\ [[at |-> a, sleeve |-> s, pnl |-> p, totals |-> t, window |-> w] EXCEPT !.at = "written"]
                 = [at |-> "written", sleeve |-> s, pnl |-> p, totals |-> t, window |-> w]
<1>1. [[at |-> a, sleeve |-> s, pnl |-> p, totals |-> t, window |-> w] EXCEPT !.at = "window", !.window = g]
                 = [at |-> "window", sleeve |-> s, pnl |-> p, totals |-> t, window |-> g]
  <2>1. PICK d : d = [at |-> a, sleeve |-> s, pnl |-> p, totals |-> t, window |-> w]  OBVIOUS
  <2>2. PICK b : b = "window"  OBVIOUS
  <2>3. [d EXCEPT !.at = b, !.window = g] = [[d EXCEPT !.at = b] EXCEPT !.window = g]  OBVIOUS
  <2>4. [d EXCEPT !.at = b] = [at |-> b, sleeve |-> s, pnl |-> p, totals |-> t, window |-> w]  BY <2>1
  <2>5. [[at |-> b, sleeve |-> s, pnl |-> p, totals |-> t, window |-> w] EXCEPT !.window = g]
          = [at |-> b, sleeve |-> s, pnl |-> p, totals |-> t, window |-> g]
    OBVIOUS
  <2>6. [d EXCEPT !.at = b, !.window = g] = [at |-> b, sleeve |-> s, pnl |-> p, totals |-> t, window |-> g]
    BY <2>3, <2>4, <2>5, Zenon
  <2> QED  BY <2>1, <2>2, <2>6, Zenon
<1>2. [[at |-> a, sleeve |-> s, pnl |-> p, totals |-> t, window |-> w] EXCEPT !.at = "written"]
                 = [at |-> "written", sleeve |-> s, pnl |-> p, totals |-> t, window |-> w]
  OBVIOUS
<1> QED  BY <1>1, <1>2

LEMMA TotalsGrow ==
    ASSUME NEW f, NEW m \in Nat, NEW n \in Nat, m <= n, TotalsFit(f, m)
    PROVE  TotalsFit(f, n)
<1> SUFFICES ASSUME NEW s \in Symbols PROVE f[s].closed <= Len(Past[s]) + n
  BY DEF TotalsFit
<1>1. PICK l \in Nat : l = Len(Past[s])  BY SleeveFacts
<1>2. f[s].closed \in Nat /\ f[s].closed <= l + m  BY <1>1 DEF TotalsFit
<1>3. f[s].closed <= l + n  BY <1>2
<1> QED  BY <1>1, <1>3

LEMMA BeginRecordOK ==
    ASSUME SleeveInv, NEW r \in Recorders, NEW s \in Symbols, NEW pnl \in Pnls, BeginRecord(r, s, pnl)
    PROVE  /\ SleeveInv'
           /\ \E sleeve \in Symbols :
                 slRecord'[r] = [at |-> "read", sleeve |-> sleeve, pnl |-> pnl, totals |-> slResults, window |-> <<>>]
           /\ \A x \in Recorders : x # r => slRecord'[x] = slRecord[x]
<1>1. PICK sleeve \in Symbols :
        slRecord' = [slRecord EXCEPT ![r] =
              [at |-> "read", sleeve |-> sleeve, pnl |-> pnl, totals |-> slResults, window |-> <<>>]]
  BY SleevesForOK DEF BeginRecord
<1>2. PICK d : d = [at |-> "read", sleeve |-> sleeve, pnl |-> pnl, totals |-> slResults, window |-> <<>>]  OBVIOUS
<1>3. slRecorded \in Nat /\ slRecorded' = slRecorded + 1 /\ slRecorded' \in 0..MaxTrades
  BY SleeveFacts DEF BeginRecord, SleeveInv
<1>4. DOMAIN slRecord' = Recorders /\ slRecord'[r] = d /\ \A x \in Recorders : x # r => slRecord'[x] = slRecord[x]
  BY <1>1, <1>2 DEF SleeveInv
<1>5. TotalsFit(slResults, slRecorded)  BY DEF SleeveInv
<1>6. RecordOK(d, slRecorded')
  <2>1. /\ d.at = "read" /\ d.sleeve = sleeve /\ d.pnl = pnl /\ d.totals = slResults /\ d.window = <<>>
        /\ d = [at |-> d.at, sleeve |-> d.sleeve, pnl |-> d.pnl, totals |-> d.totals, window |-> d.window]
    BY <1>2
  <2>2. slRecorded' >= 1 /\ slRecorded' - 1 = slRecorded  BY <1>3
  <2>3. KeptIn(Len(<<>>), Window) /\ <<>> \in Seq(Pnls)  BY SleeveFacts DEF KeptIn
  <2> QED  BY <1>5, <2>1, <2>2, <2>3 DEF RecordOK
<1>7. ASSUME NEW x \in Recorders, x # r PROVE RecordOK(slRecord'[x], slRecorded')
  <2>1. PICK e : e = slRecord[x]  OBVIOUS
  <2>2. RecordOK(e, slRecorded)  BY <2>1 DEF SleeveInv
  <2>3. ASSUME e = NotRecording PROVE RecordOK(e, slRecorded')  BY <2>3 DEF RecordOK
  <2>4. ASSUME e # NotRecording PROVE RecordOK(e, slRecorded')
    <3>1. /\ e = [at |-> e.at, sleeve |-> e.sleeve, pnl |-> e.pnl, totals |-> e.totals, window |-> e.window]
          /\ e.at \in {"read", "window", "written"} /\ e.sleeve \in Symbols /\ e.pnl \in Pnls
          /\ slRecorded >= 1 /\ TotalsFit(e.totals, slRecorded - 1)
          /\ e.window \in Seq(Pnls) /\ KeptIn(Len(e.window), Window)
      BY <2>2, <2>4 DEF RecordOK
    <3>2. TotalsFit(e.totals, slRecorded' - 1) /\ slRecorded' >= 1
      <4>1. slRecorded - 1 \in Nat /\ slRecorded' - 1 \in Nat /\ slRecorded - 1 <= slRecorded' - 1 /\ slRecorded' >= 1
        BY <1>3, <3>1
      <4>2. PICK m \in Nat, n \in Nat : m = slRecorded - 1 /\ n = slRecorded' - 1  BY <4>1
      <4>3. TotalsFit(e.totals, n)  BY <3>1, <4>1, <4>2, TotalsGrow
      <4> QED  BY <4>1, <4>2, <4>3
    <3> QED  BY <3>1, <3>2 DEF RecordOK
  <2>5. RecordOK(e, slRecorded')  BY <2>3, <2>4
  <2> QED  BY <1>4, <1>7, <2>1, <2>5
<1>8. \A x \in Recorders : RecordOK(slRecord'[x], slRecorded')
  <2> SUFFICES ASSUME NEW x \in Recorders PROVE RecordOK(slRecord'[x], slRecorded')  OBVIOUS
  <2> QED  BY <1>4, <1>6, <1>7
<1>9. TotalsFit(slResults, slRecorded)'
  <2>1. slResults' = slResults  BY DEF BeginRecord
  <2>2. PICK m \in Nat, n \in Nat : m = slRecorded /\ n = slRecorded' /\ m <= n  BY <1>3
  <2>3. TotalsFit(slResults, n)  BY <1>5, <2>2, TotalsGrow
  <2> QED  BY <2>1, <2>2, <2>3 DEF TotalsFit
<1>10. /\ UNCHANGED <<slProfile, slHistory, slLooking, slProfiled, slWindow, slTorn>>
       /\ slRaced' = (slRaced \/ \E x \in Recorders : slRecord[x] # NotRecording)
  BY DEF BeginRecord
<1>11. slRaced' \in BOOLEAN  BY <1>10
<1>12. slTorn' \in BOOLEAN /\ DOMAIN slWindow' = Symbols /\ \A x \in Symbols : slWindow'[x] \in Seq(Pnls)
  BY <1>10 DEF SleeveInv
<1>13. SleeveInv'  BY <1>3, <1>4, <1>8, <1>9, <1>10, <1>11, <1>12, RecordSteps
<1> QED  BY <1>1, <1>2, <1>4, <1>13

LEMMA ReadWindowOK ==
    ASSUME SleeveInv, NEW r \in Recorders, ReadWindow(r)
    PROVE  /\ SleeveInv'
           /\ \E s \in Symbols, p \in Pnls : \E w, t :
                 /\ slRecord[r] = [at |-> "read", sleeve |-> s, pnl |-> p, totals |-> t, window |-> w]
                 /\ slRecord'[r] = [at |-> "window", sleeve |-> s, pnl |-> p, totals |-> t,
                                    window |-> Grown(slWindow[s], p)]
           /\ \A x \in Recorders : x # r => slRecord'[x] = slRecord[x]
<1>1. slRecord[r].at = "read"  BY DEF ReadWindow
<1>2. PICK a \in {"read", "window", "written"}, s \in Symbols, p \in Pnls, w \in Seq(Pnls) : \E t :
              /\ slRecord[r] = [at |-> a, sleeve |-> s, pnl |-> p, totals |-> t, window |-> w]
              /\ slRecorded >= 1 /\ TotalsFit(t, slRecorded - 1) /\ KeptIn(Len(w), Window)
  BY <1>1, RecordFields
<1>3. PICK t : /\ slRecord[r] = [at |-> a, sleeve |-> s, pnl |-> p, totals |-> t, window |-> w]
               /\ slRecorded >= 1 /\ TotalsFit(t, slRecorded - 1)
  BY <1>2
<1>4. a = "read" /\ slRecord[r].sleeve = s /\ slRecord[r].pnl = p  BY <1>1, <1>3
<1>5. PICK g : g = Grown(slWindow[s], p)  OBVIOUS
<1>6. g \in Seq(Pnls) /\ KeptIn(Len(g), Window)  BY <1>5, GrownFits DEF SleeveInv
<1>7. slRecord' = [slRecord EXCEPT ![r].at = "window", ![r].window = g]
  BY <1>4, <1>5 DEF ReadWindow, Grown
<1>8. DOMAIN slRecord = Recorders  BY DEF SleeveInv
<1>9. PICK d : d = [at |-> "window", sleeve |-> s, pnl |-> p, totals |-> t, window |-> g]  OBVIOUS
<1>10. DOMAIN slRecord' = Recorders /\ slRecord'[r] = d /\ \A x \in Recorders : x # r => slRecord'[x] = slRecord[x]
  <2>1. slRecord'[r] = [slRecord[r] EXCEPT !.at = "window", !.window = g]  BY <1>7, <1>8
  <2>2. slRecord'[r] = [[at |-> a, sleeve |-> s, pnl |-> p, totals |-> t, window |-> w]
                          EXCEPT !.at = "window", !.window = g]
    BY <1>3, <2>1, Zenon
  <2>3. slRecord'[r] = d  BY <1>9, <2>2, RecordMoves, Zenon
  <2> QED  BY <1>7, <1>8, <2>3
<1>11. UNCHANGED <<slWindow, slResults, slProfile, slHistory, slLooking, slRecorded, slProfiled, slRaced, slTorn>>
  BY DEF ReadWindow
<1>12. RecordOK(d, slRecorded')
  <2>1. d.at = "window" /\ d.sleeve = s /\ d.pnl = p /\ d.totals = t /\ d.window = g  BY <1>9
  <2>2. d = [at |-> d.at, sleeve |-> d.sleeve, pnl |-> d.pnl, totals |-> d.totals, window |-> d.window]  BY <1>9
  <2> QED  BY <1>3, <1>6, <1>11, <2>1, <2>2 DEF RecordOK
<1>13. \A x \in Recorders : RecordOK(slRecord'[x], slRecorded')
  BY <1>10, <1>11, <1>12 DEF SleeveInv
<1>14. TotalsFit(slResults, slRecorded)'  BY <1>11 DEF SleeveInv, TotalsFit
<1>15. /\ DOMAIN slWindow' = Symbols /\ \A x \in Symbols : slWindow'[x] \in Seq(Pnls)
       /\ slRecorded' \in 0..MaxTrades /\ slRaced' \in BOOLEAN /\ slTorn' \in BOOLEAN
  BY <1>11 DEF SleeveInv
<1>16. SleeveInv'  BY <1>10, <1>11, <1>13, <1>14, <1>15, RecordSteps
<1>17. slRecord[r] = [at |-> "read", sleeve |-> s, pnl |-> p, totals |-> t, window |-> w]  BY <1>3, <1>4
<1>18. slRecord'[r] = [at |-> "window", sleeve |-> s, pnl |-> p, totals |-> t, window |-> Grown(slWindow[s], p)]
  BY <1>5, <1>9, <1>10
<1> QED  BY <1>10, <1>16, <1>17, <1>18, Zenon

LEMMA WriteWindowOK ==
    ASSUME SleeveInv, NEW r \in Recorders, WriteWindow(r)
    PROVE  /\ SleeveInv'
           /\ \E s \in Symbols, p \in Pnls, w \in Seq(Pnls) : \E t :
                 /\ slRecord[r] = [at |-> "window", sleeve |-> s, pnl |-> p, totals |-> t, window |-> w]
                 /\ slRecord'[r] = [at |-> "written", sleeve |-> s, pnl |-> p, totals |-> t, window |-> w]
                 /\ slWindow'[s] = w /\ \A x \in Symbols : x # s => slWindow'[x] = slWindow[x]
           /\ \A x \in Recorders : x # r => slRecord'[x] = slRecord[x]
<1>1. slRecord[r].at = "window"  BY DEF WriteWindow
<1>2. PICK a \in {"read", "window", "written"}, s \in Symbols, p \in Pnls, w \in Seq(Pnls) : \E t :
              /\ slRecord[r] = [at |-> a, sleeve |-> s, pnl |-> p, totals |-> t, window |-> w]
              /\ slRecorded >= 1 /\ TotalsFit(t, slRecorded - 1) /\ KeptIn(Len(w), Window)
  BY <1>1, RecordFields
<1>3. PICK t : /\ slRecord[r] = [at |-> a, sleeve |-> s, pnl |-> p, totals |-> t, window |-> w]
               /\ slRecorded >= 1 /\ TotalsFit(t, slRecorded - 1)
  BY <1>2
<1>4. a = "window" /\ slRecord[r].sleeve = s /\ slRecord[r].window = w  BY <1>1, <1>3
<1>5. slRecord' = [slRecord EXCEPT ![r].at = "written"]  BY DEF WriteWindow
<1>6. DOMAIN slRecord = Recorders /\ DOMAIN slWindow = Symbols  BY DEF SleeveInv
<1>7. PICK d : d = [at |-> "written", sleeve |-> s, pnl |-> p, totals |-> t, window |-> w]  OBVIOUS
<1>8. DOMAIN slRecord' = Recorders /\ slRecord'[r] = d /\ \A x \in Recorders : x # r => slRecord'[x] = slRecord[x]
  <2>1. slRecord'[r] = [slRecord[r] EXCEPT !.at = "written"]  BY <1>5, <1>6
  <2>2. slRecord'[r] = [[at |-> a, sleeve |-> s, pnl |-> p, totals |-> t, window |-> w] EXCEPT !.at = "written"]
    BY <1>3, <2>1, Zenon
  <2>3. slRecord'[r] = d  BY <1>7, <2>2, RecordMoves, Zenon
  <2> QED  BY <1>5, <1>6, <2>3
<1>9. UNCHANGED <<slResults, slProfile, slHistory, slLooking, slRecorded, slProfiled, slRaced, slTorn>>
  BY DEF WriteWindow
<1>10. slWindow' = [slWindow EXCEPT ![s] = w]  BY <1>4 DEF WriteWindow
<1>11. /\ DOMAIN slWindow' = Symbols /\ slWindow'[s] = w /\ \A x \in Symbols : x # s => slWindow'[x] = slWindow[x]
  BY <1>6, <1>10
<1>12. \A x \in Symbols : slWindow'[x] \in Seq(Pnls)  BY <1>2, <1>11 DEF SleeveInv
<1>13. RecordOK(d, slRecorded')
  <2>1. d.at = "written" /\ d.sleeve = s /\ d.pnl = p /\ d.totals = t /\ d.window = w  BY <1>7
  <2>2. d = [at |-> d.at, sleeve |-> d.sleeve, pnl |-> d.pnl, totals |-> d.totals, window |-> d.window]  BY <1>7
  <2> QED  BY <1>2, <1>3, <1>9, <2>1, <2>2 DEF RecordOK
<1>14. \A x \in Recorders : RecordOK(slRecord'[x], slRecorded')
  BY <1>8, <1>9, <1>13 DEF SleeveInv
<1>15. TotalsFit(slResults, slRecorded)'  BY <1>9 DEF SleeveInv, TotalsFit
<1>16. slRecorded' \in 0..MaxTrades /\ slRaced' \in BOOLEAN /\ slTorn' \in BOOLEAN  BY <1>9 DEF SleeveInv
<1>17. SleeveInv'  BY <1>8, <1>9, <1>11, <1>12, <1>14, <1>15, <1>16, RecordSteps
<1>18. slRecord[r] = [at |-> "window", sleeve |-> s, pnl |-> p, totals |-> t, window |-> w]  BY <1>3, <1>4
<1>19. slRecord'[r] = [at |-> "written", sleeve |-> s, pnl |-> p, totals |-> t, window |-> w]  BY <1>7, <1>8
<1> QED  BY <1>8, <1>11, <1>17, <1>18, <1>19, Zenon

LEMMA WriteTotalsOK ==
    ASSUME SleeveInv, NEW r \in Recorders, WriteTotals(r)
    PROVE  /\ SleeveInv'
           /\ \E s \in Symbols, p \in Pnls, w \in Seq(Pnls) : \E t :
                 /\ slRecord[r] = [at |-> "written", sleeve |-> s, pnl |-> p, totals |-> t, window |-> w]
                 /\ slResults'[s] = Added(t[s], w, p) /\ \A x \in Symbols : x # s => slResults'[x] = t[x]
           /\ slRecord'[r] = NotRecording
           /\ \A x \in Recorders : x # r => slRecord'[x] = slRecord[x]
<1>1. slRecord[r].at = "written"  BY DEF WriteTotals
<1>2. PICK a \in {"read", "window", "written"}, s \in Symbols, p \in Pnls, w \in Seq(Pnls) : \E t :
              /\ slRecord[r] = [at |-> a, sleeve |-> s, pnl |-> p, totals |-> t, window |-> w]
              /\ slRecorded >= 1 /\ TotalsFit(t, slRecorded - 1) /\ KeptIn(Len(w), Window)
  BY <1>1, RecordFields
<1>3. PICK t : /\ slRecord[r] = [at |-> a, sleeve |-> s, pnl |-> p, totals |-> t, window |-> w]
               /\ slRecorded >= 1 /\ TotalsFit(t, slRecorded - 1)
  BY <1>2
<1>4. /\ a = "written" /\ slRecord[r].sleeve = s /\ slRecord[r].pnl = p
      /\ slRecord[r].totals = t /\ slRecord[r].window = w
  BY <1>1, <1>3
<1>5. PICK n : n = Added(t[s], w, p)  OBVIOUS
<1>6. slResults' = [t EXCEPT ![s] = n]  BY <1>4, <1>5 DEF WriteTotals, Added
<1>7. slRecord' = [slRecord EXCEPT ![r] = NotRecording]  BY DEF WriteTotals
<1>8. UNCHANGED <<slWindow, slProfile, slHistory, slLooking, slRecorded, slProfiled, slRaced, slTorn>>
  BY DEF WriteTotals
<1>9. DOMAIN t = Symbols /\ \A x \in Symbols :
          t[x].closed \in Nat /\ t[x].closed <= Len(Past[x]) + (slRecorded - 1) /\ KeptIn(t[x].recent, Window)
  BY <1>3 DEF TotalsFit
<1>10. DOMAIN slResults' = Symbols /\ slResults'[s] = n /\ \A x \in Symbols : x # s => slResults'[x] = t[x]
  BY <1>6, <1>9
<1>11. n.closed = t[s].closed + 1 /\ n.recent = Len(w)
  BY <1>5, AddedFields
<1>12. slRecorded \in Nat /\ slRecorded' = slRecorded  BY <1>8, SleeveFacts DEF SleeveInv
<1>13. TotalsFit(slResults, slRecorded)'
  <2>1. \A x \in Symbols : Len(Past[x]) \in Nat  BY SleeveFacts
  <2>2. KeptIn(Len(w), Window)  BY <1>2
  <2>3. /\ n.closed \in Nat /\ n.closed <= Len(Past[s]) + slRecorded /\ KeptIn(n.recent, Window)
    BY <1>9, <1>11, <1>12, <2>1, <2>2
  <2>4. \A x \in Symbols : t[x].closed <= Len(Past[x]) + slRecorded
    BY <1>9, <1>12, <2>1
  <2> QED  BY <1>9, <1>10, <1>12, <2>3, <2>4 DEF TotalsFit
<1>14. /\ DOMAIN slRecord' = Recorders /\ slRecord'[r] = NotRecording
       /\ \A x \in Recorders : x # r => slRecord'[x] = slRecord[x]
  BY <1>7 DEF SleeveInv
<1>15. \A x \in Recorders : RecordOK(slRecord'[x], slRecorded')
  <2>1. RecordOK(NotRecording, slRecorded')  BY DEF RecordOK
  <2> QED  BY <1>12, <1>14, <2>1 DEF SleeveInv
<1>16. /\ DOMAIN slWindow' = Symbols /\ \A x \in Symbols : slWindow'[x] \in Seq(Pnls)
       /\ slRecorded' \in 0..MaxTrades /\ slRaced' \in BOOLEAN /\ slTorn' \in BOOLEAN
  BY <1>8 DEF SleeveInv
<1>17. SleeveInv'  BY <1>8, <1>13, <1>14, <1>15, <1>16, RecordSteps
<1> QED  BY <1>3, <1>4, <1>5, <1>10, <1>14, <1>17

LEMMA RecorderDiesOK ==
    ASSUME SleeveInv, NEW r \in Recorders, RecorderDies(r)
    PROVE  SleeveInv'
<1>1. slRecord' = [slRecord EXCEPT ![r] = NotRecording] /\ slTorn' = TRUE  BY DEF RecorderDies
<1>2. UNCHANGED <<slWindow, slResults, slProfile, slHistory, slLooking, slRecorded, slProfiled, slRaced>>
  BY DEF RecorderDies
<1>3. /\ DOMAIN slRecord' = Recorders /\ slRecord'[r] = NotRecording
      /\ \A x \in Recorders : x # r => slRecord'[x] = slRecord[x]
  BY <1>1 DEF SleeveInv
<1>4. \A x \in Recorders : RecordOK(slRecord'[x], slRecorded')
  <2>1. RecordOK(NotRecording, slRecorded')  BY DEF RecordOK
  <2> QED  BY <1>2, <1>3, <2>1 DEF SleeveInv
<1>5. TotalsFit(slResults, slRecorded)'  BY <1>2 DEF SleeveInv, TotalsFit
<1>6. /\ DOMAIN slWindow' = Symbols /\ \A x \in Symbols : slWindow'[x] \in Seq(Pnls)
      /\ slRecorded' \in 0..MaxTrades /\ slRaced' \in BOOLEAN /\ slTorn' \in BOOLEAN
  BY <1>1, <1>2 DEF SleeveInv
<1> QED  BY <1>2, <1>3, <1>4, <1>5, <1>6, RecordSteps

LEMMA SleeveStep == SleeveInv /\ [SlNext]_slVars => SleeveInv'
<1> SUFFICES ASSUME SleeveInv, [SlNext]_slVars PROVE SleeveInv'  OBVIOUS
<1>1. CASE BeginProfile \/ EndProfile \/ ProfileExpires \/ UNCHANGED slVars  BY <1>1, ProfileSteps
<1>2. CASE \E r \in Recorders, s \in Symbols, pnl \in Pnls : BeginRecord(r, s, pnl)  BY <1>2, BeginRecordOK
<1>3. CASE \E r \in Recorders : ReadWindow(r)  BY <1>3, ReadWindowOK
<1>4. CASE \E r \in Recorders : WriteWindow(r)  BY <1>4, WriteWindowOK
<1>5. CASE \E r \in Recorders : WriteTotals(r)  BY <1>5, WriteTotalsOK
<1>6. CASE \E r \in Recorders : RecorderDies(r)  BY <1>6, RecorderDiesOK
<1> QED  BY <1>1, <1>2, <1>3, <1>4, <1>5, <1>6 DEF SlNext

LEMMA SleeveTyped == SleeveInv => SlTypeOK
<1> SUFFICES ASSUME SleeveInv PROVE SlTypeOK  OBVIOUS
<1>1. \A s \in Symbols : \A i \in 1..Len(slWindow[s]) : slWindow[s][i] \in Pnls
  BY DEF SleeveInv
<1>2. \A s \in Symbols : slResults[s].closed \in 0..Len(Past[s]) + MaxTrades /\ KeptIn(slResults[s].recent, Window)
  <2> SUFFICES ASSUME NEW s \in Symbols
               PROVE  slResults[s].closed \in 0..Len(Past[s]) + MaxTrades /\ KeptIn(slResults[s].recent, Window)
    OBVIOUS
  <2>1. PICK l \in Nat : l = Len(Past[s])  BY SleeveFacts
  <2>2. /\ slResults[s].closed \in Nat /\ slResults[s].closed <= l + slRecorded /\ KeptIn(slResults[s].recent, Window)
    BY <2>1 DEF SleeveInv, TotalsFit
  <2>3. slRecorded \in 0..MaxTrades  BY DEF SleeveInv
  <2>4. slResults[s].closed \in 0..l + MaxTrades  BY <2>2, <2>3, SleeveFacts
  <2> QED  BY <2>1, <2>2, <2>4
<1>3. \A r \in Recorders : slRecord[r].at \in {"none", "read", "window", "written"}
  <2> SUFFICES ASSUME NEW r \in Recorders, slRecord[r].at # "none"
               PROVE  slRecord[r].at \in {"read", "window", "written"}
    OBVIOUS
  <2>1. \E a \in {"read", "window", "written"} : slRecord[r].at = a
    <3>1. PICK a \in {"read", "window", "written"}, s \in Symbols, p \in Pnls, w \in Seq(Pnls) : \E t :
             /\ slRecord[r] = [at |-> a, sleeve |-> s, pnl |-> p, totals |-> t, window |-> w]
             /\ slRecorded >= 1 /\ TotalsFit(t, slRecorded - 1) /\ KeptIn(Len(w), Window)
      BY RecordFields
    <3> QED  BY <3>1
  <2> QED  BY <2>1
<1> QED  BY <1>1, <1>2, <1>3 DEF SlTypeOK, SleeveInv

(* A sleeve's totals and its window.                                        *)
Matches(r, w) ==
    /\ r.closed \in Nat /\ r.wins \in Nat /\ r.losses \in Nat
    /\ r.recent = Len(w) /\ Len(w) = IF Window = 1 THEN r.closed ELSE Least(r.closed, Window)
    /\ r.recentWins = Wins(w) /\ Wins(w) <= r.wins /\ r.wins + r.losses <= r.closed

(* A recording, unless another ran beside it: it has the totals, and once    *)
(* it has the window, the two match with the new result.                     *)
Consistent(d) ==
    \/ d = NotRecording
    \/ /\ d.totals = slResults
       /\ d.at # "read" => Matches(Added(d.totals[d.sleeve], d.window, d.pnl), d.window)
       /\ d.at = "written" => slWindow[d.sleeve] = d.window

HalfWritten(s) == \E r \in Recorders : slRecord[r].at = "written" /\ slRecord[r].sleeve = s

MatchInv ==
    ~slRaced /\ ~slTorn =>
        /\ \A r, x \in Recorders : slRecord[r] # NotRecording /\ slRecord[x] # NotRecording => r = x
        /\ \A r \in Recorders : Consistent(slRecord[r])
        /\ \A s \in Symbols : HalfWritten(s) \/ Matches(slResults[s], slWindow[s])

LEMMA WonAndLost ==
    ASSUME NEW w \in Seq(Pnls)
    PROVE  /\ Wins(w) \in Nat /\ Cardinality({i \in 1..Len(w) : w[i] < 0}) \in Nat
           /\ Wins(w) + Cardinality({i \in 1..Len(w) : w[i] < 0}) <= Len(w)
<1> DEFINE won == {i \in 1..Len(w) : w[i] > 0}
           lost == {i \in 1..Len(w) : w[i] < 0}
<1>1. PICK l \in Nat : l = Len(w)  OBVIOUS
<1>2. IsFiniteSet(1..l) /\ Cardinality(1..l) = l  BY FS_Interval
<1>3. won \subseteq 1..l /\ lost \subseteq 1..l  BY <1>1
<1>4. won \cap lost = {}
  <2>1. \A i \in 1..l : w[i] \in Pnls  BY <1>1
  <2>2. \A i \in 1..l : w[i] \in Int  BY <2>1, SleeveFacts
  <2> QED  BY <1>1, <2>2
<1>5. Wins(w) = Cardinality(won)  BY DEF Wins
<1> HIDE DEF won, lost
<1>6. IsFiniteSet(won) /\ IsFiniteSet(lost) /\ Cardinality(won) \in Nat /\ Cardinality(lost) \in Nat
  BY <1>2, <1>3, FS_Subset, FS_CardinalityType
<1>7. won \cup lost \subseteq 1..l  BY <1>3
<1>8. Cardinality(won \cup lost) <= l  BY <1>2, <1>7, FS_Subset
<1>9. Cardinality(won \cap lost) = 0  BY <1>4, FS_EmptySet
<1>10. Cardinality(won \cup lost) = Cardinality(won) + Cardinality(lost) - Cardinality(won \cap lost)
  BY <1>6, FS_Union
<1> QED  BY <1>1, <1>5, <1>6, <1>8, <1>9, <1>10 DEF lost

LEMMA PastMatches == \A s \in Symbols : Matches(TotalsOf(Past[s]), Past[s])
<1> SUFFICES ASSUME NEW s \in Symbols PROVE Matches(TotalsOf(Past[s]), Past[s])
  OBVIOUS
<1>1. PICK w : w = Past[s]  OBVIOUS
<1>2. w \in Seq(Pnls) /\ Len(w) \in Nat /\ (Window = 1 \/ Len(w) <= Window) /\ Window \in Nat
  BY <1>1, SleeveFacts DEF KeptIn
<1>3. PICK r : r = TotalsOf(w)  OBVIOUS
<1>4. r.closed = Len(w) /\ r.wins = Wins(w) /\ r.recent = Len(w) /\ r.recentWins = Wins(w)
      /\ r.losses = Cardinality({i \in 1..Len(w) : w[i] < 0})
  BY <1>3, TotalsFields
<1>5. /\ Wins(w) \in Nat /\ r.losses \in Nat /\ Wins(w) + r.losses <= Len(w)  BY <1>2, <1>4, WonAndLost
<1>6. Matches(r, w)  BY <1>2, <1>4, <1>5 DEF Matches, Least
<1> QED  BY <1>1, <1>3, <1>6

(* One more result, and the window without its first if it is full.         *)
LEMMA WinsGrow ==
    ASSUME NEW w \in Seq(Pnls), NEW pnl \in Pnls
    PROVE  Wins(Grown(w, pnl)) <= Wins(w) + (IF pnl > 0 THEN 1 ELSE 0)
<1>1. PICK m \in Nat, k \in Nat :
              /\ m >= 1 /\ m + k - 1 = Len(w)
              /\ Grown(w, pnl) \in Seq(Pnls) /\ Len(Grown(w, pnl)) = k + 1
              /\ Grown(w, pnl)[k + 1] = pnl
              /\ \A i \in 1..k : Grown(w, pnl)[i] = w[m + i - 1] /\ m + i - 1 \in 1..Len(w)
  BY GrownIs
<1>2. PICK g, l : g = Grown(w, pnl) /\ l = Len(w)  OBVIOUS
<1> DEFINE old == {i \in 1..k : g[i] > 0}
           new == {i \in 1..k + 1 : g[i] > 0}
           won == {i \in 1..l : w[i] > 0}
           f == [i \in old |-> m + i - 1]
<1>3. Wins(w) = Cardinality(won) /\ Wins(g) = Cardinality(new)  BY <1>1, <1>2 DEF Wins
<1>4. f \in [old -> won]  BY <1>1, <1>2
<1>5. \A i, j \in old : f[i] = f[j] => i = j  BY <1>1
<1>6. IsFiniteSet(won) /\ Cardinality(won) \in Nat
  <2>1. won \subseteq 1..l /\ l \in Nat  BY <1>2
  <2>2. IsFiniteSet(1..l)  BY <2>1, FS_Interval
  <2> QED  BY <2>1, <2>2, FS_Subset, FS_CardinalityType
<1>7. (pnl > 0 => new = old \cup {k + 1}) /\ (~(pnl > 0) => new = old)
  <2>1. g[k + 1] = pnl  BY <1>1, <1>2
  <2>2. \A i : i \in 1..k + 1 <=> i \in 1..k \/ i = k + 1  BY <1>1
  <2> QED  BY <2>1, <2>2
<1>8. k + 1 \notin old  OBVIOUS
<1> HIDE DEF old, new, won, f
<1>9. f \in Injection(old, won)  BY <1>4, <1>5, Fun_IsInj
<1>10. IsFiniteSet(old) /\ Cardinality(old) <= Cardinality(won)  BY <1>6, <1>9, FS_Injection
<1>11. Cardinality(old) \in Nat  BY <1>10, FS_CardinalityType
<1>12. Cardinality(old \cup {k + 1}) = Cardinality(old) + 1  BY <1>8, <1>10, FS_AddElement
<1>13. CASE pnl > 0
  <2>1. Cardinality(new) = Cardinality(old) + 1  BY <1>7, <1>12, <1>13
  <2> QED  BY <1>2, <1>3, <1>6, <1>10, <1>11, <1>13, <2>1
<1>14. CASE ~(pnl > 0)
  <2>1. Cardinality(new) = Cardinality(old)  BY <1>7, <1>14
  <2> QED  BY <1>2, <1>3, <1>6, <1>10, <1>11, <1>14, <2>1
<1> QED  BY <1>13, <1>14

LEMMA MatchesOn ==
    ASSUME NEW w \in Seq(Pnls), NEW pnl \in Pnls, NEW old, Matches(old, w)
    PROVE  Matches(Added(old, Grown(w, pnl), pnl), Grown(w, pnl))
<1>1. PICK m \in Nat, k \in Nat :
              /\ m >= 1 /\ k = Len(w) - m + 1 /\ m + k - 1 = Len(w)
              /\ (Len(w) < Window \/ Window = 1 => m = 1) /\ (Len(w) = Window /\ Window > 1 => m = 2)
              /\ (Window = 1 \/ k < Window)
              /\ Grown(w, pnl) \in Seq(Pnls) /\ Len(Grown(w, pnl)) = k + 1
              /\ Grown(w, pnl)[k + 1] = pnl
              /\ \A i \in 1..k : Grown(w, pnl)[i] = w[m + i - 1] /\ m + i - 1 \in 1..Len(w)
  BY GrownIs, Zenon
<1>2. PICK g, r : g = Grown(w, pnl) /\ r = Added(old, g, pnl)  OBVIOUS
<1>3. PICK a, b, c, l, n, x, y :
        /\ a = old.closed /\ b = old.wins /\ c = old.losses /\ l = Len(w) /\ n = Wins(g)
        /\ x = (IF pnl > 0 THEN 1 ELSE 0) /\ y = (IF pnl < 0 THEN 1 ELSE 0)
  OBVIOUS
<1>4. /\ r.closed = a + 1 /\ r.wins = b + x /\ r.losses = c + y /\ r.recent = Len(g) /\ r.recentWins = n
  BY <1>2, <1>3, AddedFields
<1>5. n <= Wins(w) + x  BY <1>2, <1>3, WinsGrow
<1>6. Wins(w) \in Nat /\ n \in Nat  BY <1>1, <1>2, <1>3, WonAndLost
<1>7. x \in Nat /\ y \in Nat /\ x + y <= 1  BY <1>3, SleeveFacts
<1>8. /\ a \in Nat /\ b \in Nat /\ c \in Nat /\ l \in Nat /\ l = (IF Window = 1 THEN a ELSE Least(a, Window))
      /\ Wins(w) <= b /\ b + c <= a
  BY <1>3 DEF Matches
<1>9. Window \in Nat \ {0}  BY SleeveFacts
<1>10. Len(g) = k + 1 /\ k = l - m + 1 /\ (l < Window \/ Window = 1 => m = 1) /\ (l = Window /\ Window > 1 => m = 2)
  BY <1>1, <1>2, <1>3
<1>11. k + 1 = IF Window = 1 THEN a + 1 ELSE Least(a + 1, Window)
  <2>0. CASE Window = 1  BY <1>8, <1>10, <2>0
  <2>1. CASE Window # 1 /\ a < Window
    <3>1. l = a /\ m = 1  BY <1>8, <1>9, <1>10, <2>1 DEF Least
    <3>2. k + 1 = a + 1 /\ a + 1 <= Window  BY <1>8, <1>9, <1>10, <2>1, <3>1
    <3> QED  BY <1>8, <1>9, <2>1, <3>2 DEF Least
  <2>2. CASE Window # 1 /\ ~(a < Window)
    <3>1. l = Window /\ m = 2  BY <1>8, <1>9, <1>10, <2>2 DEF Least
    <3>2. k + 1 = Window /\ ~(a + 1 < Window)  BY <1>8, <1>9, <1>10, <2>2, <3>1
    <3> QED  BY <2>2, <3>2 DEF Least
  <2> QED  BY <2>0, <2>1, <2>2
<1>12. n <= b + x /\ b + x + (c + y) <= a + 1 /\ a + 1 \in Nat /\ b + x \in Nat /\ c + y \in Nat
  BY <1>5, <1>6, <1>7, <1>8
<1>13. Matches(r, g)  BY <1>3, <1>4, <1>10, <1>11, <1>12 DEF Matches
<1> QED  BY <1>2, <1>13

LEMMA MatchInit == SlInit => MatchInv
<1> SUFFICES ASSUME SlInit PROVE MatchInv
  OBVIOUS
<1>1. \A r \in Recorders : slRecord[r] = NotRecording  BY DEF SlInit
<1>2. \A s \in Symbols : slResults[s] = TotalsOf(Past[s]) /\ slWindow[s] = Past[s]  BY DEF SlInit
<1>3. \A s \in Symbols : Matches(slResults[s], slWindow[s])  BY <1>2, PastMatches
<1> QED  BY <1>1, <1>3 DEF MatchInv, Consistent

LEMMA NotRecordingAt == NotRecording.at = "none"
BY DEF NotRecording

LEMMA MatchesBegin ==
    ASSUME SleeveInv, MatchInv, NEW r \in Recorders, NEW s \in Symbols, NEW pnl \in Pnls, BeginRecord(r, s, pnl)
    PROVE  MatchInv'
<1> SUFFICES ASSUME ~slRaced', ~slTorn' PROVE MatchInv'
  BY DEF MatchInv
<1>1. /\ slRaced' = (slRaced \/ \E x \in Recorders : slRecord[x] # NotRecording) /\ slTorn' = slTorn
      /\ slWindow' = slWindow /\ slResults' = slResults
  BY DEF BeginRecord
<1>2. ~slRaced /\ ~slTorn /\ \A x \in Recorders : slRecord[x] = NotRecording  BY <1>1
<1>3. PICK sleeve \in Symbols :
        slRecord'[r] = [at |-> "read", sleeve |-> sleeve, pnl |-> pnl, totals |-> slResults, window |-> <<>>]
  BY BeginRecordOK
<1>4. \A x \in Recorders : x # r => slRecord'[x] = slRecord[x]  BY BeginRecordOK
<1>5. slRecord'[r].at = "read" /\ slRecord'[r].totals = slResults  BY <1>3
<1>6. \A x \in Recorders : x # r => slRecord'[x] = NotRecording  BY <1>2, <1>4
<1>7. \A x \in Recorders : Consistent(slRecord[x])'  BY <1>1, <1>5, <1>6 DEF Consistent
<1>8. \A x \in Symbols : Matches(slResults[x], slWindow[x])
  <2>1. \A x \in Symbols : ~HalfWritten(x)  BY <1>2, NotRecordingAt DEF HalfWritten
  <2> QED  BY <1>2, <2>1 DEF MatchInv
<1>9. \A x \in Symbols : Matches(slResults[x], slWindow[x])'  BY <1>1, <1>8 DEF Matches
<1> QED  BY <1>6, <1>7, <1>9 DEF MatchInv

(* What holds of the only recording.                                        *)
LEMMA OnlyRecording ==
    ASSUME SleeveInv, MatchInv, ~slRaced, ~slTorn, NEW r \in Recorders, slRecord[r] # NotRecording
    PROVE  /\ \A x \in Recorders : x # r => slRecord[x] = NotRecording
           /\ slRecord[r].totals = slResults
           /\ slRecord[r].at # "read" =>
                 Matches(Added(slRecord[r].totals[slRecord[r].sleeve], slRecord[r].window, slRecord[r].pnl), slRecord[r].window)
           /\ slRecord[r].at = "written" => slWindow[slRecord[r].sleeve] = slRecord[r].window
           /\ \A s \in Symbols : (slRecord[r].at = "written" /\ slRecord[r].sleeve = s) \/ Matches(slResults[s], slWindow[s])
<1>1. \A x \in Recorders : x # r => slRecord[x] = NotRecording  BY DEF MatchInv
<1>2. Consistent(slRecord[r])  BY DEF MatchInv
<1>3. \A s \in Symbols : HalfWritten(s) => slRecord[r].at = "written" /\ slRecord[r].sleeve = s
  BY <1>1, NotRecordingAt DEF HalfWritten
<1>4. \A s \in Symbols : HalfWritten(s) \/ Matches(slResults[s], slWindow[s])  BY DEF MatchInv
<1>5. \A s \in Symbols : (slRecord[r].at = "written" /\ slRecord[r].sleeve = s) \/ Matches(slResults[s], slWindow[s])
  BY <1>3, <1>4
<1> QED  BY <1>1, <1>2, <1>5 DEF Consistent

LEMMA MatchesRead ==
    ASSUME SleeveInv, MatchInv, NEW r \in Recorders, ReadWindow(r)
    PROVE  MatchInv'
<1> SUFFICES ASSUME ~slRaced', ~slTorn' PROVE MatchInv'
  BY DEF MatchInv
<1>1. UNCHANGED <<slWindow, slResults, slRaced, slTorn>>  BY DEF ReadWindow
<1>2. PICK s \in Symbols, p \in Pnls : \E w, t :
                 /\ slRecord[r] = [at |-> "read", sleeve |-> s, pnl |-> p, totals |-> t, window |-> w]
                 /\ slRecord'[r] = [at |-> "window", sleeve |-> s, pnl |-> p, totals |-> t,
                                    window |-> Grown(slWindow[s], p)]
  BY ReadWindowOK
<1>3. PICK t : \E w :
                 /\ slRecord[r] = [at |-> "read", sleeve |-> s, pnl |-> p, totals |-> t, window |-> w]
                 /\ slRecord'[r] = [at |-> "window", sleeve |-> s, pnl |-> p, totals |-> t,
                                    window |-> Grown(slWindow[s], p)]
  BY <1>2
<1>4. slRecord[r].at = "read" /\ slRecord[r].totals = t /\ slRecord[r] # NotRecording
  BY <1>3, NotRecordingAt
<1>5. PICK g : g = Grown(slWindow[s], p)  OBVIOUS
<1>6. slRecord'[r].at = "window" /\ slRecord'[r].sleeve = s /\ slRecord'[r].pnl = p /\ slRecord'[r].totals = t
      /\ slRecord'[r].window = g
  BY <1>3, <1>5
<1>7. \A x \in Recorders : x # r => slRecord'[x] = slRecord[x]  BY ReadWindowOK
<1>8. /\ \A x \in Recorders : x # r => slRecord[x] = NotRecording
      /\ t = slResults /\ \A x \in Symbols : Matches(slResults[x], slWindow[x])
  BY <1>1, <1>4, OnlyRecording
<1>9. Matches(Added(t[s], g, p), g)
  <2>1. PICK u, o : u = slWindow[s] /\ o = t[s]  OBVIOUS
  <2>2. u \in Seq(Pnls) /\ Matches(o, u)  BY <1>8, <2>1 DEF SleeveInv
  <2>3. Matches(Added(o, Grown(u, p), p), Grown(u, p))  BY <2>2, MatchesOn
  <2> QED  BY <1>5, <2>1, <2>3
<1>10. \A x \in Recorders : x # r => slRecord'[x] = NotRecording  BY <1>7, <1>8
<1>11. \A x \in Recorders : Consistent(slRecord[x])'
  <2> SUFFICES ASSUME NEW x \in Recorders PROVE Consistent(slRecord[x])'
    OBVIOUS
  <2>1. CASE x = r
    <3>1. Matches(Added(t[s], g, p), g)'  BY <1>9 DEF Matches
    <3> QED  BY <1>1, <1>6, <1>8, <1>9, <2>1 DEF Consistent
  <2>2. CASE x # r  BY <1>10, <2>2 DEF Consistent
  <2> QED  BY <2>1, <2>2
<1>12. \A x \in Symbols : Matches(slResults[x], slWindow[x])'  BY <1>1, <1>8 DEF Matches
<1> QED  BY <1>10, <1>11, <1>12 DEF MatchInv

LEMMA MatchesWrite ==
    ASSUME SleeveInv, MatchInv, NEW r \in Recorders, WriteWindow(r)
    PROVE  MatchInv'
<1> SUFFICES ASSUME ~slRaced', ~slTorn' PROVE MatchInv'
  BY DEF MatchInv
<1>1. UNCHANGED <<slResults, slRaced, slTorn>>  BY DEF WriteWindow
<1>2. PICK s \in Symbols, p \in Pnls, w \in Seq(Pnls) : \E t :
                 /\ slRecord[r] = [at |-> "window", sleeve |-> s, pnl |-> p, totals |-> t, window |-> w]
                 /\ slRecord'[r] = [at |-> "written", sleeve |-> s, pnl |-> p, totals |-> t, window |-> w]
                 /\ slWindow'[s] = w /\ \A x \in Symbols : x # s => slWindow'[x] = slWindow[x]
  BY WriteWindowOK
<1>3. PICK t :   /\ slRecord[r] = [at |-> "window", sleeve |-> s, pnl |-> p, totals |-> t, window |-> w]
                 /\ slRecord'[r] = [at |-> "written", sleeve |-> s, pnl |-> p, totals |-> t, window |-> w]
                 /\ slWindow'[s] = w /\ \A x \in Symbols : x # s => slWindow'[x] = slWindow[x]
  BY <1>2
<1>4. /\ slRecord[r].at = "window" /\ slRecord[r].sleeve = s /\ slRecord[r].pnl = p
      /\ slRecord[r].totals = t /\ slRecord[r].window = w /\ slRecord[r] # NotRecording
  BY <1>3, NotRecordingAt
<1>5. /\ slRecord'[r].at = "written" /\ slRecord'[r].sleeve = s /\ slRecord'[r].pnl = p
      /\ slRecord'[r].totals = t /\ slRecord'[r].window = w
  BY <1>3
<1>6. \A x \in Recorders : x # r => slRecord'[x] = slRecord[x]  BY WriteWindowOK
<1>7. /\ \A x \in Recorders : x # r => slRecord[x] = NotRecording
      /\ t = slResults /\ Matches(Added(t[s], w, p), w)
      /\ \A x \in Symbols : Matches(slResults[x], slWindow[x])
  BY <1>1, <1>4, OnlyRecording
<1>8. \A x \in Recorders : x # r => slRecord'[x] = NotRecording  BY <1>6, <1>7
<1>9. \A x \in Recorders : Consistent(slRecord[x])'
  <2> SUFFICES ASSUME NEW x \in Recorders PROVE Consistent(slRecord[x])'
    OBVIOUS
  <2>1. CASE x = r  BY <1>1, <1>3, <1>5, <1>7, <2>1 DEF Consistent
  <2>2. CASE x # r  BY <1>8, <2>2 DEF Consistent
  <2> QED  BY <2>1, <2>2
<1>10. HalfWritten(s)'  BY <1>5 DEF HalfWritten
<1>11. \A x \in Symbols : HalfWritten(x)' \/ Matches(slResults[x], slWindow[x])'
  <2> SUFFICES ASSUME NEW x \in Symbols, x # s PROVE Matches(slResults[x], slWindow[x])'
    BY <1>10
  <2> QED  BY <1>1, <1>3, <1>7 DEF Matches
<1> QED  BY <1>8, <1>9, <1>11 DEF MatchInv

LEMMA MatchesEnd ==
    ASSUME SleeveInv, MatchInv, NEW r \in Recorders, WriteTotals(r)
    PROVE  MatchInv'
<1> SUFFICES ASSUME ~slRaced', ~slTorn' PROVE MatchInv'
  BY DEF MatchInv
<1>1. UNCHANGED <<slWindow, slRaced, slTorn>>  BY DEF WriteTotals
<1>2. PICK s \in Symbols, p \in Pnls, w \in Seq(Pnls) : \E t :
                 /\ slRecord[r] = [at |-> "written", sleeve |-> s, pnl |-> p, totals |-> t, window |-> w]
                 /\ slResults'[s] = Added(t[s], w, p) /\ \A x \in Symbols : x # s => slResults'[x] = t[x]
  BY WriteTotalsOK
<1>3. PICK t :   /\ slRecord[r] = [at |-> "written", sleeve |-> s, pnl |-> p, totals |-> t, window |-> w]
                 /\ slResults'[s] = Added(t[s], w, p) /\ \A x \in Symbols : x # s => slResults'[x] = t[x]
  BY <1>2
<1>4. /\ slRecord[r].at = "written" /\ slRecord[r].sleeve = s /\ slRecord[r].pnl = p
      /\ slRecord[r].totals = t /\ slRecord[r].window = w /\ slRecord[r] # NotRecording
  BY <1>3, NotRecordingAt
<1>5. slRecord'[r] = NotRecording /\ \A x \in Recorders : x # r => slRecord'[x] = slRecord[x]  BY WriteTotalsOK
<1>6. /\ \A x \in Recorders : x # r => slRecord[x] = NotRecording
      /\ t = slResults /\ Matches(Added(t[s], w, p), w) /\ slWindow[s] = w
      /\ \A x \in Symbols : x # s => Matches(slResults[x], slWindow[x])
  BY <1>1, <1>4, OnlyRecording
<1>7. \A x \in Recorders : slRecord'[x] = NotRecording  BY <1>5, <1>6
<1>8. \A x \in Recorders : Consistent(slRecord[x])'  BY <1>7 DEF Consistent
<1>9. \A x \in Symbols : Matches(slResults[x], slWindow[x])'
  <2> SUFFICES ASSUME NEW x \in Symbols PROVE Matches(slResults[x], slWindow[x])'
    OBVIOUS
  <2>1. CASE x = s  BY <1>1, <1>3, <1>6, <2>1 DEF Matches
  <2>2. CASE x # s  BY <1>1, <1>3, <1>6, <2>2 DEF Matches
  <2> QED  BY <2>1, <2>2
<1> QED  BY <1>7, <1>8, <1>9 DEF MatchInv

LEMMA MatchStep == SleeveInv /\ MatchInv /\ [SlNext]_slVars => MatchInv'
<1> SUFFICES ASSUME SleeveInv, MatchInv, [SlNext]_slVars PROVE MatchInv'
  OBVIOUS
<1>1. CASE BeginProfile \/ EndProfile \/ ProfileExpires \/ UNCHANGED slVars
  <2>1. UNCHANGED <<slWindow, slResults, slRecord, slRaced, slTorn>>
    BY <1>1 DEF BeginProfile, EndProfile, ProfileExpires, slVars
  <2> QED  BY <2>1 DEF MatchInv, Consistent, HalfWritten, Matches
<1>2. CASE \E r \in Recorders, s \in Symbols, pnl \in Pnls : BeginRecord(r, s, pnl)  BY <1>2, MatchesBegin
<1>3. CASE \E r \in Recorders : ReadWindow(r)  BY <1>3, MatchesRead
<1>4. CASE \E r \in Recorders : WriteWindow(r)  BY <1>4, MatchesWrite
<1>5. CASE \E r \in Recorders : WriteTotals(r)  BY <1>5, MatchesEnd
<1>6. CASE \E r \in Recorders : RecorderDies(r)  BY <1>6 DEF RecorderDies, MatchInv
<1> QED  BY <1>1, <1>2, <1>3, <1>4, <1>5, <1>6 DEF SlNext

(* As long as no two processes record at once and none dies on the way, the  *)
(* window of a sleeve is that of its totals when no recording is under way   *)
(* (PortfolioLedgerService._record_factor_sleeve_outcome).                   *)
THEOREM WindowsFollowTotals == SlSpec => []WindowsMatchTotals
<1>1. SlInit => SleeveInv /\ MatchInv  BY SleeveInit, MatchInit
<1>2. SleeveInv /\ MatchInv /\ [SlNext]_slVars => SleeveInv' /\ MatchInv'  BY SleeveStep, MatchStep
<1>3. MatchInv => WindowsMatchTotals
  <2> SUFFICES ASSUME MatchInv, ~slRaced, ~slTorn, \A r \in Recorders : slRecord[r] = NotRecording, NEW s \in Symbols
               PROVE  /\ slResults[s].recent = Len(slWindow[s])
                      /\ Len(slWindow[s]) = IF Window = 1 THEN slResults[s].closed ELSE Least(slResults[s].closed, Window)
                      /\ slResults[s].recentWins <= slResults[s].wins
                      /\ slResults[s].wins + slResults[s].losses <= slResults[s].closed
    BY DEF WindowsMatchTotals
  <2>1. ~HalfWritten(s)  BY NotRecordingAt DEF HalfWritten
  <2>2. Matches(slResults[s], slWindow[s])  BY <2>1 DEF MatchInv
  <2> QED  BY <2>2 DEF Matches
<1> QED  BY <1>1, <1>2, <1>3, PTL DEF SlSpec

-----------------------------------------------------------------------------
(* The budgets of the sleeves.                                              *)

(* The same with limits, to some of all.  If nobody's limit is reached, less*)
(* than a unit for each is left.                                            *)
Limited(D, B, w, g, e, lim, r) ==
    /\ IsFiniteSet(D) /\ B \subseteq D /\ B # {} /\ g \in Nat
    /\ DOMAIN w = B /\ \A x \in B : w[x] \in Nat \ {0}
    /\ DOMAIN e = B /\ \A x \in B : e[x] = (g * w[x]) \div SumOf(w) /\ lim[x] \in Nat
    /\ DOMAIN r = D /\ \A x \in D : r[x] = IF x \in B THEN Least(lim[x], e[x]) ELSE 0

LEMMA LimitedPortions ==
    ASSUME NEW D, NEW B, NEW w, NEW g, NEW e, NEW lim, NEW r, Limited(D, B, w, g, e, lim, r)
    PROVE  /\ SumOf(w) \in Nat \ {0}
           /\ \A x \in B : e[x] \in Nat
           /\ \A x \in D : r[x] \in Nat /\ (x \in B => r[x] <= lim[x])
           /\ SumOf(r) \in Nat /\ SumOf(r) <= g
           /\ (\A x \in B : r[x] # lim[x]) => g < SumOf(r) + Cardinality(D)
<1> USE DEF Limited
<1>0. IsFiniteSet(B) /\ Cardinality(B) \in Nat /\ Cardinality(D) \in Nat /\ Cardinality(B) <= Cardinality(D)
  BY FS_Subset, FS_CardinalityType
<1>1. SumOf(w) \in Nat \ {0}
  <2>1. SumOf(w) \in Nat  BY <1>0, SumType
  <2> DEFINE z == [x \in B |-> 0]
  <2>2. DOMAIN z = B /\ \A x \in B : z[x] \in Nat /\ z[x] = 0  OBVIOUS
  <2> HIDE DEF z
  <2>3. SumOf(z) \in Nat  BY <1>0, <2>2, SumType
  <2>4. \A x \in B : z[x] \in Int /\ w[x] \in Int /\ z[x] <= w[x] /\ z[x] < w[x]  BY <2>2
  <2>5. SumOf(z) < SumOf(w)  BY <1>0, <2>2, <2>4, SumsCompare
  <2> QED  BY <2>1, <2>3, <2>5
<1>2. /\ \A x \in B : e[x] \in Nat
      /\ SumOf(e) \in Nat /\ SumOf(e) <= g /\ g < SumOf(e) + Cardinality(B)
  <2>1. \A x \in B : w[x] \in Nat  OBVIOUS
  <2> QED  BY <1>0, <1>1, <2>1, Portions
<1> DEFINE f == [x \in D |-> IF x \in B THEN e[x] ELSE 0]
<1>3. SumOf(e) = SumOf(f)
  <2>1. DOMAIN e = B /\ DOMAIN f = D /\ \A x \in D : f[x] = IF x \in B THEN e[x] ELSE 0  OBVIOUS
  <2> HIDE DEF f
  <2>2. \A x \in DOMAIN f : f[x] \in Int /\ (IF x \in DOMAIN e THEN e[x] = f[x] ELSE f[x] = 0)  BY <1>2, <2>1
  <2> QED  BY <2>1, <2>2, SumOfSome
<1>4. \A x \in D : f[x] \in Nat /\ r[x] \in Nat /\ r[x] <= f[x] /\ (x \in B => r[x] <= lim[x])
                /\ ((x \in B => r[x] # lim[x]) => r[x] = f[x])
  <2> SUFFICES ASSUME NEW x \in D
               PROVE  /\ f[x] \in Nat /\ r[x] \in Nat /\ r[x] <= f[x] /\ (x \in B => r[x] <= lim[x])
                      /\ (x \in B => r[x] # lim[x]) => r[x] = f[x]
    OBVIOUS
  <2>1. CASE x \notin B
    <3>1. f[x] = 0  BY <2>1
    <3>2. r[x] = 0  BY <2>1
    <3> HIDE DEF f
    <3> QED  BY <2>1, <3>1, <3>2
  <2>2. CASE x \in B
    <3>1. f[x] = e[x] /\ r[x] = Least(lim[x], e[x])  BY <2>2
    <3>2. e[x] \in Nat /\ lim[x] \in Nat  BY <1>2, <2>2
    <3> HIDE DEF f
    <3> QED  BY <2>2, <3>1, <3>2 DEF Least
  <2> QED  BY <2>1, <2>2
<1>5. DOMAIN f = D  OBVIOUS
<1> HIDE DEF f
<1>7. SumOf(r) \in Nat  BY <1>4, SumType
<1>8. SumOf(r) <= SumOf(f)  BY <1>4, <1>5, SumsCompare
<1>9. ASSUME \A x \in B : r[x] # lim[x]  PROVE g < SumOf(r) + Cardinality(D)
  <2>1. \A x \in D : f[x] \in Int /\ r[x] \in Int /\ f[x] <= r[x]
    <3> SUFFICES ASSUME NEW x \in D PROVE f[x] \in Int /\ r[x] \in Int /\ f[x] <= r[x]  OBVIOUS
    <3>1. r[x] = f[x]  BY <1>4, <1>9
    <3> QED  BY <1>4, <3>1
  <2>2. SumOf(f) <= SumOf(r)  BY <1>5, <2>1, SumsCompare
  <2> QED  BY <1>0, <1>2, <1>3, <1>7, <2>2
<1> QED  BY <1>1, <1>2, <1>3, <1>4, <1>7, <1>8, <1>9

LEMMA TotalIs == \A f : Total(f) = SumOf(f)
BY DEF Total, SumOf

-----------------------------------------------------------------------------
(* The bounds of a share, where there are some sleeves.                     *)
LEMMA ShareBounds ==
    ASSUME NEW D \in SUBSET Symbols, D # {}
    PROVE  /\ IsFiniteSet(D) /\ Cardinality(D) \in Nat \ {0} /\ Cardinality(D) <= Cardinality(Symbols)
           /\ Cardinality(Symbols) \in Nat
           /\ Equal(D) \in Nat /\ Lowest(D) \in Nat /\ Highest(D) \in Nat
           /\ Lowest(D) <= Equal(D) /\ Equal(D) <= Highest(D) /\ Highest(D) <= Scale /\ Lowest(D) <= Highest(D)
           /\ Cardinality(D) * Equal(D) <= Scale /\ Scale < Cardinality(D) * Equal(D) + Cardinality(D)
<1>1. IsFiniteSet(Symbols) /\ Floor \in Nat /\ Cap \in Nat /\ Cap <= Scale
  BY SleevesAssumption DEF SleevesAssumption, Scale
<1>2. /\ IsFiniteSet(D) /\ Cardinality(D) <= Cardinality(Symbols)
      /\ Cardinality(D) \in Nat /\ Cardinality(Symbols) \in Nat /\ Cardinality(D) # 0
  BY <1>1, FS_Subset, FS_CardinalityType, FS_EmptySet
<1>3. PICK n : n = Cardinality(D)  OBVIOUS
<1>4. n \in Nat \ {0}  BY <1>2, <1>3
<1>5. Scale \in Nat /\ Scale * 1 = Scale  BY DEF Scale
<1>6. PICK q : q = Scale \div n  OBVIOUS
<1>7. q \in Nat /\ n * q <= Scale /\ Scale < n * q + n
  <2>1. (Scale * 1) \div n \in Nat /\ n * ((Scale * 1) \div n) <= Scale * 1 /\ Scale * 1 < n * ((Scale * 1) \div n) + n
    BY <1>4, <1>5, Portion
  <2> QED  BY <1>5, <1>6, <2>1
<1>8. q <= Scale
  <2>1. q <= n * q
    <3>1. (n - 1) * q >= 0  BY <1>4, <1>7
    <3>2. (n - 1) * q = n * q - q /\ n * q \in Int  BY <1>4, <1>7
    <3> QED  BY <1>7, <3>1, <3>2
  <2>2. n * q \in Int  BY <1>4, <1>7
  <2> QED  BY <1>5, <1>7, <2>1, <2>2
<1>9. Equal(D) = q  BY <1>3, <1>6 DEF Equal
<1>10. Lowest(D) = Least(Floor, q) /\ Highest(D) = Most(q, Cap)  BY <1>9 DEF Lowest, Highest
<1>11. /\ Least(Floor, q) \in Nat /\ Most(q, Cap) \in Nat /\ Least(Floor, q) <= q /\ q <= Most(q, Cap)
       /\ Most(q, Cap) <= Scale /\ Least(Floor, q) <= Most(q, Cap)
  BY <1>1, <1>5, <1>7, <1>8 DEF Least, Most
<1> QED  BY <1>2, <1>3, <1>7, <1>9, <1>10, <1>11

(* Shares within the bounds, those of better sleeves no smaller.            *)
Within(D, t)  == DOMAIN t = D /\ \A s \in D : t[s] \in Lowest(D)..Highest(D)
Ordered(D, raw, t) == \A s, x \in D : raw[s] >= raw[x] => t[s] >= t[x]

LEMMA SharesAdd ==
    ASSUME NEW D \in SUBSET Symbols, D # {}, NEW t, Within(D, t)
    PROVE  /\ Total(t) \in Nat /\ Unshared(t) \in Int /\ Total(t) = Scale - Unshared(t)
           /\ \A s \in D : t[s] \in Nat /\ t[s] >= Lowest(D) /\ t[s] <= Highest(D)
<1>1. \A s \in D : t[s] \in Nat /\ t[s] >= Lowest(D) /\ t[s] <= Highest(D)  BY ShareBounds DEF Within
<1>2. DOMAIN t = D /\ IsFiniteSet(D)  BY ShareBounds DEF Within
<1>3. Total(t) \in Nat  BY <1>1, <1>2, SumType, TotalIs
<1> QED  BY <1>1, <1>3 DEF Unshared, Scale

(* If all shares are at a bound, hardly anything is missing, or too much.   *)
LEMMA AllAlike ==
    ASSUME NEW D \in SUBSET Symbols, D # {}, NEW t, Within(D, t)
    PROVE  /\ (\A s \in D : t[s] = Highest(D)) => Unshared(t) < Cardinality(D)
           /\ (\A s \in D : t[s] = Lowest(D)) => Unshared(t) >= 0
<1>1. PICK n, q : n = Cardinality(D) /\ q = Equal(D)  OBVIOUS
<1>2. n \in Nat /\ q \in Nat /\ n * q <= Scale /\ Scale < n * q + n /\ Scale \in Nat /\ n * q \in Int
  BY <1>1, ShareBounds DEF Scale
<1>3. /\ DOMAIN t = D /\ IsFiniteSet(D) /\ Total(t) \in Nat /\ Unshared(t) = Scale - Total(t)
      /\ \A s \in D : t[s] \in Int
  BY ShareBounds, SharesAdd DEF Within, Unshared
<1> DEFINE ones == [s \in D |-> IF s \in D THEN 1 ELSE 0]  u == [s \in D |-> q * ones[s]]
<1>4. SumOf(ones) = n
  <2>1. D \cap D = D /\ IsFiniteSet(D) /\ n = Cardinality(D)  BY <1>1, <1>3
  <2>2. ones = [s \in D |-> IF s \in D THEN 1 ELSE 0]  OBVIOUS
  <2> HIDE DEF ones
  <2>3. SumOf(ones) = Cardinality(D \cap D)  BY <2>1, <2>2, SumOfOnes
  <2> QED  BY <2>1, <2>3
<1>5. DOMAIN u = D /\ \A s \in D : u[s] = q  BY <1>2
<1>6. SumOf(u) = n * q
  <2>1. DOMAIN ones = D /\ \A s \in D : ones[s] \in Int /\ u[s] = q * ones[s]  OBVIOUS
  <2> HIDE DEF ones, u
  <2>2. SumOf(u) = q * SumOf(ones)  BY <1>2, <1>3, <1>5, <2>1, SumOfMultiples
  <2> QED  BY <1>2, <1>4, <2>2
<1> HIDE DEF ones, u
<1>7. ASSUME \A s \in D : t[s] = Highest(D)  PROVE Unshared(t) < Cardinality(D)
  <2>1. \A s \in D : u[s] \in Int /\ t[s] \in Int /\ u[s] <= t[s]  BY <1>1, <1>2, <1>3, <1>5, <1>7, ShareBounds
  <2>2. n * q <= Total(t)  BY <1>3, <1>5, <1>6, <2>1, SumsCompare, TotalIs
  <2> QED  BY <1>1, <1>2, <1>3, <2>2
<1>8. ASSUME \A s \in D : t[s] = Lowest(D)  PROVE Unshared(t) >= 0
  <2>1. \A s \in D : u[s] \in Int /\ t[s] \in Int /\ t[s] <= u[s]  BY <1>1, <1>2, <1>3, <1>5, <1>8, ShareBounds
  <2>2. Total(t) <= n * q  BY <1>3, <1>5, <1>6, <2>1, SumsCompare, TotalIs
  <2> QED  BY <1>2, <1>3, <2>2
<1> QED  BY <1>7, <1>8

(* and who has more keeps more.                                             *)
LEMMA MoreIsKept ==
    ASSUME NEW g \in Nat, NEW n \in Nat \ {0}, NEW a \in Nat, NEW b \in Nat, a <= b
    PROVE  a - Least(a, (g * a) \div n) <= b - Least(b, (g * b) \div n)
<1>1. PICK p, q : p = (g * a) \div n /\ q = (g * b) \div n  OBVIOUS
<1>2. p \in Nat /\ n * p <= g * a /\ g * a < n * p + n /\ q \in Nat /\ n * q <= g * b /\ g * b < n * q + n
  BY <1>1, Portion
<1>3. n * p \in Int /\ n * q \in Int /\ g * a \in Int /\ g * b \in Int  BY <1>2
<1>4. CASE g >= n
  <2>1. n * b <= g * b
    <3>1. (g - n) * b >= 0  BY <1>4
    <3> QED  BY <3>1
  <2>2. n * b \in Int /\ n * (q + 1) = n * q + n  BY <1>2
  <2>3. n * b < n * (q + 1)  BY <1>2, <1>3, <2>1, <2>2
  <2>4. b < q + 1
    <3>1. q + 1 \in Int /\ b \in Int  BY <1>2
    <3> QED  BY <2>3, <3>1, Cancel
  <2>5. n * a <= g * a
    <3>1. (g - n) * a >= 0  BY <1>4
    <3> QED  BY <3>1
  <2>6. n * a \in Int /\ n * (p + 1) = n * p + n  BY <1>2
  <2>7. n * a < n * (p + 1)  BY <1>2, <1>3, <2>5, <2>6
  <2>8. a < p + 1
    <3>1. p + 1 \in Int /\ a \in Int  BY <1>2
    <3> QED  BY <2>7, <3>1, Cancel
  <2> QED  BY <1>1, <1>2, <2>4, <2>8 DEF Least
<1>5. CASE g < n
  <2>1. g * b - g * a <= n * b - n * a
    <3>1. (n - g) * (b - a) >= 0  BY <1>5
    <3>2. (n - g) * (b - a) = n * b - n * a - (g * b - g * a)  OBVIOUS
    <3>3. n * a \in Int /\ n * b \in Int  OBVIOUS
    <3> QED  BY <1>3, <3>1, <3>2, <3>3
  <2>2. n * (p + 1 + (b - a)) = n * p + n + (n * b - n * a) /\ n * a \in Int /\ n * b \in Int  BY <1>2
  <2>3. n * q < n * (p + 1 + (b - a))  BY <1>2, <1>3, <2>1, <2>2
  <2>4. q < p + 1 + (b - a)
    <3>1. p + 1 + (b - a) \in Int  BY <1>2
    <3> QED  BY <1>2, <2>3, <3>1, Cancel
  <2> QED  BY <1>1, <1>2, <2>4 DEF Least
<1> QED  BY <1>4, <1>5

-----------------------------------------------------------------------------
(* A round that gives.                                                      *)
LEMMA GivenOutStep ==
    ASSUME NEW D \in SUBSET Symbols, D # {}, NEW raw, DOMAIN raw = D, \A s \in D : raw[s] \in Nat,
           NEW t, Within(D, t), Unshared(t) > 0, NEW u, u = GivenOut(raw, t)
    PROVE  /\ Within(D, u) /\ Unshared(u) \in Int /\ Unshared(u) >= 0 /\ Unshared(u) <= Unshared(t)
           /\ Ordered(D, raw, t) => Ordered(D, raw, u)
           /\ \A s \in D : t[s] = Highest(D) => u[s] = Highest(D)
           /\ \/ Unshared(u) < Cardinality(D)
              \/ \E s \in D : t[s] # Highest(D) /\ u[s] = Highest(D)
<1>1. PICK lo, hi, g, n : lo = Lowest(D) /\ hi = Highest(D) /\ g = Unshared(t) /\ n = Cardinality(D)  OBVIOUS
<1>2. /\ lo \in Nat /\ hi \in Nat /\ g \in Nat /\ n \in Nat \ {0} /\ IsFiniteSet(D)
      /\ DOMAIN t = D /\ Total(t) \in Nat /\ Total(t) = Scale - g /\ Scale \in Nat
  BY <1>1, ShareBounds, SharesAdd DEF Within, Scale
<1>3. \A s \in D : t[s] \in Nat /\ lo <= t[s] /\ t[s] <= hi  BY <1>1, SharesAdd
<1> DEFINE B == {s \in D : t[s] < hi}
           w == [s \in B |-> Most(1, raw[s])]
           lim == [s \in B |-> hi - t[s]]
           e == [s \in B |-> (g * w[s]) \div SumOf(w)]
           r == [s \in D |-> IF s \in B THEN Least(lim[s], e[s]) ELSE 0]
<1>4. DOMAIN w = B /\ \A s \in B : w[s] = Most(1, raw[s]) /\ lim[s] = hi - t[s]  OBVIOUS
<1>5. DOMAIN r = D /\ \A s \in D : r[s] = IF s \in B THEN Least(lim[s], e[s]) ELSE 0  OBVIOUS
<1>12. DOMAIN e = B /\ \A s \in B : e[s] = (g * w[s]) \div SumOf(w)  OBVIOUS
<1>6. DOMAIN u = D /\ \A s \in D : u[s] = t[s] + r[s]
  BY <1>1, <1>2, TotalIs DEF GivenOut
<1>7. \A s \in D : s \in B <=> t[s] < hi  OBVIOUS
<1>8. B \in SUBSET D  OBVIOUS
<1> HIDE DEF B, w, lim, e, r
<1>9. \A s \in B : w[s] \in Nat \ {0} /\ lim[s] \in Nat  BY <1>2, <1>3, <1>4, <1>7, <1>8 DEF Most
<1>10. CASE B = {}
  <2>1. \A s \in D : t[s] = hi /\ r[s] = 0  BY <1>2, <1>3, <1>5, <1>7, <1>10
  <2>2. \A s \in D : u[s] = t[s]  BY <1>3, <1>6, <2>1
  <2>3. Within(D, u)  BY <1>6, <2>2 DEF Within
  <2>4. \A s \in D : u[s] \in Int /\ t[s] \in Int /\ u[s] <= t[s] /\ t[s] <= u[s]  BY <1>3, <2>2
  <2>5. Total(u) <= Total(t) /\ Total(t) <= Total(u)  BY <1>2, <1>6, <2>4, SumsCompare, TotalIs
  <2>6. Unshared(u) = g /\ Unshared(u) \in Int  BY <1>1, <1>2, <2>3, <2>5, SharesAdd
  <2>7. Unshared(u) < n  BY <1>1, <2>1, <2>2, <2>3, AllAlike
  <2> QED  BY <1>1, <1>2, <2>2, <2>3, <2>6, <2>7 DEF Ordered
<1>11. CASE B # {}
  <2>1. /\ SumOf(w) \in Nat \ {0}
        /\ \A s \in B : e[s] \in Nat
        /\ \A s \in D : r[s] \in Nat /\ (s \in B => r[s] <= lim[s])
        /\ SumOf(r) \in Nat /\ SumOf(r) <= g
        /\ (\A s \in B : r[s] # lim[s]) => g < SumOf(r) + n
    <3>1. Limited(D, B, w, g, e, lim, r)  BY <1>2, <1>4, <1>5, <1>8, <1>9, <1>11, <1>12 DEF Limited
    <3> QED  BY ONLY <1>1, <3>1, LimitedPortions
  <2>2. \A s \in D : u[s] \in Nat /\ t[s] <= u[s] /\ u[s] <= hi
    <3> SUFFICES ASSUME NEW s \in D PROVE u[s] \in Nat /\ t[s] <= u[s] /\ u[s] <= hi  OBVIOUS
    <3>1. r[s] \in Nat /\ u[s] = t[s] + r[s] /\ t[s] \in Nat /\ t[s] <= hi  BY <1>3, <1>6, <2>1
    <3>2. CASE s \in B
      <4>1. r[s] <= hi - t[s]  BY <1>4, <2>1, <3>2
      <4> QED  BY <1>2, <3>1, <4>1
    <3>3. CASE s \notin B  BY <1>2, <1>5, <3>1, <3>3
    <3> QED  BY <3>2, <3>3
  <2>3. Within(D, u)
    <3>1. \A s \in D : u[s] \in lo..hi  BY <1>2, <1>3, <2>2
    <3> QED  BY <1>1, <1>6, <3>1 DEF Within
  <2>4. Total(u) = Total(t) + SumOf(r)
    <3>1. \A s \in D : t[s] \in Int /\ r[s] \in Int /\ u[s] = t[s] + r[s]  BY <1>3, <1>6, <2>1
    <3> QED  BY <1>2, <1>5, <1>6, <3>1, SumOfSums, TotalIs
  <2>5. Unshared(u) \in Int /\ Unshared(u) = g - SumOf(r)  BY <1>2, <2>1, <2>3, <2>4, SharesAdd DEF Unshared
  <2>6. \A s \in D : t[s] = hi => u[s] = hi  BY <1>2, <2>2
  <2>7. Unshared(u) < n \/ \E s \in D : t[s] # hi /\ u[s] = hi
    <3> SUFFICES ASSUME ~\E s \in D : t[s] # hi /\ u[s] = hi PROVE Unshared(u) < n  OBVIOUS
    <3>1. ASSUME NEW s \in B PROVE r[s] # lim[s]
      <4>1. s \in D /\ t[s] \in Nat /\ t[s] < hi /\ u[s] = t[s] + r[s] /\ u[s] # hi  BY <1>2, <1>3, <1>6, <1>7, <1>8
      <4>2. lim[s] = hi - t[s]  BY <1>4
      <4> QED  BY <1>2, <4>1, <4>2
    <3> QED  BY <1>2, <2>1, <2>5, <3>1
  <2>8. ASSUME Ordered(D, raw, t), NEW s \in D, NEW x \in D, raw[s] >= raw[x]  PROVE u[s] >= u[x]
    <3>1. t[s] >= t[x] /\ t[s] \in Nat /\ t[x] \in Nat  BY <1>3, <2>8 DEF Ordered
    <3>2. CASE s \notin B
      <4>1. t[s] = hi  BY <1>2, <1>3, <1>7, <3>2
      <4> QED  BY <1>2, <2>2, <2>6, <4>1
    <3>3. CASE s \in B
      <4>1. x \in B  BY <1>2, <1>7, <3>1, <3>3
      <4>2. w[x] <= w[s] /\ w[s] \in Nat /\ w[x] \in Nat
        <5>1. raw[s] \in Nat /\ raw[x] \in Nat  OBVIOUS
        <5> QED  BY <1>4, <2>8, <3>3, <4>1, <5>1 DEF Most
      <4>3. PICK p, q : p = e[x] /\ q = e[s]  OBVIOUS
      <4>4. p <= q /\ p \in Nat /\ q \in Nat  BY <1>2, <1>12, <2>1, <3>3, <4>1, <4>2, <4>3, PortionGrows
      <4>5. u[s] = t[s] + Least(hi - t[s], q) /\ u[x] = t[x] + Least(hi - t[x], p)
        BY <1>4, <1>5, <1>6, <3>3, <4>1, <4>3
      <4> QED  BY <1>2, <1>3, <3>1, <4>4, <4>5 DEF Least
    <3> QED  BY <3>2, <3>3
  <2>9. Ordered(D, raw, t) => Ordered(D, raw, u)  BY <2>8 DEF Ordered
  <2>10. Unshared(u) >= 0 /\ Unshared(u) <= g  BY <1>2, <2>1, <2>5
  <2> QED  BY <1>1, <2>3, <2>5, <2>6, <2>7, <2>9, <2>10
<1> QED  BY <1>10, <1>11

(* A round that takes.                                                      *)
LEMMA TakenBackStep ==
    ASSUME NEW D \in SUBSET Symbols, D # {}, NEW raw, DOMAIN raw = D, \A s \in D : raw[s] \in Nat,
           NEW t, Within(D, t), Unshared(t) < 0, NEW u, u = TakenBack(t)
    PROVE  /\ Within(D, u) /\ Unshared(u) \in Int /\ Unshared(u) <= 0 /\ Unshared(u) >= Unshared(t)
           /\ Ordered(D, raw, t) => Ordered(D, raw, u)
           /\ \A s \in D : t[s] = Lowest(D) => u[s] = Lowest(D)
           /\ \/ -Unshared(u) < Cardinality(D)
              \/ \E s \in D : t[s] # Lowest(D) /\ u[s] = Lowest(D)
<1>1. PICK lo, hi, g, n : lo = Lowest(D) /\ hi = Highest(D) /\ g = -Unshared(t) /\ n = Cardinality(D)  OBVIOUS
<1>2. /\ lo \in Nat /\ hi \in Nat /\ g \in Nat /\ n \in Nat \ {0} /\ IsFiniteSet(D)
      /\ DOMAIN t = D /\ Total(t) \in Nat /\ Total(t) = Scale + g /\ Scale \in Nat
  BY <1>1, ShareBounds, SharesAdd DEF Within, Scale
<1>3. \A s \in D : t[s] \in Nat /\ lo <= t[s] /\ t[s] <= hi  BY <1>1, SharesAdd
<1> DEFINE A == {s \in D : t[s] > lo}
           more == [s \in A |-> t[s] - lo]
           e == [s \in A |-> (g * more[s]) \div SumOf(more)]
           r == [s \in D |-> IF s \in A THEN Least(more[s], e[s]) ELSE 0]
<1>4. DOMAIN more = A /\ \A s \in A : more[s] = t[s] - lo  OBVIOUS
<1>5. DOMAIN r = D /\ \A s \in D : r[s] = IF s \in A THEN Least(more[s], e[s]) ELSE 0  OBVIOUS
<1>6. DOMAIN e = A /\ \A s \in A : e[s] = (g * more[s]) \div SumOf(more)  OBVIOUS
<1>7. DOMAIN u = D /\ \A s \in D : u[s] = t[s] - r[s]
  <2> DEFINE taken == [s \in A |-> (-(Unshared(t) * more[s])) \div Total(more)]
  <2>1. taken = e
    <3>1. ASSUME NEW s \in A PROVE -(Unshared(t) * more[s]) = g * more[s]
      <4>1. PICK m : m = more[s]  OBVIOUS
      <4>2. m \in Int /\ Unshared(t) \in Int /\ Unshared(t) = -g  BY <1>1, <1>2, <1>3, <4>1, SharesAdd
      <4>3. -((-g) * m) = g * m  BY <1>2, <4>2
      <4> QED  BY <4>1, <4>2, <4>3
    <3> HIDE DEF A, more
    <3> QED  BY <3>1, TotalIs
  <2>2. \A s \in A : taken[s] = (-(Unshared(t) * more[s])) \div Total(more)  OBVIOUS
  <2>3. u = [s \in D |-> t[s] - (IF s \in A THEN Least(more[s], (-(Unshared(t) * more[s])) \div Total(more)) ELSE 0)]
    BY <1>1, <1>2 DEF TakenBack
  <2> HIDE DEF taken, A, more, e
  <2> QED  BY <2>1, <2>2, <2>3
<1>8. A \subseteq D /\ \A s \in D : s \in A <=> t[s] > lo  OBVIOUS
<1> HIDE DEF A, more, e, r
<1>9. \A s \in A : more[s] \in Nat \ {0}  BY <1>2, <1>3, <1>4, <1>8
<1>10. A # {}
  <2> SUFFICES ASSUME A = {} PROVE FALSE  OBVIOUS
  <2>1. \A s \in D : t[s] = lo  BY <1>2, <1>3, <1>8
  <2> QED  BY <1>1, <2>1, AllAlike, SharesAdd
<1>11. /\ SumOf(more) \in Nat \ {0}
       /\ \A s \in A : e[s] \in Nat
       /\ \A s \in D : r[s] \in Nat /\ (s \in A => r[s] <= more[s])
       /\ SumOf(r) \in Nat /\ SumOf(r) <= g
       /\ (\A s \in A : r[s] # more[s]) => g < SumOf(r) + n
  <2>1. Limited(D, A, more, g, e, more, r)  BY <1>2, <1>4, <1>5, <1>6, <1>8, <1>9, <1>10 DEF Limited
  <2> QED  BY ONLY <1>1, <2>1, LimitedPortions
<1>12. \A s \in D : u[s] \in Nat /\ u[s] <= t[s] /\ lo <= u[s]
  <2> SUFFICES ASSUME NEW s \in D PROVE u[s] \in Nat /\ u[s] <= t[s] /\ lo <= u[s]  OBVIOUS
  <2>1. r[s] \in Nat /\ u[s] = t[s] - r[s] /\ t[s] \in Nat /\ lo <= t[s]  BY <1>3, <1>7, <1>11
  <2>2. CASE s \in A
    <3>1. r[s] <= t[s] - lo  BY <1>4, <1>11, <2>2
    <3> QED  BY <1>2, <2>1, <3>1
  <2>3. CASE s \notin A  BY <1>2, <1>5, <2>1, <2>3
  <2> QED  BY <2>2, <2>3
<1>13. Within(D, u)
  <2>1. \A s \in D : u[s] \in lo..hi  BY <1>2, <1>3, <1>12
  <2> QED  BY <1>1, <1>7, <2>1 DEF Within
<1>14. Total(t) = Total(u) + SumOf(r)
  <2>1. \A s \in D : u[s] \in Int /\ r[s] \in Int /\ t[s] = u[s] + r[s]  BY <1>3, <1>7, <1>11, <1>12
  <2> QED  BY <1>2, <1>5, <1>7, <2>1, SumOfSums, TotalIs
<1>15. Unshared(u) \in Int /\ Unshared(u) = SumOf(r) - g
  <2>1. Total(u) \in Nat /\ Unshared(u) \in Int /\ Total(u) = Scale - Unshared(u)  BY <1>13, SharesAdd
  <2>2. PICK x, y, z, a : x = Total(t) /\ y = Total(u) /\ z = SumOf(r) /\ a = Unshared(u)  OBVIOUS
  <2>3. z \in Nat  BY <1>11, <2>2
  <2>4. x = y + z /\ x = Scale + g /\ Scale \in Nat /\ g \in Nat  BY <1>2, <1>14, <2>2
  <2>5. y \in Nat /\ a \in Int /\ y = Scale - a  BY <2>1, <2>2
  <2>6. a = z - g  BY ONLY <2>3, <2>4, <2>5
  <2> QED  BY ONLY <2>2, <2>5, <2>6
<1>16. \A s \in D : t[s] = lo => u[s] = lo  BY <1>2, <1>12
<1>17. -Unshared(u) < n \/ \E s \in D : t[s] # lo /\ u[s] = lo
  <2> SUFFICES ASSUME ~\E s \in D : t[s] # lo /\ u[s] = lo PROVE -Unshared(u) < n  OBVIOUS
  <2>1. ASSUME NEW s \in A PROVE r[s] # more[s]
    <3>1. s \in D /\ t[s] \in Nat /\ t[s] > lo /\ u[s] = t[s] - r[s] /\ u[s] # lo  BY <1>2, <1>3, <1>7, <1>8
    <3>2. more[s] = t[s] - lo  BY <1>4
    <3> QED  BY <1>2, <3>1, <3>2
  <2> QED  BY <1>2, <1>11, <1>15, <2>1
<1>18. ASSUME Ordered(D, raw, t), NEW s \in D, NEW x \in D, raw[s] >= raw[x]  PROVE u[s] >= u[x]
  <2>1. t[s] >= t[x] /\ t[s] \in Nat /\ t[x] \in Nat  BY <1>3, <1>18 DEF Ordered
  <2>2. CASE x \notin A
    <3>1. t[x] = lo  BY <1>2, <1>3, <1>8, <2>2
    <3> QED  BY <1>2, <1>12, <1>16, <3>1
  <2>3. CASE x \in A
    <3>1. s \in A  BY <1>2, <1>8, <2>1, <2>3
    <3>2. PICK a, b, m : a = more[x] /\ b = more[s] /\ m = SumOf(more)  OBVIOUS
    <3>3. a \in Nat /\ b \in Nat /\ m \in Nat \ {0} /\ a = t[x] - lo /\ b = t[s] - lo /\ a <= b
      BY <1>2, <1>4, <1>9, <1>11, <2>1, <2>3, <3>1, <3>2
    <3>4. u[x] = t[x] - Least(a, (g * a) \div m) /\ u[s] = t[s] - Least(b, (g * b) \div m)
      BY <1>5, <1>6, <1>7, <2>3, <3>1, <3>2
    <3>5. a - Least(a, (g * a) \div m) <= b - Least(b, (g * b) \div m)  BY <1>2, <3>3, MoreIsKept
    <3>6. PICK p, q : p = Least(a, (g * a) \div m) /\ q = Least(b, (g * b) \div m)  OBVIOUS
    <3>7. p \in Int /\ q \in Int
      <4>1. (g * a) \div m \in Nat /\ (g * b) \div m \in Nat  BY <1>2, <3>3, Portion
      <4> QED  BY <3>3, <3>6, <4>1 DEF Least
    <3> QED  BY <1>2, <2>1, <3>3, <3>4, <3>5, <3>6, <3>7
  <2> QED  BY <2>2, <2>3
<1>19. Ordered(D, raw, t) => Ordered(D, raw, u)  BY <1>18 DEF Ordered
<1>20. Unshared(u) <= 0 /\ Unshared(u) >= Unshared(t)
  <2>1. Unshared(t) \in Int  BY SharesAdd
  <2> QED  BY <1>1, <1>2, <1>11, <1>15, <2>1
<1> QED  BY <1>1, <1>13, <1>15, <1>16, <1>17, <1>19, <1>20

-----------------------------------------------------------------------------
(* After k rounds, the budget is shared but for less than a unit for each,  *)
(* or k shares are at the bound that is in the way.                         *)
AtHighest(D, t) == {s \in D : t[s] = Highest(D)}
AtLowest(D, t)  == {s \in D : t[s] = Lowest(D)}
Near(D, t, k) ==
    \/ Unshared(t) < Cardinality(D) /\ -Unshared(t) < Cardinality(D)
    \/ Unshared(t) >= Cardinality(D) /\ Cardinality(AtHighest(D, t)) >= k
    \/ -Unshared(t) >= Cardinality(D) /\ Cardinality(AtLowest(D, t)) >= k
Round(D, raw, t, k) == t = [s \in D |-> t[s]] /\ Within(D, t) /\ Ordered(D, raw, t) /\ Near(D, t, k)

LEMMA RoundStep ==
    ASSUME NEW D \in SUBSET Symbols, D # {}, NEW raw, DOMAIN raw = D, \A s \in D : raw[s] \in Nat,
           NEW t, NEW k \in Nat, Round(D, raw, t, k), NEW u, u = Rebalanced(raw, t)
    PROVE  Round(D, raw, u, k + 1)
<1>1. /\ Within(D, t) /\ Ordered(D, raw, t) /\ Near(D, t, k) /\ Unshared(t) \in Int
      /\ IsFiniteSet(D) /\ Cardinality(D) \in Nat \ {0}
  BY SharesAdd, ShareBounds DEF Round
<1>2. PICK n : n = Cardinality(D)  OBVIOUS
<1>6. u = [s \in D |-> u[s]]
  <2>0. DOMAIN t = D /\ t = [s \in D |-> t[s]]  BY DEF Round, Within
  <2>1. \E f : u = [s \in D |-> f[s]]
    <3>1. CASE Unshared(t) > 0
      <4>1. u = GivenOut(raw, t)  BY <3>1 DEF Rebalanced
      <4> QED  BY <2>0, <4>1 DEF GivenOut
    <3>2. CASE Unshared(t) < 0
      <4>1. u = TakenBack(t)  BY <1>1, <3>2 DEF Rebalanced
      <4> QED  BY <2>0, <4>1 DEF TakenBack
    <3>3. CASE Unshared(t) = 0
      <4>1. u = t  BY <3>3 DEF Rebalanced
      <4> QED  BY <2>0, <4>1
    <3> QED  BY <1>1, <3>1, <3>2, <3>3
  <2> QED  BY <2>1
<1>3. CASE Unshared(t) > 0
  <2>1. u = GivenOut(raw, t)  BY <1>3 DEF Rebalanced
  <2>2. /\ Within(D, u) /\ Unshared(u) \in Int /\ Unshared(u) >= 0 /\ Unshared(u) <= Unshared(t)
        /\ Ordered(D, raw, u)
        /\ \A s \in D : t[s] = Highest(D) => u[s] = Highest(D)
        /\ Unshared(u) < n \/ \E s \in D : t[s] # Highest(D) /\ u[s] = Highest(D)
    BY <1>1, <1>2, <1>3, <2>1, GivenOutStep
  <2>3. CASE Unshared(u) < n
    <3>1. -Unshared(u) < n  BY <1>1, <1>2, <2>2
    <3> QED  BY <1>2, <1>6, <2>2, <2>3, <3>1 DEF Near, Round
  <2>4. CASE Unshared(u) >= n
    <3>1. PICK s \in D : t[s] # Highest(D) /\ u[s] = Highest(D)  BY <1>1, <1>2, <2>2, <2>4
    <3>2. /\ AtHighest(D, t) \in SUBSET D /\ AtHighest(D, u) \in SUBSET D /\ AtHighest(D, t) \subseteq AtHighest(D, u)
          /\ s \in AtHighest(D, u) /\ s \notin AtHighest(D, t)
      BY <2>2, <3>1 DEF AtHighest
    <3>3. Cardinality(AtHighest(D, u)) >= Cardinality(AtHighest(D, t)) + 1  BY <1>1, <3>2, OneMoreIn
    <3>4. Cardinality(AtHighest(D, t)) >= k  BY <1>1, <1>2, <1>3, <2>2, <2>4 DEF Near
    <3>5. Cardinality(AtHighest(D, t)) \in Nat /\ Cardinality(AtHighest(D, u)) \in Nat
      BY <1>1, <3>2, FS_Subset, FS_CardinalityType
    <3>6. Cardinality(AtHighest(D, u)) >= k + 1  BY ONLY <3>3, <3>4, <3>5, k \in Nat
    <3> QED  BY <1>2, <1>6, <2>2, <2>4, <3>6 DEF Near, Round
  <2> QED  BY <1>1, <1>2, <2>2, <2>3, <2>4
<1>4. CASE Unshared(t) < 0
  <2>1. u = TakenBack(t)  BY <1>1, <1>4 DEF Rebalanced
  <2>2. /\ Within(D, u) /\ Unshared(u) \in Int /\ Unshared(u) <= 0 /\ Unshared(u) >= Unshared(t)
        /\ Ordered(D, raw, u)
        /\ \A s \in D : t[s] = Lowest(D) => u[s] = Lowest(D)
        /\ -Unshared(u) < n \/ \E s \in D : t[s] # Lowest(D) /\ u[s] = Lowest(D)
    BY <1>1, <1>2, <1>4, <2>1, TakenBackStep
  <2>3. CASE -Unshared(u) < n
    <3>1. Unshared(u) < n  BY <1>1, <1>2, <2>2
    <3> QED  BY <1>2, <1>6, <2>2, <2>3, <3>1 DEF Near, Round
  <2>4. CASE -Unshared(u) >= n
    <3>1. PICK s \in D : t[s] # Lowest(D) /\ u[s] = Lowest(D)  BY <1>1, <1>2, <2>2, <2>4
    <3>2. /\ AtLowest(D, t) \in SUBSET D /\ AtLowest(D, u) \in SUBSET D /\ AtLowest(D, t) \subseteq AtLowest(D, u)
          /\ s \in AtLowest(D, u) /\ s \notin AtLowest(D, t)
      BY <2>2, <3>1 DEF AtLowest
    <3>3. Cardinality(AtLowest(D, u)) >= Cardinality(AtLowest(D, t)) + 1  BY <1>1, <3>2, OneMoreIn
    <3>4. Cardinality(AtLowest(D, t)) >= k  BY <1>1, <1>2, <1>4, <2>2, <2>4 DEF Near
    <3>5. Cardinality(AtLowest(D, t)) \in Nat /\ Cardinality(AtLowest(D, u)) \in Nat
      BY <1>1, <3>2, FS_Subset, FS_CardinalityType
    <3>6. Cardinality(AtLowest(D, u)) >= k + 1  BY ONLY <3>3, <3>4, <3>5, k \in Nat
    <3> QED  BY <1>2, <1>6, <2>2, <2>4, <3>6 DEF Near, Round
  <2> QED  BY <1>1, <1>2, <2>2, <2>3, <2>4
<1>5. CASE Unshared(t) = 0
  <2>1. u = t  BY <1>5 DEF Rebalanced
  <2>2. Unshared(u) < n /\ -Unshared(u) < n  BY <1>1, <1>2, <1>5, <2>1
  <2> QED  BY <1>1, <1>2, <1>6, <2>1, <2>2 DEF Near, Round
<1> QED  BY <1>1, <1>3, <1>4, <1>5

(* The shares at the bounds.                                                *)
LEMMA RoundInit ==
    ASSUME NEW D \in SUBSET Symbols, D # {}, NEW raw, DOMAIN raw = D, \A s \in D : raw[s] \in Nat
    PROVE  Round(D, raw, Bounded(raw), 0)
<1>1. PICK t : t = Bounded(raw)  OBVIOUS
<1>2. PICK lo, hi : lo = Lowest(D) /\ hi = Highest(D)  OBVIOUS
<1>3. lo \in Nat /\ hi \in Nat /\ lo <= hi /\ IsFiniteSet(D)  BY <1>2, ShareBounds
<1>4. DOMAIN t = D /\ \A s \in D : t[s] = Least(hi, Most(lo, raw[s]))  BY <1>1, <1>2 DEF Bounded
<1>5. \A s \in D : t[s] \in lo..hi  BY <1>3, <1>4 DEF Least, Most
<1>6. Within(D, t)  BY <1>2, <1>4, <1>5 DEF Within
<1>9. t = [s \in D |-> t[s]]  BY <1>1 DEF Bounded
<1>7. Ordered(D, raw, t)
  <2> SUFFICES ASSUME NEW s \in D, NEW x \in D, raw[s] >= raw[x] PROVE t[s] >= t[x]  BY DEF Ordered
  <2>1. raw[s] \in Nat /\ raw[x] \in Nat  OBVIOUS
  <2> QED  BY <1>3, <1>4, <2>1 DEF Least, Most
<1>8. Near(D, t, 0)
  <2>1. AtHighest(D, t) \in SUBSET D /\ AtLowest(D, t) \in SUBSET D  BY DEF AtHighest, AtLowest
  <2>2. Cardinality(AtHighest(D, t)) \in Nat /\ Cardinality(AtLowest(D, t)) \in Nat
    BY <1>3, <2>1, FS_Subset, FS_CardinalityType
  <2>3. Unshared(t) \in Int /\ Cardinality(D) \in Nat  BY <1>6, SharesAdd, ShareBounds
  <2> QED  BY <2>2, <2>3 DEF Near
<1> QED  BY <1>1, <1>6, <1>7, <1>8, <1>9 DEF Round

(* What k rounds make of shares within the bounds.                          *)
BoundShares(D) == [D -> Lowest(D)..Highest(D)]
RoundsUpTo(f, raw, n) ==
    f = [k \in 0..n |-> [t \in BoundShares(DOMAIN raw) |-> IF k = 0 THEN t ELSE f[k - 1][Rebalanced(raw, t)]]]

LEMMA RoundsExist ==
    ASSUME NEW raw
    PROVE  \A n \in Nat : \E f : RoundsUpTo(f, raw, n)
<1> DEFINE T == BoundShares(DOMAIN raw)
           After(g, k) == [t \in T |-> IF k = 0 THEN t ELSE g[k - 1][Rebalanced(raw, t)]]
           S == {n \in Nat : \E f : f = [k \in 0..n |-> After(f, k)]}
<1> HIDE DEF T
<1>0. \A g, h, k : k = 0 \/ g[k - 1] = h[k - 1] => After(g, k) = After(h, k)
  <2> SUFFICES ASSUME NEW g, NEW h, NEW k, k = 0 \/ g[k - 1] = h[k - 1] PROVE After(g, k) = After(h, k)  OBVIOUS
  <2>1. CASE k = 0  BY <2>1
  <2>2. CASE g[k - 1] = h[k - 1]  BY <2>2
  <2> QED  BY <2>1, <2>2
<1> HIDE DEF After
<1>1. 0 \in S
  <2> DEFINE f == [k \in 0..0 |-> After({}, 0)]
  <2>1. \A k \in 0..0 : k = 0  OBVIOUS
  <2>2. \A k \in 0..0 : After({}, 0) = After(f, k)  BY <1>0, <2>1
  <2>3. f = [k \in 0..0 |-> After(f, k)]  BY ONLY <2>2, Zenon
  <2> QED  BY <2>3
<1>2. ASSUME NEW n \in Nat, n \in S  PROVE n + 1 \in S
  <2>1. PICK f : f = [k \in 0..n |-> After(f, k)]  BY <1>2
  <2> DEFINE h == [k \in 0..n + 1 |-> After(f, k)]
  <2>2. \A k \in 0..n : f[k] = h[k]
    <3>1. \A k \in 0..n : k \in 0..n + 1  OBVIOUS
    <3> QED  BY <2>1, <3>1
  <2>3. \A k \in 0..n + 1 : After(f, k) = After(h, k)
    <3> SUFFICES ASSUME NEW k \in 0..n + 1 PROVE After(f, k) = After(h, k)  OBVIOUS
    <3>1. k # 0 => k - 1 \in 0..n  OBVIOUS
    <3>2. k = 0 \/ f[k - 1] = h[k - 1]  BY <2>2, <3>1
    <3> HIDE DEF h
    <3> QED  BY <1>0, <3>2, Zenon
  <2>4. h = [k \in 0..n + 1 |-> After(f, k)]  OBVIOUS
  <2> HIDE DEF h
  <2>5. h = [k \in 0..n + 1 |-> After(h, k)]  BY ONLY <2>3, <2>4, Zenon
  <2> QED  BY <2>5
<1> HIDE DEF S
<1>3. Nat \subseteq S  BY ONLY <1>1, <1>2, Counting
<1> QED  BY <1>3 DEF S, After, T, RoundsUpTo

(* There are enough rounds: no more shares than there are can be at a bound.*)
LEMMA RoundsSuffice ==
    ASSUME NEW D \in SUBSET Symbols, D # {}, NEW raw, DOMAIN raw = D, \A s \in D : raw[s] \in Nat
    PROVE  /\ Within(D, Balanced(raw)) /\ Ordered(D, raw, Balanced(raw))
           /\ Unshared(Balanced(raw)) < Cardinality(D) /\ -Unshared(Balanced(raw)) < Cardinality(D)
<1>1. PICK n : n = Cardinality(D)  OBVIOUS
<1>2. n \in Nat \ {0} /\ IsFiniteSet(D)  BY <1>1, ShareBounds
<1>3. PICK last : last = 4 * n  OBVIOUS
<1>4. last \in Nat /\ last > n  BY <1>2, <1>3
<1> DEFINE after == CHOOSE f :
             f = [k \in 0..last |-> [t \in BoundShares(D) |-> IF k = 0 THEN t ELSE f[k - 1][Rebalanced(raw, t)]]]
<1>5. Balanced(raw) = after[last][Bounded(raw)]  BY <1>1, <1>3 DEF Balanced, BoundShares
<1>6. after = [k \in 0..last |-> [t \in BoundShares(D) |-> IF k = 0 THEN t ELSE after[k - 1][Rebalanced(raw, t)]]]
  <2>1. PICK f : RoundsUpTo(f, raw, last)  BY <1>4, RoundsExist
  <2>2. f = [k \in 0..last |-> [t \in BoundShares(D) |-> IF k = 0 THEN t ELSE f[k - 1][Rebalanced(raw, t)]]]
    BY <2>1 DEF RoundsUpTo
  <2> QED  BY <2>2, Zenon
<1> HIDE DEF after
<1>15. ASSUME NEW t, NEW j, Round(D, raw, t, j)  PROVE t \in BoundShares(D)
  BY <1>15 DEF Round, Within, BoundShares
<1> DEFINE S == {k \in Nat : k <= last => \A t : \A j \in Nat : Round(D, raw, t, j) => Round(D, raw, after[k][t], j + k)}
<1>7. 0 \in S
  <2>1. 0 \in 0..last  BY <1>4
  <2>2. \A t \in BoundShares(D) : after[0][t] = t  BY <1>6, <2>1
  <2>3. \A j \in Nat : j + 0 = j  OBVIOUS
  <2> QED  BY <1>15, <2>2, <2>3
<1>8. ASSUME NEW k \in Nat, k \in S  PROVE k + 1 \in S
  <2> SUFFICES ASSUME k + 1 <= last, NEW t, NEW j \in Nat, Round(D, raw, t, j)
               PROVE  Round(D, raw, after[k + 1][t], j + (k + 1))
    OBVIOUS
  <2>1. k + 1 \in 0..last /\ k + 1 # 0 /\ (k + 1) - 1 = k /\ k <= last  BY <1>4
  <2>2. PICK u : u = Rebalanced(raw, t)  OBVIOUS
  <2>3. after[k + 1][t] = after[k][u]
    <3>1. t \in BoundShares(D)  BY <1>15
    <3>2. after[k + 1] = [x \in BoundShares(D) |-> after[k][Rebalanced(raw, x)]]  BY <1>6, <2>1
    <3> QED  BY <2>2, <3>1, <3>2
  <2>4. Round(D, raw, u, j + 1)  BY <2>2, RoundStep
  <2>5. j + 1 \in Nat /\ (j + 1) + k = j + (k + 1)  OBVIOUS
  <2>6. Round(D, raw, after[k][u], (j + 1) + k)  BY <1>8, <2>1, <2>4, <2>5
  <2> QED  BY <2>3, <2>5, <2>6
<1> HIDE DEF S
<1>9. last \in S  BY ONLY <1>4, <1>7, <1>8, Counting
<1>10. PICK t : t = after[last][Bounded(raw)]  OBVIOUS
<1>11. Round(D, raw, t, last)
  <2>1. Round(D, raw, Bounded(raw), 0)  BY RoundInit
  <2>2. Round(D, raw, t, 0 + last)  BY <1>4, <1>9, <1>10, <2>1 DEF S
  <2>3. 0 + last = last  BY <1>4
  <2> QED  BY <2>2, <2>3
<1>12. Cardinality(AtHighest(D, t)) <= n /\ Cardinality(AtLowest(D, t)) <= n
  <2>1. AtHighest(D, t) \in SUBSET D /\ AtLowest(D, t) \in SUBSET D  BY DEF AtHighest, AtLowest
  <2> QED  BY <1>1, <1>2, <2>1, FS_Subset
<1>13. Cardinality(AtHighest(D, t)) \in Nat /\ Cardinality(AtLowest(D, t)) \in Nat
  <2>1. AtHighest(D, t) \in SUBSET D /\ AtLowest(D, t) \in SUBSET D  BY DEF AtHighest, AtLowest
  <2> QED  BY <1>2, <2>1, FS_Subset, FS_CardinalityType
<1>14. Unshared(t) < n /\ -Unshared(t) < n  BY <1>1, <1>2, <1>4, <1>11, <1>12, <1>13 DEF Round, Near
<1> QED  BY <1>1, <1>5, <1>10, <1>11, <1>14 DEF Round

-----------------------------------------------------------------------------
(* The last scaling moves a share by no more than it corrects.              *)
LEMMA Scaled ==
    ASSUME NEW a \in Nat, NEW b \in Nat \ {0}, a <= b, NEW s \in Nat, NEW n \in Nat, s - b < n, b - s < n
    PROVE  (s * a) \div b >= a - n /\ (s * a) \div b <= a + n
<1>1. PICK q : q = (s * a) \div b  OBVIOUS
<1>2. q \in Nat /\ b * q <= s * a /\ s * a < b * q + b  BY <1>1, Portion
<1>3. n >= 1  OBVIOUS
<1>4. PICK d \in Int : d = s - b  OBVIOUS
<1>5. s * a = b * a + d * a /\ d <= n - 1 /\ -d <= n - 1
  <2>1. s = b + d  BY <1>4
  <2>2. (b + d) * a = b * a + d * a  BY <1>4
  <2> QED  BY <1>4, <2>1, <2>2
<1>6. d * a <= b * (n - 1) /\ -(d * a) <= b * (n - 1)
  <2>1. d * a <= (n - 1) * a
    <3>1. (n - 1 - d) * a >= 0  BY <1>5
    <3>2. (n - 1 - d) * a = (n - 1) * a - d * a  BY <1>4
    <3>3. (n - 1) * a \in Int /\ d * a \in Int  BY <1>4
    <3> QED  BY <3>1, <3>2, <3>3
  <2>2. -(d * a) <= (n - 1) * a
    <3>1. (n - 1 + d) * a >= 0  BY <1>5
    <3>2. (n - 1 + d) * a = (n - 1) * a + d * a  BY <1>4
    <3>3. (n - 1) * a \in Int /\ d * a \in Int  BY <1>4
    <3> QED  BY <3>1, <3>2, <3>3
  <2>3. (n - 1) * a <= b * (n - 1)
    <3>1. (n - 1) * (b - a) >= 0  BY <1>3
    <3>2. (n - 1) * (b - a) = b * (n - 1) - (n - 1) * a  OBVIOUS
    <3>3. (n - 1) * a \in Int /\ b * (n - 1) \in Int  OBVIOUS
    <3> QED  BY <3>1, <3>2, <3>3
  <2>4. (n - 1) * a \in Int /\ b * (n - 1) \in Int /\ d * a \in Int  BY <1>4
  <2> QED  BY <2>1, <2>2, <2>3, <2>4
<1>7. b * (n - 1) = b * n - b /\ b * n \in Int /\ b * a \in Int /\ d * a \in Int /\ b * q \in Int
  BY <1>2, <1>4
<1>8. b * (a - n) <= b * q
  <2>1. b * (a - n) = b * a - b * n  OBVIOUS
  <2> QED  BY <1>2, <1>5, <1>6, <1>7, <2>1
<1>9. b * q <= b * (a + n)
  <2>1. b * (a + n) = b * a + b * n  OBVIOUS
  <2> QED  BY <1>2, <1>5, <1>6, <1>7, <2>1
<1>10. a - n <= q /\ q <= a + n
  <2>1. a - n \in Int /\ a + n \in Int /\ q \in Int  BY <1>2
  <2> QED  BY <1>8, <1>9, <2>1, Cancel
<1> QED  BY <1>1, <1>10

(* Targets of which the whole budget is made.                               *)
WholeBudget(t) ==
    /\ DOMAIN t \subseteq Symbols /\ \A s \in DOMAIN t : t[s] \in Nat
    /\ Total(t) \in Scale - Rounding..Scale
    /\ \A s \in DOMAIN t : /\ t[s] >= Least(Floor, Scale \div Cardinality(DOMAIN t)) - Rounding
                            /\ t[s] <= Most(Cap, Scale \div Cardinality(DOMAIN t)) + Rounding

LEMMA BoundedSharesAre ==
    ASSUME Cardinality(Symbols) <= Scale,
           NEW D \in SUBSET Symbols, D # {}, NEW raw, DOMAIN raw = D, \A s \in D : raw[s] \in Nat,
           NEW u, u = BoundedShares(raw)
    PROVE  /\ DOMAIN u = D /\ WholeBudget(u)
           /\ \A s, x \in D : raw[s] >= raw[x] => u[s] >= u[x]
<1>1. PICK t : t = Balanced(raw)  OBVIOUS
<1>2. PICK n, lo, hi, N, b : /\ n = Cardinality(D) /\ lo = Lowest(D) /\ hi = Highest(D) /\ N = Cardinality(Symbols)
                             /\ b = Total(t)
  OBVIOUS
<1>3. Within(D, t) /\ Ordered(D, raw, t) /\ Unshared(t) < n /\ -Unshared(t) < n  BY <1>1, <1>2, RoundsSuffice
<1>4. /\ n \in Nat \ {0} /\ N \in Nat /\ n <= N /\ N <= Scale /\ lo \in Nat /\ hi \in Nat /\ IsFiniteSet(D) /\ Scale \in Nat
  BY <1>2, ShareBounds DEF Scale
<1>5. DOMAIN t = D /\ \A s \in D : t[s] \in Nat /\ lo <= t[s] /\ t[s] <= hi  BY <1>2, <1>3, SharesAdd DEF Within
<1>6. b \in Nat \ {0} /\ Scale - b < n /\ b - Scale < n
  <2>1. PICK a : a = Unshared(t)  OBVIOUS
  <2>2. a \in Int /\ b \in Nat /\ b = Scale - a  BY <1>2, <1>3, <2>1, SharesAdd
  <2>3. a < n /\ -a < n  BY <1>3, <2>1
  <2> QED  BY ONLY <1>4, <2>2, <2>3
<1>7. DOMAIN u = D /\ \A s \in D : u[s] = (Scale * t[s]) \div b
  <2>1. u = [s \in DOMAIN raw |-> (t[s] * Scale) \div Total(t)]  BY <1>1 DEF BoundedShares
  <2>2. \A s \in D : t[s] * Scale = Scale * t[s]  BY <1>4, <1>5
  <2> QED  BY <1>2, <2>1, <2>2
<1>8. \A s \in D : t[s] <= b  BY <1>2, <1>4, <1>5, PartOfTotal, TotalIs
<1>9. ASSUME NEW s \in D  PROVE u[s] \in Nat /\ u[s] >= t[s] - n /\ u[s] <= t[s] + n
  <2>1. PICK a, q : a = t[s] /\ q = (Scale * a) \div b /\ a \in Nat  BY <1>5
  <2>2. a <= b  BY <1>8, <2>1
  <2>3. q >= a - n /\ q <= a + n  BY <1>4, <1>6, <2>1, <2>2, Scaled
  <2>4. q \in Nat  BY <1>4, <1>6, <2>1, Portion
  <2> QED  BY <1>7, <2>1, <2>3, <2>4
<1>10. \A s, x \in D : raw[s] >= raw[x] => u[s] >= u[x]
  <2> SUFFICES ASSUME NEW s \in D, NEW x \in D, raw[s] >= raw[x] PROVE u[s] >= u[x]  OBVIOUS
  <2>1. t[x] <= t[s] /\ t[x] \in Nat /\ t[s] \in Nat  BY <1>3, <1>5 DEF Ordered
  <2>2. (Scale * t[x]) \div b <= (Scale * t[s]) \div b  BY <1>4, <1>6, <2>1, PortionGrows
  <2>3. u[s] \in Nat /\ u[x] \in Nat  BY <1>9
  <2> QED  BY <1>7, <2>2, <2>3
<1>11. Rounding = 2 * N  BY <1>2 DEF Rounding
<1>12. Total(u) \in Scale - Rounding..Scale
  <2>1. SumOf(t) = b /\ SumOf(t) # 0  BY <1>2, <1>6, TotalIs
  <2>2. \A x \in D : u[x] = (Scale * t[x]) \div SumOf(t)  BY <1>7, <2>1
  <2>3. SumOf(u) \in Nat /\ SumOf(u) <= Scale /\ Scale < SumOf(u) + Cardinality(D)
    BY <1>4, <1>5, <1>7, <2>1, <2>2, Portions
  <2>4. PICK z : z = SumOf(u)  OBVIOUS
  <2>5. z \in Nat /\ z <= Scale /\ Scale < z + n  BY <1>2, <2>3, <2>4
  <2>6. z \in Scale - 2 * N..Scale  BY ONLY <1>4, <2>5
  <2> QED  BY <1>11, <2>4, <2>6, TotalIs
<1>13. PICK q : q = Scale \div n  OBVIOUS
<1>14. lo = Least(Floor, q) /\ hi = Most(Cap, q)
  <2>1. lo = Least(Floor, q) /\ hi = Most(q, Cap)  BY <1>2, <1>13 DEF Lowest, Highest, Equal
  <2>2. q \in Nat /\ Cap \in Int
    <3>1. q = Equal(D)  BY <1>2, <1>13 DEF Equal
    <3> QED  BY <3>1, ShareBounds, SleevesAssumption DEF SleevesAssumption, Scale
  <2>3. Most(q, Cap) = Most(Cap, q)  BY <2>2 DEF Most
  <2> QED  BY <2>1, <2>3
<1>15. \A s \in D : u[s] >= lo - Rounding /\ u[s] <= hi + Rounding
  <2> SUFFICES ASSUME NEW s \in D PROVE u[s] >= lo - 2 * N /\ u[s] <= hi + 2 * N  BY <1>11
  <2> QED  BY <1>4, <1>5, <1>9
<1> QED  BY <1>2, <1>7, <1>9, <1>10, <1>12, <1>13, <1>14, <1>15 DEF WholeBudget

-----------------------------------------------------------------------------
(* What a sleeve's score needs of its totals.                               *)
ScoreFits(d) ==
    /\ d.closed \in Nat
    /\ d.closed > 0 => d.recent \in Nat \ {0} /\ d.recentWins \in Nat /\ d.recentPnl \in Int

LEMMA QualityIs ==
    ASSUME NEW s, ScoreFits(slResults[s])
    PROVE  Quality(s) \in Nat \ {0}
<1>1. PICK d : d = slResults[s]  OBVIOUS
<1>2. PICK win, avg : /\ win = IF d.closed = 0 THEN Scale \div 2 ELSE (d.recentWins * Scale) \div d.recent
                      /\ avg = IF d.closed = 0 THEN 0 ELSE d.recentPnl \div d.recent
  OBVIOUS
<1>3. Quality(s) = Most(Scale \div 20, (55 * win + 45 * Clamp((avg + Scale \div 50) * 25)) \div 100)
  BY <1>1, <1>2 DEF Quality
<1>4. win \in Nat
  <2>1. CASE d.closed = 0
    <3>1. Scale \div 2 \in Nat  BY DEF Scale
    <3> QED  BY <1>2, <2>1, <3>1
  <2>2. CASE d.closed # 0
    <3>1. d.recentWins \in Nat /\ d.recent \in Nat \ {0} /\ Scale \in Nat  BY <1>1, <2>2 DEF ScoreFits, Scale
    <3>2. (d.recentWins * Scale) \div d.recent \in Nat  BY <3>1, Portion
    <3> QED  BY <1>2, <2>2, <3>2
  <2> QED  BY <2>1, <2>2
<1>5. avg \in Int
  <2>1. CASE d.closed = 0  BY <1>2, <2>1
  <2>2. CASE d.closed # 0
    <3>1. d.recentPnl \in Int /\ d.recent \in Nat \ {0}  BY <1>1, <2>2 DEF ScoreFits
    <3>2. d.recentPnl \div d.recent \in Int  BY <3>1
    <3> QED  BY <1>2, <2>2, <3>2
  <2> QED  BY <2>1, <2>2
<1>6. PICK c : c = Clamp((avg + Scale \div 50) * 25)  OBVIOUS
<1>7. c \in Nat
  <2>1. (avg + Scale \div 50) * 25 \in Int  BY <1>5 DEF Scale
  <2> QED  BY <1>6, <2>1 DEF Clamp, Least, Most, Scale
<1>8. (55 * win + 45 * c) \div 100 \in Nat  BY <1>4, <1>7
<1>9. Scale \div 20 \in Nat \ {0}  BY DEF Scale
<1> QED  BY <1>3, <1>6, <1>8, <1>9 DEF Most

LEMMA TargetsAre ==
    ASSUME Cardinality(Symbols) <= Scale, \A s \in Symbols : ScoreFits(slResults[s]),
           NEW shares, DOMAIN shares \subseteq Symbols, NEW t, t = Targets(shares)
    PROVE  /\ t = NoProfile.targets \/ WholeBudget(t)
           /\ \A s, x \in DOMAIN t : Quality(s) >= Quality(x) => t[s] >= t[x] /\ t[s] \in Nat /\ t[x] \in Nat
<1> DEFINE D == DOMAIN shares \cup {s \in Symbols : slResults[s].closed > 0}
           q == [s \in D |-> Quality(s)]
           raw == [s \in D |-> (q[s] * Scale) \div Total(q)]
<1>1. D \in SUBSET Symbols  OBVIOUS
<1>2. t = IF D = {} THEN q ELSE BoundedShares(raw)  BY DEF Targets
<1>3. DOMAIN q = D /\ \A s \in D : q[s] = Quality(s)  OBVIOUS
<1>4. DOMAIN raw = D /\ \A s \in D : raw[s] = (q[s] * Scale) \div Total(q)  OBVIOUS
<1>5. CASE D = {}
  <2>1. q = [s \in {} |-> 0]  BY <1>5
  <2>2. t = [s \in {} |-> 0]  BY <1>2, <1>5, <2>1
  <2>3. NoProfile.targets = [s \in {} |-> 0]  BY DEF NoProfile
  <2> QED  BY <2>2, <2>3
<1>6. CASE D # {}
  <2> HIDE DEF D, q, raw
  <2>1. IsFiniteSet(D)  BY <1>1, <1>6, ShareBounds
  <2>2. \A s \in D : q[s] \in Nat \ {0} /\ q[s] \in Nat  BY <1>1, <1>3, QualityIs
  <2>3. PICK m : m = Total(q)  OBVIOUS
  <2>4. m \in Nat \ {0}
    <3>1. PICK s : s \in D  BY <1>6
    <3>2. SumOf(q) \in Nat /\ q[s] <= SumOf(q)  BY <1>3, <2>1, <2>2, <3>1, PartOfTotal
    <3> QED  BY <2>2, <2>3, <3>1, <3>2, TotalIs
  <2>5. \A s \in D : raw[s] = (Scale * q[s]) \div m /\ raw[s] \in Nat
    <3> SUFFICES ASSUME NEW s \in D PROVE raw[s] = (Scale * q[s]) \div m /\ raw[s] \in Nat  OBVIOUS
    <3>1. PICK a : a = q[s]  OBVIOUS
    <3>2. a \in Nat /\ Scale \in Nat  BY <2>2, <3>1 DEF Scale
    <3>3. a * Scale = Scale * a /\ (Scale * a) \div m \in Nat  BY <2>4, <3>2, Portion
    <3> QED  BY <1>4, <2>3, <3>1, <3>3
  <2>6. t = BoundedShares(raw)  BY <1>2, <1>6
  <2>7. /\ DOMAIN t = D /\ WholeBudget(t)
        /\ \A s, x \in D : raw[s] >= raw[x] => t[s] >= t[x]
    BY <1>1, <1>4, <1>6, <2>5, <2>6, BoundedSharesAre
  <2>8. ASSUME NEW s \in D, NEW x \in D, Quality(s) >= Quality(x)  PROVE t[s] >= t[x] /\ t[s] \in Nat /\ t[x] \in Nat
    <3>1. PICK a, b : a = q[s] /\ b = q[x]  OBVIOUS
    <3>2. a \in Nat /\ b \in Nat /\ b <= a /\ Scale \in Nat  BY <1>3, <2>2, <2>8, <3>1 DEF Scale
    <3>3. (Scale * b) \div m <= (Scale * a) \div m  BY <2>4, <3>2, PortionGrows
    <3>4. raw[s] >= raw[x]  BY <2>5, <3>1, <3>3
    <3> QED  BY <2>7, <3>4 DEF WholeBudget
  <2> QED  BY <2>7, <2>8
<1> QED  BY <1>5, <1>6

(* What two shared-out budgets differ in is at most twice the budget.       *)
LEMMA TurnoverIs ==
    ASSUME NEW p, p.targets = NoProfile.targets \/ WholeBudget(p.targets),
           NEW new, new = NoProfile.targets \/ WholeBudget(new)
    PROVE  Turnover(p, new) \in 0..Scale
<1> DEFINE old == p.targets
           sh(f, s) == IF s \in DOMAIN f THEN f[s] ELSE 0
           D == DOMAIN old \cup DOMAIN new
           moved == [s \in D |-> Most(sh(old, s), sh(new, s)) - Least(sh(old, s), sh(new, s))]
           a == [s \in D |-> sh(old, s)]
           b == [s \in D |-> sh(new, s)]
           both == [s \in D |-> a[s] + b[s]]
<1>0. NoProfile.targets = [s \in {} |-> 0]  BY DEF NoProfile
<1>1. ASSUME NEW f, f = NoProfile.targets \/ WholeBudget(f)
      PROVE  DOMAIN f \in SUBSET Symbols /\ IsFiniteSet(DOMAIN f) /\ \A s \in DOMAIN f : f[s] \in Nat
  <2>1. CASE f = NoProfile.targets
    <3>1. DOMAIN f = {}  BY <1>0, <2>1
    <3> QED  BY <3>1, FS_EmptySet
  <2>2. CASE WholeBudget(f)
    <3>1. IsFiniteSet(Symbols)  BY SleevesAssumption DEF SleevesAssumption
    <3> QED  BY <2>2, <3>1, FS_Subset DEF WholeBudget
  <2> QED  BY <1>1, <2>1, <2>2
<1>2. ASSUME NEW f, f = NoProfile.targets \/ WholeBudget(f)  PROVE SumOf(f) \in Nat /\ SumOf(f) <= Scale
  <2>1. SumOf(f) \in Nat  BY <1>1, <1>2, SumType
  <2>2. CASE WholeBudget(f)
    <3>1. Total(f) \in Scale - Rounding..Scale  BY <2>2 DEF WholeBudget
    <3>2. Rounding \in Int
      <4>1. IsFiniteSet(Symbols)  BY SleevesAssumption DEF SleevesAssumption
      <4> QED  BY <4>1, FS_CardinalityType DEF Rounding
    <3> QED  BY <2>1, <3>1, <3>2, TotalIs DEF Scale
  <2>3. CASE f = NoProfile.targets
    <3>1. DOMAIN f = {}  BY <1>0, <2>3
    <3> DEFINE none == [s \in {} |-> IF s \in {} THEN 1 ELSE 0]
    <3>2. f = none  BY <1>0, <2>3
    <3>3. SumOf(none) = Cardinality({} \cap {})  BY SumOfOnes, FS_EmptySet
    <3>4. SumOf(f) = 0
      <4>1. {} \cap {} = {}  OBVIOUS
      <4> HIDE DEF none
      <4> QED  BY <3>2, <3>3, <4>1, FS_EmptySet
    <3> QED  BY <3>4 DEF Scale
  <2> QED  BY <1>2, <2>2, <2>3
<1>3. CASE ~p.known
  <2>1. Turnover(p, new) = 0  BY <1>3 DEF Turnover
  <2> QED  BY <2>1 DEF Scale
<1>4. CASE p.known
  <2>1. Turnover(p, new) = Total(moved) \div 2  BY <1>4 DEF Turnover
  <2>2. IsFiniteSet(D)  BY <1>1, FS_Union
  <2>3. /\ \A s \in D : sh(old, s) \in Nat /\ sh(new, s) \in Nat
        /\ DOMAIN old \subseteq D /\ DOMAIN new \subseteq D
    BY <1>1
  <2>4. \A s \in D : /\ a[s] \in Nat /\ b[s] \in Nat /\ both[s] = a[s] + b[s]
                     /\ a[s] = IF s \in DOMAIN old THEN old[s] ELSE 0
                     /\ b[s] = IF s \in DOMAIN new THEN new[s] ELSE 0
                     /\ moved[s] = Most(a[s], b[s]) - Least(a[s], b[s])
    BY <2>3
  <2>5. DOMAIN a = D /\ DOMAIN b = D /\ DOMAIN both = D /\ DOMAIN moved = D  OBVIOUS
  <2> HIDE DEF a, b, both, moved, D
  <2>6. SumOf(old) = SumOf(a)
    <3>1. \A s \in DOMAIN a : a[s] \in Int /\ (IF s \in DOMAIN old THEN old[s] = a[s] ELSE a[s] = 0)  BY <2>4, <2>5
    <3> QED  BY <2>2, <2>3, <2>5, <3>1, SumOfSome
  <2>7. SumOf(new) = SumOf(b)
    <3>1. \A s \in DOMAIN b : b[s] \in Int /\ (IF s \in DOMAIN new THEN new[s] = b[s] ELSE b[s] = 0)  BY <2>4, <2>5
    <3> QED  BY <2>2, <2>3, <2>5, <3>1, SumOfSome
  <2>8. SumOf(both) = SumOf(a) + SumOf(b)
    <3>1. \A s \in D : a[s] \in Int /\ b[s] \in Int /\ both[s] = a[s] + b[s]  BY <2>4
    <3> QED  BY <2>2, <2>5, <3>1, SumOfSums
  <2>9. \A s \in D : moved[s] \in Nat /\ both[s] \in Int /\ moved[s] <= both[s]
    <3> SUFFICES ASSUME NEW s \in D PROVE moved[s] \in Nat /\ both[s] \in Int /\ moved[s] <= both[s]  OBVIOUS
    <3>1. PICK x, y : x = a[s] /\ y = b[s]  OBVIOUS
    <3>2. x \in Nat /\ y \in Nat /\ both[s] = x + y /\ moved[s] = Most(x, y) - Least(x, y)  BY <2>4, <3>1
    <3>3. Most(x, y) - Least(x, y) \in Nat /\ Most(x, y) - Least(x, y) <= x + y  BY <3>2 DEF Most, Least
    <3> QED  BY ONLY <3>2, <3>3
  <2>10. SumOf(moved) <= SumOf(both) /\ SumOf(moved) \in Nat
    <3>1. \A s \in D : moved[s] \in Int /\ both[s] \in Int /\ moved[s] <= both[s]  BY <2>9
    <3> QED  BY <2>2, <2>5, <2>9, <3>1, SumsCompare, SumType
  <2>11. PICK z \in Nat : z = SumOf(moved)  BY <2>10
  <2>12. z <= 2 * Scale
    <3>1. SumOf(old) \in Nat /\ SumOf(old) <= Scale /\ SumOf(new) \in Nat /\ SumOf(new) <= Scale  BY <1>2
    <3> QED  BY <2>6, <2>7, <2>8, <2>10, <2>11, <3>1 DEF Scale
  <2>13. z \div 2 \in 0..Scale  BY <2>12 DEF Scale
  <2> QED  BY <2>1, <2>11, <2>13, TotalIs
<1> QED  BY <1>3, <1>4

(* The totals of every sleeve have what its score needs, so do those a      *)
(* recording has read, and the profile's targets are a whole budget.        *)
RecordScores(d) ==
    d # NotRecording =>
        /\ \A s \in Symbols : ScoreFits(d.totals[s])
        /\ d.at # "read" => Len(d.window) > 0

ScoreInv ==
    /\ \A s \in Symbols : ScoreFits(slResults[s])
    /\ \A r \in Recorders : RecordScores(slRecord[r])

BudgetInv ==
    /\ slProfile.targets = NoProfile.targets \/ WholeBudget(slProfile.targets)
    /\ slProfile.turnover \in 0..Scale

LEMMA EarnedIs == ASSUME NEW w \in Seq(Pnls) PROVE Earned(w) \in Int
<1>1. PICK l \in Nat : l = Len(w)  OBVIOUS
<1>2. DOMAIN w = 1..l /\ IsFiniteSet(1..l)  BY <1>1, FS_Interval
<1>3. \A i \in 1..l : w[i] \in Int
  <2>1. \A i \in 1..l : w[i] \in Pnls  BY <1>1
  <2> QED  BY <2>1, SleeveFacts
<1>4. Earned(w) = SumOf(w)
  <2>1. 1..Len(w) = DOMAIN w  BY <1>1, <1>2
  <2> QED  BY <2>1 DEF Earned, SumOf
<1> QED  BY <1>2, <1>3, <1>4, SumType

LEMMA ScoreInit == SlInit => ScoreInv
<1> SUFFICES ASSUME SlInit PROVE ScoreInv
  OBVIOUS
<1>1. ASSUME NEW s \in Symbols PROVE ScoreFits(slResults[s])
  <2>1. PICK w, d : w = Past[s] /\ d = TotalsOf(w)  OBVIOUS
  <2>2. slResults[s] = d  BY <2>1 DEF SlInit
  <2>3. w \in Seq(Pnls) /\ Len(w) \in Nat /\ Wins(w) \in Nat /\ Earned(w) \in Int
    BY <2>1, SleeveFacts, WonAndLost, EarnedIs
  <2>4. d.closed = Len(w) /\ d.recent = Len(w) /\ d.recentWins = Wins(w)  BY <2>1, TotalsFields
  <2>5. d.recentPnl = Earned(w)  BY <2>1 DEF TotalsOf
  <2> QED  BY <2>2, <2>3, <2>4, <2>5 DEF ScoreFits
<1>2. \A r \in Recorders : slRecord[r] = NotRecording  BY DEF SlInit
<1> QED  BY <1>1, <1>2 DEF ScoreInv, RecordScores

LEMMA ScoreStep == SleeveInv /\ ScoreInv /\ [SlNext]_slVars => ScoreInv'
<1> SUFFICES ASSUME SleeveInv, ScoreInv, [SlNext]_slVars PROVE ScoreInv'
  OBVIOUS
<1>0. ASSUME UNCHANGED slResults, NEW r \in Recorders, \A x \in Recorders : x # r => slRecord'[x] = slRecord[x],
             RecordScores(slRecord'[r])
      PROVE  ScoreInv'
  BY <1>0 DEF ScoreInv, RecordScores, ScoreFits
<1>1. CASE BeginProfile \/ EndProfile \/ ProfileExpires \/ UNCHANGED slVars
  <2>1. UNCHANGED <<slResults, slRecord>>  BY <1>1 DEF BeginProfile, EndProfile, ProfileExpires, slVars
  <2> QED  BY <2>1 DEF ScoreInv, RecordScores, ScoreFits
<1>2. ASSUME NEW r \in Recorders, NEW s \in Symbols, NEW p \in Pnls, BeginRecord(r, s, p) PROVE ScoreInv'
  <2>1. PICK x \in Symbols :
          slRecord'[r] = [at |-> "read", sleeve |-> x, pnl |-> p, totals |-> slResults, window |-> <<>>]
    BY <1>2, BeginRecordOK
  <2>2. slRecord'[r].at = "read" /\ slRecord'[r].totals = slResults  BY <2>1
  <2>3. RecordScores(slRecord'[r])  BY <2>2 DEF RecordScores, ScoreInv
  <2>4. UNCHANGED slResults  BY <1>2 DEF BeginRecord
  <2>5. \A x1 \in Recorders : x1 # r => slRecord'[x1] = slRecord[x1]  BY <1>2, BeginRecordOK
  <2> QED  BY <1>0, <2>3, <2>4, <2>5
<1>3. ASSUME NEW r \in Recorders, ReadWindow(r) PROVE ScoreInv'
  <2>1. PICK s \in Symbols, p \in Pnls : \E w, t :
          /\ slRecord[r] = [at |-> "read", sleeve |-> s, pnl |-> p, totals |-> t, window |-> w]
          /\ slRecord'[r] = [at |-> "window", sleeve |-> s, pnl |-> p, totals |-> t, window |-> Grown(slWindow[s], p)]
    BY <1>3, ReadWindowOK
  <2>2. PICK t : \E w :
          /\ slRecord[r] = [at |-> "read", sleeve |-> s, pnl |-> p, totals |-> t, window |-> w]
          /\ slRecord'[r] = [at |-> "window", sleeve |-> s, pnl |-> p, totals |-> t, window |-> Grown(slWindow[s], p)]
    BY <2>1
  <2>3. slRecord[r].totals = t /\ slRecord[r] # NotRecording  BY <2>2, NotRecordingAt
  <2>4. slRecord'[r].totals = t /\ slRecord'[r].window = Grown(slWindow[s], p)  BY <2>2
  <2>5. Len(Grown(slWindow[s], p)) > 0
    <3>1. slWindow[s] \in Seq(Pnls)  BY DEF SleeveInv
    <3>2. PICK k \in Nat : Len(Grown(slWindow[s], p)) = k + 1  BY <3>1, GrownIs
    <3> QED  BY <3>2
  <2>6. \A x \in Symbols : ScoreFits(t[x])  BY <2>3 DEF ScoreInv, RecordScores
  <2>7. RecordScores(slRecord'[r])  BY <2>4, <2>5, <2>6 DEF RecordScores
  <2>8. UNCHANGED slResults  BY <1>3 DEF ReadWindow
  <2>9. \A x \in Recorders : x # r => slRecord'[x] = slRecord[x]  BY <1>3, ReadWindowOK
  <2> QED  BY <1>0, <2>7, <2>8, <2>9
<1>4. ASSUME NEW r \in Recorders, WriteWindow(r) PROVE ScoreInv'
  <2>1. PICK s \in Symbols, p \in Pnls, w \in Seq(Pnls) : \E t :
          /\ slRecord[r] = [at |-> "window", sleeve |-> s, pnl |-> p, totals |-> t, window |-> w]
          /\ slRecord'[r] = [at |-> "written", sleeve |-> s, pnl |-> p, totals |-> t, window |-> w]
          /\ slWindow'[s] = w /\ \A x \in Symbols : x # s => slWindow'[x] = slWindow[x]
    BY <1>4, WriteWindowOK
  <2>2. PICK t :
          /\ slRecord[r] = [at |-> "window", sleeve |-> s, pnl |-> p, totals |-> t, window |-> w]
          /\ slRecord'[r] = [at |-> "written", sleeve |-> s, pnl |-> p, totals |-> t, window |-> w]
          /\ slWindow'[s] = w /\ \A x \in Symbols : x # s => slWindow'[x] = slWindow[x]
    BY <2>1
  <2>3. slRecord[r].at = "window" /\ slRecord[r].totals = t /\ slRecord[r].window = w /\ slRecord[r] # NotRecording
    BY <2>2, NotRecordingAt
  <2>4. slRecord'[r].totals = t /\ slRecord'[r].window = w  BY <2>2
  <2>5. RecordScores(slRecord'[r])  BY <2>3, <2>4 DEF RecordScores, ScoreInv
  <2>6. UNCHANGED slResults  BY <1>4 DEF WriteWindow
  <2>7. \A x \in Recorders : x # r => slRecord'[x] = slRecord[x]  BY <1>4, WriteWindowOK
  <2> QED  BY <1>0, <2>5, <2>6, <2>7
<1>5. ASSUME NEW r \in Recorders, WriteTotals(r) PROVE ScoreInv'
  <2>1. PICK s \in Symbols, p \in Pnls, w \in Seq(Pnls) : \E t :
          /\ slRecord[r] = [at |-> "written", sleeve |-> s, pnl |-> p, totals |-> t, window |-> w]
          /\ slResults'[s] = Added(t[s], w, p) /\ \A x \in Symbols : x # s => slResults'[x] = t[x]
    BY <1>5, WriteTotalsOK
  <2>2. PICK t :
          /\ slRecord[r] = [at |-> "written", sleeve |-> s, pnl |-> p, totals |-> t, window |-> w]
          /\ slResults'[s] = Added(t[s], w, p) /\ \A x \in Symbols : x # s => slResults'[x] = t[x]
    BY <2>1
  <2>3. slRecord[r].at = "written" /\ slRecord[r].totals = t /\ slRecord[r].window = w /\ slRecord[r] # NotRecording
    BY <2>2, NotRecordingAt
  <2>4. Len(w) > 0 /\ \A x \in Symbols : ScoreFits(t[x])  BY <2>3 DEF ScoreInv, RecordScores
  <2>5. ScoreFits(slResults'[s])
    <3>1. PICK d, o : d = slResults'[s] /\ o = t[s]  OBVIOUS
    <3>2. d = Added(o, w, p)  BY <2>2, <3>1
    <3>3. d.closed = o.closed + 1 /\ d.recent = Len(w) /\ d.recentWins = Wins(w) /\ d.recentPnl = Earned(w)
      BY <3>2, AddedFields
    <3>4. o.closed \in Nat  BY <2>4, <3>1 DEF ScoreFits
    <3>5. Len(w) \in Nat \ {0} /\ Wins(w) \in Nat /\ Earned(w) \in Int
      <4>1. Wins(w) \in Nat  BY WonAndLost
      <4>2. Earned(w) \in Int  BY EarnedIs
      <4>3. Len(w) \in Nat /\ Len(w) > 0  BY <2>4
      <4> QED  BY ONLY <4>1, <4>2, <4>3
    <3> QED  BY <3>1, <3>3, <3>4, <3>5 DEF ScoreFits
  <2>6. \A x \in Symbols : ScoreFits(slResults'[x])
    <3> SUFFICES ASSUME NEW x \in Symbols, x # s PROVE ScoreFits(slResults'[x])  BY <2>5
    <3> QED  BY <2>2, <2>4
  <2>7. slRecord'[r] = NotRecording /\ \A x \in Recorders : x # r => slRecord'[x] = slRecord[x]  BY <1>5, WriteTotalsOK
  <2>8. \A x \in Recorders : RecordScores(slRecord'[x])
    <3> SUFFICES ASSUME NEW x \in Recorders PROVE RecordScores(slRecord'[x])  OBVIOUS
    <3>1. CASE x = r  BY <2>7, <3>1 DEF RecordScores
    <3>2. CASE x # r  BY <2>7, <3>2 DEF ScoreInv
    <3> QED  BY <3>1, <3>2
  <2> QED  BY <2>6, <2>8 DEF ScoreInv, ScoreFits, RecordScores
<1>6. ASSUME NEW r \in Recorders, RecorderDies(r) PROVE ScoreInv'
  <2>1. UNCHANGED slResults /\ slRecord' = [slRecord EXCEPT ![r] = NotRecording]  BY <1>6 DEF RecorderDies
  <2>2. slRecord'[r] = NotRecording /\ \A x \in Recorders : x # r => slRecord'[x] = slRecord[x]
    BY <2>1 DEF SleeveInv
  <2>3. RecordScores(slRecord'[r])  BY <2>2 DEF RecordScores
  <2> QED  BY <1>0, <2>1, <2>2, <2>3
<1> QED  BY <1>1, <1>2, <1>3, <1>4, <1>5, <1>6 DEF SlNext

(* A profile's end is the only step that sets targets.                      *)
LEMMA EndsWithTargets ==
    ASSUME Cardinality(Symbols) <= Scale, SleeveInv, ScoreInv, EndProfile
    PROVE  /\ slProfile'.targets = NoProfile.targets \/ WholeBudget(slProfile'.targets)
           /\ slProfile'.turnover = Turnover(slProfile, slProfile'.targets)
           /\ \A s, x \in DOMAIN slProfile'.targets :
                 Quality(s) >= Quality(x) =>
                     /\ slProfile'.targets[s] >= slProfile'.targets[x]
                     /\ slProfile'.targets[s] \in Nat /\ slProfile'.targets[x] \in Nat
<1>1. PICK weight, shares, t, turnover :
        /\ shares = Attribution(slLooking, weight) /\ t = Targets(shares) /\ turnover = Turnover(slProfile, t)
        /\ slProfile' = [known |-> TRUE, shares |-> shares, targets |-> t, turnover |-> turnover]
  BY DEF EndProfile, Kept
<1>2. DOMAIN shares \subseteq Symbols  BY <1>1 DEF Attribution
<1>3. \A s \in Symbols : ScoreFits(slResults[s])  BY DEF ScoreInv
<1>4. /\ t = NoProfile.targets \/ WholeBudget(t)
      /\ \A s, x \in DOMAIN t : Quality(s) >= Quality(x) => t[s] >= t[x] /\ t[s] \in Nat /\ t[x] \in Nat
  BY <1>1, <1>2, <1>3, TargetsAre
<1>5. slProfile'.targets = t /\ slProfile'.turnover = turnover  BY <1>1
<1> QED  BY <1>1, <1>4, <1>5

LEMMA BudgetStep ==
    ASSUME Cardinality(Symbols) <= Scale
    PROVE  SleeveInv /\ ScoreInv /\ BudgetInv /\ [SlNext]_slVars => BudgetInv'
<1> SUFFICES ASSUME SleeveInv, ScoreInv, BudgetInv, [SlNext]_slVars PROVE BudgetInv'
  OBVIOUS
<1>1. CASE EndProfile
  <2>1. PICK old, new : old = slProfile /\ new = slProfile'.targets  OBVIOUS
  <2>2. /\ new = NoProfile.targets \/ WholeBudget(new)
        /\ slProfile'.turnover = Turnover(old, new)
    BY <1>1, <2>1, EndsWithTargets
  <2>3. old.targets = NoProfile.targets \/ WholeBudget(old.targets)  BY <2>1 DEF BudgetInv
  <2>4. Turnover(old, new) \in 0..Scale  BY <2>2, <2>3, TurnoverIs
  <2> QED  BY <2>1, <2>2, <2>4 DEF BudgetInv
<1>2. CASE ProfileExpires
  <2>1. slProfile' = NoProfile  BY <1>2 DEF ProfileExpires
  <2>2. NoProfile.turnover = 0  BY DEF NoProfile
  <2>3. slProfile'.targets = NoProfile.targets /\ slProfile'.turnover = 0  BY <2>1, <2>2
  <2>4. 0 \in 0..Scale  BY DEF Scale
  <2> QED  BY <2>3, <2>4 DEF BudgetInv
<1>3. ASSUME UNCHANGED slProfile PROVE BudgetInv'  BY <1>3 DEF BudgetInv
<1>4. CASE BeginProfile \/ UNCHANGED slVars  BY <1>3, <1>4 DEF BeginProfile, slVars
<1>5. CASE \E r \in Recorders :
              \/ \E s \in Symbols, pnl \in Pnls : BeginRecord(r, s, pnl)
              \/ ReadWindow(r) \/ WriteWindow(r) \/ WriteTotals(r) \/ RecorderDies(r)
  BY <1>3, <1>5 DEF BeginRecord, ReadWindow, WriteWindow, WriteTotals, RecorderDies
<1> QED  BY <1>1, <1>2, <1>4, <1>5 DEF SlNext

LEMMA BudgetInit == SlInit => BudgetInv
<1> SUFFICES ASSUME SlInit PROVE BudgetInv
  OBVIOUS
<1>1. slProfile = NoProfile  BY DEF SlInit
<1>2. NoProfile.turnover = 0 /\ 0 \in 0..Scale  BY DEF NoProfile, Scale
<1> QED  BY <1>1, <1>2 DEF BudgetInv

(* With no more sleeves than units of the budget (10000): the targets of a  *)
(* profile share out the whole budget between the floor and the cap, as far *)
(* as an equal share is between them, and a profile never moves more than   *)
(* the budget (PortfolioLedgerService._bounded_share_targets,               *)
(* _concentration_drift).                                                   *)
THEOREM BudgetsAreShared ==
    ASSUME Cardinality(Symbols) <= Scale
    PROVE  SlSpec => [](BudgetIsShared /\ TurnoverIsBounded)
<1> DEFINE Inv == SleeveInv /\ ScoreInv /\ BudgetInv
<1>1. SlInit => Inv  BY SleeveInit, ScoreInit, BudgetInit
<1>2. Inv /\ [SlNext]_slVars => Inv'  BY SleeveStep, ScoreStep, BudgetStep
<1>3. Inv => BudgetIsShared /\ TurnoverIsBounded
  BY DEF BudgetInv, WholeBudget, BudgetIsShared, TurnoverIsBounded
<1> HIDE DEF Inv
<1> QED  BY <1>1, <1>2, <1>3, PTL DEF SlSpec

(* A sleeve whose score is at least another's never gets the smaller target *)
(* (PortfolioLedgerService._factor_sleeve_budgets).                         *)
THEOREM BetterSleevesGetMore ==
    ASSUME Cardinality(Symbols) <= Scale
    PROVE  SlSpec => [][BetterGetsMore]_slVars
<1> DEFINE Inv == SleeveInv /\ ScoreInv
<1>1. SlInit => Inv  BY SleeveInit, ScoreInit
<1>2. Inv /\ [SlNext]_slVars => Inv'  BY SleeveStep, ScoreStep
<1>3. Inv /\ [SlNext]_slVars => [BetterGetsMore]_slVars
  <2> SUFFICES ASSUME SleeveInv, ScoreInv, [SlNext]_slVars, slProfile' # slProfile,
                      NEW s \in DOMAIN slProfile'.targets, NEW x \in DOMAIN slProfile'.targets, Quality(s) >= Quality(x)
               PROVE  slProfile'.targets[s] >= slProfile'.targets[x] - Rounding
    BY DEF BetterGetsMore
  <2>1. Rounding \in Nat
    <3>1. IsFiniteSet(Symbols)  BY SleeveFacts
    <3> QED  BY <3>1, FS_CardinalityType DEF Rounding
  <2>2. EndProfile \/ ProfileExpires
    BY DEF SlNext, slVars, BeginProfile, BeginRecord, ReadWindow, WriteWindow, WriteTotals, RecorderDies
  <2>3. CASE ProfileExpires
    <3>1. slProfile'.targets = [y \in {} |-> 0]  BY <2>3 DEF ProfileExpires, NoProfile
    <3>2. DOMAIN slProfile'.targets = {}  BY <3>1
    <3> QED  BY <3>2
  <2>4. CASE EndProfile
    <3>1. PICK t : t = slProfile'.targets  OBVIOUS
    <3>2. t[s] >= t[x] /\ t[s] \in Nat /\ t[x] \in Nat  BY <2>4, <3>1, EndsWithTargets
    <3> QED  BY <2>1, <3>1, <3>2
  <2> QED  BY <2>2, <2>3, <2>4
<1> HIDE DEF Inv
<1> QED  BY <1>1, <1>2, <1>3, PTL DEF SlSpec

-----------------------------------------------------------------------------
(* What the bounds leave of the clock, the starts and the requests.         *)
AkBounds ==
    /\ akNow <= Horizon /\ akStarts \in 0..MaxStarts
    /\ \A r \in Replicas, k \in Keys : akEntry[r][k].until >= Never

LEMMA KeyBoundsInit == AkInit => AkBounds
BY KeyFacts, ApiKeysAssumption DEF AkInit, AkBounds, Missing, ApiKeysAssumption

LEMMA KeyBoundsStep == AkInv /\ AkBounds /\ [AkNext]_akVars => AkBounds'
<1> SUFFICES ASSUME AkInv, AkBounds, [AkNext]_akVars PROVE AkBounds'
  OBVIOUS
<1>1. akNow \in Nat /\ Never \in Int /\ Never <= 0 /\ Never' = Never  BY KeyFacts DEF AkInv, AkShape, Never
<1>2. ASSUME NEW r \in Replicas, NEW k \in Keys, Authenticate(r, k) PROVE AkBounds'
  <2>1. akEntry' = [akEntry EXCEPT ![r][k] = Found(k)] /\ UNCHANGED <<akNow, akStarts>>  BY <1>2 DEF Authenticate
  <2>2. Found(k).until >= Never  BY <1>1, LifetimeBounds DEF Found, AkInv
  <2>3. \A q \in Replicas, l \in Keys : akEntry'[q][l] = Found(k) \/ akEntry'[q][l] = akEntry[q][l]
    BY <2>1 DEF AkInv, AkShape
  <2> QED  BY <1>1, <2>1, <2>2, <2>3 DEF AkBounds
<1>3. ASSUME NEW r \in Replicas, Dies(r) PROVE AkBounds'
  <2>1. akEntry' = [akEntry EXCEPT ![r] = [k \in Keys |-> Missing]] /\ UNCHANGED <<akNow, akStarts>>  BY <1>3 DEF Dies
  <2>2. Missing.until >= Never  BY <1>1 DEF Missing
  <2>3. \A q \in Replicas, l \in Keys : akEntry'[q][l] = Missing \/ akEntry'[q][l] = akEntry[q][l]
    BY <2>1 DEF AkInv, AkShape
  <2> QED  BY <1>1, <2>1, <2>2, <2>3 DEF AkBounds
<1>4. ASSUME NEW r \in Replicas, Starts(r) PROVE AkBounds'
  BY <1>1, <1>4, ApiKeysAssumption DEF Starts, AkBounds, ApiKeysAssumption
<1>5. ASSUME NEW k \in Keys, Issue(k) \/ Revoke(k) PROVE AkBounds'
  BY <1>1, <1>5 DEF Issue, Revoke, Write, AkBounds
<1>6. CASE AkTick
  BY <1>1, <1>6, ApiKeysAssumption DEF AkTick, AkBounds, ApiKeysAssumption
<1>7. CASE UNCHANGED akVars  BY <1>1, <1>7 DEF akVars, AkBounds
<1> QED  BY <1>2, <1>3, <1>4, <1>5, <1>6, <1>7 DEF AkNext

LEMMA KeysTyped == AkInv /\ AkBounds => AkTypeOK
<1> SUFFICES ASSUME AkInv, AkBounds PROVE AkTypeOK
  OBVIOUS
<1>1. akNow \in 0..Horizon  BY ApiKeysAssumption DEF ApiKeysAssumption, AkInv, AkShape, AkBounds
<1>2. Never \in Int /\ AuthTtl \in Nat /\ Never <= 0 /\ Horizon \in Nat  BY KeyFacts, ApiKeysAssumption DEF ApiKeysAssumption
<1>3. \A k \in Keys : akValidAt[k] \in Never..Horizon /\ akInvalidAt[k] \in Never..Horizon
  <2>1. \A k \in Keys : akValidAt[k] \in Never..akNow /\ akInvalidAt[k] \in Never..akNow  BY DEF AkInv, AnswerInv
  <2> QED  BY <1>1, <1>2, <2>1
<1>4. \A r \in Replicas, k \in Keys : akEntry[r][k] \in [valid : BOOLEAN, until : Never..Horizon + AuthTtl]
  <2> SUFFICES ASSUME NEW r \in Replicas, NEW k \in Keys
               PROVE  akEntry[r][k] \in [valid : BOOLEAN, until : Never..Horizon + AuthTtl]
    OBVIOUS
  <2>1. PICK v, u : v = akEntry[r][k].valid /\ u = akEntry[r][k].until  OBVIOUS
  <2>2. akEntry[r][k] = [valid |-> v, until |-> u] /\ v \in BOOLEAN /\ u \in Int
    BY <2>1 DEF AkInv, AkShape
  <2>3. LastTrue(k, v) <= Horizon /\ LastTrue(k, v) \in Int
    BY <1>1, <1>2, <1>3 DEF LastTrue
  <2>4. u <= LastTrue(k, v) + AuthTtl  BY <2>1 DEF AkInv, AnswerInv
  <2>5. u \in Never..Horizon + AuthTtl  BY <1>2, <2>1, <2>2, <2>3, <2>4 DEF AkBounds
  <2> QED  BY <2>2, <2>5
<1>5. akEntry \in [Replicas -> [Keys -> [valid : BOOLEAN, until : Never..Horizon + AuthTtl]]]
  BY <1>4 DEF AkInv, AkShape
<1>6. akValidAt \in [Keys -> Never..Horizon] /\ akInvalidAt \in [Keys -> Never..Horizon]
  BY <1>3 DEF AkInv, AkShape
<1> QED  BY <1>1, <1>5, <1>6 DEF AkTypeOK, AkInv, AkShape, AkBounds

-----------------------------------------------------------------------------
(* No counter has more than its caller sent.                                *)
RtBounds ==
    /\ rtNow <= LastMoment /\ rtRestarts \in 0..MaxRestarts /\ rtSent \in [Callers -> 0..MaxCounted]
    /\ \A c \in Caches, i \in Callers, w \in Windows :
          rtCount[c][i][w].n <= rtSent[i] /\ rtPassed[c][i][w].n <= rtSent[i]

LEMMA RateBoundsInit == RtInit => RtBounds
<1> SUFFICES ASSUME RtInit PROVE RtBounds
  OBVIOUS
<1>1. \A c \in Caches, i \in Callers, w \in Windows : rtCount[c][i][w].n = 0 /\ rtPassed[c][i][w].n = 0 /\ rtSent[i] = 0
  BY NoCountShape DEF RtInit
<1>2. rtNow = 0 /\ rtRestarts = 0 /\ rtSent \in [Callers -> 0..MaxCounted]
  BY RateLimitsAssumption DEF RtInit, RateLimitsAssumption
<1> QED  BY <1>1, <1>2, RateLimitsAssumption DEF RtBounds, RateLimitsAssumption

(* A counter with one more has at most one more.                            *)
LEMMA AtMostOneMore ==
    ASSUME NEW count \in Counter, NEW w \in Windows
    PROVE  Incremented(count, w).n <= count.n + 1 /\ Incremented(count, w).n \in Nat
<1>1. count.n \in Nat  BY DEF Counter
<1>2. Incremented(count, w).n = count.n + 1 \/ Incremented(count, w).n = 1  BY DEF Incremented, OneMore
<1> QED  BY <1>1, <1>2

LEMMA RateBoundsStep == RtInv /\ RtBounds /\ [RtNext]_rtVars => RtBounds'
<1> SUFFICES ASSUME RtInv, RtBounds, [RtNext]_rtVars PROVE RtBounds'
  OBVIOUS
<1>1. /\ rtNow \in Nat /\ rtCount \in [Caches -> [Callers -> [Windows -> Counter]]]
      /\ rtPassed \in [Caches -> [Callers -> [Windows -> Counter]]]
      /\ rtSent \in [Callers -> 0..MaxCounted] /\ MaxCounted \in Nat
      /\ LastMoment \in Nat /\ MaxRestarts \in Nat /\ rtRestarts \in 0..MaxRestarts /\ rtNow <= LastMoment
  BY RateLimitsAssumption DEF RtInv, RtShape, RtBounds, RateLimitsAssumption
<1>2. \A c \in Caches, i \in Callers, w \in Windows :
         /\ rtCount[c][i][w].n <= rtSent[i] /\ rtPassed[c][i][w].n <= rtSent[i]
         /\ rtCount[c][i][w].n \in Nat /\ rtPassed[c][i][w].n \in Nat /\ rtSent[i] \in Nat
         /\ rtCount[c][i][w] \in Counter
  BY <1>1 DEF RtBounds, Counter
<1>3. ASSUME NEW i \in Callers, rtSent[i] < MaxCounted, rtSent' = [rtSent EXCEPT ![i] = @ + 1]
      PROVE  /\ rtSent' \in [Callers -> 0..MaxCounted] /\ rtSent'[i] = rtSent[i] + 1
             /\ \A j \in Callers : j # i => rtSent'[j] = rtSent[j]
  BY <1>1, <1>3
<1>4. ASSUME NEW r \in Processes, NEW i \in Callers, Counted(r, i) PROVE RtBounds'
  <2> DEFINE c == CacheOf(r)
             count == [w \in Windows |-> Incremented(rtCount[c][i][w], w)]
             through == [w \in Windows |-> [bucket |-> Bucket(w), until |-> 0,
                           n |-> IF rtPassed[c][i][w].bucket = Bucket(w) THEN rtPassed[c][i][w].n + 1 ELSE 1]]
  <2>1. c \in Caches  BY DEF CacheOf, Caches
  <2>2. /\ UNCHANGED <<rtNow, rtRestarts>> /\ rtSent[i] < MaxCounted /\ rtSent' = [rtSent EXCEPT ![i] = @ + 1]
        /\ rtCount' = [rtCount EXCEPT ![c][i] = count]
        /\ rtPassed' = rtPassed \/ rtPassed' = [rtPassed EXCEPT ![c][i] = through]
    BY <1>1, <1>4, <2>1 DEF Counted
  <2>3. \A w \in Windows : count[w].n <= rtSent[i] + 1 /\ count[w].n \in Nat
    <3> SUFFICES ASSUME NEW w \in Windows PROVE count[w].n <= rtSent[i] + 1 /\ count[w].n \in Nat
      OBVIOUS
    <3>1. PICK k : k = rtCount[c][i][w]  OBVIOUS
    <3>2. k \in Counter /\ k.n <= rtSent[i] /\ k.n \in Nat /\ rtSent[i] \in Nat  BY <1>2, <2>1, <3>1
    <3>3. Incremented(k, w).n <= k.n + 1 /\ Incremented(k, w).n \in Nat  BY <3>2, AtMostOneMore
    <3>4. count[w].n = Incremented(k, w).n  BY <3>1
    <3> HIDE DEF count, c
    <3> QED  BY <3>2, <3>3, <3>4
  <2>4. \A w \in Windows : through[w].n <= rtSent[i] + 1
    <3> SUFFICES ASSUME NEW w \in Windows PROVE through[w].n <= rtSent[i] + 1
      OBVIOUS
    <3>1. through[w].n = rtPassed[c][i][w].n + 1 \/ through[w].n = 1  OBVIOUS
    <3> HIDE DEF through, c
    <3> QED  BY <1>2, <2>1, <3>1
  <2> HIDE DEF c, count, through
  <2>5. /\ rtSent' \in [Callers -> 0..MaxCounted] /\ rtSent'[i] = rtSent[i] + 1
        /\ \A j \in Callers : j # i => rtSent'[j] = rtSent[j]
    BY <1>3, <2>2
  <2>6. \A d \in Caches, j \in Callers, w \in Windows : rtCount'[d][j][w].n <= rtSent'[j]
    <3> SUFFICES ASSUME NEW d \in Caches, NEW j \in Callers, NEW w \in Windows
                 PROVE  rtCount'[d][j][w].n <= rtSent'[j]
      OBVIOUS
    <3>1. CASE d = c /\ j = i
      <4>1. rtCount'[d][j][w] = count[w]  BY <1>1, <2>1, <2>2, <3>1
      <4> QED  BY <2>3, <2>5, <3>1, <4>1
    <3>2. CASE ~(d = c /\ j = i)
      <4>1. rtCount'[d][j][w] = rtCount[d][j][w]  BY <1>1, <2>1, <2>2, <3>2
      <4> QED  BY <1>2, <2>5, <4>1
    <3> QED  BY <3>1, <3>2
  <2>7. \A d \in Caches, j \in Callers, w \in Windows : rtPassed'[d][j][w].n <= rtSent'[j]
    <3> SUFFICES ASSUME NEW d \in Caches, NEW j \in Callers, NEW w \in Windows
                 PROVE  rtPassed'[d][j][w].n <= rtSent'[j]
      OBVIOUS
    <3>1. CASE rtPassed'[d][j][w] = rtPassed[d][j][w]  BY <1>2, <2>5, <3>1
    <3>2. CASE rtPassed'[d][j][w] # rtPassed[d][j][w]
      <4>1. rtPassed' = [rtPassed EXCEPT ![c][i] = through]  BY <2>2, <3>2
      <4>2. d = c /\ j = i /\ rtPassed'[d][j][w] = through[w]  BY <1>1, <2>1, <3>2, <4>1
      <4> QED  BY <2>4, <2>5, <4>2
    <3> QED  BY <3>1, <3>2
  <2> QED  BY <1>1, <2>2, <2>5, <2>6, <2>7 DEF RtBounds
<1>5. ASSUME NEW r \in Processes, NEW i \in Callers, Uncounted(r, i) PROVE RtBounds'
  <2>1. PICK made : rtCount' = [rtCount EXCEPT !["redis"][i] = [w \in Windows |-> IF w \in made THEN Incremented(@[w], w) ELSE @[w]]]
    BY <1>5 DEF Uncounted
  <2> DEFINE count == [w \in Windows |-> IF w \in made THEN Incremented(rtCount["redis"][i][w], w) ELSE rtCount["redis"][i][w]]
  <2>2. "redis" \in Caches  BY DEF Caches
  <2>3. rtCount' = [rtCount EXCEPT !["redis"][i] = count]  BY <1>1, <2>1, <2>2
  <2>4. /\ UNCHANGED <<rtNow, rtRestarts, rtPassed>> /\ rtSent[i] < MaxCounted /\ rtSent' = [rtSent EXCEPT ![i] = @ + 1]
    BY <1>5 DEF Uncounted
  <2>5. \A w \in Windows : count[w].n <= rtSent[i] + 1
    <3> SUFFICES ASSUME NEW w \in Windows PROVE count[w].n <= rtSent[i] + 1
      OBVIOUS
    <3>1. PICK k : k = rtCount["redis"][i][w]  OBVIOUS
    <3>2. k \in Counter /\ k.n <= rtSent[i] /\ k.n \in Nat /\ rtSent[i] \in Nat  BY <1>2, <2>2, <3>1
    <3>3. Incremented(k, w).n <= k.n + 1 /\ Incremented(k, w).n \in Nat  BY <3>2, AtMostOneMore
    <3>4. count[w].n = Incremented(k, w).n \/ count[w].n = k.n  BY <3>1
    <3> HIDE DEF count
    <3> QED  BY <3>2, <3>3, <3>4
  <2> HIDE DEF count
  <2>6. /\ rtSent' \in [Callers -> 0..MaxCounted] /\ rtSent'[i] = rtSent[i] + 1
        /\ \A j \in Callers : j # i => rtSent'[j] = rtSent[j]
    BY <1>3, <2>4
  <2>7. \A d \in Caches, j \in Callers, w \in Windows : rtCount'[d][j][w].n <= rtSent'[j]
    <3> SUFFICES ASSUME NEW d \in Caches, NEW j \in Callers, NEW w \in Windows
                 PROVE  rtCount'[d][j][w].n <= rtSent'[j]
      OBVIOUS
    <3>1. CASE d = "redis" /\ j = i
      <4>1. rtCount'[d][j][w] = count[w]  BY <1>1, <2>2, <2>3, <3>1
      <4> QED  BY <2>5, <2>6, <3>1, <4>1
    <3>2. CASE ~(d = "redis" /\ j = i)
      <4>1. rtCount'[d][j][w] = rtCount[d][j][w]  BY <1>1, <2>2, <2>3, <3>2
      <4> QED  BY <1>2, <2>6, <4>1
    <3> QED  BY <3>1, <3>2
  <2>8. \A d \in Caches, j \in Callers, w \in Windows : rtPassed'[d][j][w].n <= rtSent'[j]
    BY <1>2, <2>4, <2>6
  <2> QED  BY <1>1, <2>4, <2>6, <2>7, <2>8 DEF RtBounds
<1>6. ASSUME NEW r \in Processes, Restart(r) PROVE RtBounds'
  <2>1. /\ UNCHANGED <<rtNow, rtSent>> /\ rtRestarts < MaxRestarts /\ rtRestarts' = rtRestarts + 1
        /\ rtCount' = [rtCount EXCEPT ![r] = NoCount] /\ rtPassed' = [rtPassed EXCEPT ![r] = NoCount]
    BY <1>6 DEF Restart
  <2>2. \A d \in Caches : /\ rtCount'[d] = NoCount \/ rtCount'[d] = rtCount[d]
                          /\ rtPassed'[d] = NoCount \/ rtPassed'[d] = rtPassed[d]
    BY <1>1, <2>1
  <2>3. \A d \in Caches, j \in Callers, w \in Windows : rtCount'[d][j][w].n <= rtSent'[j] /\ rtPassed'[d][j][w].n <= rtSent'[j]
    <3> SUFFICES ASSUME NEW d \in Caches, NEW j \in Callers, NEW w \in Windows
                 PROVE  rtCount'[d][j][w].n <= rtSent'[j] /\ rtPassed'[d][j][w].n <= rtSent'[j]
      OBVIOUS
    <3>1. NoCount[j][w].n = 0 /\ rtSent[j] \in Nat  BY <1>2, <2>2, NoCountShape, <1>1
    <3>2. rtCount'[d][j][w].n = 0 \/ rtCount'[d][j][w].n = rtCount[d][j][w].n  BY <2>2, <3>1
    <3>3. rtPassed'[d][j][w].n = 0 \/ rtPassed'[d][j][w].n = rtPassed[d][j][w].n  BY <2>2, <3>1
    <3> QED  BY <1>2, <2>1, <3>1, <3>2, <3>3
  <2> QED  BY <1>1, <2>1, <2>3 DEF RtBounds
<1>7. CASE RtTick
  BY <1>1, <1>7 DEF RtTick, RtBounds
<1>8. CASE UNCHANGED rtVars  BY <1>8 DEF rtVars, RtBounds
<1> QED  BY <1>4, <1>5, <1>6, <1>7, <1>8 DEF RtNext

LEMMA RatesTyped == RtInv /\ RtBounds => RtTypeOK
<1> SUFFICES ASSUME RtInv, RtBounds PROVE RtTypeOK
  OBVIOUS
<1>1. /\ rtNow \in 0..LastMoment /\ rtInMemory \subseteq Processes /\ rtRestarts \in 0..MaxRestarts
      /\ rtSent \in [Callers -> 0..MaxCounted] /\ rtNow \in Nat /\ LastMoment \in Nat /\ MaxCounted \in Nat
  BY RateLimitsAssumption DEF RtInv, RtShape, RtBounds, RateLimitsAssumption
<1>2. ASSUME NEW c \in Caches, NEW i \in Callers, NEW w \in Windows
      PROVE  /\ rtCount[c][i][w].n \in 0..MaxCounted /\ rtPassed[c][i][w].n \in 0..MaxCounted
             /\ rtCount[c][i][w].bucket \in 0..LastMoment /\ rtPassed[c][i][w].bucket \in 0..LastMoment
  <2>1. rtCount[c][i][w] \in Counter /\ rtPassed[c][i][w] \in Counter  BY DEF RtInv, RtShape
  <2>2. /\ rtCount[c][i][w].n \in Nat /\ rtPassed[c][i][w].n \in Nat
        /\ rtCount[c][i][w].bucket \in Nat /\ rtPassed[c][i][w].bucket \in Nat
    BY <2>1 DEF Counter
  <2>3. rtCount[c][i][w].n <= rtSent[i] /\ rtPassed[c][i][w].n <= rtSent[i] /\ rtSent[i] \in 0..MaxCounted
    BY <1>1 DEF RtBounds
  <2>4. rtCount[c][i][w].bucket <= Bucket(w) /\ rtPassed[c][i][w].bucket <= Bucket(w)
    BY DEF RtInv, InWindow
  <2>5. Bucket(w) <= rtNow /\ Bucket(w) \in Nat
    <3>1. PICK l : l = Lengths[w]  OBVIOUS
    <3>2. l \in Nat \ {0}  BY <3>1, LimitTypes
    <3>3. rtNow \div l <= rtNow /\ rtNow \div l \in Nat
      BY <1>1, <3>2
    <3> QED  BY <3>1, <3>3 DEF Bucket
  <2> QED  BY <1>1, <2>2, <2>3, <2>4, <2>5
<1> QED  BY <1>1, <1>2 DEF RtTypeOK

-----------------------------------------------------------------------------
(* The parts side by side.                                                  *)

(* What each part keeps whenever it moves.  A call of place_order that is    *)
(* not looked at rests in its end.                                          *)
PartsInv ==
    /\ DdInv /\ OpTypeOK /\ (part = "placement" => IInv) /\ BookInv
    /\ JobsInv /\ BroadcastInv
    /\ AkInv /\ AkBounds /\ RtInv /\ RtBounds
    /\ MarketInv /\ ScanInv /\ SleeveInv /\ LiveInv

LEMMA PartsInit == Init => PartsInv
<1> SUFFICES ASSUME Init PROVE PartsInv
  OBVIOUS
<1>1. DdInit /\ VoInit /\ DsInit /\ DvInit /\ AkInit /\ RtInit /\ MkInit /\ ScInit /\ SlInit /\ LvInit
  BY DEF Init
<1>2. OpTypeOK /\ (part = "placement" => IInv)
  <2>1. CASE part = "placement"
    <3>1. IInv  BY <2>1, InitIInv DEF Init
    <3> QED  BY <3>1 DEF IInv
  <2>2. CASE part # "placement"
    <3>1. 1 \in 1..(Attempts * NumExchanges)
      <4>1. (1 - 1) * NumExchanges + 1 = 1 /\ 1 \in 1..Attempts /\ 1 \in 1..NumExchanges  BY PlacementAssumption
      <4> QED  BY <4>1, TriesBound
    <3>2. /\ kind = "MARKET" /\ pc = "done" /\ attempt = 1 /\ at = 1 /\ tries = 1 /\ sent = 0
          /\ mine = 0 /\ want = 0 /\ resting = 0 /\ filled = Quantity /\ told = Quantity /\ clean = TRUE
      BY <2>2 DEF Init
    <3>3. OpTypeOK  BY <3>1, <3>2, PlacementAssumption DEF OpTypeOK
    <3> QED  BY <2>2, <3>3
  <2> QED  BY <2>1, <2>2
<1> QED  BY <1>1, <1>2, InductiveInit, BookInit, JobsInit, BroadcastInit, AkInitInv, KeyBoundsInit, RtInitInv,
            RateBoundsInit, MarketInit, ScanInit, SleeveInit, LiveInit DEF PartsInv

(* One part moves by a step of its own, and the others by none.             *)
LEMMA PartsMove ==
    [Next]_vars =>
        /\ [DdNext]_ddVars /\ [OpNext]_opVars /\ [VoNext]_voVars /\ [DsNext]_dsVars /\ [DvNext]_dvVars
        /\ [AkNext]_akVars /\ [RtNext]_rtVars /\ [MkNext]_mkVars /\ [ScNext]_scVars /\ [SlNext]_slVars
        /\ [LvNext]_lvVars
        /\ part' = part /\ (part # "placement" => UNCHANGED opVars)
<1>1. Next =>
        /\ [DdNext]_ddVars /\ [OpNext]_opVars /\ [VoNext]_voVars /\ [DsNext]_dsVars /\ [DvNext]_dvVars
        /\ [AkNext]_akVars /\ [RtNext]_rtVars /\ [MkNext]_mkVars /\ [ScNext]_scVars /\ [SlNext]_slVars
        /\ [LvNext]_lvVars
        /\ part' = part /\ (part # "placement" => UNCHANGED opVars)
  BY DEF Next, Only
<1>2. UNCHANGED vars =>
        UNCHANGED <<part, ddVars, opVars, voVars, dsVars, dvVars, akVars, rtVars, mkVars, scVars, slVars, lvVars>>
  BY DEF vars
<1> QED  BY <1>1, <1>2

(* The invariants of the parts hold together.                               *)
LEMMA PartsNext == PartsInv /\ [Next]_vars => PartsInv'
<1> SUFFICES ASSUME PartsInv, [Next]_vars PROVE PartsInv'
  OBVIOUS
<1>1. /\ [DdNext]_ddVars /\ [OpNext]_opVars /\ [VoNext]_voVars /\ [DsNext]_dsVars /\ [DvNext]_dvVars
      /\ [AkNext]_akVars /\ [RtNext]_rtVars /\ [MkNext]_mkVars /\ [ScNext]_scVars /\ [SlNext]_slVars
      /\ [LvNext]_lvVars
  BY PartsMove
<1>2. part' = part /\ (part # "placement" => UNCHANGED opVars)
  BY PartsMove
<1>3. DdInv'  BY <1>1, InductiveStep DEF PartsInv
<1>4. OpTypeOK' /\ (part' = "placement" => IInv')
  <2>1. CASE part = "placement"
    <3>1. IInv  BY <2>1 DEF PartsInv
    <3>2. IInv'  BY <1>1, <3>1, NextIInv
    <3>3. OpTypeOK'  BY <3>2 DEF IInv
    <3> QED  BY <3>2, <3>3
  <2>2. CASE part # "placement"
    <3>1. OpTypeOK  BY DEF PartsInv
    <3>2. UNCHANGED opVars  BY <1>2, <2>2
    <3>3. UNCHANGED <<kind, pc, attempt, at, tries, sent, mine, want, resting, filled, told, clean>>
      BY <3>2 DEF opVars, callVars
    <3>4. OpTypeOK'  BY <3>1, <3>3, Zenon DEF OpTypeOK, Running
    <3> QED  BY <1>2, <2>2, <3>4
  <2> QED  BY <2>1, <2>2
<1>5. BookInv'  BY <1>1, BookStep DEF PartsInv
<1>6. JobsInv' /\ BroadcastInv'  BY <1>1, JobsStep, BroadcastStep DEF PartsInv
<1>7. AkInv' /\ AkBounds'  BY <1>1, AkStepInv, KeyBoundsStep DEF PartsInv
<1>8. RtInv' /\ RtBounds'  BY <1>1, RtStepInv, RateBoundsStep DEF PartsInv
<1>9. MarketInv' /\ ScanInv'  BY <1>1, MarketStep, ScanStep DEF PartsInv
<1>10. SleeveInv' /\ LiveInv'  BY <1>1, SleeveStep, LiveStep DEF PartsInv
<1> QED  BY <1>3, <1>4, <1>5, <1>6, <1>7, <1>8, <1>9, <1>10 DEF PartsInv

(* The parts side by side keep their types, for any constants that their     *)
(* assumptions allow.                                                        *)
THEOREM TradingIsTyped == Spec => []TypesOK
<1>1. Init => PartsInv  BY PartsInit
<1>2. PartsInv /\ [Next]_vars => PartsInv'  BY PartsNext
<1>3. PartsInv => TypesOK
  BY JobsTyped, BroadcastTyped, KeysTyped, RatesTyped, MarketTyped, ScanTyped, SleeveTyped, LiveTyped
     DEF PartsInv, TypesOK, DdInv, BookInv
<1> QED  BY <1>1, <1>2, <1>3, PTL DEF Spec
=============================================================================
