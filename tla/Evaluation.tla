------------------------------ MODULE Evaluation ------------------------------
(***************************************************************************)
(* How a market reading becomes a signal, and how the outcomes of trades    *)
(* come back to judge the next one: TradingOrchestrator.evaluate_symbol     *)
(* with its AI fallback and its gates (services/trading_orchestrator.py),   *)
(* AdaptiveLearningService (services/adaptive_learning.py) and the profile   *)
(* of SelfHealingPPOService (services/self_healing_ppo.py).                  *)
(*                                                                         *)
(* The memory of outcomes lives in one cache key and in a file under the    *)
(* model directory of each process.  A close loads it whole, counts, and writes   *)
(* it back whole: cache first, file second, each in a step of its own.      *)
(* Confidences, scores and shares are in percent, returns in basis points;   *)
(* a trade wins or loses one unit.                                          *)
(***************************************************************************)
EXTENDS Integers, FiniteSets

CONSTANTS
    Buckets,       \* classes of regime, volatility, RSI and trend: a pattern, with a side
    Regime,      \* the regime of a bucket
    Readings,      \* what the market and the models may say of a symbol
    Recorders,     \* the processes that close trades
    Reader,        \* the one of them that evaluates signals
    DirOf,         \* the settings.model_dir of a process
    Past,          \* wins and losses remembered from before, by entry
    MaxDeals,      \* bound: trades
    MinSamples,    \* settings.learning_min_pattern_samples
    ForceEnabled,  \* settings.force_execution_override_enabled
    MaxMishaps     \* bound: deaths of a process and losses of the cached memory

Sides == {"BUY", "SELL"}
Patterns == Sides \X Buckets

(* The entries of the memory: wins and losses of each pattern, and of each   *)
(* side that was executed in a regime.                                       *)
OfSide(side, bucket) == <<"side", side, Regime[bucket]>>
Entries == Patterns \cup {OfSide(side, bucket) : side \in Sides, bucket \in Buckets}

ASSUME EvaluationAssumption ==
    /\ Reader \in Recorders /\ MinSamples \in Nat \ {0} /\ MaxDeals \in Nat
    /\ ForceEnabled \in BOOLEAN /\ MaxMishaps \in Nat
    /\ Buckets # {} /\ \A r \in Readings : r.bucket \in Buckets /\ r.imbalance \in Sides
    /\ Past \in [Entries -> [wins : Nat, losses : Nat]]

VARIABLES
    evMode,      \* settings.trading_mode
    evAi,        \* no ai:layer_disabled key
    evCache,     \* learning:adaptive_memory, or Lost
    evFile,      \* adaptive_learning_state.json in each directory
    evTorn,      \* directories whose self_healing_reward_profile.json is cut short
    evSignal,    \* the signal last published, until it is executed
    evDeal,      \* the trades: unopened, closed, or open with their pattern and executed side
    evWork,      \* the outcome each process is recording
    evTold,      \* history: the outcomes handed to the memory, by entry
    evClean,     \* history: no outcome was lost yet
    evMishaps    \* deaths and losses so far

evVars == <<evMode, evAi, evCache, evFile, evTorn, evSignal, evDeal, evWork, evTold, evClean, evMishaps>>

Dirs == {DirOf[p] : p \in Recorders}
Deals == 1..MaxDeals
Lost == << >>
NoPattern == << >>
NoOutcomes == [k \in Entries |-> [wins |-> 0, losses |-> 0]]
NoDeal == [state |-> "unopened", pattern |-> NoPattern, side |-> "HOLD"]
NoSignalYet == [action |-> "HOLD", pattern |-> NoPattern]
AtRest == [at |-> "rest", deal |-> NoDeal, won |-> FALSE, memory |-> NoOutcomes]

EvInit ==
    /\ evMode \in {"paper", "live"}
    /\ evAi = TRUE /\ evCache = Past
    /\ evFile = [dir \in Dirs |-> Past] /\ evTorn = {}
    /\ evSignal = NoSignalYet
    /\ evDeal = [d \in Deals |-> NoDeal]
    /\ evWork = [p \in Recorders |-> AtRest]
    /\ evTold = Past /\ evClean = TRUE /\ evMishaps = 0

-----------------------------------------------------------------------------
(* The memory. *)

Taken(stats) == stats.wins + stats.losses

Blacklisted(stats) == /\ Taken(stats) >= MinSamples
                      /\ 100 * stats.wins <= 35 * Taken(stats)
                      /\ stats.wins < stats.losses
Whitelisted(stats) == /\ Taken(stats) >= MinSamples
                      /\ 100 * stats.wins >= 65 * Taken(stats)
                      /\ stats.wins > stats.losses

(* What a process reads: the cache, else its own file. *)
MemoryOf(p) == IF evCache = Lost THEN evFile[DirOf[p]] ELSE evCache

Within(low, x, high) == IF x < low THEN low ELSE IF x > high THEN high ELSE x

(* The feedback on a pattern: its list, its win rate and expectancy, and the *)
(* win rate of the trades executed on its side in its regime.                *)
Feedback(memory, k) ==
    LET stats == memory[k]
        side  == memory[OfSide(k[1], k[2])]
        list(black, white) == IF Blacklisted(stats) THEN black ELSE IF Whitelisted(stats) THEN white ELSE 0
        edge(s, weight) == IF Taken(s) >= MinSamples THEN (weight * (s.wins - s.losses)) \div Taken(s) ELSE 0
    IN [factor |-> Within(55, 100 + list(-18, 10) + edge(stats, 11) + edge(side, 3), 120),
        delta  |-> Within(-25, list(-18, 8) + edge(stats, 14) + edge(side, 3), 15),
        block  |-> Blacklisted(stats)]

-----------------------------------------------------------------------------
(* A reading becomes an inference. *)

Relaxed == evMode = "paper"

(* The strategy's word, when the AI is off, fails or is not sure. *)
RuleBased(r) == [dir |-> r.strat, conf |-> r.stratConf, prob |-> r.stratConf]

ConfidenceFloor(current) == IF Relaxed THEN Within(0, current, 55) ELSE current
ProbabilityFloor == IF Relaxed THEN 45 ELSE 55

AiFails(r) == evAi /\ r.ai = "fails"

(* A strategy that is sure enough speaks for an AI that holds. *)
Merged(r) ==
    IF r.ai = "HOLD" /\ r.strat \in Sides /\ r.stratProb >= ProbabilityFloor
       /\ r.stratConf >= ConfidenceFloor(Within(55, r.aiConf, 100))
    THEN [dir |-> r.strat, conf |-> r.stratConf, prob |-> r.stratProb]
    ELSE [dir |-> r.ai, conf |-> r.aiConf, prob |-> r.aiConf]

Inference(r) == IF ~evAi \/ AiFails(r) \/ r.aiConf < 60 THEN RuleBased(r) ELSE Merged(r)

Scaled(x, factor) == Within(0, (x * factor) \div 100, 100)
Unjudged == [factor |-> 100, delta |-> 0, block |-> FALSE]

(* The direction that is traded: the strategy's before the opinion's. *)
Direction(r, o) == IF r.strat \in Sides THEN r.strat
                   ELSE IF o.dir \in Sides THEN o.dir ELSE r.imbalance

(* The opinion that the gates judge: an inference and the learning on it.   *)
(* The pattern is the one its outcome will be remembered under.              *)
Opinion(r) ==
    LET inf  == Inference(r)
        told == IF inf.dir \in Sides THEN Feedback(MemoryOf(Reader), <<inf.dir, r.bucket>>) ELSE Unjudged
        best == IF r.stratConf > inf.conf THEN r.stratConf ELSE inf.conf
    IN [dir |-> inf.dir, conf |-> Scaled(inf.conf, told.factor),
        final |-> IF inf.dir \in Sides THEN Scaled(best, told.factor) ELSE r.stratConf,
        prob |-> Scaled(r.stratProb, told.factor), delta |-> told.delta, block |-> told.block,
        pattern |-> <<IF inf.dir \in Sides THEN inf.dir ELSE Direction(r, inf), r.bucket>>]

-----------------------------------------------------------------------------
(* The gates. *)

Points(condition, n) == IF condition THEN n ELSE 0
SafeVolatility(r) == r.volatility > 0 /\ r.volatility <= 5

StrictScore(r, o) ==
    IF o.dir \notin Sides THEN 0
    ELSE Points(r.structure = o.dir, 28) + Points(r.volume, 21) + Points(r.momentum = o.dir, 21)
         + Points(r.trending, 20) + Points(SafeVolatility(r), 10)

StrictGate(r, o) == /\ o.dir \in Sides /\ o.conf >= 70
                    /\ StrictScore(r, o) >= 70 /\ StrictScore(r, o) + o.delta >= 70

AlphaScore(r, o) == (38 * o.conf) \div 100 + r.alpha
AlphaGate(r, o) == AlphaScore(r, o) > 60 /\ r.net > Within(10, r.risk, 100)

WhaleConflict(r, o) == {o.dir, r.whale} = Sides

(* Mutant: what the memory blocks is traded if its score is perfect. *)
GatesForgetful(r, o) ==
    /\ r.selected \/ r.strat \in Sides
    /\ StrictGate(r, o) /\ AlphaGate(r, o) /\ ~WhaleConflict(r, o)
    /\ ~r.degraded /\ r.meta /\ o.dir \in Sides

(* Every gate of a signal that no relaxation touches. *)
Gates(r, o) ==
    /\ r.selected \/ r.strat \in Sides
    /\ StrictGate(r, o) /\ AlphaGate(r, o) /\ ~WhaleConflict(r, o)
    /\ ~r.degraded /\ ~o.block /\ r.meta /\ o.dir \in Sides

(* In paper mode lower floors, and no look at the memory's block. *)
PaperGate(r, o) ==
    /\ Relaxed
    /\ ~r.degraded /\ r.tradable /\ ~WhaleConflict(r, o) /\ SafeVolatility(r) /\ r.risk <= 80 /\ r.net > 0
    /\ o.final >= ConfidenceFloor(70) /\ o.prob >= ProbabilityFloor
    /\ StrictScore(r, o) + o.delta >= 45 /\ AlphaScore(r, o) >= 30 /\ r.meta

Forced(o) == ForceEnabled /\ Relaxed /\ o.final >= 35

Strategy(r, o) == IF Gates(r, o) THEN "SELECTED"
                  ELSE IF Forced(o) THEN "FORCED_PAPER_TRADE"
                  ELSE IF PaperGate(r, o) THEN "PAPER_RELAXED_TRADE"
                  ELSE "LOW_CONFIDENCE_WATCHLIST"

EvaluateSymbol(r) ==
    LET o == Opinion(r)
    IN /\ evAi' = (evAi /\ ~AiFails(r))
       /\ evSignal' = IF Strategy(r, o) = "LOW_CONFIDENCE_WATCHLIST" THEN NoSignalYet
                      ELSE [action |-> Direction(r, o), pattern |-> o.pattern]
       /\ UNCHANGED <<evMode, evCache, evFile, evTorn, evDeal, evWork, evTold, evClean, evMishaps>>

AiRetried == /\ ~evAi /\ evAi' = TRUE
             /\ UNCHANGED <<evMode, evCache, evFile, evTorn, evSignal, evDeal, evWork, evTold, evClean, evMishaps>>

Opened == {d \in Deals : evDeal[d].state # "unopened"}

(* The accepted signal is executed (SignalExecution), or turned down there. *)
ExecuteSignal ==
    /\ evSignal.action # "HOLD" /\ evSignal' = NoSignalYet
    /\ evDeal' \in {evDeal} \cup {[evDeal EXCEPT ![Cardinality(Opened) + 1] =
                                      [state |-> "open", pattern |-> evSignal.pattern, side |-> evSignal.action]] :
                                  d \in Deals \ Opened}
    /\ UNCHANGED <<evMode, evAi, evCache, evFile, evTorn, evWork, evTold, evClean, evMishaps>>

-----------------------------------------------------------------------------
(* A close in process p, after the ledger took it. *)

(* A loss first rewrites the reward profile in place.  If that cannot be     *)
(* read, or any write on the way to the learning fails, the close ends in an *)
(* exception and the outcome is not learnt.                                  *)
CloseDeal(p, d, won) ==
    /\ evWork[p].at = "rest" /\ evDeal[d].state = "open"
    /\ evDeal' = [evDeal EXCEPT ![d] = [NoDeal EXCEPT !.state = "closed"]]
    /\ \/ UNCHANGED <<evWork, evTorn>>
       \/ /\ won \/ DirOf[p] \notin evTorn
          /\ evWork' = [evWork EXCEPT ![p] = [AtRest EXCEPT !.at = IF won THEN "learn" ELSE "heal", !.deal = evDeal[d], !.won = won]]
          /\ evTorn' = IF won THEN evTorn ELSE evTorn \cup {DirOf[p]}
    /\ UNCHANGED <<evMode, evAi, evCache, evFile, evSignal, evTold, evClean, evMishaps>>

SaveProfile(p) ==
    /\ evWork[p].at = "heal"
    /\ evTorn' = evTorn \ {DirOf[p]}
    /\ evWork' = [evWork EXCEPT ![p].at = "learn"]
    /\ UNCHANGED <<evMode, evAi, evCache, evFile, evSignal, evDeal, evTold, evClean, evMishaps>>

Counted(outcomes, ks, won) ==
    [k \in Entries |-> CASE k \notin ks -> outcomes[k]
                         [] k \in ks /\ won  -> [outcomes[k] EXCEPT !.wins = @ + 1]
                         [] k \in ks /\ ~won -> [outcomes[k] EXCEPT !.losses = @ + 1]]

(* What an outcome counts for: the pattern that was judged, and the side     *)
(* that was executed.                                                        *)
EntriesOf(deal) == {deal.pattern, OfSide(deal.side, deal.pattern[2])}

Recording == {p \in Recorders : evWork[p].at \in {"cache", "file"}}

(* Mutant: the outcome is counted in the cached memory and once more in the *)
(* memory that is written.                                                  *)
LearnTwice(p) ==
    LET ks  == EntriesOf(evWork[p].deal)
        won == evWork[p].won
    IN /\ evWork[p].at = "learn"
       /\ evWork' = [evWork EXCEPT ![p].at = "cache",
                                   ![p].memory = Counted(Counted(MemoryOf(p), ks, won), ks, won)]
       /\ evTold' = Counted(evTold, ks, won)
       /\ evClean' = (evClean /\ Recording = {})
       /\ UNCHANGED <<evMode, evAi, evCache, evFile, evTorn, evSignal, evDeal, evMishaps>>

(* record_trade_outcome: load, count.  Another process that has loaded and   *)
(* not yet written will overwrite this outcome, or this one its own.         *)
Learn(p) ==
    LET ks  == EntriesOf(evWork[p].deal)
        won == evWork[p].won
    IN /\ evWork[p].at = "learn"
       /\ evWork' = [evWork EXCEPT ![p].at = "cache", ![p].memory = Counted(MemoryOf(p), ks, won)]
       /\ evTold' = Counted(evTold, ks, won)
       /\ evClean' = (evClean /\ Recording = {})
       /\ UNCHANGED <<evMode, evAi, evCache, evFile, evTorn, evSignal, evDeal, evMishaps>>

Mishap == evMishaps < MaxMishaps /\ evMishaps' = evMishaps + 1 /\ evClean' = FALSE

(* The cache may refuse, which is logged. *)
SaveToCache(p) ==
    /\ evWork[p].at = "cache"
    /\ \/ evCache' = evWork[p].memory /\ UNCHANGED <<evClean, evMishaps>>
       \/ Mishap /\ UNCHANGED evCache
    /\ evWork' = [evWork EXCEPT ![p].at = "file"]
    /\ UNCHANGED <<evMode, evAi, evFile, evTorn, evSignal, evDeal, evTold>>

SaveToFile(p) ==
    /\ evWork[p].at = "file"
    /\ evFile' = [evFile EXCEPT ![DirOf[p]] = evWork[p].memory]
    /\ evWork' = [evWork EXCEPT ![p] = AtRest]
    /\ UNCHANGED <<evMode, evAi, evCache, evTorn, evSignal, evDeal, evTold, evClean, evMishaps>>

(* A process dies: what it was writing stays as far as it got, and a torn    *)
(* memory file reads as an empty memory.                                     *)
RecorderDies(p) ==
    /\ evWork[p].at # "rest" /\ Mishap
    /\ evWork' = [evWork EXCEPT ![p] = AtRest]
    /\ IF evWork[p].at = "file" THEN evFile' \in {evFile, [evFile EXCEPT ![DirOf[p]] = NoOutcomes]} ELSE UNCHANGED evFile
    /\ UNCHANGED <<evMode, evAi, evCache, evTorn, evSignal, evDeal, evTold>>

(* The cached memory expires, or the cache is emptied. *)
MemoryExpires ==
    /\ evCache # Lost /\ evCache' = Lost /\ Mishap
    /\ UNCHANGED <<evMode, evAi, evFile, evTorn, evSignal, evDeal, evWork, evTold>>

EvNext ==
    \/ \E r \in Readings : EvaluateSymbol(r)
    \/ AiRetried \/ ExecuteSignal \/ MemoryExpires
    \/ \E p \in Recorders, d \in Deals, won \in BOOLEAN : CloseDeal(p, d, won)
    \/ \E p \in Recorders : SaveProfile(p) \/ Learn(p) \/ SaveToCache(p) \/ SaveToFile(p) \/ RecorderDies(p)

EvSpec == EvInit /\ [][EvNext]_evVars

-----------------------------------------------------------------------------
EvTypeOK ==
    LET memories == [Entries -> [wins : Nat, losses : Nat]]
    IN /\ evMode \in {"paper", "live"} /\ evAi \in BOOLEAN /\ evClean \in BOOLEAN
       /\ evCache \in memories \cup {Lost}
       /\ evFile \in [Dirs -> memories] /\ evTorn \subseteq Dirs
       /\ evSignal.pattern \in Patterns \cup {NoPattern} /\ evSignal.action \in Sides \cup {"HOLD"}
       /\ \A d \in Deals : evDeal[d].state \in {"unopened", "open", "closed"}
       /\ \A p \in Recorders : evWork[p].at \in {"rest", "heal", "learn", "cache", "file"}

(* No copy of the memory holds an outcome that did not happen. *)
NothingInvented ==
    \A m \in {evWork[p].memory : p \in Recorders} \cup {evFile[dir] : dir \in Dirs} \cup ({evCache} \ {Lost}) :
        \A k \in Entries : m[k].wins <= evTold[k].wins /\ m[k].losses <= evTold[k].losses

(* As long as no process died, no write to the cache failed and no two       *)
(* closes overlapped, the memory holds every outcome that was handed to it.  *)
NothingForgotten == evClean /\ Recording = {} /\ evCache # Lost => evCache = evTold

(* In live mode a pattern that is blocked, with no trade on its way to the   *)
(* memory, stays so: whatever other patterns do, only the loss of the memory *)
(* lets a signal of it through.                                              *)
Trapped(k) ==
    /\ evMode = "live" /\ evCache # Lost /\ Blacklisted(evCache[k])
    /\ evSignal.pattern # k
    /\ \A d \in Deals : evDeal[d].pattern # k
    /\ \A p \in Recorders : evWork[p].at # "rest" =>
          /\ evWork[p].deal.pattern # k
          /\ evWork[p].at = "cache" => evWork[p].memory[k] = evCache[k]

BlockedStayBlocked == [][\A k \in Patterns : Trapped(k) => Trapped(k)' \/ evCache' = Lost]_evVars

(* The outcomes are remembered as they were, and a blocked pattern is not    *)
(* traded on again in live mode.                                             *)
OutcomesAreLearnt == [](NothingInvented /\ NothingForgotten) /\ BlockedStayBlocked
=============================================================================
