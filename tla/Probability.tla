----------------------------- MODULE Probability -----------------------------
(***************************************************************************)
(* How the trade probability engine learns and what it lets through: closed  *)
(* trades become samples, a batch of them or a bad run starts a training, a  *)
(* candidate is judged on the newest samples and against the model in use,   *)
(* and the record of the samples that the promoted model was trained on      *)
(* decides, by the regime, which decisions of the strategies may trade.     *)
(* The files of the models, their rollback and their readers are in Models.  *)
(*                                                                         *)
(* A bundle of classifiers is what it answers to each shape of the features *)
(* that are kept, in percent: for all regimes, and of its own for some.     *)
(* Fitting is the library's and gives any answer.                            *)
(***************************************************************************)
EXTENDS Integers, FiniteSets, SequencesExt

Ranging == "RANGING"

CONSTANTS
    Regimes,         \* REGIME_ORDER
    Shapes,          \* of the features of a trade, its regime apart
    Shares,          \* what a classifier may answer, in percent
    Closings,        \* the closed trades that become samples
    Proposals,       \* the decisions of the strategies that are enriched
    MinTraining,      \* probability_min_training_samples
    MinValidation,   \* probability_min_validation_samples
    MaxCalibration,  \* probability_max_calibration_error, in percent
    RecentRows,      \* retrain_recent_validation_trades
    BatchSize,       \* retrain_batch_size
    MaxClosings      \* bound: trades that close

ASSUME ProbabilityAssumption ==
    /\ {MinTraining, MinValidation, MaxCalibration, RecentRows, BatchSize, MaxClosings} \subseteq Nat \ {0}
    /\ MinTraining >= RecentRows /\ RecentRows >= 2
    /\ Shares \subseteq 0..100
    /\ Ranging \in Regimes /\ \A c \in Closings : c.shape \in Shapes
    /\ \A d \in Proposals : d.shape \in Shapes /\ d.guess \in 0..100 /\ d.sleeve.delta \in Int

VARIABLES
    pbSamples,    \* the samples of the training window, the oldest first
    pbProcessed,  \* how many of them the last promotion had seen
    pbActive,     \* the model in use and its metadata
    pbClosed,     \* history: trades that closed
    pbWon,        \* history: the regimes in which a trade that won was counted
    pbWorn        \* history: what the models replaced since the samples last changed answer

pbVars == <<pbSamples, pbProcessed, pbActive, pbClosed, pbWon, pbWorn>>

Threshold == 55  \* trade_probability_threshold
Boost == 106     \* probability_factor_sleeve_priority_boost
NoModel == [common |-> <<>>]
Answers == [Shapes -> Shares]

PbTypeOK ==
    /\ pbSamples \in Seq(Closings) /\ Len(pbSamples) <= pbClosed /\ pbClosed \in 0..MaxClosings
    /\ pbProcessed \in 0..Len(pbSamples)
    /\ pbActive # NoModel => {pbActive.common, pbActive.own} \subseteq Answers
    /\ pbWon \subseteq Regimes /\ pbWorn \subseteq Answers

PbInit ==
    /\ pbSamples = <<>> /\ pbProcessed = 0 /\ pbActive = NoModel
    /\ pbClosed = 0 /\ pbWon = {} /\ pbWorn = {}

-----------------------------------------------------------------------------
(* The samples                                                              *)

(* The features kept with a sample hold no regime, no trend and no range,   *)
(* whatever the market was like, so that every row is one of a ranging one.  *)
RegimeOf(c) == Ranging

CloseTrade(c) ==
    /\ pbClosed < MaxClosings
    /\ pbSamples' = Append(pbSamples, c)
    /\ pbClosed' = pbClosed + 1
    /\ pbWon' = IF c.r > 0 THEN pbWon \cup {RegimeOf(c)} ELSE pbWon
    /\ pbWorn' = {}
    /\ UNCHANGED <<pbProcessed, pbActive>>

(* The oldest sample leaves the window of days. *)
LeaveWindow ==
    /\ pbSamples # <<>>
    /\ pbSamples' = Tail(pbSamples)
    /\ pbProcessed' = IF pbProcessed = 0 THEN 0 ELSE pbProcessed - 1
    /\ pbWorn' = {}
    /\ UNCHANGED <<pbActive, pbClosed, pbWon>>

(* The mark of the last promotion expires in the cache. *)
MarkExpires ==
    /\ pbProcessed # 0 /\ pbProcessed' = 0
    /\ UNCHANGED <<pbSamples, pbActive, pbClosed, pbWon, pbWorn>>

Percent(part, whole) == IF whole = 0 THEN 0 ELSE (100 * part) \div whole
Where(rows, P(_)) == Cardinality({i \in DOMAIN rows : P(rows[i])})
Summed(rows, f(_)) == FoldSeq(LAMBDA c, sum : f(c) + sum, 0, rows)
Latest(n) == SubSeq(pbSamples, Len(pbSamples) - n + 1, Len(pbSamples))
Won(c) == c.r > 0

(* evaluate: enough new samples, or too few wins among the newest. *)
TrainingIsDue ==
    \/ Len(pbSamples) - pbProcessed >= BatchSize
    \/ Len(pbSamples) >= RecentRows /\ Percent(Where(Latest(RecentRows), Won), RecentRows) < 40

-----------------------------------------------------------------------------
(* A candidate                                                              *)

ValidationSize ==
    LET n       == Len(pbSamples)
        quarter == n \div 4 + (IF n % 4 = 3 THEN 1 ELSE IF n % 4 = 2 THEN (n \div 4) % 2 ELSE 0)
    IN  IF quarter < MinValidation THEN MinValidation ELSE quarter
TrainRows == SubSeq(pbSamples, 1, Len(pbSamples) - ValidationSize)
ValRows   == Latest(ValidationSize)
BothLabels(rows) == \E c, d \in Range(rows) : Won(c) /\ ~Won(d)

(* Fitting raises, and ends the run, when the rows to train on are all won  *)
(* or all lost; only the samples as a whole are looked at before.            *)
Trainable ==
    /\ Len(pbSamples) >= MinTraining
    /\ BothLabels(pbSamples)
    /\ Len(pbSamples) > ValidationSize
    /\ BothLabels(TrainRows)

(* _train_model_bundle: the regimes that get classifiers of their own, which *)
(* nobody judges; the rest is answered by the ones for all.                  *)
HasOwn(g) ==
    LET In(rows) == SelectSeq(rows, LAMBDA c : RegimeOf(c) = g)
    IN  /\ Len(In(TrainRows)) >= MinTraining /\ Len(In(ValRows)) >= 2
        /\ BothLabels(In(TrainRows)) /\ BothLabels(In(ValRows))

Likely(answers, c) == answers[c.shape] >= Threshold
Accuracy(answers, rows) == Percent(Where(rows, LAMBDA c : Likely(answers, c) = Won(c)), Len(rows))
Precision(answers, rows) ==
    Percent(Where(rows, LAMBDA c : Likely(answers, c) /\ Won(c)), Where(rows, LAMBDA c : Likely(answers, c)))

(* Five buckets of answers; the shares are such that a bucket holds one. *)
CalibrationError(answers, rows) ==
    LET Off(share) ==
            LET Here(c) == answers[c.shape] = share
                gap == 100 * Where(rows, LAMBDA c : Here(c) /\ Won(c)) - share * Where(rows, Here)
            IN  IF gap < 0 THEN -gap ELSE gap
    IN  FoldSet(LAMBDA share, sum : Off(share) + sum, 0, Shares) \div Len(rows)

Metrics(answers) ==
    [precision |-> Precision(answers, ValRows), calibration |-> CalibrationError(answers, ValRows),
     accuracy |-> Accuracy(answers, ValRows)]

Valid(m) == m.precision >= 50 /\ m.calibration <= MaxCalibration

(* Mutant: as good is good enough. *)
RecentGateTies(answers) ==
    Len(pbSamples) >= RecentRows /\ pbActive # NoModel =>
        Accuracy(answers, Latest(RecentRows)) >= Accuracy(pbActive.own, Latest(RecentRows))

(* _recent_window_gate: more accurate than the model in use, by five in a   *)
(* hundred, on the newest samples; they may be among those it was trained on. *)
RecentGate(answers) ==
    Len(pbSamples) >= RecentRows /\ pbActive # NoModel =>
        Accuracy(answers, Latest(RecentRows)) >= Accuracy(pbActive.own, Latest(RecentRows)) + 5

Outperforms(new, old) ==
    \/ new.precision > old.precision + 1
    \/ /\ new.precision + 1 >= old.precision
       /\ \/ new.calibration + 1 < old.calibration
          \/ new.calibration <= old.calibration + 1 /\ new.accuracy >= old.accuracy

(* _trade_intelligence: what the samples of each regime came to; none holds *)
(* a drawdown, so that the limit on it never bites.                          *)
Record ==
    [g \in {RegimeOf(c) : c \in Range(pbSamples)} |->
        LET Here(c) == RegimeOf(c) = g
        IN  [wins |-> Percent(Where(pbSamples, LAMBDA c : Here(c) /\ Won(c)), Where(pbSamples, Here)),
             r |-> Summed(pbSamples, LAMBDA c : IF Here(c) THEN c.r ELSE 0)]]

(* run_if_needed and train; a candidate that is turned down leaves nothing  *)
(* behind, not even the mark, so that the next run tries again.              *)
Train(common) ==
    LET m == Metrics(common)
    IN  /\ TrainingIsDue /\ Trainable /\ Valid(m)
        /\ pbActive # NoModel => Outperforms(m, pbActive.metrics)
        /\ \E own \in IF HasOwn(Ranging) THEN Answers ELSE {common} :
             /\ RecentGate(own)
             /\ pbActive' = [common |-> common, own |-> own, metrics |-> m, record |-> Record,
                             rate |-> Percent(Where(ValRows, Won), Len(ValRows))]
        /\ pbProcessed' = Len(pbSamples)
        /\ pbWorn' = IF pbActive = NoModel THEN pbWorn ELSE pbWorn \cup {pbActive.own}
        /\ UNCHANGED <<pbSamples, pbClosed, pbWon>>

PbNext ==
    \/ \E c \in Closings : CloseTrade(c)
    \/ LeaveWindow \/ MarkExpires
    \/ \E common \in Answers : Train(common)

PbSpec == PbInit /\ [][PbNext]_pbVars

-----------------------------------------------------------------------------
(* Decisions                                                                *)

(* _sleeve_budget_overlay: what the budget of the sleeve makes of it. *)
Overlay(s) ==
    LET steady == s.target > 0 /\ s.trades >= 3 /\ s.turnover < 20 /\ s.gap < 4
        up     == 100 + (2 * s.delta) \div 5
        down   == 100 + s.delta \div 2
    IN  CASE steady /\ s.delta > 5 /\ s.win >= 55 /\ s.pnl > 0                -> IF up > Boost THEN Boost ELSE up
          [] steady /\ s.delta < -5 /\ (s.win < 45 \/ s.pnl < 0)             -> IF down < 92 THEN 92 ELSE down
          [] OTHER                                                          -> 100

(* Without a model the probability is a heuristic. *)
Probability(d) ==
    IF pbActive = NoModel THEN d.guess
    ELSE IF d.regime = Ranging THEN pbActive.own[d.shape] ELSE pbActive.common[d.shape]
Adjusted(d) == LET p == Probability(d) * Overlay(d.sleeve) IN (IF p > 10000 THEN 10000 ELSE p) \div 100

(* Mutant: a regime without a record is given the benefit of the doubt. *)
MetaFilterTrusting(d) ==
    LET known == pbActive # NoModel /\ d.regime \in DOMAIN pbActive.record
        stats == IF known THEN pbActive.record[d.regime] ELSE [wins |-> 50, r |-> 1]
    IN  stats.wins >= 48 /\ stats.r > 0 /\ d.confidence * Adjusted(d) >= 100 * Threshold

(* _meta_filter_decision: the record of the regime, and the final score.    *)
MetaFilter(d) ==
    LET known == pbActive # NoModel /\ d.regime \in DOMAIN pbActive.record
        rate  == IF pbActive = NoModel THEN 50 ELSE pbActive.rate
        stats == IF known THEN pbActive.record[d.regime] ELSE [wins |-> rate, r |-> 0]
    IN  stats.wins >= 48 /\ stats.r > 0 /\ d.confidence * Adjusted(d) >= 100 * Threshold

Actionable(d) == d.signal # "HOLD" /\ Adjusted(d) >= Threshold /\ MetaFilter(d)

(* analyze of the strategies: the best of those that may trade, or else a   *)
(* candidate for the watch list, at a confidence of at most 45.              *)
WatchOnly == [signal |-> "BUY", confidence |-> 45, regime |-> "none", raw |-> 45]
Analyses(proposals) ==
    LET may  == {d \in proposals : Actionable(d)}
        best == {d \in may : \A e \in may : Adjusted(e) <= Adjusted(d)}
    IN  IF may = {} THEN {WatchOnly}
        ELSE {[signal |-> d.signal, confidence |-> Adjusted(d), regime |-> d.regime, raw |-> Probability(d)] : d \in best}

-----------------------------------------------------------------------------
(* What learning promises                                                   *)

(* A decision at or above the threshold is one in a regime in which a trade *)
(* that won was counted, and its own probability is short of the threshold   *)
(* by no more than a sleeve may add, whatever was recorded, trained and      *)
(* promoted.  As every trade is counted as one of a ranging market, whatever *)
(* it was, the other regimes reach no more than the watch list.              *)
EvidenceFirst ==
    \A d, e \in Proposals : \A a \in Analyses({d, e}) :
        a.confidence >= Threshold => a.regime \in pbWon /\ a.raw * Boost >= 100 * Threshold

(* As long as no trade closes and none leaves the window, no model comes    *)
(* back in place of the one that replaced it: trainings on the same samples, *)
(* which a bad run or a lost mark starts over and over, come to an end.      *)
NothingComesBack == pbActive # NoModel => pbActive.own \notin pbWorn
=============================================================================
