------------------------------ MODULE Governance ------------------------------
(***************************************************************************)
(* What holds back the trades of one user and one symbol: MetaController,    *)
(* MicroModeController, RolloutManager, RiskController.set_profile and the    *)
(* controls of RiskEngine.  Requests are gated one by one, but others are    *)
(* gated, booked and closed between the gate of a request and its booking,   *)
(* and two processes close trades.                                          *)
(*                                                                         *)
(* A trade asks for units of notional.  What its order executes is less when *)
(* it fills in part, and more when the price slips; it may be closed in      *)
(* parts.  A close wins or loses one unit of money.  Shares, scores and      *)
(* multipliers are in percent.                                               *)
(***************************************************************************)
EXTENDS Integers, FiniteSets, FiniteSetsExt

CONSTANTS
    Trades,                    \* the requests, in their order
    Slots,                     \* requests that are under way at the same time
    SizeOf,                    \* the units that a trade asks for
    Executions,                \* the units that its order may execute
    HourLimit, AssetLimit,     \* meta_max_trades_per_hour, max_coin_exposure_pct in units
    Micro,                     \* the account is below micro_max_capital_threshold
    DayTrades,                 \* micro_max_trades_*
    MinClosed, MinWinRate, MinProfitFactor,    \* rollout_*
    Reports,                   \* what market, models and portfolio may say of a request
    MaxEvents                  \* bound: expired keys, new hours and new profiles

ASSUME GovernanceAssumption ==
    /\ IsFiniteSet(Trades) /\ {Slots, HourLimit, AssetLimit, DayTrades, MinClosed} \subseteq Nat \ {0} /\ SizeOf \in [Trades -> Nat \ {0}] /\ Executions \in [Trades -> SUBSET Nat]
    /\ {MinWinRate, MinProfitFactor, MaxEvents} \subseteq Nat /\ Micro \in BOOLEAN

VARIABLES
    gvMode,      \* settings.trading_mode
    gvReport,    \* what market, models and portfolio say of the requests
    gvStage,     \* rollout:status, or Unset
    gvMetrics,   \* rollout:metrics
    gvHour,      \* meta:trades of this hour
    gvExposure,  \* meta:exposure of the symbol
    gvDay,       \* the micro counters: trades, losses in a row, cooldown
    gvDeep,      \* the account's drawdown is beyond pause_drawdown_limit
    gvTrade,     \* the trades: where they are, units left, and the metrics and the stage that a close has read
    gvLate,      \* history: requests gated before the hour was full, or the cooldown began, less those opened since
    gvParts,     \* history: units that were closed in parts before the last one
    gvSlip,      \* history: units by which orders and what was asked for differ
    gvBlurred,   \* history: the exposure expired, a close broke off, or two processes wrote it at once
    gvEvents     \* history

gvVars == <<gvMode, gvReport, gvStage, gvMetrics, gvHour, gvExposure, gvDay, gvDeep, gvTrade, gvLate, gvParts, gvSlip, gvBlurred, gvEvents>>
gvSetting == <<gvMode, gvReport>>
gvCounters == <<gvHour, gvExposure, gvDay>>
gvHistory == <<gvLate, gvParts, gvSlip, gvBlurred, gvEvents>>

Unset  == -1
Stages == 0..3
NoMetrics == [trades |-> 0, wins |-> 0]
Requested == [at |-> "new", left |-> 0, won |-> FALSE, deep |-> FALSE, read |-> NoMetrics, seen |-> 0]
NoDay == [trades |-> 0, losses |-> 0, cooling |-> FALSE]

GvInit ==
    /\ gvMode \in {"paper", "live"} /\ gvReport \in Reports /\ gvStage = Unset /\ gvMetrics = NoMetrics
    /\ gvHour = 0 /\ gvExposure = 0 /\ gvDay \in {NoDay, [NoDay EXCEPT !.losses = 1]} /\ gvDeep = FALSE
    /\ gvTrade = [d \in Trades |-> Requested]
    /\ gvLate = [hour |-> 0, cooling |-> 0] /\ gvParts = 0 /\ gvSlip = 0 /\ gvBlurred = FALSE /\ gvEvents = 0

Floor(x, low)  == IF x < low THEN low ELSE x
Cap(x, high)   == IF x > high THEN high ELSE x
(* x, less each of the named multipliers. *)
Of(multipliers, x) == FoldSet(LAMBDA m, y : (y * m[2]) \div 100, x, multipliers)
Score01(x)     == Floor(Cap(x, 100), 0)

-----------------------------------------------------------------------------
(* govern_signal: from a report r to a strategy, a confidence and a share of *)
(* the capital.                                                              *)

SelectStrategy(r) ==
    IF r.liquidity < 55 \/ (r.volatility >= 6 /\ r.macro = "BEARISH") THEN "NO_TRADE"
    ELSE IF r.volatility <= 2 /\ r.liquidity >= 75 /\ r.macro # "BEARISH" THEN "SNIPER"
    ELSE IF r.sniper /\ r.macro = "BEARISH" THEN "NO_TRADE" ELSE "AI"

Favours(macro, side) == <<macro, side>> \in {<<"BULLISH", "BUY">>, <<"BEARISH", "SELL">>}
Weighted(r) ==
    LET aligned == IF r.macro = "NEUTRAL" THEN 60 ELSE IF Favours(r.macro, r.side) THEN 90 ELSE 35
    IN  (35 * r.ai + 25 * r.aiConf + 20 * r.whale + 10 * Cap((2 * r.sentiment) \div 3, 100) + 10 * aligned) \div 100

Conflict(r) ==
    (IF r.macro = "BEARISH" /\ r.side = "BUY" THEN 25 ELSE 0) + (IF r.macro = "BULLISH" /\ r.side = "SELL" THEN 20 ELSE 0)
    + (IF (r.side = "BUY" /\ r.whale < 35) \/ (r.side = "SELL" /\ r.whale > 70) THEN 15 ELSE 0)
    + (IF r.ai >= 70 /\ Weighted(r) < 55 THEN 15 ELSE 0)

(* A sleeve that has earned, or lost, its budget. *)
Priority(r) ==
    IF r.target <= 0 \/ r.recentTrades < 3 \/ r.stress >= 100 THEN 100
    ELSE IF r.delta > 5 /\ r.recentWin >= 55 /\ r.recentPnl > 0 THEN Cap(100 + r.delta \div 2, 108)
    ELSE IF r.delta < -5 /\ (r.recentWin < 45 \/ r.recentPnl < 0) THEN Floor(100 + (6 * r.delta) \div 10, 90)
    ELSE 100

Confident(r) == Conflict(r) < 35 /\ Weighted(r) >= 55 /\ Weighted(r) * Priority(r) >= 5200

Skip         == [share |-> 0, action |-> "skip_trade"]
Reduce(x)    == [share |-> x, action |-> "reduce_size"]
Allocate(x)  == [share |-> x, action |-> "allocate_capital"]

(* The quality of the regime: win rate, return and drawdown against policy. *)
Quality(r) ==
    LET score == (45 * Score01((r.win - 48) * 10) + 35 * Score01((100 * r.multiple) \div 75)
                  + 20 * (100 - Score01(25 * r.drawdown))) \div 100
        share == ((5500 + 70 * score) * (IF r.drawdown >= 4 THEN 75 ELSE 100)) \div 10000
    IN  IF ~r.known THEN Reduce(85)
        ELSE IF r.win < 48 \/ r.multiple <= 0 \/ r.drawdown >= 6 THEN Skip
        ELSE IF score < 45 THEN Reduce(share) ELSE Allocate(share)

(* The concentration of the portfolio: the highest of its ratios to a limit, *)
(* its drift and its turnover.                                               *)
Concentration(r) ==
    LET pressure == Max({r.pressure, Score01(20 * r.drift), Score01((10 * r.turnover) \div 4)})
        soft     == 100 - (Score01(((pressure - 64) * 100) \div 34) * 30) \div 100
        crowded  == IF r.sleeve < 35 THEN soft
                    ELSE IF r.recentPnl < 0 \/ r.recentWin < 45 THEN (soft * 90 * 85) \div 10000
                    ELSE IF r.recentPnl > 0 /\ r.recentWin >= 55 THEN Cap((soft * 90 * 105) \div 10000, 99)
                    ELSE (soft * 90) \div 100
    IN  IF r.sleeve >= 55 \/ r.pressure >= 98 THEN Skip
        ELSE IF pressure >= 64 THEN Reduce(crowded) ELSE Allocate(100)

(* The symbol's sleeve: from 35 percent on it is crowded. *)
Rotation(r) ==
    LET score == (55 * Score01(r.recentWin) + 45 * Score01(((r.recentPnl + 2) * 100) \div 4)) \div 100
    IN  IF ~r.rated THEN Allocate(100)
        ELSE IF r.sleeve >= 35 /\ r.recentWin <= 35 /\ r.recentPnl <= -1 THEN Skip
        ELSE IF r.sleeve >= 35 /\ r.recentPnl > 0 /\ r.recentWin >= 55 THEN Allocate(Cap(92 + (16 * score) \div 100, 108))
        ELSE IF r.sleeve >= 35 THEN Reduce(Floor(90 - ((100 - score) * 35) \div 100, 65))
        ELSE IF r.recentPnl > 0 /\ r.recentWin >= 60 THEN Allocate(Cap(100 + (12 * (score - 50)) \div 100, 108))
        ELSE Allocate(100)

(* capital_allocation *)
Allocation(r) ==
    LET base     == Of({<<"strategy", IF SelectStrategy(r) = "SNIPER" THEN 90 ELSE 100>>,
                        <<"volatility", IF r.volatility >= 2 THEN 50 ELSE 100>>,
                        <<"macro", IF r.macro = "BEARISH" THEN 50 ELSE 100>>,
                        <<"risk", IF r.reduced THEN 50 ELSE 100>>, <<"frequency", r.frequency>>}, 100)
        parts    == {Quality(r), Concentration(r), Rotation(r)}
        product  == Of({<<"streak", Cap(100 + 5 * r.streak, 125)>>, <<"quality", Quality(r).share>>,
                        <<"concentration", Concentration(r).share>>, <<"rotation", Rotation(r).share>>}, base)
        reducing == \E p \in parts : p.action = "reduce_size"
    IN  IF Skip \in parts THEN Skip
        ELSE IF reducing THEN Reduce(Floor(Cap(product, 99), 25))
        ELSE Allocate(Floor(Cap(product, 125), 25))

(* enforce_user_controls and enforce_portfolio_controls on a wish of 100     *)
(* units: what is left under each limit, less for correlation, for the       *)
(* symbol held already and for sleeves in disorder; 0 is a rejection.        *)
Room(r) == {lim.limit - lim.used : lim \in r.limits}
Allowed(r) ==
    LET wish     == Cap(100, r.balance)
        fits     == Min({wish} \cup Room(r))
        alike    == IF r.correlation >= 60 THEN Floor(100 - ((r.correlation - 60) * 65) \div 40, 35) ELSE 100
        held     == IF r.held THEN 65 ELSE 100
        unsettled == IF r.stress >= 100 THEN Floor(100 - ((r.stress - 100) * 35) \div r.stress, 65) ELSE 100
        least    == Of({<<"alike", alike>>, <<"held", held>>, <<"unsettled", unsettled>>}, fits)
    IN  IF ~r.held /\ \A lim \in r.limits : lim.used = 0 THEN wish
        ELSE IF fits <= 0 \/ least < r.minimum THEN 0 ELSE least

Approves(r) == r.healthy /\ SelectStrategy(r) # "NO_TRADE" /\ Confident(r) /\ Allocation(r) # Skip /\ Allowed(r) > 0

-----------------------------------------------------------------------------
(* The gate of a request *)

(* RolloutManager.status *)
Stage == IF gvStage # Unset THEN gvStage ELSE IF gvMode = "paper" THEN 0 ELSE 3
Fraction(stage) == CASE stage = 0 -> 0 [] stage = 1 -> 1 [] stage = 2 -> 10 [] stage = 3 -> 25

InHand(d) == gvTrade[d].at \in {"gated", "bought"}
Gated == Cardinality({d \in Trades : gvTrade[d].at = "gated"})
Held == {d \in Trades : gvTrade[d].at = "open"}
Left(S) == MapThenSumSet(LAMBDA d : gvTrade[d].left, S)

(* _asset_exposure_pct: the active trades count when the record does not.  *)
Exposed == IF gvExposure > 0 THEN gvExposure ELSE Left(Held)
GlobalLimits == ~gvDeep /\ gvHour < HourLimit /\ Exposed < AssetLimit

(* The day's loss is one more reason to reject. *)
MicroLimits == Micro => gvDay.trades < DayTrades /\ ~gvDay.cooling

Take(d, at) == gvTrade' = [gvTrade EXCEPT ![d].at = at]

Gate(d) ==
    /\ gvTrade[d].at = "new" /\ \A e \in Trades : e < d => gvTrade[e].at # "new"
    /\ Cardinality({e \in Trades : InHand(e)}) < Slots
    /\ \/ /\ Approves(gvReport) /\ Fraction(Stage) > 0 /\ GlobalLimits /\ MicroLimits
          /\ Take(d, "gated")
       \/ Take(d, "rejected")
    /\ gvStage' = Stage
    /\ UNCHANGED <<gvSetting, gvMetrics, gvCounters, gvDeep, gvHistory>>

(* The order is placed, and the micro controller's count of the day raised. *)
PlaceOrderOf(d) ==
    /\ gvTrade[d].at = "gated"
    /\ \/ /\ Take(d, "bought")
          /\ gvDay' = [gvDay EXCEPT !.trades = @ + 1]
          /\ gvLate' = [hour    |-> IF gvHour >= HourLimit THEN gvLate.hour - 1 ELSE gvLate.hour,
                        cooling |-> IF gvDay.cooling THEN gvLate.cooling - 1 ELSE gvLate.cooling]
       \/ Take(d, "rejected") /\ UNCHANGED <<gvDay, gvLate>>
    /\ UNCHANGED <<gvSetting, gvStage, gvMetrics, gvHour, gvExposure, gvDeep, gvParts, gvSlip, gvBlurred, gvEvents>>

(* A process that has read a number before d was added to it writes it back. *)
Overwritten(d, writing) == (\E e \in Trades \ {d} : gvTrade[e].at \in writing) /\ gvBlurred' = TRUE

(* The trade is saved with what was executed, and recorded with what was     *)
(* asked for; or the document store fails, and the trade is in none of the   *)
(* meta controller's counters, and not watched.                              *)
BookTrade(d, units) ==
    /\ gvTrade[d].at = "bought"
    /\ \/ /\ gvTrade' = [gvTrade EXCEPT ![d] = [@ EXCEPT !.at = "open", !.left = units]]
          /\ gvHour' = gvHour + 1
          /\ gvLate' = [gvLate EXCEPT !.hour = IF gvHour + 1 = HourLimit THEN Gated ELSE @]
          /\ gvSlip' = gvSlip + Floor(SizeOf[d] - units, units - SizeOf[d])
          /\ \/ gvExposure' = gvExposure + SizeOf[d] /\ UNCHANGED gvBlurred
             \/ Overwritten(d, {"bought", "measured"}) /\ UNCHANGED gvExposure
       \/ Take(d, "stray") /\ UNCHANGED <<gvHour, gvExposure, gvLate, gvSlip, gvBlurred>>
    /\ UNCHANGED <<gvSetting, gvStage, gvMetrics, gvDay, gvDeep, gvParts, gvEvents>>

-----------------------------------------------------------------------------
(* A close, after the ledger took it *)

ClosePart(d, deep) ==
    /\ gvTrade[d].at = "open" /\ gvTrade[d].left > 1
    /\ gvTrade' = [gvTrade EXCEPT ![d].left = @ - 1]
    /\ gvParts' = gvParts + 1 /\ gvDeep' = deep
    /\ UNCHANGED <<gvSetting, gvStage, gvMetrics, gvCounters, gvLate, gvSlip, gvBlurred, gvEvents>>

(* The rest of the trade is closed; the drawdown is assessed, and the       *)
(* metrics of the rollout are read.                                          *)
CloseRest(d, deep) ==
    /\ gvTrade[d].at = "open"
    /\ gvTrade' = [gvTrade EXCEPT ![d] = [@ EXCEPT !.at = "closing", !.deep = deep, !.read = gvMetrics]]
    /\ gvDeep' = deep
    /\ UNCHANGED <<gvSetting, gvStage, gvMetrics, gvCounters, gvHistory>>

Eligible(m) == /\ m.trades >= MinClosed /\ 100 * m.wins >= MinWinRate * m.trades
               /\ 100 * m.wins >= MinProfitFactor * (m.trades - m.wins)

(* Mutant: the metrics of all closes so far are counted again. *)
MeasureTwice(d, won) ==
    LET m == [trades |-> gvMetrics.trades + gvTrade[d].read.trades + 1, wins |-> gvMetrics.wins + gvTrade[d].read.wins + (IF won THEN 1 ELSE 0)]
    IN  /\ gvTrade[d].at = "closing"
        /\ gvMetrics' = m /\ gvStage' = Stage
        /\ gvTrade' = [gvTrade EXCEPT ![d] = [@ EXCEPT !.at = "measuring", !.won = won, !.read = m, !.seen = Stage]]
        /\ UNCHANGED <<gvSetting, gvCounters, gvDeep, gvHistory>>

(* The metrics are written, and record_performance reads the stage. *)
Measure(d, won) ==
    LET m == [trades |-> gvTrade[d].read.trades + 1, wins |-> gvTrade[d].read.wins + (IF won THEN 1 ELSE 0)]
    IN  /\ gvTrade[d].at = "closing"
        /\ gvMetrics' = m /\ gvStage' = Stage
        /\ gvTrade' = [gvTrade EXCEPT ![d] = [@ EXCEPT !.at = "measuring", !.won = won, !.read = m, !.seen = Stage]]
        /\ UNCHANGED <<gvSetting, gvCounters, gvDeep, gvHistory>>


NextStage(stage, m, deep) ==
    LET lowered == IF deep /\ stage > 0 THEN stage - 1 ELSE stage
    IN  IF Eligible(m) /\ lowered < 3 THEN lowered + 1 ELSE lowered

(* It writes the stage that follows from what it read, over what other closes *)
(* and set_profile have written since.                                       *)
WriteStage(d) ==
    /\ gvTrade[d].at = "measuring"
    /\ gvStage' = NextStage(gvTrade[d].seen, gvTrade[d].read, gvTrade[d].deep)
    /\ gvTrade' = [gvTrade EXCEPT ![d] = [@ EXCEPT !.at = "measured", !.deep = FALSE, !.read = NoMetrics, !.seen = 0]]
    /\ UNCHANGED <<gvSetting, gvMetrics, gvCounters, gvDeep, gvHistory>>

(* record_trade_outcome of the meta and the micro controller.  Only what    *)
(* was left at the last close is taken off the exposure.                     *)
RecordOutcome(d) ==
    LET losses == IF gvTrade[d].won THEN 0 ELSE Cap(gvDay.losses + 1, 2)
        cools  == gvDay.cooling \/ losses >= 2
    IN  /\ gvTrade[d].at = "measured"
        /\ \/ gvExposure' = Floor(gvExposure - gvTrade[d].left, 0) /\ UNCHANGED gvBlurred
           \/ Overwritten(d, {"bought", "measured"}) /\ UNCHANGED gvExposure
        /\ gvDay' = [gvDay EXCEPT !.losses = losses, !.cooling = cools]
        /\ gvLate' = [gvLate EXCEPT !.cooling = IF cools /\ ~gvDay.cooling THEN Gated ELSE @]
        /\ gvTrade' = [gvTrade EXCEPT ![d] = [Requested EXCEPT !.at = "closed"]]
        /\ UNCHANGED <<gvSetting, gvStage, gvMetrics, gvHour, gvDeep, gvParts, gvSlip, gvEvents>>

(* The chain of a close breaks off, by a crash or an exception; the trade is *)
(* closed in the ledger all the same.                                        *)
OutcomeLost(d) ==
    /\ gvTrade[d].at \in {"closing", "measuring", "measured"}
    /\ gvTrade' = [gvTrade EXCEPT ![d] = [Requested EXCEPT !.at = "closed"]]
    /\ gvBlurred' = TRUE
    /\ UNCHANGED <<gvSetting, gvStage, gvMetrics, gvCounters, gvDeep, gvLate, gvParts, gvSlip, gvEvents>>

-----------------------------------------------------------------------------
(* Time and users *)

Event == gvEvents < MaxEvents /\ gvEvents' = gvEvents + 1

NextHour ==
    /\ Event /\ gvHour' = 0 /\ gvLate' = [gvLate EXCEPT !.hour = 0]
    /\ UNCHANGED <<gvSetting, gvStage, gvMetrics, gvExposure, gvDay, gvDeep, gvTrade, gvParts, gvSlip, gvBlurred>>

NextDay ==
    /\ Event /\ gvDay' = [gvDay EXCEPT !.trades = 0]
    /\ UNCHANGED <<gvSetting, gvStage, gvMetrics, gvHour, gvExposure, gvDeep, gvTrade, gvLate, gvParts, gvSlip, gvBlurred>>

(* A day after its last write. *)
StatusExpires ==
    /\ Event /\ gvStage # Unset /\ gvStage' = Unset
    /\ UNCHANGED <<gvSetting, gvMetrics, gvCounters, gvDeep, gvTrade, gvLate, gvParts, gvSlip, gvBlurred>>

ExposureExpires ==
    /\ Event /\ gvExposure > 0 /\ gvExposure' = 0 /\ gvBlurred' = TRUE
    /\ UNCHANGED <<gvSetting, gvStage, gvMetrics, gvHour, gvDay, gvDeep, gvTrade, gvLate, gvParts, gvSlip>>
CooldownPasses ==
    /\ Event /\ gvDay.cooling /\ gvDay' = [gvDay EXCEPT !.cooling = FALSE]
    /\ gvLate' = [gvLate EXCEPT !.cooling = 0]
    /\ UNCHANGED <<gvSetting, gvStage, gvMetrics, gvHour, gvExposure, gvDeep, gvTrade, gvParts, gvSlip, gvBlurred>>

(* set_profile in paper mode; DrawdownProtection has its other effects. *)
SetProfile ==
    /\ Event /\ gvMode = "paper" /\ gvStage' = 2
    /\ UNCHANGED <<gvSetting, gvMetrics, gvCounters, gvDeep, gvTrade, gvLate, gvParts, gvSlip, gvBlurred>>

GvNext ==
    \/ \E d \in Trades : \/ Gate(d) \/ PlaceOrderOf(d)
                         \/ \E units \in Executions[d] : BookTrade(d, units)
                         \/ \E deep \in BOOLEAN : ClosePart(d, deep) \/ CloseRest(d, deep)
                         \/ \E won \in BOOLEAN : Measure(d, won)
                         \/ WriteStage(d) \/ RecordOutcome(d) \/ OutcomeLost(d)
    \/ NextHour \/ NextDay \/ StatusExpires \/ ExposureExpires \/ CooldownPasses \/ SetProfile

GvSpec == GvInit /\ [][GvNext]_gvVars

-----------------------------------------------------------------------------
GvTypeOK ==
    /\ gvMode \in {"paper", "live"} /\ gvStage \in Stages \cup {Unset} /\ {gvDeep, gvBlurred} \subseteq BOOLEAN
    /\ {gvMetrics.trades, gvMetrics.wins, gvHour, gvExposure, gvDay.trades, gvDay.losses, gvParts, gvSlip} \subseteq Nat
    /\ gvEvents \in 0..MaxEvents
    /\ \A d \in Trades : gvTrade[d].left \in Nat

Bought == {d \in Trades : gvTrade[d].at \in {"open", "closing", "measuring", "measured"}}

(* "global risk limits": while the hour is full no trade is opened but those   *)
(* that were gated before.                                                   *)
HourKept == gvHour >= HourLimit => gvLate.hour >= 0

(* The recorded exposure of the symbol is what the trades hold, and what was *)
(* closed in parts, which is never taken off again: up to what the orders of *)
(* all trades so far got less, or more, than was asked for.                   *)
ExposureKept ==
    LET held == Left(Bought) + gvParts
    IN  ~gvBlurred => gvExposure <= held + gvSlip /\ held <= gvExposure + gvSlip

(* Closes that overlap may be missed in the metrics of the rollout, and none *)
(* is counted twice.                                                         *)
MeasuredOnce == gvMetrics.trades <= Cardinality({d \in Trades : gvTrade[d].at \in {"measuring", "measured", "closed"}})

(* A micro account that cools down opens no trade but those gated before.      *)
CoolingKept == Micro /\ gvDay.cooling => gvLate.cooling >= 0

(* The reports that differ from r in a higher pressure or drawdown. *)
Worse(r) == {[r EXCEPT !.pressure = @ + p, !.drawdown = @ + x] : p \in {0, 10, 30}, x \in {0, 2, 4}}

(* The multipliers of quality, concentration and rotation never add up to an *)
(* allocation out of bounds, nor one that should be reduced to a full one;   *)
(* more pressure never gives more capital, and limits are kept to.           *)
AllocationSound ==
    LET granted == Allocation(gvReport)
        allowed == Allowed(gvReport)
    IN  /\ granted # Skip => granted.share \in 25..125
        /\ granted.action = "reduce_size" => granted.share <= 99
        /\ \A r \in Worse(gvReport) : Allocation(r).share <= granted.share
        /\ allowed <= gvReport.balance
        /\ \A lim \in gvReport.limits : lim.used > 0 => allowed <= Floor(lim.limit - lim.used, 0)

FirstGate == /\ \A d \in Trades : gvTrade[d].at = "new"
             /\ \E d \in Trades : gvTrade'[d].at # "new"

(* A close in a deep drawdown raises the stage of the rollout from the lowest *)
(* only (a good record makes up for the step down at once), or when it writes *)
(* back, over a step down that others took meanwhile, a stage it read before. *)
StageKept ==
    [][\A d \in Trades : gvTrade[d].at = "measuring" /\ gvTrade'[d].at = "measured" /\ gvTrade[d].deep /\ Stage' > Stage
         => Stage = 0 \/ gvTrade[d].seen > Stage]_gvVars

=============================================================================
