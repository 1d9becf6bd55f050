-------------------------- MODULE DrawdownProtection --------------------------
(***************************************************************************)
(* DrawdownProtectionService: what stops a user's account from opening more *)
(* positions after losses (services/drawdown_protection.py), the gates in   *)
(* TradingOrchestrator.execute_signal that ask it, and the closes that      *)
(* report the ledger's equity to it.                                        *)
(*                                                                         *)
(* A request awaits market data between the first gate and its order, so    *)
(* that closes come in between.  The second gate, MetaController.govern_    *)
(* signal, comes after these awaits.  A live order follows it without an    *)
(* await; a paper order awaits a price, and paper trading may override the  *)
(* gate.                                                                   *)
(*                                                                         *)
(* One user.  Three cache keys with a ttl of a day (drawdown:<u>,           *)
(* drawdown:daily:<u>, drawdown:controls:<u>) are written one after the     *)
(* other by update(); an absent key is its default.  Equity is a number of  *)
(* currency units, limits are percentages.                                  *)
(***************************************************************************)
EXTENDS Naturals

CONSTANTS
    Equities,      \* values the ledger's realized equity may take
    StartEquity,   \* default_portfolio_balance
    RollingLimit, PauseLimit,     \* rolling_drawdown_limit, pause_drawdown_limit
    DailyLimits, DefaultLimit,    \* daily_loss_limit of the risk profiles, and of the settings
    MaxOpen,       \* bound: units held
    MaxEntering,   \* bound: requests between the first gate and their order
    UpdateMayDie   \* the process may die inside update()

ASSUME DrawdownAssumption ==
    /\ Equities \subseteq Nat \ {0} /\ StartEquity \in Equities
    /\ RollingLimit \in Nat /\ PauseLimit \in Nat \ {0}
    /\ DailyLimits \subseteq Nat /\ DefaultLimit \in DailyLimits
    /\ MaxOpen \in Nat /\ MaxEntering \in Nat
    /\ UpdateMayDie \in BOOLEAN

VARIABLES
    equity,    \* portfolio:summary, realized_equity
    ddMode,    \* trading_mode, "paper" or "live"
    open,      \* units held in open positions
    waiting,   \* requests that passed the first gate
    status,    \* drawdown:<u>; cooling: cooldown_until lies ahead
    daily,     \* drawdown:daily:<u>; today: its date is the current one
    controls,  \* drawdown:controls:<u>
    dayStart,  \* history: the equity at the start of the day
    lapsed,    \* history: status does not tell the last close (update died, key expired)
    excused    \* history: no completed update since the loss limit or the stop was changed

ddVars == <<ddMode, equity, open, waiting, status, daily, controls, dayStart, lapsed, excused>>

States == {"NORMAL", "REDUCED", "COOLDOWN", "PAUSED"}
Blocking == {"PAUSED", "COOLDOWN"}

DdTypeOK ==
    /\ equity \in Equities /\ dayStart \in Equities
    /\ ddMode \in {"paper", "live"}
    /\ open \in 0..MaxOpen /\ waiting \in 0..MaxEntering
    /\ status \in [peak : Equities, current : Equities, state : States, cooling : BOOLEAN]
    /\ daily \in [today : BOOLEAN, start : Equities, current : Equities]
    /\ controls \in [manual : BOOLEAN, auto : BOOLEAN, limit : DailyLimits]
    /\ lapsed \in BOOLEAN /\ excused \in BOOLEAN

NoStatus   == [peak |-> StartEquity, current |-> StartEquity, state |-> "NORMAL", cooling |-> FALSE]
NoDaily    == [today |-> FALSE, start |-> StartEquity, current |-> StartEquity]
NoControls == [manual |-> FALSE, auto |-> FALSE, limit |-> DefaultLimit]

DdInit ==
    /\ equity = StartEquity /\ dayStart = StartEquity
    /\ ddMode \in {"paper", "live"}
    /\ open = 0 /\ waiting = 0
    /\ status = NoStatus /\ daily = NoDaily /\ controls = NoControls
    /\ lapsed = FALSE /\ excused = FALSE

Higher(a, b) == IF a >= b THEN a ELSE b

(* now is at least limit percent below from. *)
Fallen(from, now, limit) == now <= from /\ (from - now) * 100 >= limit * from

Stopped == controls.manual \/ controls.auto

-----------------------------------------------------------------------------
(* update(): its three writes, as functions of the equity it is given. *)

TrackedDay(now) ==
    IF daily.today THEN [daily EXCEPT !.current = now]
    ELSE [today |-> TRUE, start |-> now, current |-> now]

Assessed(now) ==
    LET peak   == Higher(status.peak, now)
        deep   == Fallen(peak, now, PauseLimit)
        marked == Fallen(peak, now, RollingLimit)
    IN  [peak |-> peak, current |-> now,
         state |-> CASE deep -> "PAUSED"
                     [] ~deep /\ status.cooling -> "COOLDOWN"
                     [] ~deep /\ ~status.cooling /\ marked -> "REDUCED"
                     [] OTHER -> "NORMAL",
         cooling |-> deep \/ status.cooling \/ marked]

(* Mutant: the loss is judged before the new equity is tracked. *)
EnforcedOnOldEquity(now) ==
    IF Stopped \/ ~Fallen(daily.start, daily.current, controls.limit) THEN controls
    ELSE [controls EXCEPT !.auto = TRUE]

Enforced(now) ==
    IF Stopped \/ ~Fallen(TrackedDay(now).start, now, controls.limit) THEN controls
    ELSE [controls EXCEPT !.auto = TRUE]

Update(now) ==
    /\ daily' = TrackedDay(now) /\ status' = Assessed(now) /\ controls' = Enforced(now)
    /\ lapsed' = FALSE /\ excused' = FALSE

(* The process dies before the update or between two of its writes. *)
UpdateDies(now) ==
    /\ UpdateMayDie
    /\ UNCHANGED controls
    /\ excused' = TRUE
    /\ \/ UNCHANGED <<daily, status>> /\ lapsed' = TRUE
       \/ daily' = TrackedDay(now) /\ UNCHANGED status /\ lapsed' = TRUE
       \/ daily' = TrackedDay(now) /\ status' = Assessed(now) /\ lapsed' = FALSE

-----------------------------------------------------------------------------
(* The first gate of execute_signal: the state, the stop and                *)
(* capital_multiplier.                                                      *)
MayEnter == status.state \notin Blocking /\ ~Stopped

Admit ==
    /\ MayEnter
    /\ waiting < MaxEntering
    /\ waiting' = waiting + 1
    /\ UNCHANGED <<ddMode, equity, open, status, daily, controls, dayStart, lapsed, excused>>

(* The second one: global_risk_limits asks for the drawdown alone.          *)
Governed == ~Fallen(status.peak, status.current, PauseLimit)

(* Mutant: the second gate lets everyone pass. *)
EnterUngoverned ==
    /\ waiting > 0 /\ waiting' = waiting - 1
    /\ \E units \in 1..(MaxOpen - open) : open' = open + units
    /\ UNCHANGED <<ddMode, equity, status, daily, controls, dayStart, lapsed, excused>>

(* The order is executed and recorded. *)
Enter ==
    /\ waiting > 0 /\ waiting' = waiting - 1
    /\ ddMode = "live" => Governed
    /\ \E units \in 1..(MaxOpen - open) : open' = open + units
    /\ UNCHANGED <<ddMode, equity, status, daily, controls, dayStart, lapsed, excused>>

(* A later check refuses the request, or its order fails. *)
GiveUpEntering ==
    /\ waiting > 0 /\ waiting' = waiting - 1
    /\ UNCHANGED <<ddMode, equity, open, status, daily, controls, dayStart, lapsed, excused>>

(* A position is closed, as a whole or in part, or its outcome reported;    *)
(* the ledger has the new equity, and the protection is told.               *)
Close(now) ==
    /\ \E units \in 1..open : open' = open - units
    /\ equity' = now
    /\ Update(now) \/ UpdateDies(now)
    /\ UNCHANGED <<ddMode, waiting, dayStart>>

-----------------------------------------------------------------------------
(* The user's controls *)

StopEngine ==
    /\ controls' = [controls EXCEPT !.manual = TRUE]
    /\ UNCHANGED <<ddMode, equity, open, waiting, status, daily, dayStart, lapsed, excused>>

ClearStop ==
    /\ controls' = [controls EXCEPT !.manual = FALSE, !.auto = FALSE]
    /\ excused' = TRUE
    /\ UNCHANGED <<ddMode, equity, open, waiting, status, daily, dayStart, lapsed>>

(* Mutant: the new controls are built from the defaults. *)
SetLimitForgetting(limit) ==
    /\ controls' = [NoControls EXCEPT !.limit = limit]
    /\ excused' = TRUE
    /\ UNCHANGED <<ddMode, equity, open, waiting, status, daily, dayStart, lapsed>>

(* RiskController.set_profile *)
SetLimit(limit) ==
    /\ controls' = [controls EXCEPT !.limit = limit]
    /\ excused' = TRUE
    /\ UNCHANGED <<ddMode, equity, open, waiting, status, daily, dayStart, lapsed>>

-----------------------------------------------------------------------------
(* Time *)

CooldownEnds ==
    /\ status.cooling
    /\ status' = [status EXCEPT !.cooling = FALSE]
    /\ UNCHANGED <<ddMode, equity, open, waiting, daily, controls, dayStart, lapsed, excused>>

NewDay ==
    /\ daily' = [daily EXCEPT !.today = FALSE]
    /\ dayStart' = equity
    /\ UNCHANGED <<ddMode, equity, open, waiting, status, controls, lapsed, excused>>

(* Mutant: the status is kept without a ttl. *)
ExpireStatusNever == FALSE /\ UNCHANGED ddVars

(* A day without an update: a cooldown of an hour is over by then. *)
ExpireStatus ==
    /\ ~status.cooling /\ status # NoStatus
    /\ status' = NoStatus
    /\ lapsed' = TRUE
    /\ UNCHANGED <<ddMode, equity, open, waiting, daily, controls, dayStart, excused>>

ExpireControls ==
    /\ controls # NoControls
    /\ controls' = NoControls
    /\ excused' = TRUE
    /\ UNCHANGED <<ddMode, equity, open, waiting, status, daily, dayStart, lapsed>>

DdNext ==
    \/ Admit \/ Enter \/ GiveUpEntering \/ \E now \in Equities : Close(now)
    \/ StopEngine \/ ClearStop \/ \E limit \in DailyLimits : SetLimit(limit)
    \/ CooldownEnds \/ NewDay \/ ExpireStatus \/ ExpireControls

DdFairness == WF_ddVars(CooldownEnds) /\ WF_ddVars(ExpireStatus)

DdSpec == DdInit /\ [][DdNext]_ddVars /\ DdFairness

-----------------------------------------------------------------------------
(* What the protection promises *)

(* The ledger's equity, whatever closes led to it, lies the pause limit or  *)
(* more below the peak, the last close was assessed and its record lives.   *)
DeepDrawdown == ~lapsed /\ Fallen(status.peak, equity, PauseLimit)

(* In a deep drawdown no request passes the first gate; those that passed   *)
(* it before a close brought the account there open no live position any    *)
(* more, and in paper trading at most one each.                             *)
NoEntryInDeepDrawdown ==
    [][DeepDrawdown => /\ waiting' <= waiting
                       /\ open' > open => ddMode = "paper" /\ waiting' < waiting]_ddVars

(* While the cooldown that a pause began is running, neither a profit nor a *)
(* lesser loss gives the account back to trading.                           *)
CooldownIsServed ==
    [][status.state \in Blocking /\ status.cooling /\ status'.cooling
          => status'.state \in Blocking]_ddVars

(* No update of the limits, no close and no new day ends a stop: only the   *)
(* user does, or the ttl of the key.                                        *)
StopEndsOnPurpose == [][Stopped /\ ~Stopped' => ClearStop \/ ExpireControls]_ddVars

(* Neither the limit on losses nor the stop of a user ends by accident.     *)
StopsLast == CooldownIsServed /\ StopEndsOnPurpose

(* After each close the loss since the day's first close is held against    *)
(* the limit.                                                               *)
TrackedLossStops ==
    daily.today /\ Fallen(daily.start, daily.current, controls.limit)
        => Stopped \/ excused

(* A pause by drawdown ends, though no position may be left whose close     *)
(* would have the account assessed again.                                   *)
PauseEnds == []<>(status.state \notin Blocking)

-----------------------------------------------------------------------------
(* "Max daily loss blocks further execution": no request passes the gate    *)
(* once the day has lost the limit.                                         *)
DailyLossBlocks ==
    [][waiting' > waiting => ~Fallen(dayStart, equity, controls.limit)]_ddVars
=============================================================================
