------------------------------- MODULE Sleeves -------------------------------
(***************************************************************************)
(* What each part of a portfolio may use: the factor sleeves of             *)
(* PortfolioLedgerService.  A closed trade is credited to a sleeve; a       *)
(* profile of the portfolio derives each sleeve's share of the budget.      *)
(*                                                                         *)
(* One user.  Shares are in units of 1 / Scale.  A profile waits for the    *)
(* returns of its symbols; a trade is recorded without awaits, but in       *)
(* several commands to the cache that the processes share.                  *)
(***************************************************************************)
EXTENDS Integers, Sequences, FiniteSets, FiniteSetsExt

CONSTANTS
    Symbols,      \* the sleeves are symbols
    Unassigned,   \* the sleeve of trades whose record is gone
    Window,       \* portfolio_factor_performance_window_trades
    HistoryLimit, \* portfolio_concentration_history_limit
    Floor, Cap,   \* portfolio_factor_sleeve_budget_floor and _cap
    Pnls,         \* results of a trade
    Past,         \* the windows at the start
    Exposures,    \* what is open in each symbol, when a profile looks
    FactorWeights,\* what the returns may give as the symbols' weights
    Recorders,    \* processes that close trades
    MaxTrades,    \* bound: trades recorded
    MaxProfiles   \* bound: profiles computed

Scale == 10000

ASSUME SleevesAssumption ==
    /\ IsFiniteSet(Symbols) /\ Unassigned \in Symbols /\ Window \in Nat \ {0} /\ HistoryLimit \in Nat \ {0}
    /\ Floor \in 0..Scale /\ Cap \in 0..Scale /\ Pnls \subseteq Int
    /\ DOMAIN Past = Symbols /\ \A s \in Symbols : Past[s] \in Seq(Pnls) /\ (Window = 1 \/ Len(Past[s]) <= Window)
    /\ Exposures \subseteq [Symbols -> Nat] /\ FactorWeights \subseteq [Symbols -> Nat]
    /\ \A e \in Exposures : e[Unassigned] = 0
    /\ MaxTrades \in Nat /\ MaxProfiles \in Nat

VARIABLES
    slWindow,   \* the last results of each sleeve
    slResults,  \* each sleeve's totals, with the summary of its window
    slRecord,   \* a recording under way: where it is, its sleeve and result, what it has read
    slProfile,  \* the latest profile: attribution, targets, dominant sleeve, turnover
    slHistory,  \* how many profiles are kept
    slLooking,  \* a profile under way: the exposures it has read
    slRecorded, \* history: recordings begun
    slProfiled, \* history: profiles begun
    slRaced,    \* history: two recordings were under way at once
    slTorn      \* history: a process died in a recording

slVars == <<slWindow, slResults, slRecord, slProfile, slHistory, slLooking, slRecorded, slProfiled, slRaced, slTorn>>

Least(a, b) == IF a < b THEN a ELSE b
Most(a, b)  == IF a > b THEN a ELSE b

(* What the slice [-(limit - 1):] leaves of n items: a limit of one cuts     *)
(* nothing off, since [-0:] is the whole list.                               *)
LeftOf(n, limit) == IF limit = 1 THEN n ELSE Least(n, limit - 1)
KeptIn(n, limit)   == n \in Nat /\ (limit = 1 \/ n <= limit)

(* A sleeve's totals, when all its results are in the window. *)
Wins(window)    == Cardinality({i \in 1..Len(window) : window[i] > 0})
Earned(window)  == MapThenSumSet(LAMBDA i : window[i], 1..Len(window))
TotalsOf(window) ==
    [closed |-> Len(window), wins |-> Wins(window), losses |-> Cardinality({i \in 1..Len(window) : window[i] < 0}),
     recent |-> Len(window), recentWins |-> Wins(window), recentPnl |-> Earned(window)]
NotRecording == [at |-> "none"]
NoProfile   == [known |-> FALSE, shares |-> [s \in {} |-> 0], targets |-> [s \in {} |-> 0], turnover |-> 0]
NotLooking  == [s \in {} |-> 0]

SlTypeOK ==
    /\ \A s \in Symbols : /\ \A i \in 1..Len(slWindow[s]) : slWindow[s][i] \in Pnls
                          /\ slResults[s].closed \in 0..Len(Past[s]) + MaxTrades /\ KeptIn(slResults[s].recent, Window)
    /\ DOMAIN slProfile.shares \subseteq Symbols /\ DOMAIN slProfile.targets \subseteq Symbols
    /\ KeptIn(slHistory, HistoryLimit) /\ slRecorded \in 0..MaxTrades /\ slProfiled \in 0..MaxProfiles
    /\ slLooking = NotLooking \/ slLooking \in Exposures
    /\ \A r \in Recorders : slRecord[r].at \in {"none", "read", "window", "written"}
    /\ slRaced \in BOOLEAN /\ slTorn \in BOOLEAN

SlInit ==
    /\ slWindow = Past /\ slResults = [s \in Symbols |-> TotalsOf(Past[s])]
    /\ slRecord = [r \in Recorders |-> NotRecording] /\ slProfile = NoProfile /\ slHistory = 0
    /\ slLooking = NotLooking /\ slRecorded = 0 /\ slProfiled = 0 /\ slRaced = FALSE /\ slTorn = FALSE

-----------------------------------------------------------------------------
(* Budgets                                                                   *)

Total(f) == MapThenSumSet(LAMBDA s : f[s], DOMAIN f)
Clamp(x)    == Most(0, Least(x, Scale))

(* _market_factor_profile: none, when there are too few returns.             *)
Weights == FactorWeights \cup {[s \in Symbols |-> 0]}

(* _factor_attribution: the open symbols of the factor, by exposure and      *)
(* weight.                                                                   *)
Attribution(exposure, weight) ==
    LET raw == [s \in {s \in Symbols : exposure[s] > 0} |-> exposure[s] * weight[s]]
    IN  IF Total(raw) = 0 THEN [s \in {} |-> 0] ELSE [s \in DOMAIN raw |-> (raw[s] * Scale) \div Total(raw)]

(* The score of a sleeve's last results: half of the best without any.       *)
Quality(s) ==
    LET r == slResults[s]
        win == IF r.closed = 0 THEN Scale \div 2 ELSE (r.recentWins * Scale) \div r.recent
        avg == IF r.closed = 0 THEN 0 ELSE r.recentPnl \div r.recent
    IN  Most(Scale \div 20, (55 * win + 45 * Clamp((avg + Scale \div 50) * 25)) \div 100)

(* The other way: the raw shares are cut to the bounds and scaled.           *)
CutShares(raw) ==
    LET cut == [s \in DOMAIN raw |-> Least(Cap, Most(Floor, raw[s]))]
    IN  [s \in DOMAIN raw |-> (cut[s] * Scale) \div Total(cut)]

(* _bounded_share_targets: shares between a floor and a cap, both of which   *)
(* give way to an equal share.                                               *)
Equal(all)   == Scale \div Cardinality(all)
Lowest(all)  == Least(Floor, Equal(all))
Highest(all) == Most(Equal(all), Cap)
Unshared(t)  == Scale - Total(t)
Bounded(raw) == [s \in DOMAIN raw |-> Least(Highest(DOMAIN raw), Most(Lowest(DOMAIN raw), raw[s]))]

(* What is missing is given to those below the cap by their raw shares,      *)
GivenOut(raw, t) ==
    LET below  == {s \in DOMAIN t : t[s] < Highest(DOMAIN t)}
        weight == [s \in below |-> Most(1, raw[s])]
        part(s) == Least(Highest(DOMAIN t) - t[s], (Unshared(t) * weight[s]) \div Total(weight))
    IN  [s \in DOMAIN t |-> t[s] + (IF s \in below THEN part(s) ELSE 0)]

(* and what is too much is taken from those above the floor by what they     *)
(* have more,                                                                *)
TakenBack(t) ==
    LET above == {s \in DOMAIN t : t[s] > Lowest(DOMAIN t)}
        more  == [s \in above |-> t[s] - Lowest(DOMAIN t)]
        part(s) == Least(more[s], (-Unshared(t) * more[s]) \div Total(more))
    IN  [s \in DOMAIN t |-> t[s] - (IF s \in above THEN part(s) ELSE 0)]

Rebalanced(raw, t) ==
    IF Unshared(t) > 0 THEN GivenOut(raw, t) ELSE IF Unshared(t) < 0 THEN TakenBack(t) ELSE t

(* a number of times, and then all are scaled.                               *)
Balanced(raw) ==
    LET all  == DOMAIN raw
        last == 4 * Cardinality(all)
        after[k \in 0..last] ==
            [t \in [all -> Lowest(all)..Highest(all)] |-> IF k = 0 THEN t ELSE after[k - 1][Rebalanced(raw, t)]]
    IN  after[last][Bounded(raw)]
BoundedShares(raw) == LET t == Balanced(raw) IN [s \in DOMAIN raw |-> (t[s] * Scale) \div Total(t)]

(* _factor_sleeve_budgets: a sleeve stays once it has a result.              *)
Targets(shares) ==
    LET sleeves == DOMAIN shares \cup {s \in Symbols : slResults[s].closed > 0}
        quality == [s \in sleeves |-> Quality(s)]
    IN  IF sleeves = {} THEN quality
        ELSE BoundedShares([s \in sleeves |-> (quality[s] * Scale) \div Total(quality)])

(* _concentration_drift, of the budgets: nothing before the first profile,   *)
(* and half of the new budgets after a profile without any.                  *)
Turnover(previous, new) ==
    LET old == previous.targets
        at(f, s) == IF s \in DOMAIN f THEN f[s] ELSE 0
        moved == [s \in DOMAIN old \cup DOMAIN new |-> Most(at(old, s), at(new, s)) - Least(at(old, s), at(new, s))]
    IN  IF ~previous.known THEN 0 ELSE Total(moved) \div 2

-----------------------------------------------------------------------------
(* Profiles                                                                  *)

(* portfolio_concentration_profile: the exposures are read before the        *)
(* returns are fetched.  Nothing open, and nothing asked for: no profile.    *)
BeginProfile ==
    /\ slLooking = NotLooking /\ slProfiled < MaxProfiles /\ slProfiled' = slProfiled + 1
    /\ slLooking' \in Exposures
    /\ UNCHANGED <<slWindow, slResults, slRecord, slProfile, slHistory, slRecorded, slRaced, slTorn>>

(* _persist_concentration_profile: the history is cut before it grows.       *)
Kept(profile) == /\ slProfile' = profile
                 /\ slHistory' = LeftOf(slHistory, HistoryLimit) + 1

EndProfile ==
    /\ slLooking # NotLooking /\ slLooking' = NotLooking
    /\ \E weight \in Weights :
          LET shares == Attribution(slLooking, weight)  targets == Targets(shares) IN
          Kept([known |-> TRUE, shares |-> shares, targets |-> targets, turnover |-> Turnover(slProfile, targets)])
    /\ UNCHANGED <<slWindow, slResults, slRecord, slRecorded, slProfiled, slRaced, slTorn>>

ProfileExpires ==
    /\ slProfile # NoProfile /\ slProfile' = NoProfile
    /\ UNCHANGED <<slWindow, slResults, slRecord, slHistory, slLooking, slRecorded, slProfiled, slRaced, slTorn>>

-----------------------------------------------------------------------------
(* Results                                                                   *)

(* _factor_sleeve_for_symbol: the symbol, if the latest profile knows it, or *)
(* the profile's largest; none, without a record of the trade.               *)
SleevesFor(symbol) ==
    LET shares == slProfile.shares IN
    IF symbol = Unassigned \/ symbol \in DOMAIN shares \/ shares = NoProfile.shares THEN {symbol}
    ELSE {s \in DOMAIN shares : \A x \in DOMAIN shares : shares[s] >= shares[x]}

(* _record_factor_sleeve_outcome reads the totals,                           *)
BeginRecord(r, symbol, pnl) ==
    /\ slRecord[r] = NotRecording /\ slRecorded < MaxTrades /\ slRecorded' = slRecorded + 1
    /\ \E sleeve \in SleevesFor(symbol) :
          slRecord' = [slRecord EXCEPT ![r] =
              [at |-> "read", sleeve |-> sleeve, pnl |-> pnl, totals |-> slResults, window |-> <<>>]]
    /\ slRaced' = (slRaced \/ \E x \in Recorders : slRecord[x] # NotRecording)
    /\ UNCHANGED <<slWindow, slResults, slProfile, slHistory, slLooking, slProfiled, slTorn>>

(* then the window: its last results and the new one,                        *)
ReadWindow(r) ==
    LET old == slWindow[slRecord[r].sleeve] IN
    /\ slRecord[r].at = "read"
    /\ slRecord' = [slRecord EXCEPT ![r].at = "window",
          ![r].window = Append(SubSeq(old, Len(old) - LeftOf(Len(old), Window) + 1, Len(old)), slRecord[r].pnl)]
    /\ UNCHANGED <<slWindow, slResults, slProfile, slHistory, slLooking, slRecorded, slProfiled, slRaced, slTorn>>

(* writes it,                                                                *)
WriteWindow(r) ==
    /\ slRecord[r].at = "window"
    /\ slRecord' = [slRecord EXCEPT ![r].at = "written"]
    /\ slWindow' = [slWindow EXCEPT ![slRecord[r].sleeve] = slRecord[r].window]
    /\ UNCHANGED <<slResults, slProfile, slHistory, slLooking, slRecorded, slProfiled, slRaced, slTorn>>

(* and then the totals of all sleeves as it read them, with its own.  A      *)
(* result of nothing is no loss in the totals, and one in the window.        *)
WriteTotals(r) ==
    LET d == slRecord[r]  old == d.totals[d.sleeve] IN
        /\ d.at = "written"
        /\ slResults' = [d.totals EXCEPT ![d.sleeve] =
              [TotalsOf(d.window) EXCEPT !.closed = old.closed + 1,
                   !.wins = old.wins + (IF d.pnl > 0 THEN 1 ELSE 0), !.losses = old.losses + (IF d.pnl < 0 THEN 1 ELSE 0)]]
        /\ slRecord' = [slRecord EXCEPT ![r] = NotRecording]
        /\ UNCHANGED <<slWindow, slProfile, slHistory, slLooking, slRecorded, slProfiled, slRaced, slTorn>>

RecorderDies(r) ==
    /\ slRecord[r] # NotRecording /\ slRecord' = [slRecord EXCEPT ![r] = NotRecording]
    /\ slTorn' = TRUE
    /\ UNCHANGED <<slWindow, slResults, slProfile, slHistory, slLooking, slRecorded, slProfiled, slRaced>>

SlNext ==
    \/ BeginProfile \/ EndProfile \/ ProfileExpires
    \/ \E r \in Recorders :
          \/ \E s \in Symbols, pnl \in Pnls : BeginRecord(r, s, pnl)
          \/ ReadWindow(r) \/ WriteWindow(r) \/ WriteTotals(r) \/ RecorderDies(r)

-----------------------------------------------------------------------------

Rounding == 2 * Cardinality(Symbols)

(* The targets of a profile share out the whole budget, and no sleeve has    *)
(* less than the floor or more than the cap, as far as an equal share is     *)
(* between the two.                                                          *)
BudgetIsShared ==
    LET t == slProfile.targets  count == Cardinality(DOMAIN t) IN
    t # NoProfile.targets =>
        /\ Total(t) \in Scale - Rounding..Scale
        /\ \A s \in DOMAIN t :
              /\ t[s] >= Least(Floor, Scale \div count) - Rounding
              /\ t[s] <= Most(Cap, Scale \div count) + Rounding

(* A profile never moves more than the whole budget.                         *)
TurnoverIsBounded == slProfile.turnover \in 0..Scale

(* A sleeve's window is that of its totals, and no part of it is forgotten   *)
(* before the whole: unless two processes recorded at once, or one died on   *)
(* the way.  A window of one forgets nothing.                                *)
WindowsMatchTotals ==
    ~slRaced /\ ~slTorn /\ (\A r \in Recorders : slRecord[r] = NotRecording) =>
        \A s \in Symbols :
            /\ slResults[s].recent = Len(slWindow[s])
            /\ Len(slWindow[s]) = IF Window = 1 THEN slResults[s].closed ELSE Least(slResults[s].closed, Window)
            /\ slResults[s].recentWins <= slResults[s].wins
            /\ slResults[s].wins + slResults[s].losses <= slResults[s].closed

(* A better sleeve never gets the smaller target: [][...] of the profiles.   *)
BetterGetsMore ==
    slProfile' # slProfile =>
        \A s, x \in DOMAIN slProfile'.targets :
            Quality(s) >= Quality(x) => slProfile'.targets[s] >= slProfile'.targets[x] - Rounding
=============================================================================
