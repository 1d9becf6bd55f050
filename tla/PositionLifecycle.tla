-------------------------- MODULE PositionLifecycle --------------------------
(***************************************************************************)
(* An open position after its order: TradingOrchestrator.close_trade_      *)
(* position and reconcile_startup_state, PortfolioLedgerService.close_trade *)
(* and portfolio_snapshot, and the worker that watches open positions      *)
(* (workers/trade_monitor_worker.py).                                      *)
(*                                                                         *)
(* All of them share the cache.  A close runs without an await, so within  *)
(* the one worker process of the deployment only a failure or a crash can  *)
(* cut it; the monitor copies every trade at the start of a pass and       *)
(* writes the copies back after the awaits of each analysis; a snapshot    *)
(* copies the ledger summary and may write the copy back after fetching    *)
(* prices.                                                                 *)
(*                                                                         *)
(* A quantity is a number of units; a summary is the quantity of each      *)
(* trade whose result it includes.                                         *)
(***************************************************************************)
EXTENDS Naturals

CONSTANTS
    Trades,
    None,              \* an absent cache key
    Virtual,           \* the trades that are shares of a common order
    Quantity,          \* bound: units of a position when it is opened
    MaxCrashes,        \* bound: times the process may die
    OpenMayCrash,      \* it may die while it records a new position
    ApiDuringPass,     \* a close request may overlap a pass of the monitor
    SnapshotsOn        \* snapshots may overlap a close

ASSUME LifecycleAssumption ==
    /\ Virtual \subseteq Trades
    /\ Quantity \in Nat \ {0}
    /\ MaxCrashes \in Nat
    /\ OpenMayCrash \in BOOLEAN /\ ApiDuringPass \in BOOLEAN /\ SnapshotsOn \in BOOLEAN
    /\ None \notin [qty : 1..Quantity, partialTaken : BOOLEAN,
                    status : {"OPENING", "FILLED", "PARTIAL", "FAILED"}]
    /\ None \notin [Trades -> 0..Quantity]

VARIABLES
    up,           \* the process has started
    crashes,
    toReconcile,  \* the trades a starting process has yet to ask about
    active,       \* active_trade:<t>
    monitored,    \* monitor:trade:<t>
    marker,       \* trade:closed:<t>
    lock,         \* lock:trade_close:<t> left by a process that died
    summary,      \* portfolio:summary
    loop,         \* the task of the monitor runs
    todo,         \* the trades the current pass has yet to analyse
    copy,         \* the trades as the pass read them
    snap,         \* the summary as the running snapshot read it
    opened,       \* history: positions opened
    booked,       \* history: units booked as closed
    risked,       \* history: those of them booked while a snapshot waited
    forgotten     \* history: units a start dropped without booking them

passVars == <<loop, todo, copy>>
procVars == <<up, crashes, toReconcile, snap>>
ledgerVars == <<summary, booked, risked>>
vars == <<procVars, passVars, active, monitored, marker, lock, ledgerVars, opened, forgotten>>

Records == [qty : 1..Quantity, partialTaken : BOOLEAN, status : {"OPENING", "FILLED", "PARTIAL", "FAILED"}]

TypeOK ==
    /\ up \in BOOLEAN
    /\ crashes \in 0..MaxCrashes
    /\ toReconcile \in SUBSET Trades
    /\ active \in [Trades -> Records \cup {None}]
    /\ monitored \in SUBSET Trades
    /\ marker \in SUBSET Trades
    /\ lock \in SUBSET Trades
    /\ summary \in [Trades -> Nat]
    /\ loop \in BOOLEAN
    /\ todo \in SUBSET Trades
    /\ copy \in [Trades -> Records \cup {None}]
    /\ snap \in [Trades -> Nat] \cup {None}
    /\ opened \in SUBSET Trades
    /\ booked \in [Trades -> Nat] /\ risked \in [Trades -> Nat] /\ forgotten \in [Trades -> Nat]

Init ==
    /\ up = TRUE
    /\ crashes = 0
    /\ toReconcile = {}
    /\ active = [t \in Trades |-> None]
    /\ monitored = {} /\ marker = {} /\ lock = {}
    /\ summary = [t \in Trades |-> 0]
    /\ loop = TRUE /\ todo = {} /\ copy = [t \in Trades |-> None]
    /\ snap = None
    /\ opened = {}
    /\ booked = [t \in Trades |-> 0] /\ risked = [t \in Trades |-> 0] /\ forgotten = [t \in Trades |-> 0]

-----------------------------------------------------------------------------
(* The process dies: what its tasks had read is gone, and so are they.       *)
Die ==
    /\ crashes < MaxCrashes
    /\ crashes' = crashes + 1
    /\ up' = FALSE
    /\ toReconcile' = Trades
    /\ loop' = TRUE /\ todo' = {} /\ copy' = [t \in Trades |-> None]
    /\ snap' = None

Alive == UNCHANGED procVars

(* execute_signal records the position it opened and has it watched; if the *)
(* process dies between the two, it stays unwatched.                        *)
Open(t) ==
    /\ up
    /\ t \notin opened \cup Virtual
    /\ opened' = opened \cup {t}
    /\ active' = [active EXCEPT ![t] =
                     [qty |-> Quantity, partialTaken |-> FALSE, status |-> "OPENING"]]
    /\ \/ monitored' = monitored \cup {t} /\ Alive /\ UNCHANGED passVars
       \/ OpenMayCrash /\ Die /\ UNCHANGED monitored
    /\ UNCHANGED <<marker, lock, ledgerVars, forgotten>>

(* _record_virtual_allocation records a share of a common order: settled,   *)
(* and watched by nobody.                                                   *)
OpenShare(t) ==
    /\ up
    /\ t \in Virtual \ opened
    /\ opened' = opened \cup {t}
    /\ active' = [active EXCEPT ![t] =
                     [qty |-> Quantity, partialTaken |-> FALSE, status |-> "FILLED"]]
    /\ UNCHANGED <<procVars, passVars, monitored, marker, lock, ledgerVars, forgotten>>

-----------------------------------------------------------------------------
(* Closing.  held is the record the close finds, watched the registrations. *)

Least(a, b) == IF a <= b THEN a ELSE b

Refused(t, held) == t \in lock \/ t \in marker \/ held = None

(* The result of the units enters the summary as it is now.  A snapshot that *)
(* waits holds an older one.                                                *)
Book(t, units) ==
    /\ summary' = [summary EXCEPT ![t] = @ + units]
    /\ booked' = [booked EXCEPT ![t] = @ + units]
    /\ risked' = IF snap = None THEN risked ELSE [risked EXCEPT ![t] = @ + units]

(* Mutants: an emptied record is kept; the requested quantity is not capped. *)
SettleKeepingEmpty(t, held, units) ==
    LET closed == Least(units, held.qty)
    IN  /\ Book(t, closed)
        /\ active' = [active EXCEPT ![t] = [held EXCEPT !.qty = @ - closed, !.status = "PARTIAL"]]

SettleUncapped(t, held, units) ==
    /\ Book(t, units)
    /\ active' = [active EXCEPT ![t] =
                     IF units < held.qty THEN [held EXCEPT !.qty = @ - units, !.status = "PARTIAL"]
                     ELSE None]

(* The ledger's transaction: summary and record change together. *)
Settle(t, held, units) ==
    LET closed == Least(units, held.qty)
        rest   == held.qty - closed
    IN  /\ Book(t, closed)
        /\ active' = [active EXCEPT ![t] =
                         IF rest > 0 THEN [held EXCEPT !.qty = rest, !.status = "PARTIAL"]
                         ELSE None]

Keep(t, held, watched) ==
    /\ active' = [active EXCEPT ![t] = held]
    /\ monitored' = watched
    /\ UNCHANGED <<marker, ledgerVars>>

(* Mutant: every close ends the watch. *)
CloseDoneUnwatching(t, held, units, watched) ==
    /\ Settle(t, held, units)
    /\ monitored' = watched \ {t}
    /\ marker' = IF units >= held.qty THEN marker \cup {t} ELSE marker \ {t}

(* A full close ends the watch and leaves the marker, a partial close the   *)
(* opposite.                                                                *)
CloseDone(t, held, units, watched) ==
    /\ Settle(t, held, units)
    /\ IF units >= held.qty
       THEN monitored' = watched \ {t} /\ marker' = marker \cup {t}
       ELSE monitored' = watched \cup {t} /\ marker' = marker \ {t}

(* Something after the transaction raises (tracker, rollout, Firestore,     *)
(* learning): no marker, and the watch may have ended already.              *)
CloseFails(t, held, units, watched) ==
    /\ Settle(t, held, units)
    /\ \/ monitored' = watched
       \/ IF units >= held.qty THEN monitored' = watched \ {t} ELSE monitored' = watched \cup {t}
    /\ UNCHANGED marker

ClosePosition(t, held, units, watched) ==
    \/ /\ Refused(t, held)
       /\ Keep(t, held, watched)
       /\ UNCHANGED lock
    \/ /\ ~Refused(t, held)
       /\ CloseDone(t, held, units, watched) \/ CloseFails(t, held, units, watched)
       /\ UNCHANGED lock

(* Mutant: record and summary are written one after the other. *)
CrashInCloseTorn(t, held, units, watched) ==
    /\ ~Refused(t, held)
    /\ lock' = lock \cup {t}
    /\ \/ Keep(t, held, watched) \/ CloseFails(t, held, units, watched)
       \/ /\ units < held.qty
          /\ booked' = [booked EXCEPT ![t] = @ + units]
          /\ active' = [active EXCEPT ![t] = [held EXCEPT !.qty = @ - units, !.status = "PARTIAL"]]
          /\ UNCHANGED <<summary, risked, monitored, marker>>
    /\ Die

(* The process dies inside a close, before or after the transaction: the    *)
(* lock stays until its ttl of 30 seconds ends.                             *)
CrashInClose(t, held, units, watched) ==
    /\ ~Refused(t, held)
    /\ lock' = lock \cup {t}
    /\ Keep(t, held, watched) \/ CloseFails(t, held, units, watched)
    /\ Die

(* POST /close, with any quantity up to the whole. *)
ApiClose(t, units) ==
    /\ up
    /\ ApiDuringPass \/ todo = {}
    /\ \/ ClosePosition(t, active[t], units, monitored) /\ Alive /\ UNCHANGED passVars
       \/ CrashInClose(t, active[t], units, monitored)
    /\ UNCHANGED <<opened, forgotten>>

-----------------------------------------------------------------------------
(* The monitor *)

StartPass ==
    /\ up /\ loop /\ todo = {} /\ monitored # {}
    /\ todo' = monitored
    /\ copy' = [t \in Trades |-> IF t \in monitored THEN active[t] ELSE None]
    /\ UNCHANGED <<loop, active, monitored, marker, lock, ledgerVars, opened, forgotten>> /\ Alive

(* An error of the cache outside the analysis of a trade ends the task, which *)
(* only a restart of the process brings back.                               *)
LoopDies ==
    /\ up /\ loop
    /\ loop' = FALSE /\ todo' = {} /\ copy' = [t \in Trades |-> None]
    /\ UNCHANGED <<active, monitored, marker, lock, ledgerVars, opened, forgotten>> /\ Alive

Done(t) ==
    /\ todo' = todo \ {t}
    /\ copy' = [copy EXCEPT ![t] = None]
    /\ UNCHANGED loop

(* Mutant: the registration stays. *)
UnregisterNothing(t) ==
    /\ up /\ t \in todo /\ copy[t] = None
    /\ Done(t)
    /\ UNCHANGED <<active, monitored, marker, lock, ledgerVars, opened, forgotten>> /\ Alive

Unregister(t) ==
    /\ up /\ t \in todo /\ copy[t] = None
    /\ monitored' = monitored \ {t}
    /\ Done(t)
    /\ UNCHANGED <<active, marker, lock, ledgerVars, opened, forgotten>> /\ Alive

(* Market data could not be fetched: the pass goes on with the next trade.  *)
SkipTrade(t) ==
    /\ up /\ t \in todo /\ copy[t] # None
    /\ Done(t)
    /\ UNCHANGED <<active, monitored, marker, lock, ledgerVars, opened, forgotten>> /\ Alive

(* The copy is written back with new stops; so is an exit that is ignored   *)
(* because the partial profit was taken.                                    *)
HoldTrade(t) ==
    /\ up /\ t \in todo /\ copy[t] # None
    /\ Keep(t, copy[t], monitored \cup {t})
    /\ Done(t)
    /\ UNCHANGED <<lock, opened, forgotten>> /\ Alive

(* The first time the profit is high enough, a part is closed. *)
TakePartialProfit(t) ==
    LET held == [copy[t] EXCEPT !.partialTaken = TRUE]
    IN  /\ up /\ t \in todo /\ copy[t] # None
        /\ ~copy[t].partialTaken
        /\ copy[t].qty > 1
        /\ \/ ClosePosition(t, held, 1, monitored \cup {t}) /\ Done(t) /\ Alive
           \/ CrashInClose(t, held, 1, monitored \cup {t})
        /\ UNCHANGED <<opened, forgotten>>

(* A stop or an adverse move closes what the copy holds. *)
ExitTrade(t) ==
    /\ up /\ t \in todo /\ copy[t] # None
    /\ \/ ClosePosition(t, copy[t], copy[t].qty, monitored \cup {t}) /\ Done(t) /\ Alive
       \/ CrashInClose(t, copy[t], copy[t].qty, monitored \cup {t})
    /\ UNCHANGED <<opened, forgotten>>

Analyse(t) == Unregister(t) \/ SkipTrade(t) \/ HoldTrade(t) \/ TakePartialProfit(t) \/ ExitTrade(t)

-----------------------------------------------------------------------------
(* portfolio_snapshot: the summary is read before the prices are awaited,   *)
(* and written back when the equity made a new peak.                        *)

ReadSummary ==
    /\ SnapshotsOn /\ up /\ snap = None
    /\ snap' = summary
    /\ UNCHANGED <<up, crashes, toReconcile, active, monitored, marker, lock, passVars, ledgerVars, opened, forgotten>>

WriteSummary ==
    /\ up /\ snap # None
    /\ \/ summary' = snap
       \/ UNCHANGED summary
    /\ snap' = None
    /\ UNCHANGED <<up, crashes, toReconcile, active, monitored, marker, lock, passVars, opened, booked, risked, forgotten>>

-----------------------------------------------------------------------------
(* Crash, restart and time *)

Crash ==
    /\ up
    /\ Die
    /\ UNCHANGED <<active, monitored, marker, lock, ledgerVars, opened, forgotten>>

Unsettled == {t \in Trades : active[t] # None /\ active[t].status = "OPENING"}

(* Mutant: the remaining quantity of the order replaces the position's. *)
ReconcileResizing(t) ==
    /\ ~up
    /\ t \in toReconcile \cap Unsettled
    /\ toReconcile' = toReconcile \ {t}
    /\ \E rest \in 1..Quantity :
          active' = [active EXCEPT ![t].status = "PARTIAL", ![t].qty = rest]
    /\ UNCHANGED <<monitored, marker, lock, ledgerVars, up, crashes, passVars, snap, opened, forgotten>>

(* reconcile_startup_state asks the exchange about every trade that is      *)
(* still OPENING.  The units of an order reported FILLED are closed at the  *)
(* price of the fill: all, or those of the last chunk, whose id a chunked   *)
(* order bears.  Without a price in the report the record is dropped and    *)
(* nothing is booked.  A close that is locked aborts the start.             *)
ReconcileTrade(t) ==
    /\ ~up
    /\ t \in toReconcile \cap Unsettled
    /\ toReconcile' = toReconcile \ {t}
    /\ \/ /\ \E status \in {"FAILED", "PARTIAL"} :
                active' = [active EXCEPT ![t].status = status]
          /\ UNCHANGED <<monitored, marker, lock, ledgerVars, forgotten>>
       \/ /\ t \notin lock
          /\ \E units \in 1..active[t].qty : ClosePosition(t, active[t], units, monitored)
          /\ UNCHANGED forgotten
       \/ /\ forgotten' = [forgotten EXCEPT ![t] = @ + active[t].qty]
          /\ active' = [active EXCEPT ![t] = None]
          /\ UNCHANGED <<monitored, marker, lock, ledgerVars>>
    /\ UNCHANGED <<up, crashes, passVars, snap, opened>>

Start ==
    /\ ~up
    /\ toReconcile \cap Unsettled = {}
    /\ up' = TRUE
    /\ toReconcile' = {}
    /\ UNCHANGED <<crashes, snap, passVars, active, monitored, marker, lock, ledgerVars, opened, forgotten>>

(* Mutant: the lock is set without a ttl. *)
ExpireLockNever(t) == t \in lock /\ FALSE /\ UNCHANGED vars

ExpireLock(t) ==
    /\ t \in lock
    /\ lock' = lock \ {t}
    /\ UNCHANGED <<procVars, passVars, active, monitored, marker, ledgerVars, opened, forgotten>>

(* After monitor_state_ttl_seconds, a day. *)
ExpireMarker(t) ==
    /\ t \in marker
    /\ marker' = marker \ {t}
    /\ UNCHANGED <<procVars, passVars, active, monitored, lock, ledgerVars, opened, forgotten>>

Next ==
    \/ \E t \in Trades :
          \/ Open(t) \/ OpenShare(t) \/ Analyse(t) \/ ReconcileTrade(t)
          \/ ExpireLock(t) \/ ExpireMarker(t)
          \/ \E units \in 1..Quantity : ApiClose(t, units)
    \/ StartPass \/ LoopDies \/ ReadSummary \/ WriteSummary \/ Crash \/ Start

(* The supervisor restarts the process, the loop of the monitor goes on,    *)
(* and keys expire; opens and closes are up to the users.                   *)
Fairness ==
    /\ WF_vars(StartPass) /\ WF_vars(Start)
    /\ \A t \in Trades : WF_vars(Analyse(t)) /\ WF_vars(ExpireLock(t))
    /\ \A t \in Trades : WF_vars(t \notin lock /\ ReconcileTrade(t))

Spec == Init /\ [][Next]_vars /\ Fairness

-----------------------------------------------------------------------------
(* What the life of a position promises *)

Left(t) == IF active[t] = None THEN 0 ELSE active[t].qty

(* Every unit of a position is open, booked, or forgotten by a start, and   *)
(* only one of these and only once, through failing closes, crashes and     *)
(* restarts.                                                                *)
Conservation == \A t \in opened : booked[t] + Left(t) + forgotten[t] = Quantity

(* A trade that is marked as closed is not active: nothing brings it back.  *)
ClosedStaysClosed == \A t \in marker : active[t] = None

(* While the process runs, every open position that is not a share of a     *)
(* common order is registered with the monitor.                             *)
WatchedUntilClosed == up => \A t \in Trades \ Virtual : active[t] # None => t \in monitored

(* The summary never includes more than was booked, and misses at most what *)
(* was booked while a snapshot waited for prices.                           *)
SummaryLosesLittle == \A t \in Trades : booked[t] - risked[t] <= summary[t] /\ summary[t] <= booked[t]

(* Read by itself: "the snapshot tracks realized" profit, so that the       *)
(* summary includes every close exactly as it was booked.                   *)
SummaryAgrees == summary = booked

(* The registration of a trade that is gone is removed in the end, also     *)
(* when the close that should have done it failed or died, as long as the   *)
(* task of the monitor lives.                                               *)
WatchEnds == \A t \in Trades : (t \in monitored /\ active[t] = None) ~> (t \notin monitored \/ ~loop)

(* A process that died comes back, even if it left the lock of a close.     *)
RestartCompletes == ~up ~> up

(* Closes, ticks, crashes and restarts implement a position that is only    *)
(* ever reduced, each unit booked once, unless a start forgets the rest.    *)
Abstract == INSTANCE Position WITH
    left <- [t \in Trades |-> IF t \in opened THEN Left(t) ELSE Quantity + 1]
ImplementsPosition == Abstract!Spec

-----------------------------------------------------------------------------
(* "Confirm restart recovery for active trades": a start closes nothing.    *)
RestartKeepsPositions == [][~up => booked' = booked]_vars
=============================================================================
