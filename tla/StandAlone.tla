------------------------------- MODULE StandAlone -------------------------------
(***************************************************************************)
(* The stand-alone trading service (src/backend/main.py): signals judged in *)
(* the threads of the web server (api/signal.py), one SQLite table of       *)
(* trades, and two tasks of the event loop that close what is open: the     *)
(* monitor (engine/monitor_engine.py) and the broker synchronisation        *)
(* (engine/sync_engine.py).                                                 *)
(*                                                                         *)
(* A request is a BUY, numbered as it arrives; its row has its number.  The *)
(* broker is the PaperBroker, kept in memory, or a venue behind the         *)
(* BrokerAdapter interface, which remembers its orders and closes positions *)
(* itself.  Prices are a few levels, slippage and tick are 1.               *)
(***************************************************************************)
EXTENDS Integers, SequencesExt

CONSTANTS
    Requests, Symbols, SymbolOf, StrategyOf,
    OrphanOf,                 \* the row for an attached position of a symbol
    Prices, Entry, StopLevel, TargetLevel,   \* price levels; the exits of every trade
    Published, FillPrices,    \* bound: prices a client posts, and a venue closes at
    Seeds, SeedPnl,           \* closed rows the table starts with, oldest first, and their pnl
    MaxOpen, MaxLosses,                      \* limits of execution and risk engine
    LastN, Window, MinHistory, Weak, MinConfidence,   \* of the meta engine, in basis points
    Passes,                   \* "loop": the task; others: POST /api/price or /api/monitor/run
    Pool,                     \* threads of the server
    Served,                   \* bound: requests with either broker
    Venues,                   \* which brokers: "paper", "venue"
    Attach,                   \* attach_orphan_positions
    DbMayLock                 \* the database may be locked when it is read or written

ASSUME StandAloneAssumption ==
    /\ Requests \subseteq Nat \ {0}
    /\ Prices \subseteq Nat \ {0} /\ Published \subseteq Prices /\ FillPrices \subseteq Prices /\ Entry \in Nat
    /\ 1 < StopLevel /\ StopLevel < Entry /\ Entry < TargetLevel
    /\ StopLevel \in Nat /\ TargetLevel \in Nat
    /\ IsFiniteSet(Requests) /\ IsFiniteSet(Symbols) /\ Seeds \in Seq(Nat)
    /\ Requests \cap (ToSet(Seeds) \cup {OrphanOf[s] : s \in Symbols}) = {}   \* a row has one number
    /\ MaxOpen \in Nat \ {0} /\ Pool \in Nat \ {0} /\ MaxLosses \in Nat \ {0}
    /\ SymbolOf \in [Requests -> Symbols] /\ \A t \in ToSet(Seeds) : SeedPnl[t] \in Int
    /\ MinConfidence \in Int
    /\ Venues \subseteq {"paper", "venue"} /\ {Attach, DbMayLock} \subseteq BOOLEAN

VARIABLES
    venue,       \* the configured broker
    thread,      \* where the thread that answers a request is
    row,         \* the trades table: status, broker_order_id, exit_price, close_reason
    created,     \* the rows in the order of created_at
    closings,    \* the closed rows in the order of closed_at
    cooling,     \* the last executed trade is younger than the cooldown
    held,        \* the broker's open positions: symbol -> the order behind it
    orders,      \* the orders the broker knows: order -> avgPrice
    sync,        \* the positions a synchronisation has read, and whether one is under way
    pass,        \* a pass of the monitor: the trades and manual prices it took
    manual,      \* MarketPriceStore
    alive        \* the monitor's task is running

saVars == <<venue, thread, row, created, closings, cooling, held, orders, sync, pass, manual, alive>>
tableVars == <<row, created, closings>>
brokerVars == <<venue, held, orders>>
loopVars == <<sync, pass, manual, alive>>

NoTrade == 0                        \* no position on this symbol
NoPrice == 0
Rows    == Requests \cup ToSet(Seeds) \cup {OrphanOf[s] : s \in Symbols}
Tracked(t) == t \in Requests        \* rows with a stop and a target
SymbolOfRow(t) == IF t \in Requests THEN SymbolOf[t] ELSE CHOOSE s \in Symbols : OrphanOf[s] = t

Blank  == [status |-> "none", order |-> NoTrade, exit |-> NoPrice, reason |-> ""]
Idle   == [on |-> FALSE, held |-> [s \in Symbols |-> NoTrade]]
NoPass == [on |-> FALSE, trades |-> {}, price |-> [s \in Symbols |-> NoPrice]]

OpenRows == {t \in Rows : row[t].status = "open"}

Pnl(t) == IF t \in ToSet(Seeds) THEN SeedPnl[t]
          ELSE IF row[t].status = "closed" THEN row[t].exit - Entry ELSE 0

SaTypeOK ==
    /\ venue \in Venues
    /\ thread \in [Requests -> {"new", "judged", "ordered", "done", "failed", "lost"}]
    /\ \A t \in Rows : /\ row[t].status \in {"none", "rejected", "open", "closed"}
                       /\ row[t].order \in Requests \cup {NoTrade}
                       /\ row[t].exit \in Nat
                       /\ row[t].reason \in {"", "sl", "tp", "broker_fill"}
    /\ created \in Seq(Rows) /\ closings \in Seq(Rows)
    /\ cooling \in BOOLEAN
    /\ held \in [Symbols -> Requests \cup {NoTrade}]
    /\ DOMAIN orders \subseteq Requests
    /\ sync.on \in BOOLEAN /\ sync.held \in [Symbols -> Requests \cup {NoTrade}]
    /\ \A p \in Passes : /\ pass[p].on \in BOOLEAN /\ pass[p].trades \subseteq Rows
                         /\ pass[p].price \in [Symbols -> Prices \cup {NoPrice}]
    /\ manual \in [Symbols -> Prices \cup {NoPrice}]
    /\ alive \in BOOLEAN

SaInit ==
    /\ venue \in Venues
    /\ thread = [r \in Requests |-> "new"]
    /\ row = [t \in Rows |-> IF t \in ToSet(Seeds) THEN [Blank EXCEPT !.status = "closed"] ELSE Blank]
    /\ created = Seeds /\ closings = Seeds
    /\ cooling = FALSE
    /\ held = [s \in Symbols |-> NoTrade] /\ orders = <<>>
    /\ sync = Idle
    /\ pass = [p \in Passes |-> NoPass]
    /\ manual = [s \in Symbols |-> NoPrice]
    /\ alive = TRUE

-----------------------------------------------------------------------------
(* The meta engine: a strategy is scored by the outcomes among its newest   *)
(* LastN rows.  Rows without an outcome (open, rejected) take a place too.   *)
(* A row is spoken of by its place in the order of created.                 *)

Newest(places, n) == {i \in places : Cardinality({j \in places : j >= i}) <= n}
Gained(S) == MapThenSumSet(LAMBDA t : Pnl(t), S)

Outcomes(strategy) ==
    LET mine == {i \in DOMAIN created : created[i] \in DOMAIN StrategyOf /\ StrategyOf[created[i]] = strategy}
    IN  {i \in Newest(mine, LastN) : row[created[i]].status = "closed" /\ Pnl(created[i]) # 0}

(* _stats over a set of rows, in basis points *)
Share(part, S) == IF S = {} THEN 0 ELSE (10000 * Cardinality(part)) \div Cardinality(S)
WinRate(S)     == Share({t \in S : Pnl(t) > 0}, S)
LossRate(S)    == Share({t \in S : Pnl(t) < 0}, S)
ProfitFactor(S) ==
    LET gained == Gained({t \in S : Pnl(t) > 0})
        lost   == 0 - Gained({t \in S : Pnl(t) < 0})
    IN  IF lost = 0 THEN gained * 10000 ELSE (gained * 10000) \div lost

Score(strategy) ==
    LET all      == Outcomes(strategy)
        recent   == {created[i] : i \in Newest(all, Window)}
        older    == {created[i] : i \in all} \ recent
        momentum == WinRate(recent) - WinRate(older)
    IN  (5 * WinRate(recent) + 3 * ProfitFactor(recent) + 2 * momentum - 2 * LossRate(recent)) \div 10

Total(strategy) == Cardinality(Outcomes(strategy))
(* Mutant: no history counts as full confidence. *)
ConfidenceByDefault(strategy) == IF Total(strategy) = 0 THEN 10000 ELSE Score(strategy)

Confidence(strategy) == LET s == Score(strategy) IN IF s < 0 THEN 0 ELSE IF s > 10000 THEN 10000 ELSE s

Strategies == {StrategyOf[t] : t \in DOMAIN StrategyOf}
Best(strategy) ==
    /\ Score(strategy) > Weak /\ Score(strategy) >= 0
    /\ \A other \in Strategies : Score(other) <= Score(strategy)

MetaApproves(strategy) ==
    /\ Score(strategy) >= 0
    /\ \/ Best(strategy)
       \/ Total(strategy) < MinHistory /\ \A other \in Strategies : Score(other) <= Weak

-----------------------------------------------------------------------------
(* The risk engine and the execution engine's gate *)

Streak == Max({n \in 0..Len(closings) :
                 \A i \in (Len(closings) - n + 1)..Len(closings) : Pnl(closings[i]) < 0})

(* The other limits of evaluate_signal (the day's loss, the risk of the     *)
(* trade) may reject as well: Judge.                                        *)

RiskApproves == ~(Streak >= MaxLosses)

(* Mutant: the limit itself is let through. *)
CanTradeAtLimit == ~cooling /\ Cardinality(OpenRows) <= MaxOpen

CanTrade == ~cooling /\ Cardinality(OpenRows) < MaxOpen

(* log_trade of a rejection or of an executed trade *)
LogRow(t, record) ==
    /\ row' = [row EXCEPT ![t] = record]
    /\ created' = Append(created, t)

Reject(r) ==
    /\ LogRow(r, [Blank EXCEPT !.status = "rejected"])
    /\ thread' = [thread EXCEPT ![r] = "done"]
    /\ UNCHANGED closings

-----------------------------------------------------------------------------
(* receive_signal, in a thread of the server's pool *)

Running == {r \in Requests : thread[r] \in {"judged", "ordered"}}

(* MetaEngine, RiskEngine and execution_rejection_reason, whose last part   *)
(* is repeated below.                                                       *)

Judge(r) ==
    /\ thread[r] = "new" /\ \A q \in Requests : q < r => thread[q] # "new"
    /\ r <= Served[venue]
    /\ Cardinality(Running) < Pool
    /\ \/ /\ MetaApproves(StrategyOf[r]) /\ RiskApproves
          /\ Confidence(StrategyOf[r]) >= MinConfidence /\ CanTrade
          /\ thread' = [thread EXCEPT ![r] = "judged"]
          /\ UNCHANGED tableVars
       \/ Reject(r)
    /\ UNCHANGED <<brokerVars, cooling, loopVars>>

(* broker.place_order.  The PaperBroker's fill has an avgPrice of 0; a      *)
(* position of the same symbol is overwritten.  A venue may answer "sent".  *)
PlaceOrder(r) ==
    /\ held' = [held EXCEPT ![SymbolOf[r]] = r]
    /\ orders' = [o \in DOMAIN orders \cup {r} |->
                    IF o # r THEN orders[o] ELSE IF venue = "paper" THEN NoPrice ELSE Entry]
    /\ \/ thread' = [thread EXCEPT ![r] = "ordered"] /\ UNCHANGED tableVars
       \/ venue = "venue" /\ Reject(r)

(* execute(): the limits are looked at again, and it raises if they are     *)
(* reached now: the client gets a 500, and no row tells of the signal.      *)
Execute(r) ==
    /\ thread[r] = "judged"
    /\ IF CanTrade THEN PlaceOrder(r)
       ELSE thread' = [thread EXCEPT ![r] = "failed"] /\ UNCHANGED <<tableVars, held, orders>>
    /\ UNCHANGED <<venue, cooling, loopVars>>

LogTrade(r) ==
    /\ thread[r] = "ordered"
    /\ LogRow(r, [Blank EXCEPT !.status = "open", !.order = r])
    /\ thread' = [thread EXCEPT ![r] = "done"]
    /\ cooling' = TRUE
    /\ UNCHANGED <<closings, brokerVars, loopVars>>

(* What the thread does next raises, and only a rejection of the broker is  *)
(* caught: the client gets a 500 and no row tells of the signal, although   *)
(* its order may have gone out.  The database is locked when the limits are *)
(* read again or the row is written, or an answer of the venue is lost.     *)
Raises(r) ==
    /\ DbMayLock /\ r \in Running
    /\ thread' = [thread EXCEPT ![r] = IF thread[r] = "ordered" THEN "lost" ELSE "failed"]
    /\ UNCHANGED <<tableVars, brokerVars, cooling, loopVars>>

CooldownOver == cooling /\ cooling' = FALSE
                /\ UNCHANGED <<thread, tableVars, brokerVars, loopVars>>

-----------------------------------------------------------------------------
(* close_trade_at_price on the rows of exits, which gives each its price    *)
(* and reason; a row that is closed already keeps them.                     *)

Closed(t, exits) ==
    [row[t] EXCEPT !.status = "closed", !.exit = exits[t].price, !.reason = exits[t].reason]

(* Mutant: whatever the row says, it is closed with the new price. *)
CloseRowsAgain(exits) ==
    /\ row' = [t \in Rows |-> IF t \in DOMAIN exits THEN Closed(t, exits) ELSE row[t]]
    /\ \E seq \in SetToSeqs(DOMAIN exits) : closings' = closings \o seq

CloseRows(exits) ==
    LET now == {t \in DOMAIN exits : row[t].status # "closed"}
    IN  /\ row' = [t \in Rows |-> IF t \in now THEN Closed(t, exits) ELSE row[t]]
        /\ \E seq \in SetToSeqs(now) : closings' = closings \o seq

-----------------------------------------------------------------------------
(* TradeLifecycleLoop.run_once *)

PublishPrice(s, p) ==
    /\ manual' = [manual EXCEPT ![s] = p]
    /\ UNCHANGED <<thread, tableVars, cooling, brokerVars, sync, pass, alive>>

(* check_exit *)
ExitReason(price) == IF price <= StopLevel THEN "sl"
                     ELSE IF price >= TargetLevel THEN "tp" ELSE ""

(* can_close_on_source: a cached price must be next to the exit it triggers. *)
Closable(quote) ==
    /\ quote.source \notin {"fail", "mismatch"}
    /\ ExitReason(quote.price) # ""
    /\ quote.source = "cache" => quote.price \in {StopLevel, TargetLevel}

(* apply_slippage: a SELL gets a tick less. *)
Sold(price) == price - 1

Sources == {"live", "secondary", "cache", "mismatch", "fail"}
Quotes  == [price : Prices, source : Sources]
Manual(p) == [price |-> p, source |-> "manual"]

(* Mutant: a trade the broker does not know is left out. *)
ExitsOfKnown(trades, quotes) ==
    [t \in {u \in trades : /\ Tracked(u) /\ row[u].order \in DOMAIN orders
                           /\ Closable(quotes[SymbolOfRow(u)])} |->
        LET price == quotes[SymbolOfRow(t)].price
        IN  [price |-> Sold(price), reason |-> ExitReason(price)]]

(* The exits a pass carries out on its copies. *)
(* Mutant: the slippage is taken off twice. *)
ExitsSlippedTwice(trades, quotes) ==
    [t \in {u \in trades : Tracked(u) /\ Closable(quotes[SymbolOfRow(u)])} |->
        LET price == quotes[SymbolOfRow(t)].price
        IN  [price |-> price - 2, reason |-> ExitReason(price)]]

Exits(trades, quotes) ==
    [t \in {u \in trades : Tracked(u) /\ Closable(quotes[SymbolOfRow(u)])} |->
        LET price == quotes[SymbolOfRow(t)].price
        IN  [price |-> Sold(price), reason |-> ExitReason(price)]]

(* The trades and their manual prices are taken; without another symbol to  *)
(* fetch nothing is awaited.                                                *)
StartPass(p) ==
    LET symbols == {SymbolOfRow(t) : t \in OpenRows}
        taken   == [s \in Symbols |-> IF s \in symbols THEN manual[s] ELSE NoPrice]
    IN  /\ ~pass[p].on
        /\ p = "loop" => alive
        /\ OpenRows # {}
        /\ manual' = [s \in Symbols |-> IF s \in symbols THEN NoPrice ELSE manual[s]]
        /\ IF \A s \in symbols : taken[s] # NoPrice
           THEN /\ CloseRows(Exits(OpenRows, [s \in symbols |-> Manual(taken[s])]))
                /\ UNCHANGED pass
           ELSE /\ pass' = [pass EXCEPT ![p] = [on |-> TRUE, trades |-> OpenRows, price |-> taken]]
                /\ UNCHANGED <<row, closings>>
        /\ UNCHANGED <<thread, created, cooling, brokerVars, sync, alive>>

(* The prices have arrived. *)
FinishPass(p, quotes) ==
    /\ pass[p].on
    /\ CloseRows(Exits(pass[p].trades,
                       [s \in Symbols |-> IF pass[p].price[s] # NoPrice THEN Manual(pass[p].price[s])
                                          ELSE quotes[s]]))
    /\ pass' = [pass EXCEPT ![p] = NoPass]
    /\ UNCHANGED <<thread, created, cooling, brokerVars, sync, manual, alive>>

(* run_once raises: _run_loop does not catch it, and the task has ended.    *)
LoopDies ==
    /\ DbMayLock /\ alive
    /\ alive' = FALSE
    /\ pass' = [pass EXCEPT !["loop"] = NoPass]
    /\ UNCHANGED <<thread, tableVars, cooling, brokerVars, sync, manual>>

-----------------------------------------------------------------------------
(* SyncEngine.run_once; threads run between its reads. *)

SyncRead ==
    /\ ~sync.on
    /\ sync' = [on |-> TRUE, held |-> held]
    /\ UNCHANGED <<thread, tableVars, cooling, brokerVars, pass, manual, alive>>

(* _create_orphan_trade for a position without an open row.  The positions  *)
(* of the PaperBroker have no price and are not attached.                   *)
Attached ==
    {s \in Symbols : /\ sync.held[s] # NoTrade /\ Attach /\ venue = "venue"
                     /\ \A t \in OpenRows : SymbolOfRow(t) # s
                     /\ row[OrphanOf[s]].status = "none"}   \* bound: one per symbol

(* A row without a position is closed if the broker knows its order; any    *)
(* other only gets new broker fields, which are left out here.              *)
SyncApply ==
    LET gone   == {t \in OpenRows : sync.held[SymbolOfRow(t)] = NoTrade}
        filled == {t \in gone : row[t].order \in DOMAIN orders}
        exits  == [t \in filled |-> [price |-> orders[row[t].order], reason |-> "broker_fill"]]
    IN  /\ sync.on
        /\ row' = [t \in Rows |->
                     CASE t \in filled -> Closed(t, exits)
                       [] t \in {OrphanOf[s] : s \in Attached} ->
                             [Blank EXCEPT !.status = "open", !.order = sync.held[SymbolOfRow(t)]]
                       [] OTHER -> row[t]]
        /\ \E seq \in SetToSeqs(filled) : closings' = closings \o seq
        /\ \E seq \in SetToSeqs({OrphanOf[s] : s \in Attached}) : created' = created \o seq
        /\ cooling' = (cooling \/ Attached # {})
        /\ sync' = Idle
        /\ UNCHANGED <<thread, brokerVars, pass, manual, alive>>

-----------------------------------------------------------------------------
(* The surroundings *)

(* A venue closes a position: its order has the price of that. *)
VenueCloses(s, p) ==
    /\ venue = "venue" /\ held[s] # NoTrade
    /\ orders' = [orders EXCEPT ![held[s]] = p]
    /\ held' = [held EXCEPT ![s] = NoTrade]
    /\ UNCHANGED <<venue, thread, tableVars, cooling, loopVars>>

(* The process dies and starts again.  The table stays; a PaperBroker's     *)
(* orders and positions do not.                                             *)
Restart ==
    /\ thread' = [r \in Requests |-> IF thread[r] \in {"new", "done", "failed"} THEN thread[r] ELSE "lost"]
    /\ IF venue = "paper" THEN held' = [s \in Symbols |-> NoTrade] /\ orders' = <<>>
       ELSE UNCHANGED <<held, orders>>
    /\ sync' = Idle
    /\ pass' = [p \in Passes |-> NoPass]
    /\ manual' = [s \in Symbols |-> NoPrice]
    /\ alive' = TRUE
    /\ UNCHANGED <<venue, tableVars, cooling>>

SaNext ==
    \/ \E r \in Requests : Judge(r) \/ Execute(r) \/ LogTrade(r) \/ Raises(r)
    \/ CooldownOver
    \/ \E s \in Symbols, p \in Published : PublishPrice(s, p)
    \/ \E s \in Symbols, p \in FillPrices : VenueCloses(s, p)
    \/ \E p \in Passes : StartPass(p) \/ \E quotes \in [Symbols -> Quotes] : FinishPass(p, quotes)
    \/ LoopDies \/ SyncRead \/ SyncApply \/ Restart

(* The task of the monitor runs, and again and again one of its passes is   *)
(* given a price beyond an exit for every symbol.                           *)
Triggered == {quotes \in [Symbols -> Quotes] : \A s \in Symbols : Closable(quotes[s])}

SaFairness ==
    /\ WF_saVars(StartPass("loop"))
    /\ SF_saVars(\E quotes \in Triggered : FinishPass("loop", quotes))

SaSpec == SaInit /\ [][SaNext]_saVars /\ SaFairness

-----------------------------------------------------------------------------
(* What the service promises *)

(* Threads that checked at the same time, each before the others' trades    *)
(* are in the table, exceed max_open_trades by what the pool allows and no  *)
(* more.                                                                    *)
OpenTradesBound ==
    Cardinality(OpenRows \cap Requests) + Cardinality({r \in Requests : thread[r] = "ordered"})
        <= MaxOpen + Pool - 1

(* However passes of the monitor and synchronisations overlap, a closed     *)
(* trade keeps the price and the reason it was closed with, and stays       *)
(* closed.                                                                  *)
OutcomeIsFinal ==
    [][\A t \in Rows : row[t].status = "closed" =>
          /\ row'[t].status = "closed"
          /\ row'[t].exit = row[t].exit /\ row'[t].reason = row[t].reason]_saVars

(* What stands at the broker has a row, or a thread that is about to write  *)
(* it, or belongs to a request that was cut off after its order went out:   *)
(* the process died, the venue's answer was lost, or the database refused   *)
(* the row.  A request that fails at the limits, which are looked at twice, *)
(* or before them, has bought nothing, and one that was answered is known.  *)
PositionsAccounted ==
    \A s \in Symbols : held[s] # NoTrade =>
        \/ thread[held[s]] \in {"ordered", "lost"}
        \/ thread[held[s]] = "done" /\ row[held[s]].status # "none"

(* At most so many trades in the table and on their way into it, and no      *)
(* position that neither they nor a cut-off request explain.                 *)
ExposureKnown == OpenTradesBound /\ PositionsAccounted

(* Three losses in a row with nothing open end the trading of the whole     *)
(* service for good: only a close can end the streak.                       *)
LockedOut ==
    /\ Streak >= MaxLosses /\ OpenRows = {} /\ Running = {}
    /\ \A s \in Symbols : held[s] = NoTrade /\ sync.held[s] = NoTrade  \* nothing to attach

LockoutIsFinal == [][LockedOut => LockedOut']_saVars

(* A strategy without a decided trade among its newest rows is approved by  *)
(* the meta engine to get it started, and then always rejected for its      *)
(* confidence of zero.                                                      *)
UnprovenNeverTrades ==
    [][\A r \in Requests : thread[r] = "new" /\ thread'[r] = "judged"
          => Total(StrategyOf[r]) > 0 /\ Score(StrategyOf[r]) >= MinConfidence]_saVars

(* What history forbids stays forbidden.                                    *)
HistoryDecides == LockoutIsFinal /\ UnprovenNeverTrades

(* A trade with a stop and a target is closed, whatever the broker has      *)
(* forgotten of it, as long as the monitor's task lives.                    *)
TradesAreClosed == \A r \in Requests : []<>(row[r].status = "open" => ~alive)

-----------------------------------------------------------------------------
(* "test_sync_engine_reflects_manual_broker_close": a synchronisation       *)
(* closes a trade whose position the broker has closed.                     *)
SyncClosesTheClosed ==
    [][\A r \in Requests : row[r].status = "open" /\ row'[r].status = "closed" /\ row'[r].reason = "broker_fill"
          => held[SymbolOf[r]] # r]_saVars
=============================================================================
