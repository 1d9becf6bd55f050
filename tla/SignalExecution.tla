--------------------------- MODULE SignalExecution ---------------------------
(***************************************************************************)
(* The path of a trade request through TradingOrchestrator.execute_signal  *)
(* (backend/app/services/trading_orchestrator.py): the claim of its signal *)
(* id in the shared cache, the gates that read the portfolio, the order,   *)
(* and the chain of writes that records the new trade.                     *)
(*                                                                         *)
(* A request runs on an event loop: it can be overtaken wherever the code  *)
(* awaits, so there is one step per stretch of code between two awaits.    *)
(* The claim is cut once more, between its lookups and its SET NX, because *)
(* the chart deploys several replicas over one cache.  Between the order   *)
(* and the answer there is no await: a failure or a crash in that stretch  *)
(* leaves a prefix of the writes behind, and the stages name the prefixes.  *)
(*                                                                         *)
(* One user is modelled, since every gate and ledger is per user.          *)
(***************************************************************************)
EXTENDS Integers, FiniteSets

CONSTANTS
    Requests,      \* slots for requests being served at the same time
    Signals,       \* signal ids
    NoSignal,      \* the signal id of a request sent without one
    Trades,        \* order ids, which are also the trade ids
    None,          \* an absent cache key
    Symbols,
    SymbolOf,      \* the symbol a signal is about
    MaxActive,     \* settings.max_active_trades
    MaxPolls,      \* bound: polls of a duplicate before it gives up (5 in the code)
    MaxWindow,     \* bound: times the lock of a signal may expire
    StoreOn,       \* a Firestore client is configured
    StoreMayFail,  \* its writes may raise
    AnswerMayBreak,\* the call of the exchange may raise after the order was executed
    CrashOn        \* the process serving a request may die

ASSUME ConstantsAssumption ==
    /\ NoSignal \notin Signals
    /\ None \notin Trades \cup Signals \cup {NoSignal}
    /\ Trades \cap {"IGNORED", "REJECTED", "ERROR", "LOST"} = {}
    /\ SymbolOf \in [Signals \cup {NoSignal} -> Symbols]
    /\ MaxActive \in Nat \ {0}
    /\ MaxPolls \in Nat
    /\ MaxWindow \in Nat
    /\ StoreOn \in BOOLEAN /\ StoreMayFail \in BOOLEAN
    /\ AnswerMayBreak \in BOOLEAN /\ CrashOn \in BOOLEAN

VARIABLES
    pc, sig, polls, seen, reply,     \* the requests
    lock,          \* signal:lock:<s>
    response,      \* signal:response:<s>
    signalTrade,   \* signal_trade:<s>
    active,        \* active_trade:<t>
    index,         \* the user's active index in the portfolio ledger
    activeCount,   \* position:active_count
    recorded,      \* how far the writes of a trade got
    halted,        \* emergency stop, or drawdown state PAUSED or COOLDOWN
    openedBy,      \* history: the signal each order was placed for
    openedIn,      \* history: the dedup window it was placed in, if the request took note of it
    window         \* history: expirations of a signal's lock so far

reqVars    == <<pc, sig, polls, seen, reply>>
dedupVars  == <<lock, response, signalTrade, window>>
ledgerVars == <<active, index, activeCount>>
orderVars  == <<recorded, openedBy, openedIn>>
vars == <<reqVars, dedupVars, ledgerVars, orderVars, halted>>

Ids      == Signals \cup {NoSignal}
Holding  == {"claimed", "gated", "profiled", "checked"}
Pcs      == {"idle", "unclaimed", "polling", "done"} \cup Holding
Verdicts == {"IGNORED", "REJECTED", "ERROR", "LOST"}

(* The writes that follow an order, in their order. *)
Ordered   == 0   \* the order was executed, nothing is written
Opening   == 1   \* _persist_opening_recovery_state
Responded == 2   \* _persist_active_trade_details, _store_signal_response
Stored    == 3   \* firestore.save_trade
Booked    == 4   \* portfolio_ledger.record_trade_open, position:active_count
Stages == Ordered..Booked

(* The window of an order that its request failed to take note of.          *)
Unnoted == -1

TypeOK ==
    /\ pc \in [Requests -> Pcs]
    /\ sig \in [Requests -> Ids]
    /\ \A r \in Requests : pc[r] \in {"unclaimed", "polling"} => sig[r] \in Signals
    /\ polls \in [Requests -> 0..MaxPolls]
    /\ seen \in [Requests -> SUBSET Trades]
    /\ reply \in [Requests -> Trades \cup Verdicts \cup {None}]
    /\ lock \in SUBSET Signals
    /\ response \in [Signals -> Trades \cup {None}]
    /\ signalTrade \in [Signals -> Trades \cup {None}]
    /\ active \in SUBSET Trades
    /\ index \in SUBSET Trades
    /\ activeCount \in Nat
    /\ recorded \in [Trades -> Stages]
    /\ halted \in BOOLEAN
    /\ openedBy \in [Trades -> Ids \cup {None}]
    /\ openedIn \in [Trades -> Unnoted..MaxWindow]
    /\ window \in [Ids -> 0..MaxWindow]

Init ==
    /\ pc = [r \in Requests |-> "idle"]
    /\ sig = [r \in Requests |-> NoSignal]
    /\ polls = [r \in Requests |-> 0]
    /\ seen = [r \in Requests |-> {}]
    /\ reply = [r \in Requests |-> None]
    /\ lock = {}
    /\ response = [s \in Signals |-> None]
    /\ signalTrade = [s \in Signals |-> None]
    /\ active = {} /\ index = {} /\ activeCount = 0
    /\ recorded = [t \in Trades |-> Ordered]
    /\ halted = FALSE
    /\ openedBy = [t \in Trades |-> None]
    /\ openedIn = [t \in Trades |-> 0]
    /\ window = [s \in Ids |-> 0]

-----------------------------------------------------------------------------
(* Answering *)

Finish(r, answer) ==
    /\ pc' = [pc EXCEPT ![r] = "done"]
    /\ reply' = [reply EXCEPT ![r] = answer]
    /\ seen' = [seen EXCEPT ![r] = {}]
    /\ polls' = [polls EXCEPT ![r] = 0]
    /\ UNCHANGED sig

Goto(r, where) ==
    /\ pc' = [pc EXCEPT ![r] = where]
    /\ UNCHANGED <<sig, polls, seen, reply>>

Documents == {t \in Trades : recorded[t] >= Stored}

(* Mutant: the query forgets its filter on the signal. *)
StoredForAnySignal(s) == IF StoreOn THEN Documents ELSE {}

StoredFor(s) == IF StoreOn THEN {t \in Documents : openedBy[t] = s} ELSE {}

(* Mutant: Firestore is not asked. *)
KnownForInCache(s) ==
    IF response[s] # None THEN {response[s]}
    ELSE IF signalTrade[s] \in active THEN {signalTrade[s]} ELSE {}

(* The trades a lookup of s may answer with: the cached response, else the  *)
(* active trade the signal maps to, else a stored document.                 *)
KnownFor(s) ==
    IF response[s] # None THEN {response[s]}
    ELSE IF signalTrade[s] \in active THEN {signalTrade[s]}
    ELSE StoredFor(s)

AnswerFromRecord(r, s) ==
    \E t \in KnownFor(s) :
        /\ response' = [response EXCEPT ![s] = t]
        /\ Finish(r, t)
        /\ UNCHANGED <<lock, signalTrade, window>>

(* A request arrives, in a free slot.  Without a signal id there is nothing *)
(* to claim; with one, the lookups of _claim_signal come first.             *)
Arrive(r, s, where) ==
    /\ sig' = [sig EXCEPT ![r] = s]
    /\ pc' = [pc EXCEPT ![r] = where]
    /\ reply' = [reply EXCEPT ![r] = None]
    /\ UNCHANGED <<polls, seen, dedupVars, ledgerVars, orderVars, halted>>

Start(r) ==
    /\ pc[r] \in {"idle", "done"}
    /\ \/ Arrive(r, NoSignal, "claimed")
       \/ \E s \in Signals : KnownFor(s) = {} /\ Arrive(r, s, "unclaimed")

StartDuplicate(r) ==
    /\ pc[r] \in {"idle", "done"}
    /\ \E s \in Signals, t \in Trades :
          /\ t \in KnownFor(s)
          /\ response' = [response EXCEPT ![s] = t]
          /\ sig' = [sig EXCEPT ![r] = s]
          /\ pc' = [pc EXCEPT ![r] = "done"]
          /\ reply' = [reply EXCEPT ![r] = t]
    /\ UNCHANGED <<polls, seen, lock, signalTrade, window, ledgerVars, orderVars, halted>>

(* SET NX on the lock, ttl signal_dedup_ttl_seconds. *)
Claim(r) ==
    /\ pc[r] = "unclaimed"
    /\ IF sig[r] \in lock
       THEN Goto(r, "polling") /\ UNCHANGED lock
       ELSE Goto(r, "claimed") /\ lock' = lock \cup {sig[r]}
    /\ UNCHANGED <<response, signalTrade, window, ledgerVars, orderVars, halted>>

(* One turn of the wait of a request whose signal another one holds. *)
Poll(r) ==
    /\ pc[r] = "polling"
    /\ polls[r] < MaxPolls
    /\ \/ AnswerFromRecord(r, sig[r])
       \/ /\ KnownFor(sig[r]) = {}
          /\ polls' = [polls EXCEPT ![r] = @ + 1]
          /\ UNCHANGED <<pc, sig, seen, reply, dedupVars>>
    /\ UNCHANGED <<ledgerVars, orderVars, halted>>

(* Mutants: the request that waited long enough takes the signal over, or   *)
(* waits as long as the lock is there.                                      *)
GiveUpByTakingOver(r) ==
    /\ pc[r] = "polling"
    /\ polls[r] = MaxPolls
    /\ Goto(r, "claimed")
    /\ UNCHANGED <<dedupVars, ledgerVars, orderVars, halted>>

GiveUpNever(r) ==
    /\ pc[r] = "polling"
    /\ polls[r] = MaxPolls
    /\ polls' = [polls EXCEPT ![r] = 0]
    /\ UNCHANGED <<pc, sig, seen, reply, dedupVars, ledgerVars, orderVars, halted>>

GiveUp(r) ==
    /\ pc[r] = "polling"
    /\ polls[r] = MaxPolls
    /\ Finish(r, "IGNORED")
    /\ UNCHANGED <<dedupVars, ledgerVars, orderVars, halted>>

-----------------------------------------------------------------------------
(* The gates *)

(* After the price: drawdown state and emergency stop are read once, here. *)
PassProtection(r) ==
    /\ pc[r] = "claimed"
    /\ ~halted
    /\ Goto(r, "gated")
    /\ UNCHANGED <<dedupVars, ledgerVars, orderVars, halted>>

(* _load_active_trades: the indexed trades still in the cache; when there   *)
(* are none, every active trade.  The index is rewritten to what was found. *)
Visible ==
    LET indexed == index \cap active
    IN  IF indexed # {} THEN indexed ELSE active

(* After the order book: the portfolio is read, then correlated over awaits. *)
ReadPortfolio(r) ==
    /\ pc[r] = "gated"
    /\ seen' = [seen EXCEPT ![r] = Visible]
    /\ index' = Visible
    /\ pc' = [pc EXCEPT ![r] = "profiled"]
    /\ UNCHANGED <<sig, polls, reply, active, activeCount, dedupVars, orderVars, halted>>

(* A trade without its details has no notional, hence no exposure. *)
Exposure(trades) == {SymbolOf[openedBy[t]] : t \in {u \in trades : recorded[u] >= Responded}}

(* Mutant: one trade more than the limit. *)
HasRoomInclusive(trades, symbol) ==
    /\ Cardinality(trades) <= MaxActive
    /\ symbol \notin Exposure(trades)

HasRoom(trades, symbol) ==
    /\ Cardinality(trades) < MaxActive
    /\ symbol \notin Exposure(trades)

(* The limits are checked against what was read. *)
CheckLimits(r) ==
    /\ pc[r] = "profiled"
    /\ HasRoom(seen[r], SymbolOf[sig[r]])
    /\ Goto(r, "checked")
    /\ UNCHANGED <<dedupVars, ledgerVars, orderVars, halted>>

(* Mutant: a rejected request keeps the lock. *)
RejectKeepingLock(r) ==
    /\ pc[r] \in Holding
    /\ Finish(r, "REJECTED")
    /\ UNCHANGED <<dedupVars, ledgerVars, orderVars, halted>>

(* Any gate, a failing market data call or a refused order raises: the     *)
(* handler gives the signal back, since it knows of no order.              *)
Reject(r) ==
    /\ pc[r] \in Holding
    /\ lock' = lock \ {sig[r]}
    /\ Finish(r, "REJECTED")
    /\ UNCHANGED <<response, signalTrade, window, ledgerVars, orderVars, halted>>

-----------------------------------------------------------------------------
(* The order and what is written after it *)

Record(s, t, upTo) ==
    /\ openedBy' = [openedBy EXCEPT ![t] = s]
    /\ openedIn' = [openedIn EXCEPT ![t] = window[s]]
    /\ active' = IF upTo >= Opening THEN active \cup {t} ELSE active
    /\ signalTrade' = IF upTo >= Opening /\ s # NoSignal
                      THEN [signalTrade EXCEPT ![s] = t] ELSE signalTrade
    /\ response' = IF upTo >= Responded /\ s # NoSignal
                   THEN [response EXCEPT ![s] = t] ELSE response
    /\ recorded' = [recorded EXCEPT ![t] = upTo]
    /\ index' = IF upTo = Booked THEN index \cup {t} ELSE index
    /\ activeCount' = IF upTo = Booked THEN activeCount + 1 ELSE activeCount
    /\ UNCHANGED <<lock, window, halted>>

Fresh(t) == openedBy[t] = None

(* The order was executed, and the call raises all the same, or reading its *)
(* answer does (an answer without fills): order_submitted is not set yet,   *)
(* and the handler gives the signal back.                                   *)
LoseOrder(r) ==
    /\ AnswerMayBreak
    /\ pc[r] = "checked"
    /\ \E t \in Trades :
          /\ Fresh(t)
          /\ openedBy' = [openedBy EXCEPT ![t] = sig[r]]
          /\ openedIn' = [openedIn EXCEPT ![t] = Unnoted]
          /\ recorded' = [recorded EXCEPT ![t] = Ordered]
    /\ lock' = lock \ {sig[r]}
    /\ Finish(r, "REJECTED")
    /\ UNCHANGED <<response, signalTrade, window, ledgerVars, halted>>

Execute(r) ==
    /\ pc[r] = "checked"
    /\ \E t \in Trades :
          Fresh(t) /\ Record(sig[r], t, Booked) /\ Finish(r, t)

(* save_trade raises, or the training sample or the tax record after it;    *)
(* an order was submitted, so the signal stays claimed.                     *)
FailAfterOrder(r) ==
    /\ StoreMayFail
    /\ pc[r] = "checked"
    /\ \E t \in Trades, upTo \in {Responded, Stored} :
          Fresh(t) /\ Record(sig[r], t, upTo) /\ Finish(r, "ERROR")

(* The process dies: before the order nothing was recorded, after it any    *)
(* prefix of the writes was.                                                *)
Crash(r) ==
    /\ CrashOn
    /\ \/ /\ pc[r] \notin {"idle", "done"}
          /\ UNCHANGED <<dedupVars, ledgerVars, orderVars, halted>>
       \/ /\ pc[r] = "checked"
          /\ \E t \in Trades, upTo \in Ordered..Stored :
                Fresh(t) /\ Record(sig[r], t, upTo)
    /\ Finish(r, "LOST")

-----------------------------------------------------------------------------
(* Around the requests *)

(* Mutants: the counter is lowered below zero, or not at all. *)
CloseTradeUnclamped(t) ==
    /\ t \in active
    /\ active' = active \ {t}
    /\ index' = index \ {t}
    /\ activeCount' = activeCount - 1
    /\ UNCHANGED <<reqVars, dedupVars, orderVars, halted>>

CloseTradeUncounted(t) ==
    /\ t \in active
    /\ active' = active \ {t}
    /\ index' = index \ {t}
    /\ UNCHANGED <<reqVars, dedupVars, orderVars, halted, activeCount>>

(* A full close, as close_trade_position leaves the shared state. *)
CloseTrade(t) ==
    /\ t \in active
    /\ active' = active \ {t}
    /\ index' = index \ {t}
    /\ activeCount' = IF activeCount > 0 THEN activeCount - 1 ELSE 0
    /\ UNCHANGED <<reqVars, dedupVars, orderVars, halted>>

(* update_active_trade_state, as the monitor calls it for a trade it looks  *)
(* at: the signal maps to the trade again.  A tick that overlaps a close is *)
(* the matter of PositionLifecycle.                                         *)
MonitorTick(t) ==
    /\ t \in active
    /\ recorded[t] >= Responded
    /\ openedBy[t] \in Signals
    /\ signalTrade' = [signalTrade EXCEPT ![openedBy[t]] = t]
    /\ UNCHANGED <<reqVars, lock, response, window, ledgerVars, orderVars, halted>>

SetHalted(on) ==
    /\ halted' = on
    /\ UNCHANGED <<reqVars, dedupVars, ledgerVars, orderVars>>

(* A request takes far less than the dedup ttl: the keys of a signal expire *)
(* only while none of its requests is being served.  The lock is set before *)
(* the other two and has the shortest ttl, so it is the first to go.        *)
Quiet(s) == \A r \in Requests : pc[r] \in {"idle", "done"} \/ sig[r] # s

ExpireLock(s) ==
    /\ Quiet(s)
    /\ s \in lock
    /\ window[s] < MaxWindow
    /\ lock' = lock \ {s}
    /\ window' = [window EXCEPT ![s] = @ + 1]
    /\ UNCHANGED <<response, signalTrade, reqVars, ledgerVars, orderVars, halted>>

ExpireRecord(s) ==
    /\ Quiet(s)
    /\ s \notin lock
    /\ \/ /\ response[s] # None
          /\ response' = [response EXCEPT ![s] = None]
          /\ UNCHANGED signalTrade
       \/ /\ signalTrade[s] # None
          /\ signalTrade' = [signalTrade EXCEPT ![s] = None]
          /\ UNCHANGED response
    /\ UNCHANGED <<lock, window, reqVars, ledgerVars, orderVars, halted>>

Serve(r) ==
    \/ Claim(r) \/ Poll(r) \/ GiveUp(r)
    \/ PassProtection(r) \/ ReadPortfolio(r) \/ CheckLimits(r) \/ Reject(r)
    \/ LoseOrder(r) \/ Execute(r) \/ FailAfterOrder(r)

Next ==
    \/ \E r \in Requests : Start(r) \/ StartDuplicate(r) \/ Serve(r) \/ Crash(r)
    \/ \E t \in Trades : CloseTrade(t) \/ MonitorTick(t)
    \/ \E s \in Signals : ExpireLock(s) \/ ExpireRecord(s)
    \/ \E on \in BOOLEAN : SetHalted(on)

(* The event loop keeps running the requests it has accepted.  Whether one  *)
(* passes a gate, new requests, closes and expirations are up to the world. *)
Fairness == \A r \in Requests : WF_vars(Serve(r))

Spec == Init /\ [][Next]_vars /\ Fairness

-----------------------------------------------------------------------------
(* What the path promises *)

Opened == {t \in Trades : openedBy[t] # None}

(* The orders of this window that their requests took note of.              *)
CurrentTrades(s) == {t \in Trades : openedBy[t] = s /\ openedIn[t] = window[s]}

(* While the lock of a signal has not expired, the signal is executed at    *)
(* most once, whatever the requests, failures and crashes around it: not    *)
(* counting an order whose answer raised before the request took note of    *)
(* it, after which the code gives the signal to the next request.           *)
OneTradePerWindow ==
    \A s \in Signals : \A t, u \in CurrentTrades(s) : t = u

(* No two requests are past the claim of one signal: SET NX and the delete  *)
(* in the error handler hand a signal from one request to the next.         *)
SingleExecutor ==
    \A q, r \in Requests :
        pc[q] \in Holding /\ pc[r] \in Holding /\ sig[q] = sig[r] /\ sig[q] # NoSignal
        => q = r

(* A request is never answered with the trade of another signal.            *)
RepliesNameOwnTrade ==
    \A r \in Requests :
        pc[r] = "done" /\ reply[r] \in Trades => openedBy[reply[r]] = sig[r]

(* Unless a process died, a signal that is locked is being executed or has  *)
(* been: a rejected request never leaves its signal blocked for the ttl.    *)
LockAccountedFor ==
    \A s \in lock :
        \/ \E r \in Requests : pc[r] \in Holding /\ sig[r] = s
        \/ CurrentTrades(s) # {}

(* With Firestore the trade document outlives every cache key: a signal     *)
(* that has one is not executed again, even after its lock expired.         *)
NoReexecutionOnRecord ==
    [][\A t \in Trades :
          openedBy[t] = None /\ openedBy'[t] \in Signals => StoredFor(openedBy'[t]) = {}]_vars

(* Every request past the gate may add a trade to the limit, no more: the   *)
(* limit is exceeded by at most the requests served at the same time.       *)
OvershootBound == Cardinality(active) + 1 <= MaxActive + Cardinality(Requests)

(* The published number of open positions never exceeds the active trades.  *)
ActiveCountNotOver == activeCount <= Cardinality(active)

(* The limit on open positions and its published count err on one side.     *)
LimitsHold == OvershootBound /\ ActiveCountNotOver

(* Every request is answered: nobody waits for a lock for ever.             *)
EveryRequestAnswered == \A r \in Requests : pc[r] # "idle" ~> pc[r] \in {"done"}

(* The dedup keys implement at-most-once execution per window, of the       *)
(* orders that execute_signal takes note of (order_submitted).              *)
Once == INSTANCE SignalOnce WITH current <- [s \in Signals |-> CurrentTrades(s)]
ImplementsOnce == Once!Spec

=============================================================================
