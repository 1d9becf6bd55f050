---------------------------- MODULE OrderPlacement ----------------------------
(***************************************************************************)
(* ExecutionEngine.place_order (services/execution_engine.py): one call     *)
(* tries every exchange in turn, and is tried again as a whole up to three  *)
(* times, whenever anything raises.  No order carries an id of the client,  *)
(* so an order whose answer was lost is sent again; a limit order that is   *)
(* not filled at once is completed at market and stays in the exchange's    *)
(* book; a large market order is sent as chunks.                            *)
(*                                                                         *)
(* Exchanges are external; a market order fills as a whole, a limit order   *)
(* rests until it is filled.  Quantities are units.                         *)
(***************************************************************************)
EXTENDS Naturals

CONSTANTS
    NumExchanges,  \* primary and backups, tried in this order
    Attempts,      \* stop_after_attempt
    Quantity,      \* units to buy or sell
    NumChunks,     \* chunks of a plan that has more than one
    AnswersLost    \* an exchange may carry out an order whose answer is lost

ASSUME PlacementAssumption ==
    /\ NumExchanges \in Nat \ {0} /\ Attempts \in Nat \ {0}
    /\ NumChunks \in Nat \ {0, 1} /\ Quantity \in Nat /\ Quantity >= NumChunks
    /\ AnswersLost \in BOOLEAN

VARIABLES
    kind,      \* order_type of the request
    pc,        \* where the call is
    attempt, at,  \* the running attempt and the exchange it tries
    tries,     \* history: exchanges tried so far
    sent,      \* chunks that were answered
    mine,      \* units of the running limit order that are not filled
    want,      \* units of the market order that completes it
    resting,   \* units of limit orders that were left behind
    filled,    \* units the exchanges have executed
    told,      \* executedQty of the answer
    clean      \* history: no answer lost, no order left behind half-way

callVars == <<pc, attempt, at, tries, sent>>
opVars == <<kind, callVars, mine, want, resting, filled, told, clean>>

Running == {"try", "chunks", "check", "fallback"}

OpTypeOK ==
    /\ kind \in {"MARKET", "LIMIT"}
    /\ pc \in Running \cup {"done", "raised"}
    /\ attempt \in 1..Attempts /\ at \in 1..NumExchanges
    /\ tries \in 1..(Attempts * NumExchanges)
    /\ sent \in 0..(NumChunks - 1)
    /\ mine \in 0..Quantity /\ want \in 0..Quantity
    /\ resting \in Nat /\ filled \in Nat /\ told \in 0..Quantity
    /\ clean \in BOOLEAN

OpInit ==
    /\ kind \in {"MARKET", "LIMIT"}
    /\ pc = "try" /\ attempt = 1 /\ at = 1 /\ tries = 1 /\ sent = 0
    /\ mine = 0 /\ want = 0 /\ resting = 0
    /\ filled = 0 /\ told = 0
    /\ clean = TRUE

-----------------------------------------------------------------------------

(* Something raised: the next exchange, the next attempt, or the error.     *)
GoOn ==
    /\ sent' = 0
    /\ \/ /\ at < NumExchanges
          /\ at' = at + 1 /\ tries' = tries + 1 /\ pc' = "try"
          /\ UNCHANGED attempt
       \/ /\ at = NumExchanges /\ attempt < Attempts
          /\ attempt' = attempt + 1 /\ at' = 1 /\ tries' = tries + 1 /\ pc' = "try"
       \/ /\ at = NumExchanges /\ attempt = Attempts
          /\ pc' = "raised"
          /\ UNCHANGED <<attempt, at, tries>>

(* The try is over; what rests of its limit order is forgotten. *)
Abandon ==
    /\ GoOn
    /\ resting' = resting + mine /\ mine' = 0 /\ want' = 0
    /\ UNCHANGED <<kind, told>>

Answer(units) ==
    /\ pc' = "done" /\ told' = units
    /\ resting' = resting + mine /\ mine' = 0 /\ want' = 0 /\ sent' = 0
    /\ UNCHANGED <<kind, attempt, at, tries>>

(* A market order of units: what follows if it is answered, if the exchange *)
(* refuses it, and if it is carried out and the answer is lost.             *)
Refused == Abandon /\ UNCHANGED filled
Lost(units) == AnswersLost /\ Abandon /\ filled' = filled + units /\ clean' = FALSE

-----------------------------------------------------------------------------
(* Throttle, ticker, symbol rules or the slippage guard raise, or a limit   *)
(* order has a plan with chunks, which are checked without its price: no    *)
(* order.                                                                   *)
NotSent ==
    /\ pc = "try"
    /\ Refused /\ UNCHANGED clean

SendMarket ==
    /\ pc = "try" /\ kind = "MARKET"
    /\ \/ Answer(Quantity) /\ filled' = filled + Quantity /\ UNCHANGED clean
       \/ Refused /\ UNCHANGED clean
       \/ Lost(Quantity)

(* now units of the limit order are executed at once. *)
SendLimit ==
    /\ pc = "try" /\ kind = "LIMIT"
    /\ \/ Answer(Quantity) /\ filled' = filled + Quantity /\ UNCHANGED clean
       \/ \E now \in 0..(Quantity - 1) :
             /\ filled' = filled + now
             /\ mine' = Quantity - now
             /\ pc' = "check"
             /\ UNCHANGED <<kind, attempt, at, tries, sent, want, resting, told, clean>>
       \/ Refused /\ UNCHANGED clean
       \/ /\ AnswersLost
          /\ \E now \in 0..Quantity :
                filled' = filled + now /\ resting' = resting + (Quantity - now)
          /\ GoOn /\ clean' = FALSE
          /\ UNCHANGED <<kind, mine, want, told>>

(* Mutant: a limit order that is not filled is waited for. *)
ReconcileWaiting ==
    /\ pc = "check" /\ mine = 0
    /\ Answer(Quantity) /\ UNCHANGED <<filled, clean>>

(* reconcile_order asks for the state of the limit order: filled meanwhile, *)
(* or the rest is to be bought at market.                                   *)
Reconcile ==
    /\ pc = "check"
    /\ \/ mine = 0 /\ Answer(Quantity) /\ UNCHANGED <<filled, clean>>
       \/ /\ mine > 0 /\ pc' = "fallback" /\ want' = mine
          /\ UNCHANGED <<kind, attempt, at, tries, sent, mine, resting, filled, told, clean>>
       \/ Refused /\ clean' = FALSE

(* The answer is the market order's alone, and the limit order is not       *)
(* cancelled.                                                               *)
Fallback ==
    /\ pc = "fallback"
    /\ clean' = FALSE
    /\ \/ Answer(want) /\ filled' = filled + want
       \/ Refused
       \/ Lost(want)

-----------------------------------------------------------------------------
(* The order book asks for a plan with chunks. *)
StartChunks ==
    /\ pc = "try" /\ kind = "MARKET"
    /\ pc' = "chunks"
    /\ UNCHANGED <<kind, attempt, at, tries, sent, mine, want, resting, filled, told, clean>>

(* Mutant: every chunk is as large as the order. *)
ChunkUnitsWhole == Quantity

ChunkUnits ==
    LET even == Quantity \div NumChunks
    IN  IF sent < NumChunks - 1 THEN even ELSE Quantity - even * (NumChunks - 1)

(* Mutant: the answer to the last chunk is the answer of the call. *)
SendChunkTellingLast ==
    /\ pc = "chunks"
    /\ \/ /\ sent < NumChunks - 1
          /\ sent' = sent + 1 /\ filled' = filled + ChunkUnits
          /\ UNCHANGED <<kind, pc, attempt, at, tries, mine, want, resting, told, clean>>
       \/ sent = NumChunks - 1 /\ Answer(ChunkUnits) /\ filled' = filled + ChunkUnits /\ UNCHANGED clean
       \/ Refused /\ clean' = (clean /\ sent = 0)
       \/ Lost(ChunkUnits)

(* Chunk after chunk at one exchange; the answer adds up what they executed, *)
(* together the whole.                                                      *)
SendChunk ==
    /\ pc = "chunks"
    /\ \/ /\ sent < NumChunks - 1
          /\ sent' = sent + 1 /\ filled' = filled + ChunkUnits
          /\ UNCHANGED <<kind, pc, attempt, at, tries, mine, want, resting, told, clean>>
       \/ sent = NumChunks - 1 /\ Answer(Quantity) /\ filled' = filled + ChunkUnits /\ UNCHANGED clean
       \/ Refused /\ clean' = (clean /\ sent = 0)
       \/ Lost(ChunkUnits)

-----------------------------------------------------------------------------
(* The exchange executes a unit of a limit order in its book. *)
FillLimit ==
    /\ \/ mine > 0 /\ mine' = mine - 1 /\ UNCHANGED resting
       \/ resting > 0 /\ resting' = resting - 1 /\ UNCHANGED mine
    /\ filled' = filled + 1
    /\ UNCHANGED <<kind, callVars, want, told, clean>>

Call == NotSent \/ SendMarket \/ SendLimit \/ Reconcile \/ Fallback \/ StartChunks \/ SendChunk

(* The call has ended and nothing is left in a book. *)
Over == pc \in {"done", "raised"} /\ resting = 0 /\ UNCHANGED opVars

OpNext == Call \/ FillLimit \/ Over

OpSpec == OpInit /\ [][OpNext]_opVars /\ WF_opVars(Call)

-----------------------------------------------------------------------------
(* What a call promises *)

(* The answer never speaks of units that no exchange executed.              *)
AnswerIsBacked == told <= filled

(* A try executes at most the quantity, a try with a limit order twice that *)
(* (the resting order and the market order that completes it): failover and *)
(* retries multiply the exposure by the number of tries and no more.        *)
ExposureBound ==
    filled + mine + resting <= tries * Quantity * (IF kind = "LIMIT" THEN 2 ELSE 1)

(* Only a lost answer, a chunk that fails after others or a limit order     *)
(* that was not filled at once make the exchanges trade what the caller is  *)
(* not told: otherwise an answer is exact and an error means no trade.      *)
CleanCallsAreExact ==
    clean => /\ pc = "done" => filled = told
             /\ pc = "raised" => filled = 0

(* The call ends, whatever the exchanges do.                                *)
CallEnds == []<>(pc \in {"done", "raised"})

-----------------------------------------------------------------------------
(* "recovers without trade loss or duplication": a call never trades more   *)
(* than it was asked for.                                                   *)
NoDuplication == filled <= Quantity
=============================================================================
