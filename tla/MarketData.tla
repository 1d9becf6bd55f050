----------------------------- MODULE MarketData -----------------------------
(***************************************************************************)
(* What the platform takes for the market: MarketDataService over its       *)
(* exchanges, its cache and the trade stream's prices.                      *)
(*                                                                         *)
(* One symbol and one interval.  A fetch asks the exchanges it found one    *)
(* after the other, each in a thread; meanwhile other fetches move.  Time   *)
(* is what it makes of data: fresh, stale, gone, and due.                   *)
(***************************************************************************)
EXTENDS Integers, Sequences, SequencesExt

CONSTANTS
    Exchanges,  \* primary_exchange, then backup_exchanges
    Fetches,    \* fetches, each again and again
    KindOf      \* what a fetch is for: the price or the frame

ASSUME MarketDataAssumption ==
    /\ Exchanges \in Seq(ToSet(Exchanges)) /\ Exchanges # <<>> /\ IsInjective(Exchanges)
    /\ KindOf \in [Fetches -> {"price", "frame"}]

VARIABLES
    mkMode,     \* market_data_mode
    mkClients,  \* exchange_clients, in the order of the dictionary
    mkDue,      \* exchanges whose retry time is over: _exchange_retry_due
    mkUp,       \* the exchanges that answer
    mkFrame,    \* ohlcv:<symbol>:<interval>: gone, fresh or stale
    mkFetch,    \* a fetch: the exchanges it still asks, which of them may fail it, the old frame it has seen
    mkAnswer    \* the last answer with data: fresh, stale or last_valid_cache

mkVars == <<mkMode, mkClients, mkDue, mkUp, mkFrame, mkFetch, mkAnswer>>

AllExchanges == ToSet(Exchanges)
Ages    == {"fresh", "stale"}
Idle    == [todo |-> <<>>, old |-> "gone", doubt |-> {}]

MkTypeOK ==
    /\ mkMode \in {"exchange", "simulated"} /\ IsInjective(mkClients) /\ ToSet(mkClients) \subseteq AllExchanges
    /\ mkDue \subseteq AllExchanges /\ mkUp \subseteq AllExchanges
    /\ mkFrame \in Ages \cup {"gone"}
    /\ \A f \in Fetches :
          /\ ToSet(mkFetch[f].todo) \subseteq AllExchanges /\ mkFetch[f].doubt \subseteq ToSet(mkFetch[f].todo)
          /\ mkFetch[f].old \in {"gone", "stale"}
    /\ mkAnswer \in Ages \cup {"last_valid_cache"}

MkInit ==
    /\ mkMode \in {"exchange", "simulated"}
    /\ mkClients = IF mkMode = "simulated" THEN <<>> ELSE Exchanges
    /\ mkDue = {} /\ mkUp = AllExchanges /\ mkFrame = "gone"
    /\ mkFetch = [f \in Fetches |-> Idle] /\ mkAnswer = "fresh"

-----------------------------------------------------------------------------
(* Clients                                                                   *)

(* Those of the exchanges that are in some, in their order.                  *)
Keeping(order, some) ==
    LET kept[n \in 0..Len(order)] ==
          IF n = 0 THEN <<>> ELSE IF order[n] \in some THEN Append(kept[n - 1], order[n]) ELSE kept[n - 1]
    IN  kept[Len(order)]

(* _ensure_exchange_clients: an exchange without a client is tried again     *)
(* when its time has come, and goes behind the others.  Each call puts off   *)
(* the time of the exchanges it tries.                                       *)
Tried == IF mkMode = "exchange" THEN mkDue \ ToSet(mkClients) ELSE {}
Ensured == mkClients \o Keeping(Exchanges, Tried \cap mkUp)

(* _record_exchange_failure.                                                 *)
Dropped(clients, e) == Keeping(clients, AllExchanges \ {e})

-----------------------------------------------------------------------------
(* Fetches                                                                   *)

Begins(f, old) ==
    mkFetch' = [mkFetch EXCEPT ![f] = [todo |-> Ensured, old |-> old, doubt |-> ToSet(Ensured) \ mkUp]]

(* When no exchange has a price: the last close in the cache, of any age.    *)
PriceFallback ==
    mkAnswer' = IF mkMode = "simulated" THEN "fresh" ELSE IF mkFrame # "gone" THEN "last_valid_cache" ELSE mkAnswer

(* fetch_latest_price and fetch_order_book: a price of the stream, which     *)
(* stream_trades keeps for half a minute, is used as it is.                  *)
FetchPrice(f) ==
    /\ KindOf[f] = "price" /\ mkFetch[f] = Idle
    /\ mkClients' = Ensured /\ mkDue' = mkDue \ Tried
    /\ \/ mkAnswer' = "fresh" /\ UNCHANGED mkFetch
       \/ Ensured # <<>> /\ Begins(f, "gone") /\ UNCHANGED mkAnswer
       \/ Ensured = <<>> /\ PriceFallback /\ UNCHANGED mkFetch
    /\ UNCHANGED <<mkMode, mkUp, mkFrame>>

(* The end of fetch_multi_timeframe_ohlcv: a frame that is missing or too    *)
(* old gives way to the one the cache had at the beginning, however old; and *)
(* what is answered is cached anew.                                          *)
FrameArrives(got, old) ==
    \/ /\ got = "fresh" \/ mkMode = "simulated"
       /\ mkAnswer' = "fresh" /\ mkFrame' = "fresh"
    \/ /\ got # "fresh" /\ mkMode = "exchange" /\ old = "stale"
       /\ mkAnswer' = "last_valid_cache" /\ mkFrame' = "stale"
    \/ /\ got # "fresh" /\ mkMode = "exchange" /\ old = "gone"
       /\ UNCHANGED <<mkAnswer, mkFrame>>

(* The other way: a cached frame is used.                                    *)
CacheServesAnyAge == mkFrame # "gone"

(* A cached frame is used unless _frame_is_stale.                            *)
CacheServes == mkFrame = "fresh"

FetchFrame(f) ==
    LET old == IF mkFrame = "stale" THEN "stale" ELSE "gone" IN
    /\ KindOf[f] = "frame" /\ mkFetch[f] = Idle
    /\ mkClients' = Ensured /\ mkDue' = mkDue \ Tried
    /\ \/ CacheServes /\ mkAnswer' = mkFrame /\ UNCHANGED <<mkFetch, mkFrame>>
       \/ ~CacheServes /\ Ensured = <<>> /\ FrameArrives("gone", old) /\ UNCHANGED mkFetch
       \/ ~CacheServes /\ Ensured # <<>> /\ Begins(f, old) /\ UNCHANGED <<mkAnswer, mkFrame>>
    /\ UNCHANGED <<mkMode, mkUp>>

(* The exchange answers: with a price, or with a frame that may be behind.   *)
ExchangeAnswers(f) ==
    /\ mkFetch[f] # Idle /\ Head(mkFetch[f].todo) \in mkUp
    /\ mkFetch' = [mkFetch EXCEPT ![f] = Idle]
    /\ \/ KindOf[f] = "price" /\ mkAnswer' = "fresh" /\ UNCHANGED mkFrame
       \/ KindOf[f] = "frame" /\ \E got \in Ages : FrameArrives(got, mkFetch[f].old)
    /\ UNCHANGED <<mkMode, mkClients, mkDue, mkUp>>

(* It raises, if it was down at some time of the fetch: its client goes,     *)
(* also one that another fetch has made since, and the next one is asked.    *)
ExchangeRaises(f) ==
    LET e == Head(mkFetch[f].todo) IN
    /\ mkFetch[f] # Idle /\ e \in mkFetch[f].doubt
    /\ mkClients' = Dropped(mkClients, e) /\ mkDue' = mkDue \ {e}
    /\ IF Len(mkFetch[f].todo) > 1
       THEN /\ mkFetch' = [mkFetch EXCEPT ![f].todo = Tail(@), ![f].doubt = @ \ {e}]
            /\ UNCHANGED <<mkAnswer, mkFrame>>
       ELSE /\ mkFetch' = [mkFetch EXCEPT ![f] = Idle]
            /\ \/ KindOf[f] = "frame" /\ FrameArrives("gone", mkFetch[f].old)
               \/ KindOf[f] = "price" /\ PriceFallback /\ UNCHANGED mkFrame
    /\ UNCHANGED <<mkMode, mkUp>>

Step(f) == ExchangeAnswers(f) \/ ExchangeRaises(f)

-----------------------------------------------------------------------------
(* Around them                                                               *)

(* inject_test_market_move writes a frame that ends now.                     *)
InjectMove ==
    /\ mkFrame # "fresh" /\ mkFrame' = "fresh"
    /\ UNCHANGED <<mkMode, mkClients, mkDue, mkUp, mkFetch, mkAnswer>>
(* A frame falls behind its interval, and leaves the cache.                  *)
FrameAges ==
    /\ mkFrame = "fresh" /\ mkFrame' = "stale"
    /\ UNCHANGED <<mkMode, mkClients, mkDue, mkUp, mkFetch, mkAnswer>>
FrameExpires ==
    /\ mkFrame # "gone" /\ mkFrame' = "gone"
    /\ UNCHANGED <<mkMode, mkClients, mkDue, mkUp, mkFetch, mkAnswer>>

RetryTimePasses(e) ==
    /\ mkMode = "exchange" /\ e \notin ToSet(mkClients) \cup mkDue /\ mkDue' = mkDue \cup {e}
    /\ UNCHANGED <<mkMode, mkClients, mkUp, mkFrame, mkFetch, mkAnswer>>

(* An exchange goes down, and the fetches it has not answered may raise.     *)
GoesDown(e) ==
    /\ e \in mkUp /\ mkUp' = mkUp \ {e}
    /\ mkFetch' = [f \in Fetches |->
          IF e \in ToSet(mkFetch[f].todo) THEN [mkFetch[f] EXCEPT !.doubt = @ \cup {e}] ELSE mkFetch[f]]
    /\ UNCHANGED <<mkMode, mkClients, mkDue, mkFrame, mkAnswer>>
ComesUp(e) ==
    /\ e \in AllExchanges \ mkUp /\ mkUp' = mkUp \cup {e}
    /\ UNCHANGED <<mkMode, mkClients, mkDue, mkFrame, mkFetch, mkAnswer>>

MkNext ==
    \/ \E f \in Fetches : FetchPrice(f) \/ FetchFrame(f) \/ Step(f)
    \/ InjectMove \/ FrameAges \/ FrameExpires
    \/ \E e \in AllExchanges : RetryTimePasses(e) \/ GoesDown(e) \/ ComesUp(e)

-----------------------------------------------------------------------------

(* Stale data are only ever handed on as the last valid ones.                *)
OldDataIsMarked == mkAnswer # "stale"

(* An exchange that stays up is asked again: what took its client, a failure *)
(* or the late failure of an older fetch, does not keep it away.             *)
ExchangesComeBack ==
    \A e \in AllExchanges : []<>(mkMode = "exchange" /\ e \in mkUp => e \in ToSet(mkClients))
=============================================================================
