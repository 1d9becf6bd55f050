------------------------------ MODULE MCTrading ------------------------------
(* Components that keep state of their own, checked side by side: a    *)
(* behaviour is one of one of them, the part, while the others rest in an   *)
(* initial state, or in a final one where a property says that it ends.      *)
EXTENDS DrawdownProtection, OrderPlacement, VirtualOrders, Distribution, Delivery,
        Gateway, MarketData, Scanner, Sleeves, LiveSignals

VARIABLE part
vars == <<part, ddVars, opVars, voVars, dsVars, dvVars, akVars, rtVars, mkVars, scVars, slVars, lvVars>>

Init ==
    /\ part \in {"drawdown", "placement", "orders", "signals", "delivery", "keys", "rates", "market", "scanner", "sleeves", "live"}
    /\ DdInit /\ VoInit /\ DsInit /\ DvInit /\ AkInit /\ RtInit /\ MkInit /\ ScInit /\ SlInit /\ LvInit
    /\ IF part = "placement" THEN OpInit
       ELSE /\ kind = "MARKET" /\ pc = "done" /\ attempt = 1 /\ at = 1 /\ tries = 1 /\ sent = 0
            /\ mine = 0 /\ want = 0 /\ resting = 0
            /\ filled = Quantity /\ told = Quantity /\ clean = TRUE
    /\ part # "drawdown" => ddMode = "paper"
    /\ part # "orders" => voMode = "paper"
    /\ part # "market" => mkMode = "exchange"

(* The part moves, and nothing else. *)
Only(p) ==
    /\ part = p /\ UNCHANGED part
    /\ p # "drawdown"  => UNCHANGED ddVars
    /\ p # "placement" => UNCHANGED opVars
    /\ p # "orders"    => UNCHANGED voVars
    /\ p # "signals"   => UNCHANGED dsVars
    /\ p # "delivery"  => UNCHANGED dvVars
    /\ p # "keys"      => UNCHANGED akVars
    /\ p # "rates"     => UNCHANGED rtVars
    /\ p # "market"    => UNCHANGED mkVars
    /\ p # "scanner"   => UNCHANGED scVars
    /\ p # "sleeves"   => UNCHANGED slVars
    /\ p # "live"      => UNCHANGED lvVars

Next ==
    \/ Only("drawdown") /\ DdNext
    \/ Only("placement") /\ OpNext
    \/ Only("orders") /\ VoNext
    \/ Only("signals") /\ DsNext
    \/ Only("delivery") /\ DvNext
    \/ Only("keys") /\ AkNext
    \/ Only("rates") /\ RtNext
    \/ Only("market") /\ MkNext
    \/ Only("scanner") /\ ScNext
    \/ Only("sleeves") /\ SlNext
    \/ Only("live") /\ LvNext

(* The fairness of the components.  One part moves, so that actions of two   *)
(* parts share a condition.                                                  *)
Fairness ==
    /\ WF_vars(\/ part = "drawdown" /\ CooldownEnds /\ Only("drawdown")
               \/ part = "placement" /\ Call /\ Only("placement")
               \/ part = "delivery" /\ StepBroadcast /\ Only("delivery")
               \/ part = "market" /\ (\E f \in Fetches : FetchPrice(f)) /\ Only("market"))
    /\ \A n \in 1..2 :
          /\ WF_vars(\/ part = "drawdown" /\ n = 1 /\ ExpireStatus /\ Only("drawdown")
                     \/ part = "market" /\ RetryTimePasses(Exchanges[n]) /\ Only("market"))
          /\ WF_vars(\/ part = "market" /\ Step(n) /\ Only("market")
                     \/ part = "live" /\ TimesOut(n) /\ Only("live"))

Spec == Init /\ [][Next]_vars /\ Fairness

(* Every part keeps its types. *)
TypesOK ==
    /\ DdTypeOK /\ OpTypeOK /\ VoTypeOK /\ DsTypeOK /\ DvTypeOK
    /\ AkTypeOK /\ RtTypeOK /\ MkTypeOK /\ ScTypeOK /\ SlTypeOK /\ LvTypeOK

(* What a decision rests on: data that is marked when it is old, exchanges   *)
(* that come back, symbols that stay long enough to be judged, budgets that  *)
(* add up, and the best of a scan, in an answer that comes.                  *)
DecisionsAreInformed ==
    /\ [](/\ OldDataIsMarked /\ FixedStayActive /\ BudgetIsShared /\ TurnoverIsBounded /\ WindowsMatchTotals
           /\ BestAreListed /\ BoardSettles)
    /\ ExchangesComeBack /\ AllAnswered
    /\ [][RotationLasts]_scVars /\ [][BetterGetsMore]_slVars

MCWants == [i \in Intents |-> IF i = 3 THEN 2 ELSE i]
MCSubscribers == {[id |-> 1, tier |-> "vip", balance |-> 2, profile |-> "moderate"],
                  [id |-> 2, tier |-> "pro", balance |-> 1, profile |-> "moderate"],
                  [id |-> 3, tier |-> "pro", balance |-> 1, profile |-> "aggressive"]}
Profiles == {"conservative", "moderate", "aggressive"}
MCSignals == {[id |-> 1, high |-> TRUE, boost |-> FALSE, tier |-> "free", floor |-> 0, profiles |-> Profiles],
              [id |-> 2, high |-> FALSE, boost |-> FALSE, tier |-> "pro", floor |-> 3, profiles |-> Profiles]}
MCMessages == <<[name |-> 1, id |-> "a", stream |-> "market"], [name |-> 2, id |-> "b", stream |-> "ai"],
                [name |-> 3, id |-> "a", stream |-> "market"]>>
MCFilter   == [c \in Clients |-> IF c = "c2" THEN {"market"} ELSE {}]
MCDelays == [high |-> {1}, normal |-> {1}, delayed |-> {1}]

MCConfigured == [c |-> 3]
MCDocumented == [d |-> 5]
MCLimits  == [minute |-> 1, hour |-> 2]
MCLengths == [minute |-> 4, hour |-> 8]
MCExchanges == <<"e1", "e2">>
MCKindOf == <<"price", "frame">>
MCTickers == {<<>>, <<"b", "a", "f">>}
MCFallback == <<"f", "a">>
MCPast == [s \in Symbols |-> IF s = "a" THEN <<50, -300>> ELSE <<>>]
MCPnls == {-300, 50}
MCExposures == {[s \in Symbols |-> IF s = "a" THEN 3 ELSE IF s = "b" THEN 1 ELSE 0], [s \in Symbols |-> 0]}
MCWeights == {[s \in Symbols |-> IF s = "b" THEN 8 ELSE 1]}
MCRanked == <<"x", "y">>
MCTierOf == [v \in Viewers |-> IF v = 1 THEN 1 ELSE 0]
MCOutcomes == {[kind |-> "accepted", tier |-> 1, score |-> 2], [kind |-> "skipped", tier |-> 0, score |-> 0]}
=============================================================================
