------------------------- MODULE MCSignalExecution -------------------------
(* Instances of SignalExecution small enough for TLC. *)
EXTENDS SignalExecution, TLC

CONSTANTS s1, s2, btc, eth

(* Every signal, and the request without one, about a symbol of its own. *)
DistinctSymbols == [s \in Ids |-> IF s = s1 THEN btc ELSE IF s = s2 THEN eth ELSE "other"]
DistinctSet == {btc, eth, "other"}

TradeSymmetry == Permutations(Trades)
RequestTradeSymmetry == Permutations(Trades) \cup Permutations(Requests)
=============================================================================
