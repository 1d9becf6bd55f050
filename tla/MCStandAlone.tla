----------------------------- MODULE MCStandAlone -----------------------------
(* An instance of StandAlone: three signals of two strategies on a symbol,   *)
(* each with a winning trade that a rejection pushes out of its history.     *)
EXTENDS StandAlone

MCRequests   == 1..3
MCServed     == [paper |-> 3, venue |-> 1]
MCSeeds      == <<10, 11>>
MCSeedPnl    == [t \in {10, 11} |-> t - 9]
MCOrphanOf   == [s \in {"x"} |-> 20]
MCSymbolOf   == [r \in MCRequests |-> "x"]
MCStrategyOf == [t \in MCRequests \cup {10, 11} |-> IF t \in {3, 10} THEN "trend" ELSE "range"]
=============================================================================
