------------------------------ MODULE MCPlatform ------------------------------
(* Components that keep state of their own, checked side by side: a          *)
(* behaviour is one of one of them, the part, while the others rest in an    *)
(* initial state.                                                            *)
EXTENDS StandAlone, BacktestJobs, Releases, Models, Probability, Evaluation, Governance

VARIABLE part
vars == <<part, saVars, bjVars, rlVars, mdVars, pbVars, evVars, gvVars>>

(* A report that is approved. *)
Calm == [liquidity |-> 80, volatility |-> 2, macro |-> "NEUTRAL", sniper |-> FALSE, side |-> "BUY", ai |-> 80, aiConf |-> 80,
  whale |-> 60, sentiment |-> 60, target |-> 20, recentTrades |-> 4, rated |-> TRUE, stress |-> 50,
  delta |-> 0, recentWin |-> 50, recentPnl |-> 1,
  known |-> TRUE, win |-> 56, multiple |-> 60, drawdown |-> 1, pressure |-> 40, drift |-> 0, turnover |-> 0, sleeve |-> 20,
  reduced |-> FALSE, frequency |-> 100, streak |-> 1, healthy |-> TRUE, balance |-> 90, correlation |-> 50, held |-> FALSE, minimum |-> 5,
  limits |-> {[limit |-> 80, used |-> 20], [limit |-> 60, used |-> 10]}]

Init ==
    /\ part \in {"standalone", "backtests", "releases", "models", "learning", "evaluation", "governance", "reports"}
    /\ SaInit /\ BjInit /\ RlInit /\ MdInit /\ PbInit /\ EvInit /\ GvInit
    /\ part # "standalone" => venue = "paper"
    /\ part # "releases" => rlLive = Nothing
    /\ part # "evaluation" => evMode = "paper"
    /\ IF part = "governance" THEN gvDay # NoDay ELSE gvMode = "paper" /\ gvDay = NoDay
    /\ part # "reports" => gvReport = Calm

(* The part moves, and nothing else. *)
Only(p) ==
    /\ part = p /\ UNCHANGED part
    /\ p # "standalone" => UNCHANGED saVars
    /\ p # "backtests"  => UNCHANGED bjVars
    /\ p # "releases"   => UNCHANGED rlVars
    /\ p # "models"     => UNCHANGED mdVars
    /\ p # "learning"   => UNCHANGED pbVars
    /\ p # "evaluation" => UNCHANGED evVars
    /\ p \notin {"governance", "reports"} => UNCHANGED gvVars

Next ==
    \/ Only("standalone") /\ SaNext
    \/ Only("backtests") /\ BjNext
    \/ Only("releases") /\ RlNext
    \/ Only("models") /\ MdNext
    \/ Only("learning") /\ PbNext
    \/ Only("evaluation") /\ EvNext
    \/ Only("governance") /\ GvNext
    \/ Only("reports") /\ \E d \in Trades : Gate(d)

(* The fairness of the components.  One part moves, so that actions of the   *)
(* parts share a condition: the j-th of each.                                *)
Fairness ==
    /\ \A s \in Scorers :
          WF_vars(\/ part = "standalone" /\ StartPass("loop") /\ Only("standalone")
                  \/ part = "backtests" /\ StartUp /\ Only("backtests")
                  \/ part = "models" /\ ScorerStep(s) /\ Only("models"))
    /\ SF_vars(part = "standalone" /\ (\E quotes \in Triggered : FinishPass("loop", quotes)) /\ Only("standalone"))
    /\ \A j \in Jobs \cup Deploys :
          WF_vars(\/ part = "backtests" /\ j \in Jobs /\ StepJob(j) /\ Only("backtests")
                  \/ part = "releases" /\ j \in Deploys /\ StepDeploy(j) /\ Only("releases"))

Spec == Init /\ [][Next]_vars /\ Fairness

(* Every part keeps its types. *)
TypesOK == SaTypeOK /\ BjTypeOK /\ RlTypeOK /\ MdTypeOK /\ PbTypeOK /\ EvTypeOK /\ GvTypeOK

(* Bundles stay whole and scorers use the active one, learning stops when it *)
(* is told to, no model comes back on the samples that replaced it, and what  *)
(* may trade has a record: every scorer comes to use what was promoted.       *)
ModelsAreGoverned ==
    /\ [](/\ BundlesAreWhole /\ ScorersAgree /\ GuardsHold
          /\ part = "learning" => EvidenceFirst /\ NothingComesBack)
    /\ ScorersCatchUp

MCRequests   == 1..3
MCServed     == [paper |-> 3, venue |-> 1]
MCSeeds      == <<10, 11, 12>>   \* the newest is a loss, of no strategy
MCSeedPnl    == [t \in 10..12 |-> IF t = 12 THEN -1 ELSE t - 9]
MCOrphanOf   == [s \in {"x"} |-> 20]
MCSymbolOf   == [r \in MCRequests |-> "x"]
MCStrategyOf == [t \in MCRequests \cup {10, 11} |-> IF t \in {3, 10} THEN "trend" ELSE "range"]

Agreed == [bucket |-> 1, ai |-> "BUY", aiConf |-> 100, strat |-> "HOLD", stratConf |-> 60, stratProb |-> 60,
           selected |-> TRUE, structure |-> "BUY", volume |-> TRUE, momentum |-> "BUY", trending |-> TRUE,
           volatility |-> 3, alpha |-> 45, risk |-> 20, net |-> 90, tradable |-> TRUE, whale |-> "HOLD",
           degraded |-> FALSE, meta |-> TRUE, imbalance |-> "BUY"]
MCReadings ==
    {Agreed, [Agreed EXCEPT !.ai = "fails"], [Agreed EXCEPT !.whale = "SELL"],
     [Agreed EXCEPT !.aiConf = 65, !.volume = FALSE],
     [Agreed EXCEPT !.volume = FALSE, !.strat = "SELL", !.stratConf = 100, !.stratProb = 90]}
MCRegime == [b \in Buckets |-> "TRENDING"]
MCPast  == [k \in Entries |-> IF k \in {<<"BUY", 1>>, OfSide("BUY", 1)}
                              THEN [wins |-> 1, losses |-> 1] ELSE [wins |-> 0, losses |-> 0]]
MCDirOf == [p \in Recorders |-> "artifacts"]

MCClosings == [shape : Shapes, r : {1, -1}]
MCSleeve == [target |-> 20, trades |-> 8, turnover |-> 5, gap |-> 1, delta |-> 11, win |-> 64, pnl |-> 1]
MCProposals ==
    {[signal |-> "BUY", regime |-> g, shape |-> "strong", confidence |-> 100, guess |-> 60, sleeve |-> s] :
        g \in Regimes, s \in {MCSleeve, [MCSleeve EXCEPT !.trades = 1], [MCSleeve EXCEPT !.delta = -11, !.win = 40]}}

MCReports ==
  {[Calm EXCEPT !.pressure = p, !.drawdown = x, !.sleeve = sl, !.recentWin = w, !.recentPnl = g, !.known = k, !.rated = k] :
        p \in {40, 70, 98}, x \in {1, 4, 6}, sl \in {20, 40, 60}, w \in {30, 50, 65}, g \in {-2, 1}, k \in BOOLEAN}
  \cup {[Calm EXCEPT !.correlation = c, !.held = h, !.stress = st, !.limits = {[limit |-> 80, used |-> u], [limit |-> 60, used |-> v]}] :
        c \in {50, 80, 100}, h \in BOOLEAN, st \in {50, 200}, u \in {0, 80}, v \in {0, 30, 60}}
MCSizeOf == [d \in Trades |-> 1]
MCExecutions == [d \in Trades |-> IF d = 1 THEN {2} ELSE {0}]
=============================================================================
