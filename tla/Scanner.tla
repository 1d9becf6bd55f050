------------------------------- MODULE Scanner -------------------------------
(***************************************************************************)
(* Which symbols are traded: ScannerService, whose state in the cache is    *)
(* read, filled up from the market's tickers and written back as a whole.   *)
(*                                                                         *)
(* A pass waits for the tickers only when its candidates are due; passes of *)
(* several requests and processes move meanwhile.                           *)
(***************************************************************************)
EXTENDS Integers, FiniteSets, Sequences, SequencesExt

CONSTANTS
    Fixed,         \* scanner_fixed_symbols
    ActiveLimit,   \* scanner_active_symbol_limit
    RefreshEvery,  \* scanner_refresh_minutes
    RotateEvery,   \* scanner_rotation_hours
    Tickers,       \* answers of the market: eligible symbols, the best first
    FallbackSymbols,      \* market_universe_symbols
    Passes,        \* passes under way at a time
    LastScan       \* bound: the clock

ASSUME ScannerAssumption ==
    /\ IsFiniteSet(Fixed) /\ ActiveLimit \in Nat /\ LastScan \in Nat
    /\ RefreshEvery \in Nat \ {0} /\ RotateEvery \in Nat \ {0}
    /\ \A t \in Tickers \cup {FallbackSymbols} : t \in Seq(ToSet(t)) /\ IsInjective(t)

VARIABLES
    scNow,      \* the clock
    scState,    \* scanner:state, with when it expires
    scPass      \* a pass: when it began, what it read, whether it is forced, and (history) whether
                \* another one wrote since

scVars == <<scNow, scState, scPass>>

Unscanned == [candidates |-> <<>>, refreshed |-> -RefreshEvery, active |-> {}, started |-> -RotateEvery, next |-> 0, until |-> 0]
NoPass    == [at |-> -1, read |-> Unscanned, force |-> FALSE, stale |-> FALSE]

ScTypeOK ==
    /\ scNow \in 0..LastScan
    /\ scState.started \in -RotateEvery..LastScan /\ scState.refreshed \in -RefreshEvery..LastScan
    /\ scState.next \in 0..LastScan + RotateEvery
    /\ \A p \in Passes : scPass[p].at \in -1..LastScan /\ scPass[p].force \in BOOLEAN /\ scPass[p].stale \in BOOLEAN

ScInit ==
    /\ scNow = 0 /\ scState = Unscanned /\ scPass = [p \in Passes |-> NoPass]

(* get_json: an expired state is gone.                                       *)
Read == IF scNow < scState.until THEN scState ELSE Unscanned

RefreshDue(state, force) == force \/ state.candidates = <<>> \/ scNow - state.refreshed >= RefreshEvery
RotationDue(state, at, force) == force \/ state.active = {} \/ at >= state.next

(* The other way: the best symbols, and the fixed ones while there is room.  *)
ActiveByRank(candidates) ==
    ToSet(SubSeq(candidates, 1, IF Len(candidates) < ActiveLimit THEN Len(candidates) ELSE ActiveLimit))

(* _build_rotation_payload: the fixed symbols, and the best others while     *)
(* there is room.                                                            *)
Others(candidates) == {i \in DOMAIN candidates : candidates[i] \notin Fixed}
Rotating(candidates) ==
    LET room == IF ActiveLimit > Cardinality(Fixed) THEN ActiveLimit - Cardinality(Fixed) ELSE 0
    IN  {candidates[i] : i \in {i \in Others(candidates) : Cardinality({j \in Others(candidates) : j < i}) < room}}
Active(candidates) == Fixed \cup Rotating(candidates)

(* The rest of state(), from what it read at the beginning.                  *)
Finish(p, at, read, candidates, refreshed, force) ==
    LET rotates == RotationDue(read, at, force)
        life == IF RefreshEvery > RotateEvery THEN RefreshEvery ELSE RotateEvery
    IN  /\ scState' = [candidates |-> candidates, refreshed |-> refreshed,
                       active |-> IF rotates THEN Active(candidates) ELSE read.active,
                       started |-> IF rotates THEN at ELSE read.started,
                       next |-> IF rotates THEN at + RotateEvery ELSE read.next,
                       until |-> scNow + life]
        /\ scPass' = [q \in Passes |-> IF q = p THEN NoPass
                                       ELSE IF scPass[q].at < 0 THEN NoPass ELSE [scPass[q] EXCEPT !.stale = TRUE]]

(* state(): a pass that has candidates ends at once.                         *)
BeginPass(p, force) ==
    /\ scPass[p].at = -1
    /\ IF RefreshDue(Read, force)
       THEN /\ scPass' = [scPass EXCEPT ![p] = [at |-> scNow, read |-> Read, force |-> force, stale |-> FALSE]]
            /\ UNCHANGED scState
       ELSE Finish(p, scNow, Read, Read.candidates, Read.refreshed, FALSE)
    /\ UNCHANGED scNow

(* _build_ranked_candidates: the universe of the settings when no symbol is  *)
(* eligible.  When the market cannot be asked, state() raises.               *)
TickersArrive(p) ==
    /\ scPass[p].at >= 0
    /\ \E t \in Tickers :
          Finish(p, scPass[p].at, scPass[p].read, IF t = <<>> THEN FallbackSymbols ELSE t, scPass[p].at, scPass[p].force)
    /\ UNCHANGED scNow
TickersFail(p) ==
    /\ scPass[p].at >= 0 /\ scPass' = [scPass EXCEPT ![p] = NoPass]
    /\ UNCHANGED <<scNow, scState>>

ScTick == scNow < LastScan /\ scNow' = scNow + 1 /\ UNCHANGED <<scState, scPass>>

ScNext ==
    \/ \E p \in Passes : (\E force \in BOOLEAN : BeginPass(p, force)) \/ TickersArrive(p) \/ TickersFail(p)
    \/ ScTick

-----------------------------------------------------------------------------

(* Whatever the market answers and the passes undo, the fixed symbols stay   *)
(* active, and no more symbols are active than both limits allow.            *)
FixedStayActive ==
    scState.active # {} =>
        /\ Fixed \subseteq scState.active
        /\ Cardinality(scState.active) <= IF ActiveLimit > Cardinality(Fixed) THEN ActiveLimit ELSE Cardinality(Fixed)

(* A rotation lasts its time: unless the state has expired, the symbols in   *)
(* use are changed before they are due only by a pass that was forced, or    *)
(* that another pass overtook.                                               *)
RotationLasts ==
    /\ scState'.started # scState.started /\ scNow < scState.until
    /\ ~\E p \in Passes : scPass[p].at >= 0 /\ scPass'[p].at < 0 /\ (scPass[p].force \/ scPass[p].stale)
    => scState'.started >= scState.next
=============================================================================
