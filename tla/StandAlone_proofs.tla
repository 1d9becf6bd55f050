------------------------- MODULE StandAlone_proofs -------------------------
(***************************************************************************)
(* Proofs about StandAlone for any requests, symbols, prices and limits,    *)
(* any number of monitor passes and either broker.                          *)
(*                                                                         *)
(* A row moves in one direction: it is written once, for a request that     *)
(* has not written it yet or for a position without a row, and what is      *)
(* written as open is closed once.  The trades a pass of the monitor took   *)
(* with it are open or closed still when their prices arrive.               *)
(*                                                                         *)
(* The score of a strategy is a number of sums and shares, and nothing for  *)
(* one without a decided trade.                                             *)
(***************************************************************************)
EXTENDS StandAlone, Sums

Orphans == {OrphanOf[s] : s \in Symbols}

IsRow(x) == x \in [status : {x.status}, order : {x.order}, exit : {x.exit}, reason : {x.reason}]

Begun(t) == row[t].status \in {"open", "closed"}

RowsInv ==
    /\ row = [t \in Rows |-> row[t]]
    /\ \A t \in Rows : /\ IsRow(row[t])
                       /\ row[t].status = "open" => t \in Requests \cup Orphans
    /\ thread \in [Requests -> {"new", "judged", "ordered", "done", "failed", "lost"}]
    /\ \A r \in Requests : thread[r] \in {"new", "judged", "ordered"} => row[r].status = "none"
    /\ pass = [p \in Passes |-> pass[p]]
    /\ \A p \in Passes : /\ pass[p] = [on |-> pass[p].on, trades |-> pass[p].trades, price |-> pass[p].price]
                         /\ pass[p].trades \subseteq Rows
                         /\ \A t \in pass[p].trades : Begun(t)

(* What a step may do to a row. *)
Moves(t) ==
    \/ row'[t] = row[t]
    \/ row[t].status = "open" /\ row'[t].status = "closed"
    \/ row[t].status = "none" /\ row'[t].status \in {"open", "rejected"} /\ t \in Requests \cup Orphans

RowsMove ==
    /\ row' = [t \in Rows |-> row'[t]]
    /\ \A t \in Rows : IsRow(row'[t]) /\ Moves(t)

LEMMA RowFacts ==
    /\ Requests \subseteq Rows /\ Orphans \subseteq Rows /\ Requests \cap Orphans = {}
    /\ Requests \cap ToSet(Seeds) = {}
    /\ \A r \in Requests : r \in Nat /\ r # NoTrade
    /\ IsRow(Blank) /\ Blank.status = "none"
    /\ \A r \in Requests : SymbolOf[r] \in Symbols
BY StandAloneAssumption DEF StandAloneAssumption, Rows, Orphans, IsRow, Blank, NoTrade

LEMMA ClosedRow ==
    ASSUME NEW t, IsRow(row[t]), NEW exits
    PROVE  IsRow(Closed(t, exits)) /\ Closed(t, exits).status = "closed"
BY DEF IsRow, Closed

(* Requests that have not written their rows have not when others moved. *)
Unwritten == \A r \in Requests : row[r].status = "none" => row'[r].status = "none"

(* A request writes its row. *)
LEMMA RequestWrites ==
    ASSUME RowsInv, NEW r \in Requests, row[r].status = "none", NEW record, IsRow(record),
           record.status \in {"open", "rejected"}, row' = [row EXCEPT ![r] = record]
    PROVE  RowsMove
BY RowFacts DEF RowsInv, RowsMove, Moves

LEMMA JudgeMoves == ASSUME RowsInv, NEW r \in Requests, Judge(r) PROVE RowsMove
<1>1. row[r].status = "none"
    BY DEF Judge, RowsInv
<1>2. UNCHANGED row \/ row' = [row EXCEPT ![r] = [Blank EXCEPT !.status = "rejected"]]
    BY DEF Judge, tableVars, Reject, LogRow
<1>3. /\ IsRow([Blank EXCEPT !.status = "rejected"])
      /\ [Blank EXCEPT !.status = "rejected"].status = "rejected"
    BY DEF IsRow, Blank
<1>4. CASE UNCHANGED row
    BY <1>4 DEF RowsInv, RowsMove, Moves
<1> QED BY <1>1, <1>2, <1>3, <1>4, RequestWrites

LEMMA ExecuteMoves == ASSUME RowsInv, NEW r \in Requests, Execute(r) PROVE RowsMove
<1>1. row[r].status = "none"
    BY DEF Execute, RowsInv
<1>2. UNCHANGED row \/ row' = [row EXCEPT ![r] = [Blank EXCEPT !.status = "rejected"]]
    BY DEF Execute, PlaceOrder, tableVars, Reject, LogRow
<1>3. /\ IsRow([Blank EXCEPT !.status = "rejected"])
      /\ [Blank EXCEPT !.status = "rejected"].status = "rejected"
    BY DEF IsRow, Blank
<1>4. CASE UNCHANGED row
    BY <1>4 DEF RowsInv, RowsMove, Moves
<1> QED BY <1>1, <1>2, <1>3, <1>4, RequestWrites

LEMMA LogTradeMoves == ASSUME RowsInv, NEW r \in Requests, LogTrade(r) PROVE RowsMove
<1>1. row[r].status = "none"
    BY DEF LogTrade, RowsInv
<1>2. row' = [row EXCEPT ![r] = [Blank EXCEPT !.status = "open", !.order = r]]
    BY DEF LogTrade, LogRow
<1>3. /\ IsRow([Blank EXCEPT !.status = "open", !.order = r])
      /\ [Blank EXCEPT !.status = "open", !.order = r].status = "open"
    BY DEF IsRow, Blank
<1> QED BY <1>1, <1>2, <1>3, RequestWrites

(* Rows that were open when their trades were taken are closed, or were.    *)
LEMMA CloseMoves ==
    ASSUME RowsInv, NEW exits, CloseRows(exits),
           \A t \in DOMAIN exits : t \in Rows /\ Begun(t)
    PROVE  RowsMove /\ Unwritten
<1> DEFINE now == {t \in DOMAIN exits : row[t].status # "closed"}
<1>1. row' = [t \in Rows |-> IF t \in now THEN Closed(t, exits) ELSE row[t]]
    BY DEF CloseRows
<1>2. \A t \in now : t \in Rows /\ row[t].status = "open"
    BY DEF Begun
<1> HIDE DEF now
<1>3. row' = [t \in Rows |-> row'[t]] /\ \A t \in Rows : row'[t] = IF t \in now THEN Closed(t, exits) ELSE row[t]
    BY <1>1
<1>4. ASSUME NEW t \in Rows PROVE IsRow(row'[t]) /\ Moves(t)
    <2>1. IsRow(row[t])
        BY DEF RowsInv
    <2>2. IsRow(Closed(t, exits)) /\ Closed(t, exits).status = "closed"
        BY <2>1, ClosedRow
    <2> QED BY <1>2, <1>3, <2>1, <2>2 DEF Moves
<1>5. Unwritten
    BY <1>2, <1>3, RowFacts DEF Unwritten
<1> QED BY <1>3, <1>4, <1>5 DEF RowsMove

LEMMA ExitsOnlyTaken ==
    ASSUME NEW trades, NEW quotes
    PROVE  DOMAIN Exits(trades, quotes) \subseteq trades
BY DEF Exits

LEMMA StartMoves == ASSUME RowsInv, NEW p \in Passes, StartPass(p) PROVE RowsMove /\ Unwritten
<1>1. \A quotes : \A t \in DOMAIN Exits(OpenRows, quotes) : t \in Rows /\ Begun(t)
    BY ExitsOnlyTaken DEF OpenRows, Begun
<1>2. UNCHANGED row \/ \E quotes : CloseRows(Exits(OpenRows, quotes))
    BY DEF StartPass
<1>3. CASE UNCHANGED row
    BY <1>3 DEF RowsInv, RowsMove, Moves, Unwritten
<1> QED BY <1>1, <1>2, <1>3, CloseMoves

LEMMA FinishMoves == ASSUME RowsInv, NEW p \in Passes, NEW quotes, FinishPass(p, quotes) PROVE RowsMove /\ Unwritten
<1>1. \A q : \A t \in DOMAIN Exits(pass[p].trades, q) : t \in Rows /\ Begun(t)
    BY ExitsOnlyTaken DEF RowsInv
<1>2. \E q : CloseRows(Exits(pass[p].trades, q))
    BY DEF FinishPass
<1> QED BY <1>1, <1>2, CloseMoves

LEMMA SyncMoves == ASSUME RowsInv, SyncApply PROVE RowsMove /\ Unwritten
<1> DEFINE gone   == {t \in OpenRows : sync.held[SymbolOfRow(t)] = NoTrade}
           filled == {t \in gone : row[t].order \in DOMAIN orders}
           exits  == [t \in filled |-> [price |-> orders[row[t].order], reason |-> "broker_fill"]]
           taken  == {OrphanOf[s] : s \in Attached}
           record(t) == [Blank EXCEPT !.status = "open", !.order = sync.held[SymbolOfRow(t)]]
<1>1. row' = [t \in Rows |-> CASE t \in filled -> Closed(t, exits)
                               [] t \in taken  -> record(t)
                               [] OTHER -> row[t]]
    BY DEF SyncApply
<1>2. \A t \in filled : t \in Rows /\ row[t].status = "open"
    BY DEF OpenRows
<1>3. \A t \in taken : t \in Rows /\ row[t].status = "none" /\ t \in Orphans
    BY RowFacts DEF Attached, Orphans
<1>4. \A t : IsRow(record(t)) /\ record(t).status = "open"
    BY DEF IsRow, Blank
<1> HIDE DEF filled, taken, record, exits
<1>5. \A t \in Rows : \/ t \in filled /\ row'[t] = Closed(t, exits)
                      \/ t \in taken /\ row'[t] = record(t)
                      \/ row'[t] = row[t]
    BY <1>1, <1>2, <1>3
<1>6. row' = [t \in Rows |-> row'[t]]
    BY <1>1
<1>7. ASSUME NEW t \in Rows PROVE IsRow(row'[t]) /\ Moves(t)
    <2>1. CASE t \in filled /\ row'[t] = Closed(t, exits)
        <3>1. IsRow(row[t])
            BY DEF RowsInv
        <3>2. IsRow(Closed(t, exits)) /\ Closed(t, exits).status = "closed"
            BY <3>1, ClosedRow
        <3> QED BY <1>2, <2>1, <3>2 DEF Moves
    <2>2. CASE t \in taken /\ row'[t] = record(t)
        BY <1>3, <1>4, <2>2 DEF Moves
    <2>3. CASE row'[t] = row[t]
        BY <2>3 DEF RowsInv, Moves
    <2> QED BY <1>5, <2>1, <2>2, <2>3
<1>8. Unwritten
    BY <1>2, <1>3, <1>5, RowFacts DEF Unwritten
<1> QED BY <1>6, <1>7, <1>8 DEF RowsMove

LEMMA StepMoves == RowsInv /\ [SaNext]_saVars => RowsMove
<1> SUFFICES ASSUME RowsInv, [SaNext]_saVars PROVE RowsMove
    OBVIOUS
<1>1. ASSUME UNCHANGED row PROVE RowsMove
    BY <1>1 DEF RowsInv, RowsMove, Moves
<1>2. ASSUME NEW s \in Symbols, NEW x, PublishPrice(s, x) \/ VenueCloses(s, x) PROVE UNCHANGED row
    BY <1>2 DEF PublishPrice, VenueCloses, tableVars
<1>3. ASSUME CooldownOver \/ LoopDies \/ SyncRead \/ Restart \/ UNCHANGED saVars PROVE UNCHANGED row
    BY <1>3 DEF CooldownOver, LoopDies, SyncRead, Restart, saVars, tableVars
<1>4. ASSUME NEW r \in Requests, Raises(r) PROVE UNCHANGED row
    BY <1>4 DEF Raises, tableVars
<1> QED BY <1>1, <1>2, <1>3, <1>4, JudgeMoves, ExecuteMoves, LogTradeMoves, StartMoves, FinishMoves, SyncMoves DEF SaNext

-----------------------------------------------------------------------------
LEMMA RowsInit == SaInit => RowsInv
<1> SUFFICES ASSUME SaInit PROVE RowsInv
    OBVIOUS
<1>1. \A t \in Rows : row[t] = Blank \/ (row[t] = [Blank EXCEPT !.status = "closed"] /\ t \in ToSet(Seeds))
    BY DEF SaInit
<1>2. /\ IsRow([Blank EXCEPT !.status = "closed"]) /\ [Blank EXCEPT !.status = "closed"].status = "closed"
      /\ IsRow(Blank) /\ Blank.status = "none"
    BY DEF IsRow, Blank
<1>3. \A t \in Rows : IsRow(row[t]) /\ row[t].status # "open"
    BY <1>1, <1>2
<1>4. \A r \in Requests : row[r].status = "none"
    BY <1>1, <1>2, RowFacts
<1>5. /\ row = [t \in Rows |-> row[t]] /\ pass = [p \in Passes |-> pass[p]]
      /\ thread \in [Requests -> {"new", "judged", "ordered", "done", "failed", "lost"}]
    BY DEF SaInit
<1>6. \A p \in Passes : /\ pass[p] = [on |-> pass[p].on, trades |-> pass[p].trades, price |-> pass[p].price]
                        /\ pass[p].trades = {}
    BY DEF SaInit, NoPass
<1> QED BY <1>3, <1>4, <1>5, <1>6 DEF RowsInv

(* The parts of RowsInv that a step leaves to the moves of the rows.         *)
LEMMA MovesKeep ==
    ASSUME RowsInv, RowsMove
    PROVE  /\ row' = [t \in Rows |-> row'[t]]
           /\ \A t \in Rows : /\ IsRow(row'[t])
                              /\ row'[t].status = "open" => t \in Requests \cup Orphans
                              /\ Begun(t) => Begun(t)'
BY DEF RowsInv, RowsMove, Moves, Begun

LEMMA PassesKept ==
    ASSUME RowsInv, RowsMove, UNCHANGED pass
    PROVE  /\ pass' = [p \in Passes |-> pass'[p]]
           /\ \A p \in Passes :
                 /\ pass'[p] = [on |-> pass'[p].on, trades |-> pass'[p].trades, price |-> pass'[p].price]
                 /\ pass'[p].trades \subseteq Rows
                 /\ \A t \in pass'[p].trades : Begun(t)'
BY MovesKeep DEF RowsInv

(* A request's own step. *)
LEMMA RequestKeeps ==
    ASSUME RowsInv, RowsMove, UNCHANGED pass, NEW r \in Requests,
           NEW at \in {"judged", "ordered", "done", "failed"}, thread' = [thread EXCEPT ![r] = at],
           \A t \in Rows : t # r => row'[t] = row[t],
           at \in {"judged", "ordered"} => row'[r].status = "none"
    PROVE  RowsInv'
<1>1. thread' \in [Requests -> {"new", "judged", "ordered", "done", "failed", "lost"}]
    BY DEF RowsInv
<1>2. \A q \in Requests : thread'[q] \in {"new", "judged", "ordered"} => row'[q].status = "none"
    BY RowFacts DEF RowsInv
<1> QED BY <1>1, <1>2, MovesKeep, PassesKept DEF RowsInv

(* Anybody else's.  A restart loses threads.                                 *)
LEMMA OthersKeep ==
    ASSUME RowsInv, RowsMove, Unwritten, UNCHANGED pass,
           \/ UNCHANGED thread
           \/ \E q \in Requests, at \in {"failed", "lost"} : thread' = [thread EXCEPT ![q] = at]
           \/ thread' = [r \in Requests |-> IF thread[r] \in {"new", "done", "failed"} THEN thread[r] ELSE "lost"]
    PROVE  RowsInv'
<1>1. /\ thread' \in [Requests -> {"new", "judged", "ordered", "done", "failed", "lost"}]
      /\ \A q \in Requests : thread'[q] = thread[q] \/ thread'[q] \in {"lost", "failed"}
    BY DEF RowsInv
<1>2. \A q \in Requests : thread'[q] \in {"new", "judged", "ordered"} => row'[q].status = "none"
    BY <1>1 DEF RowsInv, Unwritten
<1> QED BY <1>1, <1>2, MovesKeep, PassesKept DEF RowsInv

(* One that changes what the passes took.                                    *)
LEMMA PassKeeps ==
    ASSUME RowsInv, RowsMove, Unwritten,
           \/ UNCHANGED thread
           \/ thread' = [r \in Requests |-> IF thread[r] \in {"new", "done", "failed"} THEN thread[r] ELSE "lost"],
           pass' = [p \in Passes |-> pass'[p]],
           \A p \in Passes : \/ pass'[p] = pass[p]
                             \/ /\ pass'[p] = [on |-> pass'[p].on, trades |-> pass'[p].trades, price |-> pass'[p].price]
                                /\ pass'[p].trades \subseteq OpenRows
    PROVE  RowsInv'
<1>1. /\ thread' \in [Requests -> {"new", "judged", "ordered", "done", "failed", "lost"}]
      /\ \A q \in Requests : thread'[q] = thread[q] \/ thread'[q] = "lost"
    BY DEF RowsInv
<1>2. \A q \in Requests : thread'[q] \in {"new", "judged", "ordered"} => row'[q].status = "none"
    BY <1>1 DEF RowsInv, Unwritten
<1>3. \A t \in OpenRows : t \in Rows /\ Begun(t)
    BY DEF OpenRows, Begun
<1>4. \A p \in Passes :
         /\ pass'[p] = [on |-> pass'[p].on, trades |-> pass'[p].trades, price |-> pass'[p].price]
         /\ pass'[p].trades \subseteq Rows
         /\ \A t \in pass'[p].trades : Begun(t)
    BY <1>3 DEF RowsInv
<1>5. \A p \in Passes : \A t \in pass'[p].trades : Begun(t)'
    BY <1>4, MovesKeep
<1> QED BY <1>1, <1>2, <1>4, <1>5, MovesKeep DEF RowsInv

LEMMA RowsStep == RowsInv /\ [SaNext]_saVars => RowsInv'
<1> SUFFICES ASSUME RowsInv, [SaNext]_saVars PROVE RowsInv'
    OBVIOUS
<1>0. RowsMove
    BY StepMoves
<1>1. ASSUME NEW r \in Requests, Judge(r) PROVE RowsInv'
    <2>1. row[r].status = "none" /\ UNCHANGED pass
        BY <1>1 DEF Judge, RowsInv, loopVars
    <2>2. \/ UNCHANGED row /\ thread' = [thread EXCEPT ![r] = "judged"]
          \/ Reject(r)
        BY <1>1 DEF Judge, tableVars
    <2>3. CASE UNCHANGED row /\ thread' = [thread EXCEPT ![r] = "judged"]
        BY <1>0, <2>1, <2>3, RequestKeeps
    <2>4. CASE Reject(r)
        <3>1. thread' = [thread EXCEPT ![r] = "done"] /\ \A t \in Rows : t # r => row'[t] = row[t]
            BY <2>4 DEF Reject, LogRow, RowsInv
        <3> QED BY <1>0, <2>1, <3>1, RequestKeeps
    <2> QED BY <2>2, <2>3, <2>4
<1>2. ASSUME NEW r \in Requests, Execute(r) PROVE RowsInv'
    <2>1. row[r].status = "none" /\ UNCHANGED pass
        BY <1>2 DEF Execute, RowsInv, loopVars
    <2>2. \/ UNCHANGED row /\ \E at \in {"ordered", "failed"} : thread' = [thread EXCEPT ![r] = at]
          \/ Reject(r)
        BY <1>2 DEF Execute, PlaceOrder, tableVars
    <2>3. CASE UNCHANGED row /\ \E at \in {"ordered", "failed"} : thread' = [thread EXCEPT ![r] = at]
        BY <1>0, <2>1, <2>3, RequestKeeps
    <2>4. CASE Reject(r)
        <3>1. thread' = [thread EXCEPT ![r] = "done"] /\ \A t \in Rows : t # r => row'[t] = row[t]
            BY <2>4 DEF Reject, LogRow, RowsInv
        <3> QED BY <1>0, <2>1, <3>1, RequestKeeps
    <2> QED BY <2>2, <2>3, <2>4
<1>3. ASSUME NEW r \in Requests, LogTrade(r) PROVE RowsInv'
    <2>1. UNCHANGED pass /\ thread' = [thread EXCEPT ![r] = "done"]
          /\ \A t \in Rows : t # r => row'[t] = row[t]
        BY <1>3 DEF LogTrade, LogRow, RowsInv, loopVars
    <2> QED BY <1>0, <2>1, RequestKeeps
<1>4. ASSUME NEW p \in Passes, StartPass(p) PROVE RowsInv'
    <2>1. UNCHANGED thread /\ Unwritten
        BY <1>4, StartMoves DEF StartPass
    <2>2. \/ UNCHANGED pass
          \/ \E taken : pass' = [pass EXCEPT ![p] = [on |-> TRUE, trades |-> OpenRows, price |-> taken]]
        BY <1>4 DEF StartPass
    <2>3. CASE UNCHANGED pass
        BY <1>0, <2>1, <2>3, OthersKeep
    <2>4. ASSUME NEW taken, pass' = [pass EXCEPT ![p] = [on |-> TRUE, trades |-> OpenRows, price |-> taken]]
          PROVE  RowsInv'
        <3>1. /\ pass' = [q \in Passes |-> pass'[q]]
              /\ \A q \in Passes : pass'[q] = pass[q] \/ pass'[q] = [on |-> TRUE, trades |-> OpenRows, price |-> taken]
            BY <2>4 DEF RowsInv
        <3> QED BY <1>0, <2>1, <3>1, PassKeeps
    <2> QED BY <2>2, <2>3, <2>4
<1>5. ASSUME NEW p \in Passes, NEW quotes, FinishPass(p, quotes) PROVE RowsInv'
    <2>1. UNCHANGED thread /\ Unwritten /\ pass' = [pass EXCEPT ![p] = NoPass]
        BY <1>5, FinishMoves DEF FinishPass
    <2>2. /\ pass' = [q \in Passes |-> pass'[q]]
          /\ \A q \in Passes : pass'[q] = pass[q] \/ pass'[q] = NoPass
        BY <2>1 DEF RowsInv
    <2>3. NoPass = [on |-> NoPass.on, trades |-> NoPass.trades, price |-> NoPass.price] /\ NoPass.trades = {}
        BY DEF NoPass
    <2> QED BY <1>0, <2>1, <2>2, <2>3, PassKeeps
<1>6. CASE SyncApply
    BY <1>0, <1>6, SyncMoves, OthersKeep DEF SyncApply
<1>7. CASE Restart
    <2>1. /\ UNCHANGED row /\ pass' = [p \in Passes |-> NoPass]
          /\ thread' = [r \in Requests |-> IF thread[r] \in {"new", "done", "failed"} THEN thread[r] ELSE "lost"]
        BY <1>7 DEF Restart, tableVars
    <2>2. Unwritten
        BY <2>1 DEF Unwritten
    <2>3. NoPass = [on |-> NoPass.on, trades |-> NoPass.trades, price |-> NoPass.price] /\ NoPass.trades = {}
        BY DEF NoPass
    <2>4. pass' = [p \in Passes |-> pass'[p]] /\ \A p \in Passes : pass'[p] = NoPass
        BY <2>1
    <2> QED BY <1>0, <2>1, <2>2, <2>3, <2>4, PassKeeps
<1>8. CASE LoopDies
    <2>1. UNCHANGED <<row, thread>> /\ pass' = [pass EXCEPT !["loop"] = NoPass]
        BY <1>8 DEF LoopDies, tableVars
    <2>2. /\ pass' = [q \in Passes |-> pass'[q]]
          /\ \A q \in Passes : pass'[q] = pass[q] \/ pass'[q] = NoPass
        BY <2>1 DEF RowsInv
    <2>3. NoPass = [on |-> NoPass.on, trades |-> NoPass.trades, price |-> NoPass.price] /\ NoPass.trades = {}
        BY DEF NoPass
    <2>4. Unwritten
        BY <2>1 DEF Unwritten
    <2> QED BY <1>0, <2>1, <2>2, <2>3, <2>4, PassKeeps
<1>9. ASSUME UNCHANGED <<row, thread, pass>> PROVE RowsInv'
    BY <1>9 DEF RowsInv, Begun
<1>10. ASSUME NEW s \in Symbols, NEW x, PublishPrice(s, x) \/ VenueCloses(s, x)
       PROVE  UNCHANGED <<row, thread, pass>>
    BY <1>10 DEF PublishPrice, VenueCloses, tableVars, loopVars
<1>11. ASSUME CooldownOver \/ SyncRead \/ UNCHANGED saVars PROVE UNCHANGED <<row, thread, pass>>
    BY <1>11 DEF CooldownOver, SyncRead, saVars, tableVars, loopVars
<1>12. ASSUME NEW r \in Requests, Raises(r) PROVE RowsInv'
    <2>1. UNCHANGED <<row, pass>> /\ \E at \in {"failed", "lost"} : thread' = [thread EXCEPT ![r] = at]
        BY <1>12 DEF Raises, tableVars, loopVars
    <2>2. Unwritten
        BY <2>1 DEF Unwritten
    <2> QED BY <1>0, <2>1, <2>2, OthersKeep
<1> QED BY <1>1, <1>2, <1>3, <1>4, <1>5, <1>6, <1>7, <1>8, <1>9, <1>10, <1>11, <1>12 DEF SaNext

(* For any requests, passes and prices: however the passes of the monitor    *)
(* and the synchronisations overlap, a closed trade stays closed with the    *)
(* price and the reason it was closed with.                                  *)
THEOREM ClosedTradesStay == SaSpec => OutcomeIsFinal
<1> DEFINE Final == \A t \in Rows : row[t].status = "closed" =>
                        /\ row'[t].status = "closed"
                        /\ row'[t].exit = row[t].exit /\ row'[t].reason = row[t].reason
<1>1. RowsInv /\ [SaNext]_saVars => [Final]_saVars
    BY StepMoves DEF RowsMove, Moves
<1> HIDE DEF Final
<1>2. SaSpec => [][Final]_saVars
    BY <1>1, RowsInit, RowsStep, PTL DEF SaSpec
<1> QED BY <1>2 DEF OutcomeIsFinal, Final

-----------------------------------------------------------------------------
(* Exposure: as many threads as the pool has are past their checks, and when *)
(* one of them orders, the others may have ordered already, but all of these *)
(* are still running.                                                        *)

BoughtRows == OpenRows \cap Requests
Ordered == {r \in Requests : thread[r] = "ordered"}

BoundInv == Cardinality(Running) <= Pool /\ OpenTradesBound

LEMMA BoundFacts ==
    /\ IsFiniteSet(OpenRows \cap (Requests \cup Orphans)) /\ IsFiniteSet(BoughtRows)
    /\ IsFiniteSet(Ordered) /\ IsFiniteSet(Running)
    /\ Cardinality(BoughtRows) \in Nat /\ Cardinality(Ordered) \in Nat /\ Cardinality(Running) \in Nat
    /\ MaxOpen \in Nat \ {0} /\ Pool \in Nat \ {0}
<1>1. IsFiniteSet(Requests) /\ IsFiniteSet(Symbols)
    BY StandAloneAssumption DEF StandAloneAssumption
<1>2. IsFiniteSet(Orphans)
    <2> DEFINE f == [s \in Symbols |-> OrphanOf[s]]
    <2>1. f \in Surjection(Symbols, Orphans)
        BY DEF Surjection, Orphans
    <2> QED BY <1>1, <2>1, FS_Surjection
<1>3. IsFiniteSet(Requests \cup Orphans)
    BY <1>1, <1>2, FS_Union
<1>4. IsFiniteSet(OpenRows \cap (Requests \cup Orphans))
    BY <1>3, FS_Subset
<1>5. IsFiniteSet(BoughtRows) /\ IsFiniteSet(Ordered) /\ IsFiniteSet(Running)
    BY <1>1, FS_Subset DEF BoughtRows, Ordered, Running
<1>6. Cardinality(BoughtRows) \in Nat /\ Cardinality(Ordered) \in Nat /\ Cardinality(Running) \in Nat
    BY <1>5, FS_CardinalityType
<1> QED BY <1>4, <1>5, <1>6, StandAloneAssumption DEF StandAloneAssumption

LEMMA BoundInit == SaInit => BoundInv
<1> SUFFICES ASSUME SaInit PROVE BoundInv
    OBVIOUS
<1>1. Running = {} /\ Ordered = {}
    BY DEF SaInit, Running, Ordered
<1>2. OpenRows = {}
    BY DEF SaInit, OpenRows, Blank
<1>3. BoughtRows = {}
    BY <1>2 DEF BoughtRows
<1>4. Cardinality(Running) = 0 /\ Cardinality(BoughtRows) = 0 /\ Cardinality(Ordered) = 0
    BY <1>1, <1>3, FS_EmptySet
<1> QED BY <1>4, BoundFacts DEF BoundInv, OpenTradesBound, BoughtRows, Ordered

(* A step in which no request runs, orders or has bought that did not.       *)
LEMMA BoundKept ==
    ASSUME BoundInv, Running' \subseteq Running, Ordered' \subseteq Ordered, BoughtRows' \subseteq BoughtRows
    PROVE  BoundInv'
<1>1. Cardinality(Running') <= Cardinality(Running) /\ Cardinality(Ordered') <= Cardinality(Ordered)
      /\ Cardinality(BoughtRows') <= Cardinality(BoughtRows)
    BY BoundFacts, FS_Subset
<1>2. Cardinality(Running') \in Nat /\ Cardinality(Ordered') \in Nat /\ Cardinality(BoughtRows') \in Nat
    BY BoundFacts, FS_Subset, FS_CardinalityType
<1> QED BY <1>1, <1>2, BoundFacts DEF BoundInv, OpenTradesBound, BoughtRows, Ordered

LEMMA BoughtKept ==
    ASSUME RowsInv, RowsMove, Unwritten
    PROVE  BoughtRows' \subseteq BoughtRows
BY RowFacts DEF RowsMove, Moves, Unwritten, BoughtRows, OpenRows

LEMMA RejectKeeps ==
    ASSUME RowsInv, BoundInv, NEW r \in Requests, Reject(r)
    PROVE  BoundInv'
<1>1. Running' \subseteq Running /\ Ordered' \subseteq Ordered
    BY DEF Reject, Running, Ordered, RowsInv
<1>2. BoughtRows' \subseteq BoughtRows
    BY DEF Reject, LogRow, BoughtRows, OpenRows, RowsInv, Blank
<1> QED BY <1>1, <1>2, BoundKept

LEMMA BoundStep ==
    ASSUME RowsInv, BoundInv, [SaNext]_saVars
    PROVE  BoundInv'
<1>0. RowsMove
    BY StepMoves
<1>1. ASSUME NEW r \in Requests, Judge(r) PROVE BoundInv'
    <2>1. Cardinality(Running) < Pool
        BY <1>1 DEF Judge
    <2>2. Reject(r) \/ (UNCHANGED tableVars /\ thread' = [thread EXCEPT ![r] = "judged"] /\ thread[r] = "new")
        BY <1>1 DEF Judge
    <2>3. CASE UNCHANGED tableVars /\ thread' = [thread EXCEPT ![r] = "judged"] /\ thread[r] = "new"
        <3>1. Running' = Running \cup {r} /\ Ordered' = Ordered /\ r \notin Running /\ BoughtRows' = BoughtRows
            BY <2>3 DEF Running, Ordered, RowsInv, BoughtRows, OpenRows, tableVars
        <3>2. Cardinality(Running') = Cardinality(Running) + 1
            BY <3>1, BoundFacts, FS_AddElement
        <3>3. Cardinality(Running') <= Pool
            BY <2>1, <3>2, BoundFacts
        <3> QED BY <3>1, <3>3 DEF BoundInv, OpenTradesBound, BoughtRows, Ordered
    <2> QED BY <2>2, <2>3, RejectKeeps
<1>2. ASSUME NEW r \in Requests, Execute(r) PROVE BoundInv'
    <2>1. \/ Reject(r)
          \/ UNCHANGED tableVars /\ thread' = [thread EXCEPT ![r] = "failed"]
          \/ CanTrade /\ UNCHANGED tableVars /\ thread' = [thread EXCEPT ![r] = "ordered"]
        BY <1>2 DEF Execute, PlaceOrder
    <2>2. CASE UNCHANGED tableVars /\ thread' = [thread EXCEPT ![r] = "failed"]
        <3>1. Running' \subseteq Running /\ Ordered' \subseteq Ordered /\ BoughtRows' = BoughtRows
            BY <2>2 DEF Running, Ordered, RowsInv, BoughtRows, OpenRows, tableVars
        <3> QED BY <3>1, BoundKept
    <2>3. CASE CanTrade /\ UNCHANGED tableVars /\ thread' = [thread EXCEPT ![r] = "ordered"]
        <3>1. Running' = Running /\ Ordered' \subseteq Running /\ BoughtRows' = BoughtRows
            BY <1>2, <2>3 DEF Execute, Running, Ordered, RowsInv, BoughtRows, OpenRows, tableVars
        <3>2. OpenRows = OpenRows \cap (Requests \cup Orphans)
            BY DEF RowsInv, OpenRows
        <3>3. IsFiniteSet(OpenRows) /\ Cardinality(OpenRows) \in Nat
            BY <3>2, BoundFacts, FS_CardinalityType
        <3>4. Cardinality(BoughtRows) <= Cardinality(OpenRows)
            BY <3>3, FS_Subset DEF BoughtRows
        <3>5. Cardinality(BoughtRows) < MaxOpen
            BY <2>3, <3>3, <3>4, BoundFacts DEF CanTrade
        <3>6. Cardinality(Ordered') <= Cardinality(Running) /\ Cardinality(Ordered') \in Nat
            BY <3>1, BoundFacts, FS_Subset, FS_CardinalityType
        <3>7. Cardinality(BoughtRows') + Cardinality(Ordered') <= MaxOpen + Pool - 1
            BY <3>1, <3>5, <3>6, BoundFacts DEF BoundInv
        <3> QED BY <3>1, <3>7 DEF BoundInv, OpenTradesBound, BoughtRows, Ordered
    <2> QED BY <2>1, <2>2, <2>3, RejectKeeps
<1>3. ASSUME NEW r \in Requests, LogTrade(r) PROVE BoundInv'
    <2>1. /\ thread[r] = "ordered" /\ thread' = [thread EXCEPT ![r] = "done"]
          /\ row' = [row EXCEPT ![r] = [Blank EXCEPT !.status = "open", !.order = r]]
        BY <1>3 DEF LogTrade, LogRow
    <2>2. Running' \subseteq Running /\ Ordered' = Ordered \ {r} /\ r \in Ordered
        BY <2>1 DEF Running, Ordered, RowsInv
    <2>3. BoughtRows' \subseteq BoughtRows \cup {r}
        BY <2>1 DEF BoughtRows, OpenRows, RowsInv
    <2>4. Cardinality(Ordered') = Cardinality(Ordered) - 1
        BY <2>2, BoundFacts, FS_RemoveElement
    <2>5. /\ IsFiniteSet(BoughtRows \cup {r})
          /\ Cardinality(BoughtRows \cup {r}) <= Cardinality(BoughtRows) + 1
        <3>1. IsFiniteSet(BoughtRows) /\ Cardinality(BoughtRows) \in Nat
            BY BoundFacts, FS_CardinalityType
        <3>2. /\ IsFiniteSet(BoughtRows \cup {r})
              /\ \/ Cardinality(BoughtRows \cup {r}) = Cardinality(BoughtRows)
                 \/ Cardinality(BoughtRows \cup {r}) = Cardinality(BoughtRows) + 1
            BY <3>1, FS_AddElement
        <3> QED BY <3>1, <3>2
    <2>6. /\ Cardinality(BoughtRows') <= Cardinality(BoughtRows \cup {r})
          /\ Cardinality(BoughtRows') \in Nat /\ Cardinality(BoughtRows \cup {r}) \in Nat
        BY <2>3, <2>5, FS_Subset, FS_CardinalityType
    <2>7. Cardinality(Running') <= Cardinality(Running) /\ Cardinality(Running') \in Nat
        BY <2>2, BoundFacts, FS_Subset, FS_CardinalityType
    <2>8. Cardinality(BoughtRows) + Cardinality(Ordered) <= MaxOpen + Pool - 1
        BY DEF BoundInv, OpenTradesBound, BoughtRows, Ordered
    <2>9. Cardinality(BoughtRows') + Cardinality(Ordered') <= MaxOpen + Pool - 1
        BY <2>4, <2>5, <2>6, <2>8, BoundFacts
    <2>10. Cardinality(Running') <= Pool
        BY <2>7, BoundFacts DEF BoundInv
    <2> QED BY <2>9, <2>10 DEF BoundInv, OpenTradesBound, BoughtRows, Ordered
<1>4. ASSUME UNCHANGED thread, Unwritten PROVE BoundInv'
    <2>1. Running' = Running /\ Ordered' = Ordered
        BY <1>4 DEF Running, Ordered
    <2> QED BY <1>0, <1>4, <2>1, BoughtKept, BoundKept
<1>5. ASSUME NEW p \in Passes, NEW quotes, StartPass(p) \/ FinishPass(p, quotes) PROVE BoundInv'
    BY <1>4, <1>5, StartMoves, FinishMoves DEF StartPass, FinishPass
<1>6. CASE SyncApply
    BY <1>4, <1>6, SyncMoves DEF SyncApply
<1>7. CASE Restart
    <2>1. /\ UNCHANGED row
          /\ thread' = [r \in Requests |-> IF thread[r] \in {"new", "done", "failed"} THEN thread[r] ELSE "lost"]
        BY <1>7 DEF Restart, tableVars
    <2>2. Running' \subseteq Running /\ Ordered' \subseteq Ordered /\ BoughtRows' = BoughtRows
        BY <2>1 DEF Running, Ordered, BoughtRows, OpenRows
    <2> QED BY <2>2, BoundKept
<1>8. ASSUME UNCHANGED <<row, thread>> PROVE BoundInv'
    BY <1>4, <1>8 DEF Unwritten
<1>9. ASSUME NEW s \in Symbols, NEW x, PublishPrice(s, x) \/ VenueCloses(s, x) PROVE UNCHANGED <<row, thread>>
    BY <1>9 DEF PublishPrice, VenueCloses, tableVars
<1>10. ASSUME CooldownOver \/ LoopDies \/ SyncRead \/ UNCHANGED saVars PROVE UNCHANGED <<row, thread>>
    BY <1>10 DEF CooldownOver, LoopDies, SyncRead, saVars, tableVars
<1>11. ASSUME NEW r \in Requests, Raises(r) PROVE BoundInv'
    <2>1. UNCHANGED row /\ \E at \in {"failed", "lost"} : thread' = [thread EXCEPT ![r] = at]
        BY <1>11 DEF Raises, tableVars
    <2>2. Running' \subseteq Running /\ Ordered' \subseteq Ordered /\ BoughtRows' = BoughtRows
        BY <2>1 DEF Running, Ordered, BoughtRows, OpenRows, RowsInv
    <2> QED BY <2>2, BoundKept
<1> QED BY <1>1, <1>2, <1>3, <1>5, <1>6, <1>7, <1>8, <1>9, <1>10, <1>11 DEF SaNext

-----------------------------------------------------------------------------
(* What stands at the broker is in a thread's hands or has a row.            *)

HeldInv ==
    /\ held \in [Symbols -> Requests \cup {NoTrade}]
    /\ PositionsAccounted

LEMMA HeldInit == SaInit => HeldInv
BY DEF SaInit, HeldInv, PositionsAccounted, NoTrade

(* Threads and rows go on, and nothing new is held.                          *)
LEMMA HeldKept ==
    ASSUME RowsInv, RowsMove, HeldInv,
           \A s \in Symbols : held'[s] = held[s] \/ held'[s] = NoTrade,
           held' \in [Symbols -> Requests \cup {NoTrade}],
           \A r \in Requests :
              /\ thread[r] = "ordered" => thread'[r] \in {"ordered", "lost"}
                                          \/ (thread'[r] = "done" /\ row'[r].status # "none")
              /\ thread[r] \in {"lost", "done"} => thread'[r] = thread[r]
    PROVE  HeldInv'
<1>1. \A t \in Rows : row[t].status # "none" => row'[t].status # "none"
    BY DEF RowsMove, Moves
<1> QED BY <1>1, RowFacts DEF HeldInv, PositionsAccounted

LEMMA HeldStep ==
    ASSUME RowsInv, HeldInv, [SaNext]_saVars
    PROVE  HeldInv'
<1>0. RowsMove
    BY StepMoves
<1>1. ASSUME NEW r \in Requests, Judge(r) PROVE HeldInv'
    <2>1. UNCHANGED held /\ thread[r] = "new" /\ \E at \in {"judged", "done"} : thread' = [thread EXCEPT ![r] = at]
        BY <1>1 DEF Judge, Reject, brokerVars
    <2>2. \A q \in Requests : thread'[q] = thread[q] \/ thread[q] = "new"
        BY <2>1 DEF RowsInv
    <2> QED BY <1>0, <2>1, <2>2, HeldKept DEF HeldInv
<1>2. ASSUME NEW r \in Requests, Execute(r) PROVE HeldInv'
    <2>1. thread[r] = "judged" /\ \E at \in {"ordered", "done", "failed"} : thread' = [thread EXCEPT ![r] = at]
        BY <1>2 DEF Execute, PlaceOrder, Reject
    <2>2. \A q \in Requests : thread'[q] = thread[q] \/ thread[q] = "judged"
        BY <2>1 DEF RowsInv
    <2>3. CASE UNCHANGED held
        BY <1>0, <2>2, <2>3, HeldKept DEF HeldInv
    <2>4. CASE held' = [held EXCEPT ![SymbolOf[r]] = r]
        <3>1. SymbolOf[r] \in Symbols
            BY RowFacts
        <3>2. held' \in [Symbols -> Requests \cup {NoTrade}]
            BY <2>4 DEF HeldInv
        <3>3. held'[SymbolOf[r]] = r /\ \A s \in Symbols : s # SymbolOf[r] => held'[s] = held[s]
            BY <2>4, <3>1 DEF HeldInv
        <3>4. \/ thread'[r] = "ordered"
              \/ thread'[r] = "done" /\ row'[r].status # "none"
            <4>1. PlaceOrder(r) \/ UNCHANGED held
                BY <1>2 DEF Execute
            <4>2. CASE PlaceOrder(r)
                <5>1. \/ thread' = [thread EXCEPT ![r] = "ordered"]
                      \/ Reject(r)
                    BY <4>2 DEF PlaceOrder
                <5>2. Reject(r) => row'[r].status = "rejected" /\ thread'[r] = "done"
                    BY RowFacts DEF Reject, LogRow, RowsInv, Blank
                <5> QED BY <5>1, <5>2 DEF RowsInv
            <4>3. CASE UNCHANGED held
                <5>1. held[SymbolOf[r]] = r
                    BY <3>3, <4>3
                <5> QED BY <2>1, <3>1, <5>1, RowFacts DEF HeldInv, PositionsAccounted
            <4> QED BY <4>1, <4>2, <4>3
        <3>5. ASSUME NEW s \in Symbols, held'[s] # NoTrade, s # SymbolOf[r]
              PROVE  \/ thread'[held'[s]] \in {"ordered", "lost"}
                     \/ thread'[held'[s]] = "done" /\ row'[held'[s]].status # "none"
            <4>1. held'[s] = held[s] /\ held[s] \in Requests
                BY <3>3, <3>5 DEF HeldInv
            <4>2. \/ thread[held[s]] \in {"ordered", "lost"}
                  \/ thread[held[s]] = "done" /\ row[held[s]].status # "none"
                BY <3>5, <4>1 DEF HeldInv, PositionsAccounted
            <4>3. thread'[held[s]] = thread[held[s]]
                BY <2>2, <4>1, <4>2
            <4>4. row[held[s]].status # "none" => row'[held[s]].status # "none"
                BY <1>0, <4>1, RowFacts DEF RowsMove, Moves
            <4> QED BY <4>1, <4>2, <4>3, <4>4
        <3> QED BY <3>2, <3>3, <3>4, <3>5 DEF HeldInv, PositionsAccounted
    <2> QED BY <1>2, <2>3, <2>4 DEF Execute, PlaceOrder
<1>3. ASSUME NEW r \in Requests, LogTrade(r) PROVE HeldInv'
    <2>1. /\ UNCHANGED held /\ thread[r] = "ordered" /\ thread' = [thread EXCEPT ![r] = "done"]
          /\ row' = [row EXCEPT ![r] = [Blank EXCEPT !.status = "open", !.order = r]]
        BY <1>3 DEF LogTrade, LogRow, brokerVars
    <2>2. row'[r].status = "open" /\ \A q \in Requests : q # r => thread'[q] = thread[q]
        BY <2>1, RowFacts DEF RowsInv, Blank
    <2>3. thread'[r] = "done"
        BY <2>1 DEF RowsInv
    <2> QED BY <1>0, <2>1, <2>2, <2>3, HeldKept DEF HeldInv
<1>4. ASSUME UNCHANGED <<thread, held>> PROVE HeldInv'
    BY <1>0, <1>4, HeldKept DEF HeldInv
<1>5. ASSUME NEW p \in Passes, NEW quotes, StartPass(p) \/ FinishPass(p, quotes) PROVE HeldInv'
    BY <1>4, <1>5 DEF StartPass, FinishPass, brokerVars
<1>6. CASE SyncApply
    BY <1>4, <1>6 DEF SyncApply, brokerVars
<1>7. CASE Restart
    <2>1. /\ thread' = [r \in Requests |-> IF thread[r] \in {"new", "done", "failed"} THEN thread[r] ELSE "lost"]
          /\ UNCHANGED held \/ held' = [s \in Symbols |-> NoTrade]
        BY <1>7 DEF Restart
    <2>2. held' \in [Symbols -> Requests \cup {NoTrade}] /\ \A s \in Symbols : held'[s] = held[s] \/ held'[s] = NoTrade
        BY <2>1 DEF HeldInv
    <2> QED BY <1>0, <2>1, <2>2, HeldKept
<1>8. ASSUME NEW s \in Symbols, NEW x, VenueCloses(s, x) PROVE HeldInv'
    <2>1. UNCHANGED thread /\ held' = [held EXCEPT ![s] = NoTrade]
        BY <1>8 DEF VenueCloses
    <2>2. held' \in [Symbols -> Requests \cup {NoTrade}] /\ \A u \in Symbols : held'[u] = held[u] \/ held'[u] = NoTrade
        BY <2>1 DEF HeldInv
    <2> QED BY <1>0, <2>1, <2>2, HeldKept
<1>9. ASSUME NEW s \in Symbols, NEW x, PublishPrice(s, x) PROVE HeldInv'
    BY <1>4, <1>9 DEF PublishPrice, brokerVars
<1>10. CASE CooldownOver \/ LoopDies \/ SyncRead \/ UNCHANGED saVars
    BY <1>4, <1>10 DEF CooldownOver, LoopDies, SyncRead, saVars, brokerVars
<1>11. ASSUME NEW r \in Requests, Raises(r) PROVE HeldInv'
    <2>1. /\ UNCHANGED held /\ thread[r] \in {"judged", "ordered"}
          /\ thread' = [thread EXCEPT ![r] = IF thread[r] = "ordered" THEN "lost" ELSE "failed"]
        BY <1>11 DEF Raises, brokerVars, Running
    <2>2. \A q \in Requests :
             /\ thread[q] = "ordered" => thread'[q] \in {"ordered", "lost"}
             /\ thread[q] \in {"lost", "done"} => thread'[q] = thread[q]
        BY <2>1 DEF RowsInv
    <2> QED BY <1>0, <2>1, <2>2, HeldKept DEF HeldInv
<1> QED BY <1>1, <1>2, <1>3, <1>5, <1>6, <1>7, <1>8, <1>9, <1>10, <1>11 DEF SaNext

(* For any pool, limit and broker: threads that checked at the same time     *)
(* exceed the limit of open trades by at most the pool less one, and every   *)
(* position of the broker has a row or a thread that is about to write it,   *)
(* unless the process died in between.                                       *)
THEOREM ExposureIsKnown == SaSpec => []ExposureKnown
<1> DEFINE Inv == RowsInv /\ BoundInv /\ HeldInv
<1>1. SaInit => Inv
    BY RowsInit, BoundInit, HeldInit
<1>2. Inv /\ [SaNext]_saVars => Inv'
    BY RowsStep, BoundStep, HeldStep
<1>3. Inv => ExposureKnown
    BY DEF BoundInv, HeldInv, ExposureKnown
<1> QED BY <1>1, <1>2, <1>3, PTL DEF SaSpec

-----------------------------------------------------------------------------
(* The lockout: the streak of losses counts the newest closed rows, and with *)
(* nothing open, no request under way and nothing to attach none is added.  *)
ClosingsInv == closings \in Seq(Rows)

(* There are only so many rows. *)
LEMMA RowsFinite == IsFiniteSet(Rows) /\ Seeds \in Seq(Rows)
<1>1. Seeds \in Seq(Nat) /\ IsFiniteSet(Requests) /\ IsFiniteSet(Symbols) BY StandAloneAssumption
<1>2. DOMAIN Seeds = 1..Len(Seeds) /\ Len(Seeds) \in Nat BY <1>1
<1>3. IsFiniteSet(ToSet(Seeds))
  <2>1. IsFiniteSet(DOMAIN Seeds) BY <1>2, FS_Interval
  <2>2. [i \in DOMAIN Seeds |-> Seeds[i]] \in Surjection(DOMAIN Seeds, ToSet(Seeds)) BY DEF Surjection, ToSet
  <2> QED BY <2>1, <2>2, FS_Surjection
<1>4. IsFiniteSet(Orphans)
  <2>1. [s \in Symbols |-> OrphanOf[s]] \in Surjection(Symbols, Orphans) BY DEF Surjection, Orphans
  <2> QED BY <1>1, <2>1, FS_Surjection
<1>5. IsFiniteSet(Rows)
  <2>1. IsFiniteSet(Requests \cup ToSet(Seeds)) BY <1>1, <1>3, FS_Union
  <2>2. Rows = (Requests \cup ToSet(Seeds)) \cup Orphans BY DEF Rows, Orphans
  <2> QED BY <1>4, <2>1, <2>2, FS_Union
<1>6. \A i \in 1..Len(Seeds) : Seeds[i] \in Rows BY <1>2 DEF ToSet, Rows
<1>7. Seeds \in Seq(Rows) BY <1>1, <1>2, <1>6
<1> QED BY <1>5, <1>7

(* A row is added to the closings once, in any order with the others.       *)
LEMMA Arranged ==
    ASSUME NEW S, S \subseteq Rows
    PROVE  /\ \A seq \in SetToSeqs(S) : seq \in Seq(Rows)
           /\ S = {} => SetToSeqs(S) = {<<>>}
<1>1. IsFiniteSet(S) BY RowsFinite, FS_Subset
<1>2. Cardinality(S) \in Nat BY <1>1, FS_CardinalityType
<1>3. \A seq \in SetToSeqs(S) : seq \in [1..Cardinality(S) -> S] BY DEF SetToSeqs
<1>4. \A seq \in SetToSeqs(S) : seq \in Seq(Rows) BY <1>2, <1>3
<1>5. ASSUME S = {} PROVE SetToSeqs(S) = {<<>>}
  <2>1. Cardinality(S) = 0 BY <1>5, FS_EmptySet
  <2>2. 1..0 = {} OBVIOUS
  <2>3. SetToSeqs(S) = {f \in [{} -> {}] : TRUE} BY <1>5, <2>1, <2>2 DEF SetToSeqs
  <2>4. \A f \in [{} -> {}] : f = <<>> OBVIOUS
  <2>5. <<>> \in [{} -> {}] OBVIOUS
  <2> QED BY <2>3, <2>4, <2>5
<1> QED BY <1>4, <1>5

(* What a step may add to the closings. *)
LEMMA ClosingsStep ==
    ASSUME RowsInv, ClosingsInv, [SaNext]_saVars
    PROVE  /\ ClosingsInv'
           /\ OpenRows = {} => closings' = closings
<1> DEFINE Adds(S) == \E seq \in SetToSeqs(S) : closings' = closings \o seq
<1>1. ASSUME NEW S, S \subseteq Rows, Adds(S), OpenRows = {} => S = {}
      PROVE  ClosingsInv' /\ (OpenRows = {} => closings' = closings)
  <2>1. PICK seq \in SetToSeqs(S) : closings' = closings \o seq BY <1>1
  <2>2. seq \in Seq(Rows) /\ (S = {} => seq = <<>>) BY <1>1, Arranged
  <2>3. closings \in Seq(Rows) BY DEF ClosingsInv
  <2>4. closings \o seq \in Seq(Rows) /\ closings \o <<>> = closings BY <2>2, <2>3
  <2> QED BY <1>1, <2>1, <2>2, <2>4 DEF ClosingsInv
<1>2. ASSUME NEW exits, CloseRows(exits), \A t \in DOMAIN exits : t \in Rows /\ Begun(t)
      PROVE  ClosingsInv' /\ (OpenRows = {} => closings' = closings)
  <2> DEFINE now == {t \in DOMAIN exits : row[t].status # "closed"}
  <2>1. Adds(now) /\ now \subseteq Rows BY <1>2 DEF CloseRows
  <2>2. now \subseteq OpenRows BY <1>2 DEF Begun, OpenRows
  <2> HIDE DEF now, Adds
  <2> QED BY <1>1, <2>1, <2>2
<1>3. ASSUME UNCHANGED closings PROVE ClosingsInv' /\ (OpenRows = {} => closings' = closings)
  BY <1>3 DEF ClosingsInv
<1>4. ASSUME NEW p \in Passes, StartPass(p) PROVE ClosingsInv' /\ (OpenRows = {} => closings' = closings)
  <2>1. \A quotes : \A t \in DOMAIN Exits(OpenRows, quotes) : t \in Rows /\ Begun(t)
    BY ExitsOnlyTaken DEF OpenRows, Begun
  <2>2. UNCHANGED closings \/ \E quotes : CloseRows(Exits(OpenRows, quotes)) BY <1>4 DEF StartPass
  <2> QED BY <1>2, <1>3, <2>1, <2>2
<1>5. ASSUME NEW p \in Passes, NEW quotes, FinishPass(p, quotes)
      PROVE  ClosingsInv' /\ (OpenRows = {} => closings' = closings)
  <2>1. \A q : \A t \in DOMAIN Exits(pass[p].trades, q) : t \in Rows /\ Begun(t) BY ExitsOnlyTaken DEF RowsInv
  <2>2. \E q : CloseRows(Exits(pass[p].trades, q)) BY <1>5 DEF FinishPass
  <2> QED BY <1>2, <2>1, <2>2
<1>6. ASSUME SyncApply PROVE ClosingsInv' /\ (OpenRows = {} => closings' = closings)
  <2> DEFINE gone   == {t \in OpenRows : sync.held[SymbolOfRow(t)] = NoTrade}
             filled == {t \in gone : row[t].order \in DOMAIN orders}
  <2>1. Adds(filled) BY <1>6, Zenon DEF SyncApply
  <2>2. filled \subseteq OpenRows /\ filled \subseteq Rows BY DEF OpenRows
  <2> HIDE DEF filled, Adds
  <2> QED BY <1>1, <2>1, <2>2
<1>7. CASE \/ \E r \in Requests : Judge(r) \/ Execute(r) \/ LogTrade(r) \/ Raises(r)
           \/ CooldownOver \/ LoopDies \/ SyncRead \/ Restart \/ UNCHANGED saVars
           \/ \E s \in Symbols : \E x : PublishPrice(s, x) \/ VenueCloses(s, x)
  <2>1. UNCHANGED closings
    BY <1>7, Zenon DEF Judge, Execute, PlaceOrder, Reject, LogTrade, Raises, CooldownOver, LoopDies, SyncRead, Restart, PublishPrice, VenueCloses,
      saVars, tableVars
  <2> QED BY <1>3, <2>1
<1> QED BY <1>4, <1>5, <1>6, <1>7 DEF SaNext

(* As long as no row is closed, the outcomes of the closed ones stay.       *)
LEMMA StreakStays ==
    ASSUME RowsInv, RowsMove, ClosingsInv, closings' = closings, OpenRows = {}
    PROVE  Streak' = Streak
<1>1. ASSUME NEW t \in Rows PROVE Pnl(t)' = Pnl(t)
  <2>1. row'[t] = row[t] \/ (row[t].status = "none" /\ row'[t].status \in {"open", "rejected"})
    BY DEF RowsMove, Moves, OpenRows
  <2> QED BY <2>1 DEF Pnl
<1>2. Len(closings) \in Nat /\ \A i \in 1..Len(closings) : closings[i] \in Rows BY DEF ClosingsInv
<1> DEFINE Lost(n) == \A i \in (Len(closings) - n + 1)..Len(closings) : Pnl(closings[i]) < 0
           LostNext(n) == \A i \in (Len(closings) - n + 1)..Len(closings) : Pnl(closings[i])' < 0
<1>3. ASSUME NEW n \in 0..Len(closings) PROVE Lost(n) <=> LostNext(n)
  <2>1. \A i \in (Len(closings) - n + 1)..Len(closings) : closings[i] \in Rows BY <1>2
  <2>2. \A i \in (Len(closings) - n + 1)..Len(closings) : Pnl(closings[i])' = Pnl(closings[i])
    <3> SUFFICES ASSUME NEW i \in (Len(closings) - n + 1)..Len(closings) PROVE Pnl(closings[i])' = Pnl(closings[i])
      OBVIOUS
    <3>1. PICK t \in Rows : closings[i] = t /\ closings'[i] = t BY <2>1
    <3>2. Pnl(t)' = Pnl(t) BY <1>1
    <3> QED BY <3>1, <3>2 DEF Pnl
  <2> QED BY <2>2
<1>4. Streak = Max({n \in 0..Len(closings) : Lost(n)}) BY DEF Streak
<1>5. Streak' = Max({n \in 0..Len(closings) : LostNext(n)}) BY DEF Streak
<1>6. {n \in 0..Len(closings) : Lost(n)} = {n \in 0..Len(closings) : LostNext(n)} BY <1>3
<1> HIDE DEF Lost, LostNext
<1> QED BY <1>4, <1>5, <1>6

(* A lockout outlasts every step. *)
LEMMA LockoutStep == RowsInv /\ ClosingsInv /\ [SaNext]_saVars => [LockedOut => LockedOut']_saVars
<1> SUFFICES ASSUME RowsInv, ClosingsInv, [SaNext]_saVars, LockedOut PROVE LockedOut'
  OBVIOUS
<1>1. /\ Streak >= MaxLosses /\ OpenRows = {} /\ Running = {}
      /\ \A s \in Symbols : held[s] = NoTrade /\ sync.held[s] = NoTrade
  BY DEF LockedOut
<1>2. RowsMove BY StepMoves
<1>3. Streak' >= MaxLosses BY <1>1, <1>2, ClosingsStep, StreakStays
<1>4. \A r \in Requests : thread[r] \notin {"judged", "ordered"} BY <1>1 DEF Running
<1>5. \A t \in Rows : row[t].status # "open" BY <1>1 DEF OpenRows
\* no row is opened by a step that rejects, or that writes nothing
<1>6. ASSUME \A t \in Rows : row'[t] = row[t] \/ row'[t].status = "rejected" PROVE OpenRows' = {}
  BY <1>5, <1>6 DEF OpenRows
<1>7. ASSUME UNCHANGED row \/ \E r \in Requests : row' = [row EXCEPT ![r] = [Blank EXCEPT !.status = "rejected"]],
             \A r \in Requests : thread'[r] \notin {"judged", "ordered"},
             \A s \in Symbols : held'[s] = NoTrade /\ sync'.held[s] = NoTrade
      PROVE  LockedOut'
  <2>1. [Blank EXCEPT !.status = "rejected"].status = "rejected" BY DEF Blank
  <2>2. OpenRows' = {} BY <1>6, <1>7, <2>1 DEF RowsInv
  <2>3. Running' = {} BY <1>7 DEF Running
  <2> QED BY <1>3, <1>7, <2>2, <2>3 DEF LockedOut
<1>8. ASSUME NEW r \in Requests, Judge(r) PROVE LockedOut'
  <2>1. ~RiskApproves BY <1>1 DEF RiskApproves
  <2>2. Reject(r) /\ UNCHANGED <<held, sync>> BY <1>8, <2>1 DEF Judge, brokerVars, loopVars
  <2>3. /\ row' = [row EXCEPT ![r] = [Blank EXCEPT !.status = "rejected"]]
        /\ thread' = [thread EXCEPT ![r] = "done"]
    BY <2>2 DEF Reject, LogRow
  <2>4. \A q \in Requests : thread'[q] \notin {"judged", "ordered"} BY <1>4, <2>3 DEF RowsInv
  <2> QED BY <1>1, <1>7, <2>2, <2>3, <2>4
<1>9. ASSUME NEW r \in Requests PROVE ~Execute(r) /\ ~LogTrade(r) /\ ~Raises(r) BY <1>4 DEF Execute, LogTrade, Raises, Running
<1>10. ASSUME NEW s \in Symbols, NEW x PROVE ~VenueCloses(s, x) BY <1>1 DEF VenueCloses
<1>11. ASSUME NEW p \in Passes PROVE ~StartPass(p) BY <1>1 DEF StartPass
<1>12. ASSUME NEW p \in Passes, NEW quotes, FinishPass(p, quotes) PROVE LockedOut'
  <2>1. \A q : \A t \in DOMAIN Exits(pass[p].trades, q) : t \in Rows /\ Begun(t) BY ExitsOnlyTaken DEF RowsInv
  <2>2. PICK q : CloseRows(Exits(pass[p].trades, q)) BY <1>12 DEF FinishPass
  <2> DEFINE exits == Exits(pass[p].trades, q)
             now   == {t \in DOMAIN exits : row[t].status # "closed"}
  <2>3. now = {} BY <1>5, <2>1 DEF Begun
  <2>4. row' = [t \in Rows |-> IF t \in now THEN Closed(t, exits) ELSE row[t]] BY <2>2 DEF CloseRows
  <2> HIDE DEF now, exits
  <2>5. UNCHANGED row BY <2>3, <2>4 DEF RowsInv
  <2>6. UNCHANGED <<thread, held, sync>> BY <1>12 DEF FinishPass, brokerVars
  <2> QED BY <1>1, <1>4, <1>7, <2>5, <2>6
<1>13. CASE SyncApply
  <2> DEFINE gone   == {t \in OpenRows : sync.held[SymbolOfRow(t)] = NoTrade}
             filled == {t \in gone : row[t].order \in DOMAIN orders}
             exits  == [t \in filled |-> [price |-> orders[row[t].order], reason |-> "broker_fill"]]
             taken  == {OrphanOf[s] : s \in Attached}
             record(t) == [Blank EXCEPT !.status = "open", !.order = sync.held[SymbolOfRow(t)]]
  <2>1. filled = {} BY <1>1
  <2>2. taken = {} BY <1>1 DEF Attached
  <2>3. row' = [t \in Rows |-> CASE t \in filled -> Closed(t, exits) [] t \in taken -> record(t) [] OTHER -> row[t]]
    BY <1>13, Zenon DEF SyncApply
  <2> HIDE DEF filled, taken, exits, record
  <2>4. UNCHANGED row BY <2>1, <2>2, <2>3 DEF RowsInv
  <2>5. UNCHANGED <<thread, held>> /\ sync' = Idle BY <1>13, Zenon DEF SyncApply, brokerVars
  <2>6. \A s \in Symbols : Idle.held[s] = NoTrade BY DEF Idle
  <2> QED BY <1>1, <1>4, <1>7, <2>4, <2>5, <2>6
<1>14. CASE Restart
  <2>1. UNCHANGED row /\ sync' = Idle BY <1>14 DEF Restart, tableVars
  <2>2. \A s \in Symbols : Idle.held[s] = NoTrade BY DEF Idle
  <2>3. \A s \in Symbols : held'[s] = NoTrade BY <1>1, <1>14 DEF Restart
  <2>4. \A r \in Requests : thread'[r] \notin {"judged", "ordered"} BY <1>14 DEF Restart
  <2> QED BY <1>7, <2>1, <2>2, <2>3, <2>4
<1>15. CASE SyncRead
  <2>1. UNCHANGED <<row, thread, held>> /\ sync' = [on |-> TRUE, held |-> held] BY <1>15 DEF SyncRead, tableVars, brokerVars
  <2>2. \A s \in Symbols : sync'.held[s] = NoTrade BY <1>1, <2>1
  <2> QED BY <1>1, <1>4, <1>7, <2>1, <2>2
<1>16. CASE (\E s \in Symbols, p \in Published : PublishPrice(s, p)) \/ CooldownOver \/ LoopDies \/ UNCHANGED saVars
  <2>1. UNCHANGED <<row, thread, held, sync>>
    BY <1>16 DEF PublishPrice, CooldownOver, LoopDies, saVars, tableVars, brokerVars, loopVars
  <2> QED BY <1>1, <1>4, <1>7, <2>1
<1> QED BY <1>8, <1>9, <1>10, <1>11, <1>12, <1>13, <1>14, <1>15, <1>16 DEF SaNext

(* Three losses in a row with nothing open (risk_engine.evaluate_signal     *)
(* counts them over all closed trades, and only a close can end the streak): *)
(* no request, pass, synchronisation, close by the venue or restart ends    *)
(* the lockout of the whole service.                                         *)
THEOREM LockoutNeverEnds == SaSpec => LockoutIsFinal
<1>1. SaInit => RowsInv /\ ClosingsInv BY RowsInit, RowsFinite DEF SaInit, ClosingsInv
<1>2. RowsInv /\ ClosingsInv /\ [SaNext]_saVars => RowsInv' /\ ClosingsInv' BY RowsStep, ClosingsStep
<1> QED BY <1>1, <1>2, LockoutStep, PTL DEF SaSpec, LockoutIsFinal

-----------------------------------------------------------------------------
(* Types                                                                     *)

Orders == Requests \cup {NoTrade}
Levels == Prices \cup {NoPrice}
RowTypes == [status : {"none", "rejected", "open", "closed"}, order : Orders, exit : Nat,
             reason : {"", "sl", "tp", "broker_fill"}]

TableTypes  == row \in [Rows -> RowTypes] /\ created \in Seq(Rows) /\ closings \in Seq(Rows) /\ cooling \in BOOLEAN
BrokerTypes == /\ venue \in Venues /\ held \in [Symbols -> Orders]
               /\ DOMAIN orders \subseteq Requests /\ orders \in [DOMAIN orders -> Nat]
LoopTypes   == /\ sync \in [on : BOOLEAN, held : [Symbols -> Orders]]
               /\ pass \in [Passes -> [on : BOOLEAN, trades : SUBSET Rows, price : [Symbols -> Levels]]]
               /\ manual \in [Symbols -> Levels] /\ alive \in BOOLEAN
TypesInv ==
    /\ thread \in [Requests -> {"new", "judged", "ordered", "done", "failed", "lost"}]
    /\ TableTypes /\ BrokerTypes /\ LoopTypes

LEMMA TypesAre == TypesInv => SaTypeOK
<1> SUFFICES ASSUME TypesInv PROVE SaTypeOK  OBVIOUS
<1>1. \A t \in Rows : row[t] \in RowTypes  BY DEF TypesInv, TableTypes
<1>2. \A t \in Rows : /\ row[t].status \in {"none", "rejected", "open", "closed"}
                      /\ row[t].order \in Requests \cup {NoTrade}
                      /\ row[t].exit \in Nat
                      /\ row[t].reason \in {"", "sl", "tp", "broker_fill"}
  BY <1>1 DEF RowTypes, Orders
<1>3. sync.on \in BOOLEAN /\ sync.held \in [Symbols -> Requests \cup {NoTrade}]  BY DEF TypesInv, LoopTypes, Orders
<1>4. \A p \in Passes : /\ pass[p].on \in BOOLEAN /\ pass[p].trades \subseteq Rows
                        /\ pass[p].price \in [Symbols -> Prices \cup {NoPrice}]
  BY DEF TypesInv, LoopTypes, Levels
<1> QED  BY <1>2, <1>3, <1>4 DEF TypesInv, TableTypes, BrokerTypes, LoopTypes, SaTypeOK, Orders, Levels

LEMMA TypeFacts ==
    /\ Blank \in RowTypes
    /\ \A st \in {"rejected", "closed"} : [Blank EXCEPT !.status = st] \in RowTypes
    /\ \A r \in Orders : [Blank EXCEPT !.status = "open", !.order = r] \in RowTypes
    /\ Idle \in [on : BOOLEAN, held : [Symbols -> Orders]]
    /\ NoPass \in [on : BOOLEAN, trades : SUBSET Rows, price : [Symbols -> Levels]]
    /\ NoTrade \in Orders /\ NoPrice \in Levels /\ Requests \subseteq Orders /\ Orders \subseteq Nat /\ Levels \subseteq Nat
<1>1. /\ NoTrade \in Orders /\ NoPrice \in Levels /\ Requests \subseteq Orders /\ Orders \subseteq Nat /\ Levels \subseteq Nat
  BY StandAloneAssumption DEF StandAloneAssumption, NoTrade, NoPrice, Orders, Levels
<1>2. Blank \in RowTypes  BY <1>1 DEF Blank, RowTypes, NoPrice
<1>3. Idle \in [on : BOOLEAN, held : [Symbols -> Orders]]  BY <1>1 DEF Idle
<1>4. NoPass \in [on : BOOLEAN, trades : SUBSET Rows, price : [Symbols -> Levels]]  BY <1>1 DEF NoPass
<1> HIDE DEF Orders
<1>5. \A st \in {"rejected", "closed"} : [Blank EXCEPT !.status = st] \in RowTypes  BY <1>2 DEF RowTypes
<1>6. \A r \in Orders : [Blank EXCEPT !.status = "open", !.order = r] \in RowTypes  BY <1>2 DEF RowTypes
<1> QED  BY <1>1, <1>2, <1>3, <1>4, <1>5, <1>6

LEMMA TypesInit == SaInit => TypesInv
<1> SUFFICES ASSUME SaInit PROVE TypesInv  OBVIOUS
<1>1. row \in [Rows -> RowTypes]
  <2>1. \A t \in Rows : (IF t \in ToSet(Seeds) THEN [Blank EXCEPT !.status = "closed"] ELSE Blank) \in RowTypes
    BY TypeFacts
  <2> QED  BY <2>1 DEF SaInit
<1>2. TableTypes  BY <1>1, RowsFinite DEF SaInit, TableTypes
<1>3. BrokerTypes
  <2>1. held \in [Symbols -> Orders] /\ venue \in Venues  BY TypeFacts DEF SaInit
  <2>2. DOMAIN <<>> = {} /\ <<>> \in [{} -> Nat]  OBVIOUS
  <2>3. orders = <<>>  BY DEF SaInit
  <2> QED  BY <2>1, <2>2, <2>3 DEF BrokerTypes
<1>4. LoopTypes  BY TypeFacts DEF SaInit, LoopTypes
<1>5. thread \in [Requests -> {"new", "judged", "ordered", "done", "failed", "lost"}]  BY DEF SaInit
<1> QED  BY <1>2, <1>3, <1>4, <1>5 DEF TypesInv

(* A row that is written, and rows that are closed.                          *)
LEMMA LogTypes ==
    ASSUME TypesInv, NEW t \in Rows, NEW record \in RowTypes, LogRow(t, record), UNCHANGED closings, cooling' \in BOOLEAN
    PROVE  TableTypes'
<1>1. row' = [row EXCEPT ![t] = record] /\ created' = Append(created, t)  BY DEF LogRow
<1>2. row' \in [Rows -> RowTypes]  BY <1>1 DEF TypesInv, TableTypes
<1>3. created' \in Seq(Rows)  BY <1>1 DEF TypesInv, TableTypes
<1> QED  BY <1>2, <1>3 DEF TypesInv, TableTypes

ExitTypes(exits) ==
    /\ DOMAIN exits \subseteq Rows
    /\ \A t \in DOMAIN exits : exits[t].price \in Nat /\ exits[t].reason \in {"", "sl", "tp", "broker_fill"}

LEMMA ClosedTypes ==
    ASSUME TypesInv, NEW exits, ExitTypes(exits), NEW t \in DOMAIN exits
    PROVE  Closed(t, exits) \in RowTypes
<1>1. row[t] \in RowTypes  BY DEF TypesInv, TableTypes, ExitTypes
<1>2. exits[t].price \in Nat /\ exits[t].reason \in {"", "sl", "tp", "broker_fill"}  BY DEF ExitTypes
<1> QED  BY <1>1, <1>2 DEF Closed, RowTypes

LEMMA CloseTypes ==
    ASSUME TypesInv, NEW exits, ExitTypes(exits), CloseRows(exits), UNCHANGED <<created, cooling>>
    PROVE  TableTypes'
<1> DEFINE now == {t \in DOMAIN exits : row[t].status # "closed"}
<1>1. row' = [t \in Rows |-> IF t \in now THEN Closed(t, exits) ELSE row[t]]  BY DEF CloseRows
<1>2. PICK seq \in SetToSeqs(now) : closings' = closings \o seq  BY DEF CloseRows
<1>3. now \subseteq Rows /\ now \subseteq DOMAIN exits  BY DEF ExitTypes
<1> HIDE DEF now
<1>4. row' \in [Rows -> RowTypes]
  <2>1. \A t \in Rows : (IF t \in now THEN Closed(t, exits) ELSE row[t]) \in RowTypes
    BY <1>3, ClosedTypes DEF TypesInv, TableTypes
  <2> QED  BY <1>1, <2>1
<1>5. closings' \in Seq(Rows)
  <2>1. seq \in Seq(Rows)  BY <1>2, <1>3, Arranged
  <2> QED  BY <1>2, <2>1 DEF TypesInv, TableTypes
<1> QED  BY <1>4, <1>5 DEF TypesInv, TableTypes

LEMMA ExitsTyped ==
    ASSUME NEW trades, trades \subseteq Rows, NEW quotes, \A t \in trades : quotes[SymbolOfRow(t)].price \in Prices
    PROVE  ExitTypes(Exits(trades, quotes))
<1>1. ASSUME NEW t \in DOMAIN Exits(trades, quotes)
      PROVE  /\ Exits(trades, quotes)[t].price \in Nat
             /\ Exits(trades, quotes)[t].reason \in {"", "sl", "tp", "broker_fill"}
  <2>1. t \in trades /\ Exits(trades, quotes)[t] = [price |-> Sold(quotes[SymbolOfRow(t)].price),
                                                    reason |-> ExitReason(quotes[SymbolOfRow(t)].price)]
    BY DEF Exits
  <2>2. Sold(quotes[SymbolOfRow(t)].price) \in Nat
    <3>1. PICK x \in Prices : x = quotes[SymbolOfRow(t)].price  BY <2>1
    <3>2. x \in Nat \ {0}  BY StandAloneAssumption DEF StandAloneAssumption
    <3>3. x - 1 \in Nat  BY <3>2
    <3> QED  BY <3>1, <3>3 DEF Sold
  <2>3. ExitReason(quotes[SymbolOfRow(t)].price) \in {"", "sl", "tp", "broker_fill"}  BY DEF ExitReason
  <2>4. PICK a, b : a = Sold(quotes[SymbolOfRow(t)].price) /\ b = ExitReason(quotes[SymbolOfRow(t)].price)  OBVIOUS
  <2>5. Exits(trades, quotes)[t] = [price |-> a, reason |-> b]  BY <2>1, <2>4
  <2>6. a \in Nat /\ b \in {"", "sl", "tp", "broker_fill"}  BY <2>2, <2>3, <2>4
  <2>7. [price |-> a, reason |-> b].price = a /\ [price |-> a, reason |-> b].reason = b  OBVIOUS
  <2> QED  BY ONLY <2>5, <2>6, <2>7
<1>2. DOMAIN Exits(trades, quotes) \subseteq Rows  BY ExitsOnlyTaken
<1> QED  BY <1>1, <1>2 DEF ExitTypes

(* The symbol of a row that is open is one of the symbols.                   *)
LEMMA SymbolsTyped ==
    /\ \A r \in Requests : SymbolOfRow(r) \in Symbols
    /\ \A t \in Orphans : SymbolOfRow(t) \in Symbols
BY StandAloneAssumption DEF StandAloneAssumption, SymbolOfRow, Orphans

LEMMA PassTypes ==
    ASSUME TypesInv, RowsInv, NEW t \in OpenRows
    PROVE  SymbolOfRow(t) \in Symbols
BY SymbolsTyped DEF RowsInv, OpenRows, Orphans

(* What each step does to the types. *)
LEMMA JudgeTypes == ASSUME TypesInv, NEW r \in Requests, Judge(r) PROVE TypesInv'
<1>1. UNCHANGED <<venue, held, orders, cooling, sync, pass, manual, alive>>  BY DEF Judge, brokerVars, loopVars
<1>2. \E at \in {"judged", "done"} : thread' = [thread EXCEPT ![r] = at]  BY DEF Judge, Reject
<1>3. TableTypes'
  <2>1. UNCHANGED tableVars \/ (LogRow(r, [Blank EXCEPT !.status = "rejected"]) /\ UNCHANGED closings)
    BY DEF Judge, Reject
  <2>2. cooling' \in BOOLEAN /\ r \in Rows /\ [Blank EXCEPT !.status = "rejected"] \in RowTypes
    BY <1>1, RowFacts, TypeFacts DEF TypesInv, TableTypes
  <2>3. CASE UNCHANGED tableVars  BY <1>1, <2>3 DEF TypesInv, TableTypes, tableVars
  <2>4. CASE LogRow(r, [Blank EXCEPT !.status = "rejected"]) /\ UNCHANGED closings  BY <2>2, <2>4, LogTypes
  <2> QED  BY <2>1, <2>3, <2>4
<1>4. BrokerTypes' /\ LoopTypes'  BY <1>1 DEF TypesInv, BrokerTypes, LoopTypes
<1>5. thread' \in [Requests -> {"new", "judged", "ordered", "done", "failed", "lost"}]  BY <1>2 DEF TypesInv
<1> QED  BY <1>3, <1>4, <1>5 DEF TypesInv

LEMMA ExecuteTypes == ASSUME TypesInv, NEW r \in Requests, Execute(r) PROVE TypesInv'
<1>1. UNCHANGED <<venue, cooling, sync, pass, manual, alive>>  BY DEF Execute, loopVars
<1>2. \E at \in {"ordered", "failed", "done"} : thread' = [thread EXCEPT ![r] = at]  BY DEF Execute, PlaceOrder, Reject
<1>3. TableTypes'
  <2>1. UNCHANGED tableVars \/ (LogRow(r, [Blank EXCEPT !.status = "rejected"]) /\ UNCHANGED closings)
    BY DEF Execute, PlaceOrder, Reject
  <2>2. cooling' \in BOOLEAN /\ r \in Rows /\ [Blank EXCEPT !.status = "rejected"] \in RowTypes
    BY <1>1, RowFacts, TypeFacts DEF TypesInv, TableTypes
  <2>3. CASE UNCHANGED tableVars  BY <1>1, <2>3 DEF TypesInv, TableTypes, tableVars
  <2>4. CASE LogRow(r, [Blank EXCEPT !.status = "rejected"]) /\ UNCHANGED closings  BY <2>2, <2>4, LogTypes
  <2> QED  BY <2>1, <2>3, <2>4
<1>4. BrokerTypes'
  <2>1. CASE UNCHANGED <<held, orders>>  BY <1>1, <2>1 DEF TypesInv, BrokerTypes
  <2>2. CASE PlaceOrder(r)
    <3>1. /\ held' = [held EXCEPT ![SymbolOf[r]] = r]
          /\ orders' = [o \in DOMAIN orders \cup {r} |->
                    IF o # r THEN orders[o] ELSE IF venue = "paper" THEN NoPrice ELSE Entry]
      BY <2>2 DEF PlaceOrder
    <3>2. held' \in [Symbols -> Orders]  BY <3>1, TypeFacts DEF TypesInv, BrokerTypes
    <3>3. \A o \in DOMAIN orders \cup {r} :
              (IF o # r THEN orders[o] ELSE IF venue = "paper" THEN NoPrice ELSE Entry) \in Nat
      BY StandAloneAssumption DEF StandAloneAssumption, TypesInv, BrokerTypes, NoPrice
    <3>4. DOMAIN orders' = DOMAIN orders \cup {r} /\ orders' \in [DOMAIN orders \cup {r} -> Nat]  BY <3>1, <3>3
    <3> QED  BY <1>1, <3>2, <3>4 DEF TypesInv, BrokerTypes
  <2> QED  BY <2>1, <2>2 DEF Execute
<1>5. LoopTypes'  BY <1>1 DEF TypesInv, LoopTypes
<1>6. thread' \in [Requests -> {"new", "judged", "ordered", "done", "failed", "lost"}]  BY <1>2 DEF TypesInv
<1> QED  BY <1>3, <1>4, <1>5, <1>6 DEF TypesInv

LEMMA LogTradeTypes == ASSUME TypesInv, NEW r \in Requests, LogTrade(r) PROVE TypesInv'
<1>1. UNCHANGED <<closings, venue, held, orders, sync, pass, manual, alive>> /\ cooling' = TRUE
  BY DEF LogTrade, brokerVars, loopVars
<1>2. thread' = [thread EXCEPT ![r] = "done"] /\ LogRow(r, [Blank EXCEPT !.status = "open", !.order = r])  BY DEF LogTrade
<1>3. r \in Rows /\ [Blank EXCEPT !.status = "open", !.order = r] \in RowTypes  BY RowFacts, TypeFacts
<1>4. TableTypes'  BY <1>1, <1>2, <1>3, LogTypes
<1>5. BrokerTypes' /\ LoopTypes'  BY <1>1 DEF TypesInv, BrokerTypes, LoopTypes
<1>6. thread' \in [Requests -> {"new", "judged", "ordered", "done", "failed", "lost"}]  BY <1>2 DEF TypesInv
<1> QED  BY <1>4, <1>5, <1>6 DEF TypesInv

LEMMA StartTypes == ASSUME TypesInv, RowsInv, NEW p \in Passes, StartPass(p) PROVE TypesInv'
<1> DEFINE symbols == {SymbolOfRow(t) : t \in OpenRows}
           taken   == [s \in Symbols |-> IF s \in symbols THEN manual[s] ELSE NoPrice]
           quotes  == [s \in symbols |-> Manual(taken[s])]
<1>1. UNCHANGED <<thread, created, cooling, venue, held, orders, sync, alive>>  BY DEF StartPass, brokerVars
<1>2. taken \in [Symbols -> Levels]  BY TypeFacts DEF TypesInv, LoopTypes
<1>3. manual' \in [Symbols -> Levels]
  <2>1. manual' = [s \in Symbols |-> IF s \in symbols THEN NoPrice ELSE manual[s]]  BY DEF StartPass
  <2> QED  BY <2>1, TypeFacts DEF TypesInv, LoopTypes
<1>4. \/ (\A s \in symbols : taken[s] # NoPrice) /\ CloseRows(Exits(OpenRows, quotes)) /\ UNCHANGED pass
      \/ pass' = [pass EXCEPT ![p] = [on |-> TRUE, trades |-> OpenRows, price |-> taken]] /\ UNCHANGED <<row, closings>>
  BY DEF StartPass
<1>5. OpenRows \subseteq Rows  BY DEF OpenRows
<1>6. BrokerTypes' /\ thread' \in [Requests -> {"new", "judged", "ordered", "done", "failed", "lost"}]
  BY <1>1 DEF TypesInv, BrokerTypes
<1>7. symbols \subseteq Symbols  BY PassTypes
<1>8. CASE (\A s \in symbols : taken[s] # NoPrice) /\ CloseRows(Exits(OpenRows, quotes)) /\ UNCHANGED pass
  <2>1. ASSUME NEW t \in OpenRows  PROVE quotes[SymbolOfRow(t)].price \in Prices
    <3>1. PICK s \in symbols : s = SymbolOfRow(t)  OBVIOUS
    <3>2. taken[s] \in Levels /\ taken[s] # NoPrice  BY <1>2, <1>7, <1>8
    <3>3. quotes[s].price = taken[s]  BY DEF Manual
    <3> HIDE DEF quotes, taken
    <3> QED  BY <3>1, <3>2, <3>3 DEF Levels
  <2> HIDE DEF quotes
  <2>2. ExitTypes(Exits(OpenRows, quotes))  BY <1>5, <2>1, ExitsTyped
  <2>3. TableTypes'  BY <1>1, <1>8, <2>2, CloseTypes
  <2>4. LoopTypes'  BY <1>1, <1>3, <1>8 DEF TypesInv, LoopTypes
  <2> QED  BY <1>6, <2>3, <2>4 DEF TypesInv
<1>9. CASE pass' = [pass EXCEPT ![p] = [on |-> TRUE, trades |-> OpenRows, price |-> taken]] /\ UNCHANGED <<row, closings>>
  <2>1. TableTypes'  BY <1>1, <1>9 DEF TypesInv, TableTypes
  <2> HIDE DEF taken
  <2>2. [on |-> TRUE, trades |-> OpenRows, price |-> taken] \in [on : BOOLEAN, trades : SUBSET Rows, price : [Symbols -> Levels]]
    BY <1>2, <1>5
  <2>3. pass' \in [Passes -> [on : BOOLEAN, trades : SUBSET Rows, price : [Symbols -> Levels]]]
    BY <1>9, <2>2 DEF TypesInv, LoopTypes
  <2>4. LoopTypes'  BY <1>1, <1>3, <2>3 DEF TypesInv, LoopTypes
  <2> QED  BY <1>6, <2>1, <2>4 DEF TypesInv
<1> QED  BY <1>4, <1>8, <1>9

LEMMA FinishTypes ==
    ASSUME TypesInv, RowsInv, NEW p \in Passes, NEW quotes \in [Symbols -> Quotes], FinishPass(p, quotes)
    PROVE  TypesInv'
<1> DEFINE q == [s \in Symbols |-> IF pass[p].price[s] # NoPrice THEN Manual(pass[p].price[s]) ELSE quotes[s]]
<1>1. UNCHANGED <<thread, created, cooling, venue, held, orders, sync, manual, alive>>  BY DEF FinishPass, brokerVars
<1>2. CloseRows(Exits(pass[p].trades, q)) /\ pass' = [pass EXCEPT ![p] = NoPass]  BY DEF FinishPass
<1>3. \A s \in Symbols : q[s].price \in Prices
  <2> SUFFICES ASSUME NEW s \in Symbols PROVE q[s].price \in Prices  OBVIOUS
  <2>1. pass[p].price \in [Symbols -> Levels]  BY DEF TypesInv, LoopTypes
  <2>2. CASE pass[p].price[s] # NoPrice
    <3>1. q[s] = Manual(pass[p].price[s])  BY <2>2
    <3>2. q[s].price = pass[p].price[s]  BY <3>1 DEF Manual
    <3> QED  BY <2>1, <2>2, <3>2 DEF Levels
  <2>3. CASE pass[p].price[s] = NoPrice
    <3>1. q[s] = quotes[s]  BY <2>3
    <3>2. quotes[s] \in Quotes  OBVIOUS
    <3> QED  BY <3>1, <3>2 DEF Quotes
  <2> QED  BY <2>2, <2>3
<1> HIDE DEF q
<1>4. pass[p].trades \subseteq Rows /\ \A t \in pass[p].trades : SymbolOfRow(t) \in Symbols \/ ~Tracked(t)
  BY SymbolsTyped DEF RowsInv, Tracked
<1>5. ExitTypes(Exits(pass[p].trades, q))
  <2>1. PICK some : some = {t \in pass[p].trades : Tracked(t)}  OBVIOUS
  <2>2. Exits(pass[p].trades, q) = Exits(some, q)
    <3>1. {u \in pass[p].trades : Tracked(u) /\ Closable(q[SymbolOfRow(u)])} = {u \in some : Tracked(u) /\ Closable(q[SymbolOfRow(u)])}
      BY <2>1
    <3> QED  BY <3>1 DEF Exits
  <2>3. some \subseteq Rows /\ \A t \in some : q[SymbolOfRow(t)].price \in Prices  BY <1>3, <1>4, <2>1
  <2> QED  BY <2>2, <2>3, ExitsTyped
<1>6. TableTypes'  BY <1>1, <1>2, <1>5, CloseTypes
<1>7. LoopTypes'  BY <1>1, <1>2, TypeFacts DEF TypesInv, LoopTypes
<1> QED  BY <1>1, <1>6, <1>7 DEF TypesInv, BrokerTypes

LEMMA SyncTypes == ASSUME TypesInv, RowsInv, SyncApply PROVE TypesInv'
<1> DEFINE gone   == {t \in OpenRows : sync.held[SymbolOfRow(t)] = NoTrade}
           filled == {t \in gone : row[t].order \in DOMAIN orders}
           exits  == [t \in filled |-> [price |-> orders[row[t].order], reason |-> "broker_fill"]]
           taken  == {OrphanOf[s] : s \in Attached}
           record(t) == [Blank EXCEPT !.status = "open", !.order = sync.held[SymbolOfRow(t)]]
<1>1. /\ row' = [t \in Rows |-> CASE t \in filled -> Closed(t, exits)
                                [] t \in taken  -> record(t)
                                [] OTHER -> row[t]]
      /\ UNCHANGED <<thread, venue, held, orders, pass, manual, alive>> /\ sync' = Idle
  BY DEF SyncApply, brokerVars
<1>2. PICK seq \in SetToSeqs(filled) : closings' = closings \o seq  BY DEF SyncApply
<1>3. PICK new \in SetToSeqs(taken) : created' = created \o new  BY DEF SyncApply
<1>4. filled \subseteq Rows /\ taken \subseteq Rows /\ taken \subseteq Orphans  BY RowFacts DEF OpenRows, Attached, Orphans
<1>5. cooling' = (cooling \/ Attached # {})  BY DEF SyncApply
<1>6. ExitTypes(exits)
  <2>1. \A t \in filled : orders[row[t].order] \in Nat  BY DEF TypesInv, BrokerTypes
  <2>2. DOMAIN exits = filled /\ \A t \in filled : exits[t].price = orders[row[t].order] /\ exits[t].reason = "broker_fill"
    OBVIOUS
  <2> HIDE DEF filled, exits
  <2> QED  BY <1>4, <2>1, <2>2 DEF ExitTypes
<1>7. DOMAIN exits = filled  OBVIOUS
<1>8. \A t \in taken : record(t) \in RowTypes
  <2>1. \A t \in taken : sync.held[SymbolOfRow(t)] \in Orders  BY <1>4, SymbolsTyped DEF TypesInv, LoopTypes
  <2> QED  BY <2>1, TypeFacts
<1> HIDE DEF filled, taken, exits, record
<1>9. row' \in [Rows -> RowTypes]
  <2>1. ASSUME NEW t \in Rows
        PROVE  (CASE t \in filled -> Closed(t, exits) [] t \in taken  -> record(t) [] OTHER -> row[t]) \in RowTypes
    <3>1. t \in filled => Closed(t, exits) \in RowTypes  BY <1>6, <1>7, ClosedTypes
    <3>2. row[t] \in RowTypes  BY DEF TypesInv, TableTypes
    <3> QED  BY <1>8, <3>1, <3>2
  <2> QED  BY <1>1, <2>1
<1>10. closings' \in Seq(Rows) /\ created' \in Seq(Rows)
  <2>1. seq \in Seq(Rows) /\ new \in Seq(Rows)  BY <1>2, <1>3, <1>4, Arranged
  <2>2. created \in Seq(Rows) /\ closings \in Seq(Rows)  BY DEF TypesInv, TableTypes
  <2> QED  BY <1>2, <1>3, <2>1, <2>2
<1>11. TableTypes'  BY <1>5, <1>9, <1>10 DEF TypesInv, TableTypes
<1>12. LoopTypes'  BY <1>1, TypeFacts DEF TypesInv, LoopTypes
<1> QED  BY <1>1, <1>11, <1>12 DEF TypesInv, BrokerTypes

LEMMA TypesStep == TypesInv /\ RowsInv /\ [SaNext]_saVars => TypesInv'
<1> SUFFICES ASSUME TypesInv, RowsInv, [SaNext]_saVars PROVE TypesInv'  OBVIOUS
<1>1. CASE CooldownOver
  BY <1>1 DEF CooldownOver, tableVars, brokerVars, loopVars, TypesInv, TableTypes, BrokerTypes, LoopTypes
<1>2. ASSUME NEW s \in Symbols, NEW x \in Published, PublishPrice(s, x)  PROVE TypesInv'
  <2>1. x \in Levels  BY StandAloneAssumption DEF StandAloneAssumption, Levels
  <2>2. manual' \in [Symbols -> Levels]  BY <1>2, <2>1 DEF PublishPrice, TypesInv, LoopTypes
  <2>3. UNCHANGED <<thread, tableVars, cooling, brokerVars, sync, pass, alive>>  BY <1>2 DEF PublishPrice
  <2> QED  BY <2>2, <2>3 DEF tableVars, brokerVars, TypesInv, TableTypes, BrokerTypes, LoopTypes
<1>3. ASSUME NEW s \in Symbols, NEW x \in FillPrices, VenueCloses(s, x)  PROVE TypesInv'
  <2>1. x \in Nat  BY StandAloneAssumption DEF StandAloneAssumption
  <2>2. /\ orders' = [orders EXCEPT ![held[s]] = x] /\ held' = [held EXCEPT ![s] = NoTrade]
        /\ UNCHANGED <<venue, thread, tableVars, cooling, loopVars>>
    BY <1>3 DEF VenueCloses
  <2>3. held' \in [Symbols -> Orders]  BY <2>2, TypeFacts DEF TypesInv, BrokerTypes
  <2>4. DOMAIN orders' = DOMAIN orders /\ orders' \in [DOMAIN orders -> Nat]  BY <2>1, <2>2 DEF TypesInv, BrokerTypes
  <2>5. BrokerTypes'  BY <2>2, <2>3, <2>4 DEF TypesInv, BrokerTypes
  <2> QED  BY <2>2, <2>5 DEF tableVars, loopVars, TypesInv, TableTypes, LoopTypes
<1>4. CASE LoopDies
  <2>1. alive' = FALSE /\ pass' = [pass EXCEPT !["loop"] = NoPass] /\ UNCHANGED <<thread, tableVars, cooling, brokerVars, sync, manual>>
    BY <1>4 DEF LoopDies
  <2>2. LoopTypes'  BY <2>1, TypeFacts DEF TypesInv, LoopTypes
  <2> QED  BY <2>1, <2>2 DEF tableVars, brokerVars, TypesInv, TableTypes, BrokerTypes
<1>5. CASE SyncRead
  <2>1. sync' = [on |-> TRUE, held |-> held] /\ UNCHANGED <<thread, tableVars, cooling, brokerVars, pass, manual, alive>>
    BY <1>5 DEF SyncRead
  <2>2. sync' \in [on : BOOLEAN, held : [Symbols -> Orders]]  BY <2>1 DEF TypesInv, BrokerTypes
  <2> QED  BY <2>1, <2>2 DEF tableVars, brokerVars, TypesInv, TableTypes, BrokerTypes, LoopTypes
<1>6. CASE Restart
  <2>1. LoopTypes'  BY <1>6, TypeFacts DEF Restart, LoopTypes
  <2>2. BrokerTypes'
    <3>1. CASE held' = [s \in Symbols |-> NoTrade] /\ orders' = <<>> /\ UNCHANGED venue
      <4>1. DOMAIN <<>> = {} /\ <<>> \in [{} -> Nat]  OBVIOUS
      <4> QED  BY <3>1, <4>1, TypeFacts DEF TypesInv, BrokerTypes
    <3>2. CASE UNCHANGED <<held, orders, venue>>  BY <3>2 DEF TypesInv, BrokerTypes
    <3> QED  BY <1>6, <3>1, <3>2 DEF Restart
  <2>3. thread' \in [Requests -> {"new", "judged", "ordered", "done", "failed", "lost"}]  BY <1>6 DEF Restart, TypesInv
  <2>4. TableTypes'  BY <1>6 DEF Restart, tableVars, TypesInv, TableTypes
  <2> QED  BY <2>1, <2>2, <2>3, <2>4 DEF TypesInv
<1>7. CASE UNCHANGED saVars
  BY <1>7 DEF saVars, TypesInv, TableTypes, BrokerTypes, LoopTypes
<1>8. ASSUME NEW r \in Requests, Raises(r)  PROVE TypesInv'
  <2>1. /\ \E at \in {"failed", "lost"} : thread' = [thread EXCEPT ![r] = at]
        /\ UNCHANGED <<tableVars, brokerVars, cooling, loopVars>>
    BY <1>8 DEF Raises
  <2>2. thread' \in [Requests -> {"new", "judged", "ordered", "done", "failed", "lost"}]  BY <2>1 DEF TypesInv
  <2> QED  BY <2>1, <2>2 DEF tableVars, brokerVars, loopVars, TypesInv, TableTypes, BrokerTypes, LoopTypes
<1> QED  BY <1>8, <1>1, <1>2, <1>3, <1>4, <1>5, <1>6, <1>7, JudgeTypes, ExecuteTypes, LogTradeTypes, StartTypes, FinishTypes, SyncTypes DEF SaNext


-----------------------------------------------------------------------------
(* The score                                                                 *)

LEMMA GainedIs ==
    ASSUME NEW S, IsFiniteSet(S), \A t \in S : Pnl(t) \in Int
    PROVE  Gained(S) = SumOf([t \in S |-> Pnl(t)])
<1>1. PICK f : f = [t \in S |-> Pnl(t)]  OBVIOUS
<1>2. DOMAIN f = S /\ \A t \in S : f[t] = Pnl(t)  BY <1>1
<1> DEFINE iter == CHOOSE g : g = [s \in SUBSET S |-> IF s = {} THEN 0 ELSE Pnl(One(s)) + g[s \ {One(s)}]]
<1>3. Gained(S) = iter[S]  BY DEF Gained, MapThenSumSet, MapThenFoldSet, One
<1>4. \A s \in SUBSET S : s # {} => One(s) \in S  BY DEF One
<1>5. PICK h : FoldOf(h, f)  BY <1>2, FoldExists
<1>6. h = [s \in SUBSET S |-> IF s = {} THEN 0 ELSE f[One(s)] + h[s \ {One(s)}]]  BY <1>2, <1>5 DEF FoldOf
<1>7. h = [s \in SUBSET S |-> IF s = {} THEN 0 ELSE Pnl(One(s)) + h[s \ {One(s)}]]
  <2>1. \A s \in SUBSET S : s # {} => f[One(s)] = Pnl(One(s))  BY <1>2, <1>4
  <2>2. \A s \in SUBSET S : (IF s = {} THEN 0 ELSE f[One(s)] + h[s \ {One(s)}])
                              = (IF s = {} THEN 0 ELSE Pnl(One(s)) + h[s \ {One(s)}])  BY <2>1
  <2> QED  BY ONLY <1>6, <2>2, Zenon
<1>8. iter = [s \in SUBSET S |-> IF s = {} THEN 0 ELSE Pnl(One(s)) + iter[s \ {One(s)}]]  BY <1>7, Zenon
<1> HIDE DEF iter
<1>9. iter = [s \in SUBSET S |-> IF s = {} THEN 0 ELSE f[One(s)] + iter[s \ {One(s)}]]
  <2>1. \A s \in SUBSET S : s # {} => f[One(s)] = Pnl(One(s))  BY <1>2, <1>4
  <2>2. \A s \in SUBSET S : (IF s = {} THEN 0 ELSE f[One(s)] + iter[s \ {One(s)}])
                              = (IF s = {} THEN 0 ELSE Pnl(One(s)) + iter[s \ {One(s)}])  BY <2>1
  <2> QED  BY ONLY <1>8, <2>2, Zenon
<1>10. FoldOf(iter, f)  BY <1>2, <1>9 DEF FoldOf
<1>11. SumsOf(iter, f)  BY <1>2, <1>10, FoldIsSum
<1>12. SumOf(f) = iter[S]  BY <1>2, <1>11, SumIs
<1> QED  BY <1>1, <1>3, <1>12


(* What the score is made of is a number, and nothing without an outcome.    *)
LEMMA PnlType == ASSUME TypesInv, NEW t \in Rows PROVE Pnl(t) \in Int
<1>1. t \in ToSet(Seeds) => SeedPnl[t] \in Int  BY StandAloneAssumption DEF StandAloneAssumption
<1>2. row[t] \in RowTypes  BY DEF TypesInv, TableTypes
<1>3. row[t].exit \in Nat  BY <1>2 DEF RowTypes
<1>4. Entry \in Nat  BY StandAloneAssumption DEF StandAloneAssumption
<1> QED  BY <1>1, <1>3, <1>4 DEF Pnl

LEMMA GainedType ==
    ASSUME TypesInv, NEW S, S \subseteq Rows
    PROVE  /\ Gained(S) \in Int
           /\ (\A t \in S : Pnl(t) > 0) => Gained(S) \in Nat
           /\ (\A t \in S : Pnl(t) < 0) => 0 - Gained(S) \in Nat
           /\ S = {} => Gained(S) = 0
<1>1. PICK f : f = [t \in S |-> Pnl(t)]  OBVIOUS
<1>2. DOMAIN f = S /\ \A t \in S : f[t] = Pnl(t) /\ f[t] \in Int  BY <1>1, PnlType
<1>3. IsFiniteSet(S)  BY RowsFinite, FS_Subset
<1>4. Gained(S) = SumOf(f)  BY <1>1, <1>2, <1>3, GainedIs
<1>5. SumOf(f) \in Int  BY <1>2, <1>3, SumType
<1>6. ASSUME \A t \in S : Pnl(t) > 0  PROVE SumOf(f) \in Nat
  <2>1. \A t \in S : f[t] \in Nat  BY <1>2, <1>6
  <2> QED  BY <1>2, <1>3, <2>1, SumType
<1>7. ASSUME \A t \in S : Pnl(t) < 0  PROVE 0 - SumOf(f) \in Nat
  <2>1. PICK z : z = [t \in S |-> 0 * f[t]]  OBVIOUS
  <2>2. DOMAIN z = S /\ \A t \in S : f[t] \in Int /\ z[t] = 0 * f[t]  BY <1>2, <2>1
  <2>3. SumOf(z) = 0 * SumOf(f)  BY <1>2, <1>3, <2>2, SumOfMultiples
  <2>4. \A t \in S : f[t] \in Int /\ z[t] \in Int /\ f[t] <= z[t]  BY <1>2, <1>7, <2>2
  <2>5. SumOf(f) <= SumOf(z)  BY <1>2, <1>3, <2>2, <2>4, SumsCompare
  <2> QED  BY ONLY <1>5, <2>3, <2>5
<1>8. ASSUME S = {}  PROVE SumOf(f) = 0
  <2>1. PICK g : SumsOf(g, f) /\ SumOf(f) = g[S]  BY <1>2, <1>3, SumsExist
  <2> QED  BY <1>8, <2>1 DEF SumsOf
<1> QED  BY <1>4, <1>5, <1>6, <1>7, <1>8

LEMMA ShareType ==
    ASSUME NEW S, IsFiniteSet(S), NEW T \in SUBSET S
    PROVE  Share(T, S) \in Nat /\ (S = {} => Share(T, S) = 0)
<1>1. CASE S = {}  BY <1>1 DEF Share
<1>2. CASE S # {}
  <2>1. Cardinality(S) \in Nat /\ Cardinality(S) # 0  BY <1>2, FS_CardinalityType, FS_EmptySet
  <2>2. Cardinality(T) \in Nat  BY FS_Subset, FS_CardinalityType
  <2>3. (10000 * Cardinality(T)) \div Cardinality(S) \in Nat  BY ONLY <2>1, <2>2
  <2> QED  BY <1>2, <2>3 DEF Share
<1> QED  BY <1>1, <1>2

LEMMA StatsType ==
    ASSUME TypesInv, NEW S, S \subseteq Rows
    PROVE  /\ WinRate(S) \in Nat /\ LossRate(S) \in Nat /\ ProfitFactor(S) \in Nat
           /\ S = {} => WinRate(S) = 0 /\ LossRate(S) = 0 /\ ProfitFactor(S) = 0
<1> DEFINE won == {t \in S : Pnl(t) > 0}  lost == {t \in S : Pnl(t) < 0}
<1>1. IsFiniteSet(S)  BY RowsFinite, FS_Subset
<1>2. WinRate(S) \in Nat /\ LossRate(S) \in Nat /\ (S = {} => WinRate(S) = 0 /\ LossRate(S) = 0)
  <2>1. WinRate(S) = Share(won, S) /\ LossRate(S) = Share(lost, S)  BY DEF WinRate, LossRate
  <2>2. won \in SUBSET S /\ lost \in SUBSET S  OBVIOUS
  <2> HIDE DEF won, lost
  <2> QED  BY <1>1, <2>1, <2>2, ShareType
<1>3. PICK g, l : g = Gained(won) /\ l = 0 - Gained(lost)  OBVIOUS
<1>4. g \in Nat /\ (S = {} => g = 0)
  <2>1. won \subseteq Rows /\ (\A t \in won : Pnl(t) > 0) /\ (S = {} => won = {})  OBVIOUS
  <2> HIDE DEF won
  <2> QED  BY <1>3, <2>1, GainedType
<1>5. l \in Nat
  <2>1. lost \subseteq Rows /\ (\A t \in lost : Pnl(t) < 0)  OBVIOUS
  <2> HIDE DEF lost
  <2> QED  BY <1>3, <2>1, GainedType
<1>6. ProfitFactor(S) = IF l = 0 THEN g * 10000 ELSE (g * 10000) \div l  BY <1>3 DEF ProfitFactor
<1>7. (IF l = 0 THEN g * 10000 ELSE (g * 10000) \div l) \in Nat  BY ONLY <1>4, <1>5
<1>8. g = 0 => (IF l = 0 THEN g * 10000 ELSE (g * 10000) \div l) = 0  BY ONLY <1>5
<1> QED  BY <1>2, <1>4, <1>6, <1>7, <1>8

(* A score is a number; without a decided trade it is nothing.               *)
LEMMA ScoreIs ==
    ASSUME TypesInv, NEW strategy
    PROVE  /\ Score(strategy) \in Int /\ Total(strategy) \in Nat
           /\ Total(strategy) = 0 => Score(strategy) = 0
<1>1. PICK all : all = Outcomes(strategy)  OBVIOUS
<1>2. all \subseteq DOMAIN created /\ \A i \in DOMAIN created : created[i] \in Rows
  <2>1. all \subseteq DOMAIN created  BY <1>1 DEF Outcomes, Newest
  <2>2. created \in Seq(Rows)  BY DEF TypesInv, TableTypes
  <2> QED  BY <2>1, <2>2
<1>3. Newest(all, Window) \subseteq all  BY DEF Newest
<1>4. PICK recent, older : /\ recent = {created[i] : i \in Newest(all, Window)}
                           /\ older = {created[i] : i \in all} \ recent
  OBVIOUS
<1>5. recent \subseteq Rows /\ older \subseteq Rows /\ (all = {} => recent = {} /\ older = {})  BY <1>2, <1>3, <1>4
<1>6. PICK w, p, l, o : w = WinRate(recent) /\ p = ProfitFactor(recent) /\ l = LossRate(recent) /\ o = WinRate(older)
  OBVIOUS
<1>7. Score(strategy) = (5 * w + 3 * p + 2 * (w - o) - 2 * l) \div 10  BY <1>1, <1>4, <1>6 DEF Score
<1>8. w \in Nat /\ p \in Nat /\ l \in Nat /\ o \in Nat /\ (all = {} => w = 0 /\ p = 0 /\ l = 0 /\ o = 0)
  BY <1>5, <1>6, StatsType
<1>9. (5 * w + 3 * p + 2 * (w - o) - 2 * l) \div 10 \in Int  BY ONLY <1>8
<1>10. (w = 0 /\ p = 0 /\ l = 0 /\ o = 0) => (5 * w + 3 * p + 2 * (w - o) - 2 * l) \div 10 = 0  OBVIOUS
<1>11. IsFiniteSet(all)
  <2>1. created \in Seq(Rows)  BY DEF TypesInv, TableTypes
  <2>2. DOMAIN created = 1..Len(created) /\ Len(created) \in Nat  BY <2>1
  <2>3. IsFiniteSet(1..Len(created))  BY <2>2, FS_Interval
  <2> QED  BY <1>2, <2>2, <2>3, FS_Subset
<1>12. Total(strategy) \in Nat /\ (Total(strategy) = 0 => all = {})  BY <1>1, <1>11, FS_CardinalityType, FS_EmptySet DEF Total
<1> QED  BY <1>7, <1>8, <1>9, <1>10, <1>12

LEMMA HistoryStep ==
    ASSUME MinConfidence > 0, TypesInv, [SaNext]_saVars
    PROVE  [\A r \in Requests : thread[r] = "new" /\ thread'[r] = "judged"
              => Total(StrategyOf[r]) > 0 /\ Score(StrategyOf[r]) >= MinConfidence]_saVars
<1> SUFFICES ASSUME NEW r \in Requests, thread[r] = "new", thread'[r] = "judged"
             PROVE  Total(StrategyOf[r]) > 0 /\ Score(StrategyOf[r]) >= MinConfidence
  OBVIOUS
<1>0. thread \in [Requests -> {"new", "judged", "ordered", "done", "failed", "lost"}]  BY DEF TypesInv
<1>1. ASSUME NEW q \in Requests, Judge(q)  PROVE q = r /\ Confidence(StrategyOf[r]) >= MinConfidence
  <2>1. \/ Confidence(StrategyOf[q]) >= MinConfidence /\ thread' = [thread EXCEPT ![q] = "judged"]
        \/ thread' = [thread EXCEPT ![q] = "done"]
    BY <1>1 DEF Judge, Reject
  <2> QED  BY <1>0, <2>1
<1>2. ASSUME NEW q \in Requests, Execute(q) \/ LogTrade(q) \/ Raises(q)  PROVE FALSE
  <2>1. \E at \in {"ordered", "failed", "done", "lost"} : thread' = [thread EXCEPT ![q] = at]
    BY <1>2 DEF Execute, PlaceOrder, Reject, LogTrade, Raises
  <2> QED  BY <1>0, <2>1
<1>3. ASSUME UNCHANGED thread  PROVE FALSE  BY <1>3
<1>4. ASSUME Restart  PROVE FALSE  BY <1>4 DEF Restart
<1>5. \A s, x : (PublishPrice(s, x) \/ VenueCloses(s, x)) => UNCHANGED thread  BY DEF PublishPrice, VenueCloses
<1>6. \A p, q : (StartPass(p) \/ FinishPass(p, q)) => UNCHANGED thread  BY DEF StartPass, FinishPass
<1>7. (CooldownOver \/ LoopDies \/ SyncRead \/ SyncApply \/ UNCHANGED saVars) => UNCHANGED thread
  BY DEF CooldownOver, LoopDies, SyncRead, SyncApply, saVars
<1>8. Confidence(StrategyOf[r]) >= MinConfidence  BY <1>1, <1>2, <1>3, <1>4, <1>5, <1>6, <1>7 DEF SaNext
<1>9. PICK s : s = Score(StrategyOf[r])  OBVIOUS
<1>10. s \in Int /\ Total(StrategyOf[r]) \in Nat /\ (Total(StrategyOf[r]) = 0 => s = 0)  BY <1>9, ScoreIs
<1>11. (IF s < 0 THEN 0 ELSE IF s > 10000 THEN 10000 ELSE s) >= MinConfidence  BY <1>8, <1>9 DEF Confidence
<1>12. MinConfidence \in Int  BY StandAloneAssumption DEF StandAloneAssumption
<1>13. s >= MinConfidence /\ s # 0  BY ONLY <1>10, <1>11, <1>12, MinConfidence > 0
<1> QED  BY <1>9, <1>10, <1>13

(* The tables, the broker and the tasks keep their types, for any requests,  *)
(* symbols, prices, limits and either broker.                                *)
THEOREM ServiceIsTyped == SaSpec => []SaTypeOK
<1>1. SaInit => RowsInv /\ TypesInv  BY RowsInit, TypesInit
<1>2. RowsInv /\ TypesInv /\ [SaNext]_saVars => RowsInv' /\ TypesInv'  BY RowsStep, TypesStep
<1> QED  BY <1>1, <1>2, TypesAre, PTL DEF SaSpec

(* As long as the engine asks for some confidence (0.3 unless configured     *)
(* otherwise), a strategy without a decided trade among its newest rows      *)
(* never trades, whatever the table holds; and a lockout never ends.         *)
THEOREM HistoryIsDecisive ==
    ASSUME MinConfidence > 0
    PROVE  SaSpec => HistoryDecides
<1>1. SaInit => RowsInv /\ TypesInv  BY RowsInit, TypesInit
<1>2. RowsInv /\ TypesInv /\ [SaNext]_saVars => RowsInv' /\ TypesInv'  BY RowsStep, TypesStep
<1>3. TypesInv /\ [SaNext]_saVars
        => [\A r \in Requests : thread[r] = "new" /\ thread'[r] = "judged"
              => Total(StrategyOf[r]) > 0 /\ Score(StrategyOf[r]) >= MinConfidence]_saVars
  BY HistoryStep
<1>4. SaSpec => UnprovenNeverTrades  BY <1>1, <1>2, <1>3, PTL DEF SaSpec, UnprovenNeverTrades
<1> QED  BY <1>4, LockoutNeverEnds DEF HistoryDecides
=============================================================================
