---------------------- MODULE PositionLifecycle_proofs ----------------------
(***************************************************************************)
(* Proofs about PositionLifecycle for every number of trades, units and     *)
(* crashes.  Most need that no close request overlaps a pass of the monitor *)
(* (the run staletick shows what happens otherwise).                        *)
(*                                                                         *)
(* The invariant that carries the argument is CopiesFresh: what the monitor *)
(* writes back is what the cache holds.  The summary of the ledger is       *)
(* bounded by what was booked, also in the copy of a waiting snapshot.      *)
(***************************************************************************)
EXTENDS PositionLifecycle, TLAPS

CopiesFresh == \A t \in todo : copy[t] = active[t]

(* Nothing is recorded about a position that was not opened. *)
UnopenedBlank ==
    \A t \in Trades \ opened : active[t] = None /\ booked[t] = 0 /\ forgotten[t] = 0 /\ t \notin marker

(* Only positions that were opened are watched, and nothing is analysed     *)
(* while the process is down.                                               *)
WatchInv ==
    /\ monitored \subseteq opened /\ todo \subseteq opened
    /\ ~up => todo = {}

IInv ==
    /\ TypeOK /\ CopiesFresh /\ UnopenedBlank /\ WatchInv
    /\ Conservation /\ ClosedStaysClosed

(* The part of the state the invariant speaks about, left alone. *)
Untouched == UNCHANGED <<active, opened, booked, forgotten>>

-----------------------------------------------------------------------------
(* The ledger's transaction takes at least one unit and at most what is     *)
(* held, books exactly that, and keeps a record only if something is left.  *)
LEMMA SettleEffect ==
    ASSUME TypeOK, NEW t \in Trades, NEW held \in Records, NEW units \in 1..Quantity,
           Settle(t, held, units)
    PROVE  \E k \in 1..held.qty, after \in Records \cup {None} :
              /\ active' = [active EXCEPT ![t] = after]
              /\ booked' = [booked EXCEPT ![t] = @ + k]
              /\ summary' = [summary EXCEPT ![t] = @ + k]
              /\ risked' = IF snap = None THEN risked ELSE [risked EXCEPT ![t] = @ + k]
              /\ (after = None) <=> (k = held.qty)
              /\ (after = None) <=> (units >= held.qty)
              /\ after # None => after.qty = held.qty - k
<1> DEFINE k == Least(units, held.qty)
           after == IF held.qty - k > 0
                    THEN [held EXCEPT !.qty = held.qty - k, !.status = "PARTIAL"] ELSE None
<1>0. held.qty \in 1..Quantity /\ Quantity \in Nat
    BY LifecycleAssumption DEF LifecycleAssumption, Records
<1>1. k \in 1..held.qty /\ (k = held.qty <=> units >= held.qty)
    <2>1. CASE units <= held.qty
        BY <1>0, <2>1 DEF Least
    <2>2. CASE ~(units <= held.qty)
        BY <1>0, <2>2 DEF Least
    <2> QED BY <2>1, <2>2
<1>2. ASSUME held.qty - k > 0
      PROVE  after \in Records /\ after # None /\ after.qty = held.qty - k
    <2>1. held.qty - k \in 1..Quantity
        BY <1>0, <1>1, <1>2
    <2> DEFINE kept == [held EXCEPT !.qty = held.qty - k, !.status = "PARTIAL"]
    <2>2. kept \in Records /\ kept.qty = held.qty - k
        BY <2>1 DEF Records
    <2>3. kept # None
        BY <2>2, LifecycleAssumption DEF LifecycleAssumption, Records
    <2> QED BY <1>2, <2>2, <2>3
<1>3. held.qty - k > 0 <=> k # held.qty
    BY <1>0, <1>1
<1>4. /\ active' = [active EXCEPT ![t] = after]
      /\ booked' = [booked EXCEPT ![t] = @ + k]
      /\ summary' = [summary EXCEPT ![t] = @ + k]
      /\ risked' = IF snap = None THEN risked ELSE [risked EXCEPT ![t] = @ + k]
    BY DEF Settle, Book
<1>5. after \in Records \cup {None} /\ (after = None <=> k = held.qty)
    BY <1>2, <1>3
<1> QED BY <1>1, <1>2, <1>3, <1>4, <1>5

-----------------------------------------------------------------------------
(* What a step may do to the position t: nothing, or take k of its units.   *)
Reduces(t, k) ==
    /\ t \in opened
    /\ active[t] # None
    /\ k \in 1..active[t].qty
    /\ UNCHANGED <<opened, forgotten>>
    /\ booked' = [booked EXCEPT ![t] = @ + k]
    /\ \E after \in Records \cup {None} :
          /\ active' = [active EXCEPT ![t] = after]
          /\ (after = None) <=> (k = active[t].qty)
          /\ after # None => after.qty = active[t].qty - k

Rewrites(t) ==
    /\ UNCHANGED <<opened, booked, forgotten>>
    /\ active[t] # None
    /\ \E after \in Records :
          after.qty = active[t].qty /\ active' = [active EXCEPT ![t] = after]

(* A close that finds the current quantity rewrites or reduces the trade,   *)
(* and marks it only if nothing is left.                                    *)
LEMMA CloseEffect ==
    ASSUME TypeOK, UnopenedBlank, ClosedStaysClosed, NEW t \in Trades, NEW held \in Records,
           active[t] # None, held.qty = active[t].qty,
           NEW units \in 1..Quantity, NEW watched \in SUBSET Trades,
           ClosePosition(t, held, units, watched) \/ CrashInClose(t, held, units, watched),
           UNCHANGED <<opened, forgotten>>
    PROVE  /\ (Rewrites(t) /\ marker' = marker) \/ (\E k \in 1..Quantity : Reduces(t, k))
           /\ ClosedStaysClosed'
           /\ marker' \in SUBSET Trades /\ monitored' \in SUBSET Trades
           /\ lock' \in SUBSET Trades
           /\ summary' \in [Trades -> Nat] /\ risked' \in [Trades -> Nat]
           /\ marker' \subseteq marker \cup {t}
           /\ monitored' \subseteq watched \cup {t}
<1>0. /\ t \in opened /\ t \notin marker
      /\ held.qty \in 1..Quantity /\ Quantity \in Nat
    BY LifecycleAssumption DEF LifecycleAssumption, UnopenedBlank, ClosedStaysClosed, Records
<1>1. CASE Keep(t, held, watched)
    <2>1. Rewrites(t) /\ marker' = marker
        BY <1>1 DEF Keep, ledgerVars, Rewrites
    <2>2. ClosedStaysClosed'
        BY <1>0, <1>1 DEF Keep, ledgerVars, ClosedStaysClosed, TypeOK
    <2>3. lock' \in SUBSET Trades
        BY DEF ClosePosition, CrashInClose, TypeOK
    <2> QED BY <1>1, <2>1, <2>2, <2>3 DEF Keep, ledgerVars, TypeOK
<1>2. CASE CloseDone(t, held, units, watched) \/ CloseFails(t, held, units, watched)
    <2>1. PICK k \in 1..held.qty, after \in Records \cup {None} :
              /\ active' = [active EXCEPT ![t] = after]
              /\ booked' = [booked EXCEPT ![t] = @ + k]
              /\ summary' = [summary EXCEPT ![t] = @ + k]
              /\ risked' = IF snap = None THEN risked ELSE [risked EXCEPT ![t] = @ + k]
              /\ (after = None) <=> (k = held.qty)
              /\ (after = None) <=> (units >= held.qty)
              /\ after # None => after.qty = held.qty - k
        BY <1>2, SettleEffect DEF CloseDone, CloseFails
    <2>2. Reduces(t, k) /\ k \in 1..Quantity
        <3>1. k \in 1..Quantity /\ k \in 1..active[t].qty
            BY <1>0
        <3>2. /\ active' = [active EXCEPT ![t] = after]
              /\ (after = None) <=> (k = active[t].qty)
              /\ after # None => after.qty = active[t].qty - k
            BY <2>1
        <3> QED BY <1>0, <2>1, <3>1, <3>2 DEF Reduces
    <2>3. /\ monitored' \in SUBSET Trades /\ monitored' \subseteq watched \cup {t}
          /\ marker' \in SUBSET Trades /\ marker' \subseteq marker \cup {t}
          /\ t \in marker' => after = None
        <3>1. CASE CloseDone(t, held, units, watched)
            BY <1>0, <2>1, <3>1 DEF CloseDone, TypeOK
        <3>2. CASE CloseFails(t, held, units, watched)
            BY <1>0, <2>1, <3>2 DEF CloseFails, TypeOK
        <3> QED BY <1>2, <3>1, <3>2
    <2>4. ClosedStaysClosed'
        BY <2>1, <2>3 DEF ClosedStaysClosed, TypeOK
    <2>5. lock' \in SUBSET Trades
        BY DEF ClosePosition, CrashInClose, TypeOK
    <2>6. summary' \in [Trades -> Nat] /\ risked' \in [Trades -> Nat]
        BY <1>0, <2>1 DEF TypeOK
    <2> QED BY <2>2, <2>3, <2>4, <2>5, <2>6
<1> QED BY <1>1, <1>2 DEF ClosePosition, CrashInClose

-----------------------------------------------------------------------------
(* What the three kinds of steps keep of the invariant. *)

LEMMA UntouchedKeeps ==
    ASSUME IInv, TypeOK', Untouched, marker' \subseteq marker
    PROVE  UnopenedBlank' /\ Conservation' /\ ClosedStaysClosed'
BY DEF IInv, Untouched, UnopenedBlank, Conservation, ClosedStaysClosed, Left

LEMMA RewriteKeeps ==
    ASSUME IInv, TypeOK', NEW t \in Trades, Rewrites(t), marker' \subseteq marker
    PROVE  UnopenedBlank' /\ Conservation' /\ ClosedStaysClosed'
<1>1. t \in opened /\ t \notin marker
    BY DEF IInv, UnopenedBlank, ClosedStaysClosed, Rewrites
<1>2. PICK after \in Records :
          after.qty = active[t].qty /\ active' = [active EXCEPT ![t] = after]
    BY DEF Rewrites
<1>3. after # None
    BY LifecycleAssumption DEF LifecycleAssumption, Records
<1>4. \A u \in Trades : u # t => active'[u] = active[u]
    BY <1>2 DEF IInv, TypeOK
<1>5. active'[t] = after
    BY <1>2 DEF IInv, TypeOK
<1>6. UnopenedBlank'
    BY <1>1, <1>4 DEF IInv, UnopenedBlank, Rewrites
<1>7. Conservation'
    BY <1>2, <1>3, <1>4, <1>5 DEF IInv, Conservation, Left, Rewrites, TypeOK
<1>8. ClosedStaysClosed'
    BY <1>1, <1>4 DEF IInv, ClosedStaysClosed, TypeOK
<1> QED BY <1>6, <1>7, <1>8

LEMMA ReduceKeeps ==
    ASSUME IInv, TypeOK', NEW t \in Trades, NEW k \in 1..Quantity, Reduces(t, k),
           marker' \subseteq marker \cup {t}
    PROVE  UnopenedBlank' /\ Conservation'
<1>1. PICK after \in Records \cup {None} :
          /\ active' = [active EXCEPT ![t] = after]
          /\ (after = None) <=> (k = active[t].qty)
          /\ after # None => after.qty = active[t].qty - k
    BY DEF Reduces
<1>2. /\ t \in opened /\ UNCHANGED <<opened, forgotten>> /\ active[t] # None /\ active[t] \in Records
      /\ booked'[t] = booked[t] + k
      /\ \A u \in Trades : u # t => booked'[u] = booked[u]
    BY DEF Reduces, IInv, TypeOK
<1>3. /\ active'[t] = after
      /\ \A u \in Trades : u # t => active'[u] = active[u]
    BY <1>1 DEF IInv, TypeOK
<1>4. UnopenedBlank'
    BY <1>2, <1>3 DEF IInv, UnopenedBlank
<1>5. ASSUME NEW u \in opened PROVE booked'[u] + Left(u)' + forgotten'[u] = Quantity
    <2>1. u \in Trades /\ booked[u] + Left(u) + forgotten[u] = Quantity
        BY <1>5 DEF IInv, TypeOK, Conservation
    <2>2. CASE u # t
        BY <1>2, <1>3, <2>1, <2>2 DEF Left
    <2>3. CASE u = t
        <3>1. /\ booked[t] \in Nat /\ forgotten[t] \in Nat /\ active[t].qty \in 1..Quantity /\ Quantity \in Nat
              /\ Left(t) = active[t].qty
            BY <1>2, LifecycleAssumption DEF LifecycleAssumption, IInv, TypeOK, Records, Left
        <3>2. Left(t)' = active[t].qty - k
            BY <1>1, <1>3, <3>1 DEF Left
        <3> QED BY <1>2, <2>1, <2>3, <3>1, <3>2
    <2> QED BY <2>2, <2>3
<1>6. Conservation'
    BY <1>2, <1>5 DEF Conservation
<1> QED BY <1>4, <1>6

(* A start that drops what is left of a position. *)
Forgets(t) ==
    /\ ~up
    /\ active[t] # None
    /\ UNCHANGED <<opened, booked>>
    /\ active' = [active EXCEPT ![t] = None]
    /\ forgotten' = [forgotten EXCEPT ![t] = @ + active[t].qty]

LEMMA ForgetKeeps ==
    ASSUME IInv, TypeOK', NEW t \in Trades, Forgets(t), marker' = marker
    PROVE  UnopenedBlank' /\ Conservation' /\ ClosedStaysClosed'
<1>1. /\ t \in opened /\ active'[t] = None /\ active[t].qty \in Nat
      /\ forgotten'[t] = forgotten[t] + active[t].qty
      /\ \A u \in Trades : u # t => active'[u] = active[u] /\ forgotten'[u] = forgotten[u]
    BY LifecycleAssumption DEF LifecycleAssumption, IInv, UnopenedBlank, Forgets, TypeOK, Records
<1>2. UnopenedBlank' /\ ClosedStaysClosed'
    BY <1>1 DEF IInv, UnopenedBlank, ClosedStaysClosed, Forgets, TypeOK
<1>3. ASSUME NEW u \in opened PROVE booked'[u] + Left(u)' + forgotten'[u] = Quantity
    <2>1. /\ u \in Trades /\ booked[u] + Left(u) + forgotten[u] = Quantity
          /\ booked[u] \in Nat /\ forgotten[u] \in Nat /\ booked'[u] = booked[u]
        BY <1>3 DEF IInv, TypeOK, Conservation, Forgets
    <2>2. CASE u # t
        BY <1>1, <2>1, <2>2 DEF Left
    <2>3. CASE u = t
        <3>1. Left(t) = active[t].qty /\ Left(t)' = 0
            BY <1>1 DEF Left, Forgets
        <3> QED BY <1>1, <2>1, <2>3, <3>1
    <2> QED BY <2>2, <2>3
<1> QED BY <1>2, <1>3 DEF Conservation, Forgets

-----------------------------------------------------------------------------
(* A change to the position t alone keeps the invariant, if the pass is     *)
(* through with t.                                                          *)
LEMMA PositionStep ==
    ASSUME IInv, NEW t \in Trades,
           \/ Rewrites(t) /\ marker' = marker
           \/ \E k \in 1..Quantity : Reduces(t, k),
           ClosedStaysClosed',
           marker' \in SUBSET Trades, marker' \subseteq marker \cup {t},
           monitored' \subseteq monitored \cup {t},
           lock' \in SUBSET Trades, summary' \in [Trades -> Nat], risked' \in [Trades -> Nat],
           up' \in BOOLEAN, crashes' \in 0..MaxCrashes, toReconcile' \in SUBSET Trades,
           snap' \in [Trades -> Nat] \cup {None},
           copy' \in [Trades -> Records \cup {None}], loop' \in BOOLEAN,
           todo' \subseteq todo \ {t},
           \A u \in todo' : copy'[u] = copy[u],
           ~up' => todo' = {}
    PROVE  IInv'
<1>1. /\ t \in opened /\ UNCHANGED <<opened, forgotten>>
      /\ \A u \in Trades : u # t => active'[u] = active[u]
      /\ active' \in [Trades -> Records \cup {None}]
      /\ booked' \in [Trades -> Nat]
    BY DEF IInv, TypeOK, UnopenedBlank, Rewrites, Reduces
<1>2. TypeOK'
    BY <1>1 DEF IInv, TypeOK, WatchInv
<1>3. CopiesFresh'
    BY <1>1 DEF IInv, TypeOK, CopiesFresh
<1>4. WatchInv'
    BY <1>1 DEF IInv, WatchInv
<1>5. UnopenedBlank' /\ Conservation'
    BY <1>2, RewriteKeeps, ReduceKeeps
<1> QED BY <1>2, <1>3, <1>4, <1>5 DEF IInv

(* A close of what the cache holds, by whoever may ask for it.              *)
LEMMA CloseStep ==
    ASSUME IInv, NEW t \in Trades, NEW held \in Records,
           active[t] # None, held.qty = active[t].qty, NEW units \in 1..Quantity,
           NEW watched \in SUBSET Trades, watched \subseteq monitored \cup {t},
           ClosePosition(t, held, units, watched) \/ CrashInClose(t, held, units, watched),
           UNCHANGED <<opened, forgotten>>,
           up' \in BOOLEAN, crashes' \in 0..MaxCrashes, toReconcile' \in SUBSET Trades,
           snap' \in [Trades -> Nat] \cup {None},
           copy' \in [Trades -> Records \cup {None}], loop' \in BOOLEAN,
           todo' \subseteq todo \ {t},
           \A u \in todo' : copy'[u] = copy[u],
           ~up' => todo' = {}
    PROVE  IInv'
<1>1. TypeOK /\ UnopenedBlank /\ ClosedStaysClosed
    BY DEF IInv
<1>2. /\ (Rewrites(t) /\ marker' = marker) \/ (\E k \in 1..Quantity : Reduces(t, k))
      /\ ClosedStaysClosed'
      /\ marker' \in SUBSET Trades /\ monitored' \in SUBSET Trades
      /\ lock' \in SUBSET Trades
      /\ summary' \in [Trades -> Nat] /\ risked' \in [Trades -> Nat]
      /\ marker' \subseteq marker \cup {t}
      /\ monitored' \subseteq watched \cup {t}
    BY <1>1, CloseEffect
<1> QED BY <1>2, PositionStep

LEMMA DieTypes ==
    ASSUME TypeOK, Die
    PROVE  /\ up' = FALSE /\ crashes' \in 0..MaxCrashes /\ toReconcile' \in SUBSET Trades
           /\ snap' = None /\ todo' = {} /\ copy' \in [Trades -> Records \cup {None}] /\ loop' \in BOOLEAN
BY LifecycleAssumption DEF LifecycleAssumption, Die, TypeOK

(* The steps that touch no position. *)
LEMMA QuietStep ==
    ASSUME IInv, TypeOK', Untouched, marker' \subseteq marker,
           monitored' \subseteq monitored, CopiesFresh', todo' \subseteq opened,
           ~up' => todo' = {}
    PROVE  IInv'
<1>1. WatchInv'
    BY DEF IInv, WatchInv, Untouched
<1> QED BY <1>1, UntouchedKeeps DEF IInv

-----------------------------------------------------------------------------
LEMMA InductiveInit == Init => IInv
BY LifecycleAssumption
   DEF LifecycleAssumption, Init, IInv, TypeOK, CopiesFresh, UnopenedBlank, WatchInv,
       Conservation, ClosedStaysClosed, Left

(* Opening a position: nothing was recorded about it before. *)
LEMMA OpenStep ==
    ASSUME IInv, NEW t \in Trades, Open(t) \/ OpenShare(t)
    PROVE  IInv'
<1>0. PICK status \in {"OPENING", "FILLED"} :
          active' = [active EXCEPT ![t] = [qty |-> Quantity, partialTaken |-> FALSE, status |-> status]]
    BY DEF Open, OpenShare
<1> DEFINE fresh == [qty |-> Quantity, partialTaken |-> FALSE, status |-> status]
<1>1. fresh \in Records /\ fresh # None /\ Quantity \in Nat
    <2>1. Quantity \in 1..Quantity /\ Quantity \in Nat
        BY LifecycleAssumption DEF LifecycleAssumption
    <2>2. fresh \in Records
        BY <2>1 DEF Records
    <2>3. \A r \in Records : r # None
        BY LifecycleAssumption DEF LifecycleAssumption, Records
    <2> QED BY <2>1, <2>2, <2>3
<1>2. /\ t \notin opened /\ opened' = opened \cup {t}
      /\ active' = [active EXCEPT ![t] = fresh]
      /\ UNCHANGED <<marker, lock, summary, booked, risked, forgotten>>
    BY <1>0 DEF Open, OpenShare, ledgerVars
<1>3. /\ active'[t] = fresh
      /\ \A u \in Trades : u # t => active'[u] = active[u]
      /\ active' \in [Trades -> Records \cup {None}]
    BY <1>1, <1>2 DEF IInv, TypeOK
<1>4. /\ TypeOK' /\ CopiesFresh' /\ WatchInv'
    <2>1. CASE monitored' \in {monitored, monitored \cup {t}} /\ Alive /\ UNCHANGED passVars
        <3>1. TypeOK'
            BY <1>2, <1>3, <2>1 DEF IInv, TypeOK, Alive, procVars, passVars
        <3>2. CopiesFresh'
            BY <1>2, <1>3, <2>1 DEF IInv, WatchInv, CopiesFresh, passVars, TypeOK
        <3>3. WatchInv'
            BY <1>2, <2>1 DEF IInv, WatchInv, Alive, procVars, passVars
        <3> QED BY <3>1, <3>2, <3>3
    <2>2. CASE Die /\ UNCHANGED monitored
        <3>1. /\ up' = FALSE /\ crashes' \in 0..MaxCrashes /\ toReconcile' \in SUBSET Trades
              /\ snap' = None /\ todo' = {} /\ copy' \in [Trades -> Records \cup {None}] /\ loop' \in BOOLEAN
            BY <2>2, DieTypes DEF IInv
        <3> QED BY <1>2, <1>3, <2>2, <3>1 DEF IInv, TypeOK, CopiesFresh, WatchInv
    <2> QED BY <2>1, <2>2 DEF Open, OpenShare, Alive
<1>5. UnopenedBlank'
    BY <1>2, <1>3 DEF IInv, UnopenedBlank
<1>6. Conservation'
    <2>1. Left(t)' = Quantity
        BY <1>1, <1>3 DEF Left
    <2>2. booked'[t] = 0 /\ forgotten'[t] = 0
        BY <1>2 DEF IInv, UnopenedBlank
    <2>3. ASSUME NEW u \in opened PROVE booked'[u] + Left(u)' + forgotten'[u] = Quantity
        BY <1>2, <1>3 DEF IInv, TypeOK, Conservation, Left
    <2> QED BY <1>1, <1>2, <2>1, <2>2, <2>3 DEF Conservation
<1>7. ClosedStaysClosed'
    BY <1>2, <1>3 DEF IInv, ClosedStaysClosed, UnopenedBlank, TypeOK
<1> QED BY <1>4, <1>5, <1>6, <1>7 DEF IInv

-----------------------------------------------------------------------------
(* A close that finds no record changes nothing. *)
LEMMA AbsentClose ==
    ASSUME TypeOK, NEW t \in Trades, active[t] = None, NEW units, NEW watched,
           ClosePosition(t, active[t], units, watched) \/ CrashInClose(t, active[t], units, watched)
    PROVE  /\ ClosePosition(t, active[t], units, watched)
           /\ UNCHANGED <<active, marker, lock, summary, booked, risked>> /\ monitored' = watched
<1>1. Refused(t, active[t])
    BY DEF Refused
<1>2. Keep(t, active[t], watched) /\ UNCHANGED lock
    BY <1>1 DEF ClosePosition, CrashInClose
<1> QED BY <1>1, <1>2 DEF ClosePosition, CrashInClose, Keep, ledgerVars, TypeOK

LEMMA ApiCloseStep ==
    ASSUME IInv, ~ApiDuringPass, NEW t \in Trades, NEW units \in 1..Quantity, ApiClose(t, units)
    PROVE  IInv'
<1>1. todo = {} /\ up /\ UNCHANGED <<opened, forgotten>>
    BY DEF ApiClose
<1>2. TypeOK /\ monitored \in SUBSET Trades
    BY DEF IInv, TypeOK
<1>3. \/ ClosePosition(t, active[t], units, monitored) /\ Alive /\ UNCHANGED passVars
      \/ CrashInClose(t, active[t], units, monitored) /\ Die
    BY DEF ApiClose, CrashInClose
<1>4. /\ up' \in BOOLEAN /\ crashes' \in 0..MaxCrashes /\ toReconcile' \in SUBSET Trades
      /\ snap' \in [Trades -> Nat] \cup {None} /\ todo' = {}
      /\ copy' \in [Trades -> Records \cup {None}] /\ loop' \in BOOLEAN
    <2>1. CASE Alive /\ UNCHANGED passVars
        BY <1>1, <1>2, <2>1 DEF TypeOK, Alive, procVars, passVars
    <2>2. CASE Die
        BY <1>2, <2>2, DieTypes
    <2> QED BY <1>3, <2>1, <2>2
<1>5. CASE active[t] = None
    <2>1. UNCHANGED <<active, marker, lock, summary, booked, risked>> /\ monitored' = monitored
        BY <1>2, <1>3, <1>5, AbsentClose
    <2>2. TypeOK'
        BY <1>1, <1>2, <1>4, <2>1 DEF TypeOK
    <2> QED BY <1>1, <1>4, <2>1, <2>2, QuietStep DEF Untouched, CopiesFresh
<1>6. CASE active[t] # None
    <2>1. active[t] \in Records
        BY <1>2, <1>6 DEF TypeOK
    <2> QED BY <1>1, <1>2, <1>3, <1>4, <1>6, <2>1, CloseStep
<1> QED BY <1>5, <1>6

(* The monitor closes what its copy holds: the copy is fresh. *)
LEMMA MonitorCloseStep ==
    ASSUME IInv, NEW t \in todo, copy[t] # None, NEW held \in Records,
           held.qty = copy[t].qty, NEW units \in 1..Quantity, up, UNCHANGED <<opened, forgotten>>,
           \/ ClosePosition(t, held, units, monitored \cup {t}) /\ Done(t) /\ Alive
           \/ CrashInClose(t, held, units, monitored \cup {t})
    PROVE  IInv'
<1>1. TypeOK /\ t \in Trades /\ copy[t] = active[t]
    BY DEF IInv, TypeOK, CopiesFresh
<1>2. /\ up' \in BOOLEAN /\ crashes' \in 0..MaxCrashes /\ toReconcile' \in SUBSET Trades
      /\ snap' \in [Trades -> Nat] \cup {None}
      /\ copy' \in [Trades -> Records \cup {None}] /\ loop' \in BOOLEAN
      /\ todo' \subseteq todo \ {t}
      /\ \A u \in todo' : copy'[u] = copy[u]
      /\ ~up' => todo' = {}
    <2>1. CASE Done(t) /\ Alive
        BY <1>1, <2>1 DEF TypeOK, Done, Alive, procVars
    <2>2. CASE Die
        BY <1>1, <2>2, DieTypes
    <2> QED BY <2>1, <2>2 DEF CrashInClose
<1>3. monitored \cup {t} \in SUBSET Trades
    BY <1>1 DEF TypeOK
<1> QED BY <1>1, <1>2, <1>3, CloseStep

LEMMA HoldStep ==
    ASSUME IInv, NEW t \in Trades, HoldTrade(t)
    PROVE  IInv'
<1>1. /\ TypeOK /\ t \in todo /\ copy[t] = active[t] /\ active[t] \in Records
      /\ active[t] # None
    BY DEF HoldTrade, IInv, CopiesFresh, TypeOK
<1>2. Rewrites(t) /\ marker' = marker
    BY <1>1 DEF HoldTrade, Keep, ledgerVars, Rewrites
<1>3. ClosedStaysClosed'
    BY <1>1 DEF HoldTrade, Keep, ledgerVars, IInv, ClosedStaysClosed, TypeOK
<1> QED BY <1>1, <1>2, <1>3, PositionStep
        DEF HoldTrade, Keep, ledgerVars, Done, Alive, procVars, TypeOK

(* Reconciliation rewrites the status, closes units of what the cache holds *)
(* or drops the record.                                                     *)
LEMMA ReconcileStep ==
    ASSUME IInv, NEW t \in Trades, ReconcileTrade(t)
    PROVE  IInv'
<1>1. /\ TypeOK /\ t \in Trades /\ ~up /\ todo = {}
      /\ active[t] # None /\ active[t] \in Records
      /\ active[t].qty \in 1..Quantity
    BY DEF ReconcileTrade, Unsettled, IInv, TypeOK, WatchInv, Records
<1>2. /\ up' = up /\ crashes' = crashes /\ snap' = snap /\ todo' = todo /\ copy' = copy
      /\ loop' = loop /\ opened' = opened /\ toReconcile' = toReconcile \ {t}
    BY DEF ReconcileTrade, passVars
<1>3. /\ up' \in BOOLEAN /\ crashes' \in 0..MaxCrashes /\ toReconcile' \in SUBSET Trades
      /\ snap' \in [Trades -> Nat] \cup {None} /\ todo' = {}
      /\ copy' \in [Trades -> Records \cup {None}] /\ loop' \in BOOLEAN
    BY <1>1, <1>2 DEF TypeOK
<1>4. CASE /\ \E status \in {"FAILED", "PARTIAL"} : active' = [active EXCEPT ![t].status = status]
           /\ UNCHANGED <<monitored, marker, lock, ledgerVars, forgotten>>
    <2>1. PICK status \in {"FAILED", "PARTIAL"} : active' = [active EXCEPT ![t].status = status]
        BY <1>4
    <2> DEFINE after == [active[t] EXCEPT !.status = status]
    <2>2. after \in Records /\ after.qty = active[t].qty
        BY <1>1 DEF Records
    <2>3. active' = [active EXCEPT ![t] = after]
        BY <2>1
    <2>4. Rewrites(t)
        BY <1>1, <1>2, <1>4, <2>2, <2>3 DEF Rewrites, ledgerVars
    <2>5. ClosedStaysClosed'
        BY <1>1, <1>4, <2>3 DEF IInv, ClosedStaysClosed, TypeOK
    <2> QED BY <1>1, <1>3, <1>4, <2>4, <2>5, PositionStep DEF TypeOK, ledgerVars
<1>5. CASE /\ \E units \in 1..active[t].qty : ClosePosition(t, active[t], units, monitored)
           /\ UNCHANGED forgotten
    <2>1. PICK units \in 1..active[t].qty : ClosePosition(t, active[t], units, monitored)
        BY <1>5
    <2>2. units \in 1..Quantity
        BY <1>1, LifecycleAssumption DEF LifecycleAssumption
    <2> QED BY <1>1, <1>2, <1>3, <1>5, <2>1, <2>2, CloseStep DEF TypeOK
<1>6. CASE /\ forgotten' = [forgotten EXCEPT ![t] = @ + active[t].qty]
           /\ active' = [active EXCEPT ![t] = None]
           /\ UNCHANGED <<monitored, marker, lock, ledgerVars>>
    <2>1. TypeOK'
        BY <1>1, <1>2, <1>3, <1>6 DEF TypeOK, ledgerVars
    <2>2. Forgets(t)
        BY <1>1, <1>2, <1>6 DEF Forgets, ledgerVars
    <2>3. CopiesFresh' /\ WatchInv'
        BY <1>1, <1>2, <1>6 DEF IInv, CopiesFresh, WatchInv
    <2> QED BY <1>6, <2>1, <2>2, <2>3, ForgetKeeps DEF IInv
<1> QED BY <1>4, <1>5, <1>6 DEF ReconcileTrade

-----------------------------------------------------------------------------
LEMMA InductiveStep ==
    ASSUME ~ApiDuringPass, IInv, [Next]_vars
    PROVE  IInv'
<1>0. TypeOK
    BY DEF IInv
<1>1. CASE \E t \in Trades : Open(t) \/ OpenShare(t)
    BY <1>1, OpenStep
<1>2. CASE \E t \in Trades : \E units \in 1..Quantity : ApiClose(t, units)
    BY <1>2, ApiCloseStep
<1>3. CASE StartPass \/ LoopDies
    <2>1. TypeOK' /\ CopiesFresh' /\ todo' \subseteq opened
        BY <1>0, <1>3
           DEF IInv, StartPass, LoopDies, WatchInv, TypeOK, CopiesFresh, Alive, procVars, ledgerVars
    <2> QED BY <1>3, <2>1, QuietStep
            DEF StartPass, LoopDies, Untouched, Alive, procVars, ledgerVars
<1>4. ASSUME NEW t \in Trades, Unregister(t) \/ SkipTrade(t)
      PROVE  IInv'
    <2>1. /\ Done(t) /\ Alive /\ up /\ monitored' \subseteq monitored
          /\ UNCHANGED <<active, marker, lock, summary, opened, booked, risked, forgotten, loop>>
        BY <1>4 DEF Unregister, SkipTrade, Done, ledgerVars
    <2>2. TypeOK' /\ CopiesFresh' /\ todo' \subseteq opened
        BY <1>0, <2>1 DEF IInv, TypeOK, CopiesFresh, WatchInv, Done, Alive, procVars
    <2> QED BY <2>1, <2>2, QuietStep DEF Untouched, Alive, procVars
<1>5. CASE \E t \in Trades : HoldTrade(t)
    BY <1>5, HoldStep
<1>6. ASSUME NEW t \in Trades, TakePartialProfit(t)
      PROVE  IInv'
    <2> DEFINE held == [copy[t] EXCEPT !.partialTaken = TRUE]
    <2>1. /\ t \in todo /\ copy[t] # None /\ up /\ UNCHANGED <<opened, forgotten>> /\ copy[t] \in Records
          /\ copy[t].qty > 1
        BY <1>0, <1>6 DEF TakePartialProfit, TypeOK
    <2>2. held \in Records /\ held.qty = copy[t].qty
        BY <2>1 DEF Records
    <2>4. 1 \in 1..Quantity
        BY LifecycleAssumption DEF LifecycleAssumption
    <2>3. \/ ClosePosition(t, held, 1, monitored \cup {t}) /\ Done(t) /\ Alive
          \/ CrashInClose(t, held, 1, monitored \cup {t})
        BY <1>6 DEF TakePartialProfit
    <2> HIDE DEF held
    <2> QED BY <2>1, <2>2, <2>3, <2>4, MonitorCloseStep
<1>7. ASSUME NEW t \in Trades, ExitTrade(t)
      PROVE  IInv'
    <2>1. /\ t \in todo /\ copy[t] # None /\ up /\ UNCHANGED <<opened, forgotten>> /\ copy[t] \in Records
        BY <1>0, <1>7 DEF ExitTrade, TypeOK
    <2>2. copy[t].qty \in 1..Quantity
        BY <2>1 DEF Records
    <2>3. \/ ClosePosition(t, copy[t], copy[t].qty, monitored \cup {t}) /\ Done(t) /\ Alive
          \/ CrashInClose(t, copy[t], copy[t].qty, monitored \cup {t})
        BY <1>7 DEF ExitTrade
    <2> QED BY <2>1, <2>2, <2>3, MonitorCloseStep
<1>8. CASE \E t \in Trades : ReconcileTrade(t)
    BY <1>8, ReconcileStep
<1>9. CASE ReadSummary \/ WriteSummary
    <2>1. TypeOK' /\ CopiesFresh'
        BY <1>0, <1>9 DEF IInv, ReadSummary, WriteSummary, TypeOK, ledgerVars, CopiesFresh, passVars
    <2> QED BY <1>9, <2>1, QuietStep DEF ReadSummary, WriteSummary, Untouched, ledgerVars, passVars, IInv, WatchInv
<1>10. CASE Crash
    <2>1. /\ up' = FALSE /\ crashes' \in 0..MaxCrashes /\ toReconcile' \in SUBSET Trades
          /\ snap' = None /\ todo' = {} /\ copy' \in [Trades -> Records \cup {None}] /\ loop' \in BOOLEAN
        BY <1>0, <1>10, DieTypes DEF Crash
    <2>2. TypeOK' /\ CopiesFresh'
        BY <1>0, <1>10, <2>1 DEF Crash, TypeOK, ledgerVars, CopiesFresh
    <2> QED BY <1>10, <2>1, <2>2, QuietStep DEF Crash, Untouched, ledgerVars
<1>11. CASE Start \/ \E t \in Trades : ExpireLock(t) \/ ExpireMarker(t)
    <2>1. /\ UNCHANGED <<crashes, snap, todo, copy, loop, active, monitored, summary, opened, booked, risked, forgotten>>
          /\ marker' \subseteq marker /\ lock' \subseteq lock
          /\ toReconcile' \subseteq toReconcile
          /\ up' \in BOOLEAN /\ (up => up')
        <3>1. CASE Start
            BY <1>0, <3>1 DEF Start, passVars, ledgerVars, TypeOK
        <3>2. CASE \E t \in Trades : ExpireLock(t) \/ ExpireMarker(t)
            BY <1>0, <3>2 DEF TypeOK, ExpireLock, ExpireMarker, procVars, passVars, ledgerVars
        <3> QED BY <1>11, <3>1, <3>2
    <2>2. ~up' => todo' = {}
        BY <2>1 DEF IInv, WatchInv
    <2>3. TypeOK' /\ CopiesFresh'
        BY <1>0, <2>1, <2>2 DEF TypeOK, CopiesFresh, IInv
    <2> QED BY <2>1, <2>2, <2>3, QuietStep DEF Untouched, IInv, WatchInv
<1>12. CASE UNCHANGED vars
    <2>1. TypeOK' /\ CopiesFresh' /\ Untouched
        BY <1>0, <1>12 DEF IInv, TypeOK, CopiesFresh, vars, ledgerVars, procVars, passVars, Untouched
    <2> QED BY <1>12, <2>1, QuietStep DEF vars, procVars, ledgerVars, passVars, IInv, WatchInv
<1> QED
    BY <1>1, <1>2, <1>3, <1>4, <1>5, <1>6, <1>7, <1>8, <1>9, <1>10, <1>11, <1>12
       DEF Next, Analyse

-----------------------------------------------------------------------------
(* If no close request overlaps a pass of the monitor, the invariant holds  *)
(* in every reachable state.                                                *)
THEOREM Invariance == ASSUME ~ApiDuringPass PROVE Spec => []IInv
<1>1. Init => IInv
    BY InductiveInit
<1>2. IInv /\ [Next]_vars => IInv'
    BY InductiveStep
<1> QED BY <1>1, <1>2, PTL DEF Spec

(* Every variable has its type. *)
THEOREM TypeCorrect == ASSUME ~ApiDuringPass PROVE Spec => []TypeOK
<1>1. IInv => TypeOK
    BY DEF IInv
<1> QED BY <1>1, Invariance, PTL

(* Every unit of a position is open or booked exactly once, through failing *)
(* closes, crashes between a close and its bookkeeping, and restarts.       *)
THEOREM UnitsConserved == ASSUME ~ApiDuringPass PROVE Spec => []Conservation
<1>1. IInv => Conservation
    BY DEF IInv
<1> QED BY <1>1, Invariance, PTL

(* A trade marked as closed is never brought back by the monitor's writes.  *)
THEOREM NoZombie == ASSUME ~ApiDuringPass PROVE Spec => []ClosedStaysClosed
<1>1. IInv => ClosedStaysClosed
    BY DEF IInv
<1> QED BY <1>1, Invariance, PTL
-----------------------------------------------------------------------------
(* The refinement of Position.  Every step opens a position, forgets one,   *)
(* takes units of one, rewrites the record of one, or touches none.         *)
Effect ==
    \/ \E t \in Trades : Open(t) \/ OpenShare(t)
    \/ \E t \in Trades : Forgets(t)
    \/ \E t \in Trades, k \in 1..Quantity : Reduces(t, k)
    \/ \E t \in Trades : Rewrites(t)
    \/ Untouched

LEMMA StepEffect ==
    ASSUME ~ApiDuringPass, IInv, [Next]_vars
    PROVE  Effect
<1>0. TypeOK /\ UnopenedBlank /\ ClosedStaysClosed
    BY DEF IInv
<1>1. ASSUME NEW t \in Trades, NEW held \in Records, active[t] # None, held.qty = active[t].qty,
             NEW units \in 1..Quantity, NEW watched \in SUBSET Trades, UNCHANGED <<opened, forgotten>>,
             ClosePosition(t, held, units, watched) \/ CrashInClose(t, held, units, watched)
      PROVE  Effect
    <2>1. (Rewrites(t) /\ marker' = marker) \/ (\E k \in 1..Quantity : Reduces(t, k))
        BY <1>0, <1>1, CloseEffect
    <2> QED BY <2>1 DEF Effect
<1>2. ASSUME NEW t \in Trades, NEW units \in 1..Quantity, ApiClose(t, units)
      PROVE  Effect
    <2>1. CASE active[t] = None
        <3>1. UNCHANGED <<active, marker, lock, summary, booked, risked>> /\ UNCHANGED <<opened, forgotten>>
            BY <1>0, <1>2, <2>1, AbsentClose DEF ApiClose
        <3> QED BY <3>1 DEF Untouched, Effect
    <2>2. CASE active[t] # None
        <3>1. active[t] \in Records /\ monitored \in SUBSET Trades /\ UNCHANGED <<opened, forgotten>>
            BY <1>0, <1>2, <2>2 DEF TypeOK, ApiClose
        <3>2. \/ ClosePosition(t, active[t], units, monitored)
              \/ CrashInClose(t, active[t], units, monitored)
            BY <1>2 DEF ApiClose
        <3> QED BY <1>1, <2>2, <3>1, <3>2
    <2> QED BY <2>1, <2>2
<1>3. ASSUME NEW t \in todo, copy[t] # None, NEW held \in Records, held.qty = copy[t].qty,
             NEW units \in 1..Quantity, UNCHANGED <<opened, forgotten>>,
             \/ ClosePosition(t, held, units, monitored \cup {t})
             \/ CrashInClose(t, held, units, monitored \cup {t})
      PROVE  Effect
    <2>1. t \in Trades /\ copy[t] = active[t] /\ monitored \cup {t} \in SUBSET Trades
        BY <1>0 DEF IInv, TypeOK, CopiesFresh
    <2> QED BY <1>1, <1>3, <2>1
<1>4. ASSUME NEW t \in Trades, HoldTrade(t)
      PROVE  Effect
    <2>1. t \in todo /\ copy[t] = active[t] /\ active[t] \in Records /\ active[t] # None
        BY <1>0, <1>4 DEF HoldTrade, IInv, CopiesFresh, TypeOK
    <2>2. Rewrites(t)
        BY <1>4, <2>1 DEF HoldTrade, Keep, ledgerVars, Rewrites
    <2> QED BY <2>2 DEF Effect
<1>5. ASSUME NEW t \in Trades, TakePartialProfit(t)
      PROVE  Effect
    <2> DEFINE held == [copy[t] EXCEPT !.partialTaken = TRUE]
    <2>1. /\ t \in todo /\ copy[t] # None /\ UNCHANGED <<opened, forgotten>> /\ copy[t] \in Records
        BY <1>0, <1>5 DEF TakePartialProfit, TypeOK
    <2>2. held \in Records /\ held.qty = copy[t].qty
        BY <2>1 DEF Records
    <2>3. 1 \in 1..Quantity
        BY LifecycleAssumption DEF LifecycleAssumption
    <2>4. \/ ClosePosition(t, held, 1, monitored \cup {t})
          \/ CrashInClose(t, held, 1, monitored \cup {t})
        BY <1>5 DEF TakePartialProfit
    <2> HIDE DEF held
    <2> QED BY <1>3, <2>1, <2>2, <2>3, <2>4
<1>6. ASSUME NEW t \in Trades, ExitTrade(t)
      PROVE  Effect
    <2>1. /\ t \in todo /\ copy[t] # None /\ UNCHANGED <<opened, forgotten>> /\ copy[t] \in Records
        BY <1>0, <1>6 DEF ExitTrade, TypeOK
    <2>2. copy[t].qty \in 1..Quantity
        BY <2>1 DEF Records
    <2>3. \/ ClosePosition(t, copy[t], copy[t].qty, monitored \cup {t})
          \/ CrashInClose(t, copy[t], copy[t].qty, monitored \cup {t})
        BY <1>6 DEF ExitTrade
    <2> QED BY <1>3, <2>1, <2>2, <2>3
<1>7. ASSUME NEW t \in Trades, ReconcileTrade(t)
      PROVE  Effect
    <2>1. /\ active[t] # None /\ active[t] \in Records /\ opened' = opened /\ ~up
          /\ active[t].qty \in 1..Quantity /\ monitored \in SUBSET Trades
        BY <1>0, <1>7 DEF ReconcileTrade, Unsettled, TypeOK, Records
    <2>2. CASE /\ \E status \in {"FAILED", "PARTIAL"} : active' = [active EXCEPT ![t].status = status]
               /\ UNCHANGED <<monitored, marker, lock, ledgerVars, forgotten>>
        <3>1. PICK status \in {"FAILED", "PARTIAL"} : active' = [active EXCEPT ![t].status = status]
            BY <2>2
        <3> DEFINE after == [active[t] EXCEPT !.status = status]
        <3>2. after \in Records /\ after.qty = active[t].qty
            BY <2>1 DEF Records
        <3>3. Rewrites(t)
            BY <2>1, <2>2, <3>1, <3>2 DEF Rewrites, ledgerVars
        <3> QED BY <3>3 DEF Effect
    <2>3. CASE /\ \E units \in 1..active[t].qty : ClosePosition(t, active[t], units, monitored)
               /\ UNCHANGED forgotten
        <3>1. PICK units \in 1..active[t].qty : ClosePosition(t, active[t], units, monitored)
            BY <2>3
        <3>2. units \in 1..Quantity
            BY <2>1, LifecycleAssumption DEF LifecycleAssumption
        <3> QED BY <1>1, <2>1, <2>3, <3>1, <3>2
    <2>4. CASE /\ forgotten' = [forgotten EXCEPT ![t] = @ + active[t].qty]
               /\ active' = [active EXCEPT ![t] = None]
               /\ UNCHANGED <<monitored, marker, lock, ledgerVars>>
        BY <2>1, <2>4 DEF Forgets, Effect, ledgerVars
    <2> QED BY <1>7, <2>2, <2>3, <2>4 DEF ReconcileTrade
<1>8. CASE \/ \E t \in Trades : Unregister(t) \/ SkipTrade(t) \/ ExpireLock(t) \/ ExpireMarker(t)
           \/ StartPass \/ LoopDies \/ ReadSummary \/ WriteSummary \/ Crash \/ Start
           \/ UNCHANGED vars
    <2>1. Untouched
        BY <1>8 DEF Unregister, SkipTrade, ExpireLock, ExpireMarker, StartPass, LoopDies,
                    ReadSummary, WriteSummary, Crash, Start, vars, Untouched, ledgerVars
    <2> QED BY <2>1 DEF Effect
<1>9. CASE \E t \in Trades : Open(t) \/ OpenShare(t)
    BY <1>9 DEF Effect
<1> QED
    BY <1>2, <1>4, <1>5, <1>6, <1>7, <1>8, <1>9 DEF Next, Analyse

(* The units the abstract position has left. *)
AbstractLeft == [t \in Trades |-> IF t \in opened THEN Left(t) ELSE Quantity + 1]

LEMMA EffectMaps ==
    ASSUME IInv, IInv', Effect
    PROVE  Abstract!Next \/ (AbstractLeft' = AbstractLeft /\ booked' = booked)
<1>0. TypeOK /\ TypeOK' /\ Quantity \in Nat
    BY LifecycleAssumption DEF LifecycleAssumption, IInv
<1>1. ASSUME NEW t \in Trades, Open(t) \/ OpenShare(t)
      PROVE  Abstract!Next
    <2>1. /\ t \notin opened /\ opened' = opened \cup {t} /\ booked' = booked /\ forgotten' = forgotten
          /\ \A u \in Trades : u # t => active'[u] = active[u]
        BY <1>0, <1>1 DEF Open, OpenShare, TypeOK, ledgerVars
    <2>2. Left(t)' = Quantity
        <3>1. /\ booked'[t] = 0 /\ forgotten'[t] = 0
              /\ booked'[t] + Left(t)' + forgotten'[t] = Quantity
            BY <2>1 DEF IInv, UnopenedBlank, Conservation
        <3>2. Left(t)' \in Nat
            BY <1>0 DEF TypeOK, Records, Left
        <3> QED BY <1>0, <3>1, <3>2
    <2>3. AbstractLeft' = [AbstractLeft EXCEPT ![t] = Quantity]
        BY <2>1, <2>2 DEF AbstractLeft, Left
    <2>4. AbstractLeft[t] = Quantity + 1
        BY <2>1 DEF AbstractLeft
    <2>5. Abstract!Open(t)
        BY <2>1, <2>3, <2>4 DEF Abstract!Open, Abstract!NotOpened, AbstractLeft
    <2> QED BY <2>5 DEF Abstract!Next
<1>2. ASSUME NEW t \in Trades, NEW k \in 1..Quantity, Reduces(t, k)
      PROVE  Abstract!Next
    <2>1. PICK after \in Records \cup {None} :
              /\ active' = [active EXCEPT ![t] = after]
              /\ (after = None) <=> (k = active[t].qty)
              /\ after # None => after.qty = active[t].qty - k
        BY <1>2 DEF Reduces
    <2>2. /\ t \in opened /\ UNCHANGED <<opened, forgotten>> /\ active[t] \in Records
          /\ k \in 1..active[t].qty /\ active[t].qty \in 1..Quantity /\ Left(t) = active[t].qty
          /\ booked' = [booked EXCEPT ![t] = @ + k]
        BY <1>0, <1>2 DEF Reduces, TypeOK, Records, Left
    <2>3. /\ active'[t] = after
          /\ \A u \in Trades : u # t => active'[u] = active[u]
        BY <1>0, <2>1 DEF TypeOK
    <2>4. Left(t)' = Left(t) - k
        BY <1>0, <2>1, <2>2, <2>3 DEF Left
    <2>5. AbstractLeft' = [AbstractLeft EXCEPT ![t] = @ - k]
        BY <2>2, <2>3, <2>4 DEF AbstractLeft, Left
    <2>6. AbstractLeft[t] = Left(t) /\ Left(t) # Quantity + 1 /\ k \in 1..AbstractLeft[t]
        BY <1>0, <2>2 DEF AbstractLeft
    <2>7. Abstract!Reduce(t, k)
        BY <2>2, <2>5, <2>6 DEF Abstract!Reduce, Abstract!NotOpened, AbstractLeft
    <2> QED BY <2>7 DEF Abstract!Next
<1>3. ASSUME NEW t \in Trades, Rewrites(t)
      PROVE  AbstractLeft' = AbstractLeft /\ booked' = booked
    <2>1. PICK after \in Records :
              after.qty = active[t].qty /\ active' = [active EXCEPT ![t] = after]
        BY <1>3 DEF Rewrites
    <2>2. after # None
        BY LifecycleAssumption DEF LifecycleAssumption, Records
    <2>3. /\ active'[t] = after /\ active[t] # None /\ UNCHANGED <<opened, booked>>
          /\ \A u \in Trades : u # t => active'[u] = active[u]
        BY <1>0, <1>3, <2>1 DEF TypeOK, Rewrites
    <2>4. \A u \in Trades : Left(u)' = Left(u)
        BY <2>1, <2>2, <2>3 DEF Left
    <2> QED BY <2>3, <2>4 DEF AbstractLeft
<1>4. CASE Untouched
    BY <1>4 DEF Untouched, AbstractLeft, Left
<1>5. ASSUME NEW t \in Trades, Forgets(t)
      PROVE  Abstract!Next
    <2>1. /\ t \in opened /\ active[t] \in Records /\ active[t].qty \in 1..Quantity
          /\ Left(t) = active[t].qty /\ Left(t)' = 0
          /\ \A u \in Trades : u # t => active'[u] = active[u]
        BY <1>0, <1>5 DEF Forgets, TypeOK, Records, Left, IInv, UnopenedBlank
    <2>2. AbstractLeft[t] \in 1..Quantity
        BY <2>1 DEF AbstractLeft
    <2>4. \A u \in Trades : u # t => Left(u)' = Left(u)
        BY <2>1 DEF Left
    <2>5. opened' = opened
        BY <1>5 DEF Forgets
    <2>6. AbstractLeft' = [AbstractLeft EXCEPT ![t] = 0]
        BY <2>1, <2>4, <2>5 DEF AbstractLeft
    <2>3. Abstract!Forget(t)
        BY <1>5, <2>2, <2>6 DEF Abstract!Forget, Forgets, AbstractLeft
    <2> QED BY <2>3 DEF Abstract!Next
<1> QED BY <1>1, <1>2, <1>3, <1>4, <1>5 DEF Effect

(* Closes, ticks, crashes and restarts implement Position: a position is    *)
(* only ever reduced, and every unit is booked once.                        *)
THEOREM Refinement == ASSUME ~ApiDuringPass PROVE Spec => ImplementsPosition
<1>1. Init => Abstract!Init
    BY DEF Init, Abstract!Init, Abstract!NotOpened
<1>2. IInv /\ IInv' /\ [Next]_vars => [Abstract!Next]_<<AbstractLeft, booked>>
    BY StepEffect, EffectMaps
<1> QED BY <1>1, <1>2, Invariance, PTL DEF Spec, ImplementsPosition, Abstract!Spec, AbstractLeft

-----------------------------------------------------------------------------
(* The ledger summary.  A close changes it in the transaction that books    *)
(* the units; only a snapshot writes back an older one.  What the monitor   *)
(* or a request read before plays no part.                                  *)

Within(sums) ==
    \A t \in Trades : booked[t] - risked[t] <= sums[t] /\ sums[t] <= booked[t]

SummaryInv ==
    /\ summary \in [Trades -> Nat] /\ booked \in [Trades -> Nat] /\ risked \in [Trades -> Nat]
    /\ snap \in [Trades -> Nat] \cup {None}
    /\ Within(summary)
    /\ snap # None => Within(snap)

(* What a step does to the summary: nothing, a transaction of a close, or   *)
(* the end of a snapshot that writes back what it read.                     *)
Books ==
    \E t \in Trades, units \in Nat : Book(t, units)

SummaryKept == UNCHANGED ledgerVars

LEMMA SummaryEffect ==
    ASSUME SummaryInv, SummaryKept \/ Books,
           snap' = snap \/ snap' = None \/ (snap' = summary /\ SummaryKept)
    PROVE  SummaryInv'
<1>1. CASE SummaryKept
    BY <1>1 DEF SummaryInv, SummaryKept, Within, ledgerVars
<1>2. CASE Books /\ (snap' = snap \/ snap' = None)
    <2>1. PICK t \in Trades, units \in Nat : Book(t, units)
        BY <1>2 DEF Books
    <2>2. /\ summary' \in [Trades -> Nat] /\ booked' \in [Trades -> Nat] /\ risked' \in [Trades -> Nat]
          /\ \A u \in Trades : u # t => /\ summary'[u] = summary[u] /\ booked'[u] = booked[u]
                                        /\ risked'[u] = risked[u]
          /\ summary'[t] = summary[t] + units /\ booked'[t] = booked[t] + units
          /\ snap = None => risked'[t] = risked[t]
          /\ snap # None => risked'[t] = risked[t] + units
        BY <2>1 DEF SummaryInv, Book
    <2>3. Within(summary)'
        <3>1. ASSUME NEW u \in Trades
              PROVE  booked'[u] - risked'[u] <= summary'[u] /\ summary'[u] <= booked'[u]
            <4>1. /\ booked[u] \in Nat /\ risked[u] \in Nat /\ summary[u] \in Nat
                  /\ booked[u] - risked[u] <= summary[u] /\ summary[u] <= booked[u]
                BY DEF SummaryInv, Within
            <4>2. CASE u # t
                BY <2>2, <4>1, <4>2
            <4>3. CASE u = t
                BY <2>2, <4>1, <4>3
            <4> QED BY <4>2, <4>3
        <3> QED BY <3>1 DEF Within
    <2>4. ASSUME snap' # None PROVE Within(snap)'
        <3>1. snap' = snap /\ snap # None /\ snap \in [Trades -> Nat] /\ Within(snap)
            BY <1>2, <2>4 DEF SummaryInv
        <3>2. ASSUME NEW u \in Trades
              PROVE  booked'[u] - risked'[u] <= snap[u] /\ snap[u] <= booked'[u]
            <4>1. /\ booked[u] \in Nat /\ risked[u] \in Nat /\ snap[u] \in Nat
                  /\ booked[u] - risked[u] <= snap[u] /\ snap[u] <= booked[u]
                BY <3>1 DEF SummaryInv, Within
            <4>2. CASE u # t
                BY <2>2, <4>1, <4>2
            <4>3. CASE u = t
                BY <2>2, <3>1, <4>1, <4>3
            <4> QED BY <4>2, <4>3
        <3> QED BY <3>1, <3>2 DEF Within
    <2>5. snap' \in [Trades -> Nat] \cup {None}
        BY <1>2 DEF SummaryInv
    <2> QED BY <2>2, <2>3, <2>4, <2>5 DEF SummaryInv
<1> QED BY <1>1, <1>2

(* A close keeps the summary or books units in it.                          *)
LEMMA CloseBooks ==
    ASSUME Quantity \in Nat, NEW t \in Trades, NEW held \in Records \cup {None},
           NEW units \in 1..Quantity, NEW watched,
           \/ ClosePosition(t, held, units, watched)
           \/ CrashInClose(t, held, units, watched)
    PROVE  SummaryKept \/ Books
<1>1. CASE Keep(t, held, watched)
    BY <1>1 DEF Keep, SummaryKept
<1>2. CASE held # None /\ Settle(t, held, units)
    <2>1. Least(units, held.qty) \in Nat
        BY <1>2 DEF Least, Records
    <2> QED BY <1>2, <2>1 DEF Settle, Books
<1> QED BY <1>1, <1>2 DEF ClosePosition, CrashInClose, CloseDone, CloseFails, Refused

LEMMA SummaryStep ==
    ASSUME SummaryInv, TypeOK, [Next]_vars
    PROVE  SummaryInv'
<1>0. /\ Quantity \in Nat /\ 1 \in 1..Quantity
      /\ \A r \in Records : r.qty \in 1..Quantity
      /\ \A t \in Trades : active[t] \in Records \cup {None} /\ copy[t] \in Records \cup {None}
    BY LifecycleAssumption DEF LifecycleAssumption, Records, TypeOK
<1>1. CASE \E t \in Trades : Open(t) \/ OpenShare(t)
    BY <1>1, SummaryEffect DEF Open, OpenShare, Alive, Die, procVars, SummaryKept
<1>2. ASSUME NEW t \in Trades, NEW units \in 1..Quantity, ApiClose(t, units) PROVE SummaryInv'
    <2>1. snap' = snap \/ snap' = None
        BY <1>2 DEF ApiClose, CrashInClose, Alive, Die, procVars
    <2>2. SummaryKept \/ Books
        BY <1>0, <1>2, CloseBooks DEF ApiClose
    <2> QED BY <2>1, <2>2, SummaryEffect
<1>3. ASSUME NEW t \in Trades, Unregister(t) \/ SkipTrade(t) \/ HoldTrade(t) PROVE SummaryInv'
    BY <1>3, SummaryEffect DEF Unregister, SkipTrade, HoldTrade, Keep, Alive, procVars, SummaryKept
<1>4. ASSUME NEW t \in Trades, TakePartialProfit(t) PROVE SummaryInv'
    <2> DEFINE held == [copy[t] EXCEPT !.partialTaken = TRUE]
    <2>1. snap' = snap \/ snap' = None
        BY <1>4 DEF TakePartialProfit, CrashInClose, Alive, Die, procVars
    <2>2. held \in Records
        BY <1>0, <1>4 DEF TakePartialProfit, Records
    <2>3. \/ ClosePosition(t, held, 1, monitored \cup {t})
          \/ CrashInClose(t, held, 1, monitored \cup {t})
        BY <1>4 DEF TakePartialProfit
    <2> HIDE DEF held
    <2> QED BY <1>0, <2>1, <2>2, <2>3, CloseBooks, SummaryEffect
<1>5. ASSUME NEW t \in Trades, ExitTrade(t) PROVE SummaryInv'
    <2>1. snap' = snap \/ snap' = None
        BY <1>5 DEF ExitTrade, CrashInClose, Alive, Die, procVars
    <2>2. copy[t] \in Records /\ copy[t].qty \in 1..Quantity
        BY <1>0, <1>5 DEF ExitTrade
    <2>3. SummaryKept \/ Books
        BY <1>0, <1>5, <2>2, CloseBooks DEF ExitTrade
    <2> QED BY <2>1, <2>3, SummaryEffect
<1>6. ASSUME NEW t \in Trades, ReconcileTrade(t) PROVE SummaryInv'
    <2>1. /\ snap' = snap /\ active[t] \in Records
          /\ \A units \in 1..active[t].qty : units \in 1..Quantity
        BY <1>0, <1>6 DEF ReconcileTrade, Unsettled
    <2>2. SummaryKept \/ Books
        BY <1>0, <1>6, <2>1, CloseBooks DEF ReconcileTrade, SummaryKept
    <2> QED BY <2>1, <2>2, SummaryEffect
<1>7. CASE WriteSummary
    <2>1. CASE summary' = snap
        BY <1>7, <2>1 DEF WriteSummary, SummaryInv, Within
    <2>2. CASE UNCHANGED summary
        BY <1>7, <2>2, SummaryEffect DEF WriteSummary, SummaryKept, ledgerVars
    <2> QED BY <1>7, <2>1, <2>2 DEF WriteSummary
<1>8. CASE StartPass \/ LoopDies \/ ReadSummary \/ Crash \/ Start \/ UNCHANGED vars
    BY <1>8, SummaryEffect
       DEF StartPass, LoopDies, ReadSummary, Crash, Start, Alive, Die, procVars, SummaryKept, vars
<1>9. ASSUME NEW t \in Trades, ExpireLock(t) \/ ExpireMarker(t) PROVE SummaryInv'
    BY <1>9, SummaryEffect DEF ExpireLock, ExpireMarker, procVars, SummaryKept
<1> QED
    BY <1>1, <1>2, <1>3, <1>4, <1>5, <1>6, <1>7, <1>8, <1>9 DEF Next, Analyse

(* The summary never includes more than was booked, and what it misses was  *)
(* booked while a snapshot waited for prices: no failing close, crash or    *)
(* restart loses or repeats a result.                                       *)
THEOREM SummaryBounds == ASSUME ~ApiDuringPass PROVE Spec => []SummaryLosesLittle
<1>1. Init => SummaryInv
    BY LifecycleAssumption DEF LifecycleAssumption, Init, SummaryInv, Within
<1>2. IInv /\ SummaryInv /\ [Next]_vars => SummaryInv'
    BY SummaryStep DEF IInv
<1>3. SummaryInv => SummaryLosesLittle
    BY DEF SummaryInv, Within, SummaryLosesLittle
<1> QED BY <1>1, <1>2, <1>3, Invariance, PTL DEF Spec

-----------------------------------------------------------------------------
(* The watch.  The registration of a position ends only when its record     *)
(* does: where a pass finds no record, and in a close that leaves nothing.  *)

AllWatched == \A t \in Trades \ Virtual : active[t] # None => t \in monitored

(* A close of t that starts from a set watched in which every other         *)
(* position is, and t as well if it is held and no share.                   *)
LEMMA CloseWatches ==
    ASSUME TypeOK, AllWatched, NEW t \in Trades, NEW held \in Records \cup {None},
           NEW units \in 1..Quantity, NEW watched,
           monitored \subseteq watched, held # None => t \in watched \cup Virtual,
           \/ ClosePosition(t, held, units, watched)
           \/ CrashInClose(t, held, units, watched)
    PROVE  AllWatched'
<1>1. CASE Keep(t, held, watched)
    BY <1>1 DEF Keep, ledgerVars, AllWatched, TypeOK
<1>2. CASE /\ held # None
           /\ CloseDone(t, held, units, watched) \/ CloseFails(t, held, units, watched)
    <2>1. held \in Records /\ t \in watched \cup Virtual
        BY <1>2
    <2>2. PICK k \in 1..held.qty, after \in Records \cup {None} :
              /\ active' = [active EXCEPT ![t] = after]
              /\ (after = None) <=> (units >= held.qty)
        BY <1>2, <2>1, SettleEffect DEF CloseDone, CloseFails
    <2>3. /\ \A u \in Trades : u # t => active'[u] = active[u]
          /\ active'[t] = after
        BY <2>2 DEF TypeOK
    <2>4. /\ \A u \in Trades : u # t /\ u \in watched => u \in monitored'
          /\ ~(units >= held.qty) => t \in monitored' \cup Virtual
        BY <1>2, <2>1 DEF CloseDone, CloseFails
    <2> QED BY <2>2, <2>3, <2>4 DEF AllWatched
<1> QED BY <1>1, <1>2 DEF ClosePosition, CrashInClose, Refused

LEMMA WatchStep ==
    ASSUME ~OpenMayCrash, IInv, AllWatched, [Next]_vars
    PROVE  AllWatched'
<1>0. TypeOK /\ CopiesFresh
    BY DEF IInv
<1>1. ASSUME NEW t \in Trades, Open(t) \/ OpenShare(t) PROVE AllWatched'
    BY <1>0, <1>1 DEF Open, OpenShare, AllWatched, TypeOK
<1>2. ASSUME NEW t \in Trades, NEW units \in 1..Quantity, ApiClose(t, units) PROVE AllWatched'
    <2>1. active[t] \in Records \cup {None} /\ (active[t] # None => t \in monitored \cup Virtual)
        BY <1>0 DEF TypeOK, AllWatched
    <2>2. \/ ClosePosition(t, active[t], units, monitored)
          \/ CrashInClose(t, active[t], units, monitored)
        BY <1>2 DEF ApiClose
    <2> QED BY <1>0, <2>1, <2>2, CloseWatches
<1>3. ASSUME NEW t \in Trades, Unregister(t) PROVE AllWatched'
    <2>1. active[t] = None
        BY <1>0, <1>3 DEF Unregister, CopiesFresh
    <2> QED BY <1>3, <2>1 DEF Unregister, AllWatched
<1>4. ASSUME NEW t \in Trades, SkipTrade(t) \/ HoldTrade(t) PROVE AllWatched'
    BY <1>0, <1>4 DEF SkipTrade, HoldTrade, Keep, ledgerVars, AllWatched, TypeOK
<1>5. ASSUME NEW t \in Trades, TakePartialProfit(t) PROVE AllWatched'
    <2> DEFINE held == [copy[t] EXCEPT !.partialTaken = TRUE]
    <2>1. copy[t] \in Records
        BY <1>0, <1>5 DEF TakePartialProfit, TypeOK
    <2>2. held \in Records
        BY <2>1 DEF Records
    <2>3. 1 \in 1..Quantity
        BY LifecycleAssumption DEF LifecycleAssumption
    <2>4. \/ ClosePosition(t, held, 1, monitored \cup {t})
          \/ CrashInClose(t, held, 1, monitored \cup {t})
        BY <1>5 DEF TakePartialProfit
    <2> HIDE DEF held
    <2> QED BY <1>0, <2>2, <2>3, <2>4, CloseWatches
<1>6. ASSUME NEW t \in Trades, ExitTrade(t) PROVE AllWatched'
    <2>1. copy[t] \in Records /\ copy[t].qty \in 1..Quantity
        BY <1>0, <1>6 DEF ExitTrade, TypeOK, Records
    <2>2. \/ ClosePosition(t, copy[t], copy[t].qty, monitored \cup {t})
          \/ CrashInClose(t, copy[t], copy[t].qty, monitored \cup {t})
        BY <1>6 DEF ExitTrade
    <2> QED BY <1>0, <2>1, <2>2, CloseWatches
<1>7. ASSUME NEW t \in Trades, ReconcileTrade(t) PROVE AllWatched'
    <2>1. /\ active[t] # None /\ active[t] \in Records /\ t \in monitored \cup Virtual
          /\ \A units \in 1..active[t].qty : units \in 1..Quantity
        BY <1>0, <1>7, LifecycleAssumption
           DEF ReconcileTrade, Unsettled, TypeOK, AllWatched, Records, LifecycleAssumption
    <2>2. CASE \E units \in 1..active[t].qty : ClosePosition(t, active[t], units, monitored)
        BY <1>0, <2>1, <2>2, CloseWatches
    <2>3. CASE /\ \A u \in Trades : u # t => active'[u] = active[u]
               /\ UNCHANGED monitored
        BY <2>1, <2>3 DEF AllWatched
    <2>4. CASE /\ \E status \in {"FAILED", "PARTIAL"} : active' = [active EXCEPT ![t].status = status]
               /\ UNCHANGED monitored
        BY <1>0, <2>3, <2>4 DEF TypeOK
    <2>5. CASE active' = [active EXCEPT ![t] = None] /\ UNCHANGED monitored
        BY <1>0, <2>3, <2>5 DEF TypeOK
    <2> QED BY <1>7, <2>2, <2>4, <2>5 DEF ReconcileTrade
<1>8. CASE StartPass \/ LoopDies \/ ReadSummary \/ WriteSummary \/ Crash \/ Start
    BY <1>8 DEF StartPass, LoopDies, ReadSummary, WriteSummary, Crash, Start, AllWatched
<1>9. ASSUME NEW t \in Trades, ExpireLock(t) \/ ExpireMarker(t) PROVE AllWatched'
    BY <1>9 DEF ExpireLock, ExpireMarker, AllWatched
<1>10. CASE UNCHANGED vars
    BY <1>10 DEF vars, AllWatched
<1> QED
    BY <1>1, <1>2, <1>3, <1>4, <1>5, <1>6, <1>7, <1>8, <1>9, <1>10 DEF Next, Analyse

(* A position that is no share of a common order and whose opening was      *)
(* recorded in one piece is watched until it is closed: no failing or dying *)
(* close, no restart and no reconciliation takes a position off the         *)
(* monitor's list before it is gone.                                        *)
THEOREM WatchLasts ==
    ASSUME ~ApiDuringPass, ~OpenMayCrash
    PROVE  Spec => []WatchedUntilClosed
<1>1. Init => AllWatched
    BY DEF Init, AllWatched
<1>2. IInv /\ AllWatched /\ [Next]_vars => AllWatched'
    BY WatchStep
<1>3. AllWatched => WatchedUntilClosed
    BY DEF AllWatched, WatchedUntilClosed
<1> QED BY <1>1, <1>2, <1>3, Invariance, PTL DEF Spec
=============================================================================
