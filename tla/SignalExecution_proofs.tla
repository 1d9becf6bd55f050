----------------------- MODULE SignalExecution_proofs -----------------------
(***************************************************************************)
(* Proofs about SignalExecution for every number of requests, signals and  *)
(* trades, with or without failing stores and crashes.                     *)
(*                                                                         *)
(* OneTradePerWindow is not inductive.  What carries it is the lock: it is *)
(* there for every request past the claim and for every signal that has a  *)
(* trade in its window, and the two never meet.                            *)
(*                                                                         *)
(* The same lock keeps a request from an order that a store has recorded    *)
(* since its lookups.  The limit on active trades counts those that may     *)
(* still be opened on an older reading together with those that are open.   *)
(***************************************************************************)
EXTENDS SignalExecution, FiniteSetTheorems, TLAPS

Executing(r, s) == pc[r] \in Holding /\ sig[r] = s

(* A request past the claim holds the lock, alone, and nothing was executed *)
(* for its signal in this window.                                           *)
HolderInv ==
    \A r \in Requests, s \in Signals :
        Executing(r, s) => /\ s \in lock
                           /\ \A t \in Trades : openedBy[t] = s => openedIn[t] < window[s]

(* A signal executed in the current window is still locked.                 *)
WindowInv ==
    \A t \in Trades, s \in Signals :
        openedBy[t] = s => /\ openedIn[t] <= window[s]
                           /\ openedIn[t] = window[s] => s \in lock

IInv == TypeOK /\ HolderInv /\ WindowInv /\ SingleExecutor /\ OneTradePerWindow

-----------------------------------------------------------------------------
LEMMA TypeInit == Init => TypeOK
<1> SUFFICES ASSUME Init PROVE TypeOK
    OBVIOUS
<1> USE ConstantsAssumption DEF ConstantsAssumption, Init
<1>1. /\ pc \in [Requests -> Pcs] /\ sig \in [Requests -> Ids]
      /\ \A r \in Requests : pc[r] \in {"unclaimed", "polling"} => sig[r] \in Signals
    BY DEF Pcs, Ids
<1>2. /\ polls \in [Requests -> 0..MaxPolls] /\ seen \in [Requests -> SUBSET Trades]
      /\ reply \in [Requests -> Trades \cup Verdicts \cup {None}]
    OBVIOUS
<1>3. /\ lock \in SUBSET Signals /\ active \in SUBSET Trades /\ index \in SUBSET Trades
      /\ response \in [Signals -> Trades \cup {None}]
      /\ signalTrade \in [Signals -> Trades \cup {None}]
      /\ activeCount \in Nat /\ halted \in BOOLEAN
    OBVIOUS
<1>4. recorded \in [Trades -> Stages]
    BY DEF Stages, Ordered, Booked
<1>5. /\ openedBy \in [Trades -> Ids \cup {None}]
      /\ openedIn \in [Trades -> Unnoted..MaxWindow] /\ window \in [Ids -> 0..MaxWindow]
    BY DEF Unnoted
<1> QED BY <1>1, <1>2, <1>3, <1>4, <1>5 DEF TypeOK

(* Writing a new trade keeps the shared state well typed. *)
LEMMA RecordType ==
    ASSUME TypeOK, NEW s \in Ids, NEW t \in Trades, NEW upTo \in Stages, Record(s, t, upTo)
    PROVE  /\ openedBy' \in [Trades -> Ids \cup {None}]
           /\ openedIn' \in [Trades -> Unnoted..MaxWindow]
           /\ active' \in SUBSET Trades /\ index' \in SUBSET Trades
           /\ signalTrade' \in [Signals -> Trades \cup {None}]
           /\ response' \in [Signals -> Trades \cup {None}]
           /\ recorded' \in [Trades -> Stages]
           /\ activeCount' \in Nat
           /\ UNCHANGED <<lock, window, halted>>
BY ConstantsAssumption
   DEF ConstantsAssumption, Record, TypeOK, Ids, Unnoted, Stages, Ordered, Opening, Responded, Stored, Booked

(* So does answering a request. *)
LEMMA FinishType ==
    ASSUME TypeOK, NEW r \in Requests,
           NEW answer \in Trades \cup Verdicts, Finish(r, answer)
    PROVE  /\ pc' \in [Requests -> Pcs] /\ sig' \in [Requests -> Ids]
           /\ \A q \in Requests : pc'[q] \in {"unclaimed", "polling"} => sig'[q] \in Signals
           /\ polls' \in [Requests -> 0..MaxPolls]
           /\ seen' \in [Requests -> SUBSET Trades]
           /\ reply' \in [Requests -> Trades \cup Verdicts \cup {None}]
BY ConstantsAssumption DEF ConstantsAssumption, Finish, TypeOK, Pcs, Holding

LEMMA TypeStep == TypeOK /\ [Next]_vars => TypeOK'
<1> SUFFICES ASSUME TypeOK, [Next]_vars PROVE TypeOK'
    OBVIOUS
<1>c. USE ConstantsAssumption DEF ConstantsAssumption
<1>1. ASSUME NEW r \in Requests, Start(r) PROVE TypeOK'
    BY <1>1 DEF Start, Arrive, TypeOK, Pcs, Holding, Ids, dedupVars, ledgerVars, orderVars
<1>2. ASSUME NEW r \in Requests, StartDuplicate(r) PROVE TypeOK'
    BY <1>2 DEF StartDuplicate, TypeOK, Pcs, Holding, Ids, ledgerVars, orderVars
<1>3. ASSUME NEW r \in Requests, Claim(r) PROVE TypeOK'
    <2>1. /\ lock' \in SUBSET Signals
          /\ pc' \in [Requests -> Pcs] /\ pc'[r] \in {"polling", "claimed"}
          /\ \A q \in Requests \ {r} : pc'[q] = pc[q]
          /\ UNCHANGED <<sig, polls, seen, reply>> /\ sig[r] \in Signals
        BY <1>3 DEF Claim, Goto, TypeOK, Pcs, Holding
    <2> QED BY <1>3, <2>1 DEF Claim, TypeOK, ledgerVars, orderVars
<1>4. ASSUME NEW r \in Requests, Poll(r) PROVE TypeOK'
    <2>1. CASE AnswerFromRecord(r, sig[r])
        <3>1. PICK t \in KnownFor(sig[r]) :
                 /\ response' = [response EXCEPT ![sig[r]] = t]
                 /\ Finish(r, t)
                 /\ UNCHANGED <<lock, signalTrade, window>>
            BY <2>1 DEF AnswerFromRecord
        <3>2. sig[r] \in Signals /\ t \in Trades
            BY <1>4, <3>1 DEF Poll, KnownFor, StoredFor, Documents, TypeOK
        <3> QED BY <1>4, <3>1, <3>2, FinishType DEF Poll, TypeOK, ledgerVars, orderVars
    <2>2. CASE ~AnswerFromRecord(r, sig[r])
        BY <1>4, <2>2 DEF Poll, TypeOK, dedupVars, ledgerVars, orderVars
    <2> QED BY <2>1, <2>2
<1>5. ASSUME NEW r \in Requests, GiveUp(r) PROVE TypeOK'
    BY <1>5, FinishType DEF GiveUp, Verdicts, TypeOK, dedupVars, ledgerVars, orderVars
<1>6. ASSUME NEW r \in Requests, PassProtection(r) PROVE TypeOK'
    BY <1>6 DEF PassProtection, Goto, TypeOK, Pcs, Holding, dedupVars, ledgerVars, orderVars
<1>7. ASSUME NEW r \in Requests, ReadPortfolio(r) PROVE TypeOK'
    BY <1>7 DEF ReadPortfolio, Visible, TypeOK, Pcs, Holding, dedupVars, orderVars
<1>8. ASSUME NEW r \in Requests, CheckLimits(r) PROVE TypeOK'
    BY <1>8 DEF CheckLimits, Goto, TypeOK, Pcs, Holding, dedupVars, ledgerVars, orderVars
<1>9. ASSUME NEW r \in Requests, Reject(r) PROVE TypeOK'
    BY <1>9, FinishType DEF Reject, Verdicts, TypeOK, ledgerVars, orderVars
<1>19. ASSUME NEW r \in Requests, LoseOrder(r) PROVE TypeOK'
    <2>1. PICK t \in Trades : /\ openedBy' = [openedBy EXCEPT ![t] = sig[r]]
                              /\ openedIn' = [openedIn EXCEPT ![t] = Unnoted]
                              /\ recorded' = [recorded EXCEPT ![t] = Ordered]
        BY <1>19 DEF LoseOrder
    <2>2. /\ openedBy' \in [Trades -> Ids \cup {None}] /\ openedIn' \in [Trades -> Unnoted..MaxWindow]
          /\ recorded' \in [Trades -> Stages]
        BY <2>1, ConstantsAssumption DEF ConstantsAssumption, TypeOK, Unnoted, Stages, Ordered, Booked
    <2> QED BY <1>19, <2>2, FinishType DEF LoseOrder, Verdicts, TypeOK, ledgerVars
<1>10. ASSUME NEW r \in Requests, Execute(r) PROVE TypeOK'
    <2>1. PICK t \in Trades : Record(sig[r], t, Booked) /\ Finish(r, t)
        BY <1>10 DEF Execute
    <2>2. sig[r] \in Ids /\ Booked \in Stages
        BY DEF TypeOK, Stages, Ordered, Booked
    <2> QED BY <2>1, <2>2, RecordType, FinishType DEF TypeOK
<1>11. ASSUME NEW r \in Requests, FailAfterOrder(r) PROVE TypeOK'
    <2>1. PICK t \in Trades, upTo \in {Responded, Stored} : Record(sig[r], t, upTo)
        BY <1>11 DEF FailAfterOrder
    <2>2. sig[r] \in Ids /\ upTo \in Stages
        BY <2>1 DEF TypeOK, Stages, Ordered, Responded, Stored, Booked
    <2>3. Finish(r, "ERROR")
        BY <1>11 DEF FailAfterOrder
    <2> QED BY <2>1, <2>2, <2>3, RecordType, FinishType DEF Verdicts, TypeOK
<1>12. ASSUME NEW r \in Requests, Crash(r) PROVE TypeOK'
    <2>1. Finish(r, "LOST")
        BY <1>12 DEF Crash
    <2>2. CASE UNCHANGED <<dedupVars, ledgerVars, orderVars, halted>>
        BY <2>1, <2>2, FinishType DEF Verdicts, TypeOK, dedupVars, ledgerVars, orderVars
    <2>3. CASE \E t \in Trades, upTo \in Ordered..Stored : Record(sig[r], t, upTo)
        <3>1. PICK t \in Trades, upTo \in Ordered..Stored : Record(sig[r], t, upTo)
            BY <2>3
        <3>2. sig[r] \in Ids /\ upTo \in Stages
            BY <3>1 DEF TypeOK, Stages, Ordered, Stored, Booked
        <3> QED BY <2>1, <3>1, <3>2, RecordType, FinishType DEF Verdicts, TypeOK
    <2> QED BY <1>12, <2>2, <2>3 DEF Crash
<1>13. ASSUME NEW t \in Trades, CloseTrade(t) PROVE TypeOK'
    BY <1>13 DEF CloseTrade, TypeOK, reqVars, dedupVars, orderVars
<1>14. ASSUME NEW t \in Trades, MonitorTick(t) PROVE TypeOK'
    BY <1>14 DEF MonitorTick, TypeOK, reqVars, ledgerVars, orderVars
<1>15. ASSUME NEW s \in Signals, ExpireLock(s) PROVE TypeOK'
    BY <1>15 DEF ExpireLock, TypeOK, Ids, reqVars, ledgerVars, orderVars
<1>16. ASSUME NEW s \in Signals, ExpireRecord(s) PROVE TypeOK'
    BY <1>16 DEF ExpireRecord, TypeOK, reqVars, ledgerVars, orderVars
<1>17. ASSUME NEW on \in BOOLEAN, SetHalted(on) PROVE TypeOK'
    BY <1>17 DEF SetHalted, TypeOK, reqVars, dedupVars, ledgerVars, orderVars
<1>18. CASE UNCHANGED vars
    BY <1>18 DEF vars, TypeOK, reqVars, dedupVars, ledgerVars, orderVars
<1> QED
    BY <1>1, <1>2, <1>3, <1>4, <1>5, <1>6, <1>7, <1>8, <1>9, <1>10, <1>11, <1>12,
       <1>13, <1>14, <1>15, <1>16, <1>17, <1>18, <1>19 DEF Next, Serve

(* Every reachable state is well typed; in particular the published number  *)
(* of open positions never goes below zero.                                 *)
THEOREM TypeCorrect == Spec => []TypeOK
BY TypeInit, TypeStep, PTL DEF Spec

-----------------------------------------------------------------------------
(* The steps that touch neither the claim of a request nor the lock, the    *)
(* window or the history of a signal.                                       *)
LEMMA QuietStep ==
    ASSUME IInv, TypeOK',
           UNCHANGED <<lock, window, openedBy, openedIn>>,
           \A r \in Requests : pc'[r] \in Holding =>
               \/ pc[r] \in Holding /\ sig'[r] = sig[r]
               \/ sig'[r] = NoSignal
    PROVE  IInv'
BY ConstantsAssumption
   DEF ConstantsAssumption, IInv, HolderInv, WindowInv, SingleExecutor, OneTradePerWindow,
       CurrentTrades, Executing, TypeOK, Ids

(* A request gives its signal back, and no order of this window is added.   *)
LEMMA GivingBack ==
    ASSUME IInv, TypeOK', NEW r \in Requests, pc[r] \in Holding,
           pc' = [pc EXCEPT ![r] = "done"], sig' = sig, lock' = lock \ {sig[r]}, window' = window,
           \A t \in Trades : \/ openedBy'[t] = openedBy[t] /\ openedIn'[t] = openedIn[t]
                             \/ openedIn'[t] = Unnoted
    PROVE  IInv'
<1>1. \A q \in Requests : pc'[q] \in Holding => q # r /\ pc[q] \in Holding
    BY DEF IInv, TypeOK, Holding
<1>2. \A s \in Signals : window'[s] = window[s] /\ Unnoted < window[s] /\ window[s] \in Nat
    BY ConstantsAssumption DEF ConstantsAssumption, IInv, TypeOK, Ids, Unnoted
<1>3. HolderInv'
    <2> SUFFICES ASSUME NEW q \in Requests, NEW s \in Signals, Executing(q, s)'
                 PROVE  /\ s \in lock'
                        /\ \A t \in Trades : openedBy'[t] = s => openedIn'[t] < window'[s]
        BY DEF HolderInv
    <2>1. q # r /\ Executing(q, s) /\ s # NoSignal
        BY <1>1, ConstantsAssumption DEF Executing, ConstantsAssumption
    <2>2. s # sig[r]
        BY <2>1 DEF IInv, SingleExecutor, Executing
    <2> QED BY <1>2, <2>1, <2>2 DEF IInv, HolderInv
<1>4. WindowInv'
    <2> SUFFICES ASSUME NEW t \in Trades, NEW s \in Signals, openedBy'[t] = s
                 PROVE  openedIn'[t] <= window'[s] /\ (openedIn'[t] = window'[s] => s \in lock')
        BY DEF WindowInv
    <2>1. CASE openedIn'[t] = Unnoted
        BY <1>2, <2>1 DEF Unnoted
    <2>2. CASE openedBy'[t] = openedBy[t] /\ openedIn'[t] = openedIn[t]
        <3>1. openedIn[t] <= window[s] /\ (openedIn[t] = window[s] => s \in lock)
            BY <2>2 DEF IInv, WindowInv
        <3>2. s = sig[r] => openedIn[t] < window[s]
            BY <2>2 DEF IInv, HolderInv, Executing
        <3>3. openedIn[t] \in Int
            BY ConstantsAssumption DEF ConstantsAssumption, IInv, TypeOK, Unnoted
        <3> QED BY <1>2, <2>2, <3>1, <3>2, <3>3
    <2> QED BY <2>1, <2>2
<1>5. SingleExecutor'
    BY <1>1 DEF IInv, SingleExecutor
<1>6. OneTradePerWindow'
    <2> SUFFICES ASSUME NEW s \in Signals, NEW t \in CurrentTrades(s)', NEW u \in CurrentTrades(s)'
                 PROVE  t = u
        BY DEF OneTradePerWindow
    <2>1. t \in CurrentTrades(s) /\ u \in CurrentTrades(s)
        BY <1>2 DEF CurrentTrades
    <2> QED BY <2>1 DEF IInv, OneTradePerWindow
<1> QED BY <1>3, <1>4, <1>5, <1>6 DEF IInv

(* A request that was alone past the claim of its signal leaves it, with    *)
(* one more trade for the signal.                                           *)
LEMMA OrderStep ==
    ASSUME IInv, TypeOK', NEW r \in Requests, NEW t \in Trades, NEW upTo \in Stages,
           NEW answer \in Trades \cup Verdicts,
           pc[r] = "checked", Fresh(t), Record(sig[r], t, upTo), Finish(r, answer)
    PROVE  IInv'
<1> DEFINE s == sig[r]
<1>1. /\ s \in Ids /\ t \in Trades
      /\ pc' = [pc EXCEPT ![r] = "done"] /\ sig' = sig
      /\ openedBy' = [openedBy EXCEPT ![t] = s]
      /\ openedIn' = [openedIn EXCEPT ![t] = window[s]]
      /\ lock' = lock /\ window' = window
    BY DEF Finish, Record, IInv, TypeOK
<1>2. \A q \in Requests : pc'[q] \in Holding => q # r /\ pc[q] \in Holding
    BY <1>1 DEF Holding, IInv, TypeOK
<1>3. s \in Signals => /\ s \in lock
                       /\ \A u \in Trades : openedBy[u] = s => openedIn[u] < window[s]
                       /\ \A q \in Requests : q # r => ~Executing(q, s)
    BY ConstantsAssumption
       DEF ConstantsAssumption, IInv, HolderInv, Executing, SingleExecutor, Holding
<1>4. HolderInv'
    BY <1>1, <1>2, <1>3 DEF HolderInv, Executing, IInv, TypeOK
<1>5. WindowInv'
    BY <1>1, <1>3 DEF WindowInv, IInv, TypeOK, Ids
<1>6. SingleExecutor'
    BY <1>1, <1>2 DEF SingleExecutor, IInv, TypeOK
<1>7. OneTradePerWindow'
    BY <1>1, <1>3 DEF OneTradePerWindow, CurrentTrades, IInv, TypeOK, Ids
<1> QED BY <1>4, <1>5, <1>6, <1>7 DEF IInv

LEMMA InductiveInit == Init => IInv
<1> SUFFICES ASSUME Init PROVE IInv
    OBVIOUS
<1>1. \A r \in Requests : pc[r] \notin Holding
    BY DEF Init, Holding
<1>2. HolderInv /\ SingleExecutor
    BY <1>1 DEF HolderInv, SingleExecutor, Executing
<1>3. \A t \in Trades, s \in Signals : openedBy[t] # s \/ s = None
    BY DEF Init
<1>4. \A t \in Trades : openedIn[t] = 0
    BY DEF Init
<1>5. WindowInv /\ OneTradePerWindow
    BY <1>3, <1>4, ConstantsAssumption DEF ConstantsAssumption, WindowInv, OneTradePerWindow, CurrentTrades
<1> QED BY <1>2, <1>5, TypeInit DEF IInv

LEMMA InductiveStep == IInv /\ [Next]_vars => IInv'
<1> SUFFICES ASSUME IInv, [Next]_vars PROVE IInv'
    OBVIOUS
<1>0. TypeOK /\ TypeOK'
    BY TypeStep DEF IInv
<1>1. ASSUME NEW r \in Requests, Start(r) PROVE IInv'
    <2>1. \/ /\ pc' = [pc EXCEPT ![r] = "claimed"]
             /\ sig' = [sig EXCEPT ![r] = NoSignal]
          \/ /\ pc' = [pc EXCEPT ![r] = "unclaimed"]
             /\ \E s \in Signals : sig' = [sig EXCEPT ![r] = s]
        <3>1. CASE Arrive(r, NoSignal, "claimed")
            BY <3>1 DEF Arrive
        <3>2. CASE \E s \in Signals : Arrive(r, s, "unclaimed")
            <4>1. PICK s \in Signals : Arrive(r, s, "unclaimed")
                BY <3>2
            <4>2. pc' = [pc EXCEPT ![r] = "unclaimed"] /\ sig' = [sig EXCEPT ![r] = s]
                BY <4>1 DEF Arrive
            <4> QED BY <4>2
        <3> QED BY <1>1, <3>1, <3>2 DEF Start
    <2>2. UNCHANGED <<lock, window, openedBy, openedIn>>
        BY <1>1 DEF Start, Arrive, dedupVars, orderVars
    <2> QED BY <1>0, <2>1, <2>2, QuietStep DEF Holding, TypeOK
<1>2. ASSUME NEW r \in Requests, StartDuplicate(r) PROVE IInv'
    BY <1>0, <1>2, QuietStep DEF StartDuplicate, Holding, TypeOK, orderVars
<1>3. ASSUME NEW r \in Requests, Claim(r) PROVE IInv'
    <2>1. CASE sig[r] \in lock
        BY <1>0, <1>3, <2>1, QuietStep DEF Claim, Goto, Holding, TypeOK, orderVars
    <2>2. CASE sig[r] \notin lock
        <3>1. /\ sig[r] \in Signals /\ sig' = sig
              /\ pc' = [pc EXCEPT ![r] = "claimed"]
              /\ lock' = lock \cup {sig[r]}
              /\ UNCHANGED <<window, openedBy, openedIn>>
            BY <1>0, <1>3, <2>2 DEF Claim, Goto, TypeOK, orderVars
        <3>2. \A q \in Requests : ~Executing(q, sig[r])
            BY <2>2, <3>1 DEF IInv, HolderInv
        <3>3. \A t \in Trades : openedBy[t] = sig[r] => openedIn[t] < window[sig[r]]
            BY <1>0, <2>2, <3>1 DEF IInv, WindowInv, TypeOK, Ids
        <3>4. \A q \in Requests : pc'[q] \in Holding => q = r \/ pc[q] \in Holding
            BY <1>0, <3>1 DEF TypeOK
        <3>5. HolderInv'
            BY <3>1, <3>3, <3>4 DEF IInv, HolderInv, Executing
        <3>6. WindowInv'
            BY <3>1 DEF IInv, WindowInv
        <3>7. SingleExecutor'
            BY <3>1, <3>2, <3>4 DEF IInv, SingleExecutor, Executing
        <3>8. OneTradePerWindow'
            BY <3>1 DEF IInv, OneTradePerWindow, CurrentTrades
        <3> QED BY <1>0, <3>5, <3>6, <3>7, <3>8 DEF IInv
    <2> QED BY <2>1, <2>2
<1>4. ASSUME NEW r \in Requests, Poll(r) PROVE IInv'
    BY <1>0, <1>4, QuietStep
       DEF Poll, AnswerFromRecord, Finish, Holding, TypeOK, dedupVars, orderVars
<1>5. ASSUME NEW r \in Requests, GiveUp(r) PROVE IInv'
    BY <1>0, <1>5, QuietStep DEF GiveUp, Finish, Holding, TypeOK, dedupVars, orderVars
<1>6. ASSUME NEW r \in Requests, PassProtection(r) PROVE IInv'
    BY <1>0, <1>6, QuietStep DEF PassProtection, Goto, Holding, TypeOK, dedupVars, orderVars
<1>7. ASSUME NEW r \in Requests, ReadPortfolio(r) PROVE IInv'
    BY <1>0, <1>7, QuietStep DEF ReadPortfolio, Holding, TypeOK, dedupVars, orderVars
<1>8. ASSUME NEW r \in Requests, CheckLimits(r) PROVE IInv'
    BY <1>0, <1>8, QuietStep DEF CheckLimits, Goto, Holding, TypeOK, dedupVars, orderVars
<1>9. ASSUME NEW r \in Requests, Reject(r) PROVE IInv'
    <2>1. /\ pc[r] \in Holding /\ pc' = [pc EXCEPT ![r] = "done"] /\ sig' = sig
          /\ lock' = lock \ {sig[r]}
          /\ UNCHANGED <<window, openedBy, openedIn>>
        BY <1>9 DEF Reject, Finish, orderVars
    <2> QED BY <1>0, <2>1, GivingBack
<1>19. ASSUME NEW r \in Requests, LoseOrder(r) PROVE IInv'
    <2>1. PICK t \in Trades : /\ openedBy' = [openedBy EXCEPT ![t] = sig[r]]
                              /\ openedIn' = [openedIn EXCEPT ![t] = Unnoted]
        BY <1>19 DEF LoseOrder
    <2>2. /\ pc[r] \in Holding /\ pc' = [pc EXCEPT ![r] = "done"] /\ sig' = sig
          /\ lock' = lock \ {sig[r]} /\ window' = window
        BY <1>19 DEF LoseOrder, Finish, Holding
    <2>3. \A u \in Trades : \/ /\ openedBy'[u] = openedBy[u]
                               /\ openedIn'[u] = openedIn[u]
                            \/ openedIn'[u] = Unnoted
        BY <1>0, <2>1 DEF TypeOK
    <2> QED BY <1>0, <2>2, <2>3, GivingBack
<1>10. ASSUME NEW r \in Requests, Execute(r) PROVE IInv'
    <2>1. PICK t \in Trades : Fresh(t) /\ Record(sig[r], t, Booked) /\ Finish(r, t)
        BY <1>10 DEF Execute
    <2> QED BY <1>0, <1>10, <2>1, OrderStep DEF Execute, Stages, Ordered, Booked
<1>11. ASSUME NEW r \in Requests, FailAfterOrder(r) PROVE IInv'
    <2>1. PICK t \in Trades, upTo \in {Responded, Stored} :
              Fresh(t) /\ Record(sig[r], t, upTo) /\ Finish(r, "ERROR")
        BY <1>11 DEF FailAfterOrder
    <2>2. upTo \in Stages
        BY <2>1 DEF Stages, Ordered, Responded, Stored, Booked
    <2> QED BY <1>0, <1>11, <2>1, <2>2, OrderStep DEF FailAfterOrder, Verdicts
<1>12. ASSUME NEW r \in Requests, Crash(r) PROVE IInv'
    <2>1. Finish(r, "LOST")
        BY <1>12 DEF Crash
    <2>2. CASE UNCHANGED <<dedupVars, ledgerVars, orderVars, halted>>
        BY <1>0, <2>1, <2>2, QuietStep DEF Finish, Holding, TypeOK, dedupVars, orderVars
    <2>3. CASE /\ pc[r] = "checked"
               /\ \E t \in Trades, upTo \in Ordered..Stored :
                     Fresh(t) /\ Record(sig[r], t, upTo)
        <3>1. PICK t \in Trades, upTo \in Ordered..Stored : Fresh(t) /\ Record(sig[r], t, upTo)
            BY <2>3
        <3>2. upTo \in Stages
            BY <3>1 DEF Stages, Ordered, Stored, Booked
        <3> QED BY <1>0, <2>1, <2>3, <3>1, <3>2, OrderStep DEF Verdicts
    <2> QED BY <1>12, <2>2, <2>3 DEF Crash
<1>13. ASSUME NEW t \in Trades, CloseTrade(t) PROVE IInv'
    BY <1>0, <1>13, QuietStep DEF CloseTrade, reqVars, dedupVars, orderVars
<1>14. ASSUME NEW t \in Trades, MonitorTick(t) PROVE IInv'
    BY <1>0, <1>14, QuietStep DEF MonitorTick, reqVars, orderVars
<1>15. ASSUME NEW s \in Signals, ExpireLock(s) PROVE IInv'
    <2>1. /\ s \in Ids /\ UNCHANGED <<pc, sig, openedBy, openedIn>>
          /\ lock' = lock \ {s}
          /\ window' = [window EXCEPT ![s] = @ + 1]
        BY <1>15 DEF ExpireLock, reqVars, orderVars, Ids
    <2>2. \A r \in Requests : ~Executing(r, s)
        BY <1>15 DEF ExpireLock, Quiet, Executing, Holding
    <2>3. \A t \in Trades : openedBy[t] = s => openedIn[t] < window'[s]
        BY <1>0, <2>1 DEF IInv, WindowInv, TypeOK, Ids
    <2>4. HolderInv'
        BY <1>0, <2>1, <2>2 DEF IInv, HolderInv, Executing, TypeOK
    <2>5. WindowInv'
        BY <1>0, <2>1, <2>3 DEF IInv, WindowInv, TypeOK
    <2>6. SingleExecutor'
        BY <2>1 DEF IInv, SingleExecutor
    <2>7. OneTradePerWindow'
        BY <1>0, <2>1, <2>3 DEF IInv, OneTradePerWindow, CurrentTrades, TypeOK
    <2> QED BY <1>0, <2>4, <2>5, <2>6, <2>7 DEF IInv
<1>16. ASSUME NEW s \in Signals, ExpireRecord(s) PROVE IInv'
    BY <1>0, <1>16, QuietStep DEF ExpireRecord, reqVars, orderVars
<1>17. ASSUME NEW on \in BOOLEAN, SetHalted(on) PROVE IInv'
    BY <1>0, <1>17, QuietStep DEF SetHalted, reqVars, dedupVars, orderVars
<1>18. CASE UNCHANGED vars
    BY <1>0, <1>18, QuietStep DEF vars, reqVars, dedupVars, orderVars
<1> QED
    BY <1>1, <1>2, <1>3, <1>4, <1>5, <1>6, <1>7, <1>8, <1>9, <1>10, <1>11, <1>12,
       <1>13, <1>14, <1>15, <1>16, <1>17, <1>18, <1>19 DEF Next, Serve

LEMMA Inductive == Spec => []IInv
BY InductiveInit, InductiveStep, PTL DEF Spec

(* A signal is executed at most once until its lock expires.                *)
THEOREM AtMostOncePerWindow == Spec => []OneTradePerWindow
BY Inductive, PTL DEF IInv

(* At most one request is past the claim of a signal.                       *)
THEOREM ExclusiveExecution == Spec => []SingleExecutor
BY Inductive, PTL DEF IInv

-----------------------------------------------------------------------------
(* SignalOnce is implemented.  An order for a signal is a Place, the expiry *)
(* of its lock a Forget, every other step leaves the current trades alone.  *)

Current == [s \in Signals |-> CurrentTrades(s)]

LEMMA OrderRefines ==
    ASSUME IInv, NEW r \in Requests, NEW t \in Trades, NEW upTo \in Stages,
           pc[r] = "checked", Fresh(t), Record(sig[r], t, upTo)
    PROVE  [Once!Next]_Current
<1>0. PICK s \in Ids : s = sig[r]
    BY DEF IInv, TypeOK
<1>1. /\ s \in Ids /\ None \notin Ids
      /\ openedBy \in [Trades -> Ids \cup {None}] /\ openedIn \in [Trades -> Unnoted..MaxWindow]
      /\ openedBy[t] = None
      /\ openedBy' = [openedBy EXCEPT ![t] = s]
      /\ openedIn' = [openedIn EXCEPT ![t] = window[s]]
      /\ window' = window
    BY <1>0, ConstantsAssumption DEF ConstantsAssumption, Fresh, Record, IInv, TypeOK, Ids
<1>2. \A z \in Signals : z # s => CurrentTrades(z)' = CurrentTrades(z)
    BY <1>1 DEF CurrentTrades, Ids
<1>3. CASE s = NoSignal
    <2>1. \A z \in Signals : z # s
        BY <1>3, ConstantsAssumption DEF ConstantsAssumption
    <2> QED BY <1>2, <2>1 DEF Current
<1>4. CASE s \in Signals
    <2>1. CurrentTrades(s) = {}
        <3>1. \A u \in Trades : openedBy[u] = s => openedIn[u] < window[s]
            BY <1>0, <1>4 DEF IInv, HolderInv, Executing, Holding
        <3>2. window[s] \in Nat /\ \A u \in Trades : openedIn[u] \in Int
            BY <1>1, ConstantsAssumption DEF ConstantsAssumption, IInv, TypeOK, Unnoted
        <3> QED BY <3>1, <3>2 DEF CurrentTrades
    <2>2. CurrentTrades(s)' = {t}
        BY <1>1, <2>1 DEF CurrentTrades
    <2>3. \A other \in Signals : t \notin CurrentTrades(other)
        BY <1>1 DEF CurrentTrades, Ids
    <2>4. Current' = [Current EXCEPT ![s] = {t}]
        BY <1>2, <1>4, <2>2 DEF Current
    <2>5. Once!Place(s, t)
        BY <1>4, <2>1, <2>3, <2>4 DEF Once!Place, Current
    <2> QED BY <1>4, <2>5 DEF Once!Next
<1> QED BY <1>3, <1>4 DEF Ids

LEMMA StutterRefines ==
    ASSUME UNCHANGED <<window, openedBy, openedIn>>
    PROVE  [Once!Next]_Current
BY DEF Current, CurrentTrades

LEMMA StepRefines == IInv /\ [Next]_vars => [Once!Next]_Current
<1> SUFFICES ASSUME IInv, [Next]_vars PROVE [Once!Next]_Current
    OBVIOUS
<1>1. ASSUME NEW r \in Requests, Execute(r) PROVE [Once!Next]_Current
    <2>1. PICK t \in Trades : Fresh(t) /\ Record(sig[r], t, Booked)
        BY <1>1 DEF Execute
    <2> QED BY <1>1, <2>1, OrderRefines DEF Execute, Stages, Ordered, Booked
<1>2. ASSUME NEW r \in Requests, FailAfterOrder(r) PROVE [Once!Next]_Current
    <2>1. PICK t \in Trades, upTo \in {Responded, Stored} : Fresh(t) /\ Record(sig[r], t, upTo)
        BY <1>2 DEF FailAfterOrder
    <2>2. upTo \in Stages
        BY <2>1 DEF Stages, Ordered, Responded, Stored, Booked
    <2> QED BY <1>2, <2>1, <2>2, OrderRefines DEF FailAfterOrder
<1>3. ASSUME NEW r \in Requests, Crash(r) PROVE [Once!Next]_Current
    <2>1. CASE UNCHANGED <<dedupVars, ledgerVars, orderVars, halted>>
        BY <2>1, StutterRefines DEF dedupVars, orderVars
    <2>2. CASE /\ pc[r] = "checked"
               /\ \E t \in Trades, upTo \in Ordered..Stored :
                     Fresh(t) /\ Record(sig[r], t, upTo)
        <3>1. PICK t \in Trades, upTo \in Ordered..Stored : Fresh(t) /\ Record(sig[r], t, upTo)
            BY <2>2
        <3>2. upTo \in Stages
            BY <3>1 DEF Stages, Ordered, Stored, Booked
        <3> QED BY <2>2, <3>1, <3>2, OrderRefines
    <2> QED BY <1>3, <2>1, <2>2 DEF Crash
<1>7. ASSUME NEW r \in Requests, LoseOrder(r) PROVE [Once!Next]_Current
    <2>1. PICK t \in Trades : /\ Fresh(t)
                              /\ openedBy' = [openedBy EXCEPT ![t] = sig[r]]
                              /\ openedIn' = [openedIn EXCEPT ![t] = Unnoted]
        BY <1>7 DEF LoseOrder
    <2>2. \A s \in Signals : window'[s] = window[s] /\ window[s] \in Nat /\ s # None
        BY <1>7, ConstantsAssumption DEF LoseOrder, ConstantsAssumption, IInv, TypeOK, Ids
    <2>3. \A u \in Trades : u # t => openedBy'[u] = openedBy[u] /\ openedIn'[u] = openedIn[u]
        BY <2>1 DEF IInv, TypeOK
    <2>4. openedIn'[t] = -1 /\ openedBy[t] = None
        BY <2>1 DEF IInv, TypeOK, Unnoted, Fresh
    <2>5. \A s \in Signals : CurrentTrades(s)' = CurrentTrades(s)
        BY <2>2, <2>3, <2>4 DEF CurrentTrades
    <2> QED BY <2>5 DEF Current
<1>4. ASSUME NEW s \in Signals, ExpireLock(s) PROVE [Once!Next]_Current
    <2>1. /\ UNCHANGED <<openedBy, openedIn>>
          /\ window' = [window EXCEPT ![s] = @ + 1] /\ s \in Ids
          /\ window \in [Ids -> 0..MaxWindow] /\ openedIn \in [Trades -> Unnoted..MaxWindow]
        BY <1>4 DEF ExpireLock, orderVars, IInv, TypeOK, Ids
    <2>2. CurrentTrades(s)' = {}
        <3>1. \A t \in Trades : openedBy[t] = s => openedIn[t] <= window[s]
            BY <1>4 DEF IInv, WindowInv
        <3> QED BY <2>1, <3>1, ConstantsAssumption DEF ConstantsAssumption, CurrentTrades, Unnoted
    <2>3. \A z \in Signals : z # s => CurrentTrades(z)' = CurrentTrades(z)
        BY <2>1 DEF CurrentTrades, Ids
    <2>4. Once!Forget(s)
        BY <1>4, <2>2, <2>3 DEF Once!Forget, Current
    <2> QED BY <1>4, <2>4 DEF Once!Next
<1>5. ASSUME NEW r \in Requests,
             Start(r) \/ StartDuplicate(r) \/ Claim(r) \/ Poll(r) \/ GiveUp(r)
             \/ PassProtection(r) \/ ReadPortfolio(r) \/ CheckLimits(r) \/ Reject(r)
      PROVE  [Once!Next]_Current
    <2>1. UNCHANGED <<window, openedBy, openedIn>>
        BY <1>5 DEF Start, Arrive, StartDuplicate, Claim, Poll, AnswerFromRecord, GiveUp,
                    PassProtection, ReadPortfolio, CheckLimits, Reject, dedupVars, orderVars
    <2> QED BY <2>1, StutterRefines
<1>6. ASSUME (\E t \in Trades : CloseTrade(t) \/ MonitorTick(t))
             \/ (\E s \in Signals : ExpireRecord(s))
             \/ (\E on \in BOOLEAN : SetHalted(on)) \/ UNCHANGED vars
      PROVE  [Once!Next]_Current
    <2>1. UNCHANGED <<window, openedBy, openedIn>>
        BY <1>6 DEF CloseTrade, MonitorTick, ExpireRecord, SetHalted, vars, dedupVars, orderVars
    <2> QED BY <2>1, StutterRefines
<1> QED BY <1>1, <1>2, <1>3, <1>4, <1>5, <1>6, <1>7 DEF Next, Serve

LEMMA InitRefines == Init => Once!Init
BY ConstantsAssumption DEF ConstantsAssumption, Init, Once!Init, CurrentTrades

(* Whatever requests, failing stores, crashes and expirations do, the       *)
(* orders are those of a specification that knows only "once per window".   *)
THEOREM Refinement == Spec => ImplementsOnce
<1>1. Spec => [][Once!Next]_Current
    BY Inductive, StepRefines, PTL DEF Spec
<1>2. Spec => Once!Init
    BY InitRefines, PTL DEF Spec
<1> QED BY <1>1, <1>2, PTL DEF ImplementsOnce, Once!Spec, Current

-----------------------------------------------------------------------------
(* Whom the records name.  A cached response and an active trade's mapping  *)
(* lead to a trade of that very signal, and so does every answer.           *)

RecordsInv ==
    /\ \A s \in Signals : /\ response[s] # None => openedBy[response[s]] = s
                          /\ signalTrade[s] # None => openedBy[signalTrade[s]] = s
    /\ RepliesNameOwnTrade

(* Whatever a lookup of a signal finds was placed for that signal.          *)
LEMMA KnownForOwn ==
    ASSUME TypeOK, RecordsInv, NEW s \in Signals, NEW t \in KnownFor(s)
    PROVE  t \in Trades /\ openedBy[t] = s
BY ConstantsAssumption
   DEF ConstantsAssumption, KnownFor, StoredFor, Documents, RecordsInv, TypeOK

LEMMA RecordsInit == Init => RecordsInv
BY ConstantsAssumption DEF ConstantsAssumption, Init, RecordsInv, RepliesNameOwnTrade

(* The steps that answer nobody with a trade and write neither record.      *)
LEMMA RecordsQuiet ==
    ASSUME RecordsInv, UNCHANGED openedBy,
           \A s \in Signals : response'[s] \in {response[s], None},
           \A s \in Signals : signalTrade'[s] \in {signalTrade[s], None},
           \A r \in Requests : pc'[r] = "done" /\ reply'[r] \in Trades =>
               pc[r] = "done" /\ reply'[r] = reply[r] /\ sig'[r] = sig[r]
    PROVE  RecordsInv'
BY DEF RecordsInv, RepliesNameOwnTrade

(* An order names its signal in every record it reaches.                    *)
LEMMA RecordsOrder ==
    ASSUME TypeOK, RecordsInv, NEW r \in Requests, NEW t \in Trades, NEW upTo \in Stages,
           NEW answer \in {t} \cup Verdicts,
           Fresh(t), Record(sig[r], t, upTo), Finish(r, answer), pc[r] = "checked"
    PROVE  RecordsInv'
<1> DEFINE s == sig[r]
<1>1. /\ s \in Ids /\ openedBy[t] = None /\ None \notin Ids /\ None \notin Trades
      /\ openedBy' = [openedBy EXCEPT ![t] = s]
      /\ openedBy \in [Trades -> Ids \cup {None}]
      /\ Trades \cap Verdicts = {}
    BY ConstantsAssumption DEF ConstantsAssumption, TypeOK, Fresh, Record, Ids, Verdicts
<1>2. ASSUME NEW z \in Signals PROVE response'[z] # None => openedBy'[response'[z]] = z
    <2>1. response'[z] = response[z] \/ (response'[z] = t /\ z = s)
        BY <1>2 DEF Record, TypeOK
    <2>2. response[z] \in Trades \cup {None} /\ z # None
        BY <1>1, <1>2 DEF TypeOK, Ids
    <2> QED BY <1>1, <1>2, <2>1, <2>2 DEF RecordsInv
<1>3. ASSUME NEW z \in Signals PROVE signalTrade'[z] # None => openedBy'[signalTrade'[z]] = z
    <2>1. signalTrade'[z] = signalTrade[z] \/ (signalTrade'[z] = t /\ z = s)
        BY <1>3 DEF Record, TypeOK
    <2>2. signalTrade[z] \in Trades \cup {None} /\ z # None
        BY <1>1, <1>3 DEF TypeOK, Ids
    <2> QED BY <1>1, <1>3, <2>1, <2>2 DEF RecordsInv
<1>4. ASSUME NEW q \in Requests, pc'[q] = "done", reply'[q] \in Trades
      PROVE  openedBy'[reply'[q]] = sig'[q]
    <2>1. CASE q = r
        BY <1>1, <1>4, <2>1 DEF Finish, TypeOK
    <2>2. CASE q # r
        <3>1. pc[q] = "done" /\ reply'[q] = reply[q] /\ sig'[q] = sig[q] /\ sig[q] \in Ids
            BY <1>4, <2>2 DEF Finish, TypeOK
        <3>2. reply[q] # t
            BY <1>1, <1>4, <3>1 DEF RecordsInv, RepliesNameOwnTrade
        <3> QED BY <1>1, <1>4, <3>1, <3>2 DEF RecordsInv, RepliesNameOwnTrade
    <2> QED BY <2>1, <2>2
<1> QED BY <1>2, <1>3, <1>4 DEF RecordsInv, RepliesNameOwnTrade

LEMMA RecordsStep == TypeOK /\ RecordsInv /\ [Next]_vars => RecordsInv'
<1> SUFFICES ASSUME TypeOK, RecordsInv, [Next]_vars PROVE RecordsInv'
    OBVIOUS
<1>0. Trades \cap Verdicts = {} /\ None \notin Trades /\ None \notin Signals
    BY ConstantsAssumption DEF ConstantsAssumption, Verdicts
<1>1. ASSUME NEW r \in Requests, Start(r) PROVE RecordsInv'
    <2>1. /\ UNCHANGED <<openedBy, response, signalTrade>>
          /\ \E where \in {"claimed", "unclaimed"} : pc' = [pc EXCEPT ![r] = where]
          /\ \E s \in Ids : sig' = [sig EXCEPT ![r] = s]
          /\ reply' = [reply EXCEPT ![r] = None]
        BY <1>1 DEF Start, Arrive, dedupVars, orderVars, Ids
    <2> QED BY <1>0, <2>1, RecordsQuiet DEF TypeOK
<1>2. ASSUME NEW r \in Requests, StartDuplicate(r) PROVE RecordsInv'
    <2>1. PICK s \in Signals, t \in Trades :
              /\ t \in KnownFor(s)
              /\ response' = [response EXCEPT ![s] = t]
              /\ sig' = [sig EXCEPT ![r] = s]
              /\ pc' = [pc EXCEPT ![r] = "done"]
              /\ reply' = [reply EXCEPT ![r] = t]
        BY <1>2 DEF StartDuplicate
    <2>2. UNCHANGED <<openedBy, signalTrade>>
        BY <1>2 DEF StartDuplicate, orderVars
    <2>3. openedBy[t] = s
        BY <2>1, KnownForOwn
    <2> QED BY <2>1, <2>2, <2>3 DEF RecordsInv, RepliesNameOwnTrade, TypeOK
<1>3. ASSUME NEW r \in Requests, Claim(r) PROVE RecordsInv'
    BY <1>3, RecordsQuiet DEF Claim, Goto, TypeOK, orderVars
<1>4. ASSUME NEW r \in Requests, Poll(r) PROVE RecordsInv'
    <2>1. CASE AnswerFromRecord(r, sig[r])
        <3>1. PICK t \in KnownFor(sig[r]) :
                 /\ response' = [response EXCEPT ![sig[r]] = t]
                 /\ Finish(r, t)
                 /\ UNCHANGED <<lock, signalTrade, window>>
            BY <2>1 DEF AnswerFromRecord
        <3>2. sig[r] \in Signals /\ UNCHANGED openedBy
            BY <1>4 DEF Poll, TypeOK, orderVars
        <3>3. t \in Trades /\ openedBy[t] = sig[r]
            BY <3>1, <3>2, KnownForOwn
        <3> QED BY <3>1, <3>2, <3>3 DEF RecordsInv, RepliesNameOwnTrade, Finish, TypeOK
    <2>2. CASE ~AnswerFromRecord(r, sig[r])
        BY <1>4, <2>2, RecordsQuiet DEF Poll, TypeOK, dedupVars, orderVars
    <2> QED BY <2>1, <2>2
<1>5. ASSUME NEW r \in Requests, GiveUp(r) \/ Reject(r) PROVE RecordsInv'
    BY <1>0, <1>5, RecordsQuiet
       DEF GiveUp, Reject, Finish, Verdicts, TypeOK, dedupVars, orderVars
<1>6. ASSUME NEW r \in Requests, PassProtection(r) \/ ReadPortfolio(r) \/ CheckLimits(r)
      PROVE  RecordsInv'
    BY <1>6, RecordsQuiet
       DEF PassProtection, ReadPortfolio, CheckLimits, Goto, TypeOK, dedupVars, orderVars
<1>15. ASSUME NEW r \in Requests, LoseOrder(r) PROVE RecordsInv'
    <2>1. PICK t \in Trades : Fresh(t) /\ openedBy' = [openedBy EXCEPT ![t] = sig[r]]
        BY <1>15 DEF LoseOrder
    <2>2. \A u \in Trades : openedBy[u] # None => openedBy'[u] = openedBy[u]
        BY <2>1 DEF Fresh, TypeOK
    <2>3. /\ UNCHANGED <<response, signalTrade, sig>> /\ pc' = [pc EXCEPT ![r] = "done"]
          /\ reply' = [reply EXCEPT ![r] = "REJECTED"]
        BY <1>15 DEF LoseOrder, Finish
    <2>4. ASSUME NEW s \in Signals
          PROVE  /\ response'[s] # None => openedBy'[response'[s]] = s
                 /\ signalTrade'[s] # None => openedBy'[signalTrade'[s]] = s
        <3>1. response[s] \in Trades \cup {None} /\ signalTrade[s] \in Trades \cup {None} /\ s # None
            BY <1>0 DEF TypeOK
        <3> QED BY <2>2, <2>3, <3>1 DEF RecordsInv
    <2>5. ASSUME NEW q \in Requests, pc'[q] = "done", reply'[q] \in Trades
          PROVE  openedBy'[reply'[q]] = sig'[q]
        <3>1. q # r /\ pc[q] = "done" /\ reply'[q] = reply[q] /\ sig[q] \in Ids /\ None \notin Ids
            BY <1>0, <2>3, <2>5, ConstantsAssumption DEF TypeOK, Verdicts, Ids, ConstantsAssumption
        <3>2. openedBy[reply[q]] = sig[q]
            BY <2>5, <3>1 DEF RecordsInv, RepliesNameOwnTrade
        <3> QED BY <2>2, <2>3, <2>5, <3>1, <3>2
    <2> QED BY <2>4, <2>5 DEF RecordsInv, RepliesNameOwnTrade
<1>7. ASSUME NEW r \in Requests, Execute(r) PROVE RecordsInv'
    <2>1. PICK t \in Trades : Fresh(t) /\ Record(sig[r], t, Booked) /\ Finish(r, t)
        BY <1>7 DEF Execute
    <2> QED BY <1>7, <2>1, RecordsOrder DEF Execute, Stages, Ordered, Booked
<1>8. ASSUME NEW r \in Requests, FailAfterOrder(r) PROVE RecordsInv'
    <2>1. PICK t \in Trades, upTo \in {Responded, Stored} :
              Fresh(t) /\ Record(sig[r], t, upTo) /\ Finish(r, "ERROR")
        BY <1>8 DEF FailAfterOrder
    <2>2. upTo \in Stages
        BY <2>1 DEF Stages, Ordered, Responded, Stored, Booked
    <2> QED BY <1>8, <2>1, <2>2, RecordsOrder DEF FailAfterOrder, Verdicts
<1>9. ASSUME NEW r \in Requests, Crash(r) PROVE RecordsInv'
    <2>1. Finish(r, "LOST")
        BY <1>9 DEF Crash
    <2>2. CASE UNCHANGED <<dedupVars, ledgerVars, orderVars, halted>>
        BY <1>0, <2>1, <2>2, RecordsQuiet DEF Finish, Verdicts, TypeOK, dedupVars, orderVars
    <2>3. CASE /\ pc[r] = "checked"
               /\ \E t \in Trades, upTo \in Ordered..Stored :
                     Fresh(t) /\ Record(sig[r], t, upTo)
        <3>1. PICK t \in Trades, upTo \in Ordered..Stored : Fresh(t) /\ Record(sig[r], t, upTo)
            BY <2>3
        <3>2. upTo \in Stages
            BY <3>1 DEF Stages, Ordered, Stored, Booked
        <3> QED BY <2>1, <2>3, <3>1, <3>2, RecordsOrder DEF Verdicts
    <2> QED BY <1>9, <2>2, <2>3 DEF Crash
<1>10. ASSUME NEW t \in Trades, CloseTrade(t) PROVE RecordsInv'
    BY <1>10, RecordsQuiet DEF CloseTrade, reqVars, dedupVars, orderVars
<1>11. ASSUME NEW t \in Trades, MonitorTick(t) PROVE RecordsInv'
    BY <1>11 DEF MonitorTick, RecordsInv, RepliesNameOwnTrade, TypeOK, reqVars, orderVars
<1>12. ASSUME NEW s \in Signals, ExpireLock(s) \/ ExpireRecord(s) PROVE RecordsInv'
    BY <1>12, RecordsQuiet DEF ExpireLock, ExpireRecord, TypeOK, reqVars, orderVars
<1>13. ASSUME NEW on \in BOOLEAN, SetHalted(on) PROVE RecordsInv'
    BY <1>13, RecordsQuiet DEF SetHalted, reqVars, dedupVars, orderVars
<1>14. CASE UNCHANGED vars
    BY <1>14, RecordsQuiet DEF vars, reqVars, dedupVars, orderVars
<1> QED
    BY <1>1, <1>2, <1>3, <1>4, <1>5, <1>6, <1>7, <1>8, <1>9, <1>10, <1>11, <1>12,
       <1>13, <1>14, <1>15 DEF Next, Serve

(* A request answered with a trade is answered with one placed for its own  *)
(* signal: neither the cached response, nor the mapping the monitor         *)
(* rewrites, nor a stored document crosses signals.                         *)
THEOREM AnswersOwnTrade == Spec => []RepliesNameOwnTrade
<1>1. Spec => []TypeOK
    BY TypeCorrect
<1> QED BY <1>1, RecordsInit, RecordsStep, PTL DEF Spec, RecordsInv

-----------------------------------------------------------------------------
(* No order against the record.  A request looks for a stored trade before  *)
(* it claims, and not again after it.  What it saw stays true: only the     *)
(* holder of the signal can store a trade for it, and a holder that did     *)
(* leaves the lock behind, which outlives every request of the signal.      *)

NothingStored ==
    \A r \in Requests, s \in Signals :
        Executing(r, s) \/ (pc[r] = "unclaimed" /\ sig[r] = s /\ s \notin lock)
        => StoredFor(s) = {}

LEMMA NothingStoredInit == Init => NothingStored
BY DEF Init, NothingStored, Executing, Holding

(* A step that stores nothing and gives no signal back.                     *)
LEMMA NothingStoredQuiet ==
    ASSUME NothingStored, UNCHANGED <<openedBy, recorded>>, lock \subseteq lock',
           \A r \in Requests :
               pc'[r] \in Holding \cup {"unclaimed"} =>
                   \/ sig'[r] = NoSignal
                   \/ pc'[r] = "unclaimed" /\ StoredFor(sig'[r]) = {}
                   \/ /\ sig'[r] = sig[r]
                      /\ \/ pc[r] \in Holding /\ pc'[r] \in Holding
                         \/ pc[r] = "unclaimed" /\ (pc'[r] = "unclaimed" \/ sig[r] \notin lock)
    PROVE  NothingStored'
<1> USE ConstantsAssumption DEF ConstantsAssumption
<1> SUFFICES ASSUME NEW r \in Requests, NEW s \in Signals,
                    (Executing(r, s) \/ (pc[r] = "unclaimed" /\ sig[r] = s /\ s \notin lock))'
             PROVE  StoredFor(s) = {}
    BY DEF NothingStored, StoredFor, Documents
<1>1. pc'[r] \in Holding \cup {"unclaimed"} /\ sig'[r] = s /\ s # NoSignal
    BY DEF Executing
<1>2. pc'[r] = "unclaimed" => s \notin lock /\ pc'[r] \notin Holding
    BY DEF Executing, Holding
<1> QED BY <1>1, <1>2 DEF NothingStored, Executing

(* An order stores a trade of its own signal, whose only executor is gone   *)
(* and whose lock stays.                                                    *)
LEMMA NothingStoredOrder ==
    ASSUME IInv, NothingStored, NEW r \in Requests, NEW t \in Trades, NEW upTo \in Stages,
           NEW answer,
           pc[r] = "checked", Fresh(t), Record(sig[r], t, upTo), Finish(r, answer)
    PROVE  NothingStored'
<1> SUFFICES ASSUME NEW q \in Requests, NEW s \in Signals,
                    (Executing(q, s) \/ (pc[q] = "unclaimed" /\ sig[q] = s /\ s \notin lock))'
             PROVE  StoredFor(s)' = {}
    BY DEF NothingStored
<1>1. /\ lock' = lock /\ sig' = sig /\ pc' = [pc EXCEPT ![r] = "done"]
      /\ openedBy' = [openedBy EXCEPT ![t] = sig[r]]
      /\ recorded' = [recorded EXCEPT ![t] = upTo]
      /\ openedBy[t] = None
    BY DEF Record, Finish, Fresh
<1>2. q # r /\ pc'[q] = pc[q]
    BY <1>1 DEF Executing, IInv, TypeOK, Holding
<1>3. Executing(q, s) \/ (pc[q] = "unclaimed" /\ sig[q] = s /\ s \notin lock)
    BY <1>1, <1>2 DEF Executing
<1>4. s # sig[r]
    <2> SUFFICES ASSUME s = sig[r] PROVE FALSE
        OBVIOUS
    <2>1. Executing(r, s)
        BY DEF Executing, Holding
    <2>2. s \in lock
        BY <2>1 DEF IInv, HolderInv
    <2>3. Executing(q, s)
        BY <1>3, <2>2
    <2> QED BY <1>2, <2>1, <2>3, ConstantsAssumption
            DEF ConstantsAssumption, IInv, SingleExecutor, Executing
<1>5. StoredFor(s) = {}
    BY <1>3 DEF NothingStored
<1>6. StoredFor(s)' = StoredFor(s)
    <2>1. \A u \in Trades : u # t => openedBy'[u] = openedBy[u] /\ recorded'[u] = recorded[u]
        BY <1>1 DEF IInv, TypeOK
    <2>2. openedBy'[t] # s /\ openedBy[t] # s
        BY <1>1, <1>4, ConstantsAssumption DEF ConstantsAssumption, IInv, TypeOK
    <2> QED BY <2>1, <2>2 DEF StoredFor, Documents
<1> QED BY <1>5, <1>6

(* A request that stored nothing gives its signal back.                     *)
LEMMA NothingStoredGivingBack ==
    ASSUME TypeOK, NothingStored, NEW r \in Requests, pc[r] \in Holding,
           pc' = [pc EXCEPT ![r] = "done"], sig' = sig, lock' = lock \ {sig[r]},
           \A s \in Signals : StoredFor(s)' \subseteq StoredFor(s)
    PROVE  NothingStored'
<1> SUFFICES ASSUME NEW q \in Requests, NEW s \in Signals,
                    (Executing(q, s) \/ (pc[q] = "unclaimed" /\ sig[q] = s /\ s \notin lock))'
             PROVE  StoredFor(s) = {}
    BY DEF NothingStored
<1>1. q # r /\ pc'[q] = pc[q]
    BY DEF Executing, TypeOK, Holding
<1>2. CASE s = sig[r]
    BY <1>2 DEF NothingStored, Executing
<1>3. CASE s # sig[r]
    BY <1>1, <1>3 DEF NothingStored, Executing
<1> QED BY <1>2, <1>3

LEMMA NothingStoredStep == IInv /\ NothingStored /\ [Next]_vars => NothingStored'
<1> SUFFICES ASSUME IInv, NothingStored, [Next]_vars PROVE NothingStored'
    OBVIOUS
<1>0. TypeOK
    BY DEF IInv
<1>1. ASSUME NEW r \in Requests, Start(r) PROVE NothingStored'
    <2>1. UNCHANGED <<openedBy, recorded, lock>>
        BY <1>1 DEF Start, Arrive, orderVars, dedupVars
    <2>2. CASE Arrive(r, NoSignal, "claimed")
        BY <1>0, <2>1, <2>2, NothingStoredQuiet DEF Arrive, TypeOK, Holding
    <2>3. CASE \E s \in Signals : KnownFor(s) = {} /\ Arrive(r, s, "unclaimed")
        <3>1. PICK s \in Signals : KnownFor(s) = {} /\ Arrive(r, s, "unclaimed")
            BY <2>3
        <3>2. StoredFor(s) = {}
            BY <3>1 DEF KnownFor
        <3> QED BY <1>0, <2>1, <3>1, <3>2, NothingStoredQuiet DEF Arrive, TypeOK, Holding
    <2> QED BY <1>1, <2>2, <2>3 DEF Start
<1>2. ASSUME NEW r \in Requests, StartDuplicate(r) PROVE NothingStored'
    BY <1>0, <1>2, NothingStoredQuiet DEF StartDuplicate, Holding, TypeOK, orderVars
<1>3. ASSUME NEW r \in Requests, Claim(r) PROVE NothingStored'
    BY <1>0, <1>3, NothingStoredQuiet DEF Claim, Goto, Holding, TypeOK, orderVars
<1>4. ASSUME NEW r \in Requests, Poll(r) PROVE NothingStored'
    BY <1>0, <1>4, NothingStoredQuiet
       DEF Poll, AnswerFromRecord, Finish, Holding, TypeOK, dedupVars, orderVars
<1>5. ASSUME NEW r \in Requests, GiveUp(r) PROVE NothingStored'
    BY <1>0, <1>5, NothingStoredQuiet DEF GiveUp, Finish, Holding, TypeOK, dedupVars, orderVars
<1>6. ASSUME NEW r \in Requests, PassProtection(r) \/ ReadPortfolio(r) \/ CheckLimits(r)
      PROVE  NothingStored'
    BY <1>0, <1>6, NothingStoredQuiet
       DEF PassProtection, ReadPortfolio, CheckLimits, Goto, Holding, TypeOK, dedupVars, orderVars
<1>7. ASSUME NEW r \in Requests, Reject(r) PROVE NothingStored'
    <2>1. /\ pc[r] \in Holding /\ sig' = sig /\ pc' = [pc EXCEPT ![r] = "done"]
          /\ lock' = lock \ {sig[r]} /\ UNCHANGED <<openedBy, recorded>>
        BY <1>7 DEF Reject, Finish, orderVars
    <2>2. \A s \in Signals : StoredFor(s)' \subseteq StoredFor(s)
        BY <2>1 DEF StoredFor, Documents
    <2> QED BY <1>0, <2>1, <2>2, NothingStoredGivingBack
<1>16. ASSUME NEW r \in Requests, LoseOrder(r) PROVE NothingStored'
    <2>1. /\ pc[r] \in Holding /\ sig' = sig /\ pc' = [pc EXCEPT ![r] = "done"]
          /\ lock' = lock \ {sig[r]}
        BY <1>16 DEF LoseOrder, Finish, Holding
    <2>2. PICK t \in Trades : /\ openedBy' = [openedBy EXCEPT ![t] = sig[r]]
                              /\ recorded' = [recorded EXCEPT ![t] = Ordered]
        BY <1>16 DEF LoseOrder
    <2>3. \A s \in Signals : StoredFor(s)' \subseteq StoredFor(s)
        <3>1. \A u \in Trades : u # t => openedBy'[u] = openedBy[u] /\ recorded'[u] = recorded[u]
            BY <1>0, <2>2 DEF TypeOK
        <3>2. t \notin Documents'
            BY <1>0, <2>2 DEF Documents, Ordered, Stored, TypeOK
        <3> QED BY <3>1, <3>2 DEF StoredFor, Documents
    <2> QED BY <1>0, <2>1, <2>3, NothingStoredGivingBack
<1>8. ASSUME NEW r \in Requests, Execute(r) PROVE NothingStored'
    <2>1. PICK t \in Trades : Fresh(t) /\ Record(sig[r], t, Booked) /\ Finish(r, t)
        BY <1>8 DEF Execute
    <2> QED BY <1>8, <2>1, NothingStoredOrder DEF Execute, Stages, Ordered, Booked
<1>9. ASSUME NEW r \in Requests, FailAfterOrder(r) PROVE NothingStored'
    <2>1. PICK t \in Trades, upTo \in {Responded, Stored} :
              Fresh(t) /\ Record(sig[r], t, upTo) /\ Finish(r, "ERROR")
        BY <1>9 DEF FailAfterOrder
    <2>2. upTo \in Stages
        BY <2>1 DEF Stages, Ordered, Responded, Stored, Booked
    <2> QED BY <1>9, <2>1, <2>2, NothingStoredOrder DEF FailAfterOrder
<1>10. ASSUME NEW r \in Requests, Crash(r) PROVE NothingStored'
    <2>1. Finish(r, "LOST")
        BY <1>10 DEF Crash
    <2>2. CASE UNCHANGED <<dedupVars, ledgerVars, orderVars, halted>>
        BY <1>0, <2>1, <2>2, NothingStoredQuiet DEF Finish, Holding, TypeOK, dedupVars, orderVars
    <2>3. CASE /\ pc[r] = "checked"
               /\ \E t \in Trades, upTo \in Ordered..Stored :
                     Fresh(t) /\ Record(sig[r], t, upTo)
        <3>1. PICK t \in Trades, upTo \in Ordered..Stored : Fresh(t) /\ Record(sig[r], t, upTo)
            BY <2>3
        <3>2. upTo \in Stages
            BY <3>1 DEF Stages, Ordered, Stored, Booked
        <3> QED BY <2>1, <2>3, <3>1, <3>2, NothingStoredOrder
    <2> QED BY <1>10, <2>2, <2>3 DEF Crash
<1>11. ASSUME NEW t \in Trades, CloseTrade(t) \/ MonitorTick(t) PROVE NothingStored'
    BY <1>0, <1>11, NothingStoredQuiet
       DEF CloseTrade, MonitorTick, Holding, reqVars, dedupVars, orderVars
<1>12. ASSUME NEW s \in Signals, ExpireLock(s) PROVE NothingStored'
    <2>1. /\ UNCHANGED <<pc, sig, openedBy, recorded>> /\ lock' = lock \ {s}
        BY <1>12 DEF ExpireLock, reqVars, orderVars
    <2>2. \A r \in Requests : ~(pc[r] = "unclaimed" /\ sig[r] = s)
        BY <1>12 DEF ExpireLock, Quiet
    <2> QED BY <2>1, <2>2 DEF NothingStored, Executing, StoredFor, Documents
<1>13. ASSUME NEW s \in Signals, ExpireRecord(s) PROVE NothingStored'
    BY <1>0, <1>13, NothingStoredQuiet DEF ExpireRecord, Holding, reqVars, orderVars
<1>14. ASSUME NEW on \in BOOLEAN, SetHalted(on) PROVE NothingStored'
    BY <1>0, <1>14, NothingStoredQuiet DEF SetHalted, Holding, reqVars, dedupVars, orderVars
<1>15. CASE UNCHANGED vars
    BY <1>0, <1>15, NothingStoredQuiet DEF vars, Holding, reqVars, dedupVars, orderVars
<1> QED
    BY <1>1, <1>2, <1>3, <1>4, <1>5, <1>6, <1>7, <1>8, <1>9, <1>10, <1>11, <1>12,
       <1>13, <1>14, <1>15, <1>16 DEF Next, Serve

(* Placing an order is the only step that gives a trade an opener.          *)
LEMMA OrderIsUnrecorded ==
    ASSUME IInv, NothingStored, [Next]_vars, NEW t \in Trades,
           openedBy[t] = None, openedBy'[t] \in Signals
    PROVE  StoredFor(openedBy'[t]) = {}
<1>0. None \notin Signals
    BY ConstantsAssumption DEF ConstantsAssumption
<1>1. ASSUME NEW r \in Requests, NEW u \in Trades, NEW upTo \in Stages,
             pc[r] = "checked", Fresh(u), Record(sig[r], u, upTo)
      PROVE  StoredFor(openedBy'[t]) = {}
    <2>1. openedBy' = [openedBy EXCEPT ![u] = sig[r]]
        BY <1>1 DEF Record
    <2>2. t = u /\ openedBy'[t] = sig[r]
        BY <1>0, <1>1, <2>1 DEF IInv, TypeOK
    <2>3. Executing(r, sig[r])
        BY <1>1 DEF Executing, Holding
    <2> QED BY <2>2, <2>3 DEF NothingStored
<1>2. openedBy' # openedBy
    BY <1>0
<1>3. ASSUME NEW r \in Requests, Execute(r) PROVE StoredFor(openedBy'[t]) = {}
    <2>1. PICK u \in Trades : Fresh(u) /\ Record(sig[r], u, Booked)
        BY <1>3 DEF Execute
    <2> QED BY <1>1, <1>3, <2>1 DEF Execute, Stages, Ordered, Booked
<1>4. ASSUME NEW r \in Requests, FailAfterOrder(r) PROVE StoredFor(openedBy'[t]) = {}
    <2>1. PICK u \in Trades, upTo \in {Responded, Stored} : Fresh(u) /\ Record(sig[r], u, upTo)
        BY <1>4 DEF FailAfterOrder
    <2>2. upTo \in Stages
        BY <2>1 DEF Stages, Ordered, Responded, Stored, Booked
    <2> QED BY <1>1, <1>4, <2>1, <2>2 DEF FailAfterOrder
<1>8. ASSUME NEW r \in Requests, LoseOrder(r) PROVE StoredFor(openedBy'[t]) = {}
    <2>1. PICK u \in Trades : openedBy' = [openedBy EXCEPT ![u] = sig[r]]
        BY <1>8 DEF LoseOrder
    <2>2. t = u /\ openedBy'[t] = sig[r]
        BY <1>0, <2>1 DEF IInv, TypeOK
    <2>3. Executing(r, sig[r])
        BY <1>8 DEF LoseOrder, Executing, Holding
    <2> QED BY <2>2, <2>3 DEF NothingStored
<1>5. ASSUME NEW r \in Requests, Crash(r) PROVE StoredFor(openedBy'[t]) = {}
    <2>1. /\ pc[r] = "checked"
          /\ \E u \in Trades, upTo \in Ordered..Stored : Fresh(u) /\ Record(sig[r], u, upTo)
        BY <1>2, <1>5 DEF Crash, orderVars
    <2>2. PICK u \in Trades, upTo \in Ordered..Stored : Fresh(u) /\ Record(sig[r], u, upTo)
        BY <2>1
    <2>3. upTo \in Stages
        BY <2>2 DEF Stages, Ordered, Stored, Booked
    <2> QED BY <1>1, <2>1, <2>2, <2>3
<1>6. ASSUME NEW r \in Requests,
             Start(r) \/ StartDuplicate(r) \/ Claim(r) \/ Poll(r) \/ GiveUp(r)
             \/ PassProtection(r) \/ ReadPortfolio(r) \/ CheckLimits(r) \/ Reject(r)
      PROVE  FALSE
    BY <1>2, <1>6 DEF Start, Arrive, StartDuplicate, Claim, Poll, GiveUp, PassProtection,
                      ReadPortfolio, CheckLimits, Reject, orderVars
<1>7. ASSUME (\E u \in Trades : CloseTrade(u) \/ MonitorTick(u))
             \/ (\E s \in Signals : ExpireLock(s) \/ ExpireRecord(s))
             \/ (\E on \in BOOLEAN : SetHalted(on)) \/ UNCHANGED vars
      PROVE  FALSE
    BY <1>2, <1>7 DEF CloseTrade, MonitorTick, ExpireLock, ExpireRecord, SetHalted, vars, orderVars
<1> QED BY <1>3, <1>4, <1>5, <1>6, <1>7, <1>8 DEF Next, Serve

(* A signal with a stored trade is not executed again, however its cache    *)
(* keys expire and whatever crashes: what a request found before its claim  *)
(* is still so when its order is placed.                                    *)
THEOREM NoOrderAgainstTheRecord == Spec => NoReexecutionOnRecord
<1>1. Init => IInv /\ NothingStored
    BY InductiveInit, NothingStoredInit
<1>2. IInv /\ NothingStored /\ [Next]_vars => IInv' /\ NothingStored'
    BY InductiveStep, NothingStoredStep
<1>3. IInv /\ NothingStored /\ [Next]_vars =>
      [\A t \in Trades :
          openedBy[t] = None /\ openedBy'[t] \in Signals => StoredFor(openedBy'[t]) = {}]_vars
    BY OrderIsUnrecorded
<1> QED BY <1>1, <1>2, <1>3, PTL DEF Spec, NoReexecutionOnRecord

-----------------------------------------------------------------------------
(* No lock without a reason.  A crash leaves the lock of its request behind *)
(* until the ttl; as long as no process dies, nothing else does.            *)

LEMMA LockStep ==
    ASSUME ~CrashOn, IInv, LockAccountedFor, [Next]_vars
    PROVE  LockAccountedFor'
<1>0. TypeOK
    BY DEF IInv
<1> DEFINE Busy(s) == \E r \in Requests : pc[r] \in Holding /\ sig[r] = s
<1>1. ASSUME lock' \subseteq lock, UNCHANGED <<window, openedBy, openedIn>>,
             \A s \in lock', r \in Requests :
                 pc[r] \in Holding /\ sig[r] = s => pc'[r] \in Holding /\ sig'[r] = s
      PROVE  LockAccountedFor'
    BY <1>1 DEF LockAccountedFor, CurrentTrades
<1>2. ASSUME NEW r \in Requests, NEW t \in Trades, NEW upTo \in Stages, NEW answer,
             pc[r] = "checked", Fresh(t), Record(sig[r], t, upTo), Finish(r, answer)
      PROVE  LockAccountedFor'
    <2>1. /\ pc' = [pc EXCEPT ![r] = "done"] /\ UNCHANGED <<sig, lock, window>>
          /\ openedBy' = [openedBy EXCEPT ![t] = sig[r]] /\ openedBy[t] = None
          /\ openedIn' = [openedIn EXCEPT ![t] = window[sig[r]]]
        BY <1>2 DEF Record, Finish, Fresh
    <2> SUFFICES ASSUME NEW s \in lock
                 PROVE  Busy(s)' \/ CurrentTrades(s)' # {}
        BY <2>1 DEF LockAccountedFor
    <2>2. CASE s = sig[r]
        BY <1>0, <2>1, <2>2 DEF CurrentTrades, TypeOK
    <2>3. CASE s # sig[r]
        <3>1. Busy(s) => Busy(s)'
            BY <1>0, <2>1, <2>3 DEF TypeOK
        <3>2. s # None
            BY <1>0, ConstantsAssumption DEF ConstantsAssumption, TypeOK
        <3>3. CurrentTrades(s) \subseteq CurrentTrades(s)'
            BY <1>0, <2>1, <3>2 DEF CurrentTrades, TypeOK
        <3> QED BY <3>1, <3>3 DEF LockAccountedFor
    <2> QED BY <2>2, <2>3
<1>3. ASSUME NEW r \in Requests, Start(r) \/ StartDuplicate(r) PROVE LockAccountedFor'
    BY <1>0, <1>1, <1>3
       DEF Start, Arrive, StartDuplicate, TypeOK, Holding, dedupVars, orderVars
<1>4. ASSUME NEW r \in Requests, Claim(r) PROVE LockAccountedFor'
    <2>1. CASE sig[r] \in lock
        BY <1>0, <1>1, <1>4, <2>1 DEF Claim, Goto, Holding, TypeOK, orderVars
    <2>2. CASE sig[r] \notin lock
        <3>1. /\ lock' = lock \cup {sig[r]} /\ UNCHANGED <<sig, window, openedBy, openedIn>>
              /\ pc' = [pc EXCEPT ![r] = "claimed"] /\ pc[r] = "unclaimed"
            BY <1>4, <2>2 DEF Claim, Goto, orderVars
        <3>2. pc' \in [Requests -> Pcs] /\ pc'[r] \in Holding
            BY <1>0, <3>1 DEF TypeOK, Pcs, Holding
        <3>3. \A s : Busy(s) => Busy(s)'
            BY <1>0, <3>1, <3>2 DEF TypeOK
        <3>4. \A s : CurrentTrades(s)' = CurrentTrades(s)
            BY <3>1 DEF CurrentTrades
        <3> QED BY <3>1, <3>2, <3>3, <3>4 DEF LockAccountedFor
    <2> QED BY <2>1, <2>2
<1>5. ASSUME NEW r \in Requests, Poll(r) \/ GiveUp(r) PROVE LockAccountedFor'
    BY <1>0, <1>1, <1>5
       DEF Poll, AnswerFromRecord, GiveUp, Finish, Holding, TypeOK, dedupVars, orderVars
<1>6. ASSUME NEW r \in Requests, PassProtection(r) \/ ReadPortfolio(r) \/ CheckLimits(r)
      PROVE  LockAccountedFor'
    BY <1>0, <1>1, <1>6
       DEF PassProtection, ReadPortfolio, CheckLimits, Goto, Holding, TypeOK, dedupVars, orderVars
<1>7. ASSUME NEW r \in Requests, Reject(r) PROVE LockAccountedFor'
    BY <1>0, <1>1, <1>7 DEF Reject, Finish, TypeOK, orderVars
<1>15. ASSUME NEW r \in Requests, LoseOrder(r) PROVE LockAccountedFor'
    <2>1. PICK t \in Trades : Fresh(t) /\ openedBy' = [openedBy EXCEPT ![t] = sig[r]]
                              /\ openedIn' = [openedIn EXCEPT ![t] = Unnoted]
        BY <1>15 DEF LoseOrder
    <2>2. /\ pc' = [pc EXCEPT ![r] = "done"] /\ UNCHANGED <<sig, window>> /\ lock' = lock \ {sig[r]}
        BY <1>15 DEF LoseOrder, Finish
    <2> SUFFICES ASSUME NEW s \in lock, s # sig[r]
                 PROVE  Busy(s)' \/ CurrentTrades(s)' # {}
        BY <2>2 DEF LockAccountedFor
    <2>3. Busy(s) => Busy(s)'
        BY <1>0, <2>2 DEF TypeOK
    <2>4. s # None
        BY <1>0, ConstantsAssumption DEF ConstantsAssumption, TypeOK
    <2>5. CurrentTrades(s) \subseteq CurrentTrades(s)'
        BY <1>0, <2>1, <2>2, <2>4 DEF CurrentTrades, TypeOK, Fresh
    <2> QED BY <2>3, <2>5 DEF LockAccountedFor
<1>8. ASSUME NEW r \in Requests, Execute(r) PROVE LockAccountedFor'
    <2>1. PICK t \in Trades : Fresh(t) /\ Record(sig[r], t, Booked) /\ Finish(r, t)
        BY <1>8 DEF Execute
    <2> QED BY <1>2, <1>8, <2>1 DEF Execute, Stages, Ordered, Booked
<1>9. ASSUME NEW r \in Requests, FailAfterOrder(r) PROVE LockAccountedFor'
    <2>1. PICK t \in Trades, upTo \in {Responded, Stored} :
              Fresh(t) /\ Record(sig[r], t, upTo) /\ Finish(r, "ERROR")
        BY <1>9 DEF FailAfterOrder
    <2>2. upTo \in Stages
        BY <2>1 DEF Stages, Ordered, Responded, Stored, Booked
    <2> QED BY <1>2, <1>9, <2>1, <2>2 DEF FailAfterOrder
<1>10. ASSUME NEW t \in Trades, CloseTrade(t) \/ MonitorTick(t) PROVE LockAccountedFor'
    BY <1>1, <1>10 DEF CloseTrade, MonitorTick, reqVars, dedupVars, orderVars
<1>11. ASSUME NEW s \in Signals, ExpireLock(s) PROVE LockAccountedFor'
    <2>1. /\ lock' = lock \ {s} /\ UNCHANGED <<pc, sig, openedBy, openedIn>>
          /\ \A z \in lock' : window'[z] = window[z]
        BY <1>0, <1>11 DEF ExpireLock, reqVars, orderVars, TypeOK, Ids
    <2> QED BY <2>1 DEF LockAccountedFor, CurrentTrades
<1>12. ASSUME NEW s \in Signals, ExpireRecord(s) PROVE LockAccountedFor'
    BY <1>1, <1>12 DEF ExpireRecord, reqVars, orderVars
<1>13. ASSUME NEW on \in BOOLEAN, SetHalted(on) PROVE LockAccountedFor'
    BY <1>1, <1>13 DEF SetHalted, reqVars, dedupVars, orderVars
<1>14. CASE UNCHANGED vars
    BY <1>1, <1>14 DEF vars, reqVars, dedupVars, orderVars
<1> QED
    BY <1>3, <1>4, <1>5, <1>6, <1>7, <1>8, <1>9, <1>10, <1>11, <1>12, <1>13, <1>14, <1>15
       DEF Next, Serve, Crash

(* While no process dies, a locked signal is one that is being executed or  *)
(* was executed in this window: no rejection, failing write or expiry       *)
(* leaves a signal blocked with nothing to show for it.                     *)
THEOREM LocksHaveAReason ==
    ASSUME ~CrashOn
    PROVE  Spec => []LockAccountedFor
<1>1. Init => LockAccountedFor
    BY DEF Init, LockAccountedFor
<1> QED BY <1>1, Inductive, LockStep, PTL DEF Spec

-----------------------------------------------------------------------------
(* The limit on open positions.  When the writes after an order neither     *)
(* fail nor are cut short, the index a request reads is the set of active   *)
(* trades.  A request that found room there may take it later: each one     *)
(* counts as if it already had.                                             *)

(* The requests that found room and have not used it yet.                   *)
Takers ==
    {r \in Requests : \/ pc[r] = "checked"
                      \/ pc[r] = "profiled" /\ Cardinality(seen[r]) < MaxActive}

IndexInv == index = active /\ active \subseteq Opened /\ IsFiniteSet(active)

RoomInv == Cardinality(active) + Cardinality(Takers) < MaxActive + Cardinality(Requests)

LEMMA TakersFinite ==
    ASSUME IsFiniteSet(Requests)
    PROVE  /\ IsFiniteSet(Takers) /\ Cardinality(Takers) \in Nat
           /\ Cardinality(Requests) \in Nat /\ Cardinality(Takers) <= Cardinality(Requests)
<1>1. Takers \in SUBSET Requests
    BY DEF Takers
<1> QED BY <1>1, FS_Subset, FS_CardinalityType

LimitsInv == IndexInv /\ RoomInv /\ ActiveCountNotOver

(* A step that leaves the ledger alone and lets nobody new find room.       *)
LEMMA LimitsQuiet ==
    ASSUME IsFiniteSet(Requests), TypeOK, LimitsInv,
           UNCHANGED <<active, index, activeCount, openedBy>>, Takers' \subseteq Takers
    PROVE  LimitsInv'
<1>1. Takers' \in SUBSET Takers
    OBVIOUS
<1>2. Cardinality(Takers') \in Nat /\ Cardinality(Takers') <= Cardinality(Takers)
    BY <1>1, TakersFinite, FS_Subset, FS_CardinalityType
<1>3. Cardinality(active) \in Nat
    BY FS_CardinalityType DEF LimitsInv, IndexInv
<1>4. RoomInv'
    BY <1>2, <1>3, TakersFinite, ConstantsAssumption DEF LimitsInv, RoomInv, ConstantsAssumption
<1>5. IndexInv' /\ ActiveCountNotOver'
    BY DEF LimitsInv, IndexInv, ActiveCountNotOver, Opened
<1> QED BY <1>4, <1>5 DEF LimitsInv

LEMMA LimitsInit ==
    ASSUME IsFiniteSet(Requests), Init
    PROVE  LimitsInv
<1>1. IndexInv /\ Cardinality(active) = 0 /\ activeCount = 0
    BY FS_EmptySet DEF Init, IndexInv
<1>2. Takers = {} /\ Cardinality(Takers) = 0
    BY FS_EmptySet DEF Init, Takers
<1> QED BY <1>1, <1>2, TakersFinite, ConstantsAssumption
        DEF LimitsInv, RoomInv, ActiveCountNotOver, ConstantsAssumption

LEMMA LimitsStep ==
    ASSUME IsFiniteSet(Requests), ~StoreMayFail, ~CrashOn, TypeOK, LimitsInv, [Next]_vars
    PROVE  LimitsInv'
<1>c. MaxActive \in Nat
    BY ConstantsAssumption DEF ConstantsAssumption
<1>0. Cardinality(active) \in Nat /\ activeCount \in Nat
    BY FS_CardinalityType DEF LimitsInv, IndexInv, TypeOK
<1>1. ASSUME NEW r \in Requests, Start(r) \/ StartDuplicate(r) PROVE LimitsInv'
    BY <1>1, LimitsQuiet
       DEF Start, Arrive, StartDuplicate, Takers, TypeOK, ledgerVars, orderVars
<1>2. ASSUME NEW r \in Requests, Claim(r) \/ PassProtection(r) PROVE LimitsInv'
    BY <1>2, LimitsQuiet DEF Claim, PassProtection, Goto, Takers, TypeOK, ledgerVars, orderVars
<1>3. ASSUME NEW r \in Requests, Poll(r) \/ GiveUp(r) \/ Reject(r) PROVE LimitsInv'
    BY <1>3, LimitsQuiet
       DEF Poll, AnswerFromRecord, GiveUp, Reject, Finish, Takers, TypeOK, ledgerVars, orderVars
<1>4. ASSUME NEW r \in Requests, ReadPortfolio(r) PROVE LimitsInv'
    <2>1. Visible = active
        BY DEF Visible, LimitsInv, IndexInv
    <2>2. /\ pc[r] = "gated" /\ pc' = [pc EXCEPT ![r] = "profiled"]
          /\ seen' = [seen EXCEPT ![r] = active] /\ index' = active
          /\ UNCHANGED <<active, activeCount, openedBy>>
        BY <1>4, <2>1 DEF ReadPortfolio, orderVars
    <2>3. CASE Cardinality(active) < MaxActive
        <3>1. /\ Cardinality(Takers') \in Nat
              /\ Cardinality(Takers') <= Cardinality(Requests)
            <4>1. Takers' \in SUBSET Requests
                BY DEF Takers
            <4> QED BY <4>1, FS_Subset, FS_CardinalityType
        <3>2. Cardinality(Requests) \in Nat
            BY FS_CardinalityType
        <3>3. RoomInv'
            BY <1>c, <1>0, <2>2, <2>3, <3>1, <3>2 DEF RoomInv
        <3> QED BY <2>2, <3>3 DEF LimitsInv, IndexInv, ActiveCountNotOver, Opened
    <2>4. CASE ~(Cardinality(active) < MaxActive)
        <3>1. Takers' \subseteq Takers
            BY <2>2, <2>4 DEF Takers, TypeOK
        <3>2. index' = index
            BY <2>2 DEF LimitsInv, IndexInv
        <3> QED BY <2>2, <3>1, <3>2, LimitsQuiet
    <2> QED BY <2>3, <2>4
<1>5. ASSUME NEW r \in Requests, CheckLimits(r) PROVE LimitsInv'
    BY <1>5, LimitsQuiet DEF CheckLimits, HasRoom, Goto, Takers, TypeOK, ledgerVars, orderVars
<1>12. ASSUME NEW r \in Requests, LoseOrder(r) PROVE LimitsInv'
    <2>1. PICK t \in Trades : openedBy' = [openedBy EXCEPT ![t] = sig[r]]
        BY <1>12 DEF LoseOrder
    <2>2. /\ UNCHANGED <<active, index, activeCount>> /\ pc' = [pc EXCEPT ![r] = "done"]
          /\ seen' = [seen EXCEPT ![r] = {}]
        BY <1>12 DEF LoseOrder, Finish, ledgerVars
    <2>3. Takers' \in SUBSET Takers
        BY <2>2 DEF Takers, TypeOK
    <2>4. Cardinality(Takers') \in Nat /\ Cardinality(Takers') <= Cardinality(Takers)
        BY <2>3, TakersFinite, FS_Subset, FS_CardinalityType
    <2>5. RoomInv'
        BY <1>c, <1>0, <2>2, <2>4, TakersFinite DEF LimitsInv, RoomInv
    <2>6. sig[r] # None
        BY ConstantsAssumption DEF ConstantsAssumption, TypeOK, Ids
    <2>7. active' \subseteq Opened'
        BY <2>1, <2>2, <2>6 DEF LimitsInv, IndexInv, Opened, TypeOK
    <2> QED BY <2>2, <2>5, <2>7 DEF LimitsInv, IndexInv, ActiveCountNotOver
<1>6. ASSUME NEW r \in Requests, Execute(r) PROVE LimitsInv'
    <2>1. PICK t \in Trades : Fresh(t) /\ Record(sig[r], t, Booked) /\ Finish(r, t)
        BY <1>6 DEF Execute
    <2>2. /\ active' = active \cup {t} /\ index' = index \cup {t}
          /\ activeCount' = activeCount + 1
          /\ openedBy' = [openedBy EXCEPT ![t] = sig[r]]
        BY <2>1 DEF Record, Opening, Booked
    <2>3. t \notin active
        BY <2>1 DEF LimitsInv, IndexInv, Opened, Fresh
    <2>4. IsFiniteSet(active') /\ Cardinality(active') = Cardinality(active) + 1
        BY <2>2, <2>3, FS_AddElement DEF LimitsInv, IndexInv
    <2>5. r \in Takers /\ Takers' = Takers \ {r}
        BY <1>6, <2>1 DEF Execute, Finish, Takers, TypeOK
    <2>6. Cardinality(Takers') = Cardinality(Takers) - 1
        BY <2>5, TakersFinite, FS_RemoveElement
    <2>7. RoomInv'
        BY <1>c, <1>0, <2>4, <2>6, TakersFinite DEF RoomInv, LimitsInv
    <2>8. sig[r] # None
        BY ConstantsAssumption DEF ConstantsAssumption, TypeOK, Ids
    <2>9. active' \subseteq Opened'
        BY <2>2, <2>8 DEF LimitsInv, IndexInv, Opened, TypeOK
    <2>10. IndexInv'
        BY <2>2, <2>4, <2>9 DEF LimitsInv, IndexInv
    <2> QED BY <1>0, <2>2, <2>4, <2>7, <2>10 DEF LimitsInv, ActiveCountNotOver
<1>7. ASSUME NEW t \in Trades, CloseTrade(t) PROVE LimitsInv'
    <2>1. /\ t \in active /\ active' = active \ {t} /\ index' = index \ {t}
          /\ activeCount' = IF activeCount > 0 THEN activeCount - 1 ELSE 0
          /\ UNCHANGED <<pc, seen, openedBy>>
        BY <1>7 DEF CloseTrade, reqVars, orderVars
    <2>2. IsFiniteSet(active') /\ Cardinality(active') = Cardinality(active) - 1
        BY <2>1, FS_RemoveElement DEF LimitsInv, IndexInv
    <2>3. Takers' = Takers
        BY <2>1 DEF Takers
    <2>4. Cardinality(active') \in Nat
        BY <2>2, FS_CardinalityType
    <2>5. RoomInv'
        BY <1>c, <1>0, <2>2, <2>3, TakersFinite DEF RoomInv, LimitsInv
    <2>6. IndexInv'
        BY <2>1, <2>2 DEF LimitsInv, IndexInv, Opened
    <2> QED BY <1>0, <2>1, <2>2, <2>4, <2>5, <2>6 DEF LimitsInv, ActiveCountNotOver
<1>8. ASSUME NEW t \in Trades, MonitorTick(t) PROVE LimitsInv'
    BY <1>8, LimitsQuiet DEF MonitorTick, Takers, reqVars, ledgerVars, orderVars
<1>9. ASSUME NEW s \in Signals, ExpireLock(s) \/ ExpireRecord(s) PROVE LimitsInv'
    BY <1>9, LimitsQuiet DEF ExpireLock, ExpireRecord, Takers, reqVars, ledgerVars, orderVars
<1>10. ASSUME NEW on \in BOOLEAN, SetHalted(on) PROVE LimitsInv'
    BY <1>10, LimitsQuiet DEF SetHalted, Takers, reqVars, ledgerVars, orderVars
<1>11. CASE UNCHANGED vars
    BY <1>11, LimitsQuiet DEF vars, Takers, reqVars, ledgerVars, orderVars
<1> QED
    BY <1>1, <1>2, <1>3, <1>4, <1>5, <1>6, <1>7, <1>8, <1>9, <1>10, <1>11, <1>12
       DEF Next, Serve, FailAfterOrder, Crash

(* With finitely many requests being served, stores that answer and no      *)
(* crash, the limit on open positions is exceeded by fewer trades than      *)
(* there are requests, and the published count is never above the truth.    *)
THEOREM LimitsAreHeld ==
    ASSUME IsFiniteSet(Requests), ~StoreMayFail, ~CrashOn
    PROVE  Spec => []LimitsHold
<1>1. TypeOK /\ LimitsInv => LimitsHold
    <2> SUFFICES ASSUME TypeOK, LimitsInv PROVE LimitsHold
        OBVIOUS
    <2>1. Cardinality(active) \in Nat /\ MaxActive \in Nat
        BY FS_CardinalityType, ConstantsAssumption DEF LimitsInv, IndexInv, ConstantsAssumption
    <2> QED BY <2>1, TakersFinite DEF LimitsInv, RoomInv, LimitsHold, OvershootBound
<1>2. Init => LimitsInv
    BY LimitsInit
<1>3. TypeOK /\ LimitsInv /\ [Next]_vars => LimitsInv'
    BY LimitsStep
<1>4. Spec => []TypeOK
    BY TypeCorrect
<1> QED BY <1>1, <1>2, <1>3, <1>4, PTL DEF Spec
=============================================================================
