----------------------------- MODULE SignalOnce -----------------------------
(***************************************************************************)
(* What the signal keys of the cache promise: a signal is executed at most *)
(* once until it is forgotten.                                             *)
(***************************************************************************)
CONSTANTS Signals, Trades

VARIABLE current     \* for each signal, the trades executed since it was forgotten

Init == current = [s \in Signals |-> {}]

Place(s, t) ==
    /\ current[s] = {}
    /\ \A other \in Signals : t \notin current[other]
    /\ current' = [current EXCEPT ![s] = {t}]

Forget(s) == current' = [current EXCEPT ![s] = {}]

Next ==
    \/ \E s \in Signals, t \in Trades : Place(s, t)
    \/ \E s \in Signals : Forget(s)

Spec == Init /\ [][Next]_current
=============================================================================
