------------------------------- MODULE Position -------------------------------
(***************************************************************************)
(* What the backend promises about an open position: every unit of it is   *)
(* booked exactly once, or forgotten with the rest of the position by a     *)
(* process that starts, and a position never grows or comes back.          *)
(***************************************************************************)
EXTENDS Naturals

CONSTANTS Trades, Quantity

VARIABLES up, left, booked  \* the process runs; units still open, units booked as closed

NotOpened == Quantity + 1

Init ==
    /\ left = [t \in Trades |-> NotOpened]
    /\ booked = [t \in Trades |-> 0]

Open(t) ==
    /\ left[t] = NotOpened
    /\ left' = [left EXCEPT ![t] = Quantity]
    /\ UNCHANGED booked

Reduce(t, units) ==
    /\ left[t] # NotOpened
    /\ units \in 1..left[t]
    /\ left' = [left EXCEPT ![t] = @ - units]
    /\ booked' = [booked EXCEPT ![t] = @ + units]

Forget(t) ==
    /\ ~up /\ left[t] \in 1..Quantity
    /\ left' = [left EXCEPT ![t] = 0]
    /\ UNCHANGED booked

Next == \E t \in Trades : Open(t) \/ Forget(t) \/ \E units \in 1..Quantity : Reduce(t, units)

Spec == Init /\ [][Next]_<<left, booked>>
=============================================================================
