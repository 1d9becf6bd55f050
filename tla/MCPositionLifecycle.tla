------------------------ MODULE MCPositionLifecycle ------------------------
(* Instances of PositionLifecycle small enough for TLC. *)
EXTENDS PositionLifecycle

=============================================================================
