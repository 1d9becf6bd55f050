----------------------- MODULE MCDrawdownProtection -----------------------
(* Instances of DrawdownProtection small enough for TLC. *)
EXTENDS DrawdownProtection
=============================================================================
