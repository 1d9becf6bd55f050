--------------------------- MODULE MCOrderPlacement ---------------------------
(* Instances of OrderPlacement small enough for TLC. *)
EXTENDS OrderPlacement
=============================================================================
