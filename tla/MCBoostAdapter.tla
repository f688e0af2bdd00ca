--------------------------- MODULE MCBoostAdapter ---------------------------
(* BoostAdapter on small instances for TLC. *)
EXTENDS BoostAdapter
=============================================================================
