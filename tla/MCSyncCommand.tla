--------------------------- MODULE MCSyncCommand ---------------------------
(* SyncCommand on small instances for TLC. *)
EXTENDS SyncRefinement, TLC

Symmetry == Permutations(Thread)
=============================================================================
