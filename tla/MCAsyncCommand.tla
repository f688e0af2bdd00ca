--------------------------- MODULE MCAsyncCommand ---------------------------
(* AsyncCommand on small instances for TLC. *)
EXTENDS AsyncRefinement, TLC

Symmetry == Permutations(Cmd) \cup Permutations(SlotRange) \cup Permutations(Host)
=============================================================================
