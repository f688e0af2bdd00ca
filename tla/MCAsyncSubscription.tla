------------------------ MODULE MCAsyncSubscription -------------------------
(* AsyncSubscription on small instances for TLC. *)
EXTENDS AsyncSubscription, TLC

Symmetry == Permutations(Cmd) \cup Permutations(Channel)
=============================================================================
