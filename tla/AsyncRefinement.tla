-------------------------- MODULE AsyncRefinement ---------------------------
(***************************************************************************)
(* AsyncCommand implements CommandService: between the submission of a     *)
(* command and its end, the redirections, ASKINGs and retries it goes      *)
(* through on any number of connections are steps its user does not see.   *)
(***************************************************************************)
EXTENDS AsyncCommand

StateOf == [unused |-> "new", live |-> "pending", leaked |-> "refused", deleted |-> "ended"]

Abstract == INSTANCE CommandService WITH
  Call <- Cmd,
  state <- [c \in Cmd |-> StateOf[obj[c]]],
  report <- heard,
  dead <- crashed # "no"

(* The life of an AsyncHiredisCommand, from new to delete, over every      *)
(* context and callback it passes through, is that of a command of the     *)
(* abstract service: accepted commands are reported once, executed once if *)
(* their user gets a result, and never executed if he gets a failure.      *)
ImplementsCommandService == Abstract!Spec
=============================================================================
