--------------------------- MODULE CommandService ---------------------------
(***************************************************************************)
(* What a client library promises of a command, and nothing of how: a      *)
(* command that was accepted ends once, with one report to its user; it is *)
(* executed once if the report carries a result and never if it does not.  *)
(* The process may die at any time.                                        *)
(***************************************************************************)
EXTENDS Naturals, Sequences

CONSTANT Call   \* the commands

VARIABLES
  state,   \* life of a command
  report,  \* what its user has been told
  served,  \* how often a node has executed it
  dead     \* the process has died

serviceVars == <<state, report, served, dead>>

Init ==
  /\ state = [c \in Call |-> "new"]
  /\ report = [c \in Call |-> <<>>]
  /\ served = [c \in Call |-> 0]
  /\ dead = FALSE

(* A command is accepted, or its caller gets an exception.                 *)
Submit(c) ==
  /\ ~dead /\ state[c] = "new"
  /\ \E s \in {"pending", "refused"} : state' = [state EXCEPT ![c] = s]
  /\ UNCHANGED <<report, served, dead>>

End(c, what) ==
  /\ ~dead /\ state[c] = "pending"
  /\ state' = [state EXCEPT ![c] = "ended"]
  /\ report' = [report EXCEPT ![c] = <<what>>]
  /\ UNCHANGED dead

Serve(c) == End(c, "data") /\ served' = [served EXCEPT ![c] = 1]
Fail(c, what) == what # "data" /\ End(c, what) /\ UNCHANGED served

Die ==
  /\ ~dead /\ dead' = TRUE
  /\ \/ UNCHANGED served
     \/ \E c \in Call : state[c] = "pending" /\ served' = [served EXCEPT ![c] = 1]
  /\ UNCHANGED <<state, report>>

Next ==
  \/ \E c \in Call : Submit(c) \/ Serve(c) \/ Fail(c, "error") \/ Fail(c, "OK")
  \/ Die

Spec == Init /\ [][Next]_serviceVars
=============================================================================
