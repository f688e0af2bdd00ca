------------------------------ MODULE SlotMap -------------------------------
(***************************************************************************)
(* The map nodes_ of DefaultContainer (container.h): from slot ranges,     *)
(* compared by their first slot only, to connections.  A map is a function *)
(* from first slots to records of the last slot and the connection.        *)
(***************************************************************************)
EXTENDS Integers

CONSTANTS
  Slot,      \* the slot numbers
  NotFound   \* NodeSearchException

ASSUME SlotAssumption == Slot \subseteq Nat /\ NotFound \notin Nat

(* nodes_.insert: a range whose first slot is in the map already is        *)
(* ignored.                                                                *)
Inserted(nodes, slots, conn) ==
  IF slots[1] \in DOMAIN nodes THEN nodes
  ELSE [s \in DOMAIN nodes \cup {slots[1]} |->
          IF s = slots[1] THEN [last |-> slots[2], conn |-> conn] ELSE nodes[s]]

(* The first slot the iterator is at after lower_bound({index + 1, 0}) and *)
(* one step back, which is not taken at begin().  NotFound is end().       *)
Position(nodes, index) ==
  LET before == {s \in DOMAIN nodes : s < index + 1} IN
  IF before # {} THEN CHOOSE s \in before : \A u \in before : u <= s
  ELSE IF DOMAIN nodes # {} THEN CHOOSE s \in DOMAIN nodes : \A u \in DOMAIN nodes : s <= u
  ELSE NotFound

(* Mutant: lower_bound({index, 0}).                                        *)
searchBelow(nodes, index) ==
  LET node == Position(nodes, index - 1) IN
  IF node = NotFound \/ node > index \/ nodes[node].last < index THEN NotFound ELSE node

searchBySlots(nodes, index) ==
  LET node == Position(nodes, index) IN
  IF node = NotFound THEN NotFound
  ELSE IF node > index \/ nodes[node].last < index THEN NotFound ELSE node
=============================================================================
