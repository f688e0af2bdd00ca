--------------------------- MODULE ClusterRouting ---------------------------
(* ClusterSetup over SlotHash: Cluster::getConnection(key) hashes the key   *)
(* and hands the slot to the container.                                     *)
EXTENDS ClusterSetup, SlotHash

CONSTANT StandardSlot   \* the slot of the cluster specification

ASSUME RoutingAssumption ==
  /\ Key \subseteq Seq(Char)
  /\ SlotOf = [k \in Key |-> SlotByKey(k)]
  /\ StandardSlot = [k \in Key |-> KeySlot(k)]

(* The slot the library looks up is the slot of the cluster specification: *)
(* the CRC16 table, its index for chars above 127 and the rules for hash   *)
(* tags agree with a bitwise division and with a declarative tag.          *)
SlotIsStandard == asked # NoKey => SlotOf[asked] = StandardSlot[asked]
=============================================================================
