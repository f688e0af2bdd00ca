-------------------------- MODULE MCClusterRouting --------------------------
(* ClusterRouting on small instances for TLC. *)
EXTENDS ClusterRouting, TLC

Slots == 0..16383

(* Every key of up to three chars made of the braces and a letter, longer  *)
(* ones around a tag; every single char, which reads the whole CRC table;  *)
(* and keys whose slots are at or next to the ends of the ranges below.    *)
Alphabet == {Open, Close, 97}
EdgeKeys == {<<81, 105>>, <<42, -61>>, <<45, 44>>, <<56, 77>>, <<67, -25>>,
             <<52, -110>>, <<33, -13>>, <<93, -74>>, <<72, -41>>}
TagKeys == {<<97, Open, -61, Close>>, <<Open, Open, 97, Close>>,
            <<Open, 97, Close, Close>>, <<Open, Close, Open, 97, Close>>,
            <<97, Close, Open, 97, Close, 97>>, <<Open, 97, Open, 97, Close>>}
KeyTable == UNION {[1..n -> Alphabet] : n \in 0..3}
          \cup TagKeys \cup EdgeKeys \cup [1..1 -> -128..127]

(* TLC keeps the value of a definition but not of one a .cfg puts in the   *)
(* place of a constant, and @@ makes it tabulate a function.               *)
SlotTable == [k \in KeyTable |-> SlotByKey(k)] @@ (<<>> :> SlotByKey(<<>>))
StandardTable == [k \in KeyTable |-> KeySlot(k)] @@ (<<>> :> KeySlot(<<>>))
Keys == KeyTable
KeySlots == SlotTable
StandardSlots == StandardTable

(* Three ranges that cover everything, two of one slot at the ends of those,  *)
(* and one that leaves gaps on both sides.                                 *)
Ranges == {<<0, 5460>>, <<5461, 10922>>, <<10923, 16383>>,
           <<0, 0>>, <<5461, 5461>>, <<2, 5459>>}
=============================================================================
