------------------------- MODULE ClusterSetupProofs -------------------------
(***************************************************************************)
(* Proofs about ClusterSetup, SlotMap and ClusterRouting, for any slots,   *)
(* ranges and keys, and for replies of any length: the type invariant, the *)
(* memory of the reply to "cluster slots", the ownership of what           *)
(* createCluster made, that the search by slot finds the node that owns the *)
(* slot, and that the slot is the one the cluster specification gives the  *)
(* key.                                                                    *)
(***************************************************************************)
EXTENDS ClusterRouting, SlotHashProofs, TLAPS

-----------------------------------------------------------------------------
(* SlotMap.                                                                *)

LEMMA BoundedHasMax ==
  ASSUME NEW n \in Nat, NEW S \in SUBSET (0..n), S # {}
  PROVE  \E s \in S : \A u \in S : u <= s
<1> DEFINE T == {n - s : s \in S}
<1>1. T \in SUBSET Nat /\ T # {}
  <2>1. \A s \in S : n - s \in Nat
    OBVIOUS
  <2>2. PICK s : s \in S
    OBVIOUS
  <2>3. n - s \in T
    BY <2>2
  <2> QED
    BY <2>1, <2>3
<1>2. PICK t \in T : \A u \in T : t <= u
  BY <1>1, NonemptyHasMin
<1>3. PICK s \in S : t = n - s
  BY <1>2
<1>4. \A u \in S : t <= n - u
  BY <1>2
<1> QED
  BY <1>3, <1>4

(* The step back from lower_bound is at the greatest first slot that is    *)
(* not above the index, when there is one.                                 *)
LEMMA PositionBelow ==
  ASSUME NEW nodes_, DOMAIN nodes_ \subseteq Slot, NEW index \in Slot,
         NEW s \in DOMAIN nodes_, s <= index
  PROVE  /\ Position(nodes_, index) \in DOMAIN nodes_
         /\ Position(nodes_, index) <= index
         /\ \A u \in DOMAIN nodes_ : u <= index => u <= Position(nodes_, index)
<1> DEFINE before == {u \in DOMAIN nodes_ : u < index + 1}
<1>1. index \in Nat /\ s \in Nat /\ \A u \in DOMAIN nodes_ : u \in Nat
  BY SlotAssumption
<1>2. before \in SUBSET (0..index) /\ s \in before
  BY <1>1
<1>3. \E t \in before : \A u \in before : u <= t
  <2> HIDE DEF before
  <2> QED
    BY <1>1, <1>2, BoundedHasMax
<1>4. Position(nodes_, index) = CHOOSE t \in before : \A u \in before : u <= t
  BY <1>2 DEF Position
<1>5. /\ Position(nodes_, index) \in before
      /\ \A u \in before : u <= Position(nodes_, index)
  <2> HIDE DEF before
  <2> QED
    BY <1>3, <1>4
<1>6. Position(nodes_, index) \in DOMAIN nodes_ /\ Position(nodes_, index) < index + 1
  BY <1>5
<1>7. \A u \in DOMAIN nodes_ : u <= index => u \in before
  BY <1>1
<1> QED
  BY <1>1, <1>5, <1>6, <1>7

(* When there is none, the iterator is at a range that begins above it, or *)
(* at the end.                                                             *)
LEMMA PositionAbove ==
  ASSUME NEW nodes_, DOMAIN nodes_ \subseteq Slot, NEW index \in Slot,
         \A s \in DOMAIN nodes_ : ~(s <= index)
  PROVE  \/ Position(nodes_, index) = NotFound
         \/ Position(nodes_, index) \in Nat /\ Position(nodes_, index) > index
<1>1. index \in Nat /\ \A u \in DOMAIN nodes_ : u \in Nat
  BY SlotAssumption
<1>2. {u \in DOMAIN nodes_ : u < index + 1} = {}
  BY <1>1
<1>3. CASE DOMAIN nodes_ = {}
  BY <1>2, <1>3 DEF Position
<1>4. CASE DOMAIN nodes_ # {}
  <2>1. \E s \in DOMAIN nodes_ : \A u \in DOMAIN nodes_ : s <= u
    BY <1>1, <1>4, NonemptyHasMin
  <2>2. Position(nodes_, index) =
          CHOOSE s \in DOMAIN nodes_ : \A u \in DOMAIN nodes_ : s <= u
    BY <1>2, <1>4 DEF Position
  <2>3. Position(nodes_, index) \in DOMAIN nodes_
    BY <2>1, <2>2
  <2> QED
    BY <1>1, <2>3
<1> QED
  BY <1>3, <1>4

(* nodes_ holds the first n ranges of q and the connections made for them. *)
Holds(nodes_, q, n) ==
  /\ \A i \in 1..n : q[i] \in SlotRange
  /\ DOMAIN nodes_ = {q[i][1] : i \in 1..n}
  /\ \A i \in 1..n : nodes_[q[i][1]] = [last |-> q[i][2], conn |-> i]

LEMMA RangesAreSlots ==
  ASSUME NEW r \in SlotRange
  PROVE  r[1] \in Slot /\ r[2] \in Slot /\ r[1] \in Nat /\ r[2] \in Nat /\ r[1] <= r[2]
         /\ r # Malformed
<1>1. r \in Slot \X Slot /\ r[1] <= r[2] /\ Slot \subseteq Nat
  BY SetupAssumption, SlotAssumption
<1>2. r # <<>>
  BY <1>1
<1> QED
  BY <1>1, <1>2 DEF Malformed

(* The search finds the connection of the range that holds the slot, and   *)
(* nothing when no range does.                                             *)
LEMMA SearchFindsOwner ==
  ASSUME NEW nodes_, NEW q, NEW n \in Nat, Holds(nodes_, q, n),
         \A i, j \in 1..n : i # j => q[i][2] < q[j][1] \/ q[j][2] < q[i][1],
         NEW slot \in Slot
  PROVE  LET owner == {i \in 1..n : q[i][1] <= slot /\ slot <= q[i][2]}
             node == searchBySlots(nodes_, slot)
         IN IF owner = {} THEN node = NotFound
            ELSE node # NotFound /\ nodes_[node].conn \in owner
<1> DEFINE owner == {i \in 1..n : q[i][1] <= slot /\ slot <= q[i][2]}
           p == Position(nodes_, slot)
<1>1. \A i \in 1..n : /\ q[i][1] \in Nat /\ q[i][2] \in Nat /\ q[i][1] <= q[i][2]
                      /\ q[i][1] \in Slot
  BY RangesAreSlots DEF Holds
<1>2. DOMAIN nodes_ \subseteq Slot /\ slot \in Nat /\ NotFound \notin Nat
  BY <1>1, SlotAssumption DEF Holds
<1> HIDE DEF p
<1>3. CASE \A s \in DOMAIN nodes_ : ~(s <= slot)
  <2>1. p = NotFound \/ (p \in Nat /\ p > slot)
    BY <1>2, <1>3, PositionAbove DEF p
  <2>2. searchBySlots(nodes_, slot) = NotFound
    BY <2>1 DEF searchBySlots, p
  <2>3. owner = {}
    BY <1>3 DEF Holds
  <2> QED
    BY <2>2, <2>3
<1>4. CASE \E s \in DOMAIN nodes_ : s <= slot
  <2>1. p \in DOMAIN nodes_ /\ p <= slot /\ \A u \in DOMAIN nodes_ : u <= slot => u <= p
    BY <1>2, <1>4, PositionBelow DEF p
  <2>2. PICK i \in 1..n : p = q[i][1]
    BY <2>1 DEF Holds
  <2>3. nodes_[p].last = q[i][2] /\ nodes_[p].conn = i
    <3>1. nodes_[q[i][1]] = [last |-> q[i][2], conn |-> i]
      BY DEF Holds
    <3> QED
      BY <2>2, <3>1
  <2>4. \A j \in owner : j = i
    <3> SUFFICES ASSUME NEW j \in 1..n, q[j][1] <= slot, slot <= q[j][2], j # i
                 PROVE  FALSE
      OBVIOUS
    <3>1. q[j][1] <= q[i][1]
      BY <2>1, <2>2 DEF Holds
    <3>2. q[j][2] < q[i][1] \/ q[i][2] < q[j][1]
      OBVIOUS
    <3> QED
      BY <1>1, <1>2, <2>1, <2>2, <3>1, <3>2
  <2>5. p \in Nat
    BY <1>1, <2>2
  <2>6. CASE q[i][2] < slot
    <3>1. searchBySlots(nodes_, slot) = NotFound
      BY <2>3, <2>6 DEF searchBySlots, p
    <3>2. owner = {}
      BY <1>1, <1>2, <2>4, <2>6
    <3> QED
      BY <3>1, <3>2
  <2>7. CASE ~(q[i][2] < slot)
    <3>1. searchBySlots(nodes_, slot) = p
      BY <1>2, <2>1, <2>3, <2>5, <2>7 DEF searchBySlots, p
    <3>2. i \in owner
      BY <1>1, <1>2, <2>1, <2>2, <2>7
    <3> QED
      BY <1>2, <2>3, <2>5, <3>1, <3>2
  <2> QED
    BY <2>6, <2>7
<1> QED
  BY <1>3, <1>4

-----------------------------------------------------------------------------
(* The invariant.                                                          *)

(* The reply that init() reads: at most MaxNodes elements, or something    *)
(* that is no array.                                                       *)
Answer ==
  /\ Disjoint(elements)
  /\ Len(elements) <= MaxNodes \/ elements = <<Malformed>>

(* Who holds the context, the container and the reply at each place.       *)
Held ==
  /\ pc \in {"query", "checked", "init"} => con = "open"
  /\ pc \in {"ready", "deleted"} => con = "freed"
  /\ pc \in {"init", "ready"} => container = "held"
  /\ pc = "deleted" => container = "freed"
  /\ pc \in {"start", "query"} => reply = "none"
  /\ pc \in {"checked", "init"} => reply = "held"
  /\ pc \in {"ready", "deleted"} => reply = "freed"
  /\ reply # "freedTwice"
  /\ pc = "thrown" /\ reply = "held" =>
       next <= Len(elements) /\ elements[next] # Malformed

(* The loop of init(): the elements before next are in the map, each with  *)
(* the connection made for it, and no connection has been made for others. *)
Loaded ==
  /\ pc \in {"start", "query", "checked"} =>
       next = 1 /\ DOMAIN nodes = {} /\ \A i \in Node : status[i] = "none"
  /\ pc \in {"init", "ready"} =>
       next <= Len(elements) + 1 /\ Holds(nodes, elements, next - 1)
  /\ pc = "init" => \A i \in Node : status[i] = IF i < next THEN "open" ELSE "none"
  /\ pc = "ready" =>
       /\ next = Len(elements) + 1
       /\ \A i \in Node : \/ status[i] = "open" /\ i < next
                          \/ status[i] = "none"
                          \/ status[i] = "lost" /\ client = "async"
  /\ pc = "deleted" => \A i \in Node : status[i] \in {"none", "freed"}

Searched ==
  /\ pc \in {"start", "query", "checked", "init"} => asked = NoKey
  /\ pc = "ready" /\ asked # NoKey => found = searchBySlots(nodes, SlotOf[asked])

IInv == TypeOK /\ Answer /\ Held /\ Loaded /\ Searched

LEMMA InitIInv == Init => IInv
<1> SUFFICES ASSUME Init PROVE IInv
  OBVIOUS
<1>1. DOMAIN nodes = {} /\ DOMAIN elements = {} /\ Len(elements) = 0 /\ pc = "start"
  BY DEF Init, NoNodes
<1>2. TypeOK
  <2>1. elements \in Seq(SlotRange \cup {Malformed}) /\ next \in 1..(MaxNodes + 1)
    BY SetupAssumption DEF Init
  <2>2. status \in [Node -> {"none", "open", "leaked", "lost", "freed"}]
    BY DEF Init
  <2> QED
    BY <1>1, <2>1, <2>2 DEF Init, TypeOK, Memory
<1>3. Answer
  BY <1>1, SetupAssumption DEF Answer, Disjoint
<1>4. Held
  BY DEF Init, Held
<1>5. Loaded /\ Searched
  BY <1>1 DEF Init, Loaded, Searched
<1> QED
  BY <1>2, <1>3, <1>4, <1>5 DEF IInv

(* createCluster up to the constructor.                                    *)
LEMMA ConnectKeeps == IInv /\ Connect => IInv'
<1> SUFFICES ASSUME IInv, Connect PROVE IInv'
  OBVIOUS
<1>1. /\ pc = "start" /\ pc' \in {"query", "thrown"} /\ reply' = reply
      /\ con' \in {"none", "open", "leaked"} /\ (pc' = "query" => con' = "open")
      /\ UNCHANGED <<client, elements, next, cc, pcluster, container, nodes,
                     status, asked, found, crashed>>
  BY DEF Connect, Throw
<1>2. TypeOK' /\ Answer'
  BY <1>1 DEF IInv, TypeOK, Answer
<1>3. Held'
  BY <1>1 DEF IInv, Held
<1>4. Loaded' /\ Searched'
  BY <1>1 DEF IInv, Loaded, Searched
<1> QED
  BY <1>2, <1>3, <1>4 DEF IInv

LEMMA QueryKeeps == IInv /\ Query => IInv'
<1> SUFFICES ASSUME IInv, Query PROVE IInv'
  OBVIOUS
<1>1. /\ pc = "query" /\ pc' \in {"query", "checked", "thrown"}
      /\ reply' = CASE pc' = "query" -> reply [] pc' = "checked" -> "held"
                    [] pc' = "thrown" -> "freed"
      /\ elements' = elements \/ elements' \in SlotsReply \cup {<<Malformed>>}
      /\ crashed' \in {crashed, "nullReply"}
      /\ UNCHANGED <<client, con, next, cc, pcluster, container, nodes, status,
                     asked, found>>
  BY DEF Query, Freed
<1>2. Disjoint(elements') /\ (Len(elements') <= MaxNodes \/ elements' = <<Malformed>>)
      /\ elements' \in Seq(SlotRange \cup {Malformed})
  <2>1. CASE elements' = elements
    BY <2>1 DEF IInv, Answer, TypeOK
  <2>2. CASE elements' \in SlotsReply
    <3>1. PICK n \in 0..MaxNodes : elements' \in [1..n -> SlotRange \cup {Malformed}]
      BY <2>2 DEF SlotsReply
    <3> QED
      BY <2>2, <3>1, SetupAssumption DEF SlotsReply
  <2>3. CASE elements' = <<Malformed>>
    BY <2>3 DEF Disjoint
  <2> QED
    BY <1>1, <2>1, <2>2, <2>3
<1>3. TypeOK' /\ Answer'
  BY <1>1, <1>2 DEF IInv, TypeOK, Answer, Memory
<1>4. Held'
  BY <1>1 DEF IInv, Held
<1>5. Loaded' /\ Searched'
  BY <1>1 DEF IInv, Loaded, Searched
<1> QED
  BY <1>3, <1>4, <1>5 DEF IInv

LEMMA ConstructKeeps == IInv /\ Construct => IInv'
<1> SUFFICES ASSUME IInv, Construct PROVE IInv'
  OBVIOUS
<1>1. /\ pc = "checked" /\ pc' \in {"init", "thrown"} /\ container' = "held"
      /\ cc' \in {cc, "held"}
      /\ UNCHANGED <<client, con, elements, next, pcluster, nodes, status, asked,
                     found, crashed>>
  BY DEF Construct, Throw
<1>2. reply = "held" /\ reply' = IF pc' = "thrown" THEN "freed" ELSE "held"
  BY DEF Construct, Throw, Freed, IInv, Held
<1>3. TypeOK' /\ Answer'
  BY <1>1, <1>2 DEF IInv, TypeOK, Answer, Memory
<1>4. Held'
  BY <1>1, <1>2 DEF IInv, Held
<1>5. Holds(nodes, elements, 0) /\ next = 1 /\ Len(elements) \in Nat
  BY <1>1 DEF IInv, Loaded, Holds, TypeOK
<1>6. Loaded'
  <2>1. \A i \in Node : i < 1 <=> FALSE
    BY DEF Node
  <2> QED
    BY <1>1, <1>5, <2>1 DEF IInv, Loaded
<1>7. Searched'
  BY <1>1 DEF IInv, Searched
<1> QED
  BY <1>3, <1>4, <1>6, <1>7 DEF IInv

(* init().                                                                 *)
LEMMA InitMalformedKeeps == IInv /\ InitMalformed => IInv'
<1> SUFFICES ASSUME IInv, InitMalformed PROVE IInv'
  OBVIOUS
<1>1. /\ pc = "init" /\ pc' = "thrown" /\ reply = "held" /\ reply' = "freed"
      /\ UNCHANGED <<client, con, elements, next, cc, pcluster, container, nodes,
                     status, asked, found, crashed>>
  BY DEF InitMalformed, InLoop, Throw, Freed, IInv, Held
<1> QED
  BY <1>1 DEF IInv, TypeOK, Answer, Held, Loaded, Searched, Memory

(* The element that the loop is at is a range, and there is a connection   *)
(* to number it with.                                                      *)
LEMMA InLoopElement ==
  ASSUME IInv, InLoop, elements[next] # Malformed
  PROVE  elements[next] \in SlotRange /\ next \in Node /\ next \in DOMAIN elements
<1>1. elements \in Seq(SlotRange \cup {Malformed}) /\ next \in 1..(MaxNodes + 1)
      /\ next <= Len(elements) /\ MaxNodes \in Nat
  BY SetupAssumption DEF IInv, TypeOK, InLoop
<1>2. next \in DOMAIN elements
  BY <1>1
<1>3. next <= MaxNodes
  <2>1. CASE elements = <<Malformed>>
    BY <1>1, <2>1
  <2>2. CASE Len(elements) <= MaxNodes
    BY <1>1, <2>2
  <2> QED
    BY <2>1, <2>2 DEF IInv, Answer
<1> QED
  BY <1>1, <1>2, <1>3 DEF Node

LEMMA InsertFailsKeeps == IInv /\ InsertFails => IInv'
<1> SUFFICES ASSUME IInv, InsertFails PROVE IInv'
  OBVIOUS
<1>1. next \in Node /\ pc = "init" /\ next <= Len(elements) /\ elements[next] # Malformed
  BY InLoopElement DEF InsertFails, InLoop
<1>2. /\ pc' = "thrown" /\ reply' = reply
      /\ \E left \in {"none", "leaked"} : status' = [status EXCEPT ![next] = left]
      /\ UNCHANGED <<client, con, elements, next, cc, pcluster, container, nodes,
                     asked, found, crashed>>
  BY DEF InsertFails, Throw
<1>3. TypeOK'
  BY <1>1, <1>2 DEF IInv, TypeOK
<1> QED
  BY <1>1, <1>2, <1>3 DEF IInv, Answer, Held, Loaded, Searched

(* The map grows by the range of the element: no other begins where it     *)
(* does, so insert() does not ignore it.                                   *)
LEMMA InsertedHolds ==
  ASSUME NEW n \in Nat, Holds(nodes, elements, n), Disjoint(elements),
         1..(n + 1) \subseteq DOMAIN elements, elements[n + 1] \in SlotRange
  PROVE  Holds(Inserted(nodes, elements[n + 1], n + 1), elements, n + 1)
<1> DEFINE r == elements[n + 1]
           after == Inserted(nodes, r, n + 1)
<1>1. \A i \in 1..(n + 1) : i \in 1..n \/ i = n + 1
  OBVIOUS
<1>2. \A i \in 1..(n + 1) :
        /\ elements[i] \in SlotRange /\ elements[i] # Malformed
        /\ elements[i][1] \in Nat /\ elements[i][2] \in Nat
        /\ elements[i][1] <= elements[i][2]
  BY <1>1, RangesAreSlots DEF Holds
<1>3. \A i \in 1..n : elements[i][1] # r[1]
  <2> SUFFICES ASSUME NEW i \in 1..n, elements[i][1] = r[1] PROVE FALSE
    OBVIOUS
  <2>1. elements[i][2] < r[1] \/ r[2] < elements[i][1]
    BY <1>2 DEF Disjoint
  <2> QED
    BY <1>2, <2>1
<1>4. r[1] \notin DOMAIN nodes
  BY <1>3 DEF Holds
<1>5. /\ DOMAIN after = DOMAIN nodes \cup {r[1]}
      /\ after[r[1]] = [last |-> r[2], conn |-> n + 1]
      /\ \A s \in DOMAIN nodes : after[s] = nodes[s]
  BY <1>4 DEF Inserted
<1> HIDE DEF after
<1>6. DOMAIN after = {elements[i][1] : i \in 1..(n + 1)}
  BY <1>1, <1>5 DEF Holds
<1>7. ASSUME NEW i \in 1..(n + 1)
      PROVE  after[elements[i][1]] = [last |-> elements[i][2], conn |-> i]
  <2>1. CASE i = n + 1
    BY <1>5, <2>1
  <2>2. CASE i \in 1..n
    <3>1. elements[i][1] \in DOMAIN nodes
      BY <2>2 DEF Holds
    <3>2. nodes[elements[i][1]] = [last |-> elements[i][2], conn |-> i]
      BY <2>2 DEF Holds
    <3>3. after[elements[i][1]] = nodes[elements[i][1]]
      BY <1>5, <3>1
    <3> QED
      BY <3>2, <3>3
  <2> QED
    BY <1>1, <2>1, <2>2
<1> QED
  BY <1>2, <1>6, <1>7 DEF Holds, after

(* The values of the map are what its type says.                           *)
LEMMA HoldsTyped ==
  ASSUME NEW nodes_, NEW q, NEW n \in 0..MaxNodes, Holds(nodes_, q, n)
  PROVE  /\ DOMAIN nodes_ \subseteq Slot
         /\ \A s \in DOMAIN nodes_ : nodes_[s] \in [last : Slot, conn : Node]
<1>1. \A i \in 1..n : q[i][1] \in Slot /\ q[i][2] \in Slot /\ i \in Node
  BY RangesAreSlots, SetupAssumption DEF Holds, Node
<1>2. ASSUME NEW s \in DOMAIN nodes_
      PROVE  nodes_[s] \in [last : Slot, conn : Node]
  <2>1. PICK i \in 1..n : s = q[i][1]
    BY <1>2 DEF Holds
  <2>2. nodes_[q[i][1]] = [last |-> q[i][2], conn |-> i]
    BY DEF Holds
  <2> QED
    BY <1>1, <2>1, <2>2
<1> QED
  BY <1>1, <1>2 DEF Holds

LEMMA InsertKeeps == IInv /\ Insert => IInv'
<1> SUFFICES ASSUME IInv, Insert PROVE IInv'
  OBVIOUS
<1>1. /\ pc = "init" /\ next <= Len(elements)
      /\ status' = [status EXCEPT ![next] = "open"]
      /\ nodes' = Inserted(nodes, elements[next], next)
      /\ next' = next + 1
      /\ UNCHANGED <<client, pc, con, reply, elements, cc, pcluster, container,
                     asked, found, crashed>>
  BY DEF Insert, InLoop
<1>2. elements[next] \in SlotRange /\ next \in Node /\ next \in DOMAIN elements
  BY InLoopElement DEF Insert
<1>3. elements \in Seq(SlotRange \cup {Malformed}) /\ MaxNodes \in Nat
      /\ status \in [Node -> {"none", "open", "leaked", "lost", "freed"}]
  BY SetupAssumption DEF IInv, TypeOK
<1>4. PICK n \in Nat : next = n + 1 /\ n = next - 1 /\ n + 1 <= MaxNodes
                       /\ next' - 1 = n + 1
  BY <1>1, <1>2, <1>3 DEF Node
<1>5. Holds(nodes', elements, n + 1)
  <2>1. Holds(nodes, elements, n) /\ Disjoint(elements)
    BY <1>1, <1>4 DEF IInv, Loaded, Answer
  <2>2. 1..(n + 1) \subseteq DOMAIN elements
    BY <1>1, <1>3, <1>4
  <2> QED
    BY <1>1, <1>2, <1>4, <2>1, <2>2, InsertedHolds
<1>6. TypeOK'
  <2>1. n + 1 \in 0..MaxNodes /\ next' \in 1..(MaxNodes + 1)
    BY <1>1, <1>3, <1>4
  <2>2. /\ DOMAIN nodes' \subseteq Slot
        /\ \A s \in DOMAIN nodes' : nodes'[s] \in [last : Slot, conn : Node]
    <3> DEFINE now == nodes'
    <3>1. Holds(now, elements, n + 1)
      BY <1>5
    <3> HIDE DEF now
    <3>2. /\ DOMAIN now \subseteq Slot
          /\ \A s \in DOMAIN now : now[s] \in [last : Slot, conn : Node]
      BY <2>1, <3>1, HoldsTyped
    <3> QED
      BY <3>2 DEF now
  <2>3. status' \in [Node -> {"none", "open", "leaked", "lost", "freed"}]
    BY <1>1, <1>2, <1>3
  <2>4. UNCHANGED <<client, pc, con, reply, elements, cc, pcluster, container,
                    asked, found, crashed>>
    BY <1>1
  <2> QED
    BY <2>1, <2>2, <2>3, <2>4 DEF IInv, TypeOK
<1>7. Answer' /\ Held' /\ Searched'
  BY <1>1 DEF IInv, Answer, Held, Searched
<1>8. Loaded'
  <2>1. next' <= Len(elements) + 1
    BY <1>1, <1>3, <1>4
  <2>2. \A i \in Node : status'[i] = IF i < next + 1 THEN "open" ELSE "none"
    <3> SUFFICES ASSUME NEW i \in Node
                 PROVE  status'[i] = IF i < next + 1 THEN "open" ELSE "none"
      OBVIOUS
    <3>1. status[i] = IF i < next THEN "open" ELSE "none"
      BY <1>1 DEF IInv, Loaded
    <3> QED
      BY <1>1, <1>2, <1>3, <3>1 DEF Node
  <2>3. pc' = "init" /\ elements' = elements
    BY <1>1
  <2>4. Holds(nodes', elements', next' - 1)
    BY <1>4, <1>5, <2>3
  <2>5. next' <= Len(elements') + 1 /\ \A i \in Node : status'[i] = IF i < next' THEN "open" ELSE "none"
    BY <1>1, <2>1, <2>2, <2>3
  <2> QED
    BY <2>3, <2>4, <2>5 DEF Loaded
<1> QED
  BY <1>6, <1>7, <1>8 DEF IInv

(* Every connection made is in the map.                                    *)
LEMMA MadeIsMapped ==
  ASSUME NEW nodes_, NEW q, NEW n \in Nat, Holds(nodes_, q, n), NEW i \in 1..n
  PROVE  \E s \in DOMAIN nodes_ : nodes_[s].conn = i
<1>1. q[i][1] \in DOMAIN nodes_
  BY DEF Holds
<1>2. nodes_[q[i][1]] = [last |-> q[i][2], conn |-> i]
  BY DEF Holds
<1> QED
  BY <1>1, <1>2

LEMMA ReturnKeeps == IInv /\ Return => IInv'
<1> SUFFICES ASSUME IInv, Return PROVE IInv'
  OBVIOUS
<1>1. /\ pc = "init" /\ next > Len(elements) /\ pc' = "ready"
      /\ pcluster' = (client = "async") /\ con' = "freed"
      /\ UNCHANGED <<client, elements, next, cc, container, nodes, status, asked,
                     found, crashed>>
  BY DEF Return
<1>2. reply = "held" /\ reply' = "freed"
  BY DEF Return, Freed, IInv, Held
<1>3. next \in Nat /\ Len(elements) \in Nat /\ next <= Len(elements) + 1
  BY <1>1 DEF IInv, Loaded, TypeOK
<1>4. next = Len(elements) + 1
  BY <1>1, <1>3
<1>5. TypeOK' /\ Answer'
  BY <1>1, <1>2 DEF IInv, TypeOK, Answer, Memory
<1>6. Held'
  BY <1>1, <1>2 DEF IInv, Held
<1>7. Loaded' /\ Searched'
  BY <1>1, <1>4 DEF IInv, Loaded, Searched
<1> QED
  BY <1>5, <1>6, <1>7 DEF IInv

(* The cluster in use.                                                     *)

(* What the search gives is an owner's first slot or NotFound.             *)
LEMMA SearchTyped ==
  ASSUME NEW nodes_, DOMAIN nodes_ \subseteq Slot, NEW index \in Slot
  PROVE  searchBySlots(nodes_, index) \in Slot \cup {NotFound}
<1> DEFINE p == Position(nodes_, index)
<1>1. CASE \E s \in DOMAIN nodes_ : s <= index
  <2>1. p \in DOMAIN nodes_
    BY <1>1, PositionBelow
  <2> QED
    BY <2>1 DEF searchBySlots
<1>2. CASE \A s \in DOMAIN nodes_ : ~(s <= index)
  <2>1. p = NotFound \/ (p \in Nat /\ p > index)
    BY <1>2, PositionAbove
  <2> QED
    BY <2>1 DEF searchBySlots
<1> QED
  BY <1>1, <1>2

LEMMA GetConnectionKeeps ==
  ASSUME IInv, NEW k \in Key, GetConnection(k)
  PROVE  IInv'
<1>1. /\ pc = "ready" /\ asked' = k /\ found' = searchBySlots(nodes, SlotOf[k])
      /\ UNCHANGED <<client, pc, con, reply, elements, next, cc, pcluster,
                     container, nodes, status, crashed>>
  BY DEF GetConnection
<1>2. found' \in Slot \cup {NotFound}
  <2>1. SlotOf[k] \in Slot /\ DOMAIN nodes \subseteq Slot
    BY SetupAssumption DEF IInv, TypeOK
  <2> QED
    BY <1>1, <2>1, SearchTyped
<1>3. TypeOK' /\ Answer' /\ Held'
  BY <1>1, <1>2 DEF IInv, TypeOK, Answer, Held
<1>4. Loaded' /\ Searched'
  BY <1>1 DEF IInv, Loaded, Searched
<1> QED
  BY <1>3, <1>4 DEF IInv

LEMMA DisconnectCbKeeps ==
  ASSUME IInv, NEW i \in Node, DisconnectCb(i)
  PROVE  IInv'
<1>1. /\ client = "async" /\ pc \in {"ready", "thrown"}
      /\ status' = status \/ status' = [status EXCEPT ![i] = "lost"]
      /\ crashed' \in {crashed, "nullCluster"}
      /\ UNCHANGED <<client, pc, con, reply, elements, next, cc, pcluster,
                     container, nodes, asked, found>>
  BY DEF DisconnectCb
<1>2. TypeOK'
  BY <1>1 DEF IInv, TypeOK
<1>3. \A j \in Node : status'[j] = status[j] \/ status'[j] = "lost"
  BY <1>1 DEF IInv, TypeOK
<1> QED
  BY <1>1, <1>2, <1>3 DEF IInv, Answer, Held, Loaded, Searched

LEMMA DeleteKeeps == IInv /\ Delete => IInv'
<1> SUFFICES ASSUME IInv, Delete PROVE IInv'
  OBVIOUS
<1>1. /\ pc = "ready" /\ client # "async" /\ pc' = "deleted"
      /\ status' = [i \in Node |->
           IF \E s \in DOMAIN nodes : nodes[s].conn = i THEN "freed" ELSE status[i]]
      /\ nodes' = NoNodes
      /\ UNCHANGED <<client, con, reply, elements, next, cc, pcluster, asked, found,
                     crashed>>
  BY DEF Delete
<1>2. container' = "freed" /\ DOMAIN nodes' = {}
  BY <1>1 DEF Delete, Freed, IInv, Held, NoNodes
<1>3. \A i \in Node : status'[i] \in {"none", "freed"}
  <2> SUFFICES ASSUME NEW i \in Node PROVE status'[i] \in {"none", "freed"}
    OBVIOUS
  <2>1. next \in Nat /\ next - 1 \in Nat /\ i \in Nat /\ i >= 1
    BY DEF IInv, TypeOK, Node
  <2>2. Holds(nodes, elements, next - 1)
    BY <1>1 DEF IInv, Loaded
  <2>3. status[i] = "none" \/ (status[i] = "open" /\ i < next)
    BY <1>1 DEF IInv, Loaded
  <2>4. CASE status[i] = "none"
    BY <1>1, <2>4
  <2>5. CASE i < next
    <3>1. i \in 1..(next - 1)
      BY <2>1, <2>5
    <3>2. \E s \in DOMAIN nodes : nodes[s].conn = i
      BY <2>1, <2>2, <3>1, MadeIsMapped
    <3> QED
      BY <1>1, <3>2
  <2> QED
    BY <2>3, <2>4, <2>5
<1>4. TypeOK'
  <2>1. status' \in [Node -> {"none", "open", "leaked", "lost", "freed"}]
    BY <1>1, <1>3
  <2> QED
    BY <1>1, <1>2, <2>1 DEF IInv, TypeOK, Memory
<1>5. Answer' /\ Held' /\ Searched'
  BY <1>1, <1>2 DEF IInv, Answer, Held, Searched
<1>6. Loaded'
  BY <1>1, <1>3 DEF Loaded
<1> QED
  BY <1>4, <1>5, <1>6 DEF IInv

LEMMA NextIInv == IInv /\ [Next]_vars => IInv'
<1> SUFFICES ASSUME IInv, [Next]_vars PROVE IInv'
  OBVIOUS
<1>1. CASE UNCHANGED vars
  BY <1>1 DEF vars, IInv, TypeOK, Answer, Held, Loaded, Searched
<1>2. CASE Connect \/ Query \/ Construct
  BY <1>2, ConnectKeeps, QueryKeeps, ConstructKeeps
<1>3. CASE InitMalformed \/ Insert \/ InsertFails \/ Return
  BY <1>3, InitMalformedKeeps, InsertKeeps, InsertFailsKeeps, ReturnKeeps
<1>4. ASSUME NEW k \in Key, GetConnection(k) PROVE IInv'
  BY <1>4, GetConnectionKeeps
<1>5. ASSUME NEW i \in Node, DisconnectCb(i) PROVE IInv'
  BY <1>5, DisconnectCbKeeps
<1>6. CASE Delete
  BY <1>6, DeleteKeeps
<1> QED
  BY <1>1, <1>2, <1>3, <1>4, <1>5, <1>6 DEF Next

(* The invariant, which every theorem below rests on.                      *)
THEOREM Invariance == Spec => []IInv
BY InitIInv, NextIInv, PTL DEF Spec

-----------------------------------------------------------------------------
(* The theorems.                                                           *)

(* The variables have their types.                                         *)
THEOREM TypeCorrect == Spec => []TypeOK
<1>1. IInv => TypeOK
  BY DEF IInv
<1> QED
  BY <1>1, Invariance, PTL

(* The reply to "cluster slots" is never freed twice, is freed when a      *)
(* cluster is returned, and is left behind only by a connect that fails    *)
(* inside init().                                                          *)
THEOREM SlotsReplyFreed == Spec => []ReplyFreedOnce
<1>1. IInv => ReplyFreedOnce
  BY DEF IInv, Held, ReplyFreedOnce
<1> QED
  BY <1>1, Invariance, PTL

(* The cluster that createCluster returns owns every connection made for   *)
(* it, and the destructor of the blocking client frees them all.           *)
THEOREM ClusterOwns == Spec => []OwnedByCluster
<1>1. IInv => OwnedByCluster
  <2> SUFFICES ASSUME IInv PROVE OwnedByCluster
    OBVIOUS
  <2>1. ASSUME pc = "ready", NEW i \in Node, status[i] = "open"
        PROVE  \E s \in DOMAIN nodes : nodes[s].conn = i
    <3>1. next - 1 \in Nat /\ i \in 1..(next - 1)
      BY <2>1 DEF IInv, TypeOK, Loaded, Node
    <3> QED
      BY <2>1, <3>1, MadeIsMapped DEF IInv, Loaded
  <2> QED
    BY <2>1 DEF IInv, Held, Loaded, OwnedByCluster
<1> QED
  BY <1>1, Invariance, PTL

(* getConnection gives the connection of the range that holds the slot of  *)
(* the key and throws when there is none, whatever the ranges and their    *)
(* order in the reply.                                                     *)
THEOREM Routing == Spec => []RoutedToOwner
<1>1. IInv => RoutedToOwner
  <2> SUFFICES ASSUME IInv, pc = "ready", asked # NoKey PROVE RoutedToOwner
    BY DEF RoutedToOwner
  <2> DEFINE slot == SlotOf[asked]
             n == next - 1
  <2>1. slot \in Slot
    BY SetupAssumption DEF IInv, TypeOK
  <2>2. n \in Nat /\ DOMAIN elements = 1..n /\ Holds(nodes, elements, n)
    BY DEF IInv, TypeOK, Loaded
  <2>3. \A i, j \in 1..n : i # j =>
          elements[i][2] < elements[j][1] \/ elements[j][2] < elements[i][1]
    <3>1. \A i \in 1..n : elements[i] # Malformed
      BY <2>2, RangesAreSlots DEF Holds
    <3> QED
      BY <2>2, <3>1 DEF IInv, Answer, Disjoint
  <2>4. found = searchBySlots(nodes, slot)
    BY DEF IInv, Searched
  <2> HIDE DEF slot, n
  <2>5. LET owner == {i \in 1..n : elements[i][1] <= slot /\ slot <= elements[i][2]}
        IN IF owner = {} THEN found = NotFound
           ELSE found # NotFound /\ nodes[found].conn \in owner
    BY <2>1, <2>2, <2>3, <2>4, SearchFindsOwner
  <2> QED
    BY <2>2, <2>5 DEF RoutedToOwner, slot
<1> QED
  BY <1>1, Invariance, PTL

(* The slot the library looks up for a key is the slot of the cluster      *)
(* specification, for keys of any length and any bytes.                    *)
THEOREM SlotsAreStandard == Spec => []SlotIsStandard
<1>1. IInv => SlotIsStandard
  <2> SUFFICES ASSUME IInv, asked # NoKey PROVE SlotOf[asked] = StandardSlot[asked]
    BY DEF SlotIsStandard
  <2>1. asked \in Key
    BY DEF IInv, TypeOK
  <2>2. SlotByKey(asked) = KeySlot(asked)
    BY <2>1, RoutingAssumption, SlotByKeyIsKeySlot
  <2>3. SlotOf[asked] = SlotByKey(asked) /\ StandardSlot[asked] = KeySlot(asked)
    BY <2>1, RoutingAssumption
  <2> QED
    BY <2>2, <2>3
<1> QED
  BY <1>1, Invariance, PTL
=============================================================================
