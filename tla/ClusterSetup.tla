---------------------------- MODULE ClusterSetup ----------------------------
(***************************************************************************)
(* The life of a Cluster over a DefaultContainer in one thread:            *)
(* createCluster of either client, the constructor and init() of the       *)
(* cluster (cluster.h), the first insert() of the container, the search of *)
(* a node by key, and the destructor.  Every step may fail; what is left   *)
(* behind is part of the state.                                            *)
(*                                                                         *)
(* External: hiredis connects or fails, and answers "cluster slots" with   *)
(* an array, an error, something else, or, when the connection fails, with *)
(* NULL.  A range of an array begins no later than it ends, and ranges are *)
(* disjoint: a node keeps one owner per slot.                              *)
(***************************************************************************)
EXTENDS SlotMap, Sequences, FiniteSets

CONSTANTS
  Key,        \* the keys the program asks for
  NoKey,      \* no key
  SlotOf,     \* SlotHash::SlotByKey, as a function on Key
  SlotRange,      \* the <<first, last>> pairs a node may announce
  MaxNodes,   \* bound: elements of the reply to "cluster slots"
  Client      \* who calls createCluster; "null" passes a NULL function

ASSUME SetupAssumption ==
  /\ SlotOf \in [Key -> Slot]
  /\ SlotRange \subseteq Slot \X Slot /\ \A r \in SlotRange : r[1] <= r[2]
  /\ MaxNodes \in Nat
  /\ Client \subseteq {"sync", "async", "null"}
  /\ NoKey \notin Key

VARIABLES
  client,     \* which createCluster runs, with which connect function
  pc,         \* where it is
  con,        \* the context that asks for "cluster slots"
  reply,      \* the memory of its reply
  elements,   \* the elements of the reply
  next,       \* the i of the loop in init()
  cc,         \* the ConnectContext of the asynchronous client
  pcluster,   \* TRUE when cc->pcluster is set
  container,  \* the memory of *connections_
  nodes,      \* nodes_ of the container
  status,     \* life of the connection made for an element
  asked,      \* the key of the last getConnection
  found,      \* what it found
  crashed     \* why the process has died of undefined behaviour

vars == <<client, pc, con, reply, elements, next, cc, pcluster, container,
          nodes, status, asked, found, crashed>>

(* An element init() cannot read: a wrong type or too few fields.          *)
Malformed == <<>>
Node == 1..MaxNodes

Disjoint(q) ==
  \A i, j \in DOMAIN q : i # j /\ q[i] # Malformed /\ q[j] # Malformed =>
    q[i][2] < q[j][1] \/ q[j][2] < q[i][1]

SlotsReply ==
  {q \in UNION {[1..n -> SlotRange \cup {Malformed}] : n \in 0..MaxNodes} : Disjoint(q)}

Memory == {"none", "held", "freed", "freedTwice"}
NoNodes == [s \in {} |-> {}]

TypeOK ==
  /\ client \in Client
  /\ pc \in {"start", "query", "checked", "init", "ready", "thrown", "deleted"}
  /\ con \in {"none", "open", "leaked", "freed"}
  /\ reply \in Memory /\ cc \in Memory /\ container \in Memory
  /\ elements \in Seq(SlotRange \cup {Malformed})
  /\ next \in 1..(MaxNodes + 1)
  /\ pcluster \in BOOLEAN
  /\ DOMAIN nodes \subseteq Slot
  /\ \A s \in DOMAIN nodes : nodes[s] \in [last : Slot, conn : Node]
  /\ status \in [Node -> {"none", "open", "leaked", "lost", "freed"}]
  /\ asked \in Key \cup {NoKey}
  /\ found \in Slot \cup {NotFound}
  /\ crashed \in {"no", "nullReply", "nullCluster"}

Init ==
  /\ client \in Client
  /\ pc = "start"
  /\ con = "none" /\ reply = "none" /\ cc = "none" /\ container = "none"
  /\ elements = <<>>
  /\ next = 1
  /\ pcluster = FALSE
  /\ nodes = NoNodes
  /\ status = [i \in Node |-> "none"]
  /\ asked = NoKey
  /\ found = NotFound
  /\ crashed = "no"

-----------------------------------------------------------------------------
(* createCluster up to the constructor.                                    *)

Freed(m) == IF m = "held" THEN "freed" ELSE "freedTwice"

(* Mutant: the base class does not free the reply it is given.             *)
ThrowKeepingReply(given) == pc' = "thrown" /\ reply' = reply

(* An exception leaves createCluster; the constructor of ClusterException  *)
(* frees the reply it is given.                                            *)
Throw(given) ==
  /\ pc' = "thrown"
  /\ reply' = IF given THEN Freed(reply) ELSE reply

(* A context with err set is allocated and nobody frees it.                *)
Connect ==
  /\ pc = "start"
  /\ \/ pc' = "query" /\ con' = "open" /\ UNCHANGED reply
     \/ \E left \in {"none", "leaked"} : con' = left /\ Throw(FALSE)
  /\ UNCHANGED <<client, elements, next, cc, pcluster, container, nodes,
                 status, asked, found, crashed>>

(* "cluster slots" and checkCritical(reply, true), which throws for an     *)
(* error and reads a NULL.  A reply that is no array is seen by init().    *)
Query ==
  /\ pc = "query"
  /\ \/ /\ pc' = "checked" /\ reply' = "held"
        /\ elements' \in SlotsReply \cup {<<Malformed>>}
        /\ UNCHANGED crashed
     \/ /\ pc' = "thrown" /\ reply' = Freed("held")
        /\ UNCHANGED <<elements, crashed>>
     \/ /\ crashed' = "nullReply"
        /\ UNCHANGED <<pc, reply, elements>>
  /\ UNCHANGED <<client, con, next, cc, pcluster, container, nodes, status,
                 asked, found>>

(* The constructor allocates the container before it tests the functions   *)
(* it was given; nothing deletes connections_ when it throws.              *)
Construct ==
  /\ pc = "checked"
  /\ cc' = IF client = "async" THEN "held" ELSE cc
  /\ container' = "held"
  /\ IF client = "null" THEN Throw(TRUE) ELSE pc' = "init" /\ UNCHANGED reply
  /\ UNCHANGED <<client, con, elements, next, pcluster, nodes, status, asked,
                 found, crashed>>

-----------------------------------------------------------------------------
(* init().                                                                 *)

InLoop == pc = "init" /\ next <= Len(elements)

InitMalformed ==
  /\ InLoop
  /\ elements[next] = Malformed
  /\ Throw(TRUE)
  /\ UNCHANGED <<client, con, elements, next, cc, pcluster, container, nodes,
                 status, asked, found, crashed>>

(* Mutant: the loop steps over an element.                                 *)
InsertSkips ==
  /\ InLoop
  /\ elements[next] # Malformed
  /\ status' = [status EXCEPT ![next] = "open"]
  /\ nodes' = Inserted(nodes, elements[next], next)
  /\ next' = next + 2
  /\ UNCHANGED <<client, pc, con, reply, elements, cc, pcluster, container,
                 asked, found, crashed>>

Insert ==
  /\ InLoop
  /\ elements[next] # Malformed
  /\ status' = [status EXCEPT ![next] = "open"]
  /\ nodes' = Inserted(nodes, elements[next], next)
  /\ next' = next + 1
  /\ UNCHANGED <<client, pc, con, reply, elements, cc, pcluster, container,
                 asked, found, crashed>>

(* A connect that fails leaves nothing behind (NULL, or a host that is not *)
(* in the socket table), or a context with err set, or one attachContext   *)
(* refused.                                                                *)
InsertFails ==
  /\ InLoop
  /\ elements[next] # Malformed
  /\ \E left \in {"none", "leaked"} : status' = [status EXCEPT ![next] = left]
  /\ Throw(FALSE)
  /\ UNCHANGED <<client, con, elements, next, cc, pcluster, container, nodes,
                 asked, found, crashed>>

(* Mutant: the context is not freed.                                       *)
ReturnKeepsCon ==
  /\ pc = "init" /\ next > Len(elements)
  /\ pc' = "ready"
  /\ pcluster' = (client = "async")
  /\ reply' = Freed(reply)
  /\ UNCHANGED <<client, con, elements, next, cc, container, nodes, status,
                 asked, found, crashed>>

(* readytouse_ is set, and createCluster returns the cluster.              *)
Return ==
  /\ pc = "init" /\ next > Len(elements)
  /\ pc' = "ready"
  /\ pcluster' = (client = "async")
  /\ reply' = Freed(reply)
  /\ con' = "freed"
  /\ UNCHANGED <<client, elements, next, cc, container, nodes, status, asked,
                 found, crashed>>

-----------------------------------------------------------------------------
(* The cluster in use.                                                     *)

GetConnection(k) ==
  /\ pc = "ready"
  /\ asked = NoKey
  /\ asked' = k
  /\ found' = searchBySlots(nodes, SlotOf[k])
  /\ UNCHANGED <<client, pc, con, reply, elements, next, cc, pcluster,
                 container, nodes, status, crashed>>

(* The loop runs after createCluster has returned or thrown, and hiredis   *)
(* loses a connection: disconnectCb goes through cc to the cluster, which  *)
(* erases the context from a copy of nodes_.                               *)
DisconnectCb(i) ==
  /\ client = "async"
  /\ pc \in {"ready", "thrown"}
  /\ status[i] = "open"
  /\ \/ pcluster /\ status' = [status EXCEPT ![i] = "lost"] /\ UNCHANGED crashed
     \/ ~pcluster /\ crashed' = "nullCluster" /\ UNCHANGED status
  /\ UNCHANGED <<client, pc, con, reply, elements, next, cc, pcluster,
                 container, nodes, asked, found>>

(* ~Cluster and ~DefaultContainer of the blocking client.  (AsyncCommand   *)
(* has the destruction of an asynchronous cluster.)                        *)
Delete ==
  /\ pc = "ready" /\ client # "async"
  /\ pc' = "deleted"
  /\ container' = Freed(container)
  /\ status' = [i \in Node |->
                  IF \E s \in DOMAIN nodes : nodes[s].conn = i THEN "freed" ELSE status[i]]
  /\ nodes' = NoNodes
  /\ UNCHANGED <<client, con, reply, elements, next, cc, pcluster, asked,
                 found, crashed>>

Next ==
  /\ crashed = "no"
  /\ \/ Connect \/ Query \/ Construct
     \/ InitMalformed \/ Insert \/ InsertFails \/ Return
     \/ \E k \in Key : GetConnection(k)
     \/ \E i \in Node : DisconnectCb(i)
     \/ Delete

Spec == Init /\ [][Next]_vars

-----------------------------------------------------------------------------
(* Properties.                                                             *)

(* The reply to "cluster slots" is passed from createCluster to the        *)
(* constructor and from there to exceptions that free it: it is never      *)
(* freed twice, it is freed when a cluster is returned, and it is left     *)
(* behind only by a connect that fails inside init().                      *)
ReplyFreedOnce ==
  /\ reply # "freedTwice"
  /\ pc = "ready" => reply = "freed"
  /\ pc = "thrown" /\ reply = "held" =>
       next <= Len(elements) /\ elements[next] # Malformed

(* What createCluster has made when it returns belongs to the cluster, and *)
(* goes with it: no connection is left to nobody, and none survives the    *)
(* destructor.  Only a createCluster that throws leaves something behind.  *)
OwnedByCluster ==
  /\ pc = "ready" =>
       /\ con = "freed" /\ container = "held"
       /\ \A i \in Node : status[i] = "open" => \E s \in DOMAIN nodes : nodes[s].conn = i
  /\ pc = "deleted" =>
       /\ con = "freed" /\ container = "freed"
       /\ \A i \in Node : status[i] \in {"none", "freed"}

(* getConnection gives the connection made for the element of the reply    *)
(* whose range holds the slot of the key, and throws when there is none,   *)
(* in whatever order the node listed its ranges and wherever they touch.   *)
RoutedToOwner ==
  pc = "ready" /\ asked # NoKey =>
    LET slot == SlotOf[asked]
        owner == {i \in DOMAIN elements : elements[i][1] <= slot /\ slot <= elements[i][2]}
    IN IF owner = {} THEN found = NotFound
       ELSE found # NotFound /\ nodes[found].conn \in owner
=============================================================================
