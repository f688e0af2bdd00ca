---------------------------- MODULE ThreadedPool ----------------------------
(***************************************************************************)
(* The connection pool of src/src/examples/threadpool.cpp: a container for *)
(* the Cluster class that keeps, for every slot range (map nodes_) and for *)
(* every redirection host (map connections_), a std::queue of connections  *)
(* and a condition variable.  One mutex, conLock_, guards both maps.       *)
(*                                                                         *)
(* This module owns the state of the pool and gives its operations as      *)
(* parameterised actions; SyncCommand composes them with the threads that  *)
(* call them.  A critical section that does not sleep is one step.  The    *)
(* one that holds conLock_ over several steps, disconnect(), says so in    *)
(* the variable conLock.                                                   *)
(***************************************************************************)
EXTENDS Naturals, Sequences, FiniteSets

CONSTANTS
  Thread,      \* the threads that issue commands
  Main,        \* the thread that owns the cluster and tears it down
  SlotRange,   \* the keys of nodes_, numbered in the order of its comparator
  Host,        \* the keys ("host:port") of connections_, numbered likewise
  PoolSize,    \* poolSize_
  None         \* a NULL pointer

Key == SlotRange \cup Host

(* A pool is an object of its own: one under a key may be forgotten by the *)
(* map, in use, when another is made there.  connections_ is cleared once, *)
(* so insert() makes a first pool before and a second one after that.      *)
Made == {"first", "second"}
Pool == Key \X Made
Conn == Pool \X (1..PoolSize)

(* The node that a connection leads to.                                    *)
NodeOf(c) == c[1][1]

ASSUME PoolAssumption ==
  /\ PoolSize \in Nat \ {0}
  /\ Key \subseteq Nat
  /\ SlotRange \cap Host = {}
  /\ Main \notin Thread
  /\ None \notin Conn \cup Pool \cup Key \cup Thread
  /\ IsFiniteSet(Thread)

VARIABLES
  entry,     \* the map entry of a key: absent, a NULL pointer, or which pool
  queue,     \* the idle connections of a pool, oldest first
  sleeping,  \* the threads in the wait set of the pool's condition variable
  conLock    \* TRUE while Main keeps conLock_ from one step to the next

poolVars == <<entry, queue, sleeping, conLock>>

(* The entry of k points to a pool, the pool it points to, and a pool that *)
(* its key's entry points to.                                              *)
Live(k) == entry[k] \in Made
At(k) == <<k, entry[k]>>
Mapped(p) == entry[p[1]] = p[2]

PoolTypeOK ==
  /\ entry \in [Key -> {"absent", "null"} \cup Made]
  /\ queue \in [Pool -> Seq(Conn)]
  /\ sleeping \in [Pool -> SUBSET (Thread \cup {Main})]
  /\ conLock \in BOOLEAN

-----------------------------------------------------------------------------
(* Mutant: the loop of fillPool runs once too often.                      *)
FilledOneMore(p, n) == [i \in 1..(n + 1) |-> <<p, i>>]

(* The connections fillPool pushes when its first n connects succeed.      *)
Filled(p, n) == [i \in 1..n |-> <<p, i>>]

(* Cluster::init has inserted a pool for each slot range in covered; the   *)
(* "cluster slots" reply may leave slots to no node.                       *)
PoolInit(covered) ==
  /\ entry = [k \in Key |-> IF k \in covered THEN "first" ELSE "absent"]
  /\ queue = [p \in Pool |-> IF Mapped(p) THEN Filled(p, PoolSize) ELSE <<>>]
  /\ sleeping = [p \in Pool |-> {}]
  /\ conLock = FALSE

(* A worker's critical section can run.                                    *)
LockFree == ~conLock

(* Mutant: front() without pop().                                          *)
PullNoPop(p) == queue[p] # <<>> /\ UNCHANGED <<queue, sleeping>>

(* pullConnection with a connection at the front of the queue ...          *)
Pull(p) ==
  /\ queue[p] # <<>>
  /\ queue' = [queue EXCEPT ![p] = Tail(@)]
  /\ UNCHANGED sleeping

(* ... and with an empty queue: wait on the condition variable.            *)
Wait(t, p) ==
  /\ queue[p] = <<>>
  /\ sleeping' = [sleeping EXCEPT ![p] = @ \cup {t}]
  /\ UNCHANGED queue

(* The push of pushConnection; notify_one comes after the unlock.          *)
Push(p, c) == queue' = [queue EXCEPT ![p] = Append(@, c)]

(* Mutants: no notification; one only when the queue was empty before.     *)
NotifyNobody(p) == UNCHANGED sleeping
NotifyIfWasEmpty(p) ==
  IF Len(queue[p]) = 1 /\ sleeping[p] # {}
  THEN \E u \in sleeping[p] : sleeping' = [sleeping EXCEPT ![p] = @ \ {u}]
  ELSE UNCHANGED sleeping

(* notify_one: one sleeper, if there is one, leaves the wait set.          *)
NotifyOne(p) ==
  \/ /\ sleeping[p] = {}
     /\ UNCHANGED sleeping
  \/ \E u \in sleeping[p] : sleeping' = [sleeping EXCEPT ![p] = @ \ {u}]

(* A wait() may also return with no notification.                          *)
WakeSpuriously(t, p) ==
  /\ t \in sleeping[p]
  /\ sleeping' = [sleeping EXCEPT ![p] = @ \ {t}]
  /\ UNCHANGED <<entry, queue, conLock>>

(* Mutant: the caller's connection stays in the queue of the new pool.     *)
CreatePoolNoPop(p) ==
  /\ entry[p[1]] = "absent"
  /\ entry' = [entry EXCEPT ![p[1]] = p[2]]
  /\ queue' = [queue EXCEPT ![p] = Filled(p, PoolSize)]

(* insert(host, port) for a host that connections_ does not hold: the      *)
(* entry is there before fillPool connects, so a connect that fails after  *)
(* n successes leaves a pool of n connections behind.  A complete pool     *)
(* gives its first connection to the caller at once.                       *)
CreatePool(p) ==
  /\ entry[p[1]] = "absent"
  /\ entry' = [entry EXCEPT ![p[1]] = p[2]]
  /\ queue' = [queue EXCEPT ![p] = Tail(Filled(p, PoolSize))]

CreatePoolFails(p, n) ==
  /\ entry[p[1]] = "absent"
  /\ n \in 0..(PoolSize - 1)
  /\ entry' = [entry EXCEPT ![p[1]] = p[2]]
  /\ queue' = [queue EXCEPT ![p] = Filled(p, n)]

(* disconnect() deletes a pool it has drained, with its condition variable *)
(* and whoever sleeps there, and leaves NULL in the map.  cons.clear()     *)
(* removes every entry; a pool one of them still pointed to lives on.      *)
DeletePool(p) ==
  /\ entry' = [entry EXCEPT ![p[1]] = "null"]
  /\ queue' = [queue EXCEPT ![p] = <<>>]
  /\ sleeping' = [sleeping EXCEPT ![p] = {}]

ClearMap(keys) ==
  /\ entry' = [k \in Key |-> IF k \in keys THEN "absent" ELSE entry[k]]
=============================================================================
