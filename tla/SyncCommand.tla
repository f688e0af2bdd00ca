---------------------------- MODULE SyncCommand -----------------------------
(***************************************************************************)
(* Threads that issue blocking commands through HiredisCommand::process()  *)
(* (include/hirediscommand.h) over a Cluster (include/cluster.h) whose     *)
(* connections live in a ThreadedPool, while the owner of the cluster may  *)
(* stop() and disconnect() it.                                             *)
(*                                                                         *)
(* process() makes up to two legs: the command on a connection of the key's*)
(* slot range and, if the reply redirects it, the command again (after an  *)
(* ASKING, for an ASK) on a connection of the host the reply names.  Each  *)
(* leg takes a connection, speaks on it, and gives it back.                *)
(*                                                                         *)
(* External: hiredis and the redis nodes.  A blocking call sends one       *)
(* request and reads the oldest outstanding reply; a connection that fails *)
(* keeps err set for good and redisGetReply leaves its out-parameter       *)
(* unwritten.  A node answers a command with any reply process()           *)
(* distinguishes.                                                          *)
(***************************************************************************)
EXTENDS ThreadedPool

CONSTANTS
  MaxCommands,   \* bound: commands one thread issues
  JoinFirst,     \* TRUE: Main joins the threads before it tears down
  Faults         \* which faults the environment may inject

ASSUME SyncAssumption ==
  /\ MaxCommands \in Nat
  /\ JoinFirst \in BOOLEAN
  /\ Faults \subseteq {"disconnect", "connect", "clusterdown", "asking"}

VARIABLES
  pc,        \* where a thread is in process()
  leg,       \* the leg it is on: "slot", "ASK" or "MOVED"
  key,       \* first of the SlotConnection/HostConnection pair it uses
  con,       \* second of that pair
  pool,      \* the pool pull- or pushConnection has a reference to
  reply,     \* its local reply; when idle, how its last command ended
  budget,    \* commands it may still issue
  err,       \* the err field of a connection
  wire,      \* the requests written to a connection and not yet answered
  asking,    \* the thread whose ASKING is in force on a connection
  ready,     \* readytouse_
  moved,     \* moved_
  phase,     \* progress of Main
  drain,     \* the pool at disconnect()'s iterator
  left,      \* connections of it still to be freed
  behind,    \* history: the pools inserted behind that iterator
  crashed    \* the process has died of undefined behaviour

threadVars == <<pc, leg, key, con, pool, reply, budget>>
netVars == <<err, wire, asking>>
mainVars == <<ready, phase, drain, left, behind>>
vars == <<poolVars, threadVars, netVars, mainVars, moved, crashed>>

Leg == {"none", "slot", "ASK", "MOVED"}
PC == {"idle", "getConnection", "insert", "pull", "send", "recv", "asking",
       "asked", "release", "notify", "dangling"}
Request == [by : Thread, what : {"command", "ASKING"}]
Reply == [kind : {"none", "READY", "ASK", "MOVED", "garbage", "exception"},
          host : Host \cup {None}]

Is(kind) == [kind |-> kind, host |-> None]

TypeOK ==
  /\ PoolTypeOK
  /\ pc \in [Thread -> PC]
  /\ leg \in [Thread -> Leg]
  /\ key \in [Thread -> Key \cup {None}]
  /\ con \in [Thread -> Conn \cup {None}]
  /\ pool \in [Thread -> Pool \cup {None}]
  /\ reply \in [Thread -> Reply]
  /\ budget \in [Thread -> 0..MaxCommands]
  /\ err \in [Conn -> BOOLEAN]
  /\ wire \in [Conn -> Seq(Request)]
  /\ asking \in [Conn -> Thread \cup {None}]
  /\ ready \in BOOLEAN
  /\ moved \in BOOLEAN
  /\ phase \in {"run", "stopped", "nodes", "redirects", "closed"}
  /\ drain \in Pool \cup {None}
  /\ left \in 0..PoolSize
  /\ behind \subseteq Pool
  /\ crashed \in BOOLEAN

Init ==
  /\ \E covered \in SUBSET SlotRange : PoolInit(covered)
  /\ pc = [t \in Thread |-> "idle"]
  /\ leg = [t \in Thread |-> "none"]
  /\ key = [t \in Thread |-> None]
  /\ con = [t \in Thread |-> None]
  /\ pool = [t \in Thread |-> None]
  /\ reply = [t \in Thread |-> Is("none")]
  /\ budget = [t \in Thread |-> MaxCommands]
  /\ err = [c \in Conn |-> FALSE]
  /\ wire = [c \in Conn |-> <<>>]
  /\ asking = [c \in Conn |-> None]
  /\ ready = TRUE
  /\ moved = FALSE
  /\ phase = "run"
  /\ drain = None
  /\ left = 0
  /\ behind = {}
  /\ crashed = FALSE

-----------------------------------------------------------------------------
(* Steps of a thread.                                                      *)

Goto(t, label) == pc' = [pc EXCEPT ![t] = label]

(* process() ends, by returning a reply or by throwing.  A connection      *)
(* that is still in con[t] is in nobody's hands from now on.               *)
Finish(t, how) ==
  /\ pc' = [pc EXCEPT ![t] = "idle"]
  /\ leg' = [leg EXCEPT ![t] = "none"]
  /\ key' = [key EXCEPT ![t] = None]
  /\ con' = [con EXCEPT ![t] = None]
  /\ pool' = [pool EXCEPT ![t] = None]
  /\ reply' = [reply EXCEPT ![t] = how]

Throw(t) == Finish(t, Is("exception"))

(* A NULL or deleted pool, or a NULL reply, is dereferenced.               *)
Crash ==
  /\ crashed' = TRUE
  /\ UNCHANGED <<poolVars, threadVars, netVars, mainVars, moved>>

(* A step that goes through the pointer the map has for key k.  Where the  *)
(* code uses operator[] an absent key gets a NULL there.                   *)
Deref(k, Step) == IF Live(k) THEN Step ELSE Crash

(* Cluster::getConnection reads readytouse_ under no lock, and only then   *)
(* enters the container.                                                   *)
Begin(t, r) ==
  /\ pc[t] = "idle"
  /\ budget[t] > 0
  /\ ready
  /\ budget' = [budget EXCEPT ![t] = @ - 1]
  /\ leg' = [leg EXCEPT ![t] = "slot"]
  /\ key' = [key EXCEPT ![t] = r]
  /\ reply' = [reply EXCEPT ![t] = Is("none")]
  /\ Goto(t, "getConnection")
  /\ UNCHANGED <<poolVars, con, pool, netVars, mainVars, moved, crashed>>

NotInitialized(t) ==
  /\ pc[t] = "idle"
  /\ budget[t] > 0
  /\ ~ready
  /\ budget' = [budget EXCEPT ![t] = @ - 1]
  /\ Throw(t)
  /\ UNCHANGED <<poolVars, netVars, mainVars, moved, crashed>>

(* Mutant: the ASK leg sends its command without an ASKING.                *)
TakeNoAsking(t, c) ==
  /\ con' = [con EXCEPT ![t] = c]
  /\ pool' = [pool EXCEPT ![t] = None]
  /\ Goto(t, "send")
  /\ UNCHANGED <<leg, key, reply>>

(* What process() does with the connection it gets.  On a redirected leg   *)
(* it looks at err first: a broken connection is released before the       *)
(* LogicError of the ASK leg, and dropped by the one of the MOVED leg.     *)
Take(t, c) ==
  \/ /\ leg[t] = "slot" \/ ~err[c]
     /\ con' = [con EXCEPT ![t] = c]
     /\ pool' = [pool EXCEPT ![t] = None]
     /\ Goto(t, IF leg[t] = "ASK" THEN "asking" ELSE "send")
     /\ UNCHANGED <<leg, key, reply>>
  \/ /\ leg[t] = "ASK" /\ err[c]
     /\ con' = [con EXCEPT ![t] = c]
     /\ pool' = [pool EXCEPT ![t] = None]
     /\ reply' = [reply EXCEPT ![t] = Is("exception")]
     /\ Goto(t, "release")
     /\ UNCHANGED <<leg, key>>
  \/ /\ leg[t] = "MOVED" /\ err[c]
     /\ Throw(t)

(* pullConnection: take the oldest connection of p or go to sleep.         *)
PullConnection(t, p) ==
  /\ \/ Pull(p) /\ Take(t, Head(queue[p]))
     \/ /\ Wait(t, p)
        /\ pool' = [pool EXCEPT ![t] = p]
        /\ Goto(t, "pull")
        /\ UNCHANGED <<leg, key, con, reply>>
  /\ UNCHANGED <<entry, conLock, budget, netVars, mainVars, moved, crashed>>

(* ThreadedPool::getConnection.  searchBySlots throws NodeSearchException  *)
(* for a slot with no entry; an entry that is NULL is dereferenced.        *)
GetConnection(t) ==
  /\ pc[t] = "getConnection"
  /\ LockFree
  /\ \/ /\ entry[key[t]] # "absent"
        /\ Deref(key[t], PullConnection(t, At(key[t])))
     \/ /\ entry[key[t]] = "absent"
        /\ Throw(t)
        /\ UNCHANGED <<poolVars, budget, netVars, mainVars, moved, crashed>>

(* The pool insert() makes for key k, ...                                  *)
NewPool(k) == <<k, IF phase = "closed" THEN "second" ELSE "first">>

(* ... and whether the iterator of disconnect() has passed that key: it    *)
(* sleeps with conLock_ open, and goes through the map in key order.       *)
Passed(k) == phase = "redirects" /\ drain # None /\ k < drain[1]
Record(p) == behind' = IF Passed(p[1]) THEN behind \cup {p} ELSE behind

(* ThreadedPool::insert(host, port), called by createNewConnection.        *)
Insert(t) ==
  /\ pc[t] = "insert"
  /\ LockFree
  /\ \/ /\ entry[key[t]] # "absent"
        /\ Deref(key[t], PullConnection(t, At(key[t])))
     \/ /\ CreatePool(NewPool(key[t]))
        /\ Take(t, Filled(NewPool(key[t]), PoolSize)[1])
        /\ Record(NewPool(key[t]))
        /\ UNCHANGED <<sleeping, conLock, budget, netVars, ready, phase, drain, left,
                       moved, crashed>>
     \/ /\ "connect" \in Faults
        /\ \E n \in 0..(PoolSize - 1) : CreatePoolFails(NewPool(key[t]), n)
        /\ Throw(t)
        /\ Record(NewPool(key[t]))
        /\ UNCHANGED <<sleeping, conLock, budget, netVars, ready, phase, drain, left,
                       moved, crashed>>

(* The loop of pullConnection after wait() returned: the queue is tested   *)
(* again, in the pool the thread has a reference to.                       *)
PullAgain(t) ==
  /\ pc[t] = "pull"
  /\ t \notin sleeping[pool[t]]
  /\ LockFree
  /\ PullConnection(t, pool[t])

(* That pool, or the one it is about to notify, has been deleted meanwhile.*)
UseDeletedPool(t) ==
  /\ pc[t] = "dangling"
  /\ Crash

-----------------------------------------------------------------------------
(* The wire.  A request is answered in the order of writing; ASKING is in  *)
(* force on its connection for the next command only.                      *)

Write(t, what) ==
  wire' = [wire EXCEPT ![con[t]] = Append(@, [by |-> t, what |-> what])]

Answer(c) ==
  /\ wire[c] # <<>>
  /\ wire' = [wire EXCEPT ![c] = Tail(@)]
  /\ asking' = [asking EXCEPT ![c] = IF Head(wire[c]).what = "ASKING"
                                     THEN Head(wire[c]).by ELSE None]
  /\ UNCHANGED err

Break(c) ==
  /\ "disconnect" \in Faults
  /\ err' = [err EXCEPT ![c] = TRUE]
  /\ UNCHANGED <<wire, asking>>

(* redisAppendFormattedCommand in processHiredisCommand.                   *)
Send(t) ==
  /\ pc[t] = "send"
  /\ Write(t, "command")
  /\ Goto(t, "recv")
  /\ UNCHANGED <<poolVars, leg, key, con, pool, reply, budget, err, asking, mainVars,
                 moved, crashed>>

(* Mutant: ASKING is pipelined and its reply never read.                   *)
SendAskingOnly(t) ==
  /\ pc[t] = "asking"
  /\ Write(t, "ASKING")
  /\ Goto(t, "send")
  /\ UNCHANGED <<poolVars, leg, key, con, pool, reply, budget, err, asking, mainVars,
                 moved, crashed>>

SendAsking(t) ==
  /\ pc[t] = "asking"
  /\ Write(t, "ASKING")
  /\ Goto(t, "asked")
  /\ UNCHANGED <<poolVars, leg, key, con, pool, reply, budget, err, asking, mainVars,
                 moved, crashed>>

(* The reply to ASKING.  An error reply throws LogicError; a connection    *)
(* that breaks yields a NULL reply, which checkCritical dereferences.      *)
AskingReply(t) ==
  /\ pc[t] = "asked"
  /\ \/ /\ Answer(con[t])
        /\ \/ Goto(t, "send") /\ UNCHANGED <<leg, key, con, pool, reply>>
           \/ "asking" \in Faults /\ Throw(t)
        /\ UNCHANGED <<poolVars, budget, mainVars, moved, crashed>>
     \/ "disconnect" \in Faults /\ Crash

Redirects == [kind : {"ASK", "MOVED"}, host : Host]

(* Mutants: hcon overwrites con before con is released; con is kept while  *)
(* the redirection is followed.                                            *)
KeepReplyRekey(t, r) ==
  /\ reply' = [reply EXCEPT ![t] = r]
  /\ key' = [key EXCEPT ![t] = IF r.host = None THEN @ ELSE r.host]
  /\ Goto(t, "release")
  /\ UNCHANGED <<leg, con, pool>>
KeepReplyAndCon(t, r) ==
  /\ reply' = [reply EXCEPT ![t] = r]
  /\ Goto(t, IF r.host = None THEN "release" ELSE "notify")
  /\ pool' = [pool EXCEPT ![t] = IF r.host = None THEN @ ELSE con[t][1]]
  /\ UNCHANGED <<leg, key, con>>

KeepReply(t, r) ==
  /\ reply' = [reply EXCEPT ![t] = r]
  /\ Goto(t, "release")
  /\ UNCHANGED <<leg, key, con, pool>>

(* Mutant: the connection is released before checkCritical looks at it.    *)
SlotReplyReleaseFirst(t) ==
  /\ pc[t] = "recv" /\ leg[t] = "slot"
  /\ \/ /\ Answer(con[t])
        /\ \E r \in {Is("READY")} \cup Redirects : KeepReply(t, r)
     \/ Break(con[t]) /\ KeepReply(t, Is("exception"))
  /\ UNCHANGED <<poolVars, budget, mainVars, moved, crashed>>

(* The reply on the slot leg.  checkCritical throws before the connection  *)
(* is released: DisconnectedException, or ClusterDownException.            *)
SlotReply(t) ==
  /\ pc[t] = "recv" /\ leg[t] = "slot"
  /\ \/ /\ Answer(con[t])
        /\ \/ \E r \in {Is("READY")} \cup Redirects : KeepReply(t, r)
           \/ "clusterdown" \in Faults /\ Throw(t)
     \/ Break(con[t]) /\ Throw(t)
  /\ UNCHANGED <<poolVars, budget, mainVars, moved, crashed>>

(* The reply on the ASK leg.  If the connection breaks, checkCritical      *)
(* inspects an unwritten pointer: it may die, throw, or see nothing.       *)
AskReply(t) ==
  /\ pc[t] = "recv" /\ leg[t] = "ASK"
  /\ \/ /\ Answer(con[t])
        /\ KeepReply(t, Is("READY")) \/ ("clusterdown" \in Faults /\ Throw(t))
        /\ UNCHANGED <<poolVars, budget, mainVars, moved, crashed>>
     \/ /\ Break(con[t])
        /\ KeepReply(t, Is("garbage")) \/ Throw(t)
        /\ UNCHANGED <<poolVars, budget, mainVars, moved, crashed>>
     \/ "disconnect" \in Faults /\ Crash

(* The reply on the MOVED leg is returned unchecked, unwritten or not.     *)
MovedReply(t) ==
  /\ pc[t] = "recv" /\ leg[t] = "MOVED"
  /\ \/ Answer(con[t]) /\ KeepReply(t, Is("READY"))
     \/ Break(con[t]) /\ KeepReply(t, Is("garbage"))
  /\ moved' = TRUE
  /\ UNCHANGED <<poolVars, budget, mainVars, crashed>>

(* releaseConnection: push, under the lock, into the pool that is now at   *)
(* the connection's key ...                                                *)
Release(t) ==
  /\ pc[t] = "release"
  /\ LockFree
  /\ Deref(key[t],
       /\ Push(At(key[t]), con[t])
       /\ con' = [con EXCEPT ![t] = None]
       /\ pool' = [pool EXCEPT ![t] = At(key[t])]
       /\ Goto(t, "notify")
       /\ UNCHANGED <<entry, sleeping, conLock, leg, key, reply, budget,
                      netVars, mainVars, moved, crashed>>)

(* ... notify_one after it, on the condition variable of that pool.  Then  *)
(* process() returns its reply, or starts the leg the reply asks for.      *)
Redirected(t) == leg[t] = "slot" /\ reply[t] \in Redirects

Redirect(t) ==
  /\ leg' = [leg EXCEPT ![t] = reply[t].kind]
  /\ key' = [key EXCEPT ![t] = reply[t].host]
  /\ pool' = [pool EXCEPT ![t] = None]
  /\ reply' = [reply EXCEPT ![t] = Is("none")]
  /\ Goto(t, "insert")
  /\ UNCHANGED con

Notify(t) ==
  /\ pc[t] = "notify"
  /\ NotifyOne(pool[t])
  /\ IF Redirected(t) THEN Redirect(t) ELSE Finish(t, reply[t])
  /\ UNCHANGED <<entry, queue, conLock, budget, netVars, mainVars, moved, crashed>>

ThreadStep(t) ==
  \/ \E r \in SlotRange : Begin(t, r)
  \/ NotInitialized(t)
  \/ GetConnection(t)
  \/ Insert(t)
  \/ PullAgain(t)
  \/ UseDeletedPool(t)
  \/ Send(t)
  \/ SendAsking(t)
  \/ AskingReply(t)
  \/ SlotReply(t)
  \/ AskReply(t)
  \/ MovedReply(t)
  \/ Release(t)
  \/ Notify(t)

-----------------------------------------------------------------------------
(* Steps of Main: Cluster::stop(), and disconnect(), which the destructor  *)
(* also calls.                                                             *)

Joined == \A t \in Thread : pc[t] = "idle" /\ budget[t] = 0

Stop ==
  /\ phase = "run" /\ ~JoinFirst
  /\ ready' = FALSE
  /\ phase' = "stopped"
  /\ UNCHANGED <<poolVars, threadVars, netVars, drain, left, behind, moved, crashed>>

Disconnect ==
  /\ IF JoinFirst THEN phase = "run" /\ Joined ELSE phase = "stopped"
  /\ phase' = "nodes"
  /\ UNCHANGED <<poolVars, threadVars, netVars, ready, drain, left, behind, moved, crashed>>

MapKeys == IF phase = "nodes" THEN SlotRange ELSE Host
Draining == phase \in {"nodes", "redirects"}

(* The keys that are in the map, from key k on.                            *)
KeysFrom(k) == {l \in MapKeys : entry[l] # "absent" /\ k <= l}

(* Mutant: only the connections that are in the queue are pulled.          *)
PointAtQueued(keys) ==
  \/ /\ keys = {}
     /\ drain' = None
     /\ left' = 0
  \/ \E k \in keys :
     /\ \A l \in keys : k <= l
     /\ drain' = At(k)
     /\ left' = Len(queue[At(k)])

(* The iterator of disconnect() moves to the pool at the first of these    *)
(* keys, of which poolSize_ connections are to be pulled, or to the end.   *)
PointAt(keys) ==
  \/ /\ keys = {}
     /\ drain' = None
     /\ left' = 0
  \/ \E k \in keys :
     /\ \A l \in keys : k <= l
     /\ drain' = At(k)
     /\ left' = PoolSize

(* disconnect(T &cons) takes conLock_ and starts at cons.begin().  For the *)
(* pool at the iterator ...                                                *)
EnterMap ==
  /\ Draining /\ ~conLock /\ drain = None
  /\ conLock' = TRUE
  /\ PointAt(KeysFrom(0))
  /\ UNCHANGED <<entry, queue, sleeping, threadVars, netVars, ready, phase, behind,
                 moved, crashed>>

(* ... it pulls and frees poolSize_ connections, sleeping with conLock_    *)
(* open when the queue is empty ...                                        *)
DrainOne ==
  /\ drain # None /\ left > 0
  /\ Main \notin sleeping[drain]
  /\ \/ /\ Pull(drain)
        /\ LET c == Head(queue[drain]) IN
             /\ err' = [err EXCEPT ![c] = FALSE]
             /\ wire' = [wire EXCEPT ![c] = <<>>]
             /\ asking' = [asking EXCEPT ![c] = None]
        /\ left' = left - 1
        /\ conLock' = TRUE
     \/ /\ Wait(Main, drain)
        /\ conLock' = FALSE
        /\ UNCHANGED <<netVars, left>>
  /\ UNCHANGED <<entry, threadVars, ready, phase, drain, behind, moved, crashed>>

(* ... and deletes the pool, although threads that hold none of its        *)
(* connections may still have a reference to it; then ++it.                *)
DrainEnd ==
  /\ drain # None /\ left = 0
  /\ DeletePool(drain)
  /\ PointAt(KeysFrom(drain[1] + 1))
  /\ pc' = [t \in Thread |-> IF pool[t] = drain THEN "dangling" ELSE pc[t]]
  /\ UNCHANGED <<conLock, leg, key, con, pool, reply, budget, netVars, ready, phase,
                 behind, moved, crashed>>

(* At the end of the map it is cleared, with what was inserted behind.     *)
LeaveMap ==
  /\ Draining /\ conLock /\ drain = None
  /\ ClearMap(MapKeys)
  /\ conLock' = FALSE
  /\ phase' = IF phase = "nodes" THEN "redirects" ELSE "closed"
  /\ UNCHANGED <<queue, sleeping, threadVars, netVars, ready, drain, left, behind,
                 moved, crashed>>

MainStep ==
  \/ Stop
  \/ Disconnect
  \/ EnterMap
  \/ DrainOne
  \/ DrainEnd
  \/ LeaveMap

(* A wait() of a thread or of Main may return unasked.                     *)
Spurious ==
  /\ \E p \in Pool, t \in Thread \cup {Main} : WakeSpuriously(t, p)
  /\ UNCHANGED <<threadVars, netVars, mainVars, moved, crashed>>

(* The program has ended as it should.                                     *)
Done == phase = "closed" /\ Joined /\ UNCHANGED vars

Next ==
  \/ /\ ~crashed
     /\ (\E t \in Thread : ThreadStep(t)) \/ MainStep \/ Spurious
  \/ Done

Spec == Init /\ [][Next]_vars

(* The scheduler runs every thread that can run; nothing is assumed of the *)
(* order in which threads get conLock_, nor of spurious wakeups.           *)
FairSpec ==
  /\ Spec
  /\ \A t \in Thread : WF_vars(~crashed /\ ThreadStep(t))
  /\ WF_vars(~crashed /\ MainStep)
-----------------------------------------------------------------------------
(* Properties.                                                             *)

(* No connection is ever in two hands: not used by two threads, not used   *)
(* by one while it lies in a queue, and not queued twice.  A blocking      *)
(* hiredis context is not thread safe, so process() relies on this from    *)
(* getConnection to releaseConnection.                                     *)
ConnectionExclusive ==
  /\ \A t, u \in Thread : con[t] # None /\ con[t] = con[u] => t = u
  /\ \A t \in Thread, p \in Pool : \A i \in 1..Len(queue[p]) : queue[p][i] # con[t]
  /\ \A p, q \in Pool : \A i \in 1..Len(queue[p]), j \in 1..Len(queue[q]) :
        queue[p][i] = queue[q][j] => p = q /\ i = j

(* The key a connection is paired with is that of its node, so that        *)
(* releaseConnection never puts a connection to one node into the pool of  *)
(* another: process() keeps a SlotConnection and a HostConnection at once, *)
(* and the pool at a key may have been replaced since the connection was   *)
(* taken.                                                                  *)
HomePool ==
  /\ \A t \in Thread : con[t] # None => NodeOf(con[t]) = key[t]
  /\ \A p \in Pool : \A i \in 1..Len(queue[p]) : NodeOf(queue[p][i]) = p[1]

(* The reply a thread is about to read answers the request it wrote, and   *)
(* the connection it is about to write to owes nobody a reply: errors may  *)
(* leave process() between a write and the read.                           *)
OwnReply ==
  \A t \in Thread :
    /\ pc[t] = "recv" => wire[con[t]] = <<[by |-> t, what |-> "command"]>>
    /\ pc[t] = "asked" => wire[con[t]] = <<[by |-> t, what |-> "ASKING"]>>
    /\ pc[t] \in {"send", "asking"} => wire[con[t]] = <<>>

(* A command is served under ASKING when and only when its own thread      *)
(* asked: ASKING and the command travel as two round trips on a shared     *)
(* connection, and another command between them would use the ASKING up.   *)
AskingPaired ==
  \A t \in Thread : pc[t] \in {"send", "recv"} =>
    asking[con[t]] = IF leg[t] = "ASK" THEN t ELSE None

(* No thread waits for a connection while it holds one, so threads that    *)
(* follow redirections in opposite directions cannot block each other.     *)
NoHoldAndWait ==
  \A t \in Thread : pc[t] \in {"getConnection", "insert", "pull"} => con[t] = None

(* A pool with sleepers has no more idle connections than wakeups under    *)
(* way: notify_one runs after the unlock, and a connection released may be *)
(* taken before the thread it woke gets the lock.                          *)
NoLostWakeup ==
  \A p \in Pool : sleeping[p] # {} =>
    Len(queue[p]) <=
      Cardinality({t \in Thread : pc[t] = "notify" /\ pool[t] = p})
      + Cardinality({t \in Thread : pc[t] = "pull" /\ pool[t] = p /\ t \notin sleeping[p]})
      + (IF drain = p /\ Main \notin sleeping[p] THEN PoolSize ELSE 0)

(* A slot connection that has failed never comes back into its queue: the  *)
(* slot leg does not look at err before it sends.                          *)
SlotQueuesHealthy ==
  \A p \in Pool : p[1] \in SlotRange => \A i \in 1..Len(queue[p]) : ~err[queue[p][i]]

(* The pools that cons.clear() has dropped although they are in use: those *)
(* inserted behind the iterator, which nobody drains or deletes.           *)
Forgotten == IF phase = "closed" THEN behind ELSE {}

(* disconnect() pulls poolSize_ connections before it deletes a pool, so   *)
(* that no thread still uses a connection it has freed, however commands   *)
(* and teardown interleave; and it takes a pool out of the map while one   *)
(* of its connections is in use only if insert() added that pool behind    *)
(* the iterator, while disconnect() slept in pullConnection.               *)
DeletedPoolUnused ==
  \A t \in Thread : con[t] # None => Mapped(con[t][1]) \/ con[t][1] \in Forgotten

(* Every thread finishes its commands and the teardown ends.               *)
Terminates == <>[](phase = "closed" /\ Joined)

(* disconnect() gets all the connections it waits for.                     *)
DisconnectReturns == phase = "nodes" ~> phase = "closed"

(* process() reports what goes wrong as a ClusterException: it follows no  *)
(* NULL, unwritten or deleted pointer.                                     *)
NoCrash == ~crashed
=============================================================================
