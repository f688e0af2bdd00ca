---------------------------- MODULE AsyncCommand ----------------------------
(***************************************************************************)
(* Commands issued through AsyncHiredisCommand (asynchirediscommand.h)     *)
(* over a Cluster<redisAsyncContext> whose connections live in the         *)
(* DefaultContainer (container.h).  One thread runs the event loop, so a   *)
(* callback is one step; what interleaves is the callbacks of different    *)
(* connections, new commands and the user's disconnect().                  *)
(*                                                                         *)
(* A command object owns itself: hiredis keeps the only pointer to it, as  *)
(* the data of a registered callback, and the callback that ends the       *)
(* command deletes it.  A redirection connection is shared: connections_   *)
(* and con_ of any number of commands hold the same pointer.               *)
(*                                                                         *)
(* External: the redis nodes and hiredis, which answers the requests of a  *)
(* context in order, refuses new ones once redisAsyncDisconnect has marked *)
(* it, and frees it when no reply is outstanding and no callback of it     *)
(* runs.                                                                   *)
(***************************************************************************)
EXTENDS Naturals, Sequences, FiniteSets

CONSTANTS
  Cmd,         \* the commands the program issues
  SlotRange,   \* the keys of nodes_
  Host,        \* the keys ("host:port") of connections_
  None,        \* a NULL pointer
  MaxHops,     \* bound: replies other than its result a command gets
  Faults,      \* which faults the environment may inject
  LeaveLoop    \* TRUE: the loop may be left while connections are open

ASSUME AsyncAssumption ==
  /\ MaxHops \in Nat
  /\ Faults \subseteq {"connect", "clusterdown", "asking", "break"}
  /\ LeaveLoop \in BOOLEAN
  /\ SlotRange \cap Cmd = {}
  /\ None \notin SlotRange \cup Cmd \cup Host

(* A context is named by the slot range it serves or, since a command      *)
(* connects at most once, by the command that connected it.                *)
Ctx == SlotRange \cup Cmd

VARIABLES
  status,       \* life of a context
  host,         \* the host a redirection context is connected to
  replies,      \* the callbacks registered on a context, oldest first
  asking,       \* the node has an ASKING of the context in force
  nodes,        \* the slot ranges nodes_ has an entry for
  connections,  \* connections_
  moved,        \* moved_
  cluster,      \* TRUE until the Cluster is deleted
  obj,          \* life of a command object
  con,          \* con_.second of a command
  told,         \* the host the last redirection of a command named
  heard,        \* the replies its redisCallback_ was called with
  hops,         \* replies other than its result it has got
  served,       \* times a node has executed it
  crashed       \* why the process has died of undefined behaviour

serverVars == <<asking, hops, served>>
clientVars == <<status, replies, nodes, connections, obj, con, heard>>
vars == <<serverVars, clientVars, host, moved, cluster, told, crashed>>

(* What a callback waits for: the reply to a command, to one sent again    *)
(* for a MOVED, to an ASKING, or to the command that followed an ASKING.   *)
What == {"command", "moved", "ASKING", "asked"}
Callback == [cmd : Cmd, what : What]

TypeOK ==
  /\ status \in [Ctx -> {"unused", "live", "closing", "freed", "lost"}]
  /\ host \in [Ctx -> Host \cup {None}]
  /\ replies \in [Ctx -> Seq(Callback)]
  /\ asking \in [Ctx -> BOOLEAN]
  /\ nodes \subseteq SlotRange
  /\ connections \in [Host -> Cmd \cup {None}]
  /\ moved \in BOOLEAN
  /\ cluster \in BOOLEAN
  /\ obj \in [Cmd -> {"unused", "live", "deleted", "leaked"}]
  /\ con \in [Cmd -> Cmd \cup {None}]
  /\ told \in [Cmd -> Host \cup {None}]
  /\ heard \in [Cmd -> Seq({"data", "error", "OK"})]
  /\ hops \in [Cmd -> 0..MaxHops]
  /\ served \in [Cmd -> Nat]
  /\ crashed \in {"no", "useAfterFree", "nullReply", "contextFreed"}

(* createCluster has connected to the nodes of the slot ranges in nodes;   *)
(* the "cluster slots" reply may leave slots to no node.                   *)
Init ==
  /\ nodes \in SUBSET SlotRange
  /\ status = [x \in Ctx |-> IF x \in nodes THEN "live" ELSE "unused"]
  /\ host = [x \in Ctx |-> None]
  /\ replies = [x \in Ctx |-> <<>>]
  /\ asking = [x \in Ctx |-> FALSE]
  /\ connections = [h \in Host |-> None]
  /\ moved = FALSE
  /\ cluster = TRUE
  /\ obj = [c \in Cmd |-> "unused"]
  /\ con = [c \in Cmd |-> None]
  /\ told = [c \in Cmd |-> None]
  /\ heard = [c \in Cmd |-> <<>>]
  /\ hops = [c \in Cmd |-> 0]
  /\ served = [c \in Cmd |-> 0]
  /\ crashed = "no"

-----------------------------------------------------------------------------
(* hiredis.                                                                *)

Open(x) == status[x] \in {"live", "closing"}
Dangling(x) == status[x] \in {"freed", "lost"}

(* redisAsyncDisconnect on the contexts in S, with the callbacks q         *)
(* registered, from within a callback of x.                                *)
Closed(s, q, S, x) ==
  [y \in Ctx |-> IF y \notin S THEN s[y]
                 ELSE IF y # x /\ q[y] = <<>> THEN "freed" ELSE "closing"]

(* The end of redisProcessCallbacks: a callback of x has returned.         *)
Settled(s, q, x) ==
  [s EXCEPT ![x] = IF @ = "closing" /\ q[x] = <<>> THEN "freed" ELSE @]

(* The callbacks left when the oldest one of x has been called.            *)
Rest(x) == [replies EXCEPT ![x] = Tail(@)]

Crash(why) == crashed' = why /\ UNCHANGED clientVars

-----------------------------------------------------------------------------
(* The callbacks of AsyncHiredisCommand.  Each runs for the oldest reply   *)
(* of context x; y is what con_.second of the command c has become.        *)

(* processHiredisCommand or redisAsyncCommand on an open context, the last *)
(* thing a callback does.                                                  *)
Send(x, c, y, to, what) ==
  LET q == [Rest(x) EXCEPT ![to] = Append(@, [cmd |-> c, what |-> what])] IN
  /\ replies' = q
  /\ status' = Settled(status, q, x)
  /\ con' = [con EXCEPT ![c] = y]
  /\ UNCHANGED <<nodes, connections, obj, heard, crashed>>

(* The contexts DefaultContainer::disconnect goes over, and the maps after *)
(* it.                                                                     *)
InMaps == nodes \cup ({connections[h] : h \in Host} \ {None})

ClearMaps == nodes' = {} /\ connections' = [h \in Host |-> None]

(* The redisCallback_ of c is called with reply, and c is deleted, which   *)
(* disconnects con_.  In between the redisCallback_ may have called        *)
(* cluster->disconnect().                                                  *)
Finish(x, c, y, reply) ==
  \E bye \in BOOLEAN :
    LET gone == IF bye THEN InMaps ELSE {}
        s == Closed(status, Rest(x), gone, x)
        mine == {y} \ {None}
    IN
    \/ /\ (\E z \in gone : Dangling(z)) \/ (\E z \in mine : s[z] \in {"freed", "lost"})
       /\ Crash("useAfterFree")
    \/ /\ \A z \in gone : ~Dangling(z)
       /\ \A z \in mine : s[z] \notin {"freed", "lost"}
       /\ heard' = [heard EXCEPT ![c] = Append(@, reply)]
       /\ obj' = [obj EXCEPT ![c] = "deleted"]
       /\ con' = [con EXCEPT ![c] = y]
       /\ replies' = Rest(x)
       /\ status' = Settled(Closed(s, Rest(x), mine, x), Rest(x), x)
       /\ IF bye THEN ClearMaps ELSE UNCHANGED <<nodes, connections>>
       /\ UNCHANGED crashed

(* Mutant: the object is deleted although the command was sent again.      *)
RetryAndDelete(x, c, y, reply) ==
  LET q == [Rest(x) EXCEPT ![x] = Append(@, [cmd |-> c, what |-> "command"])] IN
  /\ replies' = q
  /\ status' = Settled(Closed(status, q, {y} \ {None}, x), q, x)
  /\ heard' = [heard EXCEPT ![c] = Append(@, reply)]
  /\ obj' = [obj EXCEPT ![c] = "deleted"]
  /\ con' = [con EXCEPT ![c] = y]
  /\ UNCHANGED <<nodes, connections, crashed>>

(* retry: the command goes out again on the context that runs the callback *)
(* or, if that refuses it, the reply at hand is handed to the user.        *)
Retry(x, c, y, reply) ==
  \/ status[x] = "live" /\ Send(x, c, y, x, "command")
  \/ status[x] = "closing" /\ Finish(x, c, y, reply)

(* An exception in a callback.  userErrorCb_, when there is one, may ask   *)
(* for a RETRY; otherwise the user gets the reply at hand.                 *)
Failed(x, c, y, reply) == Retry(x, c, y, reply) \/ Finish(x, c, y, reply)

(* Mutant: the first request goes to the context that was redirected.      *)
CreateAndSendBack(x, c, h, what) ==
  LET q == [Rest(x) EXCEPT ![x] = Append(@, [cmd |-> c, what |-> what])] IN
  /\ host' = [host EXCEPT ![c] = h]
  /\ connections' = [connections EXCEPT ![h] = c]
  /\ con' = [con EXCEPT ![c] = c]
  /\ replies' = q
  /\ status' = Settled([status EXCEPT ![c] = "live"], q, x)
  /\ UNCHANGED <<nodes, obj, heard, crashed>>

(* createNewConnection(h) for a host not in connections_, and the first    *)
(* request on the new context.                                             *)
CreateNewConnection(x, c, h, what) ==
  LET q == [Rest(x) EXCEPT ![c] = <<[cmd |-> c, what |-> what]>>] IN
  /\ host' = [host EXCEPT ![c] = h]
  /\ connections' = [connections EXCEPT ![h] = c]
  /\ con' = [con EXCEPT ![c] = c]
  /\ replies' = q
  /\ status' = Settled([status EXCEPT ![c] = "live"], q, x)
  /\ UNCHANGED <<nodes, obj, heard, crashed>>

(* Mutant: the command is sent to the ASK host without an ASKING.          *)
RedirectNoAsking(x, c, kind, h) ==
  LET y == IF con[c] # None THEN con[c] ELSE connections[h]
      what == IF kind = "ASK" THEN "asked" ELSE "moved"
  IN
  /\ moved' = (moved \/ kind = "MOVED")
  /\ \/ /\ y = None
        /\ CreateNewConnection(x, c, h, what)
        /\ told' = [told EXCEPT ![c] = h]
     \/ /\ y = None /\ "connect" \in Faults
        /\ Failed(x, c, None, "error")
        /\ UNCHANGED <<host, told>>
     \/ /\ y # None /\ Dangling(y)
        /\ Crash("useAfterFree")
        /\ UNCHANGED <<host, told>>
     \/ /\ y # None /\ status[y] = "closing"
        /\ Failed(x, c, y, "error")
        /\ UNCHANGED <<host, told>>
     \/ /\ y # None /\ status[y] = "live"
        /\ Send(x, c, y, y, what)
        /\ told' = [told EXCEPT ![c] = h]
        /\ UNCHANGED host

(* The ASK and MOVED cases of processCommandReply.  con_ is used again     *)
(* when it is set, whatever host the reply names, and connections_ is      *)
(* asked only when it is not.                                              *)
Redirect(x, c, kind, h) ==
  LET y == IF con[c] # None THEN con[c] ELSE connections[h]
      what == IF kind = "ASK" THEN "ASKING" ELSE "moved"
  IN
  /\ moved' = (moved \/ kind = "MOVED")
  /\ \/ /\ y = None
        /\ CreateNewConnection(x, c, h, what)
        /\ told' = [told EXCEPT ![c] = h]
     \/ /\ y = None /\ "connect" \in Faults
        /\ Failed(x, c, None, "error")
        /\ UNCHANGED <<host, told>>
     \/ /\ y # None /\ Dangling(y)
        /\ Crash("useAfterFree")
        /\ UNCHANGED <<host, told>>
     \/ /\ y # None /\ status[y] = "closing"
        /\ Failed(x, c, y, "error")
        /\ UNCHANGED <<host, told>>
     \/ /\ y # None /\ status[y] = "live"
        /\ Send(x, c, y, y, what)
        /\ told' = [told EXCEPT ![c] = h]
        /\ UNCHANGED host

(* Mutants: the destructor disconnects the context of the callback; it     *)
(* disconnects nothing; a result may be retried.                           *)
ReadyClosesCaller(x, c) ==
  /\ served' = [served EXCEPT ![c] = @ + 1]
  /\ Finish(x, c, x, "data")
  /\ UNCHANGED <<host, moved, told, hops>>
ReadyClosesNothing(x, c) ==
  /\ served' = [served EXCEPT ![c] = @ + 1]
  /\ Finish(x, c, None, "data")
  /\ UNCHANGED <<host, moved, told, hops>>
ReadyMayRetry(x, c) ==
  /\ served' = [served EXCEPT ![c] = @ + 1]
  /\ Failed(x, c, con[c], "data")
  /\ UNCHANGED <<host, moved, told, hops>>

(* The node of x executes c; processCommandReply gets the result.          *)
Ready(x, c) ==
  /\ served' = [served EXCEPT ![c] = @ + 1]
  /\ Finish(x, c, con[c], "data")
  /\ UNCHANGED <<host, moved, told, hops>>

(* The node answers with a redirection or CLUSTERDOWN instead.             *)
NotReady(x, c) ==
  /\ hops[c] < MaxHops
  /\ hops' = [hops EXCEPT ![c] = @ + 1]
  /\ \/ \E kind \in {"ASK", "MOVED"}, h \in Host : Redirect(x, c, kind, h)
     \/ /\ "clusterdown" \in Faults
        /\ Failed(x, c, con[c], "error")
        /\ UNCHANGED <<host, moved, told>>
  /\ UNCHANGED served

(* processCommandReply.  A command uses up the ASKING of its connection.   *)
ProcessCommandReply(x) ==
  /\ Open(x) /\ replies[x] # <<>>
  /\ LET cb == Head(replies[x]) IN
       /\ cb.what # "ASKING"
       /\ Ready(x, cb.cmd) \/ NotReady(x, cb.cmd)
  /\ asking' = [asking EXCEPT ![x] = FALSE]
  /\ UNCHANGED cluster

(* Mutant: a command that cannot follow its ASKING is forgotten.           *)
AskingOKForgets(x, c) ==
  /\ asking' = [asking EXCEPT ![x] = TRUE]
  /\ \/ status[con[c]] = "live" /\ Send(x, c, con[c], con[c], "asked")
     \/ /\ status[con[c]] = "closing"
        /\ replies' = Rest(x)
        /\ status' = Settled(status, Rest(x), x)
        /\ UNCHANGED <<nodes, connections, obj, con, heard, crashed>>
  /\ UNCHANGED hops

(* Mutant: the test of the reply to ASKING is inverted.                    *)
AskingOKReports(x, c) ==
  /\ asking' = [asking EXCEPT ![x] = TRUE]
  /\ Failed(x, c, con[c], "OK")
  /\ UNCHANGED hops

(* runRedisCallback(con, r, data), the callback of an ASKING.              *)
AskingOK(x, c) ==
  /\ asking' = [asking EXCEPT ![x] = TRUE]
  /\ \/ status[con[c]] = "live" /\ Send(x, c, con[c], con[c], "asked")
     \/ status[con[c]] = "closing" /\ Failed(x, c, con[c], "OK")
  /\ UNCHANGED hops

AskingRefused(x, c) ==
  /\ "asking" \in Faults
  /\ hops[c] < MaxHops
  /\ hops' = [hops EXCEPT ![c] = @ + 1]
  /\ Failed(x, c, con[c], "error")
  /\ UNCHANGED asking

RunRedisCallback(x) ==
  /\ Open(x) /\ replies[x] # <<>>
  /\ LET cb == Head(replies[x]) IN
       /\ cb.what = "ASKING"
       /\ AskingOK(x, cb.cmd) \/ AskingRefused(x, cb.cmd)
  /\ UNCHANGED <<served, host, moved, cluster, told>>

-----------------------------------------------------------------------------
(* The program that uses the library, and the loss of connections.         *)

(* Command(): the object is created, and its command sent on the context   *)
(* of its slot.  getConnection throws NodeSearchException past process()   *)
(* and nobody deletes the object.                                          *)
Command(c, r) ==
  /\ obj[c] = "unused"
  /\ \/ /\ r \notin nodes
        /\ obj' = [obj EXCEPT ![c] = "leaked"]
        /\ UNCHANGED <<status, replies, nodes, connections, con, heard, crashed>>
     \/ /\ r \in nodes /\ Dangling(r)
        /\ Crash("useAfterFree")
     \/ /\ r \in nodes /\ ~Dangling(r)
        /\ IF status[r] = "live"
           THEN /\ obj' = [obj EXCEPT ![c] = "live"]
                /\ replies' = [replies EXCEPT ![r] =
                                 Append(@, [cmd |-> c, what |-> "command"])]
           ELSE /\ obj' = [obj EXCEPT ![c] = "deleted"]
                /\ UNCHANGED replies
        /\ UNCHANGED <<status, nodes, connections, con, heard, crashed>>
  /\ UNCHANGED <<serverVars, host, moved, cluster, told>>

(* cluster->disconnect() from outside a callback.                          *)
Disconnect ==
  /\ \/ /\ \E y \in InMaps : Dangling(y)
        /\ Crash("useAfterFree")
     \/ /\ \A y \in InMaps : ~Dangling(y)
        /\ status' = Closed(status, replies, InMaps, None)
        /\ ClearMaps
        /\ UNCHANGED <<replies, obj, con, heard, crashed>>
  /\ UNCHANGED <<serverVars, host, moved, cluster, told>>

(* hiredis loses the connection of x: it calls what is registered with a   *)
(* NULL reply, which checkCritical dereferences, or, with nothing          *)
(* registered, frees the context.  disconnectCb then erases it from copies *)
(* of the maps.                                                            *)
Lose(x) ==
  /\ "break" \in Faults
  /\ Open(x)
  /\ \/ /\ replies[x] # <<>>
        /\ Crash("nullReply")
     \/ /\ replies[x] = <<>>
        /\ status' = [status EXCEPT ![x] = "lost"]
        /\ UNCHANGED <<replies, nodes, connections, obj, con, heard, crashed>>
  /\ UNCHANGED <<serverVars, host, moved, cluster, told>>

(* The loop returns when no context is left in it.                         *)
LoopEnded == \A x \in Ctx : ~Open(x)

(* ~Cluster, once the loop is no longer run.  It deletes the               *)
(* ConnectContext before the container disconnects, so a context that is   *)
(* freed at once passes the deleted one to disconnectCb.                   *)
DeleteCluster ==
  /\ LoopEnded \/ LeaveLoop
  /\ \/ /\ \E y \in InMaps : Dangling(y)
        /\ Crash("useAfterFree")
        /\ UNCHANGED cluster
     \/ /\ \A y \in InMaps : ~Dangling(y)
        /\ \E y \in InMaps : replies[y] = <<>>
        /\ Crash("contextFreed")
        /\ UNCHANGED cluster
     \/ /\ \A y \in InMaps : Open(y) /\ replies[y] # <<>>
        /\ status' = Closed(status, replies, InMaps, None)
        /\ ClearMaps
        /\ cluster' = FALSE
        /\ UNCHANGED <<replies, obj, con, heard, crashed>>
  /\ UNCHANGED <<serverVars, host, moved, told>>

LoopStep(x) == ProcessCommandReply(x) \/ RunRedisCallback(x)

Next ==
  /\ crashed = "no" /\ cluster
  /\ \/ \E x \in Ctx : LoopStep(x) \/ Lose(x)
     \/ \E c \in Cmd, r \in SlotRange : Command(c, r)
     \/ Disconnect
     \/ DeleteCluster

Spec == Init /\ [][Next]_vars

(* The loop is run as long as it has contexts, and every node answers      *)
(* every request.                                                          *)
FairSpec ==
  /\ Spec
  /\ \A x \in Ctx : WF_vars(crashed = "no" /\ cluster /\ LoopStep(x))

-----------------------------------------------------------------------------
(* Properties.                                                             *)

(* The registrations of a command object as the data of a callback, on the *)
(* contexts that can still call it.                                        *)
Tokens(c) ==
  UNION {{<<x, i>> : i \in {j \in DOMAIN replies[x] : replies[x][j].cmd = c}} :
           x \in {y \in Ctx : Open(y)}}

(* A command object that lives is the data of exactly one registered       *)
(* callback, and a deleted one of none: no callback of hiredis is called   *)
(* with a deleted command, and none is forgotten, through redirections,    *)
(* ASKINGs, retries and disconnects.                                       *)
OneToken ==
  \A c \in Cmd : Cardinality(Tokens(c)) = IF obj[c] = "live" THEN 1 ELSE 0

(* A context marked by redisAsyncDisconnect has a reply outstanding, so it *)
(* will be freed and leave the loop.                                       *)
ClosingDrains == \A x \in Ctx : status[x] = "closing" => replies[x] # <<>>

(* A redirection context that nobody has closed belongs to a live command, *)
(* which will close it: none keeps the loop running for ever.              *)
NoOrphan ==
  \A x \in Cmd : status[x] = "live" => \E c \in Cmd : obj[c] = "live" /\ con[c] = x

(* A slot connection in nodes_ is open unless the network closed it: the   *)
(* end of a command never closes the connection that other commands of the *)
(* slot use, and Command() never finds it half closed.                     *)
NodesOpen == \A r \in nodes : status[r] \in {"live", "lost"}

(* Every context has somebody who will end its life, and nobody else does: *)
(* the destructors of commands, disconnect() and hiredis share the work    *)
(* without counting references.                                            *)
ContextLife == ClosingDrains /\ NoOrphan /\ NodesOpen

(* Freed memory is used only after a redirection or after the loss of a    *)
(* slot connection: the library is safe on a stable cluster.               *)
UseAfterFreeCause ==
  crashed = "useAfterFree" =>
    (\E x \in Cmd : Dangling(x)) \/ (\E r \in nodes : status[r] = "lost")

(* An ASKING is missing when its command arrives only if another command   *)
(* was sent over the same redirection connection, which connections_ and   *)
(* the con_ of both commands share.                                        *)
AskingLostToOthers ==
  crashed = "no" =>
  \A x \in Ctx : Open(x) /\ replies[x] # <<>> /\ Head(replies[x]).what = "asked" =>
    asking[x] \/ \E d \in Cmd : d # Head(replies[x]).cmd /\ con[d] = x

(* A MOVED is followed to the host it names by every command that is       *)
(* redirected for the first time: only then is con_ NULL.                  *)
FirstMovedFollowed ==
  \A x \in Ctx : \A i \in DOMAIN replies[x] :
    LET c == replies[x][i].cmd IN
    replies[x][i].what = "moved" /\ hops[c] < 2 => host[x] = told[c]

(* A redirected command arrives as and where the node told it to, through  *)
(* connections that commands share and keep, but for these two cases.      *)
RedirectionFollowed == AskingLostToOthers /\ FirstMovedFollowed

(* The reply to an ASKING comes out as the reply to the command only if    *)
(* the connection was closed in between, by the end of another command     *)
(* that shares it or by disconnect().                                      *)
AskingReplyCause ==
  \A c \in Cmd : heard[c] = <<"OK">> =>
    \/ \E d \in Cmd : d # c /\ con[d] = con[c] /\ obj[d] = "deleted"
    \/ connections[host[con[c]]] # con[c]

(* Every command that was sent comes to its end.                           *)
Answered ==
  \A c \in Cmd : obj[c] = "live" ~> obj[c] # "live" \/ crashed # "no" \/ ~cluster

(* After disconnect() the loop runs out of contexts and returns.           *)
DisconnectEndsLoop == nodes = {} ~> LoopEnded \/ crashed # "no" \/ ~cluster

(* An ASK is followed: the command after an ASKING finds it in force.      *)
AskFollowed ==
  \A x \in Ctx : Open(x) /\ replies[x] # <<>> /\ Head(replies[x]).what = "asked"
                   => asking[x]
=============================================================================
