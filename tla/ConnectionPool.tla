--------------------------- MODULE ConnectionPool ---------------------------
(***************************************************************************)
(* What a container of connections promises to the commands that share it, *)
(* and nothing of how: a connection is idle, in the hands of one client,   *)
(* or out of the pool, and it changes hands only by way of the idle ones.  *)
(***************************************************************************)
EXTENDS FiniteSets

CONSTANTS
  Client,   \* who uses connections
  Key,      \* the nodes connections lead to
  Conn,     \* the connections
  KeyOf,    \* the node a connection leads to, as a function on Conn
  None      \* no connection

VARIABLES
  idle,      \* the connections anybody may take
  held,      \* the connection each client has taken
  forgotten  \* connections the pool has lost track of

poolView == <<idle, held, forgotten>>

Held == {held[k] : k \in Client} \ {None}
Of(n) == {c \in Conn : KeyOf[c] = n}

Init ==
  /\ idle \in SUBSET Conn
  /\ held = [k \in Client |-> None]
  /\ forgotten = {}

Take(k, c) ==
  /\ held[k] = None
  /\ c \in idle
  /\ idle' = idle \ {c}
  /\ held' = [held EXCEPT ![k] = c]
  /\ UNCHANGED forgotten

(* A client uses one connection at a time and gives that one back.         *)
GiveBack(k) ==
  /\ held[k] # None
  /\ idle' = idle \cup {held[k]}
  /\ held' = [held EXCEPT ![k] = None]
  /\ UNCHANGED forgotten

(* A client fails and keeps its connection from everybody.                 *)
Abandon(k) ==
  /\ held[k] # None
  /\ held' = [held EXCEPT ![k] = None]
  /\ UNCHANGED <<idle, forgotten>>

(* An idle connection, and no other, is closed.                            *)
Close(c) ==
  /\ c \in idle
  /\ idle' = idle \ {c}
  /\ UNCHANGED <<held, forgotten>>

(* Connections to a node nobody is connected to are opened, all for        *)
(* everybody or one for a client.  Those lost track of do not count.       *)
Unconnected(n) == Of(n) \cap (idle \cup Held) \subseteq forgotten

Open(n) ==
  /\ Unconnected(n)
  /\ \E S \in SUBSET (Of(n) \ forgotten) : idle' = idle \cup S
  /\ UNCHANGED <<held, forgotten>>

OpenAndTake(k, n) ==
  /\ held[k] = None
  /\ Unconnected(n)
  /\ \E S \in SUBSET (Of(n) \ forgotten) : \E c \in S :
       /\ idle' = idle \cup (S \ {c})
       /\ held' = [held EXCEPT ![k] = c]
  /\ UNCHANGED forgotten

(* The pool loses track of connections, idle or held; whoever can still    *)
(* reach them goes on using them.                                          *)
Forget ==
  /\ forgotten' \in SUBSET Conn
  /\ forgotten \subseteq forgotten'
  /\ UNCHANGED <<idle, held>>

Next ==
  \/ \E k \in Client, c \in idle : Take(k, c)
  \/ \E k \in Client : GiveBack(k) \/ Abandon(k)
  \/ \E c \in idle : Close(c)
  \/ \E n \in Key : Open(n) \/ \E k \in Client : OpenAndTake(k, n)
  \/ Forget

Spec == Init /\ [][Next]_poolView
=============================================================================
