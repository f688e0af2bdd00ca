--------------------------- MODULE SyncRefinement ---------------------------
(***************************************************************************)
(* SyncCommand implements ConnectionPool: process() of any number of       *)
(* threads, with the queues, the sleeping and the lock of ThreadedPool,    *)
(* its exceptions and its teardown, moves connections only as the abstract *)
(* pool does.                                                              *)
(***************************************************************************)
EXTENDS SyncCommand

Queued == UNION {{queue[p][i] : i \in DOMAIN queue[p]} : p \in Pool}

Abstract == INSTANCE ConnectionPool WITH
  Client <- Thread,
  KeyOf <- [c \in Conn |-> NodeOf(c)],
  idle <- Queued,
  held <- con,
  forgotten <- {c \in Conn : c[1] \in Forgotten}

(* ThreadedPool, used by HiredisCommand::process() in many threads, is a   *)
(* pool of connections: each is taken from the idle ones by one thread     *)
(* that has none, goes back there or is lost, is closed only when idle,    *)
(* and a node's connections are opened only when none of it is open, but   *)
(* for those of a pool insert() added behind the iterator of disconnect(). *)
ImplementsConnectionPool == Abstract!Spec
=============================================================================
