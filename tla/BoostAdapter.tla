---------------------------- MODULE BoostAdapter ----------------------------
(***************************************************************************)
(* One redisBoostClient (adapters/hiredis-boostasio-adapter): the object   *)
(* that runs an asynchronous context of hiredis in an io_service of asio.  *)
(* It keeps what hiredis asked for and what it has started, and starts one *)
(* operation per direction.                                                *)
(*                                                                         *)
(* One thread runs the io_service.  An operation waits for its socket;     *)
(* when the socket is ready its handler is queued, and queued handlers run *)
(* one after the other.  Between two of them the program may do anything   *)
(* with the context: a timer, or the handler of another connection, may    *)
(* send a command or disconnect.                                           *)
(*                                                                         *)
(* External: asio, which drops an operation when its descriptor is closed, *)
(* and hiredis (context), modelled by the hooks it calls.  A command is    *)
(* one unit of output.                                                     *)
(***************************************************************************)
EXTENDS Naturals, Sequences

CONSTANTS MaxCommands,    \* bound: commands the program sends
          MaxErrors       \* bound: handlers that are given an error

ASSUME BoundsAssumption == MaxCommands \in Nat /\ MaxErrors \in Nat

VARIABLES
  context,    \* the redisAsyncContext that context_ points to
  client,     \* the redisBoostClient and its operations in asio
  queue,      \* handlers ready to run, as <<direction, error code>>
  ended,      \* ended[d]: the last operation of d ended in an error
  issued,     \* commands sent so far
  errors,     \* errors so far
  late,       \* the queue at the moment the context was freed
  stale       \* the handler that used a freed context

vars == <<context, client, queue, ended, issued, errors, late, stale>>

Dir == {"read", "write"}
Code == {"none", "would_block", "other"}
Handler == Dir \X Code
NoHandler == <<>>

(* A context: allocated, connected, told to disconnect, the commands it    *)
(* has not written and those that have no reply yet.                       *)
Context == [alive : BOOLEAN, connected : BOOLEAN, disconnecting : BOOLEAN,
            out : 0..MaxCommands, pending : 0..MaxCommands]

(* A client: (read|write)_requested_, (read|write)_in_progress_, and how   *)
(* many operations of each direction wait for the socket.                  *)
Client == [requested : [Dir -> BOOLEAN], in_progress : [Dir -> BOOLEAN],
           waiting : [Dir -> 0..1]]

TypeOK ==
  /\ context \in Context
  /\ client \in Client
  /\ queue \in Seq(Handler)
  /\ ended \in [Dir -> BOOLEAN]
  /\ issued \in 0..MaxCommands
  /\ errors \in 0..MaxErrors
  /\ late \in Seq(Handler)
  /\ stale \in Handler \cup {NoHandler}

(* The constructor.  hiredis asks for nothing before the first command.    *)
Init ==
  /\ context = [alive |-> TRUE, connected |-> FALSE, disconnecting |-> FALSE,
                out |-> 0, pending |-> 0]
  /\ client = [requested |-> [d \in Dir |-> FALSE],
               in_progress |-> [d \in Dir |-> FALSE],
               waiting |-> [d \in Dir |-> 0]]
  /\ queue = <<>>
  /\ ended = [d \in Dir |-> FALSE]
  /\ issued = 0
  /\ errors = 0
  /\ late = <<>>
  /\ stale = NoHandler

-----------------------------------------------------------------------------
(* The methods of redisBoostClient.                                        *)

(* Mutant: an operation is started although one is in progress.            *)
operateAlways(c) ==
  [c EXCEPT !.in_progress = [d \in Dir |-> c.in_progress[d] \/ c.requested[d]],
            !.waiting = [d \in Dir |->
              c.waiting[d] + (IF c.requested[d] THEN 1 ELSE 0)]]

operate(c) ==
  [c EXCEPT !.in_progress = [d \in Dir |-> c.in_progress[d] \/ c.requested[d]],
            !.waiting = [d \in Dir |->
              c.waiting[d] + (IF c.requested[d] /\ ~c.in_progress[d] THEN 1 ELSE 0)]]

(* Mutant: the operation is left to the handler of the other direction.    *)
addOnly(c, d) == [c EXCEPT !.requested[d] = TRUE]

(* add_read and add_write; del_write (hiredis never calls delRead).        *)
add(c, d) == operate([c EXCEPT !.requested[d] = TRUE])
del(c, d) == [c EXCEPT !.requested[d] = FALSE]

-----------------------------------------------------------------------------
(* hiredis: what a call may make of the context and, through the hooks, of *)
(* the client.                                                             *)

(* A call takes and gives a record of the two and of the commands sent.    *)
Now == [context |-> context, client |-> client, issued |-> issued]

(* redisFree closes the descriptor, and operations on it are dropped.  The *)
(* cleanup hook does nothing: context_ and the flags stay as they are.     *)
Freed(r) ==
  [r EXCEPT !.context.alive = FALSE, !.client.waiting = [d \in Dir |-> 0]]

(* A context told to disconnect goes when nothing is left to do.           *)
FreedIfIdle(r) ==
  IF r.context.disconnecting /\ r.context.out = 0 /\ r.context.pending = 0
  THEN Freed(r) ELSE r

(* redisAsyncCommand, m times; none is accepted by a context told to       *)
(* disconnect.                                                             *)
Room(r) == IF r.context.disconnecting THEN 0 ELSE MaxCommands - r.issued
Sent(r, m) ==
  IF m = 0 THEN r
  ELSE [context |-> [r.context EXCEPT !.out = @ + m, !.pending = @ + m],
        client  |-> add(r.client, "write"),
        issued  |-> r.issued + m]

(* A connect or a write that fails frees the context; else a part or all   *)
(* of the output is written.                                               *)
redisAsyncHandleWrite(r) ==
  {Freed(r)}
    \cup {[r EXCEPT !.context.connected = TRUE,
                    !.context.out = n,
                    !.client = add(IF n = 0 THEN del(@, "write") ELSE add(@, "write"),
                                   "read")]
           : n \in IF r.context.out = 0 THEN {0} ELSE 0..(r.context.out - 1)}

(* n replies are read; their callbacks may send commands and disconnect.   *)
RepliesRead(r, n) ==
  [r EXCEPT !.context.connected = TRUE,
            !.context.pending = @ - n,
            !.client = add(@, "read")]
CallbacksRun(r) ==
  {FreedIfIdle([Sent(r, m) EXCEPT !.context.disconnecting = @ \/ bye])
   : m \in 0..Room(r), bye \in BOOLEAN}

(* The end of the stream frees the context; else there are replies.        *)
redisAsyncHandleRead(r) ==
  {Freed(r)}
    \cup UNION {CallbacksRun(RepliesRead(r, n))
                : n \in 1..(r.context.pending - r.context.out)}

(* The state after a call; "late" keeps what is queued when it frees the   *)
(* context, and an operation in progress ends the error of the last one.   *)
Becomes(r) ==
  /\ context' = r.context
  /\ client' = r.client
  /\ issued' = r.issued
  /\ ended' = [d \in Dir |-> ended[d] /\ ~r.client.in_progress[d]]
  /\ late' = IF context.alive /\ ~r.context.alive THEN queue' ELSE late

-----------------------------------------------------------------------------
(* The program, between two handlers.                                      *)

Command ==
  /\ context.alive
  /\ Room(Now) > 0
  /\ UNCHANGED <<queue, errors, stale>>
  /\ Becomes(Sent(Now, 1))

redisAsyncDisconnect ==
  /\ context.alive /\ ~context.disconnecting
  /\ UNCHANGED <<queue, errors, stale>>
  /\ Becomes(FreedIfIdle([Now EXCEPT !.context.disconnecting = TRUE]))

-----------------------------------------------------------------------------
(* asio.  A socket is ready to be written to at any time, and to be read   *)
(* from when a reply or the end of the stream has come; an operation that  *)
(* was started on a closed descriptor can only end in an error.            *)

Complete(d, ec) ==
  /\ client.waiting[d] > 0
  /\ ec = "none" => context.alive
  /\ ec # "none" => errors < MaxErrors
  /\ errors' = IF ec = "none" THEN errors ELSE errors + 1
  /\ queue' = Append(queue, <<d, ec>>)
  /\ client' = [client EXCEPT !.waiting[d] = @ - 1]
  /\ UNCHANGED <<context, ended, issued, late, stale>>

-----------------------------------------------------------------------------
(* handle_read and handle_write, for the handler at the head of the queue. *)

(* Mutant: hiredis is called whatever the error code is.                   *)
callsAlways(ec) == TRUE
calls(ec) == ec = "none"

(* Mutant: an operation that would block is not started again.             *)
operatesAfterCall(ec) == ec = "none"
operates(ec) == ec \in {"none", "would_block"}

(* The call into hiredis goes through context_, which nobody resets when   *)
(* the context is freed.                                                   *)
handle(d) ==
  /\ queue # <<>> /\ Head(queue)[1] = d
  /\ queue' = Tail(queue)
  /\ UNCHANGED errors
  /\ LET ec == Head(queue)[2]
         cleared == [Now EXCEPT !.client.in_progress[d] = FALSE]
     IN \/ /\ calls(ec) /\ context.alive
           /\ \E r \in IF d = "read" THEN redisAsyncHandleRead(cleared)
                                     ELSE redisAsyncHandleWrite(cleared) :
                Becomes([r EXCEPT !.client = operate(@)])
           /\ UNCHANGED stale
        \/ /\ calls(ec) /\ ~context.alive
           /\ stale' = Head(queue)
           /\ UNCHANGED <<context, client, ended, issued, late>>
        \/ /\ ~calls(ec) /\ operates(ec)
           /\ Becomes([cleared EXCEPT !.client = operate(@)])
           /\ UNCHANGED stale
        \/ /\ ~calls(ec) /\ ~operates(ec)
           /\ client' = cleared.client
           /\ ended' = [ended EXCEPT ![d] = ec = "other"]
           /\ UNCHANGED <<context, issued, late, stale>>

Next ==
  /\ stale = NoHandler
  /\ \/ Command
     \/ redisAsyncDisconnect
     \/ \E d \in Dir, ec \in Code : Complete(d, ec)
     \/ \E d \in Dir : handle(d)

(* The io_service runs: a handler that is queued runs, a socket that can   *)
(* be written to is reported, and so is a reply, which the node sends for  *)
(* every command it was sent.                                              *)
Fairness ==
  /\ WF_vars(stale = NoHandler /\ \E d \in Dir : handle(d))
  /\ WF_vars(stale = NoHandler /\ Complete("write", "none"))
  /\ WF_vars(/\ stale = NoHandler
             /\ context.pending > context.out
             /\ Complete("read", "none"))

Spec == Init /\ [][Next]_vars /\ Fairness

-----------------------------------------------------------------------------
(* Properties.                                                             *)

(* While the context lives, a direction that is marked in progress has one *)
(* operation in asio, waiting or with its handler queued, and a direction  *)
(* that is not has none: the flags never let two handlers run for one      *)
(* event and never hide that nothing is under way.                         *)
InQueue(d) == {i \in DOMAIN queue : queue[i][1] = d}
OneOperation ==
  context.alive => \A d \in Dir :
    IF client.in_progress[d]
    THEN \/ client.waiting[d] = 1 /\ InQueue(d) = {}
         \/ client.waiting[d] = 0 /\ \E i \in DOMAIN queue : InQueue(d) = {i}
    ELSE client.waiting[d] = 0 /\ InQueue(d) = {}

(* What hiredis asked for is under way, whichever of its calls asked and   *)
(* whichever handler that was in; only an error that the handler keeps to  *)
(* itself leaves a direction stopped.                                      *)
Armed ==
  context.alive => \A d \in Dir :
    client.requested[d] => client.in_progress[d] \/ ended[d]

(* A handler uses a freed context only if it was queued already, without   *)
(* an error, when the context was freed: by the handler of the other       *)
(* direction, or by the program between the two.  Operations that waited   *)
(* then, and those the client starts afterwards, do no harm.               *)
UseAfterFreeCause ==
  stale # NoHandler => stale[2] = "none" /\ \E i \in DOMAIN late : late[i] = stale

(* A command that was sent is written and its reply is read, unless the    *)
(* context goes first or asio reports an error to a handler.               *)
Served ==
  context.pending > 0 ~>
    context.pending = 0 \/ ~context.alive \/ \E d \in Dir : ended[d]
=============================================================================
