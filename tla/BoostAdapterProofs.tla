------------------------- MODULE BoostAdapterProofs -------------------------
(***************************************************************************)
(* Proofs about BoostAdapter, for any number of commands and of errors:    *)
(* its type invariant, that each direction has at most one operation and   *)
(* exactly one when its flag says so, that what hiredis asked for is under *)
(* way, and what alone can make a handler use a freed context.             *)
(*                                                                         *)
(* Every method of the client, and every call of hiredis, is a function on *)
(* records of the context, the client and the commands sent.  Legal(r, q)  *)
(* says that such a record fits the queue q; each function keeps it, so a  *)
(* handler, which composes several of them, keeps it too.                  *)
(***************************************************************************)
EXTENDS BoostAdapter, SequenceTheorems, TLAPS

(* A handler of d is queued.                                               *)
Busy(q, d) == \E i \in DOMAIN q : q[i][1] = d

(* The flag of d is set while an operation of d waits or its handler is    *)
(* queued, and only one of the two can be.  The converse needs the context *)
(* alive: redisFree drops the operation and leaves the flag.               *)
Fits(c, q, alive) ==
  /\ c \in Client
  /\ \A d \in Dir :
       /\ c.waiting[d] = 1 => c.in_progress[d] /\ ~Busy(q, d)
       /\ Busy(q, d) => c.in_progress[d]
       /\ alive /\ c.in_progress[d] => c.waiting[d] = 1 \/ Busy(q, d)

Legal(r, q) ==
  /\ r \in [context : Context, client : Client, issued : 0..MaxCommands]
  /\ r.context.out <= r.context.pending
  /\ r.context.pending <= r.issued
  /\ Fits(r.client, q, r.context.alive)

(* What is asked for is under way: the state that operate() leaves.        *)
Running(c) == \A d \in Dir : c.requested[d] => c.in_progress[d]

(* No direction has two handlers in the queue.                             *)
Unique(q) == \A i, j \in DOMAIN q : q[i][1] = q[j][1] => i = j

(* Once the context is freed, a handler that will call hiredis is one that *)
(* was queued when it was freed.                                           *)
Leftover ==
  ~context.alive =>
    \A i \in DOMAIN queue : queue[i][2] = "none" =>
      \E j \in DOMAIN late : late[j] = queue[i]

IInv ==
  /\ TypeOK
  /\ Legal(Now, queue)
  /\ Unique(queue)
  /\ Armed
  /\ Leftover
  /\ UseAfterFreeCause

-----------------------------------------------------------------------------
(* The methods of the client keep it in step with the queue.               *)

(* operate() starts what is asked for and not under way, and nothing else. *)
LEMMA OperateFits ==
  ASSUME NEW c, NEW q, NEW alive \in BOOLEAN, Fits(c, q, alive)
  PROVE  Fits(operate(c), q, alive) /\ Running(operate(c))
<1>1. c \in Client
  BY DEF Fits
<1>2. \A d \in Dir : c.requested[d] \in BOOLEAN /\ c.in_progress[d] \in BOOLEAN
                       /\ c.waiting[d] \in 0..1
  BY <1>1 DEF Client
<1>3. \A d \in Dir :
        /\ operate(c).requested[d] = c.requested[d]
        /\ operate(c).in_progress[d] = (c.in_progress[d] \/ c.requested[d])
        /\ operate(c).waiting[d] =
             c.waiting[d] + (IF c.requested[d] /\ ~c.in_progress[d] THEN 1 ELSE 0)
  BY <1>1 DEF operate, Client
<1>4. ASSUME NEW d \in Dir
      PROVE  /\ c.waiting[d] = 1 => c.in_progress[d] /\ ~Busy(q, d)
             /\ Busy(q, d) => c.in_progress[d]
             /\ alive /\ c.in_progress[d] => c.waiting[d] = 1 \/ Busy(q, d)
  BY DEF Fits
<1>5. operate(c) \in Client
  <2>1. \A d \in Dir : operate(c).waiting[d] \in 0..1
    BY <1>2, <1>3, <1>4
  <2> QED
    BY <1>1, <1>2, <2>1 DEF operate, Client
<1>6. Fits(operate(c), q, alive)
  BY <1>2, <1>3, <1>4, <1>5 DEF Fits
<1>7. Running(operate(c))
  BY <1>3 DEF Running
<1> QED
  BY <1>6, <1>7

(* What hiredis asks for or takes back does not start anything by itself.  *)
LEMMA RequestFits ==
  ASSUME NEW c, NEW q, NEW alive \in BOOLEAN, Fits(c, q, alive),
         NEW d \in Dir, NEW b \in BOOLEAN
  PROVE  Fits([c EXCEPT !.requested[d] = b], q, alive)
BY DEF Fits, Client

LEMMA AddFits ==
  ASSUME NEW c, NEW q, NEW alive \in BOOLEAN, Fits(c, q, alive), NEW d \in Dir
  PROVE  Fits(add(c, d), q, alive) /\ Running(add(c, d))
BY RequestFits, OperateFits DEF add

LEMMA DelFits ==
  ASSUME NEW c, NEW q, NEW alive \in BOOLEAN, Fits(c, q, alive), NEW d \in Dir
  PROVE  Fits(del(c, d), q, alive)
BY RequestFits DEF del

-----------------------------------------------------------------------------
(* The calls of hiredis keep a record legal.                               *)

LEMMA FreedLegal ==
  ASSUME NEW r, NEW q, Legal(r, q)
  PROVE  Legal(Freed(r), q)
<1>1. /\ Freed(r).context = [r.context EXCEPT !.alive = FALSE]
      /\ Freed(r).client = [r.client EXCEPT !.waiting = [d \in Dir |-> 0]]
      /\ Freed(r).issued = r.issued
      /\ Freed(r) \in [context : {Freed(r).context}, client : {Freed(r).client},
                       issued : {r.issued}]
  BY DEF Legal, Freed
<1>2. Freed(r).context \in Context /\ Freed(r).context.alive = FALSE
      /\ Freed(r).context.out = r.context.out
      /\ Freed(r).context.pending = r.context.pending
  BY <1>1 DEF Legal, Context
<1>3. Fits(Freed(r).client, q, FALSE)
  BY <1>1 DEF Legal, Fits, Client
<1>4. Freed(r).client \in Client
  BY <1>3 DEF Fits
<1>5. r.issued \in 0..MaxCommands
  BY DEF Legal
<1>6. Freed(r) \in [context : Context, client : Client, issued : 0..MaxCommands]
  BY <1>1, <1>2, <1>4, <1>5
<1>7. /\ Freed(r).context.out <= Freed(r).context.pending
      /\ Freed(r).context.pending <= Freed(r).issued
  BY <1>1, <1>2 DEF Legal
<1>8. Fits(Freed(r).client, q, Freed(r).context.alive)
  BY <1>2, <1>3
<1> QED
  BY <1>6, <1>7, <1>8 DEF Legal

LEMMA FreedIfIdleLegal ==
  ASSUME NEW r, NEW q, Legal(r, q)
  PROVE  Legal(FreedIfIdle(r), q)
BY FreedLegal DEF FreedIfIdle

(* A context that goes takes no part of the client's flags with it.        *)
LEMMA FreedRunning ==
  ASSUME NEW r, NEW q, Legal(r, q), Running(r.client)
  PROVE  Running(Freed(r).client) /\ Running(FreedIfIdle(r).client)
BY DEF Legal, Freed, FreedIfIdle, Running, Fits, Client

LEMMA SentLegal ==
  ASSUME NEW r, NEW q, Legal(r, q), NEW m \in 0..Room(r)
  PROVE  /\ Legal(Sent(r, m), q)
         /\ Running(r.client) => Running(Sent(r, m).client)
         /\ Sent(r, m).context.alive = r.context.alive
<1>1. CASE m = 0
  BY <1>1 DEF Sent
<1>2. CASE m # 0
  <2>1. /\ Sent(r, m).context = [r.context EXCEPT !.out = @ + m, !.pending = @ + m]
        /\ Sent(r, m).client = add(r.client, "write")
        /\ Sent(r, m).issued = r.issued + m
        /\ Sent(r, m) \in [context : {Sent(r, m).context}, client : {Sent(r, m).client},
                           issued : {Sent(r, m).issued}]
    BY <1>2 DEF Sent
  <2>2. m \in Nat /\ r.issued + m \in 0..MaxCommands
    BY <1>2, BoundsAssumption DEF Legal, Room
  <2>3. r.context \in Context /\ r.context.out \in Nat /\ r.context.pending \in Nat
        /\ r.context.out <= r.context.pending /\ r.context.pending <= r.issued
    BY DEF Legal, Context
  <2>4. /\ Sent(r, m).context.out = r.context.out + m
        /\ Sent(r, m).context.pending = r.context.pending + m
        /\ Sent(r, m).context.alive = r.context.alive
    BY <2>1, <2>3 DEF Context
  <2>5. r.context.out + m \in 0..MaxCommands /\ r.context.pending + m \in 0..MaxCommands
        /\ r.context.out + m <= r.context.pending + m
        /\ r.context.pending + m <= r.issued + m
    BY <2>2, <2>3, BoundsAssumption DEF Legal
  <2>6. Sent(r, m).context \in Context
    BY <2>1, <2>3, <2>5 DEF Context
  <2>7. Fits(Sent(r, m).client, q, r.context.alive) /\ Running(Sent(r, m).client)
    <3>1. r.context.alive \in BOOLEAN /\ Fits(r.client, q, r.context.alive)
      BY DEF Legal, Context
    <3>2. "write" \in Dir
      BY DEF Dir
    <3> QED
      BY <2>1, <3>1, <3>2, AddFits
  <2>8. Sent(r, m).client \in Client
    BY <2>7 DEF Fits
  <2> QED
    BY <2>1, <2>2, <2>4, <2>5, <2>6, <2>7, <2>8 DEF Legal
<1> QED
  BY <1>1, <1>2

(* Whatever a write or a read of hiredis does, and whatever the callbacks  *)
(* of its replies do.                                                      *)
LEMMA WriteLegal ==
  ASSUME NEW r, NEW q, Legal(r, q), NEW s \in redisAsyncHandleWrite(r)
  PROVE  Legal(s, q)
<1>1. CASE s = Freed(r)
  BY <1>1, FreedLegal
<1>2. ASSUME NEW n \in IF r.context.out = 0 THEN {0} ELSE 0..(r.context.out - 1),
             s = [r EXCEPT !.context.connected = TRUE,
                           !.context.out = n,
                           !.client = add(IF n = 0 THEN del(@, "write") ELSE add(@, "write"),
                                          "read")]
      PROVE  Legal(s, q)
  <2> DEFINE asked == IF n = 0 THEN del(r.client, "write") ELSE add(r.client, "write")
  <2>1. /\ r.context \in Context /\ r.client \in Client /\ r.issued \in 0..MaxCommands
        /\ r.context.out <= r.context.pending /\ r.context.pending <= r.issued
        /\ r.context.alive \in BOOLEAN /\ Fits(r.client, q, r.context.alive)
    BY DEF Legal, Context
  <2>2. n \in 0..MaxCommands /\ n <= r.context.out
    BY <2>1, BoundsAssumption DEF Context
  <2>3. /\ s.context = [r.context EXCEPT !.connected = TRUE, !.out = n]
        /\ s.client = add(asked, "read")
        /\ s.issued = r.issued
        /\ s \in [context : {s.context}, client : {s.client}, issued : {s.issued}]
    BY <1>2 DEF Legal
  <2>4. s.context \in Context /\ s.context.out = n /\ s.context.pending = r.context.pending
        /\ s.context.alive = r.context.alive
    BY <2>1, <2>2, <2>3 DEF Context
  <2>5. Fits(s.client, q, r.context.alive)
    <3>1. "write" \in Dir /\ "read" \in Dir
      BY DEF Dir
    <3>2. Fits(asked, q, r.context.alive)
      BY <2>1, <3>1, AddFits, DelFits
    <3> HIDE DEF asked
    <3> QED
      BY <2>1, <2>3, <3>1, <3>2, AddFits
  <2>6. s.client \in Client
    BY <2>5 DEF Fits
  <2>7. s.context.out <= s.context.pending /\ s.context.pending <= s.issued
    <3>1. n <= r.context.pending
      BY <2>1, <2>2, BoundsAssumption DEF Context
    <3> QED
      BY <2>1, <2>3, <2>4, <3>1
  <2> QED
    BY <2>1, <2>3, <2>4, <2>5, <2>6, <2>7 DEF Legal
<1> QED
  BY <1>1, <1>2 DEF redisAsyncHandleWrite

LEMMA RepliesLegal ==
  ASSUME NEW r, NEW q, Legal(r, q), NEW n \in 1..(r.context.pending - r.context.out)
  PROVE  Legal(RepliesRead(r, n), q)
<1> DEFINE read == RepliesRead(r, n)
<1>1. /\ r.context \in Context /\ r.client \in Client /\ r.issued \in 0..MaxCommands
      /\ r.context.out \in Nat /\ r.context.pending \in Nat
      /\ r.context.out <= r.context.pending /\ r.context.pending <= r.issued
      /\ r.context.alive \in BOOLEAN /\ Fits(r.client, q, r.context.alive)
  BY DEF Legal, Context
<1>2. /\ read.context = [r.context EXCEPT !.connected = TRUE, !.pending = @ - n]
      /\ read.client = add(r.client, "read")
      /\ read.issued = r.issued
      /\ read \in [context : {read.context}, client : {read.client}, issued : {read.issued}]
  BY DEF Legal, RepliesRead
<1>3. r.context.pending - n \in 0..MaxCommands /\ r.context.out <= r.context.pending - n
      /\ r.context.pending - n <= r.issued
  BY <1>1, BoundsAssumption DEF Context
<1>4. read.context \in Context /\ read.context.out = r.context.out
      /\ read.context.pending = r.context.pending - n
      /\ read.context.alive = r.context.alive
  BY <1>1, <1>2, <1>3 DEF Context
<1>5. Fits(read.client, q, r.context.alive) /\ read.client \in Client
  <2>1. "read" \in Dir
    BY DEF Dir
  <2>2. Fits(read.client, q, r.context.alive)
    BY <1>1, <1>2, <2>1, AddFits
  <2> QED
    BY <2>2 DEF Fits
<1> QED
  BY <1>1, <1>2, <1>3, <1>4, <1>5 DEF Legal

LEMMA CallbacksLegal ==
  ASSUME NEW r, NEW q, Legal(r, q), NEW s \in CallbacksRun(r)
  PROVE  Legal(s, q)
<1>1. PICK m \in 0..Room(r), bye \in BOOLEAN :
        s = FreedIfIdle([Sent(r, m) EXCEPT !.context.disconnecting = @ \/ bye])
  BY DEF CallbacksRun
<1>2. Legal(Sent(r, m), q)
  BY SentLegal
<1>3. ASSUME NEW x, Legal(x, q)
      PROVE  Legal([x EXCEPT !.context.disconnecting = @ \/ bye], q)
  BY <1>3 DEF Legal, Context
<1>4. Legal([Sent(r, m) EXCEPT !.context.disconnecting = @ \/ bye], q)
  BY <1>2, <1>3
<1> QED
  BY <1>1, <1>4, FreedIfIdleLegal

LEMMA ReadLegal ==
  ASSUME NEW r, NEW q, Legal(r, q), NEW s \in redisAsyncHandleRead(r)
  PROVE  Legal(s, q)
BY FreedLegal, RepliesLegal, CallbacksLegal DEF redisAsyncHandleRead

-----------------------------------------------------------------------------
(* The invariant.                                                          *)

LEMMA InitIInv == Init => IInv
<1> SUFFICES ASSUME Init PROVE IInv
  OBVIOUS
<1>1. context \in Context /\ client \in Client
  BY BoundsAssumption DEF Init, Context, Client
<1>2. TypeOK
  BY <1>1, BoundsAssumption DEF Init, TypeOK
<1>3. queue = <<>> /\ ~Busy(queue, "read") /\ ~Busy(queue, "write")
  BY DEF Init, Busy
<1>4. Fits(client, queue, context.alive)
  BY <1>1, <1>3 DEF Fits, Init, Busy, Dir
<1>5. Legal(Now, queue)
  <2>1. context.out = 0 /\ context.pending = 0 /\ issued = 0
    BY DEF Init
  <2>2. Now.context = context /\ Now.client = client /\ Now.issued = issued
    BY DEF Now
  <2>3. Now \in [context : Context, client : Client, issued : 0..MaxCommands]
    BY <1>2 DEF Now, TypeOK
  <2> QED
    BY <1>4, <2>1, <2>2, <2>3 DEF Legal
<1>6. Unique(queue) /\ Leftover /\ UseAfterFreeCause
  BY <1>3 DEF Unique, Leftover, UseAfterFreeCause, Init
<1>7. Armed
  BY DEF Armed, Init
<1> QED
  BY <1>2, <1>5, <1>6, <1>7 DEF IInv

(* A step that ends in a call: the record it leaves fits the queue it      *)
(* leaves, and what it asked for is under way or was given up before.      *)
LEMMA BecomesKeeps ==
  ASSUME IInv, stale = NoHandler,
         queue' \in Seq(Handler), Unique(queue'),
         \A i \in DOMAIN queue' : \E j \in DOMAIN queue : queue'[i] = queue[j],
         NEW x, Legal(x, queue'), Becomes(x),
         x.context.alive => \A d \in Dir :
           x.client.requested[d] => x.client.in_progress[d] \/ ended[d],
         UNCHANGED <<errors, stale>>
  PROVE  IInv'
<1>1. context' = x.context /\ client' = x.client /\ issued' = x.issued
      /\ late' = IF context.alive /\ ~x.context.alive THEN queue' ELSE late
  BY DEF Becomes
<1>2. Now' = x
  BY <1>1 DEF Now, Legal
<1>3. Legal(Now, queue)'
  BY <1>2
<1>4. TypeOK'
  <2>1. ended' \in [Dir -> BOOLEAN]
    BY DEF Becomes
  <2>2. late' \in Seq(Handler)
    BY <1>1 DEF IInv, TypeOK
  <2>3. x \in [context : Context, client : Client, issued : 0..MaxCommands]
    BY DEF Legal
  <2> QED
    BY <1>1, <2>1, <2>2, <2>3 DEF IInv, TypeOK
<1>5. Armed'
  <2>1. \A d \in Dir : ended'[d] = (ended[d] /\ ~x.client.in_progress[d])
    BY DEF Becomes
  <2> QED
    BY <1>1, <2>1 DEF Armed
<1>6. Leftover'
  <2>1. CASE context.alive /\ ~x.context.alive
    BY <1>1, <2>1 DEF Leftover
  <2>2. CASE ~(context.alive /\ ~x.context.alive)
    <3>1. late' = late
      BY <1>1, <2>2
    <3>2. SUFFICES ASSUME ~context'.alive PROVE Leftover'
      BY DEF Leftover
    <3>3. ~context.alive
      BY <1>1, <2>2, <3>2
    <3>4. \A j \in DOMAIN queue : queue[j][2] = "none" =>
            \E k \in DOMAIN late : late[k] = queue[j]
      BY <3>3 DEF IInv, Leftover
    <3> QED
      BY <3>1, <3>4 DEF Leftover
  <2> QED
    BY <2>1, <2>2
<1>7. UseAfterFreeCause'
  BY DEF UseAfterFreeCause
<1> QED
  BY <1>3, <1>4, <1>5, <1>6, <1>7 DEF IInv

(* The program between two handlers.                                       *)
LEMMA CommandKeeps ==
  ASSUME IInv, stale = NoHandler, Command
  PROVE  IInv'
<1> DEFINE x == Sent(Now, 1)
<1>1. queue' = queue /\ Legal(Now, queue) /\ Unique(queue) /\ queue \in Seq(Handler)
  BY DEF Command, IInv, TypeOK
<1>2. 1 \in 0..Room(Now)
  BY <1>1, BoundsAssumption DEF Command, Room, Legal
<1>3. Legal(x, queue)
  BY <1>1, <1>2, SentLegal
<1>4. Running(x.client)
  <2>1. Fits(client, queue, context.alive) /\ context.alive \in BOOLEAN /\ "write" \in Dir
    BY <1>1 DEF Legal, Now, Dir, Context
  <2>2. x.client = add(client, "write")
    BY DEF Sent, Now
  <2> QED
    BY <2>1, <2>2, AddFits
<1>5. Becomes(x) /\ UNCHANGED <<errors, stale>>
  BY DEF Command
<1> HIDE DEF x
<1> QED
  BY <1>1, <1>3, <1>4, <1>5, BecomesKeeps DEF Running

LEMMA DisconnectKeeps ==
  ASSUME IInv, stale = NoHandler, redisAsyncDisconnect
  PROVE  IInv'
<1> DEFINE y == [Now EXCEPT !.context.disconnecting = TRUE]
           x == FreedIfIdle(y)
<1>1. queue' = queue /\ Legal(Now, queue) /\ Unique(queue) /\ queue \in Seq(Handler)
  BY DEF redisAsyncDisconnect, IInv, TypeOK
<1>2. y.context = [context EXCEPT !.disconnecting = TRUE] /\ y.client = client
      /\ y.issued = issued
  BY DEF Now
<1>3. Legal(y, queue) /\ y.context.alive = context.alive
  <2>1. context \in Context /\ client \in Client /\ issued \in 0..MaxCommands
        /\ context.out <= context.pending /\ context.pending <= issued
        /\ Fits(client, queue, context.alive)
    BY <1>1 DEF Legal, Now
  <2>2. y.context \in Context /\ y.context.alive = context.alive
        /\ y.context.out = context.out /\ y.context.pending = context.pending
    BY <1>2, <2>1 DEF Context
  <2>3. y \in [context : Context, client : Client, issued : 0..MaxCommands]
    BY <2>1, <2>2 DEF Now
  <2> QED
    BY <1>2, <2>1, <2>2, <2>3 DEF Legal
<1>4. Legal(x, queue)
  BY <1>3, FreedIfIdleLegal
<1>5. x.client.requested = client.requested /\ x.client.in_progress = client.in_progress
      /\ (x.context.alive => context.alive)
  <2> HIDE DEF y
  <2> QED
    BY <1>2, <1>3 DEF FreedIfIdle, Freed, Legal, Client, Context
<1>6. Becomes(x) /\ UNCHANGED <<errors, stale>>
  BY DEF redisAsyncDisconnect
<1>7. x.context.alive => \A d \in Dir :
        x.client.requested[d] => x.client.in_progress[d] \/ ended[d]
  <2> HIDE DEF x
  <2> QED
    BY <1>5 DEF IInv, Armed
<1> HIDE DEF x
<1> QED
  BY <1>1, <1>4, <1>6, <1>7, BecomesKeeps

(* asio.                                                                   *)
LEMMA CompleteKeeps ==
  ASSUME IInv, stale = NoHandler, NEW d \in Dir, NEW ec \in Code, Complete(d, ec)
  PROVE  IInv'
<1>1. /\ client.waiting[d] > 0
      /\ ec = "none" => context.alive
      /\ errors' = IF ec = "none" THEN errors ELSE errors + 1
      /\ queue' = Append(queue, <<d, ec>>)
      /\ client' = [client EXCEPT !.waiting[d] = @ - 1]
      /\ UNCHANGED <<context, ended, issued, late, stale>>
  BY DEF Complete
<1>2. TypeOK /\ Legal(Now, queue) /\ Unique(queue)
  BY DEF IInv
<1>3. Fits(client, queue, context.alive) /\ client \in Client /\ context.alive \in BOOLEAN
  BY <1>2 DEF Legal, Now, Fits, TypeOK, Context
<1>4. client.waiting[d] = 1 /\ client.in_progress[d] /\ ~Busy(queue, d)
  BY <1>1, <1>3 DEF Fits, Client
<1>5. /\ client' \in Client /\ client'.requested = client.requested
      /\ client'.in_progress = client.in_progress
      /\ client'.waiting[d] = 0
      /\ \A e \in Dir \ {d} : client'.waiting[e] = client.waiting[e]
  <2>1. client.waiting \in [Dir -> 0..1] /\ client.waiting[d] - 1 = 0
    BY <1>3, <1>4 DEF Client
  <2>2. PICK w : w = [client.waiting EXCEPT ![d] = 0]
    OBVIOUS
  <2>3. client' = [client EXCEPT !.waiting = w]
    BY <1>1, <1>3, <2>1, <2>2 DEF Client
  <2>4. w \in [Dir -> 0..1] /\ w[d] = 0 /\ \A e \in Dir \ {d} : w[e] = client.waiting[e]
    BY <2>1, <2>2
  <2> QED
    BY <1>3, <2>3, <2>4 DEF Client
<1>6. /\ queue' \in Seq(Handler) /\ Len(queue') = Len(queue) + 1
      /\ queue'[Len(queue) + 1] = <<d, ec>>
      /\ \A i \in DOMAIN queue : i \in DOMAIN queue' /\ queue'[i] = queue[i]
      /\ \A i \in DOMAIN queue' : i \in DOMAIN queue \/ i = Len(queue) + 1
  BY <1>1, <1>2 DEF TypeOK, Handler
<1>7. Busy(queue', d)
  BY <1>1, <1>2, <1>6 DEF Busy, TypeOK
<1>8. \A e \in Dir \ {d} : Busy(queue', e) <=> Busy(queue, e)
  <2> SUFFICES ASSUME NEW e \in Dir \ {d} PROVE Busy(queue', e) <=> Busy(queue, e)
    OBVIOUS
  <2>1. ASSUME Busy(queue, e) PROVE Busy(queue', e)
    BY <1>6, <2>1 DEF Busy
  <2>2. ASSUME Busy(queue', e) PROVE Busy(queue, e)
    BY <1>6, <2>2 DEF Busy
  <2> QED
    BY <2>1, <2>2
<1>9. Fits(client', queue', context'.alive)
  <2>1. context' = context
    BY <1>1
  <2>2. ASSUME NEW e \in Dir
        PROVE  /\ client'.waiting[e] = 1 => client'.in_progress[e] /\ ~Busy(queue', e)
               /\ Busy(queue', e) => client'.in_progress[e]
               /\ context.alive /\ client'.in_progress[e] =>
                    client'.waiting[e] = 1 \/ Busy(queue', e)
    <3>1. CASE e = d
      BY <1>4, <1>5, <1>7, <3>1
    <3>2. CASE e # d
      BY <1>3, <1>5, <1>8, <3>2 DEF Fits
    <3> QED
      BY <3>1, <3>2
  <2> QED
    BY <1>5, <2>1, <2>2 DEF Fits
<1>10. Unique(queue')
  <2> SUFFICES ASSUME NEW i \in DOMAIN queue', NEW j \in DOMAIN queue',
                      queue'[i][1] = queue'[j][1]
               PROVE  i = j
    BY DEF Unique
  <2>1. \A k \in DOMAIN queue : queue[k][1] # d
    BY <1>4 DEF Busy
  <2>2. CASE i \in DOMAIN queue /\ j \in DOMAIN queue
    BY <1>2, <1>6, <2>2 DEF Unique
  <2>3. CASE i = Len(queue) + 1 /\ j \in DOMAIN queue
    BY <1>6, <2>1, <2>3
  <2>4. CASE i \in DOMAIN queue /\ j = Len(queue) + 1
    BY <1>6, <2>1, <2>4
  <2> QED
    BY <1>6, <2>2, <2>3, <2>4
<1>11. TypeOK'
  <2>1. errors' \in 0..MaxErrors
    BY <1>1, <1>2, BoundsAssumption DEF TypeOK, Complete
  <2> QED
    BY <1>1, <1>2, <1>5, <1>6, <2>1 DEF TypeOK
<1>12. Legal(Now, queue)'
  <2>1. context' = context /\ issued' = issued /\ context.out <= context.pending
        /\ context.pending <= issued
    BY <1>1, <1>2 DEF Legal, Now
  <2>2. Now' = [context |-> context', client |-> client', issued |-> issued']
    BY DEF Now
  <2> QED
    BY <1>9, <1>11, <2>1, <2>2 DEF Legal, TypeOK
<1>13. Armed'
  BY <1>1, <1>5 DEF IInv, Armed
<1>14. Leftover'
  <2> SUFFICES ASSUME ~context.alive, NEW i \in DOMAIN queue', queue'[i][2] = "none"
               PROVE  \E j \in DOMAIN late : late[j] = queue'[i]
    BY <1>1 DEF Leftover
  <2>1. ec # "none"
    BY <1>1
  <2>2. i \in DOMAIN queue
    BY <1>6, <2>1
  <2> QED
    BY <1>6, <2>2 DEF IInv, Leftover
<1>15. UseAfterFreeCause'
  BY <1>1 DEF UseAfterFreeCause
<1> QED
  BY <1>10, <1>11, <1>12, <1>13, <1>14, <1>15 DEF IInv

(* The record a handler starts from, field by field.                       *)
LEMMA ClearedFields ==
  ASSUME client \in Client, NEW d \in Dir
  PROVE  LET x == [Now EXCEPT !.client.in_progress[d] = FALSE]
         IN /\ x = [context |-> context, client |-> x.client, issued |-> issued]
            /\ x.client \in Client
            /\ x.client.requested = client.requested
            /\ x.client.waiting = client.waiting
            /\ x.client.in_progress[d] = FALSE
            /\ \A e \in Dir \ {d} : x.client.in_progress[e] = client.in_progress[e]
<1> DEFINE x == [Now EXCEPT !.client.in_progress[d] = FALSE]
<1>1. PICK p : p = [client.in_progress EXCEPT ![d] = FALSE]
  OBVIOUS
<1>2. PICK c : c = [client EXCEPT !.in_progress = p]
  OBVIOUS
<1>3. Now.client = client
  BY DEF Now
<1>4. x = [Now EXCEPT !.client = c]
  BY <1>1, <1>2, <1>3, Zenon
<1>5. x = [context |-> context, client |-> c, issued |-> issued]
  BY <1>4 DEF Now
<1>6. p \in [Dir -> BOOLEAN] /\ p[d] = FALSE
      /\ \A e \in Dir \ {d} : p[e] = client.in_progress[e]
  BY <1>1 DEF Client
<1>7. /\ c \in Client /\ c.requested = client.requested /\ c.waiting = client.waiting
      /\ c.in_progress = p
  BY <1>2, <1>6 DEF Client
<1> HIDE DEF x
<1>8. x.client = c
  BY <1>5
<1> QED
  BY <1>5, <1>6, <1>7, <1>8 DEF x

(* A handler clears the flag of its direction and leaves the queue: the    *)
(* two still agree, since no other handler of the direction is queued.     *)
LEMMA ClearedLegal ==
  ASSUME IInv, NEW d \in Dir, queue # <<>>, Head(queue)[1] = d
  PROVE  /\ Legal([Now EXCEPT !.client.in_progress[d] = FALSE], Tail(queue))
         /\ Tail(queue) \in Seq(Handler) /\ Unique(Tail(queue))
         /\ \A i \in DOMAIN Tail(queue) : \E j \in DOMAIN queue : Tail(queue)[i] = queue[j]
         /\ Head(queue) \in Handler /\ 1 \in DOMAIN queue /\ Head(queue) = queue[1]
<1> DEFINE q == Tail(queue)
           x == [Now EXCEPT !.client.in_progress[d] = FALSE]
<1>1. queue \in Seq(Handler) /\ Unique(queue) /\ context \in Context /\ client \in Client
      /\ issued \in 0..MaxCommands /\ context.out <= context.pending
      /\ context.pending <= issued /\ Fits(client, queue, context.alive)
  BY DEF IInv, TypeOK, Legal, Now
<1>2. /\ q \in Seq(Handler) /\ Len(q) = Len(queue) - 1
      /\ \A i \in DOMAIN q : i + 1 \in DOMAIN queue /\ q[i] = queue[i + 1]
      /\ \A i \in DOMAIN queue : i # 1 => i - 1 \in DOMAIN q /\ q[i - 1] = queue[i]
      /\ DOMAIN q \subseteq Nat /\ DOMAIN queue \subseteq Nat
  BY <1>1
<1>3. Head(queue) \in Handler /\ 1 \in DOMAIN queue /\ Head(queue) = queue[1]
  BY <1>1
<1>4. Unique(q)
  <2> SUFFICES ASSUME NEW i \in DOMAIN q, NEW j \in DOMAIN q, q[i][1] = q[j][1]
               PROVE  i = j
    BY DEF Unique
  <2>1. i + 1 = j + 1
    BY <1>1, <1>2 DEF Unique
  <2> QED
    BY <1>2, <2>1
<1>5. ~Busy(q, d)
  <2> SUFFICES ASSUME NEW i \in DOMAIN q, q[i][1] = d PROVE FALSE
    BY DEF Busy
  <2>1. i + 1 = 1
    BY <1>1, <1>2, <1>3 DEF Unique
  <2> QED
    BY <1>2, <2>1
<1>6. \A e \in Dir \ {d} : Busy(q, e) <=> Busy(queue, e)
  <2> SUFFICES ASSUME NEW e \in Dir \ {d} PROVE Busy(q, e) <=> Busy(queue, e)
    OBVIOUS
  <2>1. ASSUME Busy(queue, e) PROVE Busy(q, e)
    <3>1. PICK i \in DOMAIN queue : queue[i][1] = e
      BY <2>1 DEF Busy
    <3>2. i # 1
      BY <1>3, <3>1
    <3> QED
      BY <1>2, <3>1, <3>2 DEF Busy
  <2>2. ASSUME Busy(q, e) PROVE Busy(queue, e)
    BY <1>2, <2>2 DEF Busy
  <2> QED
    BY <2>1, <2>2
<1> HIDE DEF q
<1>7. x = [context |-> context, client |-> x.client, issued |-> issued]
  BY <1>1, ClearedFields
<1>8. /\ x.client \in Client /\ x.client.waiting = client.waiting
      /\ x.client.in_progress[d] = FALSE
      /\ \A e \in Dir \ {d} : x.client.in_progress[e] = client.in_progress[e]
  BY <1>1, ClearedFields
<1> HIDE DEF x
<1>9. client.waiting[d] # 1
  <2>1. Busy(queue, d)
    BY <1>3 DEF Busy
  <2> QED
    BY <1>1, <2>1 DEF Fits
<1>10. Fits(x.client, q, context.alive)
  <2>1. ASSUME NEW e \in Dir
        PROVE  /\ x.client.waiting[e] = 1 => x.client.in_progress[e] /\ ~Busy(q, e)
               /\ Busy(q, e) => x.client.in_progress[e]
               /\ context.alive /\ x.client.in_progress[e] =>
                    x.client.waiting[e] = 1 \/ Busy(q, e)
    <3>1. CASE e = d
      BY <1>5, <1>8, <1>9, <3>1
    <3>2. CASE e # d
      BY <1>1, <1>6, <1>8, <3>2 DEF Fits
    <3> QED
      BY <3>1, <3>2
  <2> QED
    BY <1>8, <2>1 DEF Fits
<1>11. Legal(x, q)
  BY <1>1, <1>7, <1>8, <1>10 DEF Legal
<1> QED
  BY <1>2, <1>3, <1>4, <1>11 DEF q, x

(* The handlers: one step for each thing one may do.                       *)
LEMMA HandleKeeps ==
  ASSUME IInv, stale = NoHandler, NEW d \in Dir, handle(d)
  PROVE  IInv'
<1> DEFINE ec == Head(queue)[2]
           cleared == [Now EXCEPT !.client.in_progress[d] = FALSE]
<1>1. queue # <<>> /\ Head(queue)[1] = d /\ queue' = Tail(queue) /\ errors' = errors
  BY DEF handle
<1>2. /\ Legal(cleared, queue')
      /\ queue' \in Seq(Handler) /\ Unique(queue')
      /\ \A i \in DOMAIN queue' : \E j \in DOMAIN queue : queue'[i] = queue[j]
      /\ Head(queue) \in Handler /\ 1 \in DOMAIN queue /\ Head(queue) = queue[1]
  BY <1>1, ClearedLegal
<1>3. ASSUME NEW r, Legal(r, queue'), Becomes([r EXCEPT !.client = operate(@)]),
             UNCHANGED stale
      PROVE  IInv'
  <2> DEFINE x == [r EXCEPT !.client = operate(@)]
  <2>1. r \in [context : Context, client : Client, issued : 0..MaxCommands]
        /\ r.context.alive \in BOOLEAN /\ Fits(r.client, queue', r.context.alive)
    BY <1>3 DEF Legal, Context
  <2>2. x.context = r.context /\ x.issued = r.issued /\ x.client = operate(r.client)
        /\ x \in [context : {r.context}, client : {operate(r.client)}, issued : {r.issued}]
    BY <2>1
  <2>3. Fits(x.client, queue', r.context.alive) /\ Running(x.client)
    BY <2>1, <2>2, OperateFits
  <2>4. Legal(x, queue')
    <3>1. x.client \in Client
      BY <2>3 DEF Fits
    <3> QED
      BY <1>3, <2>2, <2>3, <3>1 DEF Legal
  <2>5. Becomes(x) /\ UNCHANGED <<errors, stale>>
    BY <1>1, <1>3
  <2> HIDE DEF x
  <2> QED
    BY <1>2, <2>3, <2>4, <2>5, BecomesKeeps DEF Running
<1>4. ASSUME NEW r \in IF d = "read" THEN redisAsyncHandleRead(cleared)
                                     ELSE redisAsyncHandleWrite(cleared),
             Becomes([r EXCEPT !.client = operate(@)]), UNCHANGED stale
      PROVE  IInv'
  <2> HIDE DEF cleared
  <2>1. Legal(r, queue')
    BY <1>2, <1>4, ReadLegal, WriteLegal
  <2> QED
    BY <1>3, <1>4, <2>1
<1>5. ASSUME ec = "none", ~context.alive, stale' = Head(queue),
             UNCHANGED <<context, client, ended, issued, late>>
      PROVE  IInv'
  <2>1. Head(queue)[2] = "none" /\ \E j \in DOMAIN late : late[j] = Head(queue)
    BY <1>2, <1>5 DEF IInv, Leftover
  <2>2. UseAfterFreeCause'
    BY <1>5, <2>1 DEF UseAfterFreeCause
  <2>3. TypeOK'
    BY <1>1, <1>2, <1>5 DEF IInv, TypeOK
  <2>4. Armed'
    BY <1>5 DEF Armed
  <2>5. Leftover'
    <3>1. \A j \in DOMAIN queue : queue[j][2] = "none" =>
            \E k \in DOMAIN late : late[k] = queue[j]
      BY <1>5 DEF IInv, Leftover
    <3> QED
      BY <1>2, <1>5, <3>1 DEF Leftover
  <2>6. Legal(Now, queue)'
    <3>1. Fits(client, queue', context.alive)
      <4>1. Fits(client, queue, context.alive) /\ context.alive \in BOOLEAN
        BY DEF IInv, Legal, Now, TypeOK, Context
      <4>2. \A e \in Dir : Busy(queue', e) => Busy(queue, e)
        BY <1>2 DEF Busy
      <4> QED
        BY <1>5, <4>1, <4>2 DEF Fits
    <3>2. context' = context /\ client' = client /\ issued' = issued
          /\ context.out <= context.pending /\ context.pending <= issued
      BY <1>5 DEF IInv, Legal, Now
    <3>3. Now' = [context |-> context', client |-> client', issued |-> issued']
      BY DEF Now
    <3> QED
      BY <2>3, <3>1, <3>2, <3>3 DEF Legal, TypeOK
  <2> QED
    BY <1>2, <2>2, <2>3, <2>4, <2>5, <2>6 DEF IInv
<1>6. ASSUME client' = cleared.client, ended' = [ended EXCEPT ![d] = ec = "other"],
             ec = "other", UNCHANGED <<context, issued, late, stale>>
      PROVE  IInv'
  <2>1. ended' \in [Dir -> BOOLEAN] /\ ended'[d] = TRUE
        /\ \A e \in Dir \ {d} : ended'[e] = ended[e]
    BY <1>6 DEF IInv, TypeOK
  <2>2. /\ cleared = [context |-> context, client |-> cleared.client, issued |-> issued]
        /\ cleared.client \in Client
        /\ cleared.client.requested = client.requested
        /\ \A e \in Dir \ {d} : cleared.client.in_progress[e] = client.in_progress[e]
    <3>1. client \in Client
      BY DEF IInv, TypeOK
    <3> QED
      BY <3>1, ClearedFields
  <2> HIDE DEF cleared
  <2>3. /\ client' \in Client /\ client'.requested = client.requested
        /\ \A e \in Dir \ {d} : client'.in_progress[e] = client.in_progress[e]
        /\ Now' = cleared
    BY <1>6, <2>2 DEF Now
  <2>4. TypeOK'
    BY <1>1, <1>2, <1>6, <2>1, <2>3 DEF IInv, TypeOK
  <2>5. Legal(Now, queue)'
    BY <1>2, <2>3
  <2>6. Armed'
    BY <1>6, <2>1, <2>3 DEF IInv, Armed
  <2>7. Leftover'
    BY <1>2, <1>6 DEF IInv, Leftover
  <2>8. UseAfterFreeCause'
    BY <1>6 DEF UseAfterFreeCause
  <2> QED
    BY <1>2, <2>4, <2>5, <2>6, <2>7, <2>8 DEF IInv
<1>7. \/ \E r \in IF d = "read" THEN redisAsyncHandleRead(cleared)
                                ELSE redisAsyncHandleWrite(cleared) :
           Becomes([r EXCEPT !.client = operate(@)]) /\ UNCHANGED stale
      \/ /\ ec = "none" /\ ~context.alive /\ stale' = Head(queue)
         /\ UNCHANGED <<context, client, ended, issued, late>>
      \/ Becomes([cleared EXCEPT !.client = operate(@)]) /\ UNCHANGED stale
      \/ /\ client' = cleared.client /\ ended' = [ended EXCEPT ![d] = ec = "other"]
         /\ ec = "other" /\ UNCHANGED <<context, issued, late, stale>>
  <2>1. ec \in Code
    BY <1>2 DEF Handler
  <2> QED
    BY <2>1 DEF handle, calls, operates, Code
<1> QED
  BY <1>2, <1>3, <1>4, <1>5, <1>6, <1>7

LEMMA NextIInv == IInv /\ [Next]_vars => IInv'
<1> SUFFICES ASSUME IInv, [Next]_vars PROVE IInv'
  OBVIOUS
<1>1. CASE UNCHANGED vars
  BY <1>1 DEF vars, IInv, TypeOK, Legal, Now, Fits, Busy, Unique, Armed, Leftover,
              UseAfterFreeCause
<1>2. ASSUME stale = NoHandler, Command PROVE IInv'
  BY <1>2, CommandKeeps
<1>3. ASSUME stale = NoHandler, redisAsyncDisconnect PROVE IInv'
  BY <1>3, DisconnectKeeps
<1>4. ASSUME stale = NoHandler, NEW d \in Dir, NEW ec \in Code, Complete(d, ec) PROVE IInv'
  BY <1>4, CompleteKeeps
<1>5. ASSUME stale = NoHandler, NEW d \in Dir, handle(d) PROVE IInv'
  BY <1>5, HandleKeeps
<1> QED
  BY <1>1, <1>2, <1>3, <1>4, <1>5 DEF Next

(* The invariant, which every theorem below rests on.                      *)
THEOREM Invariance == Spec => []IInv
BY InitIInv, NextIInv, PTL DEF Spec

-----------------------------------------------------------------------------
(* The theorems.                                                           *)

(* The variables have their types.  That no direction ever has two         *)
(* operations waiting, not even once the context is freed, is part of it.  *)
THEOREM TypeCorrect == Spec => []TypeOK
<1>1. IInv => TypeOK
  BY DEF IInv
<1> QED
  BY <1>1, Invariance, PTL

(* While the context lives, a direction marked in progress has exactly one *)
(* operation in asio or one handler queued, and any other has none.        *)
THEOREM Operations == Spec => []OneOperation
<1>1. IInv => OneOperation
  <2> SUFFICES ASSUME IInv, context.alive, NEW d \in Dir
               PROVE  IF client.in_progress[d]
                      THEN \/ client.waiting[d] = 1 /\ InQueue(d) = {}
                           \/ client.waiting[d] = 0 /\ \E i \in DOMAIN queue : InQueue(d) = {i}
                      ELSE client.waiting[d] = 0 /\ InQueue(d) = {}
    BY DEF OneOperation
  <2>1. client.waiting[d] \in 0..1 /\ Unique(queue)
    BY DEF IInv, TypeOK, Client
  <2>2. /\ client.waiting[d] = 1 => client.in_progress[d] /\ ~Busy(queue, d)
        /\ Busy(queue, d) => client.in_progress[d]
        /\ client.in_progress[d] => client.waiting[d] = 1 \/ Busy(queue, d)
    BY DEF IInv, Legal, Now, Fits
  <2>3. ~Busy(queue, d) <=> InQueue(d) = {}
    BY DEF Busy, InQueue
  <2>4. Busy(queue, d) => \E i \in DOMAIN queue : InQueue(d) = {i}
    BY <2>1 DEF Busy, InQueue, Unique
  <2> QED
    BY <2>1, <2>2, <2>3, <2>4
<1> QED
  BY <1>1, Invariance, PTL

(* What hiredis asked for is under way, or its last operation ended in an  *)
(* error that the handler keeps to itself.                                 *)
THEOREM AskedIsArmed == Spec => []Armed
<1>1. IInv => Armed
  BY DEF IInv
<1> QED
  BY <1>1, Invariance, PTL

(* A freed context is used only by a handler that was queued, without an   *)
(* error, when the context was freed.                                      *)
THEOREM MemoryUse == Spec => []UseAfterFreeCause
<1>1. IInv => UseAfterFreeCause
  BY DEF IInv
<1> QED
  BY <1>1, Invariance, PTL
=============================================================================
