------------------------ MODULE SyncRefinementProofs ------------------------
(***************************************************************************)
(* SyncCommand implements ConnectionPool, for every number of threads,     *)
(* pools and connections: each step of a thread or of the teardown is one  *)
(* step of the abstract pool, or none.                                     *)
(***************************************************************************)
EXTENDS SyncCommandProofs, SyncRefinement

-----------------------------------------------------------------------------
(* What the steps on the queues do to the set of idle connections.         *)

(* An idle connection is one that lies in a queue.                         *)
LEMMA QueuedMember ==
  ASSUME TypeInv
  PROVE  \A c : c \in Queued <=> \E p \in Pool : \E i \in 1..Len(queue[p]) : queue[p][i] = c
  <1>1. \A p \in Pool : DOMAIN queue[p] = 1..Len(queue[p])
    BY DEF TypeInv, TypeOK, PoolTypeOK
  <1>. QED
    BY <1>1 DEF Queued

Members == \A c : c \in Queued <=> \E p \in Pool : \E i \in 1..Len(queue[p]) : queue[p][i] = c

LEMMA QueuedMemberNext == TypeInv' => Members'
  <1>1. TypeInv => Members
    BY QueuedMember DEF Members
  <1>. QED
    BY <1>1, PTL

(* The front of a queue leaves the idle connections when it is pulled.     *)
LEMMA QueuedPulled ==
  ASSUME TypeInv, TypeInv', Custody, NEW p \in Pool, Pull(p)
  PROVE  /\ Head(queue[p]) \in Queued /\ Head(queue[p]) \in Conn
         /\ Queued' = Queued \ {Head(queue[p])}
  <1>. DEFINE q == queue[p]
  <1>1. /\ q \in Seq(Conn) /\ q # <<>> /\ queue \in [Pool -> Seq(Conn)]
        /\ queue' = [queue EXCEPT ![p] = Tail(q)]
    BY DEF Pull, TypeInv, TypeOK, PoolTypeOK
  <1>2. /\ Head(q) \in Conn /\ Head(q) = q[1] /\ 1 \in 1..Len(q)
        /\ Len(q) \in Nat \ {0} /\ Len(Tail(q)) = Len(q) - 1
        /\ \A i \in 1..Len(Tail(q)) : i + 1 \in 2..Len(q) /\ Tail(q)[i] = q[i + 1]
    BY <1>1, FrontOfQueue
  <1>3. Members /\ Members'
    BY QueuedMember, QueuedMemberNext DEF Members
  <1>4. Head(q) \in Queued
    BY <1>2, <1>3 DEF Members
  <1>5. ASSUME NEW c \in Queued \ {Head(q)} PROVE c \in Queued'
    <2>0. PICK r \in Pool : \E i \in 1..Len(queue[r]) : queue[r][i] = c
      BY <1>3 DEF Members
    <2>1. PICK i \in 1..Len(queue[r]) : queue[r][i] = c
      BY <2>0
    <2>2. CASE r # p
      <3>1. queue'[r] = queue[r]
        BY <1>1, <2>2
      <3>. QED
        BY <1>3, <2>1, <3>1 DEF Members
    <2>3. CASE r = p
      <3>1. i - 1 \in 1..Len(Tail(q)) /\ (i - 1) + 1 = i
        BY <1>2, <2>1, <2>3, <1>5
      <3>2. queue'[p] = Tail(q) /\ Tail(q)[i - 1] = c
        BY <1>1, <1>2, <2>1, <2>3, <3>1
      <3>. QED
        BY <1>3, <3>1, <3>2 DEF Members
    <2>. QED
      BY <2>2, <2>3
  <1>6. ASSUME NEW c \in Queued' PROVE c \in Queued /\ c # Head(q)
    <2>0. PICK r \in Pool : \E i \in 1..Len(queue'[r]) : queue'[r][i] = c
      BY <1>3 DEF Members
    <2>1. PICK i \in 1..Len(queue'[r]) : queue'[r][i] = c
      BY <2>0
    <2>2. PICK j \in 1..Len(queue[r]) : queue[r][j] = c /\ (r = p => j # 1)
      <3>1. CASE r # p
        BY <1>1, <2>1, <3>1
      <3>2. CASE r = p
        <4>1. i \in 1..Len(Tail(q)) /\ Tail(q)[i] = c
          BY <1>1, <2>1, <3>2
        <4>2. i + 1 \in 1..Len(q) /\ q[i + 1] = c /\ i + 1 # 1
          BY <1>2, <4>1
        <4>. QED
          BY <3>2, <4>2
      <3>. QED
        BY <3>1, <3>2
    <2>3. c # q[1]
      BY <1>2, <2>2 DEF Custody, ConnectionExclusive
    <2>. QED
      BY <1>2, <1>3, <2>2, <2>3 DEF Members
  <1>. QED
    BY <1>2, <1>4, <1>5, <1>6

(* A connection given back is idle again.                                  *)
LEMMA QueuedPushed ==
  ASSUME TypeInv, TypeInv', NEW p \in Pool, NEW c \in Conn, Push(p, c)
  PROVE  Queued' = Queued \cup {c}
  <1>1. /\ queue[p] \in Seq(Conn) /\ queue \in [Pool -> Seq(Conn)]
        /\ queue' = [queue EXCEPT ![p] = Append(queue[p], c)]
    BY DEF Push, TypeInv, TypeOK, PoolTypeOK
  <1>2. /\ Len(Append(queue[p], c)) = Len(queue[p]) + 1 /\ Len(queue[p]) \in Nat
        /\ \A i \in 1..Len(queue[p]) : Append(queue[p], c)[i] = queue[p][i]
        /\ Append(queue[p], c)[Len(queue[p]) + 1] = c
    BY <1>1, BackOfQueue
  <1>3. Members /\ Members'
    BY QueuedMember, QueuedMemberNext DEF Members
  <1>4. /\ queue'[p] = Append(queue[p], c)
        /\ \A r \in Pool \ {p} : queue'[r] = queue[r]
    BY <1>1
  <1>5. c \in Queued'
    BY <1>2, <1>3, <1>4 DEF Members
  <1>6. ASSUME NEW d \in Queued PROVE d \in Queued'
    <2>0. PICK r \in Pool : \E i \in 1..Len(queue[r]) : queue[r][i] = d
      BY <1>3 DEF Members
    <2>1. PICK i \in 1..Len(queue[r]) : queue[r][i] = d
      BY <2>0
    <2>2. i \in 1..Len(queue'[r]) /\ queue'[r][i] = d
      BY <1>2, <1>4, <2>1
    <2>. QED
      BY <1>3, <2>2 DEF Members
  <1>7. ASSUME NEW d \in Queued', d # c PROVE d \in Queued
    <2>0. PICK r \in Pool : \E i \in 1..Len(queue'[r]) : queue'[r][i] = d
      BY <1>3 DEF Members
    <2>1. PICK i \in 1..Len(queue'[r]) : queue'[r][i] = d
      BY <2>0
    <2>2. i \in 1..Len(queue[r]) /\ queue[r][i] = d
      BY <1>2, <1>4, <1>7, <2>1
    <2>. QED
      BY <1>3, <2>2 DEF Members
  <1>. QED
    BY <1>5, <1>6, <1>7

LEMMA QueuedCreated ==
  ASSUME TypeInv, TypeInv', NEW p \in Pool, queue[p] = <<>>,
         NEW q \in Seq(Conn), queue' = [queue EXCEPT ![p] = q]
  PROVE  Queued' = Queued \cup {q[i] : i \in 1..Len(q)}
  <1>1. Members /\ Members'
    BY QueuedMember, QueuedMemberNext DEF Members
  <1>2. queue'[p] = q /\ \A r \in Pool \ {p} : queue'[r] = queue[r]
    BY DEF TypeInv, TypeOK, PoolTypeOK
  <1>3. Len(queue[p]) = 0
    OBVIOUS
  <1>4. ASSUME NEW c \in Queued PROVE c \in Queued'
    <2>0. PICK r \in Pool : \E i \in 1..Len(queue[r]) : queue[r][i] = c
      BY <1>1 DEF Members
    <2>1. PICK i \in 1..Len(queue[r]) : queue[r][i] = c
      BY <2>0
    <2>2. r # p
      BY <1>3, <2>1
    <2>. QED
      BY <1>1, <1>2, <2>1, <2>2 DEF Members
  <1>5. ASSUME NEW c \in Queued' PROVE c \in Queued \cup {q[i] : i \in 1..Len(q)}
    <2>0. PICK r \in Pool : \E i \in 1..Len(queue'[r]) : queue'[r][i] = c
      BY <1>1 DEF Members
    <2>1. PICK i \in 1..Len(queue'[r]) : queue'[r][i] = c
      BY <2>0
    <2>2. CASE r = p
      BY <1>2, <2>1, <2>2
    <2>3. CASE r # p
      BY <1>1, <1>2, <2>1, <2>3 DEF Members
    <2>. QED
      BY <2>2, <2>3
  <1>6. \A i \in 1..Len(q) : q[i] \in Queued'
    BY <1>1, <1>2 DEF Members
  <1>. QED
    BY <1>4, <1>5, <1>6
-----------------------------------------------------------------------------
(* The abstract pool sees the idle connections, who holds what, and what   *)
(* the map has lost track of.                                              *)
Lost == {c \in Conn : c[1] \in Forgotten}

View == <<Queued, con, Lost>>

LEMMA ViewKept ==
  ASSUME UNCHANGED <<queue, con, Forgotten>>
  PROVE  UNCHANGED View
  BY DEF View, Queued, Lost

LEMMA OfNode == \A k : \A c : c \in Abstract!Of(k) <=> c \in Conn /\ c[1][1] = k
  BY DEF Abstract!Of, NodeOf

(* The map forgets nothing when insert() puts a pool behind the iterator,  *)
(* only when it is cleared.                                                *)
LEMMA NothingForgotten ==
  ASSUME UNCHANGED phase, UNCHANGED behind \/ \E p : Record(p)
  PROVE  UNCHANGED Forgotten
  BY DEF Forgotten, Record, Passed

LEMMA ThreadForgets ==
  ASSUME NEW t \in Thread, ThreadStep(t)
  PROVE  UNCHANGED Forgotten
  <1>. USE NothingForgotten DEF mainVars
  <1>1. CASE Crash
    BY <1>1 DEF Crash
  <1>2. ASSUME NEW p, PullConnection(t, p) PROVE UNCHANGED Forgotten
    BY <1>2 DEF PullConnection
  <1>3. CASE (\E r \in SlotRange : Begin(t, r)) \/ NotInitialized(t)
    BY <1>3 DEF Begin, NotInitialized
  <1>4. CASE GetConnection(t) \/ PullAgain(t) \/ UseDeletedPool(t)
    BY <1>1, <1>2, <1>4 DEF GetConnection, PullAgain, UseDeletedPool, Deref
  <1>5. CASE Insert(t)
    BY <1>1, <1>2, <1>5 DEF Insert, Deref
  <1>6. CASE Send(t) \/ SendAsking(t) \/ AskingReply(t)
    BY <1>1, <1>6 DEF Send, SendAsking, AskingReply
  <1>7. CASE SlotReply(t) \/ AskReply(t) \/ MovedReply(t)
    BY <1>1, <1>7 DEF SlotReply, AskReply, MovedReply
  <1>8. CASE Release(t) \/ Notify(t)
    BY <1>1, <1>8 DEF Release, Notify, Deref
  <1>. QED
    BY <1>3, <1>4, <1>5, <1>6, <1>7, <1>8 DEF ThreadStep

(* The connections of the pool that insert() makes for a key are new, and  *)
(* whatever is left of the key's former pool has been forgotten.           *)
LEMMA NoneLeft ==
  ASSUME TypeInv, Walk, Custody, NEW k \in Key, entry[k] = "absent",
         NEW p \in Pool, p = NewPool(k)
  PROVE  /\ queue[p] = <<>>
         /\ Abstract!Unconnected(k)
         /\ \A i \in 1..PoolSize : <<p, i>> \in Abstract!Of(k) \ Lost
  <1>1. ~Mapped(p) /\ p \notin Forgotten /\ p[1] = k
    BY NewPoolFresh, PoolMade
  <1>2. queue[p] = <<>>
    BY <1>1 DEF Custody, Lifetimes
  <1>3. \A i \in 1..PoolSize : <<p, i>> \in Abstract!Of(k) \ Lost
    <2>1. \A i \in 1..PoolSize : <<p, i>> \in Conn /\ <<p, i>>[1] = p
      BY DEF Conn
    <2>. QED
      BY <1>1, <2>1, OfNode DEF Lost
  <1>4. ASSUME NEW c \in Conn, c[1] \in Pool, c[1][1] = k, c[1] \notin Forgotten
        PROVE  Used(c[1]) = {}
    <2>1. ~Mapped(c[1])
      BY <1>4 DEF Mapped, Pool, Made
    <2>. QED
      BY <1>4, <2>1 DEF Custody, Lifetimes
  <1>5. ASSUME NEW c \in Queued, c \in Abstract!Of(k) PROVE c \in Lost
    <2>1. c \in Conn /\ c[1][1] = k
      BY <1>5, OfNode
    <2>2. PICK q \in Pool : \E j \in 1..Len(queue[q]) : queue[q][j] = c
      BY QueuedMember
    <2>3. c[1] \in Pool /\ Used(c[1]) # {}
      BY <2>2, IdleIsUsed
    <2>. QED
      BY <1>4, <2>1, <2>3 DEF Lost
  <1>6. ASSUME NEW c \in Abstract!Held, c \in Abstract!Of(k) PROVE c \in Lost
    <2>1. c \in Conn /\ c[1][1] = k
      BY <1>6, OfNode
    <2>2. PICK u \in Thread : con[u] = c /\ con[u] # None
      BY DEF Abstract!Held
    <2>3. c[1] \in Pool /\ Used(c[1]) # {}
      BY <2>2, HeldIsUsed
    <2>. QED
      BY <1>4, <2>1, <2>3 DEF Lost
  <1>. QED
    BY <1>2, <1>3, <1>5, <1>6 DEF Abstract!Unconnected, Lost

-----------------------------------------------------------------------------
LEMMA RefinementInit == Init => Abstract!Init
  <1>. SUFFICES ASSUME Init PROVE Abstract!Init
    OBVIOUS
  <1>1. TypeInv
    BY TypeInit
  <1>2. Queued \subseteq Conn
    <2>1. ASSUME NEW c \in Queued PROVE c \in Conn
      <3>1. PICK p \in Pool : \E j \in 1..Len(queue[p]) : queue[p][j] = c
        BY <1>1, QueuedMember
      <3>. QED
        BY <1>1, <3>1, IdleIsUsed
    <2>. QED
      BY <2>1
  <1>3. con = [t \in Thread |-> None]
    BY DEF Init
  <1>4. Lost = {}
    BY DEF Init, Forgotten, Lost
  <1>. QED
    BY <1>2, <1>3, <1>4 DEF Abstract!Init, Lost

(* A thread pulls a connection and keeps it, or throws at once.            *)
LEMMA RefinementPulled ==
  ASSUME TypeInv, TypeInv', Custody, NEW t \in Thread, con[t] = None,
         NEW p \in Pool, Pull(p), UNCHANGED Forgotten,
         con' = [con EXCEPT ![t] = Head(queue[p])] \/ con' = con
  PROVE  Abstract!Next
  <1>1. /\ Head(queue[p]) \in Queued /\ Head(queue[p]) \in Conn
        /\ Queued' = Queued \ {Head(queue[p])}
    BY QueuedPulled
  <1>2. CASE con' = con
    <2>1. Abstract!Close(Head(queue[p]))
      BY <1>1, <1>2 DEF Abstract!Close
    <2>. QED
      BY <1>1, <2>1 DEF Abstract!Next
  <1>3. CASE con' = [con EXCEPT ![t] = Head(queue[p])]
    <2>1. Abstract!Take(t, Head(queue[p]))
      BY <1>1, <1>3 DEF Abstract!Take
    <2>. QED
      BY <1>1, <2>1 DEF Abstract!Next
  <1>. QED
    BY <1>2, <1>3

(* What Take leaves in con, in the two ways a leg can begin.               *)
LEMMA TakeCon ==
  ASSUME TypeInv, NEW t \in Thread, con[t] = None, NEW c, Take(t, c)
  PROVE  con' = [con EXCEPT ![t] = c] \/ con' = con
  BY DEF Take, Throw, Finish, TypeInv, TypeOK

LEMMA FinishCon ==
  ASSUME TypeInv, NEW t \in Thread, con[t] = None, NEW how, Finish(t, how)
  PROVE  con' = con
  BY DEF Finish, TypeInv, TypeOK

LEMMA RefinementPullConnection ==
  ASSUME TypeInv, TypeInv', Custody, NEW t \in Thread, con[t] = None,
         NEW p \in Pool, PullConnection(t, p), UNCHANGED Forgotten
  PROVE  Abstract!Next \/ UNCHANGED View
  <1>1. CASE Pull(p) /\ Take(t, Head(queue[p]))
    <2>1. PICK c : c = Head(queue[p])
      OBVIOUS
    <2>2. con' = [con EXCEPT ![t] = c] \/ con' = con
      BY <1>1, <2>1, TakeCon
    <2>. QED
      BY <1>1, <2>1, <2>2, RefinementPulled
  <1>2. CASE Wait(t, p) /\ UNCHANGED con
    BY <1>2, ViewKept DEF Wait
  <1>. QED
    BY <1>1, <1>2 DEF PullConnection

(* The same through the map's pointer for a key.                           *)
LEMMA RefinementPullAt ==
  ASSUME TypeInv, TypeInv', Custody, NEW t \in Thread, con[t] = None,
         NEW k \in Key, Deref(k, PullConnection(t, At(k))), UNCHANGED Forgotten
  PROVE  Abstract!Next \/ UNCHANGED View
  <1>1. CASE Live(k) /\ PullConnection(t, At(k))
    <2>1. PICK p \in Pool : p = At(k)
      BY <1>1, PoolAt
    <2>2. PullConnection(t, p)
      BY <1>1, <2>1
    <2>. QED
      BY <2>2, RefinementPullConnection
  <1>2. CASE Crash
    BY <1>2, ViewKept DEF Crash, poolVars, threadVars
  <1>. QED
    BY <1>1, <1>2 DEF Deref

(* A thread that has spoken on its connection keeps it or drops it.        *)
LEMMA RefinementSpoken ==
  ASSUME TypeInv, NEW t \in Thread, con[t] # None, UNCHANGED <<queue, Forgotten>>,
         UNCHANGED con \/ \E how : Finish(t, how)
  PROVE  Abstract!Next \/ UNCHANGED View
  <1>1. CASE UNCHANGED con
    BY <1>1, ViewKept
  <1>2. CASE con' = [con EXCEPT ![t] = None]
    <2>1. Queued' = Queued
      BY DEF Queued
    <2>2. Abstract!Abandon(t)
      BY <1>2, <2>1 DEF Abstract!Abandon
    <2>. QED
      BY <2>2 DEF Abstract!Next
  <1>. QED
    BY <1>1, <1>2 DEF Finish

LEMMA RefinementInsert ==
  ASSUME TypeInv, TypeInv', Walk, Custody, NEW t \in Thread, con[t] = None, Insert(t),
         UNCHANGED Forgotten, NEW k \in Key, key[t] = k,
         NEW p \in Pool, p = NewPool(k)
  PROVE  Abstract!Next \/ UNCHANGED View
  <1>1. CASE Deref(k, PullConnection(t, At(k)))
    BY <1>1, RefinementPullAt
  <1>2. CASE CreatePool(p) /\ Take(t, Filled(p, PoolSize)[1])
    <2>. DEFINE s == Filled(p, PoolSize)
                c == <<p, 1>>
                S == {<<p, i>> : i \in 1..PoolSize}
    <2>0. PoolSize \in Nat \ {0} /\ PoolSize \in 0..PoolSize /\ 1 \in 1..PoolSize
      BY PoolAssumption
    <2>1. s \in Seq(Conn) /\ Len(s) = PoolSize /\ \A i \in 1..PoolSize : s[i] = <<p, i>>
      BY <2>0, NewQueue
    <2>2. s # <<>> /\ s[1] = c
      BY <2>0, <2>1
    <2>3. /\ Tail(s) \in Seq(Conn) /\ Len(Tail(s)) = PoolSize - 1
          /\ \A j \in 1..Len(Tail(s)) : j + 1 \in 2..PoolSize /\ Tail(s)[j] = s[j + 1]
      BY <2>1, <2>2, FrontOfQueue
    <2>4. {Tail(s)[j] : j \in 1..Len(Tail(s))} = S \ {c}
      <3>1. ASSUME NEW j \in 1..Len(Tail(s)) PROVE Tail(s)[j] \in S \ {c}
        <4>1. j + 1 \in 1..PoolSize /\ j + 1 # 1 /\ Tail(s)[j] = <<p, j + 1>>
          BY <2>0, <2>1, <2>3
        <4>2. <<p, j + 1>> # <<p, 1>>
          BY <4>1
        <4>. QED
          BY <4>1, <4>2
      <3>2. ASSUME NEW d \in S \ {c} PROVE \E j \in 1..Len(Tail(s)) : Tail(s)[j] = d
        <4>2. PICK i \in 1..PoolSize : d = <<p, i>>
          OBVIOUS
        <4>3. i # 1
          BY <3>2, <4>2
        <4>4. i - 1 \in 1..Len(Tail(s)) /\ (i - 1) + 1 = i
          BY <2>0, <2>3, <4>3
        <4>5. Tail(s)[i - 1] = <<p, i>>
          BY <2>1, <2>3, <4>4
        <4>. QED
          BY <4>2, <4>4, <4>5
      <3>. QED
        BY <3>1, <3>2
    <2>5. entry[k] = "absent" /\ queue' = [queue EXCEPT ![p] = Tail(s)]
      BY <1>2, PoolMade DEF CreatePool
    <2>6. /\ queue[p] = <<>> /\ Abstract!Unconnected(k)
          /\ S \in SUBSET (Abstract!Of(k) \ Lost) /\ c \in S
      BY <2>0, <2>5, NoneLeft
    <2>7. Queued' = Queued \cup (S \ {c})
      <3>. HIDE DEF s, S
      <3>. QED
        BY <2>3, <2>4, <2>5, <2>6, QueuedCreated
    <2>8. con' = [con EXCEPT ![t] = c] \/ con' = con
      BY <1>2, <2>2, TakeCon
    <2>. HIDE DEF s, S, c
    <2>9. CASE con' = [con EXCEPT ![t] = c]
      <3>1. Abstract!OpenAndTake(t, k)
        BY <2>6, <2>7, <2>9 DEF Abstract!OpenAndTake, Lost
      <3>. QED
        BY <3>1 DEF Abstract!Next
    <2>10. CASE con' = con
      <3>1. S \ {c} \in SUBSET (Abstract!Of(k) \ Lost)
        BY <2>6
      <3>2. Abstract!Open(k)
        BY <2>6, <2>7, <2>10, <3>1 DEF Abstract!Open, Lost
      <3>. QED
        BY <3>2 DEF Abstract!Next
    <2>. QED
      BY <2>8, <2>9, <2>10
  <1>3. ASSUME NEW n \in 0..(PoolSize - 1), CreatePoolFails(p, n), Throw(t)
        PROVE  Abstract!Next
    <2>. DEFINE s == Filled(p, n)
                S == {s[i] : i \in 1..Len(s)}
    <2>0. n \in 0..PoolSize /\ \A i \in 1..n : i \in 1..PoolSize
      BY PoolAssumption
    <2>1. s \in Seq(Conn) /\ Len(s) = n /\ \A i \in 1..n : s[i] = <<p, i>>
      BY <2>0, NewQueue
    <2>2. entry[k] = "absent" /\ queue' = [queue EXCEPT ![p] = s]
      BY <1>3, PoolMade DEF CreatePoolFails
    <2>3. /\ queue[p] = <<>> /\ Abstract!Unconnected(k)
          /\ \A i \in 1..PoolSize : <<p, i>> \in Abstract!Of(k) \ Lost
      BY <2>2, NoneLeft
    <2>4. S \in SUBSET (Abstract!Of(k) \ Lost)
      BY <2>0, <2>1, <2>3
    <2>5. Queued' = Queued \cup S
      <3>. HIDE DEF s
      <3>. QED
        BY <2>1, <2>2, <2>3, QueuedCreated
    <2>6. con' = con
      BY <1>3, FinishCon DEF Throw
    <2>. HIDE DEF S
    <2>7. Abstract!Open(k)
      BY <2>3, <2>4, <2>5, <2>6 DEF Abstract!Open, Lost
    <2>. QED
      BY <2>7 DEF Abstract!Next
  <1>. QED
    BY <1>1, <1>2, <1>3 DEF Insert

(* A connection goes back into the pool that is now at its key.            *)
LEMMA RefinementReleased ==
  ASSUME TypeInv, TypeInv', NEW t \in Thread, con[t] # None, con[t] \in Conn,
         NEW k \in Key, Live(k), Push(At(k), con[t]),
         con' = [con EXCEPT ![t] = None], UNCHANGED Forgotten
  PROVE  Abstract!Next
  <1>1. PICK p \in Pool : p = At(k)
    BY PoolAt
  <1>2. PICK c \in Conn : c = con[t]
    OBVIOUS
  <1>3. Push(p, c)
    BY <1>1, <1>2
  <1>4. Queued' = Queued \cup {con[t]}
    BY <1>2, <1>3, QueuedPushed
  <1>5. Abstract!GiveBack(t)
    BY <1>4 DEF Abstract!GiveBack
  <1>. QED
    BY <1>5 DEF Abstract!Next

(* A step of a thread is a step of the abstract pool, or none.             *)
LEMMA RefinementThreadStep ==
  ASSUME TypeInv, TypeInv', Walk, Custody, NEW t \in Thread, ThreadStep(t)
  PROVE  Abstract!Next \/ UNCHANGED View
  <1>. USE DEF poolVars, threadVars
  <1>0. UNCHANGED Forgotten
    BY ThreadForgets
  <1>1. /\ con[t] # None <=> pc[t] \in Holding
        /\ pc[t] # "idle" => key[t] \in Key
    BY TypeFacts DEF TypeInv, Control, ControlOf
  <1>2. CASE Crash
    BY <1>0, <1>2, ViewKept DEF Crash
  <1>3. CASE \E r \in SlotRange : Begin(t, r)
    BY <1>0, <1>3, ViewKept DEF Begin
  <1>4. ASSUME UNCHANGED queue, con[t] = None, UNCHANGED con \/ \E how : Finish(t, how)
        PROVE  UNCHANGED View
    BY <1>0, <1>4, ViewKept, FinishCon
  <1>5. CASE NotInitialized(t)
    BY <1>1, <1>4, <1>5 DEF NotInitialized, Throw, Holding
  <1>6. CASE GetConnection(t)
    <2>1. con[t] = None /\ key[t] \in Key
      BY <1>1, <1>6 DEF GetConnection, Holding
    <2>2. CASE Deref(key[t], PullConnection(t, At(key[t])))
      <3>1. PICK k \in Key : k = key[t]
        BY <2>1
      <3>2. Deref(k, PullConnection(t, At(k)))
        BY <2>2, <3>1
      <3>. QED
        BY <1>0, <2>1, <3>2, RefinementPullAt
    <2>. QED
      BY <1>4, <1>6, <2>1, <2>2 DEF GetConnection, Throw
  <1>7. CASE Insert(t)
    <2>1. con[t] = None /\ key[t] \in Key
      BY <1>1, <1>7 DEF Insert, Holding
    <2>2. PICK k \in Key : k = key[t]
      BY <2>1
    <2>3. PICK p \in Pool : p = NewPool(k)
      BY PoolMade
    <2>. QED
      BY <1>0, <1>7, <2>1, <2>2, <2>3, RefinementInsert
  <1>8. CASE PullAgain(t)
    <2>1. con[t] = None /\ pool[t] \in Pool
      BY <1>1, <1>8, TypeFacts DEF PullAgain, Holding
    <2>2. PICK p \in Pool : p = pool[t]
      BY <2>1
    <2>3. PullConnection(t, p)
      BY <1>8, <2>2 DEF PullAgain
    <2>. QED
      BY <1>0, <2>1, <2>3, RefinementPullConnection
  <1>9. CASE UseDeletedPool(t)
    BY <1>2, <1>9 DEF UseDeletedPool
  <1>10. CASE Send(t) \/ SendAsking(t)
    BY <1>0, <1>10, ViewKept DEF Send, SendAsking
  <1>11. CASE AskingReply(t)
    BY <1>0, <1>1, <1>2, <1>11, RefinementSpoken DEF AskingReply, Throw, Holding
  <1>12. CASE SlotReply(t)
    BY <1>0, <1>1, <1>12, RefinementSpoken DEF SlotReply, KeepReply, Throw, Holding
  <1>13. CASE AskReply(t)
    BY <1>0, <1>1, <1>2, <1>13, RefinementSpoken DEF AskReply, KeepReply, Throw, Holding
  <1>14. CASE MovedReply(t)
    BY <1>0, <1>14, ViewKept DEF MovedReply, KeepReply
  <1>15. CASE Release(t)
    <2>1. con[t] \in Conn /\ con[t] # None /\ key[t] \in Key
      BY <1>1, <1>15, TypeFacts DEF Release, Holding
    <2>2. PICK k \in Key : k = key[t]
      BY <2>1
    <2>3. Crash \/ (Live(k) /\ Push(At(k), con[t]) /\ con' = [con EXCEPT ![t] = None])
      BY <1>15, <2>2 DEF Release, Deref
    <2>. QED
      BY <1>0, <1>2, <2>1, <2>3, RefinementReleased
  <1>16. CASE Notify(t)
    BY <1>1, <1>4, <1>16 DEF Notify, Redirect, Holding
  <1>. QED
    BY <1>3, <1>5, <1>6, <1>7, <1>8, <1>9, <1>10, <1>11, <1>12, <1>13, <1>14, <1>15, <1>16
    DEF ThreadStep

(* Of the steps of the teardown, a connection freed is a connection closed,*)
(* and the map loses track of what it clears; the pools deleted hold none. *)
LEMMA RefinementMainStep ==
  ASSUME TypeInv, TypeInv', Walk, Custody, MainStep
  PROVE  Abstract!Next \/ UNCHANGED View
  <1>. USE DEF poolVars, threadVars
  <1>1. CASE Stop \/ Disconnect \/ EnterMap
    <2>1. UNCHANGED <<queue, con>>
      BY <1>1 DEF Stop, Disconnect, EnterMap
    <2>2. UNCHANGED Forgotten
      BY <1>1, SyncAssumption DEF Stop, Disconnect, EnterMap, Forgotten
    <2>. QED
      BY <2>1, <2>2, ViewKept
  <1>2. CASE DrainOne
    <2>1. PICK p \in Pool : p = drain
      BY <1>2 DEF DrainOne, TypeInv, TypeOK
    <2>2. UNCHANGED <<con, Forgotten>> /\ (Pull(p) \/ Wait(Main, p))
      BY <1>2, <2>1 DEF DrainOne, Forgotten
    <2>3. CASE Pull(p)
      <3>1. /\ Head(queue[p]) \in Queued /\ Head(queue[p]) \in Conn
            /\ Queued' = Queued \ {Head(queue[p])}
        BY <2>3, QueuedPulled
      <3>2. Abstract!Close(Head(queue[p]))
        BY <2>2, <3>1 DEF Abstract!Close
      <3>. QED
        BY <3>1, <3>2 DEF Abstract!Next
    <2>4. CASE Wait(Main, p)
      BY <2>2, <2>4, ViewKept DEF Wait
    <2>. QED
      BY <2>2, <2>3, <2>4
  <1>3. CASE DrainEnd
    <2>1. PICK p \in Pool : p = drain
      BY <1>3 DEF DrainEnd, TypeInv, TypeOK
    <2>2. UNCHANGED <<con, Forgotten>> /\ queue' = [queue EXCEPT ![p] = <<>>]
      BY <1>3, <2>1 DEF DrainEnd, DeletePool, Forgotten
    <2>3. Used(p) = {}
      <3>1. IsFiniteSet(Used(p)) /\ Cardinality(Used(p)) \in Nat
        BY UsedFinite
      <3>2. p # None /\ drain # None
        BY <1>3, <2>1 DEF DrainEnd
      <3>3. Cardinality(Used(drain)) <= 0
        BY <1>3, <3>2 DEF DrainEnd, Custody, Lifetimes
      <3>4. Cardinality(Used(p)) = 0
        BY <2>1, <3>1, <3>3
      <3>. QED
        BY <3>1, <3>4, FS_EmptySet
    <2>4. queue[p] = <<>>
      <3>1. phase # "closed"
        BY <1>3 DEF DrainEnd, Walk, Draining
      <3>2. \A j \in 1..Len(queue[p]) : FALSE
        BY <2>3, <3>1, IdleIsUsed DEF Custody, OwnQueues
      <3>3. queue[p] \in Seq(Conn)
        BY DEF TypeInv, TypeOK, PoolTypeOK
      <3>. QED
        BY <3>2, <3>3
    <2>5. UNCHANGED queue
      BY <2>2, <2>4 DEF TypeInv, TypeOK, PoolTypeOK
    <2>. QED
      BY <2>2, <2>5, ViewKept
  <1>4. CASE LeaveMap
    <2>1. UNCHANGED <<queue, con>> /\ Forgotten = {}
      BY <1>4 DEF LeaveMap, Draining, Forgotten
    <2>2. UNCHANGED Queued /\ Lost = {} /\ Lost' \in SUBSET Conn
      BY <2>1 DEF Queued, Lost
    <2>3. Abstract!Forget
      BY <2>1, <2>2 DEF Abstract!Forget, Lost
    <2>. QED
      BY <2>3 DEF Abstract!Next
  <1>. QED
    BY <1>1, <1>2, <1>3, <1>4 DEF MainStep

LEMMA RefinementStep ==
  TypeInv /\ TypeInv' /\ Walk /\ Custody /\ [Next]_vars => Abstract!Next \/ UNCHANGED View
  <1>. SUFFICES ASSUME TypeInv, TypeInv', Walk, Custody, [Next]_vars
                PROVE  Abstract!Next \/ UNCHANGED View
    OBVIOUS
  <1>1. ASSUME NEW t \in Thread, ThreadStep(t) PROVE Abstract!Next \/ UNCHANGED View
    BY <1>1, RefinementThreadStep
  <1>2. CASE MainStep
    BY <1>2, RefinementMainStep
  <1>3. CASE Spurious
    BY <1>3, ViewKept DEF Spurious, WakeSpuriously, threadVars, mainVars, Forgotten
  <1>4. CASE UNCHANGED vars
    BY <1>4, ViewKept DEF vars, poolVars, threadVars, mainVars, Forgotten
  <1>. QED
    BY <1>1, <1>2, <1>3, <1>4 DEF Next, Done

(* However threads, faults and teardown interleave, connections move only  *)
(* as the abstract pool moves them.                                        *)
THEOREM Refinement == Spec => ImplementsConnectionPool
  <1>1. IInv /\ IInv' /\ [Next]_vars => [Abstract!Next]_(Abstract!poolView)
    BY RefinementStep DEF IInv, View, Lost, Abstract!poolView
  <1>. QED
    BY <1>1, RefinementInit, Invariance, PTL
    DEF Spec, ImplementsConnectionPool, Abstract!Spec
=============================================================================
