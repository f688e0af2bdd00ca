------------------------- MODULE SyncCommandProofs --------------------------
(***************************************************************************)
(* Theorems about SyncCommand for every number of threads, slot ranges,    *)
(* hosts and connections per pool, every set of faults, and a teardown     *)
(* before or after the threads are joined.                                 *)
(***************************************************************************)
EXTENDS SyncCommand, SequenceTheorems, FunctionTheorems, FiniteSetTheorems, TLAPS

-----------------------------------------------------------------------------
(* What the operators on queues do.                                        *)

(* Taking the front of a non-empty queue.                                  *)
LEMMA FrontOfQueue ==
  ASSUME NEW S, NEW q \in Seq(S), q # <<>>
  PROVE  /\ Head(q) \in S
         /\ Head(q) = q[1]
         /\ Tail(q) \in Seq(S)
         /\ Len(q) \in Nat \ {0}
         /\ Len(Tail(q)) = Len(q) - 1
         /\ \A i \in 1..Len(Tail(q)) : i + 1 \in 2..Len(q) /\ Tail(q)[i] = q[i + 1]
  BY SMT

(* Adding to the back of a queue.                                          *)
LEMMA BackOfQueue ==
  ASSUME NEW S, NEW q \in Seq(S), NEW c \in S
  PROVE  /\ Append(q, c) \in Seq(S)
         /\ Len(Append(q, c)) = Len(q) + 1
         /\ \A i \in 1..Len(q) : Append(q, c)[i] = q[i]
         /\ Append(q, c)[Len(q) + 1] = c
  BY SMT

(* The connections of a new pool, all of them or without the first.        *)
LEMMA NewQueue ==
  ASSUME NEW p \in Pool, NEW n \in 0..PoolSize
  PROVE  /\ Filled(p, n) \in Seq(Conn)
         /\ Len(Filled(p, n)) = n
         /\ \A i \in 1..n : Filled(p, n)[i] = <<p, i>>
  <1>1. n \in Nat /\ PoolSize \in Nat
    BY PoolAssumption
  <1>2. \A i \in 1..n : <<p, i>> \in Conn
    BY <1>1 DEF Conn
  <1>. QED
    BY <1>1, <1>2 DEF Filled
-----------------------------------------------------------------------------
(* The control state of a thread: which legs a point of process() belongs  *)
(* to, which pools it can name, and where it holds a connection.           *)
Holding == {"send", "recv", "asking", "asked", "release"}

ControlOf(t) ==
  /\ pc[t] = "idle" <=> leg[t] = "none"
  /\ leg[t] = "slot" => key[t] \in SlotRange
  /\ leg[t] \in {"ASK", "MOVED"} => key[t] \in Host
  /\ pc[t] = "getConnection" => leg[t] = "slot"
  /\ pc[t] = "insert" => leg[t] \in {"ASK", "MOVED"}
  /\ pc[t] \in {"asking", "asked"} => leg[t] = "ASK"
  /\ con[t] # None <=> pc[t] \in Holding
  /\ pool[t] # None <=> pc[t] \in {"pull", "notify", "dangling"}
  /\ pool[t] # None => pool[t][1] = key[t]

Control == \A t \in Thread : ControlOf(t)

TypeInv == TypeOK /\ Control

(* The way of disconnect() through the two maps.  Its iterator has passed  *)
(* key k ...                                                               *)
Visited(k) ==
  /\ k \in MapKeys
  /\ conLock \/ drain # None
  /\ drain # None => k < drain[1]

(* ... and has left NULL there, unless insert() put a pool there later.    *)
(* nodes_ comes first, and nothing is put into it any more.  A thread in   *)
(* pull- or pushConnection has a reference to a pool that is in the map or *)
(* was forgotten by it.                                                    *)
References ==
  \A t \in Thread : pc[t] \in {"pull", "notify"} => Mapped(pool[t]) \/ pool[t] \in Forgotten

Walk ==
  /\ conLock \/ drain # None => Draining
  /\ drain # None => drain[1] \in MapKeys /\ Mapped(drain) /\ (left = 0 => conLock)
  /\ \A k \in Key : entry[k] = "null" => Draining /\ Visited(k)
  /\ \A k \in Key : Draining /\ Visited(k) /\ Live(k) => At(k) \in behind
  /\ phase \in {"redirects", "closed"} => \A r \in SlotRange : entry[r] = "absent"
  /\ \A k \in Key : entry[k] = "second" => phase = "closed"
  /\ \A p \in behind : p[1] \in Host /\ p[2] = "first" /\ phase \in {"redirects", "closed"}
  /\ References

LEMMA TypeInit == Init => TypeInv
  <1>. SUFFICES ASSUME Init PROVE TypeInv
    OBVIOUS
  <1>. USE PoolAssumption, SyncAssumption
  <1>1. PICK covered \in SUBSET SlotRange : PoolInit(covered)
    BY DEF Init
  <1>2. \A p \in Pool : Filled(p, PoolSize) \in Seq(Conn)
    BY NewQueue
  <1>3. PoolTypeOK
    <2>1. <<>> \in Seq(Conn)
      OBVIOUS
    <2>2. queue \in [Pool -> Seq(Conn)]
      BY <1>1, <1>2, <2>1, Zenon DEF PoolInit
    <2>. QED
      BY <1>1, <2>2 DEF PoolInit, PoolTypeOK, Made
  <1>4. TypeOK
    <2>1. Is("none") \in Reply
      BY DEF Is, Reply
    <2>2. /\ <<>> \in Seq(Request)
          /\ MaxCommands \in 0..MaxCommands
          /\ 0 \in 0..PoolSize
      OBVIOUS
    <2>. QED
      BY <1>3, <2>1, <2>2 DEF Init, TypeOK, PC, Leg
  <1>5. Control
    BY DEF Init, Control, ControlOf, Holding
  <1>. QED
    BY <1>4, <1>5 DEF TypeInv

(* Facts about one state that the proofs below use again and again.        *)
LEMMA TypeFacts ==
  ASSUME TypeInv, NEW t \in Thread
  PROVE  /\ leg[t] # "none" => key[t] \in Key
         /\ pc[t] \in Holding => con[t] \in Conn /\ key[t] \in Key
         /\ pc[t] # "idle" => leg[t] \in {"slot", "ASK", "MOVED"} /\ key[t] \in Key
         /\ pc[t] \in {"pull", "notify", "dangling"} => pool[t] \in Pool
         /\ \A p \in Pool : queue[p] # <<>> =>
               Head(queue[p]) \in Conn /\ Tail(queue[p]) \in Seq(Conn)
         /\ \A how \in Reply : how.host \in Host \cup {None}
         /\ \A kind \in {"none", "READY", "ASK", "MOVED", "garbage", "exception"} :
               Is(kind) \in Reply
  <1>1. pc[t] # "idle" => leg[t] \in {"slot", "ASK", "MOVED"} /\ key[t] \in Key
    BY DEF TypeInv, TypeOK, Control, ControlOf, Leg, Key
  <1>2. \A p \in Pool : queue[p] # <<>> =>
               Head(queue[p]) \in Conn /\ Tail(queue[p]) \in Seq(Conn)
    BY FrontOfQueue DEF TypeInv, TypeOK, PoolTypeOK
  <1>3. pc[t] \in Holding => con[t] \in Conn
    BY DEF TypeInv, TypeOK, Control, ControlOf
  <1>4. \A kind \in {"none", "READY", "ASK", "MOVED", "garbage", "exception"} :
               Is(kind) \in Reply
    BY DEF Is, Reply
  <1>5. pc[t] \in {"pull", "notify", "dangling"} => pool[t] \in Pool
    BY DEF TypeInv, TypeOK, Control, ControlOf
  <1>. QED
    BY <1>1, <1>2, <1>3, <1>4, <1>5 DEF Reply, TypeInv, Control, ControlOf, Holding

(* What the entry of a key points to, and what a pool is.                  *)
LEMMA PoolAt ==
  ASSUME NEW k \in Key
  PROVE  /\ Live(k) => At(k) \in Pool /\ Mapped(At(k))
         /\ At(k)[1] = k
  BY DEF Live, At, Mapped, Pool

LEMMA PoolParts ==
  ASSUME NEW p \in Pool
  PROVE  /\ p = <<p[1], p[2]>> /\ p[1] \in Key /\ p[2] \in Made
         /\ Mapped(p) => Live(p[1]) /\ At(p[1]) = p
  BY DEF Pool, Mapped, Live, At

(* The pool that insert() makes.                                           *)
LEMMA PoolMade ==
  ASSUME NEW k \in Key
  PROVE  /\ NewPool(k) \in Pool /\ NewPool(k)[1] = k
         /\ NewPool(k)[2] = IF phase = "closed" THEN "second" ELSE "first"
  BY DEF NewPool, Pool, Made

(* The parts of the state that belong to one thread keep their types.      *)
ThreadTypes ==
  /\ pc \in [Thread -> PC]
  /\ leg \in [Thread -> Leg]
  /\ key \in [Thread -> Key \cup {None}]
  /\ con \in [Thread -> Conn \cup {None}]
  /\ pool \in [Thread -> Pool \cup {None}]
  /\ reply \in [Thread -> Reply]
  /\ Control

(* Ending process() leaves a thread in a proper state.                     *)
LEMMA FinishType ==
  ASSUME TypeInv, NEW t \in Thread, NEW how \in Reply, Finish(t, how)
  PROVE  ThreadTypes'
  BY PoolAssumption DEF TypeInv, TypeOK, Control, ControlOf, Finish, ThreadTypes, PC, Leg, Holding

(* So does getting a connection, sleeping for one, ...                     *)
LEMMA TakeType ==
  ASSUME TypeInv, NEW t \in Thread, NEW c \in Conn, Take(t, c),
         pc[t] \in {"getConnection", "insert", "pull"}
  PROVE  ThreadTypes'
  <1>. USE DEF TypeInv, TypeOK
  <1>1. Is("exception") \in Reply
    BY TypeFacts
  <1>2. CASE leg[t] = "MOVED" /\ err[c] /\ Throw(t)
    BY <1>1, <1>2, FinishType DEF Throw
  <1>3. CASE ~ (leg[t] = "MOVED" /\ err[c] /\ Throw(t))
    <2>1. PICK label \in {"asking", "send", "release"} :
             /\ pc' = [pc EXCEPT ![t] = label]
             /\ label = "asking" => leg[t] = "ASK"
      BY <1>3 DEF Take, Goto
    <2>2. /\ con' = [con EXCEPT ![t] = c]
          /\ pool' = [pool EXCEPT ![t] = None]
          /\ UNCHANGED <<leg, key>>
          /\ reply' \in [Thread -> Reply]
      <3>1. /\ con' = [con EXCEPT ![t] = c]
            /\ pool' = [pool EXCEPT ![t] = None]
            /\ UNCHANGED <<leg, key>>
            /\ reply' = reply \/ reply' = [reply EXCEPT ![t] = Is("exception")]
        BY <1>3 DEF Take
      <3>2. reply' \in [Thread -> Reply]
        BY <1>1, <3>1
      <3>. QED
        BY <3>1, <3>2
    <2>3. c # None /\ leg[t] # "none"
      BY PoolAssumption, TypeFacts DEF Leg
    <2>4. /\ pc' \in [Thread -> PC]
          /\ con' \in [Thread -> Conn \cup {None}]
          /\ pool' \in [Thread -> Pool \cup {None}]
      BY <2>1, <2>2 DEF PC
    <2>5. Control'
      BY <2>1, <2>2, <2>3 DEF Control, ControlOf, Holding
    <2>. QED
      BY <2>2, <2>4, <2>5 DEF ThreadTypes
  <1>. QED
    BY <1>2, <1>3

LEMMA PullConnectionType ==
  ASSUME TypeInv, NEW t \in Thread, NEW p \in Pool, p[1] = key[t], PullConnection(t, p),
         pc[t] \in {"getConnection", "insert", "pull"}
  PROVE  TypeInv'
  <1>2. CASE Pull(p) /\ Take(t, Head(queue[p]))
    <2>1. Head(queue[p]) \in Conn /\ Tail(queue[p]) \in Seq(Conn)
      BY <1>2, TypeFacts DEF Pull
    <2>2. ThreadTypes'
      BY <1>2, <2>1, TakeType
    <2>. QED
      BY <1>2, <2>1, <2>2
      DEF TypeInv, TypeOK, PoolTypeOK, ThreadTypes, PullConnection, Pull, netVars, mainVars
  <1>3. CASE /\ Wait(t, p)
             /\ pool' = [pool EXCEPT ![t] = p]
             /\ Goto(t, "pull")
             /\ UNCHANGED <<leg, key, con, reply>>
    <2>1. p # None
      BY PoolAssumption
    <2>2. ThreadTypes'
      <3>1. /\ UNCHANGED <<leg, key, con, reply>>
            /\ pool' = [pool EXCEPT ![t] = p]
            /\ pc' = [pc EXCEPT ![t] = "pull"]
        BY <1>3 DEF Goto
      <3>2. /\ pc' \in [Thread -> PC]
            /\ pool' \in [Thread -> Pool \cup {None}]
        BY <3>1 DEF TypeInv, TypeOK, PC
      <3>3. ASSUME NEW u \in Thread, u # t PROVE ControlOf(u)'
        BY <3>1, <3>3 DEF ControlOf, TypeInv, TypeOK, Control
      <3>4. ControlOf(t)'
        BY <2>1, <3>1 DEF ControlOf, TypeInv, TypeOK, Control, Holding
      <3>5. Control'
        BY <3>3, <3>4 DEF Control
      <3>. QED
        BY <3>1, <3>2, <3>5 DEF ThreadTypes, TypeInv, TypeOK
    <2>3. sleeping' \in [Pool -> SUBSET (Thread \cup {Main})]
      BY <1>3 DEF Wait, TypeInv, TypeOK, PoolTypeOK
    <2>4. PoolTypeOK'
      BY <1>3, <2>3 DEF Wait, PullConnection, TypeInv, TypeOK, PoolTypeOK
    <2>5. UNCHANGED <<budget, netVars, mainVars, moved, crashed>>
      BY DEF PullConnection
    <2>. QED
      BY <2>2, <2>4, <2>5 DEF TypeInv, TypeOK, ThreadTypes, netVars, mainVars
  <1>. QED
    BY <1>2, <1>3 DEF PullConnection

(* Where the iterator of disconnect() goes at the start and after a pool:  *)
(* to a pool that the map has, over nothing but absent keys, or to the end.*)
LEMMA Advances ==
  ASSUME TypeInv, Walk, EnterMap \/ DrainEnd
  PROVE  /\ Draining /\ conLock' = TRUE
         /\ drain' \in Pool \cup {None} /\ left' \in 0..PoolSize
         /\ drain' # None =>
              /\ drain'[1] \in MapKeys /\ entry[drain'[1]] = drain'[2]
              /\ left' = PoolSize
              /\ drain # None => drain[1] < drain'[1]
         /\ \A k \in MapKeys :
              (drain # None => drain[1] < k) /\ (drain' # None => k < drain'[1])
                => entry[k] = "absent"
  <1>. DEFINE from == IF drain = None THEN 0 ELSE drain[1] + 1
              keys == KeysFrom(from)
  <1>. USE PoolAssumption
  <1>1. drain # None => drain \in Pool /\ drain[1] \in MapKeys
    BY DEF Walk, TypeInv, TypeOK
  <1>2. MapKeys \subseteq Key /\ Key \subseteq Nat
    BY DEF MapKeys, Key
  <1>0. \A k \in MapKeys : k \in Nat
    BY <1>2
  <1>3. from \in Nat /\ (drain # None => drain[1] \in Nat /\ from = drain[1] + 1)
    <2>1. CASE drain = None
      BY <2>1
    <2>2. CASE drain # None
      <3>1. drain[1] \in Nat
        BY <1>0, <1>1, <2>2
      <3>. QED
        BY <2>2, <3>1
    <2>. QED
      BY <2>1, <2>2
  <1>4. PointAt(keys) /\ Draining /\ conLock' = TRUE
    <2>1. CASE EnterMap
      BY <2>1 DEF EnterMap
    <2>2. CASE DrainEnd
      <3>1. /\ drain # None /\ left = 0 /\ PointAt(KeysFrom(drain[1] + 1))
            /\ conLock' = conLock
        BY <2>2 DEF DrainEnd
      <3>2. Draining /\ conLock = TRUE
        BY <3>1 DEF Walk, TypeInv, TypeOK, PoolTypeOK
      <3>. QED
        BY <3>1, <3>2
    <2>. QED
      BY <2>1, <2>2
  <1>5. \A k \in keys : /\ k \in MapKeys /\ k \in Nat /\ from <= k
                        /\ At(k) \in Pool /\ At(k)[1] = k /\ At(k)[2] = entry[k]
    <2>. SUFFICES ASSUME NEW k \in keys
                  PROVE  /\ k \in MapKeys /\ k \in Nat /\ from <= k
                         /\ At(k) \in Pool /\ At(k)[1] = k /\ At(k)[2] = entry[k]
      OBVIOUS
    <2>1. k \in MapKeys /\ from <= k /\ entry[k] # "absent" /\ k \in Key /\ k \in Nat
      BY <1>2 DEF KeysFrom
    <2>2. entry[k] # "null"
      <3>1. SUFFICES ASSUME entry[k] = "null" PROVE FALSE
        OBVIOUS
      <3>2. Visited(k)
        BY <2>1, <3>1 DEF Walk
      <3>3. CASE EnterMap
        BY <3>2, <3>3 DEF EnterMap, Visited
      <3>4. CASE DrainEnd
        BY <1>3, <2>1, <3>2, <3>4 DEF DrainEnd, Visited
      <3>. QED
        BY <3>3, <3>4
    <2>3. Live(k)
      BY <2>1, <2>2 DEF Live, TypeInv, TypeOK, PoolTypeOK
    <2>. QED
      BY <2>1, <2>3, PoolAt DEF At
  <1>6. \A k \in MapKeys : k \notin keys /\ (drain # None => drain[1] < k)
           => entry[k] = "absent"
    <2>. SUFFICES ASSUME NEW k \in MapKeys, k \notin keys, drain # None => drain[1] < k
                  PROVE  entry[k] = "absent"
      OBVIOUS
    <2>1. k \in Nat
      BY <1>0
    <2>2. from <= k
      BY <1>3, <2>1
    <2>. QED
      BY <2>2 DEF KeysFrom
  <1>. HIDE DEF keys
  <1>7. CASE keys = {} /\ drain' = None /\ left' = 0
    BY <1>4, <1>6, <1>7
  <1>8. ASSUME NEW k \in keys, \A l \in keys : k <= l,
               drain' = At(k), left' = PoolSize
        PROVE  /\ drain' \in Pool /\ drain'[1] \in MapKeys /\ entry[drain'[1]] = drain'[2]
               /\ drain # None => drain[1] < drain'[1]
               /\ \A l \in MapKeys : (drain # None => drain[1] < l) /\ l < drain'[1]
                    => entry[l] = "absent"
    <2>1. drain'[1] = k /\ drain'[2] = entry[k] /\ k \in MapKeys /\ k \in Nat /\ from <= k
      BY <1>5, <1>8
    <2>2. drain # None => drain[1] < k
      BY <1>3, <2>1
    <2>3. ASSUME NEW l \in MapKeys, l < k PROVE l \notin keys
      <3>1. l \in Nat /\ k \in Nat
        BY <1>0, <2>1
      <3>2. ~(k <= l)
        BY <2>3, <3>1
      <3>. QED
        BY <1>8, <3>2
    <2>4. drain' \in Pool
      BY <1>5, <1>8
    <2>5. ASSUME NEW l \in MapKeys, drain # None => drain[1] < l, l < drain'[1]
          PROVE  entry[l] = "absent"
      <3>1. l \notin keys
        BY <2>1, <2>3, <2>5
      <3>. QED
        BY <1>6, <2>5, <3>1
    <2>. QED
      BY <2>1, <2>2, <2>4, <2>5
  <1>. QED
    BY <1>4, <1>7, <1>8 DEF PointAt

(* Every step of the program keeps TypeInv.                                *)
LEMMA TypeStep == TypeInv /\ Walk /\ [Next]_vars => TypeInv'
  <1>. SUFFICES ASSUME TypeInv, Walk, [Next]_vars PROVE TypeInv'
    OBVIOUS
  <1>. USE PoolAssumption, SyncAssumption
  <1>. USE DEF TypeInv, TypeOK, PoolTypeOK, ThreadTypes, poolVars, netVars, mainVars
  <1>1. CASE UNCHANGED vars
    BY <1>1 DEF vars, threadVars, Control, ControlOf
  <1>2. ASSUME NEW t \in Thread, ThreadStep(t) PROVE TypeInv'
    <2>0. /\ \A how \in Reply : Finish(t, how) => ThreadTypes'
          /\ Is("exception") \in Reply /\ Is("garbage") \in Reply
          /\ Is("READY") \in Reply /\ Is("none") \in Reply
      BY FinishType, TypeFacts
    <2>1. ASSUME NEW r \in SlotRange, Begin(t, r) PROVE TypeInv'
      BY <2>0, <2>1 DEF Begin, Goto, Control, ControlOf, Holding, PC, Leg, Key
    <2>2. CASE NotInitialized(t)
      BY <2>0, <2>2 DEF NotInitialized, Throw
    <2>3. CASE Crash
      BY <2>3 DEF Crash, threadVars, Control, ControlOf
    <2>4. CASE GetConnection(t)
      <3>1. CASE Deref(key[t], PullConnection(t, At(key[t])))
        <4>1. CASE Live(key[t]) /\ PullConnection(t, At(key[t]))
          <5>1. pc[t] = "getConnection"
            BY <2>4 DEF GetConnection
          <5>2. At(key[t]) \in Pool /\ At(key[t])[1] = key[t]
            BY <4>1, <5>1, PoolAt, TypeFacts
          <5>. QED
            BY <4>1, <5>1, <5>2, PullConnectionType
        <4>. QED
          BY <2>3, <3>1, <4>1, Zenon DEF Deref
      <3>2. CASE Throw(t) /\ UNCHANGED <<poolVars, budget, netVars, mainVars, moved, crashed>>
        BY <2>0, <3>2 DEF Throw
      <3>. QED
        BY <2>4, <3>1, <3>2, Zenon DEF GetConnection
    <2>5. CASE Insert(t)
      <3>. DEFINE p == NewPool(key[t])
      <3>1. key[t] \in Key /\ pc[t] = "insert"
        BY <2>5, TypeFacts DEF Insert
      <3>0. p \in Pool /\ p[2] \in Made
        BY <3>1, PoolMade DEF Made
      <3>2. CASE Deref(key[t], PullConnection(t, At(key[t])))
        <4>1. CASE Live(key[t]) /\ PullConnection(t, At(key[t]))
          <5>1. At(key[t]) \in Pool /\ At(key[t])[1] = key[t]
            BY <3>1, <4>1, PoolAt
          <5>. QED
            BY <3>1, <4>1, <5>1, PullConnectionType
        <4>. QED
          BY <2>3, <3>2, <4>1, Zenon DEF Deref
      <3>5. Record(p) => behind' \subseteq Pool
        BY <3>0 DEF Record
      <3>3. CASE /\ CreatePool(p) /\ Take(t, Filled(p, PoolSize)[1]) /\ Record(p)
                 /\ UNCHANGED <<sleeping, conLock, budget, netVars, ready, phase, drain,
                                left, moved, crashed>>
        <4>1. /\ Filled(p, PoolSize)[1] \in Conn
              /\ Tail(Filled(p, PoolSize)) \in Seq(Conn)
          <5>1. /\ Filled(p, PoolSize) \in Seq(Conn)
                /\ Len(Filled(p, PoolSize)) = PoolSize
            <6>1. PoolSize \in 0..PoolSize
              OBVIOUS
            <6>. QED
              BY <3>0, <6>1, NewQueue
          <5>2. Filled(p, PoolSize) # <<>>
            BY <5>1
          <5>. QED
            BY <5>1, <5>2, FrontOfQueue
        <4>2. ThreadTypes'
          BY <3>1, <3>3, <4>1, TakeType
        <4>3. /\ queue' \in [Pool -> Seq(Conn)]
              /\ entry' \in [Key -> {"absent", "null"} \cup Made]
          <5>. HIDE DEF p
          <5>. QED
            BY <3>0, <3>3, <4>1 DEF CreatePool
        <4>. QED
          BY <3>3, <3>5, <4>2, <4>3
      <3>4. ASSUME NEW n \in 0..(PoolSize - 1), CreatePoolFails(p, n), Throw(t), Record(p),
                   UNCHANGED <<sleeping, conLock, budget, netVars, ready, phase, drain,
                               left, moved, crashed>>
            PROVE  TypeInv'
        <4>1. Filled(p, n) \in Seq(Conn)
          BY <3>0, NewQueue
        <4>2. /\ queue' \in [Pool -> Seq(Conn)]
              /\ entry' \in [Key -> {"absent", "null"} \cup Made]
          <5>. HIDE DEF p
          <5>. QED
            BY <3>0, <3>4, <4>1 DEF CreatePoolFails
        <4>3. ThreadTypes'
          BY <2>0, <3>4 DEF Throw
        <4>. QED
          BY <3>4, <3>5, <4>2, <4>3
      <3>. QED
        BY <2>5, <3>2, <3>3, <3>4 DEF Insert
    <2>6. CASE PullAgain(t)
      <3>1. pc[t] = "pull" /\ pool[t] \in Pool /\ pool[t][1] = key[t]
        BY <2>6, TypeFacts DEF PullAgain, Control, ControlOf
      <3>. QED
        BY <2>6, <3>1, PullConnectionType DEF PullAgain
    <2>7. CASE Send(t) \/ SendAsking(t)
      <3>1. con[t] \in Conn
        BY <2>7, TypeFacts DEF Send, SendAsking, Holding
      <3>2. PICK what \in {"command", "ASKING"}, label \in {"recv", "asked"} :
               /\ wire' = [wire EXCEPT ![con[t]] = Append(@, [by |-> t, what |-> what])]
               /\ pc' = [pc EXCEPT ![t] = label]
               /\ pc[t] \in {"send", "asking"}
               /\ label = "asked" => pc[t] = "asking"
        BY <2>7 DEF Send, SendAsking, Write, Goto
      <3>3. [by |-> t, what |-> what] \in Request
        BY DEF Request
      <3>4. wire' \in [Conn -> Seq(Request)]
        BY <3>1, <3>2, <3>3
      <3>5. pc' \in [Thread -> PC] /\ Control'
        BY <2>7, <3>2 DEF Send, SendAsking, Control, ControlOf, Holding, PC
      <3>. QED
        BY <2>7, <3>4, <3>5 DEF Send, SendAsking
    <2>8. ASSUME pc[t] \in Holding, Answer(con[t])
          PROVE  /\ wire' \in [Conn -> Seq(Request)]
                 /\ asking' \in [Conn -> Thread \cup {None}]
                 /\ err' \in [Conn -> BOOLEAN]
      <3>1. con[t] \in Conn /\ wire[con[t]] \in Seq(Request) /\ wire[con[t]] # <<>>
        BY <2>8, TypeFacts DEF Answer
      <3>2. Head(wire[con[t]]) \in Request /\ Tail(wire[con[t]]) \in Seq(Request)
        BY <3>1, FrontOfQueue
      <3>3. Head(wire[con[t]]).by \in Thread
        BY <3>2 DEF Request
      <3>. QED
        BY <2>8, <3>1, <3>2, <3>3 DEF Answer
    <2>9. ASSUME pc[t] \in Holding, Break(con[t])
          PROVE  /\ wire' \in [Conn -> Seq(Request)]
                 /\ asking' \in [Conn -> Thread \cup {None}]
                 /\ err' \in [Conn -> BOOLEAN]
      BY <2>9, TypeFacts DEF Break
    <2>10. ASSUME NEW r \in Reply, KeepReply(t, r), pc[t] = "recv"
           PROVE  ThreadTypes'
      BY <2>10 DEF KeepReply, Goto, Control, ControlOf, Holding, PC
    <2>11. CASE AskingReply(t)
      <3>1. ASSUME Goto(t, "send"), UNCHANGED <<leg, key, con, pool, reply>>
            PROVE  ThreadTypes'
        <4>1. pc[t] = "asked" /\ pc' = [pc EXCEPT ![t] = "send"]
          BY <2>11, <3>1 DEF AskingReply, Goto
        <4>2. Control'
          BY <3>1, <4>1 DEF Control, ControlOf, Holding
        <4>. QED
          BY <3>1, <4>1, <4>2 DEF PC
      <3>. QED
        BY <2>0, <2>3, <2>8, <2>11, <3>1 DEF AskingReply, Throw, Holding
    <2>12. CASE SlotReply(t)
      <3>1. Redirects \subseteq Reply
        BY DEF Redirects, Reply
      <3>. QED
        BY <2>0, <2>8, <2>9, <2>10, <2>12, <3>1 DEF SlotReply, Throw, Holding
    <2>13. CASE AskReply(t)
      BY <2>0, <2>3, <2>8, <2>9, <2>10, <2>13 DEF AskReply, Throw, Holding
    <2>14. CASE MovedReply(t)
      BY <2>0, <2>8, <2>9, <2>10, <2>14 DEF MovedReply, Holding
    <2>15. CASE Release(t)
      <3>1. con[t] \in Conn /\ key[t] \in Key
        BY <2>15, TypeFacts DEF Release, Holding
      <3>3. CASE Live(key[t])
        <4>. DEFINE p == At(key[t])
        <4>0. p \in Pool /\ p[1] = key[t]
          BY <3>1, <3>3, PoolAt
        <4>1. queue' \in [Pool -> Seq(Conn)]
          <5>1. Append(queue[p], con[t]) \in Seq(Conn)
            BY <3>1, <4>0, BackOfQueue
          <5>2. queue' = [queue EXCEPT ![p] = Append(queue[p], con[t])]
            BY <2>15, <3>3 DEF Release, Deref, Push
          <5>. QED
            BY <4>0, <5>1, <5>2
        <4>2. ThreadTypes'
          <5>1. /\ pc' = [pc EXCEPT ![t] = "notify"] /\ pc[t] = "release"
                /\ con' = [con EXCEPT ![t] = None]
                /\ pool' = [pool EXCEPT ![t] = p]
                /\ UNCHANGED <<leg, key, reply>>
            BY <2>15, <3>3 DEF Release, Deref, Goto
          <5>. HIDE DEF p
          <5>2. Control'
            BY <4>0, <5>1 DEF Control, ControlOf, Holding
          <5>. QED
            BY <4>0, <5>1, <5>2 DEF PC
        <4>. QED
          BY <2>15, <3>3, <4>1, <4>2 DEF Release, Deref
      <3>. QED
        BY <2>3, <2>15, <3>3 DEF Release, Deref
    <2>16. CASE Notify(t)
      <3>1. pool[t] \in Pool
        BY <2>16, TypeFacts DEF Notify
      <3>2. NotifyOne(pool[t]) => sleeping' \in [Pool -> SUBSET (Thread \cup {Main})]
        <4>1. CASE UNCHANGED sleeping
          BY <4>1
        <4>2. ASSUME NEW u, sleeping' = [sleeping EXCEPT ![pool[t]] = @ \ {u}]
              PROVE  sleeping' \in [Pool -> SUBSET (Thread \cup {Main})]
          BY <3>1, <4>2
        <4>. QED
          BY <4>1, <4>2 DEF NotifyOne
      <3>3. ASSUME Redirected(t), Redirect(t) PROVE ThreadTypes'
        <4>1. reply[t].kind \in {"ASK", "MOVED"} /\ reply[t].host \in Host
          BY <3>3 DEF Redirected, Redirects
        <4>2. /\ pc' = [pc EXCEPT ![t] = "insert"] /\ pc[t] = "notify"
              /\ leg' = [leg EXCEPT ![t] = reply[t].kind]
              /\ key' = [key EXCEPT ![t] = reply[t].host]
              /\ pool' = [pool EXCEPT ![t] = None]
              /\ reply' = [reply EXCEPT ![t] = Is("none")]
              /\ con' = con
          BY <2>16, <3>3 DEF Notify, Redirect, Goto
        <4>3. Control'
          BY <4>1, <4>2 DEF Control, ControlOf, Holding
        <4>. QED
          BY <2>0, <4>1, <4>2, <4>3 DEF PC, Leg, Key
      <3>4. CASE (Redirected(t) /\ Redirect(t)) \/ Finish(t, reply[t])
        <4>1. ThreadTypes'
          BY <2>0, <3>3, <3>4
        <4>. QED
          BY <2>16, <3>2, <4>1 DEF Notify
      <3>. QED
        BY <2>16, <3>4 DEF Notify
    <2>17. CASE UseDeletedPool(t)
      BY <2>3, <2>17 DEF UseDeletedPool
    <2>18. ThreadStep(t) => TypeInv'
      <3>. HIDE DEF TypeInv
      <3>. QED
        BY <2>1, <2>2, <2>4, <2>5, <2>6, <2>7, <2>11, <2>12, <2>13, <2>14, <2>15, <2>16,
           <2>17, Zenon
        DEF ThreadStep
    <2>. QED
      BY <1>2, <2>18
  <1>3. CASE MainStep
    <2>1. CASE Stop \/ Disconnect
      <3>1. UNCHANGED threadVars
        BY <2>1 DEF Stop, Disconnect
      <3>2. Control'
        BY <3>1 DEF threadVars, Control, ControlOf
      <3>. QED
        BY <2>1, <3>1, <3>2 DEF Stop, Disconnect, threadVars
    <2>2. CASE EnterMap
      <3>1. drain' \in Pool \cup {None} /\ left' \in 0..PoolSize
        BY <2>2, Advances
      <3>. QED
        BY <2>2, <3>1 DEF EnterMap, threadVars, Control, ControlOf
    <2>3. CASE DrainOne
      <3>1. drain \in Pool
        BY <2>3 DEF DrainOne
      <3>2. CASE Pull(drain)
        <4>1. Head(queue[drain]) \in Conn /\ Tail(queue[drain]) \in Seq(Conn)
          BY <3>1, <3>2, FrontOfQueue DEF Pull
        <4>2. <<>> \in Seq(Request)
          OBVIOUS
        <4>3. queue' \in [Pool -> Seq(Conn)] /\ UNCHANGED sleeping
          BY <3>1, <3>2, <4>1 DEF Pull
        <4>4. /\ err' \in [Conn -> BOOLEAN]
              /\ wire' \in [Conn -> Seq(Request)]
              /\ asking' \in [Conn -> Thread \cup {None}]
              /\ left' \in 0..PoolSize
              /\ conLock' \in BOOLEAN
          <5>1. /\ err' = [err EXCEPT ![Head(queue[drain])] = FALSE]
                /\ wire' = [wire EXCEPT ![Head(queue[drain])] = <<>>]
                /\ asking' = [asking EXCEPT ![Head(queue[drain])] = None]
                /\ left' = left - 1 /\ left > 0 /\ conLock' = TRUE
            BY <2>3, <3>2 DEF DrainOne, Pull, Wait
          <5>. QED
            BY <4>1, <4>2, <5>1
        <4>. QED
          BY <2>3, <4>3, <4>4, SMTT(30) DEF DrainOne, threadVars, Control, ControlOf
      <3>3. CASE Wait(Main, drain)
        <4>1. UNCHANGED threadVars
          BY <2>3, <3>3 DEF DrainOne
        <4>2. Control'
          BY <4>1 DEF threadVars, Control, ControlOf
        <4>3. /\ sleeping' = [sleeping EXCEPT ![drain] = @ \cup {Main}]
              /\ UNCHANGED <<queue, netVars, left, entry, ready, phase, drain, behind,
                             moved, crashed>>
              /\ conLock' = FALSE
          BY <2>3, <3>3 DEF DrainOne, Pull, Wait
        <4>. QED
          BY <3>1, <4>1, <4>2, <4>3 DEF threadVars
      <3>. QED
        BY <2>3, <3>2, <3>3 DEF DrainOne
    <2>4. CASE DrainEnd
      <3>1. /\ queue' = [queue EXCEPT ![drain] = <<>>]
            /\ sleeping' = [sleeping EXCEPT ![drain] = {}]
            /\ entry' = [entry EXCEPT ![drain[1]] = "null"]
            /\ pc' = [u \in Thread |-> IF pool[u] = drain THEN "dangling" ELSE pc[u]]
            /\ UNCHANGED <<conLock, leg, key, con, pool, reply, budget, netVars, ready,
                           phase, behind, moved, crashed>>
            /\ drain # None
        BY <2>4 DEF DrainEnd, DeletePool
      <3>2. <<>> \in Seq(Conn)
        OBVIOUS
      <3>3. pc' \in [Thread -> PC] /\ Control'
        BY <3>1 DEF Control, ControlOf, Holding, PC
      <3>4. drain' \in Pool \cup {None} /\ left' \in 0..PoolSize
        BY <2>4, Advances
      <3>. QED
        BY <3>1, <3>2, <3>3, <3>4
    <2>5. CASE LeaveMap
      BY <2>5 DEF LeaveMap, ClearMap, threadVars, Control, ControlOf
    <2>. QED
      BY <1>3, <2>1, <2>2, <2>3, <2>4, <2>5 DEF MainStep
  <1>4. CASE Spurious
    BY <1>4 DEF Spurious, WakeSpuriously, threadVars, Control, ControlOf
  <1>. QED
    BY <1>1, <1>2, <1>3, <1>4 DEF Next, Done

-----------------------------------------------------------------------------
(* Walk is inductive.                                                      *)

LEMMA WalkInit == Init => Walk
  <1>. SUFFICES ASSUME Init PROVE Walk
    OBVIOUS
  <1>1. PICK covered \in SUBSET SlotRange : PoolInit(covered)
    BY DEF Init
  <1>2. \A k \in Key : entry[k] \in {"absent", "first"}
    BY <1>1 DEF PoolInit
  <1>. QED
    BY <1>1, <1>2 DEF Init, PoolInit, Walk, References, Visited

(* A step that leaves the maps and the iterator alone, and by which a      *)
(* thread gets a reference only to a pool of the map.                      *)
LEMMA WalkQuiet ==
  ASSUME Walk, UNCHANGED <<entry, conLock, drain, left, phase, behind>>,
         \A u \in Thread : pc'[u] \in {"pull", "notify"} =>
            \/ pc[u] \in {"pull", "notify"} /\ pool'[u] = pool[u]
            \/ Mapped(pool'[u])
  PROVE  Walk'
  <1>1. References'
    BY DEF Walk, References, Forgotten, Mapped
  <1>. QED
    BY <1>1 DEF Walk, Visited, Draining, MapKeys, Live, At, Mapped

(* A thread in pullConnection.                                             *)
LEMMA WalkPull ==
  ASSUME TypeInv, Walk, NEW t \in Thread, NEW p \in Pool, PullConnection(t, p),
         \/ Mapped(p)
         \/ pc[t] = "pull" /\ pool[t] = p
  PROVE  Walk'
  <1>1. UNCHANGED <<entry, conLock, drain, left, phase, behind>>
    BY DEF PullConnection, mainVars
  <1>2. CASE Pull(p) /\ Take(t, Head(queue[p]))
    <2>1. \A u \in Thread \ {t} : pc'[u] = pc[u] /\ pool'[u] = pool[u]
      BY <1>2 DEF Take, Goto, Throw, Finish, TypeInv, TypeOK
    <2>2. pc'[t] \notin {"pull", "notify"}
      BY <1>2 DEF Take, Goto, Throw, Finish, TypeInv, TypeOK
    <2>. QED
      BY <1>1, <2>1, <2>2, WalkQuiet
  <1>3. CASE pool' = [pool EXCEPT ![t] = p] /\ Goto(t, "pull")
    <2>1. /\ \A u \in Thread \ {t} : pc'[u] = pc[u] /\ pool'[u] = pool[u]
          /\ pool'[t] = p
      BY <1>3 DEF Goto, TypeInv, TypeOK
    <2>. QED
      BY <1>1, <2>1, WalkQuiet
  <1>. QED
    BY <1>2, <1>3 DEF PullConnection

(* A new pool, made where the map has none.                                *)
LEMMA WalkCreate ==
  ASSUME TypeInv, Walk, NEW t \in Thread, LockFree, key[t] \in Host,
         NEW p, p = NewPool(key[t]), entry[key[t]] = "absent",
         entry' = [entry EXCEPT ![p[1]] = p[2]], Record(p),
         UNCHANGED <<conLock, phase, drain, left>>,
         pc'[t] \notin {"pull", "notify"},
         \A u \in Thread \ {t} : pc'[u] = pc[u] /\ pool'[u] = pool[u]
  PROVE  Walk'
  <1>. DEFINE k == key[t]
  <1>1. /\ k \in Key /\ p \in Pool /\ p[1] = k /\ p[2] \in {"first", "second"}
        /\ p[2] = "second" <=> phase = "closed"
    BY PoolMade DEF Key
  <1>2. /\ entry'[k] = p[2] /\ entry' \in [Key -> {"absent", "null"} \cup Made]
        /\ \A l \in Key \ {k} : entry'[l] = entry[l]
    BY <1>1 DEF TypeInv, TypeOK, PoolTypeOK, Made
  <1>3. /\ ~conLock /\ (drain # None => drain \in Pool)
        /\ phase \in {"run", "stopped", "nodes", "redirects", "closed"}
    BY DEF LockFree, TypeInv, TypeOK
  <1>4. \A q \in Pool : Mapped(q) => q[1] # k /\ Mapped(q)'
    BY <1>1, <1>2, PoolParts DEF Mapped, Made
  <1>5. behind \subseteq behind' /\ (behind' # behind => phase = "redirects")
    BY DEF Record, Passed
  <1>6. References'
    <2>. SUFFICES ASSUME NEW u \in Thread, pc'[u] \in {"pull", "notify"}
                  PROVE  Mapped(pool[u])' \/ pool'[u] \in Forgotten'
      BY DEF References
    <2>1. pc[u] = pc'[u] /\ pool'[u] = pool[u] /\ pool[u] \in Pool
      BY TypeFacts
    <2>2. CASE Mapped(pool[u])
      BY <1>4, <2>1, <2>2 DEF Mapped
    <2>3. CASE pool[u] \in Forgotten
      BY <1>5, <2>1, <2>3 DEF Forgotten
    <2>. QED
      BY <2>1, <2>2, <2>3 DEF Walk, References
  <1>7. Draining' = Draining /\ MapKeys' = MapKeys /\ \A l \in Key : Visited(l)' = Visited(l)
    BY DEF Draining, MapKeys, Visited
  <1>8. \A l \in Key : entry'[l] = "null" => Draining' /\ Visited(l)'
    BY <1>1, <1>2, <1>7 DEF Walk
  <1>9. ASSUME NEW l \in Key, Draining, Visited(l), entry'[l] \in Made
        PROVE  <<l, entry'[l]>> \in behind'
    <2>1. CASE l # k
      BY <1>2, <1>5, <1>9, <2>1 DEF Walk, Live, At
    <2>2. CASE l = k
      <3>1. phase = "redirects" /\ drain # None /\ k < drain[1]
        BY <1>3, <1>9, <2>2, PoolAssumption DEF Visited, MapKeys, Draining
      <3>2. p \in behind'
        BY <1>1, <3>1 DEF Record, Passed
      <3>3. p = <<l, entry'[l]>>
        BY <1>1, <1>2, <2>2, PoolParts
      <3>. QED
        BY <3>2, <3>3
    <2>. QED
      BY <2>1, <2>2
  <1>10. drain # None => Mapped(drain)'
    BY <1>3, <1>4 DEF Walk, Mapped
  <1>11. \A r \in SlotRange : r # k /\ r \in Key
    BY PoolAssumption DEF Key
  <1>12. \A q \in behind' : q[1] \in Host /\ q[2] = "first"
                            /\ phase \in {"redirects", "closed"}
    BY <1>1, <1>5 DEF Walk, Record, Passed
  <1>13. \A l \in Key : entry'[l] = "second" => phase = "closed"
    BY <1>1, <1>2 DEF Walk
  <1>14. phase \in {"redirects", "closed"} => \A r \in SlotRange : entry'[r] = "absent"
    BY <1>2, <1>11 DEF Walk
  <1>15. drain # None => drain[1] \in MapKeys' /\ (left = 0 => conLock)
    BY <1>7 DEF Walk
  <1>. QED
    BY <1>6, <1>7, <1>8, <1>9, <1>10, <1>12, <1>13, <1>14, <1>15 DEF Walk, Live, At

(* Every step of the program keeps Walk.                                   *)
LEMMA WalkStep == TypeInv /\ Walk /\ [Next]_vars => Walk'
  <1>. SUFFICES ASSUME TypeInv, Walk, [Next]_vars PROVE Walk'
    OBVIOUS
  <1>1. CASE UNCHANGED vars
    BY <1>1, WalkQuiet DEF vars, poolVars, threadVars, mainVars
  <1>2. ASSUME NEW t \in Thread, ThreadStep(t) PROVE Walk'
    <2>1. ASSUME UNCHANGED <<entry, conLock, drain, left, phase, behind>>,
                 \A u \in Thread \ {t} : pc'[u] = pc[u] /\ pool'[u] = pool[u],
                 pc'[t] \notin {"pull", "notify"}
          PROVE  Walk'
      BY <2>1, WalkQuiet
    <2>2. ASSUME NEW how, Finish(t, how)
          PROVE  /\ \A u \in Thread \ {t} : pc'[u] = pc[u] /\ pool'[u] = pool[u]
                 /\ pc'[t] \notin {"pull", "notify"}
      BY <2>2 DEF Finish, TypeInv, TypeOK
    <2>3. ASSUME NEW label \in PC \ {"pull", "notify"}, Goto(t, label), UNCHANGED pool
          PROVE  /\ \A u \in Thread \ {t} : pc'[u] = pc[u] /\ pool'[u] = pool[u]
                 /\ pc'[t] \notin {"pull", "notify"}
      BY <2>3 DEF Goto, TypeInv, TypeOK
    <2>4. ASSUME Crash PROVE Walk'
      BY <2>4, WalkQuiet DEF Crash, poolVars, threadVars, mainVars
    <2>5. CASE \E r \in SlotRange : Begin(t, r)
      BY <2>1, <2>3, <2>5 DEF Begin, poolVars, mainVars, PC
    <2>6. CASE NotInitialized(t)
      BY <2>1, <2>2, <2>6 DEF NotInitialized, Throw, poolVars, mainVars
    <2>7. CASE GetConnection(t)
      <3>1. key[t] \in Key
        BY <2>7, TypeFacts DEF GetConnection
      <3>2. CASE Live(key[t]) /\ PullConnection(t, At(key[t]))
        BY <3>1, <3>2, PoolAt, WalkPull
      <3>3. CASE Throw(t) /\ UNCHANGED <<poolVars, budget, netVars, mainVars, moved, crashed>>
        BY <2>1, <2>2, <3>3 DEF Throw, poolVars, mainVars
      <3>. QED
        BY <2>4, <2>7, <3>2, <3>3 DEF GetConnection, Deref
    <2>8. CASE Insert(t)
      <3>. DEFINE p == NewPool(key[t])
      <3>1. key[t] \in Host /\ key[t] \in Key /\ LockFree
        BY <2>8, PoolAssumption DEF Insert, TypeInv, Control, ControlOf, Key
      <3>2. CASE Live(key[t]) /\ PullConnection(t, At(key[t]))
        BY <3>1, <3>2, PoolAt, WalkPull
      <3>3. p[1] = key[t]
        BY <3>1, PoolMade
      <3>4. CASE /\ CreatePool(p) /\ Take(t, Filled(p, PoolSize)[1]) /\ Record(p)
                 /\ UNCHANGED <<sleeping, conLock, budget, netVars, ready, phase, drain,
                                left, moved, crashed>>
        <4>1. /\ \A u \in Thread \ {t} : pc'[u] = pc[u] /\ pool'[u] = pool[u]
              /\ pc'[t] \notin {"pull", "notify"}
          BY <3>4 DEF Take, Goto, Throw, Finish, TypeInv, TypeOK
        <4>2. entry[key[t]] = "absent" /\ entry' = [entry EXCEPT ![p[1]] = p[2]]
          BY <3>3, <3>4 DEF CreatePool
        <4>. QED
          BY <3>1, <3>4, <4>1, <4>2, WalkCreate
      <3>5. ASSUME NEW n \in 0..(PoolSize - 1), CreatePoolFails(p, n), Throw(t), Record(p),
                   UNCHANGED <<sleeping, conLock, budget, netVars, ready, phase, drain,
                               left, moved, crashed>>
            PROVE  Walk'
        <4>1. /\ \A u \in Thread \ {t} : pc'[u] = pc[u] /\ pool'[u] = pool[u]
              /\ pc'[t] \notin {"pull", "notify"}
          BY <2>2, <3>5 DEF Throw
        <4>2. entry[key[t]] = "absent" /\ entry' = [entry EXCEPT ![p[1]] = p[2]]
          BY <3>3, <3>5 DEF CreatePoolFails
        <4>. QED
          BY <3>1, <3>5, <4>1, <4>2, WalkCreate
      <3>. QED
        BY <2>4, <2>8, <3>2, <3>4, <3>5 DEF Insert, Deref
    <2>9. CASE PullAgain(t)
      <3>1. pc[t] = "pull" /\ pool[t] \in Pool
        BY <2>9, TypeFacts DEF PullAgain
      <3>. QED
        BY <2>9, <3>1, WalkPull DEF PullAgain
    <2>10. CASE UseDeletedPool(t)
      BY <2>4, <2>10 DEF UseDeletedPool
    <2>11. CASE Send(t) \/ SendAsking(t)
      BY <2>1, <2>3, <2>11 DEF Send, SendAsking, poolVars, mainVars, PC
    <2>12. CASE AskingReply(t)
      BY <2>1, <2>2, <2>3, <2>4, <2>12 DEF AskingReply, Throw, poolVars, mainVars, PC
    <2>13. CASE SlotReply(t)
      <3>1. UNCHANGED <<entry, conLock, drain, left, phase, behind>>
        BY <2>13 DEF SlotReply, poolVars, mainVars
      <3>2. (Goto(t, "release") /\ UNCHANGED pool) \/ Throw(t)
        BY <2>13 DEF SlotReply, KeepReply
      <3>. QED
        BY <2>1, <2>2, <2>3, <3>1, <3>2 DEF Throw, PC
    <2>14. CASE AskReply(t)
      <3>1. CASE Crash
        BY <2>4, <3>1
      <3>2. CASE ~Crash
        <4>1. UNCHANGED <<entry, conLock, drain, left, phase, behind>>
          BY <2>14, <3>2 DEF AskReply, poolVars, mainVars
        <4>2. (Goto(t, "release") /\ UNCHANGED pool) \/ Throw(t)
          BY <2>14, <3>2 DEF AskReply, KeepReply
        <4>. QED
          BY <2>1, <2>2, <2>3, <4>1, <4>2 DEF Throw, PC
      <3>. QED
        BY <3>1, <3>2
    <2>15. CASE MovedReply(t)
      BY <2>1, <2>3, <2>15 DEF MovedReply, KeepReply, poolVars, mainVars, PC
    <2>16. CASE Release(t)
      <3>1. key[t] \in Key
        BY <2>16, TypeFacts DEF Release, Holding
      <3>2. CASE Live(key[t])
        <4>1. /\ UNCHANGED <<entry, conLock, drain, left, phase, behind>>
              /\ pool' = [pool EXCEPT ![t] = At(key[t])]
              /\ pc' = [pc EXCEPT ![t] = "notify"]
          BY <2>16, <3>2 DEF Release, Deref, Goto, mainVars
        <4>2. \A u \in Thread \ {t} : pc'[u] = pc[u] /\ pool'[u] = pool[u]
          BY <4>1 DEF TypeInv, TypeOK
        <4>3. Mapped(pool'[t])
          BY <3>1, <3>2, <4>1, PoolAt DEF TypeInv, TypeOK
        <4>. QED
          BY <4>1, <4>2, <4>3, WalkQuiet
      <3>. QED
        BY <2>4, <2>16, <3>2 DEF Release, Deref
    <2>17. CASE Notify(t)
      <3>1. UNCHANGED <<entry, conLock, drain, left, phase, behind>>
        BY <2>17 DEF Notify, mainVars
      <3>2. CASE Redirect(t)
        BY <2>1, <3>1, <3>2 DEF Redirect, Goto, TypeInv, TypeOK
      <3>. QED
        BY <2>1, <2>2, <2>17, <3>1, <3>2 DEF Notify
    <2>. QED
      BY <1>2, <2>5, <2>6, <2>7, <2>8, <2>9, <2>10, <2>11, <2>12, <2>13, <2>14, <2>15, <2>16,
         <2>17 DEF ThreadStep
  <1>3. CASE MainStep
    <2>1. CASE Stop \/ Disconnect
      <3>1. UNCHANGED <<entry, conLock, drain, left, behind, pc, pool>>
        BY <2>1 DEF Stop, Disconnect, poolVars, threadVars
      <3>2. ~Draining /\ phase # "closed" /\ phase' \in {"stopped", "nodes"} /\ behind = {}
        BY <2>1 DEF Stop, Disconnect, Draining, Walk
      <3>3. ~conLock /\ drain = None
        BY <3>2 DEF Walk
      <3>4. \A k \in Key : entry[k] # "null" /\ ~Visited(k)'
        BY <3>1, <3>2, <3>3 DEF Walk, Visited
      <3>5. References'
        BY <3>1, <3>2 DEF Walk, References, Forgotten, Mapped
      <3>. QED
        BY <3>1, <3>2, <3>3, <3>4, <3>5 DEF Walk
    <2>2. CASE EnterMap \/ DrainEnd
      <3>. USE PoolAssumption
      <3>1. /\ Draining /\ conLock' = TRUE
            /\ drain' \in Pool \cup {None}
            /\ drain' # None =>
                 /\ drain'[1] \in MapKeys /\ entry[drain'[1]] = drain'[2]
                 /\ left' = PoolSize
                 /\ drain # None => drain[1] < drain'[1]
            /\ \A k \in MapKeys :
                 (drain # None => drain[1] < k) /\ (drain' # None => k < drain'[1])
                   => entry[k] = "absent"
        BY <2>2, Advances
      <3>2. UNCHANGED <<phase, behind, pool>>
        BY <2>2 DEF EnterMap, DrainEnd, threadVars
      <3>3. MapKeys \subseteq Key /\ Key \subseteq Nat /\ MapKeys' = MapKeys /\ Draining'
        BY <3>1, <3>2 DEF MapKeys, Key, Draining
      <3>4. drain # None => drain \in Pool /\ drain[1] \in MapKeys /\ Mapped(drain)
        BY DEF Walk, TypeInv, TypeOK
      <3>5. /\ \A k \in Key : \/ entry'[k] = entry[k]
                              \/ drain # None /\ k = drain[1] /\ entry'[k] = "null"
            /\ drain # None => entry'[drain[1]] = "null"
        <4>1. CASE EnterMap
          BY <4>1 DEF EnterMap
        <4>2. CASE DrainEnd
          BY <3>3, <3>4, <4>2 DEF DrainEnd, DeletePool, TypeInv, TypeOK, PoolTypeOK
        <4>. QED
          BY <2>2, <4>1, <4>2
      <3>6. \A k \in MapKeys : Visited(k)' =>
               Visited(k) \/ entry'[k] = "absent" \/ entry'[k] = "null"
        <4>. SUFFICES ASSUME NEW k \in MapKeys, Visited(k)', ~Visited(k)
                      PROVE  entry'[k] = "absent" \/ entry'[k] = "null"
          OBVIOUS
        <4>1. k \in Nat /\ (drain # None => drain[1] \in Nat)
          BY <3>3, <3>4
        <4>2. drain' # None => k < drain'[1]
          BY DEF Visited
        <4>3. CASE drain = None
          BY <3>1, <3>3, <3>5, <4>2, <4>3
        <4>4. CASE drain # None /\ drain[1] < k
          BY <3>1, <3>3, <3>5, <4>2, <4>4
        <4>5. CASE drain # None /\ drain[1] = k
          BY <3>5, <4>5
        <4>6. drain # None => ~(k < drain[1])
          BY DEF Visited
        <4>. QED
          BY <4>1, <4>3, <4>4, <4>5, <4>6
      <3>7. \A k \in Key : entry'[k] = "null" => Visited(k)'
        <4>. SUFFICES ASSUME NEW k \in Key, entry'[k] = "null" PROVE Visited(k)'
          OBVIOUS
        <4>1. (drain # None /\ k = drain[1]) \/ Visited(k)
          BY <3>5 DEF Walk
        <4>2. k \in MapKeys /\ drain # None /\ k <= drain[1] /\ k \in Nat /\ drain[1] \in Nat
          <5>1. CASE drain = None
            BY <2>2, <4>1, <5>1 DEF Visited, EnterMap, DrainEnd
          <5>2. CASE drain # None
            <6>1. k \in Nat /\ drain[1] \in Nat
              BY <3>3, <3>4, <5>2
            <6>2. k = drain[1] \/ (k \in MapKeys /\ k < drain[1])
              BY <4>1, <5>2 DEF Visited
            <6>. QED
              BY <3>4, <5>2, <6>1, <6>2
          <5>. QED
            BY <5>1, <5>2
        <4>3. drain' # None => drain'[1] \in Nat /\ drain[1] < drain'[1]
          BY <3>1, <3>3, <4>2
        <4>4. drain' # None => k < drain'[1]
          BY <4>2, <4>3
        <4>. QED
          BY <3>1, <3>3, <4>2, <4>4 DEF Visited
      <3>8. drain' # None => drain'[1] \in MapKeys' /\ Mapped(drain)'
                             /\ (left' = 0 => conLock')
        <4>1. drain' # None => drain'[1] \in Nat /\ (drain # None => drain'[1] # drain[1])
          <5>1. drain' # None => drain'[1] \in Nat
            BY <3>1, <3>3
          <5>2. drain # None => drain[1] \in Nat
            BY <3>3, <3>4
          <5>. QED
            BY <3>1, <5>1, <5>2
        <4>2. drain' # None => entry'[drain'[1]] = drain'[2]
          BY <3>1, <3>3, <3>5, <4>1
        <4>. QED
          BY <3>1, <3>3, <4>2 DEF Mapped
      <3>9. References'
        <4>. SUFFICES ASSUME NEW u \in Thread, pc'[u] \in {"pull", "notify"}
                      PROVE  Mapped(pool[u])'
          BY DEF References
        <4>1. pc[u] = pc'[u] /\ (drain # None => pool[u] # drain)
          BY <2>2 DEF EnterMap, DrainEnd, threadVars, TypeInv, TypeOK
        <4>2. pool[u] \in Pool /\ Mapped(pool[u])
          BY <3>1, <4>1, TypeFacts DEF Walk, References, Forgotten, Draining
        <4>3. drain # None => pool[u][1] # drain[1]
          BY <3>4, <4>1, <4>2, PoolParts
        <4>. QED
          BY <3>2, <3>5, <4>2, <4>3, PoolParts DEF Mapped
      <3>10. \A k \in Key : Visited(k)' /\ entry'[k] \in Made
                => <<k, entry'[k]>> \in behind
        <4>. SUFFICES ASSUME NEW k \in Key, Visited(k)', entry'[k] \in Made
                      PROVE  <<k, entry'[k]>> \in behind
          OBVIOUS
        <4>1. k \in MapKeys /\ Visited(k)
          BY <3>3, <3>6 DEF Visited, Made
        <4>2. entry'[k] = entry[k]
          BY <3>5 DEF Made
        <4>. QED
          BY <3>1, <4>1, <4>2 DEF Walk, Live, At
      <3>11. /\ \A k \in Key : entry'[k] = "second" => phase = "closed"
             /\ phase \in {"redirects", "closed"} => \A r \in SlotRange : entry'[r] = "absent"
        <4>1. phase = "redirects" /\ drain # None => drain[1] \in Host
          BY <3>4 DEF MapKeys
        <4>. QED
          BY <3>1, <3>5, <4>1 DEF Walk, Draining, Key
      <3>. QED
        BY <3>1, <3>2, <3>3, <3>7, <3>8, <3>9, <3>10, <3>11 DEF Walk, Live, At
    <2>3. CASE DrainOne
      <3>1. /\ drain # None /\ left > 0
            /\ UNCHANGED <<entry, phase, drain, behind, pc, pool>>
        BY <2>3 DEF DrainOne, threadVars
      <3>2. left' = 0 => conLock'
        BY <2>3, <3>1 DEF DrainOne, TypeInv, TypeOK
      <3>3. \A k \in Key : Visited(k)' = Visited(k)
        BY <3>1 DEF Visited, MapKeys
      <3>4. References'
        BY <3>1 DEF Walk, References, Forgotten, Mapped
      <3>. QED
        BY <3>1, <3>2, <3>3, <3>4 DEF Walk, Draining, MapKeys, Mapped, Live, At
    <2>4. CASE LeaveMap
      <3>1. /\ Draining /\ conLock /\ drain = None /\ drain' = None /\ ~conLock'
            /\ entry' = [k \in Key |-> IF k \in MapKeys THEN "absent" ELSE entry[k]]
            /\ UNCHANGED <<behind, pc, pool>>
            /\ phase' = IF phase = "nodes" THEN "redirects" ELSE "closed"
        BY <2>4 DEF LeaveMap, ClearMap, threadVars
      <3>2. MapKeys \subseteq Key /\ \A k \in MapKeys : Visited(k)
        BY <3>1 DEF Visited, MapKeys, Key
      <3>3. \A k \in Key : entry'[k] # "null" /\ entry'[k] # "second"
        BY <3>1, <3>2 DEF Walk, Visited, Draining
      <3>4. \A r \in SlotRange : entry'[r] = "absent"
        BY <3>1 DEF Walk, Draining, MapKeys, Key
      <3>5. References'
        <4>. SUFFICES ASSUME NEW u \in Thread, pc[u] \in {"pull", "notify"}
                      PROVE  Mapped(pool[u])' \/ pool[u] \in Forgotten'
          BY <3>1 DEF References
        <4>1. pool[u] \in Pool /\ Mapped(pool[u])
          BY <3>1, TypeFacts DEF Walk, References, Forgotten, Draining
        <4>2. /\ pool[u][1] \in Key /\ Live(pool[u][1]) /\ At(pool[u][1]) = pool[u]
          BY <4>1, PoolParts
        <4>3. CASE pool[u][1] \notin MapKeys
          BY <3>1, <4>1, <4>2, <4>3 DEF Mapped
        <4>4. CASE pool[u][1] \in MapKeys
          <5>1. pool[u] \in behind
            BY <3>1, <3>2, <4>2, <4>4 DEF Walk
          <5>2. phase = "redirects"
            BY <3>1, <5>1 DEF Walk, Draining
          <5>. QED
            BY <3>1, <5>1, <5>2 DEF Forgotten
        <4>. QED
          BY <4>3, <4>4
      <3>6. \A p \in behind' : p[1] \in Host /\ p[2] = "first"
                               /\ phase' \in {"redirects", "closed"}
        BY <3>1 DEF Walk
      <3>7. \A k \in Key : ~Visited(k)'
        BY <3>1 DEF Visited
      <3>. QED
        BY <3>1, <3>3, <3>4, <3>5, <3>6, <3>7 DEF Walk
    <2>. QED
      BY <1>3, <2>1, <2>2, <2>3, <2>4 DEF MainStep
  <1>4. CASE Spurious
    BY <1>4, WalkQuiet DEF Spurious, WakeSpuriously, threadVars, mainVars
  <1>. QED
    BY <1>1, <1>2, <1>3, <1>4 DEF Next, Done

(* Every variable keeps its type in every behaviour of the program: in     *)
(* particular process() never passes a NULL key or a NULL connection to    *)
(* releaseConnection.                                                      *)
THEOREM TypeCorrect == Spec => []TypeOK
  <1>1. Init => TypeInv /\ Walk
    BY TypeInit, WalkInit
  <1>2. TypeInv /\ Walk /\ [Next]_vars => (TypeInv /\ Walk)'
    BY TypeStep, WalkStep
  <1>3. TypeInv => TypeOK
    BY DEF TypeInv
  <1>. QED
    BY <1>1, <1>2, <1>3, PTL DEF Spec
-----------------------------------------------------------------------------
(* Custody.  ConnectionExclusive and HomePool lean on each other and on    *)
(* the life of a pool: a connection is fresh when insert() makes it, and   *)
(* disconnect() may free one because it has lost track of no other pool    *)
(* than those behind its iterator.                                         *)

(* The connections of pool p, by number, that are idle or held, or that    *)
(* still carry a trace of their use.                                       *)
Used(p) ==
  {i \in 1..PoolSize :
     \/ \E q \in Pool : \E j \in 1..Len(queue[q]) : queue[q][j] = <<p, i>>
     \/ \E t \in Thread : con[t] = <<p, i>>
     \/ err[<<p, i>>]
     \/ wire[<<p, i>>] # <<>>
     \/ asking[<<p, i>>] # None}

(* A pool that is not yet or no longer there has none, except one that was *)
(* forgotten; the one that is being drained has no more than disconnect()  *)
(* will still pull.                                                        *)
Lifetimes ==
  /\ \A p \in Pool : ~Mapped(p) /\ p \notin Forgotten => Used(p) = {} /\ queue[p] = <<>>
  /\ drain # None => Cardinality(Used(drain)) <= left

(* Until a pool can be replaced its queue holds its own connections only.  *)
OwnQueues ==
  phase # "closed" => \A p \in Pool : \A i \in 1..Len(queue[p]) : queue[p][i][1] = p

Custody == ConnectionExclusive /\ HomePool /\ OwnQueues /\ Lifetimes

(* Where process() stands in its dialogue with the node: nothing is owed   *)
(* on a connection that is healthy and about to be given back or idle, and *)
(* only redirection connections are given back broken.                     *)
Clean(c) == ~err[c] => wire[c] = <<>> /\ asking[c] = None

TalkOf(t) ==
  /\ pc[t] \in {"send", "asking"} => wire[con[t]] = <<>>
  /\ pc[t] = "recv" => wire[con[t]] = <<[by |-> t, what |-> "command"]>>
  /\ pc[t] = "asked" => wire[con[t]] = <<[by |-> t, what |-> "ASKING"]>>
  /\ pc[t] \in {"asking", "asked"} => asking[con[t]] = None
  /\ pc[t] \in {"send", "recv"} => asking[con[t]] = IF leg[t] = "ASK" THEN t ELSE None
  /\ pc[t] \in {"send", "asking", "recv", "asked"} => ~err[con[t]]
  /\ pc[t] = "release" => Clean(con[t]) /\ (leg[t] = "slot" => ~err[con[t]])

IdleOf(p) ==
  \A j \in 1..Len(queue[p]) :
    Clean(queue[p][j]) /\ (p[1] \in SlotRange => ~err[queue[p][j]])

Dialogue == (\A t \in Thread : TalkOf(t)) /\ (\A p \in Pool : IdleOf(p))

(* The connections of a pool are finitely many, at most PoolSize.          *)
LEMMA UsedFinite ==
  ASSUME NEW p \in Pool
  PROVE  /\ IsFiniteSet(Used(p)) /\ Cardinality(Used(p)) \in Nat
         /\ Cardinality(Used(p)) <= PoolSize
  <1>1. IsFiniteSet(1..PoolSize) /\ Cardinality(1..PoolSize) = PoolSize
    BY PoolAssumption, FS_Interval
  <1>2. Used(p) \in SUBSET (1..PoolSize)
    BY DEF Used
  <1>. QED
    BY <1>1, <1>2, FS_Subset, FS_CardinalityType

(* An idle connection is a used one of the pool that made it, and so is    *)
(* the one a thread holds.                                                 *)
LEMMA IdleIsUsed ==
  ASSUME TypeInv, NEW p \in Pool, NEW j \in 1..Len(queue[p])
  PROVE  /\ queue[p][j] \in Conn /\ queue[p][j] # None /\ queue[p][j][1] \in Pool
         /\ \E i \in Used(queue[p][j][1]) : queue[p][j] = <<queue[p][j][1], i>>
  <1>. DEFINE c == queue[p][j]
  <1>1. c \in Conn /\ c # None
    BY PoolAssumption DEF TypeInv, TypeOK, PoolTypeOK
  <1>2. PICK q \in Pool, i \in 1..PoolSize : c = <<q, i>>
    BY <1>1 DEF Conn
  <1>3. i \in Used(q) /\ c[1] = q
    BY <1>2 DEF Used
  <1>. QED
    BY <1>1, <1>2, <1>3

LEMMA HeldIsUsed ==
  ASSUME TypeInv, NEW t \in Thread, con[t] # None
  PROVE  /\ con[t] \in Conn /\ con[t][1] \in Pool
         /\ \E i \in Used(con[t][1]) : con[t] = <<con[t][1], i>>
  <1>1. con[t] \in Conn
    BY DEF TypeInv, TypeOK
  <1>2. PICK q \in Pool, i \in 1..PoolSize : con[t] = <<q, i>>
    BY <1>1 DEF Conn
  <1>3. i \in Used(q) /\ con[t][1] = q
    BY <1>2 DEF Used
  <1>. QED
    BY <1>1, <1>2, <1>3

(* A step that leaves the pools and the drain alone keeps Lifetimes if no  *)
(* pool gets a used connection by it, and none that is not there a queue.  *)
LEMMA LifetimesKept ==
  ASSUME Lifetimes, drain \in Pool \cup {None}, left \in Nat,
         UNCHANGED <<entry, drain, left, phase, behind>>,
         \A p \in Pool : Used(p)' \subseteq Used(p),
         \A p \in Pool : ~Mapped(p) /\ p \notin Forgotten /\ queue[p] = <<>>
                            => queue'[p] = <<>>
  PROVE  Lifetimes'
  <1>1. \A p \in Pool : ~Mapped(p) /\ p \notin Forgotten => Used(p)' = {} /\ queue'[p] = <<>>
    BY DEF Lifetimes
  <1>2. ASSUME drain # None PROVE Cardinality(Used(drain)') <= left
    <2>1. drain \in Pool
      BY <1>2
    <2>2. IsFiniteSet(Used(drain)) /\ Cardinality(Used(drain)) \in Nat
      BY <2>1, UsedFinite
    <2>3. /\ IsFiniteSet(Used(drain)')
          /\ Cardinality(Used(drain)') <= Cardinality(Used(drain))
      BY <2>1, <2>2, FS_Subset
    <2>4. Cardinality(Used(drain)') \in Nat
      BY <2>3, FS_CardinalityType
    <2>. QED
      BY <1>2, <2>2, <2>3, <2>4 DEF Lifetimes
  <1>3. /\ \A p : Mapped(p)' <=> Mapped(p)
        /\ Forgotten' = Forgotten
    BY DEF Mapped, Forgotten
  <1>. QED
    BY <1>1, <1>2, <1>3 DEF Lifetimes

(* Custody survives a step in which threads only keep or drop what they    *)
(* hold, and speak on no connection but one they hold.                     *)
LEMMA CustodyKept ==
  ASSUME TypeInv, TypeInv', Custody,
         UNCHANGED <<entry, queue, drain, left, phase, behind>>,
         \A u \in Thread : con'[u] # None => con'[u] = con[u] /\ key'[u] = key[u],
         \A c \in Conn : (\A u \in Thread : con[u] # c) =>
            err'[c] = err[c] /\ wire'[c] = wire[c] /\ asking'[c] = asking[c]
  PROVE  Custody'
  <1>. USE DEF Custody
  <1>1. HomePool' /\ OwnQueues'
    BY DEF HomePool, OwnQueues
  <1>2. ConnectionExclusive'
    <2>1. \A p \in Pool : \A j \in 1..Len(queue[p]) : queue[p][j] # None
      BY IdleIsUsed
    <2>. QED
      BY <2>1 DEF ConnectionExclusive
  <1>4. ASSUME NEW p \in Pool PROVE Used(p)' \subseteq Used(p)
    <2>. SUFFICES ASSUME NEW i \in 1..PoolSize, i \in Used(p)' PROVE i \in Used(p)
      BY DEF Used
    <2>1. <<p, i>> \in Conn /\ <<p, i>> # None
      BY PoolAssumption DEF Conn
    <2>2. CASE \E t \in Thread : con'[t] = <<p, i>> \/ con[t] = <<p, i>>
      BY <2>1, <2>2 DEF Used
    <2>3. CASE \A t \in Thread : con'[t] # <<p, i>> /\ con[t] # <<p, i>>
      BY <2>1, <2>3 DEF Used
    <2>. QED
      BY <2>2, <2>3
  <1>. QED
    BY <1>1, <1>2, <1>4, LifetimesKept DEF TypeInv, TypeOK

(* Exclusion survives the removal of the front of a queue; at most one     *)
(* thread, t, changes what it holds, to that connection or to nothing.     *)
LEMMA PullKeepsExclusion ==
  ASSUME TypeInv, TypeInv', HomePool, OwnQueues, ConnectionExclusive, UNCHANGED phase,
         NEW p \in Pool, Pull(p), NEW t,
         \A u \in Thread \ {t} : con'[u] = con[u] /\ key'[u] = key[u],
         t \in Thread =>
            \/ con'[t] = None
            \/ con'[t] = Head(queue[p]) /\ key'[t] = p[1]
  PROVE  /\ HomePool' /\ OwnQueues' /\ ConnectionExclusive'
         /\ \A r \in Pool : \A j \in 1..Len(queue'[r]) :
               \E k \in 1..Len(queue[r]) :
                  queue'[r][j] = queue[r][k] /\ (r = p => k # 1)
         /\ Head(queue[p]) = queue[p][1] /\ 1 \in 1..Len(queue[p])
  <1>. DEFINE q == queue[p]
  <1>1. /\ q \in Seq(Conn) /\ q # <<>>
        /\ queue' = [queue EXCEPT ![p] = Tail(q)]
        /\ queue \in [Pool -> Seq(Conn)]
    BY DEF Pull, TypeInv, TypeOK, PoolTypeOK
  <1>2. /\ Head(q) = q[1] /\ 1 \in 1..Len(q)
        /\ \A j \in 1..Len(Tail(q)) : j + 1 \in 2..Len(q) /\ Tail(q)[j] = q[j + 1]
        /\ Len(q) \in Nat
        /\ \A j \in 1..Len(Tail(q)) : j \in Nat /\ j + 1 \in 1..Len(q) /\ j + 1 # 1
    BY <1>1, FrontOfQueue
  <1>3. \A r \in Pool \ {p} : queue'[r] = queue[r]
    BY <1>1
  <1>4. \A r \in Pool : \A j \in 1..Len(queue'[r]) :
            \E k \in 1..Len(queue[r]) :
               queue'[r][j] = queue[r][k] /\ (r = p => k = j + 1 /\ k # 1)
                                         /\ (r # p => k = j)
    BY <1>1, <1>2, <1>3
  <1>5. HomePool' /\ OwnQueues'
    <2>1. \A u \in Thread : con'[u] # None => NodeOf(con'[u]) = key'[u]
      BY <1>2 DEF HomePool
    <2>2. \A r \in Pool : \A j \in 1..Len(queue'[r]) : NodeOf(queue'[r][j]) = r[1]
      BY <1>4 DEF HomePool
    <2>3. OwnQueues'
      BY <1>4 DEF OwnQueues
    <2>. QED
      BY <2>1, <2>2, <2>3 DEF HomePool, NodeOf
  <1>6. \A u, v \in Thread : con'[u] # None /\ con'[u] = con'[v] => u = v
    BY <1>2 DEF ConnectionExclusive
  <1>7. ASSUME NEW u \in Thread, NEW r \in Pool, NEW j \in 1..Len(queue'[r])
        PROVE  queue'[r][j] # con'[u]
    <2>1. PICK k \in 1..Len(queue[r]) :
             queue'[r][j] = queue[r][k] /\ (r = p => k # 1)
      BY <1>4
    <2>2. CASE con'[u] = con[u]
      BY <2>1, <2>2 DEF ConnectionExclusive
    <2>3. CASE con'[u] = None
      BY <2>1, <2>3, IdleIsUsed
    <2>4. CASE con'[u] = Head(q)
      BY <1>2, <2>1, <2>4 DEF ConnectionExclusive
    <2>. QED
      BY <2>2, <2>3, <2>4
  <1>8. ASSUME NEW r \in Pool, NEW s \in Pool,
               NEW i \in 1..Len(queue'[r]), NEW j \in 1..Len(queue'[s]),
               queue'[r][i] = queue'[s][j]
        PROVE  r = s /\ i = j
    <2>1. PICK k \in 1..Len(queue[r]) :
             /\ queue'[r][i] = queue[r][k]
             /\ (r = p => k = i + 1) /\ (r # p => k = i)
      BY <1>4
    <2>2. PICK l \in 1..Len(queue[s]) :
             /\ queue'[s][j] = queue[s][l]
             /\ (s = p => l = j + 1) /\ (s # p => l = j)
      BY <1>4
    <2>0. queue[r][k] = queue[s][l]
      BY <1>8, <2>1, <2>2
    <2>3. r = s /\ k = l
      BY <2>0 DEF ConnectionExclusive
    <2>4. queue'[r] \in Seq(Conn) /\ queue'[s] \in Seq(Conn)
      BY DEF TypeInv, TypeOK, PoolTypeOK
    <2>5. i \in Int /\ j \in Int
      BY <2>4
    <2>. QED
      BY <2>1, <2>2, <2>3, <2>5
  <1>9. ConnectionExclusive'
    BY <1>6, <1>7, <1>8 DEF ConnectionExclusive
  <1>. QED
    BY <1>2, <1>4, <1>5, <1>9

(* Custody survives a thread that takes the front of a queue, whether it   *)
(* keeps the connection or drops it.                                       *)
LEMMA CustodyPulled ==
  ASSUME TypeInv, TypeInv', Custody,
         NEW t \in Thread, NEW p \in Pool, Pull(p),
         UNCHANGED <<entry, drain, left, phase, behind, err, wire, asking>>,
         \A u \in Thread \ {t} : con'[u] = con[u] /\ key'[u] = key[u],
         \/ con'[t] = None
         \/ con'[t] = Head(queue[p]) /\ key'[t] = p[1]
  PROVE  Custody'
  <1>. USE DEF Custody
  <1>1. /\ HomePool' /\ OwnQueues' /\ ConnectionExclusive'
        /\ \A r \in Pool : \A j \in 1..Len(queue'[r]) :
              \E k \in 1..Len(queue[r]) : queue'[r][j] = queue[r][k]
        /\ Head(queue[p]) = queue[p][1] /\ 1 \in 1..Len(queue[p])
    BY PullKeepsExclusion
  <1>2. ASSUME NEW r \in Pool PROVE Used(r)' \subseteq Used(r)
    <2>. SUFFICES ASSUME NEW i \in 1..PoolSize, i \in Used(r)' PROVE i \in Used(r)
      BY DEF Used
    <2>1. CASE \E s \in Pool : \E j \in 1..Len(queue'[s]) : queue'[s][j] = <<r, i>>
      <3>0. PICK s \in Pool : \E j \in 1..Len(queue'[s]) : queue'[s][j] = <<r, i>>
        BY <2>1
      <3>1. PICK j \in 1..Len(queue'[s]) : queue'[s][j] = <<r, i>>
        BY <3>0
      <3>2. PICK k \in 1..Len(queue[s]) : queue'[s][j] = queue[s][k]
        BY <1>1
      <3>. QED
        BY <3>1, <3>2 DEF Used
    <2>2. CASE \E u \in Thread : con'[u] = <<r, i>>
      <3>1. PICK u \in Thread : con'[u] = <<r, i>>
        BY <2>2
      <3>2. <<r, i>> # None
        BY PoolAssumption DEF Conn
      <3>3. con[u] = <<r, i>> \/ queue[p][1] = <<r, i>>
        BY <1>1, <3>1, <3>2
      <3>. QED
        BY <1>1, <3>3 DEF Used
    <2>3. CASE err[<<r, i>>] \/ wire[<<r, i>>] # <<>> \/ asking[<<r, i>>] # None
      BY <2>3 DEF Used
    <2>. QED
      BY <2>1, <2>2, <2>3 DEF Used
  <1>3. \A r \in Pool : queue[r] = <<>> => queue'[r] = <<>>
    BY DEF Pull, TypeInv, TypeOK, PoolTypeOK
  <1>. QED
    BY <1>1, <1>2, <1>3, LifetimesKept DEF TypeInv, TypeOK

(* Custody survives releaseConnection, also when the pool at the key is    *)
(* not the one that the connection was taken from.                         *)
LEMMA CustodyReleased ==
  ASSUME TypeInv, TypeInv', Custody,
         NEW t \in Thread, con[t] # None, Live(key[t]), Push(At(key[t]), con[t]),
         con' = [con EXCEPT ![t] = None],
         UNCHANGED <<entry, key, drain, left, phase, behind, err, wire, asking>>
  PROVE  Custody'
  <1>. DEFINE p == At(key[t])
              q == queue[p]
  <1>. USE DEF Custody
  <1>0. con[t] \in Conn /\ con[t][1] \in Pool /\ NodeOf(con[t]) = key[t]
    BY HeldIsUsed DEF HomePool
  <1>1. p \in Pool /\ p[1] = key[t] /\ Mapped(p)
    <2>1. key[t] \in Key
      BY <1>0 DEF NodeOf, Pool
    <2>. QED
      BY <2>1, PoolAt
  <1>a. phase # "closed" => con[t][1] = p
    <2>. SUFFICES ASSUME phase # "closed" PROVE con[t][1] = p
      OBVIOUS
    <2>1. Used(con[t][1]) # {}
      BY HeldIsUsed
    <2>2. Mapped(con[t][1])
      BY <1>0, <2>1 DEF Lifetimes, Forgotten
    <2>. QED
      BY <1>0, <2>2, PoolParts DEF NodeOf
  <1>2. /\ q \in Seq(Conn) /\ Len(q) \in Nat
        /\ queue \in [Pool -> Seq(Conn)]
        /\ queue' = [queue EXCEPT ![p] = Append(q, con[t])]
    BY <1>1 DEF Push, TypeInv, TypeOK, PoolTypeOK
  <1>3. /\ Len(Append(q, con[t])) = Len(q) + 1
        /\ \A i \in 1..Len(q) : Append(q, con[t])[i] = q[i]
        /\ Append(q, con[t])[Len(q) + 1] = con[t]
    BY <1>0, <1>2, BackOfQueue
  <1>. HIDE DEF p
  <1>4. \A r \in Pool : \A j \in 1..Len(queue'[r]) :
           \/ j \in 1..Len(queue[r]) /\ queue'[r][j] = queue[r][j]
           \/ r = p /\ j = Len(q) + 1 /\ queue'[r][j] = con[t]
    BY <1>1, <1>2, <1>3
  <1>5. HomePool' /\ OwnQueues'
    <2>1. \A r \in Pool : \A j \in 1..Len(queue'[r]) : NodeOf(queue'[r][j]) = r[1]
      BY <1>0, <1>1, <1>4 DEF HomePool
    <2>2. \A u \in Thread : con'[u] # None => NodeOf(con'[u]) = key'[u]
      BY DEF HomePool, TypeInv, TypeOK
    <2>3. OwnQueues'
      BY <1>a, <1>4 DEF OwnQueues
    <2>. QED
      BY <2>1, <2>2, <2>3 DEF HomePool, NodeOf
  <1>6. \A u \in Thread : con'[u] # None => u # t /\ con'[u] = con[u]
    BY DEF TypeInv, TypeOK
  <1>7. ConnectionExclusive'
    <2>1. \A u, v \in Thread : con'[u] # None /\ con'[u] = con'[v] => u = v
      BY <1>6 DEF ConnectionExclusive
    <2>2. ASSUME NEW u \in Thread, NEW r \in Pool, NEW j \in 1..Len(queue'[r])
          PROVE  queue'[r][j] # con'[u]
      <3>1. queue'[r][j] # None
        BY <1>4, IdleIsUsed
      <3>2. CASE con'[u] # None
        BY <1>4, <1>6, <3>2 DEF ConnectionExclusive
      <3>. QED
        BY <3>1, <3>2
    <2>3. ASSUME NEW r \in Pool, NEW s \in Pool, NEW i \in 1..Len(queue'[r]),
                 NEW j \in 1..Len(queue'[s]), queue'[r][i] = queue'[s][j]
          PROVE  r = s /\ i = j
      <3>1. \A o \in Pool : \A k \in 1..Len(queue[o]) : queue[o][k] # con[t]
        BY DEF ConnectionExclusive
      <3>. QED
        BY <1>4, <2>3, <3>1 DEF ConnectionExclusive
    <2>. QED
      BY <2>1, <2>2, <2>3 DEF ConnectionExclusive
  <1>9. ASSUME NEW r \in Pool PROVE Used(r)' \subseteq Used(r)
    <2>. SUFFICES ASSUME NEW i \in 1..PoolSize, i \in Used(r)' PROVE i \in Used(r)
      BY DEF Used
    <2>1. <<r, i>> # None
      BY PoolAssumption DEF Conn
    <2>2. CASE \E s \in Pool : \E j \in 1..Len(queue'[s]) : queue'[s][j] = <<r, i>>
      <3>0. PICK s \in Pool : \E j \in 1..Len(queue'[s]) : queue'[s][j] = <<r, i>>
        BY <2>2
      <3>1. PICK j \in 1..Len(queue'[s]) : queue'[s][j] = <<r, i>>
        BY <3>0
      <3>2. \/ \E k \in 1..Len(queue[s]) : queue[s][k] = <<r, i>>
            \/ con[t] = <<r, i>>
        BY <1>4, <3>1
      <3>. QED
        BY <3>2 DEF Used
    <2>3. CASE \E u \in Thread : con'[u] = <<r, i>>
      BY <1>6, <2>1, <2>3 DEF Used
    <2>4. CASE err[<<r, i>>] \/ wire[<<r, i>>] # <<>> \/ asking[<<r, i>>] # None
      BY <2>4 DEF Used
    <2>. QED
      BY <2>2, <2>3, <2>4 DEF Used
  <1>10. \A r \in Pool : ~Mapped(r) => queue'[r] = queue[r]
    BY <1>1, <1>2
  <1>. QED
    BY <1>5, <1>7, <1>9, <1>10, LifetimesKept DEF TypeInv, TypeOK

(* insert() makes a pool that is not there yet, nor was there before.      *)
LEMMA NewPoolFresh ==
  ASSUME Walk, NEW k \in Key, entry[k] = "absent"
  PROVE  ~Mapped(NewPool(k)) /\ NewPool(k) \notin Forgotten
  <1>. DEFINE p == NewPool(k)
  <1>1. /\ p \in Pool /\ p[1] = k
        /\ p[2] = IF phase = "closed" THEN "second" ELSE "first"
    BY PoolMade
  <1>. HIDE DEF p
  <1>2. ~Mapped(p)
    BY <1>1 DEF Mapped
  <1>3. p \notin Forgotten
    BY <1>1 DEF Forgotten, Walk
  <1>. QED
    BY <1>2, <1>3 DEF p

(* Custody survives insert() of a new pool p, complete or not: no trace of *)
(* a former pool that was p is left.                                       *)
LEMMA CustodyCreated ==
  ASSUME TypeInv, TypeInv', Walk, Custody,
         NEW t \in Thread, con[t] = None,
         NEW k \in Key, NEW p, p = NewPool(k), Record(p),
         entry[k] = "absent", entry' = [entry EXCEPT ![p[1]] = p[2]],
         NEW q \in Seq(Conn), queue' = [queue EXCEPT ![p] = q],
         \A j \in 1..Len(q) : q[j][1] = p,
         \A i, j \in 1..Len(q) : q[i] = q[j] => i = j,
         UNCHANGED <<drain, left, phase, err, wire, asking>>,
         \A u \in Thread \ {t} : con'[u] = con[u] /\ key'[u] = key[u],
         con'[t] # None =>
            /\ con'[t] \in Conn /\ con'[t][1] = p /\ key'[t] = k
            /\ \A j \in 1..Len(q) : q[j] # con'[t]
  PROVE  Custody'
  <1>. USE DEF Custody
  <1>0. p \in Pool /\ p[1] = k /\ p[2] \in Made /\ ~Mapped(p) /\ p \notin Forgotten
    <2>1. p \in Pool /\ p[1] = k /\ p[2] \in Made
      BY PoolMade, PoolParts
    <2>. QED
      BY <2>1, NewPoolFresh
  <1>1. queue \in [Pool -> Seq(Conn)] /\ queue'[p] = q
    BY <1>0 DEF TypeInv, TypeOK, PoolTypeOK
  <1>2. \A r \in Pool \ {p} : queue'[r] = queue[r]
    BY <1>1 DEF TypeInv, TypeOK, PoolTypeOK
  <1>3. Used(p) = {}
    BY <1>0 DEF Lifetimes
  <1>4. /\ \A u \in Thread : con[u] # None => con[u][1] # p
        /\ \A r \in Pool : \A j \in 1..Len(queue[r]) :
              queue[r][j] # None /\ queue[r][j][1] # p
    BY <1>3, HeldIsUsed, IdleIsUsed
  <1>5. HomePool' /\ OwnQueues'
    <2>1. \A r \in Pool : \A j \in 1..Len(queue'[r]) : NodeOf(queue'[r][j]) = r[1]
      BY <1>1, <1>2 DEF HomePool, NodeOf
    <2>2. \A u \in Thread \ {t} : con'[u] # None => NodeOf(con'[u]) = key'[u]
      BY DEF HomePool, NodeOf
    <2>3. con'[t] # None => NodeOf(con'[t]) = key'[t]
      BY <1>0 DEF NodeOf
    <2>4. OwnQueues'
      BY <1>1, <1>2 DEF OwnQueues
    <2>. QED
      BY <2>1, <2>2, <2>3, <2>4 DEF HomePool, NodeOf
  <1>6. ConnectionExclusive'
    <2>1. \A u, v \in Thread : con'[u] # None /\ con'[u] = con'[v] => u = v
      BY <1>4 DEF ConnectionExclusive
    <2>2. ASSUME NEW u \in Thread, NEW r \in Pool, NEW j \in 1..Len(queue'[r])
          PROVE  queue'[r][j] # con'[u]
      <3>1. queue'[r][j] # None
        <4>1. \A i \in 1..Len(q) : q[i] \in Conn
          OBVIOUS
        <4>. QED
          BY <1>1, <1>2, <1>4, <4>1, PoolAssumption
      <3>2. CASE con'[u] = None
        BY <3>1, <3>2
      <3>3. CASE u = t /\ con'[t] # None
        BY <1>1, <1>2, <1>4, <3>3
      <3>4. CASE u # t /\ con'[u] # None
        BY <1>1, <1>2, <1>4, <3>4 DEF ConnectionExclusive
      <3>. QED
        BY <3>2, <3>3, <3>4
    <2>3. ASSUME NEW r \in Pool, NEW s \in Pool, NEW i \in 1..Len(queue'[r]),
                 NEW j \in 1..Len(queue'[s]), queue'[r][i] = queue'[s][j]
          PROVE  r = s /\ i = j
      <3>1. CASE r = p /\ s = p
        BY <1>1, <2>3, <3>1
      <3>2. CASE r # p /\ s # p
        <4>1. queue'[r] = queue[r] /\ queue'[s] = queue[s]
          BY <1>2, <3>2
        <4>2. i \in 1..Len(queue[r]) /\ j \in 1..Len(queue[s]) /\ queue[r][i] = queue[s][j]
          BY <2>3, <4>1
        <4>. QED
          BY <4>2 DEF ConnectionExclusive
      <3>3. CASE r = p /\ s # p
        <4>1. queue'[r][i][1] = p
          BY <1>1, <2>3, <3>3
        <4>2. queue'[s][j][1] # p
          BY <1>2, <1>4, <2>3, <3>3
        <4>. QED
          BY <2>3, <4>1, <4>2
      <3>4. CASE r # p /\ s = p
        <4>1. queue'[s][j][1] = p
          BY <1>1, <2>3, <3>4
        <4>2. queue'[r][i][1] # p
          BY <1>2, <1>4, <2>3, <3>4
        <4>. QED
          BY <2>3, <4>1, <4>2
      <3>. QED
        BY <3>1, <3>2, <3>3, <3>4
    <2>. QED
      BY <2>1, <2>2, <2>3 DEF ConnectionExclusive
  <1>7. ASSUME NEW r \in Pool \ {p} PROVE Used(r)' \subseteq Used(r)
    <2>. SUFFICES ASSUME NEW i \in 1..PoolSize, i \in Used(r)' PROVE i \in Used(r)
      BY DEF Used
    <2>1. <<r, i>> # None /\ <<r, i>>[1] # p
      BY PoolAssumption DEF Conn
    <2>2. CASE \E s \in Pool : \E j \in 1..Len(queue'[s]) : queue'[s][j] = <<r, i>>
      <3>1. PICK s \in Pool : \E j \in 1..Len(queue'[s]) : queue'[s][j] = <<r, i>>
        BY <2>2
      <3>2. s # p
        BY <1>1, <2>1, <3>1
      <3>. QED
        BY <1>2, <3>1, <3>2 DEF Used
    <2>3. CASE \E u \in Thread : con'[u] = <<r, i>>
      <3>1. PICK u \in Thread : con'[u] = <<r, i>>
        BY <2>3
      <3>2. u # t
        BY <2>1, <3>1
      <3>. QED
        BY <3>1, <3>2 DEF Used
    <2>4. CASE err[<<r, i>>] \/ wire[<<r, i>>] # <<>> \/ asking[<<r, i>>] # None
      BY <2>4 DEF Used
    <2>. QED
      BY <2>2, <2>3, <2>4 DEF Used
  <1>8. ASSUME NEW r \in Pool PROVE Mapped(r)' <=> Mapped(r) \/ r = p
    <2>0. /\ r = <<r[1], r[2]>> /\ r[1] \in Key /\ r[2] \in Made
          /\ p = <<p[1], p[2]>> /\ p[1] = k /\ p[2] \in Made
      BY <1>0, PoolParts
    <2>1. CASE r[1] = k
      <3>1. entry'[k] = p[2] /\ entry[k] = "absent"
        BY <1>0 DEF TypeInv, TypeOK, PoolTypeOK
      <3>. QED
        BY <2>0, <2>1, <3>1 DEF Mapped, Made
    <2>2. CASE r[1] # k
      BY <1>0, <2>0, <2>2 DEF Mapped, TypeInv, TypeOK, PoolTypeOK
    <2>. QED
      BY <2>1, <2>2
  <1>9. Forgotten' = Forgotten
    BY DEF Forgotten, Record, Passed
  <1>10. Lifetimes'
    <2>1. \A r \in Pool : ~Mapped(r)' /\ r \notin Forgotten'
              => Used(r)' = {} /\ queue'[r] = <<>>
      BY <1>2, <1>7, <1>8, <1>9 DEF Lifetimes
    <2>2. ASSUME drain # None PROVE Cardinality(Used(drain)') <= left
      <3>1. drain \in Pool /\ Mapped(drain) /\ left \in Nat
        BY <2>2 DEF Walk, TypeInv, TypeOK
      <3>2. drain # p
        BY <1>0, <3>1
      <3>3. IsFiniteSet(Used(drain)) /\ Cardinality(Used(drain)) \in Nat
        BY <3>1, UsedFinite
      <3>4. /\ IsFiniteSet(Used(drain)')
            /\ Cardinality(Used(drain)') <= Cardinality(Used(drain))
        BY <1>7, <3>1, <3>2, <3>3, FS_Subset
      <3>5. Cardinality(Used(drain)') \in Nat
        BY <3>4, FS_CardinalityType
      <3>. QED
        BY <2>2, <3>1, <3>3, <3>4, <3>5 DEF Lifetimes
    <2>. QED
      BY <2>1, <2>2 DEF Lifetimes
  <1>. QED
    BY <1>5, <1>6, <1>10

(* Custody survives disconnect() freeing a connection: the pool it drains  *)
(* has one used connection less, and one less is left to pull.             *)
LEMMA CustodyDrained ==
  ASSUME TypeInv, TypeInv', Walk, Custody, drain # None, left > 0, Pull(drain),
         UNCHANGED <<entry, drain, phase, behind, con, key>>,
         err' = [err EXCEPT ![Head(queue[drain])] = FALSE],
         wire' = [wire EXCEPT ![Head(queue[drain])] = <<>>],
         asking' = [asking EXCEPT ![Head(queue[drain])] = None],
         left' = left - 1
  PROVE  Custody'
  <1>. DEFINE p == drain
              c == Head(queue[p])
  <1>. USE DEF Custody
  <1>1. p \in Pool /\ left \in Nat /\ phase # "closed"
    BY DEF TypeInv, TypeOK, Walk, Draining
  <1>2. /\ HomePool' /\ OwnQueues' /\ ConnectionExclusive'
        /\ \A r \in Pool : \A j \in 1..Len(queue'[r]) :
              \E k \in 1..Len(queue[r]) : queue'[r][j] = queue[r][k] /\ (r = p => k # 1)
        /\ c = queue[p][1] /\ 1 \in 1..Len(queue[p])
    <2>1. Main \notin Thread
      BY PoolAssumption
    <2>. QED
      BY <1>1, <2>1, PullKeepsExclusion
  <1>3. PICK n \in Used(p) : c = <<p, n>>
    <2>1. c[1] = p
      BY <1>1, <1>2 DEF OwnQueues
    <2>. QED
      BY <1>1, <1>2, <2>1, IdleIsUsed
  <1>4. c \in Conn /\ n \in 1..PoolSize
    BY <1>1, <1>3 DEF Used, Conn
  <1>5. \A r \in Pool, i \in 1..PoolSize : <<r, i>> # c =>
           /\ err'[<<r, i>>] = err[<<r, i>>]
           /\ wire'[<<r, i>>] = wire[<<r, i>>]
           /\ asking'[<<r, i>>] = asking[<<r, i>>]
    BY DEF TypeInv, TypeOK, Conn
  <1>6. ~err'[c] /\ wire'[c] = <<>> /\ asking'[c] = None
    BY <1>4 DEF TypeInv, TypeOK
  <1>7. ASSUME NEW r \in Pool, NEW i \in 1..PoolSize, i \in Used(r)'
        PROVE  i \in Used(r) /\ <<r, i>> # c
    <2>1. CASE \E s \in Pool : \E j \in 1..Len(queue'[s]) : queue'[s][j] = <<r, i>>
      <3>s. PICK s \in Pool : \E j \in 1..Len(queue'[s]) : queue'[s][j] = <<r, i>>
        BY <2>1
      <3>0. PICK j \in 1..Len(queue'[s]) : queue'[s][j] = <<r, i>>
        BY <3>s
      <3>1. PICK k \in 1..Len(queue[s]) :
               queue'[s][j] = queue[s][k] /\ (s = p => k # 1)
        BY <1>2, <3>0
      <3>2. queue[s][k] # queue[p][1]
        BY <1>1, <1>2, <3>1 DEF ConnectionExclusive
      <3>3. queue[s][k] = <<r, i>> /\ <<r, i>> # c
        BY <1>2, <3>0, <3>1, <3>2
      <3>. QED
        BY <3>3 DEF Used
    <2>2. CASE \E u \in Thread : con[u] = <<r, i>>
      <3>1. \A u \in Thread : queue[p][1] # con[u]
        BY <1>1, <1>2 DEF ConnectionExclusive
      <3>2. <<r, i>> # c
        BY <1>2, <2>2, <3>1, Zenon
      <3>. QED
        BY <2>2, <3>2 DEF Used
    <2>3. CASE err'[<<r, i>>] \/ wire'[<<r, i>>] # <<>> \/ asking'[<<r, i>>] # None
      <3>1. <<r, i>> # c
        BY <1>6, <2>3
      <3>. QED
        BY <1>5, <2>3, <3>1 DEF Used
    <2>. QED
      BY <1>7, <2>1, <2>2, <2>3 DEF Used
  <1>8. \A r \in Pool : Used(r)' \subseteq Used(r)
    BY <1>7 DEF Used
  <1>9. Used(p)' \subseteq Used(p) \ {n}
    BY <1>1, <1>3, <1>7 DEF Used
  <1>10. Cardinality(Used(p)') <= left'
    <2>1. IsFiniteSet(Used(p)) /\ Cardinality(Used(p)) \in Nat
      BY <1>1, UsedFinite
    <2>2. /\ IsFiniteSet(Used(p) \ {n})
          /\ Cardinality(Used(p) \ {n}) = Cardinality(Used(p)) - 1
      BY <1>3, <2>1, FS_RemoveElement
    <2>3. /\ IsFiniteSet(Used(p)')
          /\ Cardinality(Used(p)') <= Cardinality(Used(p) \ {n})
      BY <1>9, <2>2, FS_Subset
    <2>4. Cardinality(Used(p)') \in Nat
      BY <2>3, FS_CardinalityType
    <2>5. Cardinality(Used(p)) <= left
      BY DEF Lifetimes
    <2>. QED
      BY <1>1, <2>1, <2>2, <2>3, <2>4, <2>5
  <1>11. Lifetimes'
    <2>1. \A r \in Pool : queue[r] = <<>> => queue'[r] = <<>>
      BY DEF Pull, TypeInv, TypeOK, PoolTypeOK
    <2>2. \A r \in Pool : ~Mapped(r)' /\ r \notin Forgotten'
              => Used(r)' = {} /\ queue'[r] = <<>>
      BY <1>8, <2>1 DEF Lifetimes, Mapped, Forgotten
    <2>. QED
      BY <1>10, <2>2 DEF Lifetimes
  <1>. QED
    BY <1>2, <1>11

(* Custody survives the deletion of a pool that nothing is left of, and    *)
(* the iterator's move to the next one.                                    *)
LEMMA CustodyMoved ==
  ASSUME TypeInv, TypeInv', Walk, Custody, EnterMap \/ DrainEnd
  PROVE  Custody'
  <1>. USE DEF Custody
  <1>1. /\ UNCHANGED <<key, con, err, wire, asking, phase, behind>>
        /\ phase # "closed"
    BY DEF EnterMap, DrainEnd, threadVars, netVars, Walk, Draining
  <1>2. drain' # None => drain' \in Pool /\ left' = PoolSize
    BY Advances DEF TypeInv, TypeOK
  <1>3. ASSUME drain # None, DrainEnd
        PROVE  drain \in Pool /\ Used(drain) = {} /\ queue[drain] = <<>>
    <2>1. drain \in Pool /\ left = 0
      BY <1>3 DEF DrainEnd, TypeInv, TypeOK
    <2>2. Used(drain) = {}
      <3>1. IsFiniteSet(Used(drain)) /\ Cardinality(Used(drain)) \in Nat
        BY <2>1, UsedFinite
      <3>2. Cardinality(Used(drain)) = 0
        BY <1>3, <2>1, <3>1 DEF Lifetimes
      <3>. QED
        BY <3>1, <3>2, FS_EmptySet
    <2>3. \A j \in 1..Len(queue[drain]) : FALSE
      BY <1>1, <2>1, <2>2, IdleIsUsed DEF OwnQueues
    <2>4. queue[drain] \in Seq(Conn)
      BY <2>1 DEF TypeInv, TypeOK, PoolTypeOK
    <2>. QED
      BY <2>1, <2>2, <2>3, <2>4
  <1>4. queue' = queue
    <2>1. CASE EnterMap
      BY <2>1 DEF EnterMap
    <2>2. CASE DrainEnd
      <3>1. drain # None /\ queue' = [queue EXCEPT ![drain] = <<>>]
        BY <2>2 DEF DrainEnd, DeletePool
      <3>. QED
        BY <1>3, <2>2, <3>1 DEF TypeInv, TypeOK, PoolTypeOK
    <2>. QED
      BY <2>1, <2>2
  <1>5. \A p : Used(p)' = Used(p)
    BY <1>1, <1>4 DEF Used
  <1>6. ASSUME NEW p \in Pool, ~Mapped(p)', Mapped(p)
        PROVE  Used(p) = {} /\ queue[p] = <<>>
    <2>1. CASE EnterMap
      BY <1>6, <2>1 DEF EnterMap, Mapped
    <2>2. CASE DrainEnd
      <3>1. drain # None /\ entry' = [entry EXCEPT ![drain[1]] = "null"]
        BY <2>2 DEF DrainEnd, DeletePool
      <3>2. p[1] = drain[1]
        BY <1>6, <3>1, PoolParts DEF Mapped, TypeInv, TypeOK, PoolTypeOK
      <3>3. p = drain
        BY <1>3, <1>6, <2>2, <3>1, <3>2, PoolParts DEF Walk
      <3>. QED
        BY <1>3, <2>2, <3>1, <3>3
    <2>. QED
      BY <2>1, <2>2
  <1>7. Lifetimes'
    <2>1. \A p \in Pool : ~Mapped(p)' => Used(p) = {} /\ queue[p] = <<>>
      BY <1>1, <1>6 DEF Lifetimes, Forgotten
    <2>2. \A p \in Pool : Cardinality(Used(p)') <= PoolSize
      BY <1>5, UsedFinite
    <2>. QED
      BY <1>2, <1>4, <1>5, <2>1, <2>2 DEF Lifetimes
  <1>8. HomePool' /\ OwnQueues' /\ ConnectionExclusive'
    BY <1>1, <1>4 DEF HomePool, OwnQueues, ConnectionExclusive, NodeOf
  <1>. QED
    BY <1>7, <1>8

(* Custody survives cons.clear(): what it takes out of the map in use was  *)
(* inserted behind the iterator.                                           *)
LEMMA CustodyCleared ==
  ASSUME TypeInv, TypeInv', Walk, Custody, LeaveMap
  PROVE  Custody'
  <1>. USE DEF Custody
  <1>1. /\ Draining /\ conLock /\ drain = None
        /\ entry' = [k \in Key |-> IF k \in MapKeys THEN "absent" ELSE entry[k]]
        /\ UNCHANGED <<queue, key, con, err, wire, asking, drain, left, behind>>
        /\ phase' = IF phase = "nodes" THEN "redirects" ELSE "closed"
    BY DEF LeaveMap, ClearMap, threadVars, netVars
  <1>2. \A p : Used(p)' = Used(p)
    BY <1>1 DEF Used
  <1>3. ASSUME NEW p \in Pool, ~Mapped(p)', p \notin Forgotten'
        PROVE  Used(p) = {} /\ queue[p] = <<>>
    <2>1. CASE ~Mapped(p)
      <3>1. p \notin Forgotten
        BY <1>1 DEF Forgotten, Draining
      <3>. QED
        BY <2>1, <3>1 DEF Lifetimes
    <2>2. CASE Mapped(p)
      <3>1. p[1] \in MapKeys /\ p[1] \in Key /\ Live(p[1]) /\ At(p[1]) = p
        BY <1>1, <1>3, <2>2, PoolParts DEF Mapped
      <3>2. p \in behind
        BY <1>1, <3>1 DEF Walk, Visited
      <3>3. p \in Forgotten'
        BY <1>1, <3>2 DEF Walk, Forgotten, Draining
      <3>. QED
        BY <1>3, <3>3
    <2>. QED
      BY <2>1, <2>2
  <1>4. Lifetimes'
    BY <1>1, <1>2, <1>3 DEF Lifetimes
  <1>5. HomePool' /\ OwnQueues' /\ ConnectionExclusive'
    BY <1>1 DEF HomePool, OwnQueues, ConnectionExclusive, NodeOf, Draining
  <1>. QED
    BY <1>4, <1>5

LEMMA CustodyInit == Init => Custody
  <1>. SUFFICES ASSUME Init PROVE Custody
    OBVIOUS
  <1>2. PICK covered \in SUBSET SlotRange : PoolInit(covered)
    BY DEF Init
  <1>3. /\ \A p \in Pool : queue[p] = IF Mapped(p) THEN Filled(p, PoolSize) ELSE <<>>
        /\ \A t \in Thread : con[t] = None
        /\ drain = None
    BY <1>2 DEF Init, PoolInit
  <1>4. \A p \in Pool : \A j \in 1..Len(queue[p]) : queue[p][j] = <<p, j>>
    <2>1. PoolSize \in 0..PoolSize
      BY PoolAssumption
    <2>2. \A p \in Pool : Len(Filled(p, PoolSize)) = PoolSize
                          /\ \A i \in 1..PoolSize : Filled(p, PoolSize)[i] = <<p, i>>
      BY <2>1, NewQueue
    <2>. QED
      BY <1>3, <2>2
  <1>5. HomePool /\ OwnQueues
    BY <1>3, <1>4 DEF HomePool, OwnQueues, NodeOf
  <1>6. ConnectionExclusive
    <2>1. \A p \in Pool : \A j \in 1..Len(queue[p]) : queue[p][j] # None
      BY TypeInit, IdleIsUsed
    <2>. QED
      BY <1>3, <1>4, <2>1 DEF ConnectionExclusive
  <1>7. Lifetimes
    <2>1. ASSUME NEW p \in Pool, ~Mapped(p) PROVE Used(p) = {} /\ queue[p] = <<>>
      <3>1. \A q \in Pool : \A j \in 1..Len(queue[q]) : queue[q][j][1] = q
        BY <1>4
      <3>2. \A i \in 1..PoolSize : <<p, i>> \in Conn /\ <<p, i>> # None
        BY PoolAssumption DEF Conn
      <3>3. queue[p] = <<>>
        BY <1>3, <2>1
      <3>. QED
        BY <1>3, <3>1, <3>2, <3>3 DEF Used, Init
    <2>. QED
      BY <1>3, <2>1 DEF Lifetimes
  <1>. QED
    BY <1>5, <1>6, <1>7 DEF Custody

(* pullConnection keeps Custody, wherever it is called from.               *)
LEMMA PullConnectionCustody ==
  ASSUME TypeInv, TypeInv', Custody, NEW t \in Thread,
         NEW p \in Pool, p[1] = key[t], PullConnection(t, p),
         pc[t] \in {"getConnection", "insert", "pull"}
  PROVE  Custody'
  <1>1. con[t] = None
    BY DEF TypeInv, Control, ControlOf, Holding
  <1>2. /\ UNCHANGED <<entry, drain, left, phase, behind, err, wire, asking>>
        /\ \A u \in Thread \ {t} : con'[u] = con[u] /\ key'[u] = key[u]
        /\ con'[t] = None \/ key'[t] = key[t]
    <2>1. CASE Take(t, Head(queue[p]))
      BY <2>1 DEF PullConnection, Take, Throw, Finish, netVars, mainVars, TypeInv, TypeOK
    <2>2. CASE UNCHANGED <<leg, key, con, reply>>
      BY <2>2 DEF PullConnection, netVars, mainVars
    <2>. QED
      BY <2>1, <2>2 DEF PullConnection
  <1>3. CASE Pull(p) /\ Take(t, Head(queue[p]))
    <2>1. \/ con'[t] = None
          \/ con'[t] = Head(queue[p]) /\ key'[t] = p[1]
      BY <1>3 DEF Take, Throw, Finish, TypeInv, TypeOK
    <2>. QED
      BY <1>2, <1>3, <2>1, CustodyPulled
  <1>4. CASE Wait(t, p) /\ UNCHANGED <<leg, key, con, reply>>
    <2>1. UNCHANGED <<entry, queue, drain, left, phase, behind, key, con, err, wire, asking>>
      BY <1>2, <1>4 DEF Wait
    <2>. QED
      BY <2>1, CustodyKept
  <1>. QED
    BY <1>3, <1>4 DEF PullConnection

(* Every step of the program keeps Custody.                                *)
LEMMA CustodyStep == TypeInv /\ Walk /\ Custody /\ [Next]_vars => Custody'
  <1>. SUFFICES ASSUME TypeInv, Walk, Custody, [Next]_vars PROVE Custody'
    OBVIOUS
  <1>. USE DEF poolVars, netVars, mainVars, threadVars
  <1>1. TypeInv'
    BY TypeStep
  <1>2. ASSUME UNCHANGED <<entry, queue, drain, left, phase, behind, key, con, err, wire, asking>>
        PROVE  Custody'
    BY <1>1, <1>2, CustodyKept
  <1>3. ASSUME NEW t \in Thread, ThreadStep(t) PROVE Custody'
    <2>1. ASSUME UNCHANGED <<entry, queue, drain, left, phase, behind, err, wire, asking>>,
                 \A u \in Thread \ {t} : con'[u] = con[u] /\ key'[u] = key[u],
                 con'[t] = None
          PROVE  Custody'
      BY <1>1, <2>1, CustodyKept
    <2>2. \A how : Finish(t, how) =>
             /\ \A u \in Thread \ {t} : con'[u] = con[u] /\ key'[u] = key[u]
             /\ con'[t] = None
      BY DEF Finish, TypeInv, TypeOK
    <2>3. pc[t] \notin Holding => con[t] = None
      BY DEF TypeInv, Control, ControlOf
    <2>4. CASE Crash
      BY <1>2, <2>4 DEF Crash
    <2>5. ASSUME NEW r \in SlotRange, Begin(t, r) PROVE Custody'
      <3>1. con'[t] = None /\ con' = con /\ \A u \in Thread \ {t} : key'[u] = key[u]
        BY <2>3, <2>5 DEF Begin, Holding, TypeInv, TypeOK
      <3>. QED
        BY <2>1, <2>5, <3>1 DEF Begin
    <2>6. CASE NotInitialized(t)
      BY <2>1, <2>2, <2>6 DEF NotInitialized, Throw
    <2>7. CASE GetConnection(t)
      <3>1. pc[t] = "getConnection" /\ key[t] \in Key
        BY <2>7, TypeFacts DEF GetConnection
      <3>2. CASE Live(key[t]) /\ PullConnection(t, At(key[t]))
        BY <1>1, <3>1, <3>2, PoolAt, PullConnectionCustody
      <3>3. CASE Throw(t) /\ UNCHANGED <<poolVars, netVars, mainVars>>
        BY <2>1, <2>2, <3>3 DEF Throw
      <3>. QED
        BY <2>4, <2>7, <3>2, <3>3 DEF GetConnection, Deref
    <2>8. CASE Insert(t)
      <3>. DEFINE k == key[t]
                  p == NewPool(k)
      <3>0. pc[t] = "insert" /\ k \in Key /\ con[t] = None /\ PoolSize \in Nat \ {0}
        BY <2>3, <2>8, TypeFacts, PoolAssumption DEF Insert, Holding
      <3>1. CASE Deref(k, PullConnection(t, At(k)))
        BY <1>1, <2>4, <3>0, <3>1, PoolAt, PullConnectionCustody DEF Deref
      <3>a. p \in Pool /\ p[1] = k
        BY <3>0, PoolMade
      <3>. HIDE DEF p
      <3>2. CASE /\ CreatePool(p) /\ Take(t, Filled(p, PoolSize)[1]) /\ Record(p)
                 /\ UNCHANGED <<drain, left, phase, err, wire, asking>>
        <4>. DEFINE s == Filled(p, PoolSize)
        <4>1. s \in Seq(Conn) /\ Len(s) = PoolSize /\ \A i \in 1..PoolSize : s[i] = <<p, i>>
          BY <3>0, <3>a, NewQueue
        <4>2. s # <<>> /\ 1 \in 1..PoolSize
          BY <3>0, <4>1
        <4>3. /\ Tail(s) \in Seq(Conn) /\ Len(Tail(s)) = PoolSize - 1
              /\ \A j \in 1..Len(Tail(s)) : j + 1 \in 2..PoolSize /\ Tail(s)[j] = <<p, j + 1>>
          BY <3>0, <4>1, <4>2, FrontOfQueue
        <4>4. /\ \A j \in 1..Len(Tail(s)) : Tail(s)[j][1] = p /\ Tail(s)[j] # s[1]
              /\ \A i, j \in 1..Len(Tail(s)) : Tail(s)[i] = Tail(s)[j] => i = j
          BY <4>1, <4>2, <4>3
        <4>5. /\ \A u \in Thread \ {t} : con'[u] = con[u] /\ key'[u] = key[u]
              /\ con'[t] # None => con'[t] = s[1] /\ key'[t] = k
          BY <3>2 DEF Take, Throw, Finish, TypeInv, TypeOK
        <4>6. s[1] \in Conn /\ s[1][1] = p
          <5>1. s[1] = <<p, 1>>
            BY <4>1, <4>2
          <5>. QED
            BY <3>a, <4>2, <5>1 DEF Conn
        <4>7. /\ entry[k] = "absent" /\ entry' = [entry EXCEPT ![p[1]] = p[2]]
              /\ queue' = [queue EXCEPT ![p] = Tail(s)]
          BY <3>2, <3>a DEF CreatePool
        <4>8. con'[t] # None =>
                /\ con'[t] \in Conn /\ con'[t][1] = p /\ key'[t] = k
                /\ \A j \in 1..Len(Tail(s)) : Tail(s)[j] # con'[t]
          BY <4>4, <4>5, <4>6
        <4>. HIDE DEF s
        <4>. QED
          BY <1>1, <3>0, <3>2, <4>3, <4>4, <4>5, <4>7, <4>8, CustodyCreated DEF p
      <3>3. ASSUME NEW n \in 0..(PoolSize - 1), CreatePoolFails(p, n), Throw(t), Record(p),
                   UNCHANGED <<drain, left, phase, err, wire, asking>>
            PROVE  Custody'
        <4>. DEFINE s == Filled(p, n)
        <4>1. s \in Seq(Conn) /\ Len(s) = n /\ \A i \in 1..n : s[i] = <<p, i>>
          <5>1. n \in 0..PoolSize
            BY <3>0
          <5>. QED
            BY <3>a, <5>1, NewQueue
        <4>2. /\ \A j \in 1..Len(s) : s[j][1] = p
              /\ \A i, j \in 1..Len(s) : s[i] = s[j] => i = j
          BY <4>1
        <4>3. /\ entry[k] = "absent" /\ entry' = [entry EXCEPT ![p[1]] = p[2]]
              /\ queue' = [queue EXCEPT ![p] = s]
          BY <3>3, <3>a DEF CreatePoolFails
        <4>4. /\ \A u \in Thread \ {t} : con'[u] = con[u] /\ key'[u] = key[u]
              /\ con'[t] = None
          BY <2>2, <3>3 DEF Throw
        <4>. HIDE DEF s
        <4>. QED
          BY <1>1, <3>0, <3>3, <4>1, <4>2, <4>3, <4>4, CustodyCreated DEF p
      <3>. QED
        BY <2>8, <3>1, <3>2, <3>3 DEF Insert, p
    <2>9. CASE PullAgain(t)
      <3>1. pc[t] = "pull" /\ pool[t] \in Pool /\ pool[t][1] = key[t]
        BY <2>9, TypeFacts, PoolAssumption DEF PullAgain, TypeInv, Control, ControlOf
      <3>. QED
        BY <1>1, <2>9, <3>1, PullConnectionCustody DEF PullAgain
    <2>10. ASSUME pc[t] \in Holding, UNCHANGED <<entry, queue, drain, left, phase, behind>>,
                  \A c \in Conn \ {con[t]} :
                     err'[c] = err[c] /\ wire'[c] = wire[c] /\ asking'[c] = asking[c],
                  \/ UNCHANGED <<key, con>>
                  \/ \E how : Finish(t, how)
           PROVE  Custody'
      BY <1>1, <2>2, <2>10, CustodyKept
    <2>11. (Answer(con[t]) \/ Break(con[t])) =>
              \A c \in Conn \ {con[t]} :
                 err'[c] = err[c] /\ wire'[c] = wire[c] /\ asking'[c] = asking[c]
      BY DEF Answer, Break, TypeInv, TypeOK
    <2>12. CASE Send(t) \/ SendAsking(t)
      <3>1. \A c \in Conn \ {con[t]} : wire'[c] = wire[c]
        BY <2>12 DEF Send, SendAsking, Write, TypeInv, TypeOK
      <3>. QED
        BY <2>10, <2>12, <3>1 DEF Send, SendAsking, Holding
    <2>13. CASE AskingReply(t)
      BY <2>4, <2>10, <2>11, <2>13 DEF AskingReply, Throw, Holding
    <2>14. CASE SlotReply(t)
      BY <2>10, <2>11, <2>14 DEF SlotReply, KeepReply, Throw, Holding
    <2>15. CASE AskReply(t)
      BY <2>4, <2>10, <2>11, <2>15 DEF AskReply, KeepReply, Throw, Holding
    <2>16. CASE MovedReply(t)
      BY <2>10, <2>11, <2>16 DEF MovedReply, KeepReply, Holding
    <2>17. CASE Release(t)
      <3>1. con[t] # None
        BY <2>17 DEF Release, Holding, TypeInv, Control, ControlOf
      <3>. QED
        BY <1>1, <2>4, <2>17, <3>1, CustodyReleased DEF Release, Deref
    <2>18. CASE Notify(t)
      <3>1. con[t] = None
        BY <2>3, <2>18 DEF Notify, Holding
      <3>2. CASE Redirect(t)
        <4>1. con'[t] = None /\ con' = con /\ \A u \in Thread \ {t} : key'[u] = key[u]
          BY <3>1, <3>2 DEF Redirect, TypeInv, TypeOK
        <4>. QED
          BY <2>1, <2>18, <4>1 DEF Notify
      <3>3. CASE Finish(t, reply[t])
        BY <2>1, <2>2, <2>18, <3>3 DEF Notify
      <3>. QED
        BY <2>18, <3>2, <3>3 DEF Notify
    <2>19. CASE UseDeletedPool(t)
      BY <2>4, <2>19 DEF UseDeletedPool
    <2>. QED
      BY <1>3, <2>5, <2>6, <2>7, <2>8, <2>9, <2>12, <2>13, <2>14, <2>15, <2>16, <2>17, <2>18,
         <2>19
      DEF ThreadStep
  <1>4. CASE MainStep
    <2>1. CASE Stop \/ Disconnect
      <3>1. /\ UNCHANGED <<entry, queue, drain, left, behind, key, con, err, wire, asking>>
            /\ phase # "closed" /\ phase' # "closed" /\ drain = None
        BY <2>1 DEF Stop, Disconnect, Walk, Draining
      <3>2. \A p : (Mapped(p)' <=> Mapped(p)) /\ Used(p)' = Used(p)
        BY <3>1 DEF Mapped, Used
      <3>3. Lifetimes'
        BY <3>1, <3>2 DEF Custody, Lifetimes, Forgotten
      <3>. QED
        BY <3>1, <3>3 DEF Custody, HomePool, OwnQueues, ConnectionExclusive, NodeOf
    <2>2. CASE EnterMap \/ DrainEnd
      BY <1>1, <2>2, CustodyMoved
    <2>3. CASE DrainOne
      <3>1. CASE Wait(Main, drain) /\ UNCHANGED <<netVars, left>>
        BY <1>2, <2>3, <3>1 DEF DrainOne, Wait
      <3>2. CASE ~(Wait(Main, drain) /\ UNCHANGED <<netVars, left>>)
        BY <1>1, <2>3, <3>2, CustodyDrained DEF DrainOne
      <3>. QED
        BY <3>1, <3>2
    <2>4. CASE LeaveMap
      BY <1>1, <2>4, CustodyCleared
    <2>. QED
      BY <1>4, <2>1, <2>2, <2>3, <2>4 DEF MainStep
  <1>5. CASE Spurious
    BY <1>2, <1>5 DEF Spurious, WakeSpuriously
  <1>6. CASE UNCHANGED vars
    BY <1>2, <1>6 DEF vars
  <1>. QED
    BY <1>3, <1>4, <1>5, <1>6 DEF Next, Done
-----------------------------------------------------------------------------
(* The other threads and the idle connections are not concerned by what    *)
(* thread t says on the connection it holds.                               *)
LEMMA OnlyOneTalks ==
  ASSUME TypeInv, Custody, Dialogue, NEW t \in Thread, TalkOf(t)',
         \A u \in Thread \ {t} : pc'[u] = pc[u] /\ leg'[u] = leg[u] /\ con'[u] = con[u],
         \A c \in Conn : c # con[t] =>
            err'[c] = err[c] /\ wire'[c] = wire[c] /\ asking'[c] = asking[c],
         \A p \in Pool : \A j \in 1..Len(queue'[p]) :
            \E k \in 1..Len(queue[p]) : queue'[p][j] = queue[p][k]
  PROVE  Dialogue'
  <1>1. ASSUME NEW u \in Thread \ {t} PROVE TalkOf(u)'
    <2>1. CASE con[u] = None
      BY <2>1 DEF TalkOf, Dialogue, Holding, TypeInv, Control, ControlOf
    <2>2. CASE con[u] # None
      <3>1. con[u] \in Conn /\ con[u] # con[t]
        BY <2>2 DEF TypeInv, TypeOK, Custody, ConnectionExclusive
      <3>2. /\ pc'[u] = pc[u] /\ leg'[u] = leg[u] /\ con'[u] = con[u]
            /\ err'[con[u]] = err[con[u]]
            /\ wire'[con[u]] = wire[con[u]]
            /\ asking'[con[u]] = asking[con[u]]
        BY <3>1
      <3>3. TalkOf(u)
        BY DEF Dialogue
      <3>. QED
        BY <3>2, <3>3 DEF TalkOf, Clean
    <2>. QED
      BY <2>1, <2>2
  <1>2. ASSUME NEW p \in Pool, NEW j \in 1..Len(queue'[p])
        PROVE  (Clean(queue[p][j]) /\ (p[1] \in SlotRange => ~err[queue[p][j]]))'
    <2>1. PICK k \in 1..Len(queue[p]) : queue'[p][j] = queue[p][k]
      OBVIOUS
    <2>2. queue[p][k] \in Conn /\ queue[p][k] # con[t]
      BY DEF TypeInv, TypeOK, PoolTypeOK, Custody, ConnectionExclusive
    <2>3. Clean(queue[p][k]) /\ (p[1] \in SlotRange => ~err[queue[p][k]])
      BY DEF Dialogue, IdleOf
    <2>4. /\ err'[queue[p][k]] = err[queue[p][k]]
          /\ wire'[queue[p][k]] = wire[queue[p][k]]
          /\ asking'[queue[p][k]] = asking[queue[p][k]]
      BY <2>2
    <2>. HIDE DEF Dialogue
    <2>. QED
      BY <2>1, <2>3, <2>4 DEF Clean
  <1>. QED
    BY <1>1, <1>2 DEF Dialogue, IdleOf

(* A thread that takes an idle connection can talk on it.                  *)
LEMMA TakeTalks ==
  ASSUME TypeInv, NEW t \in Thread, NEW c \in Conn, Take(t, c), UNCHANGED netVars,
         Clean(c), leg[t] = "slot" => ~err[c],
         pc[t] \in {"getConnection", "insert", "pull"}
  PROVE  TalkOf(t)'
  <1>. USE DEF netVars
  <1>1. CASE Throw(t)
    BY <1>1 DEF Throw, Finish, TalkOf, TypeInv, TypeOK
  <1>2. CASE ~Throw(t)
    <2>1. /\ con'[t] = c /\ leg'[t] = leg[t]
          /\ pc'[t] \in {"send", "asking", "release"}
          /\ pc'[t] = "asking" <=> leg[t] = "ASK" /\ ~err[c]
          /\ pc'[t] = "release" => leg[t] = "ASK" /\ err[c]
          /\ pc'[t] # "release" => ~err[c]
      BY <1>2 DEF Take, Goto, TypeInv, TypeOK
    <2>. QED
      BY <2>1 DEF TalkOf, Clean
  <1>. QED
    BY <1>1, <1>2

LEMMA PullConnectionTalks ==
  ASSUME TypeInv, Custody, Dialogue, NEW t \in Thread,
         NEW p \in Pool, p[1] = key[t], PullConnection(t, p),
         pc[t] \in {"getConnection", "insert", "pull"}
  PROVE  Dialogue'
  <1>1. leg[t] = "slot" => p[1] \in SlotRange
    BY TypeFacts DEF TypeInv, Control, ControlOf
  <1>2. UNCHANGED netVars
    BY DEF PullConnection
  <1>3. CASE Pull(p) /\ Take(t, Head(queue[p]))
    <2>1. /\ Head(queue[p]) \in Conn
          /\ Head(queue[p]) = queue[p][1] /\ 1 \in 1..Len(queue[p])
          /\ \A r \in Pool : \A j \in 1..Len(queue'[r]) :
                \E k \in 1..Len(queue[r]) : queue'[r][j] = queue[r][k]
      <3>1. /\ queue[p] \in Seq(Conn) /\ queue[p] # <<>>
            /\ queue' = [queue EXCEPT ![p] = Tail(queue[p])]
            /\ queue \in [Pool -> Seq(Conn)]
        BY <1>1, <1>3 DEF Pull, TypeInv, TypeOK, PoolTypeOK
      <3>2. /\ Head(queue[p]) \in Conn /\ Head(queue[p]) = queue[p][1]
            /\ Len(queue[p]) \in Nat \ {0}
            /\ \A j \in 1..Len(Tail(queue[p])) :
                  j + 1 \in 2..Len(queue[p]) /\ Tail(queue[p])[j] = queue[p][j + 1]
        BY <3>1, FrontOfQueue
      <3>3. \A j \in 1..Len(Tail(queue[p])) : j + 1 \in 1..Len(queue[p])
        BY <3>2
      <3>. QED
        BY <1>1, <3>1, <3>2, <3>3
    <2>2. Clean(Head(queue[p])) /\ (leg[t] = "slot" => ~err[Head(queue[p])])
      BY <1>1, <2>1 DEF Dialogue, IdleOf
    <2>3. TalkOf(t)'
      BY <1>2, <1>3, <2>1, <2>2, TakeTalks
    <2>4. \A u \in Thread \ {t} : pc'[u] = pc[u] /\ leg'[u] = leg[u] /\ con'[u] = con[u]
      BY <1>3 DEF Take, Throw, Finish, Goto, TypeInv, TypeOK
    <2>. QED
      BY <1>2, <2>1, <2>3, <2>4, OnlyOneTalks DEF netVars
  <1>4. CASE Wait(t, p) /\ Goto(t, "pull") /\ UNCHANGED <<leg, key, con, reply>>
    <2>1. TalkOf(t)'
      BY <1>4 DEF Goto, TalkOf, TypeInv, TypeOK
    <2>2. \A u \in Thread \ {t} : pc'[u] = pc[u]
      BY <1>4 DEF Goto, TypeInv, TypeOK
    <2>. QED
      BY <1>2, <1>4, <2>1, <2>2, OnlyOneTalks DEF Wait, netVars
  <1>. QED
    BY <1>3, <1>4 DEF PullConnection

LEMMA DialogueInit == Init => Dialogue
  <1>. SUFFICES ASSUME Init PROVE Dialogue
    OBVIOUS
  <1>1. \A t \in Thread : TalkOf(t)
    BY DEF Init, TalkOf
  <1>2. TypeInv
    BY TypeInit
  <1>3. \A p \in Pool : IdleOf(p)
    BY <1>2 DEF Init, IdleOf, Clean, TypeInv, TypeOK, PoolTypeOK
  <1>. QED
    BY <1>1, <1>3 DEF Dialogue

(* Every step of the program keeps Dialogue.                               *)
LEMMA DialogueStep == TypeInv /\ Walk /\ Custody /\ Dialogue /\ [Next]_vars => Dialogue'
  <1>. SUFFICES ASSUME TypeInv, Walk, Custody, Dialogue, [Next]_vars PROVE Dialogue'
    OBVIOUS
  <1>. USE DEF poolVars, netVars, mainVars, threadVars
  <1>1. ASSUME UNCHANGED <<queue, pc, leg, con, err, wire, asking>> PROVE Dialogue'
    BY <1>1 DEF Dialogue, TalkOf, IdleOf, Clean
  <1>2. ASSUME NEW t \in Thread, ThreadStep(t) PROVE Dialogue'
    <2>1. ASSUME UNCHANGED queue, TalkOf(t)',
                 \A u \in Thread \ {t} : pc'[u] = pc[u] /\ leg'[u] = leg[u] /\ con'[u] = con[u],
                 \/ UNCHANGED netVars
                 \/ Answer(con[t]) \/ Break(con[t])
          PROVE  Dialogue'
      <3>1. \A c \in Conn : c # con[t] =>
               err'[c] = err[c] /\ wire'[c] = wire[c] /\ asking'[c] = asking[c]
        BY <2>1 DEF Answer, Break, TypeInv, TypeOK
      <3>. QED
        BY <2>1, <3>1, OnlyOneTalks
    <2>2. \A label : Goto(t, label) =>
             pc'[t] = label /\ \A u \in Thread \ {t} : pc'[u] = pc[u]
      BY DEF Goto, TypeInv, TypeOK
    <2>3. \A how : Finish(t, how) =>
             /\ TalkOf(t)'
             /\ \A u \in Thread \ {t} : pc'[u] = pc[u] /\ leg'[u] = leg[u] /\ con'[u] = con[u]
      BY DEF Finish, TalkOf, TypeInv, TypeOK
    <2>4. CASE Crash
      BY <1>1, <2>4 DEF Crash
    <2>5. ASSUME NEW r \in SlotRange, Begin(t, r) PROVE Dialogue'
      <3>1. /\ pc'[t] = "getConnection"
            /\ \A u \in Thread \ {t} : pc'[u] = pc[u] /\ leg'[u] = leg[u] /\ con'[u] = con[u]
        BY <2>2, <2>5 DEF Begin, TypeInv, TypeOK
      <3>2. TalkOf(t)'
        BY <3>1 DEF TalkOf
      <3>. QED
        BY <2>1, <2>5, <3>1, <3>2 DEF Begin
    <2>6. CASE NotInitialized(t)
      BY <2>1, <2>3, <2>6 DEF NotInitialized, Throw
    <2>7. CASE GetConnection(t)
      <3>1. pc[t] = "getConnection" /\ key[t] \in Key
        BY <2>7, TypeFacts DEF GetConnection
      <3>2. CASE Live(key[t]) /\ PullConnection(t, At(key[t]))
        BY <3>1, <3>2, PoolAt, PullConnectionTalks
      <3>3. CASE Throw(t) /\ UNCHANGED <<poolVars, netVars>>
        BY <2>1, <2>3, <3>3 DEF Throw
      <3>. QED
        BY <2>4, <2>7, <3>2, <3>3 DEF GetConnection, Deref
    <2>8. CASE PullAgain(t)
      <3>1. pc[t] = "pull" /\ pool[t] \in Pool /\ pool[t][1] = key[t]
        BY <2>8, TypeFacts, PoolAssumption DEF PullAgain, TypeInv, Control, ControlOf
      <3>. QED
        BY <2>8, <3>1, PullConnectionTalks DEF PullAgain
    <2>9. CASE Insert(t)
      <3>. DEFINE k == key[t]
      <3>k. k \in Host /\ k \in Key /\ PoolSize \in Nat \ {0} /\ leg[t] # "slot"
        BY <2>9, PoolAssumption DEF Insert, TypeInv, Control, ControlOf, Key
      <3>0. PICK p \in Pool :
               /\ p = NewPool(k) /\ p[1] = k
               /\ entry[k] = "absent" => ~Mapped(p) /\ p \notin Forgotten
        BY <3>k, PoolMade, NewPoolFresh
      <3>1. CASE Deref(k, PullConnection(t, At(k)))
        BY <2>4, <2>9, <3>k, <3>1, PoolAt, PullConnectionTalks DEF Insert, Deref
      <3>2. ASSUME CreatePool(p) \/ \E n \in 0..(PoolSize - 1) : CreatePoolFails(p, n),
                   Take(t, Filled(p, PoolSize)[1]) \/ Throw(t),
                   UNCHANGED netVars
            PROVE  Dialogue'
        <4>1. /\ Filled(p, PoolSize) \in Seq(Conn)
              /\ Len(Filled(p, PoolSize)) = PoolSize
              /\ \A n \in 0..PoolSize : \A i \in 1..n : Filled(p, n)[i] = <<p, i>>
              /\ \A n \in 0..PoolSize : Len(Filled(p, n)) = n
          BY <3>0, <3>k, NewQueue
        <4>2. \A i \in 1..PoolSize : Clean(<<p, i>>) /\ ~err[<<p, i>>]
          <5>1. Used(p) = {}
            BY <3>0, <3>2 DEF Custody, Lifetimes, CreatePool, CreatePoolFails
          <5>. QED
            BY <5>1 DEF Used, Clean
        <4>3. \A j \in 1..Len(queue'[p]) :
                 \E i \in 1..PoolSize : queue'[p][j] = <<p, i>>
          <5>1. CASE CreatePool(p)
            <6>1. Filled(p, PoolSize) # <<>>
              BY <3>k, <4>1
            <6>2. /\ Len(Tail(Filled(p, PoolSize))) = PoolSize - 1
                  /\ \A j \in 1..Len(Tail(Filled(p, PoolSize))) :
                        /\ j + 1 \in 2..PoolSize
                        /\ Tail(Filled(p, PoolSize))[j] = Filled(p, PoolSize)[j + 1]
              BY <4>1, <6>1, FrontOfQueue
            <6>3. \A j \in 1..Len(Tail(Filled(p, PoolSize))) :
                     Tail(Filled(p, PoolSize))[j] = <<p, j + 1>> /\ j + 1 \in 1..PoolSize
              BY <3>k, <4>1, <6>2
            <6>4. queue'[p] = Tail(Filled(p, PoolSize))
              BY <3>0, <5>1 DEF CreatePool, TypeInv, TypeOK, PoolTypeOK
            <6>. QED
              BY <6>3, <6>4
          <5>2. ASSUME NEW n \in 0..(PoolSize - 1), CreatePoolFails(p, n)
                PROVE  \A j \in 1..Len(queue'[p]) :
                          \E i \in 1..PoolSize : queue'[p][j] = <<p, i>>
            <6>1. queue'[p] = Filled(p, n)
              BY <3>0, <5>2 DEF CreatePoolFails, TypeInv, TypeOK, PoolTypeOK
            <6>2. n \in 0..PoolSize /\ \A i \in 1..n : i \in 1..PoolSize
              BY <3>k
            <6>. QED
              BY <4>1, <6>1, <6>2
          <5>. QED
            BY <3>2, <5>1, <5>2
        <4>4. \A r \in Pool \ {p} : queue'[r] = queue[r]
          BY <3>0, <3>2 DEF CreatePool, CreatePoolFails, TypeInv, TypeOK, PoolTypeOK
        <4>5. \A r \in Pool : IdleOf(r)'
          <5>1. IdleOf(p)'
            <6>1. \A j \in 1..Len(queue'[p]) : (Clean(queue[p][j]))'
              BY <3>2, <4>2, <4>3 DEF Clean
            <6>2. p[1] \notin SlotRange
              BY <3>0, <3>k, PoolAssumption
            <6>. QED
              BY <6>1, <6>2 DEF IdleOf
          <5>2. \A r \in Pool \ {p} : IdleOf(r)'
            BY <3>2, <4>4 DEF Dialogue, IdleOf, Clean
          <5>. QED
            BY <5>1, <5>2
        <4>6. \A u \in Thread \ {t} : pc'[u] = pc[u] /\ leg'[u] = leg[u] /\ con'[u] = con[u]
          BY <2>3, <3>2 DEF Take, Throw, Finish, Goto, TypeInv, TypeOK
        <4>7. \A u \in Thread \ {t} : TalkOf(u)'
          <5>. SUFFICES ASSUME NEW u \in Thread \ {t} PROVE TalkOf(u)'
            OBVIOUS
          <5>1. TalkOf(u)
            BY DEF Dialogue
          <5>. QED
            BY <3>2, <4>6, <5>1 DEF TalkOf, Clean
        <4>8. TalkOf(t)'
          <5>1. /\ Filled(p, PoolSize)[1] = <<p, 1>>
                /\ <<p, 1>> \in Conn /\ 1 \in 1..PoolSize
            BY <3>0, <3>k, <4>1 DEF Conn
          <5>2. CASE Take(t, Filled(p, PoolSize)[1])
            BY <2>9, <3>k, <3>2, <4>2, <5>1, <5>2, TakeTalks DEF Insert
          <5>. QED
            BY <2>3, <3>2, <5>2 DEF Throw
        <4>. QED
          BY <4>5, <4>7, <4>8 DEF Dialogue
      <3>. QED
        BY <2>9, <3>0, <3>1, <3>2 DEF Insert
    <2>10. ASSUME pc[t] \in Holding
           PROVE  /\ con[t] \in Conn /\ wire[con[t]] \in Seq(Request)
                  /\ con[t] \in DOMAIN err /\ con[t] \in DOMAIN asking
                  /\ TalkOf(t) /\ t \in Thread
      BY <2>10, TypeFacts DEF Dialogue, TypeInv, TypeOK
    <2>11. CASE Send(t) \/ SendAsking(t)
      <3>1. pc[t] \in Holding
        BY <2>11 DEF Send, SendAsking, Holding
      <3>2. PICK what \in {"command", "ASKING"} :
               /\ what = "command" => pc[t] = "send" /\ pc'[t] = "recv"
               /\ what = "ASKING" => pc[t] = "asking" /\ pc'[t] = "asked"
               /\ wire' = [wire EXCEPT ![con[t]] = Append(@, [by |-> t, what |-> what])]
               /\ \A u \in Thread \ {t} : pc'[u] = pc[u]
               /\ UNCHANGED <<queue, leg, con, err, asking>>
        BY <2>2, <2>11 DEF Send, SendAsking, Write
      <3>3. wire[con[t]] = <<>> /\ TalkOf(t) /\ con[t] \in Conn
        BY <2>10, <3>1, <3>2 DEF TalkOf
      <3>4. wire'[con[t]] = <<[by |-> t, what |-> what]>>
        BY <3>2, <3>3 DEF TypeInv, TypeOK
      <3>5. TalkOf(t)'
        BY <3>2, <3>3, <3>4 DEF TalkOf
      <3>6. \A c \in Conn : c # con[t] => wire'[c] = wire[c]
        BY <3>2, <3>3 DEF TypeInv, TypeOK
      <3>. QED
        BY <3>2, <3>5, <3>6, OnlyOneTalks
    <2>12. ASSUME pc[t] \in {"recv", "asked"}, Answer(con[t])
           PROVE  /\ wire'[con[t]] = <<>> /\ err'[con[t]] = FALSE
                  /\ pc[t] = "asked" => asking'[con[t]] = t
                  /\ pc[t] = "recv" => asking'[con[t]] = None
      <3>1. TalkOf(t) /\ con[t] \in Conn
        BY <2>10, <2>12 DEF Holding
      <3>2. PICK what \in {"command", "ASKING"} :
               /\ wire[con[t]] = <<[by |-> t, what |-> what]>>
               /\ pc[t] = "asked" <=> what = "ASKING"
        BY <2>12, <3>1 DEF TalkOf
      <3>3. Tail(wire[con[t]]) = <<>> /\ Head(wire[con[t]]) = [by |-> t, what |-> what]
        BY <3>2
      <3>4. wire'[con[t]] = <<>>
        BY <2>12, <3>1, <3>3 DEF Answer, TypeInv, TypeOK
      <3>5. asking'[con[t]] = IF what = "ASKING" THEN t ELSE None
        BY <2>12, <3>1, <3>3 DEF Answer, TypeInv, TypeOK
      <3>6. err'[con[t]] = FALSE
        BY <2>12, <3>1 DEF Answer, TalkOf, TypeInv, TypeOK
      <3>. QED
        BY <2>12, <3>2, <3>4, <3>5, <3>6
    <2>13. ASSUME pc[t] \in Holding, Break(con[t]) PROVE err'[con[t]] = TRUE
      BY <2>10, <2>13 DEF Break, TypeInv, TypeOK
    <2>14. ASSUME NEW r, KeepReply(t, r), pc[t] = "recv",
                  Answer(con[t]) \/ (Break(con[t]) /\ leg[t] # "slot")
           PROVE  /\ TalkOf(t)'
                  /\ \A u \in Thread \ {t} : pc'[u] = pc[u] /\ leg'[u] = leg[u] /\ con'[u] = con[u]
      <3>1. /\ pc'[t] = "release" /\ con' = con /\ leg' = leg
            /\ \A u \in Thread \ {t} : pc'[u] = pc[u]
        BY <2>2, <2>14 DEF KeepReply
      <3>2. (Clean(con[t]) /\ (leg[t] = "slot" => ~err[con[t]]))'
        BY <2>12, <2>13, <2>14, <3>1 DEF Clean, Holding
      <3>. QED
        BY <3>1, <3>2 DEF TalkOf
    <2>15. CASE AskingReply(t)
      <3>1. CASE Answer(con[t]) /\ Goto(t, "send") /\ UNCHANGED <<leg, key, con, reply>>
        <4>1. pc'[t] = "send" /\ \A u \in Thread \ {t} : pc'[u] = pc[u]
          BY <2>2, <3>1
        <4>2. leg[t] = "ASK" /\ pc[t] = "asked"
          BY <2>15 DEF AskingReply, TypeInv, Control, ControlOf
        <4>3. TalkOf(t)'
          BY <2>12, <3>1, <4>1, <4>2 DEF TalkOf
        <4>. QED
          BY <2>1, <2>15, <3>1, <4>1, <4>3 DEF AskingReply, Crash
      <3>. QED
        BY <2>1, <2>3, <2>4, <2>15, <3>1 DEF AskingReply, Throw
    <2>16. CASE SlotReply(t)
      BY <2>1, <2>3, <2>14, <2>16 DEF SlotReply, Throw
    <2>17. CASE AskReply(t)
      BY <2>1, <2>3, <2>4, <2>14, <2>17 DEF AskReply, Throw
    <2>18. CASE MovedReply(t)
      BY <2>1, <2>14, <2>18 DEF MovedReply
    <2>19. CASE Release(t)
      <3>1. CASE Live(key[t])
        <4>1. PICK p \in Pool : p = At(key[t]) /\ p[1] = key[t]
          BY <2>19, <3>1, TypeFacts, PoolAt DEF Release, Holding
        <4>2. /\ con[t] \in Conn /\ TalkOf(t) /\ pc[t] = "release"
              /\ queue[p] \in Seq(Conn) /\ queue \in [Pool -> Seq(Conn)]
          BY <2>10, <2>19 DEF Release, Holding, TypeInv, TypeOK, PoolTypeOK
        <4>3. /\ queue' = [queue EXCEPT ![p] = Append(@, con[t])]
              /\ con' = [con EXCEPT ![t] = None]
              /\ pc'[t] = "notify" /\ \A u \in Thread \ {t} : pc'[u] = pc[u]
              /\ UNCHANGED <<leg, err, wire, asking>>
          BY <2>2, <2>19, <3>1, <4>1 DEF Release, Deref, Push
        <4>4. \A r \in Pool : \A j \in 1..Len(queue'[r]) :
                 \/ j \in 1..Len(queue[r]) /\ queue'[r][j] = queue[r][j]
                 \/ r = p /\ queue'[r][j] = con[t]
          BY <4>2, <4>3, BackOfQueue
        <4>5. p[1] \in SlotRange => leg[t] = "slot"
          BY <4>1, <4>2, PoolAssumption DEF TypeInv, TypeOK, Control, ControlOf, Leg
        <4>6. Clean(con[t]) /\ (p[1] \in SlotRange => ~err[con[t]])
          BY <4>2, <4>5 DEF TalkOf
        <4>7. \A r \in Pool : IdleOf(r)'
          <5>. SUFFICES ASSUME NEW r \in Pool, NEW j \in 1..Len(queue'[r])
                        PROVE  (Clean(queue[r][j]) /\ (r[1] \in SlotRange => ~err[queue[r][j]]))'
            BY DEF IdleOf
          <5>1. CASE j \in 1..Len(queue[r]) /\ queue'[r][j] = queue[r][j]
            BY <4>3, <5>1 DEF Dialogue, IdleOf, Clean
          <5>2. CASE r = p /\ queue'[r][j] = con[t]
            BY <4>3, <4>6, <5>2 DEF Clean
          <5>. QED
            BY <4>4, <5>1, <5>2
        <4>8. \A u \in Thread : TalkOf(u)'
          <5>. SUFFICES ASSUME NEW u \in Thread PROVE TalkOf(u)'
            OBVIOUS
          <5>1. CASE u = t
            BY <4>3, <5>1 DEF TalkOf
          <5>2. CASE u # t
            <6>1. TalkOf(u) /\ pc'[u] = pc[u] /\ con'[u] = con[u]
              BY <4>3, <5>2 DEF Dialogue, TypeInv, TypeOK
            <6>. QED
              BY <4>3, <6>1 DEF TalkOf, Clean
          <5>. QED
            BY <5>1, <5>2
        <4>. QED
          BY <4>7, <4>8 DEF Dialogue
      <3>. QED
        BY <2>4, <2>19, <3>1 DEF Release, Deref
    <2>20. CASE Notify(t)
      <3>1. CASE Redirect(t)
        <4>1. /\ pc'[t] = "insert" /\ con' = con
              /\ \A u \in Thread \ {t} : pc'[u] = pc[u] /\ leg'[u] = leg[u]
          BY <2>2, <3>1 DEF Redirect, TypeInv, TypeOK
        <4>2. TalkOf(t)'
          BY <4>1 DEF TalkOf
        <4>. QED
          BY <2>1, <2>20, <4>1, <4>2 DEF Notify
      <3>2. CASE Finish(t, reply[t])
        BY <2>1, <2>3, <2>20, <3>2 DEF Notify
      <3>. QED
        BY <2>20, <3>1, <3>2 DEF Notify
    <2>21. CASE UseDeletedPool(t)
      BY <2>4, <2>21 DEF UseDeletedPool
    <2>. QED
      BY <1>2, <2>5, <2>6, <2>7, <2>8, <2>9, <2>11, <2>15, <2>16, <2>17, <2>18, <2>19, <2>20,
         <2>21
      DEF ThreadStep
  <1>3. CASE MainStep
    <2>1. CASE Stop \/ Disconnect \/ EnterMap \/ LeaveMap
      BY <1>1, <2>1 DEF Stop, Disconnect, EnterMap, LeaveMap
    <2>2. CASE DrainEnd
      <3>1. drain \in Pool
        BY <2>2 DEF DrainEnd, TypeInv, TypeOK
      <3>2. \A r \in Pool : \A j \in 1..Len(queue'[r]) :
               j \in 1..Len(queue[r]) /\ queue'[r][j] = queue[r][j]
        BY <2>2, <3>1 DEF DrainEnd, DeletePool, TypeInv, TypeOK, PoolTypeOK
      <3>3. \A r \in Pool : IdleOf(r)'
        BY <2>2, <3>2 DEF DrainEnd, Dialogue, IdleOf, Clean
      <3>4. ASSUME NEW u \in Thread PROVE TalkOf(u)'
        <4>1. /\ pc'[u] \in {pc[u], "dangling"}
              /\ UNCHANGED <<leg, con, err, wire, asking>>
          BY <2>2 DEF DrainEnd
        <4>2. TalkOf(u)
          BY DEF Dialogue
        <4>. QED
          BY <4>1, <4>2 DEF TalkOf, Clean
      <3>. QED
        BY <3>3, <3>4 DEF Dialogue
    <2>3. CASE DrainOne
      <3>1. CASE Wait(Main, drain) /\ UNCHANGED <<netVars, left>>
        BY <1>1, <2>3, <3>1 DEF DrainOne, Wait
      <3>2. CASE ~(Wait(Main, drain) /\ UNCHANGED <<netVars, left>>)
        <4>. DEFINE c == Head(queue[drain])
        <4>1. /\ drain \in Pool /\ Pull(drain)
              /\ err' = [err EXCEPT ![c] = FALSE]
              /\ wire' = [wire EXCEPT ![c] = <<>>]
              /\ asking' = [asking EXCEPT ![c] = None]
              /\ UNCHANGED <<pc, leg, key, con, phase>>
          BY <2>3, <3>2 DEF DrainOne, TypeInv, TypeOK
        <4>2. /\ c = queue[drain][1] /\ 1 \in 1..Len(queue[drain])
              /\ \A r \in Pool : \A j \in 1..Len(queue'[r]) :
                    \E k \in 1..Len(queue[r]) : queue'[r][j] = queue[r][k]
          <5>1. TypeInv' /\ Main \notin Thread
            BY TypeStep, PoolAssumption
          <5>2. PICK p \in Pool : p = drain
            BY <4>1
          <5>3. Pull(p) /\ UNCHANGED <<con, key, phase>>
            BY <4>1, <5>2
          <5>4. /\ Head(queue[p]) = queue[p][1] /\ 1 \in 1..Len(queue[p])
                /\ \A r \in Pool : \A j \in 1..Len(queue'[r]) :
                      \E k \in 1..Len(queue[r]) : queue'[r][j] = queue[r][k]
            BY <5>1, <5>3, PullKeepsExclusion DEF Custody
          <5>. QED
            BY <5>2, <5>4
        <4>3. c \in Conn /\ \A u \in Thread : con[u] # c
          <5>1. drain \in Pool /\ c = queue[drain][1] /\ 1 \in 1..Len(queue[drain])
            BY <4>1, <4>2 DEF TypeInv, TypeOK
          <5>2. c \in Conn
            BY <5>1, IdleIsUsed
          <5>3. \A u \in Thread : con[u] # c
            BY <5>1 DEF Custody, ConnectionExclusive
          <5>. QED
            BY <5>2, <5>3
        <4>4. \A d \in Conn :
                 /\ d # c => err'[d] = err[d] /\ wire'[d] = wire[d] /\ asking'[d] = asking[d]
                 /\ d = c => ~err'[d] /\ wire'[d] = <<>> /\ asking'[d] = None
          BY <4>1, <4>3 DEF TypeInv, TypeOK
        <4>5. \A u \in Thread : TalkOf(u)'
          <5>. SUFFICES ASSUME NEW u \in Thread PROVE TalkOf(u)'
            OBVIOUS
          <5>1. TalkOf(u) /\ pc'[u] = pc[u] /\ leg'[u] = leg[u] /\ con'[u] = con[u]
            BY <4>1 DEF Dialogue
          <5>2. CASE pc[u] \notin Holding
            BY <5>1, <5>2 DEF TalkOf, Holding
          <5>3. CASE pc[u] \in Holding
            <6>1. con[u] \in Conn /\ con[u] # c
              BY <4>3, <5>3, TypeFacts
            <6>. QED
              BY <4>4, <5>1, <6>1 DEF TalkOf, Clean
          <5>. QED
            BY <5>2, <5>3
        <4>6. \A r \in Pool : IdleOf(r)'
          <5>. SUFFICES ASSUME NEW r \in Pool, NEW j \in 1..Len(queue'[r])
                        PROVE  (Clean(queue[r][j]) /\ (r[1] \in SlotRange => ~err[queue[r][j]]))'
            BY DEF IdleOf
          <5>1. PICK k \in 1..Len(queue[r]) : queue'[r][j] = queue[r][k]
            BY <4>2
          <5>2. /\ queue[r][k] \in Conn /\ Clean(queue[r][k])
                /\ r[1] \in SlotRange => ~err[queue[r][k]]
            BY DEF Dialogue, IdleOf, TypeInv, TypeOK, PoolTypeOK
          <5>. QED
            BY <4>4, <5>1, <5>2 DEF Clean
        <4>. QED
          BY <4>5, <4>6 DEF Dialogue
      <3>. QED
        BY <3>1, <3>2
    <2>. QED
      BY <1>3, <2>1, <2>2, <2>3 DEF MainStep
  <1>4. CASE Spurious
    BY <1>1, <1>4 DEF Spurious, WakeSpuriously
  <1>5. CASE UNCHANGED vars
    BY <1>1, <1>5 DEF vars
  <1>. QED
    BY <1>2, <1>3, <1>4, <1>5 DEF Next, Done
-----------------------------------------------------------------------------
(* Who sleeps where, and who is on the way to take what a queue holds.  A  *)
(* thread in pull has been woken, or has not slept yet; one in notify is   *)
(* going to wake another.                                                  *)
Sleepers ==
  /\ \A p \in Pool, t \in Thread : t \in sleeping[p] => pc[t] = "pull" /\ pool[t] = p
  /\ \A p \in Pool : Main \in sleeping[p] => drain = p

Waker(t, p) ==
  /\ pool[t] = p
  /\ pc[t] = "notify" \/ (pc[t] = "pull" /\ t \notin sleeping[p])

Wakers(p) == {t \in Thread : Waker(t, p)}

Drainer(p) == IF drain = p /\ Main \notin sleeping[p] THEN PoolSize ELSE 0

WokenOf(p) == sleeping[p] # {} => Len(queue[p]) <= Cardinality(Wakers(p)) + Drainer(p)

Waking == Sleepers /\ \A p \in Pool : WokenOf(p)

LEMMA WakersFinite ==
  ASSUME NEW p \in Pool
  PROVE  IsFiniteSet(Wakers(p)) /\ Cardinality(Wakers(p)) \in Nat
  <1>1. Wakers(p) \in SUBSET Thread /\ IsFiniteSet(Thread)
    BY PoolAssumption DEF Wakers
  <1>. QED
    BY <1>1, FS_Subset, FS_CardinalityType

LEMMA UpTo ==
  ASSUME NEW n \in Nat
  PROVE  IsFiniteSet(1..n) /\ Cardinality(1..n) = n
  <1>1. 1 \in Int /\ n \in Int /\ n - 1 + 1 = n /\ (1 > n => n = 0)
    OBVIOUS
  <1>. QED
    BY <1>1, FS_Interval

LEMMA OneLess ==
  ASSUME NEW S, IsFiniteSet(S), NEW x
  PROVE  Cardinality(S) - 1 <= Cardinality(S \ {x})
  <1>1. Cardinality(S) \in Nat
    BY FS_CardinalityType
  <1>2. CASE x \in S
    <2>1. Cardinality(S \ {x}) = Cardinality(S) - 1
      BY <1>2, FS_RemoveElement
    <2>. QED
      BY <1>1, <2>1
  <1>3. CASE x \notin S
    <2>1. S \ {x} = S
      BY <1>3
    <2>2. Cardinality(S) - 1 <= Cardinality(S)
      BY <1>1
    <2>. QED
      BY <2>1, <2>2, Zenon
  <1>. QED
    BY <1>2, <1>3

(* The connections of a queue are different ones of its pool until a pool  *)
(* can be replaced, so that they are no more than disconnect() pulls.      *)
LEMMA QueueBounded ==
  ASSUME TypeInv, Custody, NEW p \in Pool, phase # "closed"
  PROVE  Len(queue[p]) \in Nat /\ Len(queue[p]) <= PoolSize
  <1>. DEFINE n == Len(queue[p])
              f == [j \in 1..n |-> queue[p][j][2]]
  <1>1. queue[p] \in Seq(Conn) /\ n \in Nat /\ PoolSize \in Nat
    BY PoolAssumption DEF TypeInv, TypeOK, PoolTypeOK
  <1>2. \A j \in 1..n : queue[p][j][2] \in 1..PoolSize /\ queue[p][j] = <<p, queue[p][j][2]>>
    BY <1>1 DEF Custody, OwnQueues, Conn
  <1>3. f \in Injection(1..n, 1..PoolSize)
    <2>1. f \in [1..n -> 1..PoolSize]
      BY <1>2
    <2>2. ASSUME NEW i \in 1..n, NEW j \in 1..n, f[i] = f[j] PROVE i = j
      <3>1. queue[p][i] = queue[p][j]
        BY <1>2, <2>2
      <3>. QED
        BY <3>1 DEF Custody, ConnectionExclusive
    <2>. QED
      BY <2>1, <2>2, Fun_IsInj
  <1>4. /\ IsFiniteSet(1..PoolSize) /\ Cardinality(1..PoolSize) = PoolSize
        /\ Cardinality(1..n) = n
    BY <1>1, UpTo, Zenon
  <1>5. Cardinality(1..n) <= Cardinality(1..PoolSize)
    BY <1>3, <1>4, FS_Injection
  <1>. QED
    BY <1>1, <1>4, <1>5

QueuesBounded ==
  phase # "closed" => \A p \in Pool : Len(queue[p]) \in Nat /\ Len(queue[p]) <= PoolSize

LEMMA QueuesNextBounded == TypeInv' /\ Custody' => QueuesBounded'
  <1>1. TypeInv /\ Custody => QueuesBounded
    BY QueueBounded DEF QueuesBounded
  <1>. QED
    BY <1>1, PTL

(* What keeps the bound of a pool: no more connections, no fewer on their  *)
(* way to take them.                                                       *)
LEMMA WokenKept ==
  ASSUME TypeInv, TypeInv', NEW p \in Pool, WokenOf(p),
         sleeping'[p] # {} => sleeping[p] # {},
         Len(queue'[p]) <= Len(queue[p]),
         Wakers(p) \subseteq Wakers(p)',
         drain = p /\ Main \notin sleeping[p] => drain' = p /\ Main \notin sleeping'[p]
  PROVE  WokenOf(p)'
  <1>1. /\ IsFiniteSet(Wakers(p)') /\ Cardinality(Wakers(p)') \in Nat
        /\ Cardinality(Wakers(p)) \in Nat
    <2>1. Wakers(p)' \in SUBSET Thread /\ IsFiniteSet(Thread)
      BY PoolAssumption DEF Wakers
    <2>. QED
      BY <2>1, WakersFinite, FS_Subset, FS_CardinalityType
  <1>2. Cardinality(Wakers(p)) <= Cardinality(Wakers(p)')
    BY <1>1, FS_Subset
  <1>3. /\ Len(queue[p]) \in Nat /\ Len(queue'[p]) \in Nat /\ PoolSize \in Nat
    BY PoolAssumption DEF TypeInv, TypeOK, PoolTypeOK
  <1>4. Drainer(p) \in Nat /\ Drainer(p)' \in Nat /\ Drainer(p) <= Drainer(p)'
    BY <1>3 DEF Drainer
  <1>. QED
    BY <1>1, <1>2, <1>3, <1>4 DEF WokenOf

(* Nothing changes for the sleepers when threads move elsewhere.           *)
LEMMA WakingQuiet ==
  ASSUME TypeInv, TypeInv', Waking, UNCHANGED <<queue, sleeping, drain>>,
         \A u \in Thread :
            \/ pc'[u] = pc[u] /\ pool'[u] = pool[u]
            \/ pc[u] \notin {"pull", "notify"} /\ pc'[u] \notin {"pull", "notify"}
  PROVE  Waking'
  <1>1. Sleepers'
    BY DEF Waking, Sleepers
  <1>2. \A p \in Pool : WokenOf(p)'
    <2>. SUFFICES ASSUME NEW p \in Pool PROVE WokenOf(p)'
      OBVIOUS
    <2>1. Wakers(p) \subseteq Wakers(p)'
      BY DEF Wakers, Waker
    <2>2. Len(queue[p]) \in Nat
      BY DEF TypeInv, TypeOK, PoolTypeOK
    <2>. QED
      BY <2>1, <2>2, WokenKept DEF Waking
  <1>. QED
    BY <1>1, <1>2 DEF Waking

(* A thread that takes an idle connection leaves one less for the others,  *)
(* and one that goes to sleep leaves none.                                 *)
LEMMA PullConnectionWaking ==
  ASSUME TypeInv, TypeInv', Waking, NEW t \in Thread, NEW p \in Pool,
         PullConnection(t, p), pc[t] \in {"getConnection", "insert", "pull"},
         pc[t] = "pull" => pool[t] = p /\ t \notin sleeping[p]
  PROVE  Waking'
  <1>1. /\ UNCHANGED drain
        /\ queue[p] \in Seq(Conn) /\ queue \in [Pool -> Seq(Conn)]
        /\ sleeping \in [Pool -> SUBSET (Thread \cup {Main})]
    BY DEF PullConnection, mainVars, TypeInv, TypeOK, PoolTypeOK
  <1>2. \A r \in Pool : t \notin sleeping[r] /\ Len(queue[r]) \in Nat
    BY <1>1 DEF Waking, Sleepers
  <1>3. CASE Pull(p) /\ Take(t, Head(queue[p]))
    <2>1. /\ UNCHANGED sleeping
          /\ \A r \in Pool \ {p} : queue'[r] = queue[r]
          /\ Len(queue'[p]) = Len(queue[p]) - 1
      <3>1. queue[p] # <<>> /\ queue' = [queue EXCEPT ![p] = Tail(queue[p])] /\ UNCHANGED sleeping
        BY <1>3 DEF Pull
      <3>2. Len(Tail(queue[p])) = Len(queue[p]) - 1
        BY <1>1, <3>1, FrontOfQueue
      <3>. QED
        BY <1>1, <3>1, <3>2
    <2>2. /\ pc'[t] \notin {"pull", "notify"}
          /\ \A u \in Thread \ {t} : pc'[u] = pc[u] /\ pool'[u] = pool[u]
      BY <1>3 DEF Take, Throw, Finish, Goto, TypeInv, TypeOK
    <2>3. Sleepers'
      <3>1. \A r \in Pool, u \in Thread :
               u \in sleeping'[r] => pc'[u] = "pull" /\ pool'[u] = r
        BY <1>2, <2>1, <2>2 DEF Waking, Sleepers
      <3>. QED
        BY <1>1, <2>1, <3>1 DEF Waking, Sleepers
    <2>4. \A r \in Pool \ {p} : WokenOf(r)'
      <3>. SUFFICES ASSUME NEW r \in Pool \ {p} PROVE WokenOf(r)'
        OBVIOUS
      <3>1. Wakers(r) \subseteq Wakers(r)'
        BY <2>1, <2>2 DEF Wakers, Waker
      <3>. QED
        BY <1>1, <1>2, <2>1, <3>1, WokenKept DEF Waking
    <2>5. WokenOf(p)'
      <3>1. Wakers(p) \ {t} \subseteq Wakers(p)'
        BY <2>1, <2>2 DEF Wakers, Waker
      <3>2. /\ IsFiniteSet(Wakers(p)) /\ Cardinality(Wakers(p)) \in Nat
            /\ IsFiniteSet(Wakers(p)') /\ Cardinality(Wakers(p)') \in Nat
        <4>1. Wakers(p)' \in SUBSET Thread /\ IsFiniteSet(Thread)
          BY PoolAssumption DEF Wakers
        <4>. QED
          BY <1>1, <4>1, WakersFinite, FS_Subset, FS_CardinalityType
      <3>3. Cardinality(Wakers(p)) - 1 <= Cardinality(Wakers(p) \ {t})
        BY <3>2, OneLess, Zenon
      <3>4. Cardinality(Wakers(p) \ {t}) \in Nat
        BY <3>2, FS_RemoveElement, FS_CardinalityType
      <3>5. Cardinality(Wakers(p) \ {t}) <= Cardinality(Wakers(p)')
        BY <3>1, <3>2, FS_Subset
      <3>6. Drainer(p)' = Drainer(p) /\ Drainer(p) \in Nat
        BY <1>1, <2>1, PoolAssumption DEF Drainer
      <3>7. WokenOf(p) /\ sleeping'[p] = sleeping[p]
        BY <1>1, <2>1 DEF Waking
      <3>8. queue'[p] \in Seq(Conn) /\ Len(queue[p]) \in Nat
        BY <1>1, <1>2 DEF TypeInv, TypeOK, PoolTypeOK
      <3>9. ASSUME sleeping[p] # {}
            PROVE  Len(queue'[p]) <= Cardinality(Wakers(p)') + Drainer(p)'
        <4>1. Len(queue[p]) <= Cardinality(Wakers(p)) + Drainer(p)
          BY <3>7, <3>9 DEF WokenOf
        <4>. QED
          BY <2>1, <3>2, <3>3, <3>4, <3>5, <3>6, <3>8, <4>1
      <3>. QED
        BY <3>7, <3>9 DEF WokenOf
    <2>. QED
      BY <2>3, <2>4, <2>5 DEF Waking
  <1>4. CASE Wait(t, p) /\ pool' = [pool EXCEPT ![t] = p] /\ Goto(t, "pull")
    <2>1. /\ pc'[t] = "pull" /\ pool'[t] = p
          /\ \A u \in Thread \ {t} : pc'[u] = pc[u] /\ pool'[u] = pool[u]
          /\ UNCHANGED queue /\ queue[p] = <<>>
          /\ \A r \in Pool : sleeping'[r] = IF r = p THEN sleeping[p] \cup {t} ELSE sleeping[r]
      BY <1>1, <1>4 DEF Wait, Goto, TypeInv, TypeOK
    <2>2. Main # t
      BY PoolAssumption
    <2>3. Sleepers'
      <3>1. \A r \in Pool, u \in Thread :
               u \in sleeping'[r] => pc'[u] = "pull" /\ pool'[u] = r
        BY <2>1 DEF Waking, Sleepers
      <3>3. \A r \in Pool : Main \in sleeping'[r] => drain' = r
        <4>1. \A r \in Pool : Main \in sleeping'[r] => Main \in sleeping[r]
          BY <2>1, <2>2
        <4>2. drain' = drain /\ \A r \in Pool : Main \in sleeping[r] => drain = r
          BY <1>1 DEF Waking, Sleepers
        <4>. QED
          BY <4>1, <4>2, Zenon
      <3>. QED
        BY <3>1, <3>3 DEF Sleepers
    <2>4. \A r \in Pool \ {p} : WokenOf(r)'
      <3>. SUFFICES ASSUME NEW r \in Pool \ {p} PROVE WokenOf(r)'
        OBVIOUS
      <3>1. Wakers(r) \subseteq Wakers(r)'
        BY <2>1 DEF Wakers, Waker
      <3>. QED
        BY <1>1, <1>2, <2>1, <3>1, WokenKept DEF Waking
    <2>5. WokenOf(p)'
      <3>1. Len(queue'[p]) = 0
        BY <2>1
      <3>2. Cardinality(Wakers(p)') \in Nat /\ Drainer(p)' \in Nat
        <4>1. Wakers(p)' \in SUBSET Thread /\ IsFiniteSet(Thread)
          BY PoolAssumption DEF Wakers
        <4>. QED
          BY <4>1, PoolAssumption, FS_Subset, FS_CardinalityType DEF Drainer
      <3>. QED
        BY <3>1, <3>2 DEF WokenOf
    <2>. QED
      BY <2>3, <2>4, <2>5 DEF Waking
  <1>. QED
    BY <1>3, <1>4 DEF PullConnection

(* A thread that gives a connection back is going to wake a sleeper.       *)
LEMMA ReleaseWaking ==
  ASSUME TypeInv, TypeInv', Waking, NEW t \in Thread, pc[t] = "release",
         NEW p \in Pool, Push(p, con[t]), Goto(t, "notify"),
         pool' = [pool EXCEPT ![t] = p], UNCHANGED <<sleeping, drain>>
  PROVE  Waking'
  <1>1. /\ con[t] \in Conn /\ queue[p] \in Seq(Conn)
        /\ \A r \in Pool : Len(queue[r]) \in Nat
    BY TypeFacts DEF Holding, TypeInv, TypeOK, PoolTypeOK
  <1>2. /\ pc'[t] = "notify" /\ pool'[t] = p
        /\ \A u \in Thread \ {t} : pc'[u] = pc[u] /\ pool'[u] = pool[u]
        /\ \A r \in Pool \ {p} : queue'[r] = queue[r]
        /\ queue'[p] = Append(queue[p], con[t])
    BY DEF Goto, Push, TypeInv, TypeOK, PoolTypeOK
  <1>3. Sleepers'
    <2>1. \A r \in Pool, u \in Thread :
             u \in sleeping'[r] => pc'[u] = "pull" /\ pool'[u] = r
      BY <1>2 DEF Waking, Sleepers
    <2>. QED
      BY <2>1 DEF Waking, Sleepers
  <1>4. \A r \in Pool \ {p} : WokenOf(r)'
    <2>. SUFFICES ASSUME NEW r \in Pool \ {p} PROVE WokenOf(r)'
      OBVIOUS
    <2>1. Wakers(r) \subseteq Wakers(r)'
      BY <1>2 DEF Wakers, Waker
    <2>. QED
      BY <1>1, <1>2, <2>1, WokenKept DEF Waking
  <1>5. WokenOf(p)'
    <2>1. Wakers(p)' = Wakers(p) \cup {t} /\ t \notin Wakers(p)
      BY <1>2 DEF Wakers, Waker
    <2>2. Cardinality(Wakers(p)') = Cardinality(Wakers(p)) + 1
      <3>1. IsFiniteSet(Wakers(p))
        BY WakersFinite
      <3>2. Cardinality(Wakers(p) \cup {t}) = Cardinality(Wakers(p)) + 1
        BY <2>1, <3>1, FS_AddElement, Zenon
      <3>. QED
        BY <2>1, <3>2
    <2>3. Len(queue'[p]) = Len(queue[p]) + 1
      BY <1>1, <1>2, BackOfQueue
    <2>4. Drainer(p)' = Drainer(p) /\ Drainer(p) \in Nat /\ Cardinality(Wakers(p)) \in Nat
      BY PoolAssumption, WakersFinite DEF Drainer
    <2>5. WokenOf(p) /\ sleeping'[p] = sleeping[p]
      BY DEF Waking
    <2>6. ASSUME sleeping[p] # {}
          PROVE  Len(queue'[p]) <= Cardinality(Wakers(p)') + Drainer(p)'
      <3>1. Len(queue[p]) <= Cardinality(Wakers(p)) + Drainer(p)
        BY <2>5, <2>6 DEF WokenOf
      <3>. QED
        BY <1>1, <2>2, <2>3, <2>4, <3>1
    <2>. QED
      BY <2>5, <2>6 DEF WokenOf
  <1>. QED
    BY <1>3, <1>4, <1>5 DEF Waking

(* notify_one: the thread woken takes the place of the one that wakes it;  *)
(* disconnect(), once awake, will take all there can be.                   *)
LEMMA NotifyWaking ==
  ASSUME TypeInv, TypeInv', Walk, Custody', Waking, NEW t \in Thread, pc[t] = "notify",
         NEW p \in Pool, pool[t] = p, NotifyOne(p),
         pc'[t] \notin {"pull", "notify"},
         \A u \in Thread \ {t} : pc'[u] = pc[u] /\ pool'[u] = pool[u],
         UNCHANGED <<queue, drain, phase>>
  PROVE  Waking'
  <1>1. /\ sleeping \in [Pool -> SUBSET (Thread \cup {Main})] /\ Main \notin Thread
        /\ \A r \in Pool : Len(queue[r]) \in Nat
    BY PoolAssumption DEF TypeInv, TypeOK, PoolTypeOK
  <1>2. /\ \A r \in Pool \ {p} : sleeping'[r] = sleeping[r]
        /\ sleeping'[p] \subseteq sleeping[p]
    BY <1>1 DEF NotifyOne
  <1>3. \A r \in Pool : sleeping'[r] \subseteq sleeping[r] /\ t \notin sleeping[r]
    BY <1>2 DEF Waking, Sleepers
  <1>4. Sleepers'
    <2>1. \A r \in Pool, u \in Thread :
             u \in sleeping'[r] => pc'[u] = "pull" /\ pool'[u] = r
      BY <1>3 DEF Waking, Sleepers
    <2>2. \A r \in Pool : Main \in sleeping'[r] => drain' = r
      BY <1>3 DEF Waking, Sleepers
    <2>. QED
      BY <2>1, <2>2 DEF Sleepers
  <1>5. \A r \in Pool \ {p} : WokenOf(r)'
    <2>. SUFFICES ASSUME NEW r \in Pool \ {p} PROVE WokenOf(r)'
      OBVIOUS
    <2>1. Wakers(r) \subseteq Wakers(r)'
      BY <1>2 DEF Wakers, Waker
    <2>. QED
      BY <1>1, <1>2, <2>1, WokenKept DEF Waking
  <1>6. WokenOf(p)'
    <2>1. /\ IsFiniteSet(Wakers(p)) /\ Cardinality(Wakers(p)) \in Nat
          /\ IsFiniteSet(Wakers(p)') /\ Cardinality(Wakers(p)') \in Nat
      <3>1. Wakers(p)' \in SUBSET Thread /\ IsFiniteSet(Thread)
        BY PoolAssumption DEF Wakers
      <3>. QED
        BY <3>1, WakersFinite, FS_Subset, FS_CardinalityType
    <2>2. CASE sleeping[p] = {}
      BY <1>2, <2>2 DEF WokenOf
    <2>3. ASSUME NEW u \in sleeping[p], sleeping' = [sleeping EXCEPT ![p] = @ \ {u}],
                 u \in Thread
          PROVE  WokenOf(p)'
      <3>1. sleeping'[p] = sleeping[p] \ {u} /\ pc[u] = "pull" /\ pool[u] = p /\ u # t
        BY <1>1, <1>3, <2>3 DEF Waking, Sleepers
      <3>2. (Wakers(p) \ {t}) \cup {u} \subseteq Wakers(p)'
        BY <2>3, <3>1 DEF Wakers, Waker
      <3>3. u \notin Wakers(p) \ {t}
        BY <3>1 DEF Wakers, Waker
      <3>4. t \in Wakers(p)
        BY DEF Wakers, Waker
      <3>5. /\ IsFiniteSet(Wakers(p) \ {t})
            /\ Cardinality(Wakers(p) \ {t}) = Cardinality(Wakers(p)) - 1
        BY <2>1, <3>4, FS_RemoveElement
      <3>6. Cardinality((Wakers(p) \ {t}) \cup {u}) = Cardinality(Wakers(p))
        <4>1. Cardinality((Wakers(p) \ {t}) \cup {u}) = Cardinality(Wakers(p) \ {t}) + 1
          BY <3>3, <3>5, FS_AddElement, Zenon
        <4>. QED
          BY <2>1, <3>5, <4>1
      <3>7. Cardinality(Wakers(p)) <= Cardinality(Wakers(p)')
        BY <2>1, <3>2, <3>6, FS_Subset
      <3>8. Drainer(p)' = Drainer(p) /\ Drainer(p) \in Nat
        BY <1>1, <2>3, <3>1, PoolAssumption DEF Drainer
      <3>9. Len(queue[p]) <= Cardinality(Wakers(p)) + Drainer(p)
        BY <2>3 DEF Waking, WokenOf
      <3>10. Len(queue'[p]) <= Cardinality(Wakers(p)') + Drainer(p)'
        BY <1>1, <2>1, <3>7, <3>8, <3>9
      <3>. QED
        BY <3>10 DEF WokenOf
    <2>4. CASE sleeping' = [sleeping EXCEPT ![p] = @ \ {Main}] /\ Main \in sleeping[p]
      <3>1. drain' = p /\ Main \notin sleeping'[p]
        BY <1>1, <2>4 DEF Waking, Sleepers
      <3>2. Drainer(p)' = PoolSize
        BY <3>1 DEF Drainer
      <3>3. Len(queue'[p]) \in Nat /\ Len(queue'[p]) <= PoolSize
        <4>1. phase' # "closed"
          BY <1>1, <2>4, PoolAssumption DEF Waking, Sleepers, Walk, Draining
        <4>. QED
          BY <4>1, QueuesNextBounded DEF QueuesBounded
      <3>. QED
        BY <2>1, <3>2, <3>3, PoolAssumption DEF WokenOf
    <2>. QED
      BY <1>1, <2>2, <2>3, <2>4 DEF NotifyOne
  <1>. QED
    BY <1>4, <1>5, <1>6 DEF Waking

(* insert() makes a pool where nobody sleeps.                              *)
LEMMA CreateWaking ==
  ASSUME TypeInv, TypeInv', Walk, Waking, NEW t \in Thread, pc[t] = "insert",
         NEW p \in Pool, ~Mapped(p), p \notin Forgotten,
         \A r \in Pool \ {p} : queue'[r] = queue[r],
         pc'[t] \notin {"pull", "notify"},
         \A u \in Thread \ {t} : pc'[u] = pc[u] /\ pool'[u] = pool[u],
         UNCHANGED <<sleeping, drain>>
  PROVE  Waking'
  <1>1. /\ sleeping[p] = {}
        /\ \A r \in Pool : Len(queue[r]) \in Nat
    <2>1. \A u \in Thread : u \notin sleeping[p]
      BY DEF Waking, Sleepers, Walk, References
    <2>2. Main \notin sleeping[p]
      BY PoolAssumption DEF Waking, Sleepers, Walk
    <2>. QED
      BY <2>1, <2>2 DEF TypeInv, TypeOK, PoolTypeOK
  <1>2. Sleepers'
    <2>1. \A r \in Pool, u \in Thread :
             u \in sleeping'[r] => pc'[u] = "pull" /\ pool'[u] = r
      BY DEF Waking, Sleepers
    <2>. QED
      BY <2>1 DEF Waking, Sleepers
  <1>3. \A r \in Pool \ {p} : WokenOf(r)'
    <2>. SUFFICES ASSUME NEW r \in Pool \ {p} PROVE WokenOf(r)'
      OBVIOUS
    <2>1. Wakers(r) \subseteq Wakers(r)'
      BY DEF Wakers, Waker
    <2>. QED
      BY <1>1, <2>1, WokenKept DEF Waking
  <1>4. WokenOf(p)'
    BY <1>1 DEF WokenOf
  <1>. QED
    BY <1>2, <1>3, <1>4 DEF Waking

LEMMA WakingInit == Init => Waking
  <1>. SUFFICES ASSUME Init PROVE Waking
    OBVIOUS
  <1>1. \A p \in Pool : sleeping[p] = {}
    BY DEF Init, PoolInit
  <1>2. \A t \in Thread : pc[t] = "idle"
    BY DEF Init
  <1>. QED
    BY <1>1, <1>2 DEF Waking, Sleepers, WokenOf

(* Every step of the program keeps Waking.                                 *)
LEMMA WakingStep ==
  TypeInv /\ Walk /\ TypeInv' /\ Custody' /\ Waking /\ [Next]_vars => Waking'
  <1>. SUFFICES ASSUME TypeInv, Walk, TypeInv', Custody', Waking, [Next]_vars
                PROVE  Waking'
    OBVIOUS
  <1>. USE DEF poolVars, netVars, mainVars, threadVars
  <1>1. ASSUME UNCHANGED <<queue, sleeping, drain, pc, pool>> PROVE Waking'
    BY <1>1, WakingQuiet
  <1>2. ASSUME NEW t \in Thread, ThreadStep(t) PROVE Waking'
    <2>1. \A label : Goto(t, label) =>
             pc'[t] = label /\ \A u \in Thread \ {t} : pc'[u] = pc[u]
      BY DEF Goto, TypeInv, TypeOK
    <2>2. \A how : Finish(t, how) =>
             pc'[t] = "idle" /\ \A u \in Thread \ {t} : pc'[u] = pc[u] /\ pool'[u] = pool[u]
      BY DEF Finish, TypeInv, TypeOK
    <2>3. ASSUME pc[t] \notin {"pull", "notify"}, pc'[t] \notin {"pull", "notify"},
                 \A u \in Thread \ {t} : pc'[u] = pc[u] /\ pool'[u] = pool[u],
                 UNCHANGED <<queue, sleeping, drain>>
          PROVE  Waking'
      BY <2>3, WakingQuiet
    <2>4. CASE Crash
      BY <1>1, <2>4 DEF Crash
    <2>5. ASSUME NEW r \in SlotRange, Begin(t, r) PROVE Waking'
      BY <2>1, <2>3, <2>5 DEF Begin
    <2>6. CASE NotInitialized(t)
      BY <2>2, <2>3, <2>6 DEF NotInitialized, Throw
    <2>7. ASSUME pc[t] \in {"getConnection", "insert"},
                 Deref(key[t], PullConnection(t, At(key[t])))
          PROVE  Waking'
      <3>1. key[t] \in Key
        BY <2>7, TypeFacts
      <3>2. CASE Live(key[t])
        BY <2>7, <3>1, <3>2, PoolAt, PullConnectionWaking DEF Deref
      <3>. QED
        BY <2>4, <2>7, <3>2 DEF Deref
    <2>8. CASE GetConnection(t)
      BY <2>2, <2>3, <2>7, <2>8 DEF GetConnection, Throw
    <2>9. CASE Insert(t)
      <3>1. PICK p \in Pool :
               /\ p = NewPool(key[t]) /\ p[1] = key[t]
               /\ entry[p[1]] = "absent" => ~Mapped(p) /\ p \notin Forgotten
        BY <2>9, TypeFacts, PoolMade, NewPoolFresh DEF Insert
      <3>2. CASE CreatePool(p) /\ Take(t, Filled(p, PoolSize)[1]) /\ UNCHANGED <<sleeping, drain>>
        <4>1. /\ pc'[t] \notin {"pull", "notify"}
              /\ \A u \in Thread \ {t} : pc'[u] = pc[u] /\ pool'[u] = pool[u]
          BY <3>2 DEF Take, Throw, Finish, Goto, TypeInv, TypeOK
        <4>2. \A r \in Pool \ {p} : queue'[r] = queue[r]
          BY <3>2 DEF CreatePool, TypeInv, TypeOK, PoolTypeOK
        <4>. QED
          BY <2>9, <3>1, <3>2, <4>1, <4>2, CreateWaking DEF Insert, CreatePool
      <3>3. ASSUME NEW n \in 0..(PoolSize - 1), CreatePoolFails(p, n), Throw(t),
                   UNCHANGED <<sleeping, drain>>
            PROVE  Waking'
        <4>1. \A r \in Pool \ {p} : queue'[r] = queue[r]
          BY <3>3 DEF CreatePoolFails, TypeInv, TypeOK, PoolTypeOK
        <4>. QED
          BY <2>2, <2>9, <3>1, <3>3, <4>1, CreateWaking DEF Insert, CreatePoolFails, Throw
      <3>. QED
        BY <2>7, <2>9, <3>1, <3>2, <3>3 DEF Insert
    <2>10. CASE PullAgain(t)
      <3>1. pc[t] = "pull" /\ pool[t] \in Pool /\ t \notin sleeping[pool[t]]
        BY <2>10, TypeFacts DEF PullAgain
      <3>. QED
        BY <2>10, <3>1, PullConnectionWaking DEF PullAgain
    <2>11. CASE UseDeletedPool(t)
      BY <2>4, <2>11 DEF UseDeletedPool
    <2>12. CASE Send(t) \/ SendAsking(t)
      BY <2>1, <2>3, <2>12 DEF Send, SendAsking
    <2>13. CASE AskingReply(t)
      BY <2>1, <2>2, <2>3, <2>4, <2>13 DEF AskingReply, Throw
    <2>14. \A r : KeepReply(t, r) => pc'[t] = "release" /\ pool' = pool
                                     /\ \A u \in Thread \ {t} : pc'[u] = pc[u]
      BY <2>1 DEF KeepReply
    <2>15. CASE SlotReply(t)
      BY <2>2, <2>3, <2>14, <2>15 DEF SlotReply, Throw
    <2>16. CASE AskReply(t)
      BY <2>2, <2>3, <2>4, <2>14, <2>16 DEF AskReply, Throw
    <2>17. CASE MovedReply(t)
      BY <2>3, <2>14, <2>17 DEF MovedReply
    <2>18. CASE Release(t)
      <3>1. key[t] \in Key
        BY <2>18, TypeFacts DEF Release, Holding
      <3>. QED
        BY <2>4, <2>18, <3>1, PoolAt, ReleaseWaking DEF Release, Deref
    <2>19. CASE Notify(t)
      <3>1. PICK p \in Pool : p = pool[t]
        BY <2>19, TypeFacts DEF Notify
      <3>2. CASE Redirect(t)
        <4>1. /\ pc'[t] = "insert"
              /\ \A u \in Thread \ {t} : pc'[u] = pc[u] /\ pool'[u] = pool[u]
          BY <2>1, <3>2 DEF Redirect, TypeInv, TypeOK
        <4>. QED
          BY <2>19, <3>1, <4>1, NotifyWaking DEF Notify
      <3>3. CASE Finish(t, reply[t])
        BY <2>2, <2>19, <3>1, <3>3, NotifyWaking DEF Notify
      <3>. QED
        BY <2>19, <3>2, <3>3 DEF Notify
    <2>. QED
      BY <1>2, <2>5, <2>6, <2>8, <2>9, <2>10, <2>11, <2>12, <2>13, <2>15, <2>16, <2>17, <2>18,
         <2>19
      DEF ThreadStep
  <1>3. /\ sleeping \in [Pool -> SUBSET (Thread \cup {Main})] /\ Main \notin Thread
        /\ \A r \in Pool : Len(queue[r]) \in Nat
        /\ drain \in Pool \cup {None} /\ None \notin Pool
    BY PoolAssumption DEF TypeInv, TypeOK, PoolTypeOK
  <1>4. CASE MainStep
    <2>1. CASE Stop \/ Disconnect \/ LeaveMap
      BY <1>1, <2>1 DEF Stop, Disconnect, LeaveMap
    <2>2. CASE EnterMap
      <3>1. UNCHANGED <<queue, sleeping, pc, pool>> /\ drain = None
        BY <2>2 DEF EnterMap
      <3>2. \A r \in Pool : WokenOf(r)'
        <4>. SUFFICES ASSUME NEW r \in Pool PROVE WokenOf(r)'
          OBVIOUS
        <4>1. Wakers(r) \subseteq Wakers(r)'
          BY <3>1 DEF Wakers, Waker
        <4>. QED
          BY <1>3, <3>1, <4>1, WokenKept DEF Waking
      <3>3. \A r \in Pool : Main \notin sleeping[r]
        BY <1>3, <3>1 DEF Waking, Sleepers
      <3>4. Sleepers'
        BY <3>1, <3>3 DEF Waking, Sleepers
      <3>. QED
        BY <3>2, <3>4 DEF Waking
    <2>3. CASE DrainOne
      <3>1. /\ drain \in Pool /\ UNCHANGED <<pc, pool, drain>>
        BY <1>3, <2>3 DEF DrainOne
      <3>2. CASE Pull(drain)
        <4>1. /\ UNCHANGED sleeping
              /\ \A r \in Pool : Len(queue'[r]) <= Len(queue[r])
          <5>1. queue[drain] \in Seq(Conn) /\ queue \in [Pool -> Seq(Conn)]
            BY <3>1 DEF TypeInv, TypeOK, PoolTypeOK
          <5>2. Len(Tail(queue[drain])) = Len(queue[drain]) - 1
            BY <3>2, <5>1, FrontOfQueue DEF Pull
          <5>. QED
            BY <1>3, <3>1, <3>2, <5>1, <5>2 DEF Pull
        <4>2. \A r \in Pool : WokenOf(r)'
          <5>. SUFFICES ASSUME NEW r \in Pool PROVE WokenOf(r)'
            OBVIOUS
          <5>1. Wakers(r) \subseteq Wakers(r)'
            BY <3>1, <4>1 DEF Wakers, Waker
          <5>. QED
            BY <3>1, <4>1, <5>1, WokenKept DEF Waking
        <4>3. Sleepers'
          BY <3>1, <4>1 DEF Waking, Sleepers
        <4>. QED
          BY <4>2, <4>3 DEF Waking
      <3>3. CASE Wait(Main, drain)
        <4>1. /\ UNCHANGED queue /\ queue[drain] = <<>>
              /\ \A r \in Pool : sleeping'[r] =
                    IF r = drain THEN sleeping[drain] \cup {Main} ELSE sleeping[r]
          BY <1>3, <3>1, <3>3 DEF Wait
        <4>2. \A r \in Pool : \A u \in Thread : u \in sleeping'[r] <=> u \in sleeping[r]
          BY <1>3, <4>1
        <4>3. \A r \in Pool : Wakers(r)' = Wakers(r)
          BY <3>1, <4>2 DEF Wakers, Waker
        <4>4. \A r \in Pool \ {drain} : WokenOf(r)'
          <5>. SUFFICES ASSUME NEW r \in Pool \ {drain} PROVE WokenOf(r)'
            OBVIOUS
          <5>. QED
            BY <1>3, <3>1, <4>1, <4>3, WokenKept DEF Waking
        <4>5. ASSUME NEW r \in Pool, r = drain PROVE WokenOf(r)'
          <5>1. Len(queue'[r]) = 0 /\ Cardinality(Wakers(r)') \in Nat /\ Drainer(r)' \in Nat
            BY <4>1, <4>3, <4>5, WakersFinite, PoolAssumption DEF Drainer
          <5>. QED
            BY <5>1 DEF WokenOf
        <4>6. Sleepers'
          <5>1. \A r \in Pool, u \in Thread :
                   u \in sleeping'[r] => pc'[u] = "pull" /\ pool'[u] = r
            BY <3>1, <4>2 DEF Waking, Sleepers
          <5>2. \A r \in Pool : Main \in sleeping'[r] => drain' = r
            BY <3>1, <4>1 DEF Waking, Sleepers
          <5>. QED
            BY <5>1, <5>2 DEF Sleepers
        <4>. QED
          BY <4>4, <4>5, <4>6 DEF Waking
      <3>. QED
        BY <2>3, <3>2, <3>3 DEF DrainOne
    <2>4. CASE DrainEnd
      <3>1. PICK p \in Pool :
               /\ drain = p /\ drain' # p /\ UNCHANGED pool
               /\ \A r \in Pool : queue'[r] = IF r = p THEN <<>> ELSE queue[r]
               /\ \A r \in Pool : sleeping'[r] = IF r = p THEN {} ELSE sleeping[r]
               /\ \A u \in Thread : pc'[u] = IF pool[u] = p THEN "dangling" ELSE pc[u]
        <4>1. drain \in Pool /\ drain' # drain
          <5>1. drain \in Pool /\ drain[1] \in MapKeys
            BY <1>3, <2>4 DEF DrainEnd, Walk
          <5>2. MapKeys \subseteq Key /\ Key \subseteq Nat
            BY PoolAssumption DEF MapKeys, Key
          <5>3. drain[1] \in Nat
            BY <5>1, <5>2
          <5>4. drain' # None => drain[1] < drain'[1]
            BY <1>3, <2>4, <5>1, Advances
          <5>. QED
            BY <1>3, <5>1, <5>3, <5>4
        <4>. QED
          BY <2>4, <4>1 DEF DrainEnd, DeletePool, TypeInv, TypeOK, PoolTypeOK
      <3>2. \A r \in Pool \ {p} : WokenOf(r)'
        <4>. SUFFICES ASSUME NEW r \in Pool \ {p} PROVE WokenOf(r)'
          OBVIOUS
        <4>1. Wakers(r) \subseteq Wakers(r)'
          BY <3>1 DEF Wakers, Waker
        <4>. QED
          BY <1>3, <3>1, <4>1, WokenKept DEF Waking
      <3>3. WokenOf(p)'
        BY <3>1 DEF WokenOf
      <3>4. Sleepers'
        <4>1. \A r \in Pool, u \in Thread :
                 u \in sleeping'[r] => pc'[u] = "pull" /\ pool'[u] = r
          BY <3>1 DEF Waking, Sleepers
        <4>2. \A r \in Pool : Main \notin sleeping'[r]
          BY <3>1 DEF Waking, Sleepers
        <4>. QED
          BY <4>1, <4>2 DEF Sleepers
      <3>. QED
        BY <3>2, <3>3, <3>4 DEF Waking
    <2>. QED
      BY <1>4, <2>1, <2>2, <2>3, <2>4 DEF MainStep
  <1>5. CASE Spurious
    <2>1. PICK p \in Pool, s \in Thread \cup {Main} :
             /\ \A r \in Pool : sleeping'[r] = IF r = p THEN sleeping[p] \ {s} ELSE sleeping[r]
             /\ UNCHANGED <<queue, pc, pool, drain>>
      BY <1>3, <1>5 DEF Spurious, WakeSpuriously
    <2>2. \A r \in Pool : WokenOf(r)'
      <3>. SUFFICES ASSUME NEW r \in Pool PROVE WokenOf(r)'
        OBVIOUS
      <3>1. Wakers(r) \subseteq Wakers(r)'
        BY <2>1 DEF Wakers, Waker
      <3>. QED
        BY <1>3, <2>1, <3>1, WokenKept DEF Waking
    <2>3. Sleepers'
      BY <2>1 DEF Waking, Sleepers
    <2>. QED
      BY <2>2, <2>3 DEF Waking
  <1>6. CASE UNCHANGED vars
    BY <1>1, <1>6 DEF vars
  <1>. QED
    BY <1>2, <1>4, <1>5, <1>6 DEF Next, Done
-----------------------------------------------------------------------------
(* The inductive invariant: what every variable may hold, the way of       *)
(* disconnect() through the maps, who has which connection, what was said  *)
(* on it, and who is going to wake whom.                                   *)
IInv == TypeInv /\ Walk /\ Custody /\ Dialogue /\ Waking

(* The invariant is inductive, and holds in every reachable state.         *)
THEOREM Invariance == Spec => []IInv
  <1>1. Init => IInv
    BY TypeInit, WalkInit, CustodyInit, DialogueInit, WakingInit DEF IInv
  <1>2. IInv /\ [Next]_vars => IInv'
    <2>1. IInv /\ [Next]_vars => TypeInv' /\ Walk' /\ Custody' /\ Dialogue'
      BY TypeStep, WalkStep, CustodyStep, DialogueStep DEF IInv
    <2>. QED
      BY <2>1, WakingStep DEF IInv
  <1>. QED
    BY <1>1, <1>2, PTL DEF Spec

(* However many threads issue commands, and whatever fails, no connection  *)
(* of a pool is in two hands.                                              *)
THEOREM ConnectionsExclusive == Spec => []ConnectionExclusive
  <1>1. IInv => ConnectionExclusive
    BY DEF IInv, Custody
  <1>. QED
    BY <1>1, Invariance, PTL

(* A connection is always given back to a pool of the node it leads to,    *)
(* also when the pool it was taken from has been forgotten and replaced.   *)
THEOREM ConnectionsGoHome == Spec => []HomePool
  <1>1. IInv => HomePool
    BY DEF IInv, Custody
  <1>. QED
    BY <1>1, Invariance, PTL

(* However commands and teardown interleave, disconnect() never deletes a  *)
(* pool, nor frees a connection of it, while a thread holds one; and what  *)
(* it takes out of the map in use was inserted behind its iterator.        *)
THEOREM TeardownSafe == Spec => []DeletedPoolUnused
  <1>1. IInv => DeletedPoolUnused
    <2>. SUFFICES ASSUME IInv, NEW t \in Thread, con[t] # None
                  PROVE  Mapped(con[t][1]) \/ con[t][1] \in Forgotten
      BY DEF DeletedPoolUnused
    <2>1. con[t][1] \in Pool /\ Used(con[t][1]) # {}
      BY HeldIsUsed DEF IInv
    <2>. QED
      BY <2>1 DEF IInv, Custody, Lifetimes
  <1>. QED
    BY <1>1, Invariance, PTL

(* A thread reads the reply to its own request, although connections are   *)
(* shared and process() may leave by an exception between a request and    *)
(* its reply.                                                              *)
THEOREM RepliesMatch == Spec => []OwnReply
  <1>1. IInv => OwnReply
    BY DEF IInv, Dialogue, TalkOf, OwnReply
  <1>. QED
    BY <1>1, Invariance, PTL

(* A command is served under ASKING exactly when its own thread asked.     *)
THEOREM AskingMatches == Spec => []AskingPaired
  <1>1. IInv => AskingPaired
    BY DEF IInv, Dialogue, TalkOf, AskingPaired
  <1>. QED
    BY <1>1, Invariance, PTL

(* process() has given its slot connection back before it asks for a       *)
(* redirection connection.                                                 *)
THEOREM HoldsNothingWaiting == Spec => []NoHoldAndWait
  <1>1. IInv => NoHoldAndWait
    BY DEF IInv, TypeInv, Control, ControlOf, Holding, NoHoldAndWait
  <1>. QED
    BY <1>1, Invariance, PTL

(* No broken connection is ever given back to a slot range.                *)
THEOREM SlotPoolsHealthy == Spec => []SlotQueuesHealthy
  <1>1. IInv => SlotQueuesHealthy
    BY DEF IInv, Dialogue, IdleOf, SlotQueuesHealthy, Pool
  <1>. QED
    BY <1>1, Invariance, PTL

(* However connections are given back and taken while threads sleep, the   *)
(* idle connections of a pool with sleepers are no more than the threads   *)
(* on their way to take one or to wake another, unless disconnect() is.    *)
THEOREM WakeupsSuffice == Spec => []NoLostWakeup
  <1>1. IInv => NoLostWakeup
    <2>. SUFFICES ASSUME IInv, NEW p \in Pool, sleeping[p] # {}
                  PROVE  Len(queue[p]) <=
                           Cardinality({t \in Thread : pc[t] = "notify" /\ pool[t] = p})
                           + Cardinality({t \in Thread : pc[t] = "pull" /\ pool[t] = p
                                                         /\ t \notin sleeping[p]})
                           + (IF drain = p /\ Main \notin sleeping[p] THEN PoolSize ELSE 0)
      BY DEF NoLostWakeup
    <2>. DEFINE N == {t \in Thread : pc[t] = "notify" /\ pool[t] = p}
                A == {t \in Thread : pc[t] = "pull" /\ pool[t] = p /\ t \notin sleeping[p]}
    <2>1. Wakers(p) = N \cup A /\ N \cap A = {}
      BY DEF Wakers, Waker
    <2>2. IsFiniteSet(N) /\ IsFiniteSet(A)
      BY <2>1, WakersFinite, FS_Subset
    <2>3. /\ Cardinality(Wakers(p)) = Cardinality(N) + Cardinality(A)
          /\ Cardinality(N) \in Nat /\ Cardinality(A) \in Nat
      <3>1. Cardinality(N \cup A) = Cardinality(N) + Cardinality(A) - Cardinality(N \cap A)
        BY <2>2, FS_Union
      <3>2. Cardinality(N \cap A) = 0
        BY <2>1, FS_EmptySet
      <3>3. Cardinality(N) \in Nat /\ Cardinality(A) \in Nat
        BY <2>2, FS_CardinalityType
      <3>. QED
        BY <2>1, <3>1, <3>2, <3>3
    <2>. QED
      BY <2>3 DEF IInv, Waking, WokenOf, Drainer
  <1>. QED
    BY <1>1, Invariance, PTL
=============================================================================
