------------------------- MODULE AsyncCommandProofs -------------------------
(***************************************************************************)
(* Theorems about AsyncCommand for every number of commands, slot ranges   *)
(* and hosts, every bound on the redirections of a command, every set of   *)
(* faults, and a loop that is left early or not; the last one is that the  *)
(* client refines CommandService.                                          *)
(***************************************************************************)
EXTENDS AsyncRefinement, SequenceTheorems, FiniteSetTheorems, TLAPS

-----------------------------------------------------------------------------
(* The inductive invariant.  Its core is about what the library keeps: the *)
(* callbacks registered, the contexts, and who points to which.            *)

ClientTypes ==
  /\ status \in [Ctx -> {"unused", "live", "closing", "freed", "lost"}]
  /\ host \in [Ctx -> Host \cup {None}]
  /\ replies \in [Ctx -> Seq(Callback)]
  /\ nodes \subseteq SlotRange
  /\ connections \in [Host -> Cmd \cup {None}]
  /\ obj \in [Cmd -> {"unused", "live", "deleted", "leaked"}]
  /\ con \in [Cmd -> Cmd \cup {None}]
  /\ heard \in [Cmd -> Seq({"data", "error", "OK"})]

(* Each live command is registered once, and on an open context.           *)
Registered ==
  /\ \A x \in Ctx : replies[x] # <<>> => Open(x)
  /\ \A x, y \in Ctx : \A i \in 1..Len(replies[x]), j \in 1..Len(replies[y]) :
        replies[x][i].cmd = replies[y][j].cmd => x = y /\ i = j
  /\ \A x \in Ctx : \A i \in 1..Len(replies[x]) : obj[replies[x][i].cmd] = "live"
  /\ \A c \in Cmd : obj[c] = "live" =>
        \E x \in Ctx : \E i \in 1..Len(replies[x]) : replies[x][i].cmd = c

(* A command registered on a redirection context has it in con_.  One that *)
(* is back on its slot context with a con_ was refused by that context.    *)
Placed ==
  /\ \A x \in Cmd : \A i \in 1..Len(replies[x]) : con[replies[x][i].cmd] = x
  /\ \A r \in SlotRange : \A i \in 1..Len(replies[r]) :
        /\ replies[r][i].what = "command"
        /\ con[replies[r][i].cmd] # None =>
              status[con[replies[r][i].cmd]] \notin {"live", "unused"}

(* A pointer leads to a context that was created, for the host it is       *)
(* filed under.                                                            *)
Linked ==
  /\ \A x \in Cmd : status[x] # "unused" => con[x] = x /\ host[x] \in Host
  /\ \A c \in Cmd : con[c] # None => status[con[c]] # "unused"
  /\ \A h \in Host : connections[h] # None =>
        status[connections[h]] # "unused" /\ host[connections[h]] = h
  /\ \A c \in Cmd : obj[c] = "unused" => con[c] = None

(* A redirection context is closed by the end of a command that uses it or *)
(* by disconnect(), which forgets it.                                      *)
Ended ==
  \A x \in Cmd : status[x] \in {"closing", "freed"} =>
    (\E d \in Cmd : con[d] = x /\ obj[d] = "deleted") \/ connections[host[x]] # x

Unheard == \A c \in Cmd : obj[c] \in {"unused", "live"} => heard[c] = <<>>

Core == ClientTypes /\ Registered /\ Placed /\ Linked /\ ContextLife /\ Ended /\ Unheard

-----------------------------------------------------------------------------
(* What a callback does to the registrations.                              *)

(* Calling the oldest callback of x takes it from the list of x.           *)
LEMMA RestFacts ==
  ASSUME ClientTypes, NEW x \in Ctx, replies[x] # <<>>
  PROVE  /\ Rest(x) \in [Ctx -> Seq(Callback)]
         /\ Head(replies[x]) = replies[x][1] /\ 1 \in 1..Len(replies[x])
         /\ Head(replies[x]) \in Callback
         /\ \A z \in Ctx : z # x => Rest(x)[z] = replies[z]
         /\ \A i \in 1..Len(Rest(x)[x]) :
               /\ i + 1 \in 1..Len(replies[x]) /\ i + 1 # 1
               /\ Rest(x)[x][i] = replies[x][i + 1]
         /\ \A i \in 1..Len(replies[x]) : i # 1 =>
               i - 1 \in 1..Len(Rest(x)[x]) /\ Rest(x)[x][i - 1] = replies[x][i]
  <1>. DEFINE q == replies[x]
  <1>1. q \in Seq(Callback) /\ replies \in [Ctx -> Seq(Callback)]
    BY DEF ClientTypes
  <1>2. /\ Tail(q) \in Seq(Callback) /\ Len(Tail(q)) = Len(q) - 1
        /\ Len(q) \in Nat \ {0}
        /\ Head(q) = q[1] /\ Head(q) \in Callback
        /\ \A i \in 1..Len(Tail(q)) : Tail(q)[i] = q[i + 1]
    BY <1>1
  <1>3. Rest(x)[x] = Tail(q) /\ \A z \in Ctx : z # x => Rest(x)[z] = replies[z]
    BY <1>1 DEF Rest
  <1>4. Rest(x) \in [Ctx -> Seq(Callback)]
    BY <1>1, <1>2 DEF Rest
  <1>5. \A i \in 1..Len(Tail(q)) :
           i + 1 \in 1..Len(q) /\ i + 1 # 1 /\ Tail(q)[i] = q[i + 1]
    BY <1>2
  <1>6. \A i \in 1..Len(q) : i # 1 => i - 1 \in 1..Len(Tail(q)) /\ Tail(q)[i - 1] = q[i]
    <2>. SUFFICES ASSUME NEW i \in 1..Len(q), i # 1
                  PROVE  i - 1 \in 1..Len(Tail(q)) /\ Tail(q)[i - 1] = q[i]
      OBVIOUS
    <2>1. i - 1 \in 1..Len(Tail(q)) /\ (i - 1) + 1 = i
      BY <1>2
    <2>. QED
      BY <1>2, <2>1
  <1>. HIDE DEF q
  <1>7. 1 \in 1..Len(q)
    BY <1>2
  <1>. QED
    BY <1>2, <1>3, <1>4, <1>5, <1>6, <1>7 DEF q

(* Registering a callback adds it behind those of its context.             *)
LEMMA AddedFacts ==
  ASSUME NEW R \in [Ctx -> Seq(Callback)], NEW to \in Ctx, NEW cb \in Callback,
         NEW q, q = [R EXCEPT ![to] = Append(@, cb)]
  PROVE  /\ q \in [Ctx -> Seq(Callback)]
         /\ \A z \in Ctx : \A i \in 1..Len(q[z]) :
               \/ i \in 1..Len(R[z]) /\ q[z][i] = R[z][i]
               \/ z = to /\ i = Len(R[to]) + 1 /\ q[z][i] = cb
         /\ \A z \in Ctx : \A i \in 1..Len(R[z]) :
               i \in 1..Len(q[z]) /\ q[z][i] = R[z][i]
         /\ Len(R[to]) + 1 \in 1..Len(q[to]) /\ q[to][Len(R[to]) + 1] = cb
         /\ q[to] # <<>>
         /\ \A z \in Ctx : z # to => q[z] = R[z]
  <1>1. q[to] = Append(R[to], cb) /\ \A z \in Ctx : z # to => q[z] = R[z]
    OBVIOUS
  <1>2. /\ Append(R[to], cb) \in Seq(Callback)
        /\ Len(Append(R[to], cb)) = Len(R[to]) + 1 /\ Len(R[to]) \in Nat
        /\ \A i \in 1..Len(R[to]) : Append(R[to], cb)[i] = R[to][i]
        /\ Append(R[to], cb)[Len(R[to]) + 1] = cb
    <2>1. R[to] \in Seq(Callback)
      OBVIOUS
    <2>. QED
      BY <2>1
  <1>3. q \in [Ctx -> Seq(Callback)]
    BY <1>2
  <1>4. \A i \in 1..Len(q[to]) :
           \/ i \in 1..Len(R[to]) /\ q[to][i] = R[to][i]
           \/ i = Len(R[to]) + 1 /\ q[to][i] = cb
    BY <1>1, <1>2
  <1>5. \A i \in 1..Len(R[to]) : i \in 1..Len(q[to]) /\ q[to][i] = R[to][i]
    BY <1>1, <1>2
  <1>6. Len(R[to]) + 1 \in 1..Len(q[to]) /\ q[to][Len(R[to]) + 1] = cb /\ q[to] # <<>>
    BY <1>1, <1>2
  <1>. QED
    BY <1>1, <1>3, <1>4, <1>5, <1>6

(* The command whose callback is called is registered nowhere else.        *)
LEMMA RestTokens ==
  ASSUME ClientTypes, Registered, NEW x \in Ctx, replies[x] # <<>>,
         NEW c, c = Head(replies[x]).cmd
  PROVE  /\ c \in Cmd /\ obj[c] = "live" /\ Open(x)
         /\ \A z \in Ctx : \A i \in 1..Len(Rest(x)[z]) :
               /\ Rest(x)[z][i].cmd \in Cmd \ {c}
               /\ \E k \in 1..Len(replies[z]) : replies[z][k] = Rest(x)[z][i]
         /\ \A y, z \in Ctx : \A i \in 1..Len(Rest(x)[y]), j \in 1..Len(Rest(x)[z]) :
               Rest(x)[y][i].cmd = Rest(x)[z][j].cmd => y = z /\ i = j
         /\ \A d \in Cmd \ {c} : obj[d] = "live" =>
               \E z \in Ctx : \E i \in 1..Len(Rest(x)[z]) : Rest(x)[z][i].cmd = d
         /\ \A z \in Ctx : Rest(x)[z] # <<>> => Open(z)
  <1>. DEFINE R == Rest(x)
              back(z, i) == IF z = x THEN i + 1 ELSE i
  <1>1. /\ R \in [Ctx -> Seq(Callback)]
        /\ Head(replies[x]) = replies[x][1] /\ 1 \in 1..Len(replies[x])
        /\ Head(replies[x]) \in Callback
        /\ \A z \in Ctx : z # x => R[z] = replies[z]
        /\ \A i \in 1..Len(R[x]) :
               /\ i + 1 \in 1..Len(replies[x]) /\ i + 1 # 1
               /\ R[x][i] = replies[x][i + 1]
        /\ \A i \in 1..Len(replies[x]) : i # 1 =>
               i - 1 \in 1..Len(R[x]) /\ R[x][i - 1] = replies[x][i]
    BY RestFacts
  <1>. HIDE DEF R
  <1>2. c \in Cmd /\ obj[c] = "live" /\ Open(x)
    BY <1>1 DEF Callback, Registered
  <1>3. \A z \in Ctx : \A i \in 1..Len(R[z]) :
           /\ back(z, i) \in 1..Len(replies[z])
           /\ z = x => back(z, i) # 1
           /\ R[z][i] = replies[z][back(z, i)]
           /\ i \in Int
    BY <1>1
  <1>4. \A z \in Ctx : \A i \in 1..Len(R[z]) :
           /\ R[z][i].cmd \in Cmd \ {c}
           /\ \E k \in 1..Len(replies[z]) : replies[z][k] = R[z][i]
    <2>. SUFFICES ASSUME NEW z \in Ctx, NEW i \in 1..Len(R[z])
                  PROVE  /\ R[z][i].cmd \in Cmd /\ R[z][i].cmd # c
                         /\ \E k \in 1..Len(replies[z]) : replies[z][k] = R[z][i]
      OBVIOUS
    <2>1. /\ back(z, i) \in 1..Len(replies[z]) /\ (z = x => back(z, i) # 1)
          /\ R[z][i] = replies[z][back(z, i)]
      BY <1>3
    <2>. HIDE DEF back
    <2>2. R[z][i].cmd \in Cmd
      <3>1. R[z] \in Seq(Callback)
        BY <1>1
      <3>2. R[z][i] \in Callback
        BY <3>1
      <3>. QED
        BY <3>2 DEF Callback
    <2>3. R[z][i].cmd # c
      BY <1>1, <2>1 DEF Registered
    <2>. QED
      BY <2>1, <2>2, <2>3
  <1>5. \A y, z \in Ctx : \A i \in 1..Len(R[y]), j \in 1..Len(R[z]) :
           R[y][i].cmd = R[z][j].cmd => y = z /\ i = j
    <2>. SUFFICES ASSUME NEW y \in Ctx, NEW z \in Ctx,
                         NEW i \in 1..Len(R[y]), NEW j \in 1..Len(R[z]),
                         R[y][i].cmd = R[z][j].cmd
                  PROVE  y = z /\ i = j
      OBVIOUS
    <2>1. y = z /\ back(y, i) = back(z, j)
      <3>1. /\ back(y, i) \in 1..Len(replies[y]) /\ back(z, j) \in 1..Len(replies[z])
            /\ R[y][i] = replies[y][back(y, i)] /\ R[z][j] = replies[z][back(z, j)]
        BY <1>3
      <3>. HIDE DEF back
      <3>. QED
        BY <3>1 DEF Registered
    <2>2. i \in Int /\ j \in Int
      BY <1>3
    <2>. QED
      BY <2>1, <2>2
  <1>6. \A d \in Cmd \ {c} : obj[d] = "live" =>
           \E z \in Ctx : \E i \in 1..Len(R[z]) : R[z][i].cmd = d
    <2>. SUFFICES ASSUME NEW d \in Cmd \ {c}, obj[d] = "live"
                  PROVE  \E z \in Ctx : \E i \in 1..Len(R[z]) : R[z][i].cmd = d
      OBVIOUS
    <2>1. PICK z \in Ctx : \E i \in 1..Len(replies[z]) : replies[z][i].cmd = d
      BY DEF Registered
    <2>2. PICK i \in 1..Len(replies[z]) : replies[z][i].cmd = d
      BY <2>1
    <2>3. CASE z # x
      BY <1>1, <2>2, <2>3
    <2>4. CASE z = x
      <3>1. i # 1
        BY <1>1, <2>2, <2>4
      <3>. QED
        BY <1>1, <2>2, <2>4, <3>1
    <2>. QED
      BY <2>3, <2>4
  <1>7. \A z \in Ctx : R[z] # <<>> => Open(z)
    BY <1>1, <1>2 DEF Registered
  <1>. QED
    BY <1>2, <1>4, <1>5, <1>6, <1>7 DEF R

-----------------------------------------------------------------------------
(* What a step of the program can be: every disjunct of Next is one of     *)
(* these, with what the invariant says of the state it starts from.        *)

(* The context y that the command c of a callback of x passes on.          *)
Pointed(x, c, y) ==
  /\ y \in Cmd \cup {None} /\ con[c] \in {None, y}
  /\ y # None => y = x \/ status[y] \in {"closing", "freed", "lost"}
  /\ x \in Cmd => y = x

(* What a callback of x for c does to the nodes and the ghosts.            *)
Turn(x, c) ==
  /\ cluster' = cluster /\ moved' \in BOOLEAN
  /\ asking' \in [Ctx -> BOOLEAN] /\ \A z \in Ctx : z # x => asking'[z] = asking[z]
  /\ hops' \in [Cmd -> 0..MaxHops] /\ hops'[c] >= hops[c]
  /\ told' \in [Cmd -> Host \cup {None}]
  /\ \A d \in Cmd : d # c => hops'[d] = hops[d] /\ told'[d] = told[d]

Sent(x, c) ==
  \E y \in Cmd \cup {None}, to \in Ctx, what \in What :
    /\ Send(x, c, y, to, what)
    /\ UNCHANGED <<host, served>>
    /\ con[c] \in {None, y} /\ status[to] = "live"
    /\ y # None => status[y] # "unused"
    /\ to \in Cmd => to = y
    /\ to \in SlotRange =>
         what = "command" /\ (y # None => status[y] \notin {"live", "unused"})
    /\ y # con[c] => hops'[c] > 0
    /\ what = "asked" => asking'[to]
    /\ what = "moved" /\ hops'[c] < 2 => host[to] = told'[c]

Joined(x, c) ==
  \E h \in Host, what \in What :
    /\ CreateNewConnection(x, c, h, what)
    /\ UNCHANGED served
    /\ con[c] = None /\ connections[h] = None
    /\ told'[c] = h /\ hops'[c] > 0 /\ what # "asked"

(* The contexts in S are closed, and x returns from a callback.            *)
Closing(x, S, q) ==
  [z \in Ctx |-> IF z \in S \/ (z = x /\ status[x] = "closing")
                 THEN IF q[z] = <<>> THEN "freed" ELSE "closing"
                 ELSE status[z]]

Finished(x, c) ==
  \E y \in Cmd \cup {None}, reply \in {"data", "error", "OK"}, bye \in BOOLEAN :
    LET ends == (IF bye THEN InMaps ELSE {}) \cup ({y} \ {None}) IN
    /\ con[c] \in {None, y} /\ \A z \in ends : Open(z)
    /\ y # con[c] => hops'[c] > 0
    /\ status' = Closing(x, ends, Rest(x))
    /\ replies' = Rest(x)
    /\ heard' = [heard EXCEPT ![c] = Append(@, reply)]
    /\ obj' = [obj EXCEPT ![c] = "deleted"]
    /\ con' = [con EXCEPT ![c] = y]
    /\ IF bye THEN ClearMaps ELSE UNCHANGED <<nodes, connections>>
    /\ UNCHANGED <<host, told, crashed>>
    /\ served' = IF reply = "data" THEN [served EXCEPT ![c] = @ + 1] ELSE served
    /\ reply = "OK" => x \in Cmd /\ con[c] = x /\ status[x] = "closing"

Died ==
  /\ crashed' \in {"useAfterFree", "nullReply", "contextFreed"}
  /\ UNCHANGED <<clientVars, host, told>>
  /\ crashed' = "useAfterFree" =>
       (\E x \in Cmd : Dangling(x)) \/ (\E r \in nodes : status[r] = "lost")
  /\ \/ served' = served
     \/ \E c \in Cmd : obj[c] = "live" /\ served' = [served EXCEPT ![c] = @ + 1]

(* Nothing but the pointers of the program and the contexts changes.       *)
Aside == UNCHANGED <<serverVars, host, moved, told>> /\ cluster' \in BOOLEAN

Accepted ==
  \E c \in Cmd, r \in nodes :
    /\ obj[c] = "unused" /\ status[r] = "live"
    /\ obj' = [obj EXCEPT ![c] = "live"]
    /\ replies' = [replies EXCEPT ![r] = Append(@, [cmd |-> c, what |-> "command"])]
    /\ UNCHANGED <<status, nodes, connections, con, heard, crashed>>

Leaked ==
  \E c \in Cmd :
    /\ obj[c] = "unused" /\ obj' = [obj EXCEPT ![c] = "leaked"]
    /\ UNCHANGED <<status, replies, nodes, connections, con, heard, crashed>>

MapsClosed ==
  /\ \A z \in InMaps : Open(z)
  /\ status' = Closing(None, InMaps, replies)
  /\ ClearMaps
  /\ UNCHANGED <<replies, obj, con, heard, crashed>>

Lost ==
  \E x \in Ctx :
    /\ Open(x) /\ replies[x] = <<>>
    /\ status' = [status EXCEPT ![x] = "lost"]
    /\ UNCHANGED <<replies, nodes, connections, obj, con, heard, crashed>>

-----------------------------------------------------------------------------
(* The disjuncts of Next are the steps above.                              *)

LEMMA ClosingFacts ==
  ASSUME NEW x \in Ctx, NEW S, NEW T, NEW q
  PROVE  Settled(Closed(Closed(status, q, S, x), q, T, x), q, x) = Closing(x, S \cup T, q)
  <1>. DEFINE s == Closed(Closed(status, q, S, x), q, T, x)
  <1>1. \A z \in Ctx : s[z] = IF z \in S \cup T
                              THEN IF z # x /\ q[z] = <<>> THEN "freed" ELSE "closing"
                              ELSE status[z]
    BY DEF Closed
  <1>2. s = [z \in Ctx |-> s[z]]
    BY DEF Closed
  <1>. HIDE DEF s
  <1>3. Settled(s, q, x) = [z \in Ctx |-> Settled(s, q, x)[z]]
    BY <1>2 DEF Settled
  <1>4. \A z \in Ctx : Settled(s, q, x)[z] =
           IF z = x /\ s[x] = "closing" /\ q[x] = <<>> THEN "freed" ELSE s[z]
    BY <1>2 DEF Settled
  <1>5. \A z \in Ctx : Settled(s, q, x)[z] = Closing(x, S \cup T, q)[z]
    BY <1>1, <1>4 DEF Closing
  <1>. QED
    BY <1>3, <1>5 DEF s, Closing

(* The pointers of the containers lead to contexts that were created.      *)
LEMMA InMapsFacts ==
  ASSUME AsyncAssumption, Core
  PROVE  /\ InMaps \subseteq Ctx /\ \A z \in InMaps : status[z] # "unused"
         /\ \A z \in InMaps : ~Dangling(z) => Open(z)
         /\ \A z \in InMaps : Dangling(z) =>
              (\E x \in Cmd : Dangling(x)) \/ (\E r \in nodes : status[r] = "lost")
  <1>1. \A z \in InMaps : z \in nodes \/ \E h \in Host : connections[h] = z /\ z # None
    BY DEF InMaps
  <1>2. \A z \in nodes : z \in Ctx /\ status[z] \in {"live", "lost"}
    BY DEF Core, ClientTypes, ContextLife, NodesOpen, Ctx
  <1>3. \A h \in Host : connections[h] # None =>
           connections[h] \in Cmd /\ status[connections[h]] # "unused"
    BY DEF Core, ClientTypes, Linked
  <1>4. \A z \in Ctx : status[z] \in {"unused", "live", "closing", "freed", "lost"}
    BY DEF Core, ClientTypes
  <1>. QED
    BY <1>1, <1>2, <1>3, <1>4 DEF Ctx, Open, Dangling

LEMMA FinishCases ==
  ASSUME AsyncAssumption, Core, crashed = "no",
         NEW x \in Ctx, replies[x] # <<>>, NEW c \in Cmd, obj[c] = "live",
         NEW y, Pointed(x, c, y), NEW reply \in {"data", "error", "OK"},
         y # con[c] => hops'[c] > 0,
         Finish(x, c, y, reply), UNCHANGED <<host, told>>,
         served' = IF reply = "data" THEN [served EXCEPT ![c] = @ + 1] ELSE served,
         reply = "OK" => x \in Cmd /\ con[c] = x /\ status[x] = "closing"
  PROVE  Finished(x, c) \/ Died
  <1>. DEFINE R == Rest(x)
              gone(bye) == IF bye THEN InMaps ELSE {}
              s(bye) == Closed(status, R, gone(bye), x)
              mine == {y} \ {None}
  <1>1. PICK bye \in BOOLEAN :
          \/ /\ (\E z \in gone(bye) : Dangling(z)) \/ (\E z \in mine : s(bye)[z] \in {"freed", "lost"})
             /\ Crash("useAfterFree")
          \/ /\ \A z \in gone(bye) : ~Dangling(z)
             /\ \A z \in mine : s(bye)[z] \notin {"freed", "lost"}
             /\ heard' = [heard EXCEPT ![c] = Append(@, reply)]
             /\ obj' = [obj EXCEPT ![c] = "deleted"]
             /\ con' = [con EXCEPT ![c] = y]
             /\ replies' = Rest(x)
             /\ status' = Settled(Closed(s(bye), R, mine, x), R, x)
             /\ IF bye THEN ClearMaps ELSE UNCHANGED <<nodes, connections>>
             /\ UNCHANGED crashed
    BY DEF Finish
  <1>2. y \in Cmd \cup {None} /\ mine \subseteq Cmd /\ None \notin mine
    BY DEF Pointed
  <1>3. \A z \in Ctx : z # x => R[z] = replies[z]
    BY RestFacts DEF Core
  <1>4. \A z \in mine : z = y /\ (z = x \/ status[z] \in {"closing", "freed", "lost"})
    BY DEF Pointed
  <1>5. Open(x) /\ \A z \in Ctx : status[z] = "closing" => replies[z] # <<>>
    BY DEF Core, Registered, ContextLife, ClosingDrains
  <1>6. \A z \in Ctx : s(bye)[z] = IF z \in gone(bye)
           THEN IF z # x /\ R[z] = <<>> THEN "freed" ELSE "closing" ELSE status[z]
    BY DEF Closed
  <1>7. \A z \in mine : z \in Ctx
    BY <1>2 DEF Ctx
  <1>8. \A z \in gone(bye) : ~Dangling(z) => Open(z)
    BY InMapsFacts
  <1>9. \A z \in mine : s(bye)[z] \in {"freed", "lost"} /\ (\A k \in gone(bye) : ~Dangling(k))
           => Dangling(z)
    BY <1>3, <1>4, <1>5, <1>6, <1>7, <1>8 DEF Open, Dangling
  <1>10. CASE /\ (\E z \in gone(bye) : Dangling(z)) \/ (\E z \in mine : s(bye)[z] \in {"freed", "lost"})
              /\ Crash("useAfterFree")
    <2>1. (\E z \in Cmd : Dangling(z)) \/ (\E r \in nodes : status[r] = "lost")
      BY <1>2, <1>9, <1>10, InMapsFacts
    <2>2. \/ served' = served
          \/ \E d \in Cmd : obj[d] = "live" /\ served' = [served EXCEPT ![d] = @ + 1]
      OBVIOUS
    <2>. QED
      BY <1>10, <2>1, <2>2 DEF Crash, Died
  <1>11. CASE /\ \A z \in gone(bye) : ~Dangling(z)
              /\ \A z \in mine : s(bye)[z] \notin {"freed", "lost"}
              /\ heard' = [heard EXCEPT ![c] = Append(@, reply)]
              /\ obj' = [obj EXCEPT ![c] = "deleted"]
              /\ con' = [con EXCEPT ![c] = y]
              /\ replies' = Rest(x)
              /\ status' = Settled(Closed(s(bye), R, mine, x), R, x)
              /\ IF bye THEN ClearMaps ELSE UNCHANGED <<nodes, connections>>
              /\ UNCHANGED crashed
    <2>1. status' = Closing(x, gone(bye) \cup mine, R)
      BY <1>11, ClosingFacts
    <2>2. \A z \in mine : Open(z)
      BY <1>4, <1>5, <1>6, <1>7, <1>8, <1>11 DEF Open
    <2>3. \A z \in gone(bye) \cup mine : Open(z)
      BY <1>8, <1>11, <2>2
    <2>4. con[c] \in {None, y}
      BY DEF Pointed
    <2>. QED
      BY <1>2, <1>11, <2>1, <2>3, <2>4 DEF Finished
  <1>. QED
    BY <1>1, <1>10, <1>11

LEMMA FailedCases ==
  ASSUME AsyncAssumption, Core, crashed = "no",
         NEW x \in Ctx, replies[x] # <<>>, NEW c \in Cmd, obj[c] = "live",
         NEW y, Pointed(x, c, y), NEW reply \in {"error", "OK"},
         y # con[c] => hops'[c] > 0,
         Failed(x, c, y, reply), UNCHANGED <<host, told, served>>,
         reply = "OK" => x \in Cmd /\ con[c] = x /\ status[x] = "closing"
  PROVE  Sent(x, c) \/ Finished(x, c) \/ Died
  <1>1. CASE Finish(x, c, y, reply)
    BY <1>1, FinishCases
  <1>2. CASE status[x] = "live" /\ Send(x, c, y, x, "command")
    <2>1. y \in Cmd \cup {None} /\ con[c] \in {None, y}
      BY DEF Pointed
    <2>2. x \in Cmd => x = y
      BY DEF Pointed
    <2>3. y # None => status[y] # "unused"
      BY <1>2 DEF Pointed
    <2>4. x \in SlotRange => (y # None => status[y] \notin {"live", "unused"})
      BY DEF Pointed, AsyncAssumption
    <2>. QED
      BY <1>2, <2>1, <2>2, <2>3, <2>4 DEF Sent, What
  <1>. QED
    BY <1>1, <1>2 DEF Failed, Retry

ServerTypes ==
  /\ asking \in [Ctx -> BOOLEAN]
  /\ moved \in BOOLEAN
  /\ cluster \in BOOLEAN
  /\ told \in [Cmd -> Host \cup {None}]
  /\ hops \in [Cmd -> 0..MaxHops]
  /\ served \in [Cmd -> Nat]
  /\ crashed \in {"no", "useAfterFree", "nullReply", "contextFreed"}

(* A command that was not redirected has no connection of its own, and one *)
(* that has not ended was not executed.                                    *)
Unconnected == \A c \in Cmd : hops[c] = 0 => con[c] = None

LEMMA RedirectCases ==
  ASSUME AsyncAssumption, ServerTypes, Core, Unconnected, crashed = "no",
         NEW x \in Ctx, replies[x] # <<>>, NEW c \in Cmd, obj[c] = "live",
         x \in Cmd => con[c] = x,
         NEW kind \in {"ASK", "MOVED"}, NEW h \in Host, Redirect(x, c, kind, h),
         hops' = [hops EXCEPT ![c] = @ + 1], served' = served
  PROVE  Sent(x, c) \/ Joined(x, c) \/ Finished(x, c) \/ Died
  <1>. DEFINE y == IF con[c] # None THEN con[c] ELSE connections[h]
              what == IF kind = "ASK" THEN "ASKING" ELSE "moved"
  <1>1. y \in Cmd \cup {None} /\ con[c] \in {None, y} /\ None \notin Cmd
    BY DEF Core, ClientTypes, AsyncAssumption
  <1>2. y # None => y \in Cmd /\ y \in Ctx /\ y \notin SlotRange /\ status[y] # "unused"
    BY <1>1 DEF Ctx, Core, Linked, AsyncAssumption
  <1>3. hops[c] \in Nat /\ hops'[c] = hops[c] + 1 /\ hops'[c] > 0
    BY DEF ServerTypes
  <1>4. hops'[c] < 2 => con[c] = None /\ (y # None => host[y] = h)
    BY <1>3 DEF Unconnected, Core, Linked
  <1>5. what \in What /\ what # "asked" /\ what # "command"
    BY DEF What
  <1>6. con[c] = None /\ y = None => x \notin Cmd
    BY <1>1
  <1>7. con[c] # None => y = con[c]
    OBVIOUS
  <1>8. con[c] = None => y = connections[h]
    OBVIOUS
  <1>9. \/ y = None /\ CreateNewConnection(x, c, h, what) /\ told' = [told EXCEPT ![c] = h]
        \/ y = None /\ Failed(x, c, None, "error") /\ UNCHANGED <<host, told>>
        \/ y # None /\ Dangling(y) /\ Crash("useAfterFree") /\ UNCHANGED <<host, told>>
        \/ y # None /\ status[y] = "closing" /\ Failed(x, c, y, "error") /\ UNCHANGED <<host, told>>
        \/ /\ y # None /\ status[y] = "live" /\ Send(x, c, y, y, what)
           /\ told' = [told EXCEPT ![c] = h] /\ UNCHANGED host
    BY DEF Redirect
  <1>10. told' = [told EXCEPT ![c] = h] => told'[c] = h
    BY DEF ServerTypes
  <1>. HIDE DEF y, what
  <1>11. CASE y = None /\ CreateNewConnection(x, c, h, what) /\ told' = [told EXCEPT ![c] = h]
    <2>1. con[c] = None /\ connections[h] = None
      BY <1>1, <1>8, <1>11
    <2>. QED
      BY <1>3, <1>5, <1>10, <1>11, <2>1 DEF Joined
  <1>12. CASE y = None /\ Failed(x, c, None, "error") /\ UNCHANGED <<host, told>>
    <2>1. Pointed(x, c, None)
      BY <1>1, <1>6, <1>12 DEF Pointed
    <2>. QED
      BY <1>3, <1>12, <2>1, FailedCases
  <1>13. CASE y # None /\ Dangling(y) /\ Crash("useAfterFree") /\ UNCHANGED <<host, told>>
    BY <1>2, <1>13 DEF Crash, Died
  <1>14. CASE y # None /\ status[y] = "closing" /\ Failed(x, c, y, "error") /\ UNCHANGED <<host, told>>
    <2>1. Pointed(x, c, y)
      BY <1>1, <1>7, <1>14 DEF Pointed
    <2>. QED
      BY <1>3, <1>14, <2>1, FailedCases
  <1>15. CASE /\ y # None /\ status[y] = "live" /\ Send(x, c, y, y, what)
              /\ told' = [told EXCEPT ![c] = h] /\ UNCHANGED host
    BY <1>1, <1>2, <1>3, <1>4, <1>5, <1>10, <1>15 DEF Sent
  <1>. QED
    BY <1>9, <1>11, <1>12, <1>13, <1>14, <1>15

(* Where the command of the oldest callback of x has its connection.       *)
LEMMA HeadFacts ==
  ASSUME AsyncAssumption, Core, NEW x \in Ctx, replies[x] # <<>>,
         NEW cb, cb = Head(replies[x])
  PROVE  /\ cb \in Callback /\ cb.cmd \in Cmd /\ obj[cb.cmd] = "live" /\ Open(x)
         /\ x \in Cmd => con[cb.cmd] = x
         /\ x \in SlotRange => cb.what = "command"
         /\ Pointed(x, cb.cmd, con[cb.cmd])
  <1>1. cb = replies[x][1] /\ 1 \in 1..Len(replies[x]) /\ cb \in Callback
    BY RestFacts DEF Core
  <1>2. cb.cmd \in Cmd /\ obj[cb.cmd] = "live" /\ Open(x)
    BY RestTokens DEF Core
  <1>3. x \in Cmd => con[cb.cmd] = x
    BY <1>1 DEF Core, Placed
  <1>4. x \in SlotRange => /\ cb.what = "command"
                           /\ con[cb.cmd] # None => status[con[cb.cmd]] \notin {"live", "unused"}
    BY <1>1 DEF Core, Placed
  <1>5. /\ con[cb.cmd] \in Cmd \cup {None}
        /\ \A z \in Ctx : status[z] \in {"unused", "live", "closing", "freed", "lost"}
    BY <1>2 DEF Core, ClientTypes
  <1>. QED
    BY <1>1, <1>2, <1>3, <1>4, <1>5 DEF Pointed, Ctx

LEMMA TurnFacts ==
  ASSUME AsyncAssumption, ServerTypes, NEW x \in Ctx, NEW c \in Cmd,
         c = Head(replies[x]).cmd, LoopStep(x)
  PROVE  Turn(x, c)
  <1>1. /\ MaxHops \in Nat /\ hops \in [Cmd -> 0..MaxHops] /\ hops[c] \in 0..MaxHops
        /\ asking \in [Ctx -> BOOLEAN] /\ told \in [Cmd -> Host \cup {None}]
        /\ moved \in BOOLEAN
    BY DEF ServerTypes, AsyncAssumption
  <1>2. cluster' = cluster
    BY DEF LoopStep, ProcessCommandReply, RunRedisCallback
  <1>3. \E b \in BOOLEAN : asking' = [asking EXCEPT ![x] = b] \/ asking' = asking
    BY DEF LoopStep, ProcessCommandReply, RunRedisCallback, AskingOK, AskingRefused
  <1>4. hops' = hops \/ (hops[c] < MaxHops /\ hops' = [hops EXCEPT ![c] = @ + 1])
    BY DEF LoopStep, ProcessCommandReply, RunRedisCallback, AskingOK, AskingRefused, Ready, NotReady
  <1>5. /\ \/ told' = told
           \/ \E h \in Host : told' = [told EXCEPT ![c] = h]
        /\ moved' \in BOOLEAN
    BY <1>1 DEF LoopStep, ProcessCommandReply, RunRedisCallback, Ready, NotReady, Redirect
  <1>6. hops' \in [Cmd -> 0..MaxHops] /\ hops'[c] >= hops[c]
        /\ \A d \in Cmd : d # c => hops'[d] = hops[d]
    <2>1. CASE hops' = hops
      BY <1>1, <2>1
    <2>2. CASE hops[c] < MaxHops /\ hops' = [hops EXCEPT ![c] = @ + 1]
      BY <1>1, <2>2
    <2>. QED
      BY <1>4, <2>1, <2>2
  <1>. QED
    BY <1>1, <1>2, <1>3, <1>5, <1>6 DEF Turn

LEMMA CallbackCases ==
  ASSUME AsyncAssumption, ServerTypes, Core, Unconnected, crashed = "no",
         NEW x \in Ctx, LoopStep(x)
  PROVE  /\ replies[x] # <<>>
         /\ \E c \in Cmd : /\ c = Head(replies[x]).cmd /\ Turn(x, c)
                           /\ Sent(x, c) \/ Joined(x, c) \/ Finished(x, c) \/ Died
  <1>. DEFINE cb == Head(replies[x])
              c == cb.cmd
  <1>1. replies[x] # <<>>
    BY DEF LoopStep, ProcessCommandReply, RunRedisCallback
  <1>2. /\ c \in Cmd /\ obj[c] = "live" /\ Open(x) /\ Pointed(x, c, con[c])
        /\ x \in Cmd => con[c] = x
        /\ x \in SlotRange => cb.what = "command"
    BY <1>1, HeadFacts
  <1>3. Turn(x, c)
    BY <1>2, TurnFacts
  <1>. HIDE DEF cb
  <1>4. ASSUME Ready(x, c)
        PROVE  Finished(x, c) \/ Died
    BY <1>1, <1>2, <1>4, FinishCases DEF Ready
  <1>5. ASSUME NotReady(x, c)
        PROVE  Sent(x, c) \/ Joined(x, c) \/ Finished(x, c) \/ Died
    <2>1. /\ hops' = [hops EXCEPT ![c] = @ + 1] /\ served' = served
          /\ \/ \E kind \in {"ASK", "MOVED"}, h \in Host : Redirect(x, c, kind, h)
             \/ Failed(x, c, con[c], "error") /\ UNCHANGED <<host, told>>
      BY <1>5 DEF NotReady
    <2>2. CASE \E kind \in {"ASK", "MOVED"}, h \in Host : Redirect(x, c, kind, h)
      <3>1. PICK kind \in {"ASK", "MOVED"} : \E h \in Host : Redirect(x, c, kind, h)
        BY <2>2
      <3>2. PICK h \in Host : Redirect(x, c, kind, h)
        BY <3>1
      <3>. QED
        BY <1>1, <1>2, <2>1, <3>2, RedirectCases
    <2>3. CASE Failed(x, c, con[c], "error") /\ UNCHANGED <<host, told>>
      BY <1>1, <1>2, <2>1, <2>3, FailedCases
    <2>. QED
      BY <2>1, <2>2, <2>3
  <1>6. ASSUME RunRedisCallback(x)
        PROVE  Sent(x, c) \/ Finished(x, c) \/ Died
    <2>1. /\ cb.what = "ASKING" /\ UNCHANGED <<served, host, told>>
          /\ AskingOK(x, c) \/ AskingRefused(x, c)
      BY <1>6 DEF RunRedisCallback, cb
    <2>2. x \in Cmd /\ con[c] = x
      BY <1>2, <2>1 DEF Ctx
    <2>3. CASE status[con[c]] = "live" /\ Send(x, c, con[c], con[c], "asked") /\ asking' = [asking EXCEPT ![x] = TRUE]
      <3>1. asking'[x]
        BY <2>3 DEF ServerTypes
      <3>2. x \notin SlotRange
        BY <2>2 DEF AsyncAssumption
      <3>. QED
        BY <2>1, <2>2, <2>3, <3>1, <3>2 DEF Sent, What
    <2>4. CASE status[con[c]] = "closing" /\ Failed(x, c, con[c], "OK")
      BY <1>1, <1>2, <2>1, <2>2, <2>4, FailedCases
    <2>5. CASE AskingRefused(x, c)
      BY <1>1, <1>2, <2>1, <2>5, FailedCases DEF AskingRefused
    <2>. QED
      BY <2>1, <2>3, <2>4, <2>5 DEF AskingOK
  <1>7. Ready(x, c) \/ NotReady(x, c) \/ RunRedisCallback(x)
    BY DEF LoopStep, ProcessCommandReply, cb
  <1>8. Sent(x, c) \/ Joined(x, c) \/ Finished(x, c) \/ Died
    BY <1>4, <1>5, <1>6, <1>7
  <1>. QED
    BY <1>1, <1>2, <1>3, <1>8 DEF cb

LEMMA NextCases ==
  ASSUME AsyncAssumption, ServerTypes, Core, Unconnected, Next
  PROVE  \/ \E x \in Ctx : /\ replies[x] # <<>>
                           /\ \E c \in Cmd :
                                /\ c = Head(replies[x]).cmd /\ Turn(x, c)
                                /\ Sent(x, c) \/ Joined(x, c) \/ Finished(x, c) \/ Died
         \/ Aside /\ (Accepted \/ Leaked \/ MapsClosed \/ Lost \/ Died)
  <1>1. crashed = "no" /\ cluster
    BY DEF Next
  <1>2. \A z \in InMaps : ~Dangling(z) => Open(z)
    BY InMapsFacts
  <1>3. \A z \in InMaps : Dangling(z) =>
          (\E x \in Cmd : Dangling(x)) \/ (\E r \in nodes : status[r] = "lost")
    BY InMapsFacts
  <1>4. \A q : Closed(status, q, InMaps, None) = Closing(None, InMaps, q)
    BY DEF Closed, Closing, Ctx, AsyncAssumption
  <1>5. (\E z \in InMaps : Dangling(z)) /\ Crash("useAfterFree") /\ UNCHANGED <<serverVars, host, told>>
          => Died
    BY <1>3 DEF Crash, Died, serverVars
  <1>6. ASSUME NEW x \in Ctx, LoopStep(x)
        PROVE  /\ replies[x] # <<>>
               /\ \E c \in Cmd : /\ c = Head(replies[x]).cmd /\ Turn(x, c)
                                 /\ Sent(x, c) \/ Joined(x, c) \/ Finished(x, c) \/ Died
    BY <1>1, <1>6, CallbackCases
  <1>7. ASSUME NEW x \in Ctx, Lose(x)
        PROVE  Aside /\ (Lost \/ Died)
    <2>1. Aside
      BY <1>1, <1>7 DEF Lose, Aside, ServerTypes
    <2>2. CASE replies[x] # <<>> /\ Crash("nullReply")
      BY <1>7, <2>1, <2>2 DEF Lose, Crash, Died, serverVars
    <2>3. CASE replies[x] = <<>>
      BY <1>7, <2>1, <2>3 DEF Lose, Lost
    <2>. QED
      BY <1>7, <2>1, <2>2, <2>3 DEF Lose
  <1>8. ASSUME NEW c \in Cmd, NEW r \in SlotRange, Command(c, r)
        PROVE  Aside /\ (Accepted \/ Leaked \/ Died)
    <2>1. Aside /\ obj[c] = "unused"
      BY <1>1, <1>8 DEF Command, Aside, ServerTypes
    <2>2. CASE r \notin nodes
      BY <1>8, <2>1, <2>2 DEF Command, Leaked
    <2>3. CASE r \in nodes /\ Dangling(r)
      <3>1. Crash("useAfterFree") /\ UNCHANGED <<serverVars, host, told>>
        BY <1>8, <2>3 DEF Command
      <3>2. r \in InMaps
        BY <2>3 DEF InMaps
      <3>. QED
        BY <1>5, <2>1, <2>3, <3>1, <3>2
    <2>4. CASE r \in nodes /\ ~Dangling(r)
      <3>1. status[r] = "live"
        BY <2>4 DEF Core, ContextLife, NodesOpen, Dangling
      <3>. QED
        BY <1>8, <2>1, <2>4, <3>1 DEF Command, Accepted
    <2>. QED
      BY <2>2, <2>3, <2>4
  <1>9. ASSUME Disconnect
        PROVE  Aside /\ (MapsClosed \/ Died)
    <2>1. Aside
      BY <1>1, <1>9 DEF Disconnect, Aside, ServerTypes
    <2>. QED
      BY <1>2, <1>4, <1>5, <1>9, <2>1 DEF Disconnect, MapsClosed
  <1>10. ASSUME DeleteCluster
         PROVE  Aside /\ (MapsClosed \/ Died)
    <2>1. Aside
      BY <1>1, <1>10 DEF DeleteCluster, Aside, ServerTypes
    <2>2. CASE (\E z \in InMaps : Dangling(z)) /\ Crash("useAfterFree")
      BY <1>5, <1>10, <2>1, <2>2 DEF DeleteCluster
    <2>3. CASE Crash("contextFreed")
      BY <1>10, <2>1, <2>3 DEF DeleteCluster, Crash, Died, serverVars
    <2>4. CASE /\ \A y \in InMaps : Open(y) /\ replies[y] # <<>>
               /\ status' = Closed(status, replies, InMaps, None)
               /\ ClearMaps
               /\ UNCHANGED <<replies, obj, con, heard, crashed>>
      BY <1>4, <2>1, <2>4 DEF MapsClosed
    <2>. QED
      BY <1>10, <2>2, <2>3, <2>4 DEF DeleteCluster
  <1>. QED
    BY <1>6, <1>7, <1>8, <1>9, <1>10 DEF Next

-----------------------------------------------------------------------------
(* The core is kept by every such step.                                    *)

(* The callback called was that of c, and c has a new one on to.           *)
Passed(x, c, to, what) ==
  obj' = obj /\ replies' = [Rest(x) EXCEPT ![to] = Append(@, [cmd |-> c, what |-> what])]

LEMMA PassedOn ==
  ASSUME ClientTypes, Registered, NEW x \in Ctx, replies[x] # <<>>,
         NEW c, c = Head(replies[x]).cmd, NEW to \in Ctx, NEW what \in What,
         Passed(x, c, to, what),
         \A z \in Ctx : Open(z) /\ replies'[z] # <<>> => status'[z] \in {"live", "closing"},
         status'[to] \in {"live", "closing"}
  PROVE  /\ Registered' /\ c \in Cmd /\ obj[c] = "live" /\ Open(x)
         /\ replies' \in [Ctx -> Seq(Callback)] /\ replies'[to] # <<>>
         /\ \A z \in Ctx : z # x /\ replies[z] # <<>> => replies'[z] # <<>>
         /\ \A z \in Ctx : \A i \in 1..Len(replies'[z]) :
               \/ /\ replies'[z][i].cmd \in Cmd \ {c}
                  /\ \E k \in 1..Len(replies[z]) : replies[z][k] = replies'[z][i]
               \/ z = to /\ replies'[z][i] = [cmd |-> c, what |-> what]
  <1>. DEFINE R == Rest(x)
              cb == [cmd |-> c, what |-> what]
              old(z, i) == i \in 1..Len(R[z]) /\ replies'[z][i] = R[z][i]
              new(z, i) == z = to /\ i = Len(R[to]) + 1 /\ replies'[z][i] = cb
  <1>1. R \in [Ctx -> Seq(Callback)] /\ \A z \in Ctx : z # x => R[z] = replies[z]
    BY RestFacts
  <1>2. /\ c \in Cmd /\ obj[c] = "live" /\ Open(x)
        /\ \A z \in Ctx : \A i \in 1..Len(R[z]) :
              /\ R[z][i].cmd \in Cmd \ {c}
              /\ \E k \in 1..Len(replies[z]) : replies[z][k] = R[z][i]
        /\ \A y, z \in Ctx : \A i \in 1..Len(R[y]), j \in 1..Len(R[z]) :
              R[y][i].cmd = R[z][j].cmd => y = z /\ i = j
        /\ \A d \in Cmd \ {c} : obj[d] = "live" =>
              \E z \in Ctx : \E i \in 1..Len(R[z]) : R[z][i].cmd = d
        /\ \A z \in Ctx : R[z] # <<>> => Open(z)
    BY RestTokens
  <1>3. cb \in Callback /\ cb.cmd = c
    BY <1>2 DEF Callback
  <1>. HIDE DEF R, cb
  <1>4. /\ replies' \in [Ctx -> Seq(Callback)]
        /\ \A z \in Ctx : \A i \in 1..Len(replies'[z]) : old(z, i) \/ new(z, i)
        /\ \A z \in Ctx : \A i \in 1..Len(R[z]) :
              i \in 1..Len(replies'[z]) /\ replies'[z][i] = R[z][i]
        /\ Len(R[to]) + 1 \in 1..Len(replies'[to]) /\ replies'[to][Len(R[to]) + 1] = cb
        /\ replies'[to] # <<>>
        /\ \A z \in Ctx : z # to => replies'[z] = R[z]
    <2>1. PICK q : q = replies'
      OBVIOUS
    <2>2. q = [R EXCEPT ![to] = Append(@, cb)]
      BY <2>1 DEF R, cb, Passed
    <2>3. /\ q \in [Ctx -> Seq(Callback)]
          /\ \A z \in Ctx : \A i \in 1..Len(q[z]) :
               \/ i \in 1..Len(R[z]) /\ q[z][i] = R[z][i]
               \/ z = to /\ i = Len(R[to]) + 1 /\ q[z][i] = cb
          /\ \A z \in Ctx : \A i \in 1..Len(R[z]) :
               i \in 1..Len(q[z]) /\ q[z][i] = R[z][i]
          /\ Len(R[to]) + 1 \in 1..Len(q[to]) /\ q[to][Len(R[to]) + 1] = cb
          /\ q[to] # <<>>
          /\ \A z \in Ctx : z # to => q[z] = R[z]
      BY <1>1, <1>3, <2>2, AddedFacts
    <2>. QED
      BY <2>1, <2>3, Zenon
  <1>5. \A z \in Ctx : replies'[z] # <<>> => status'[z] \in {"live", "closing"}
    BY <1>2, <1>4
  <1>6. \A y, z \in Ctx : \A i \in 1..Len(replies'[y]), j \in 1..Len(replies'[z]) :
           replies'[y][i].cmd = replies'[z][j].cmd => y = z /\ i = j
    <2>. SUFFICES ASSUME NEW y \in Ctx, NEW z \in Ctx,
                         NEW i \in 1..Len(replies'[y]), NEW j \in 1..Len(replies'[z]),
                         replies'[y][i].cmd = replies'[z][j].cmd
                  PROVE  y = z /\ i = j
      OBVIOUS
    <2>1. (old(y, i) \/ new(y, i)) /\ (old(z, j) \/ new(z, j))
      BY <1>4
    <2>2. ASSUME old(y, i), old(z, j)
          PROVE  y = z /\ i = j
      <3>1. R[y][i].cmd = R[z][j].cmd /\ i \in 1..Len(R[y]) /\ j \in 1..Len(R[z])
        BY <2>2
      <3>2. \A u, v \in Ctx : \A k \in 1..Len(R[u]), m \in 1..Len(R[v]) :
               R[u][k].cmd = R[v][m].cmd => u = v /\ k = m
        BY <1>2
      <3>. QED
        BY <3>1, <3>2
    <2>. DEFINE own(u, k) == R[u][k].cmd \in Cmd \ {c}
    <2>3. ASSUME old(y, i), new(z, j)
          PROVE  FALSE
      <3>1. own(y, i)
        BY <1>2, <2>3
      <3>. QED
        BY <1>3, <2>3, <3>1
    <2>4. ASSUME new(y, i), old(z, j)
          PROVE  FALSE
      <3>1. own(z, j)
        BY <1>2, <2>4
      <3>. QED
        BY <1>3, <2>4, <3>1
    <2>5. CASE new(y, i) /\ new(z, j)
      BY <2>5
    <2>. HIDE DEF old, new
    <2>. QED
      BY <2>1, <2>2, <2>3, <2>4, <2>5
  <1>7. \A z \in Ctx : \A i \in 1..Len(replies'[z]) :
           \/ /\ replies'[z][i].cmd \in Cmd \ {c}
              /\ \E k \in 1..Len(replies[z]) : replies[z][k] = replies'[z][i]
           \/ z = to /\ replies'[z][i] = cb
    <2>. SUFFICES ASSUME NEW z \in Ctx, NEW i \in 1..Len(replies'[z])
                  PROVE  \/ /\ replies'[z][i].cmd \in Cmd \ {c}
                            /\ \E k \in 1..Len(replies[z]) : replies[z][k] = replies'[z][i]
                         \/ z = to /\ replies'[z][i] = cb
      OBVIOUS
    <2>1. CASE old(z, i)
      <3>1. /\ R[z][i].cmd \in Cmd \ {c}
            /\ \E k \in 1..Len(replies[z]) : replies[z][k] = R[z][i]
        BY <1>2, <2>1
      <3>2. replies'[z][i] = R[z][i]
        BY <2>1
      <3>. QED
        BY <3>1, <3>2
    <2>2. CASE new(z, i)
      BY <2>2
    <2>. HIDE DEF old, new
    <2>. QED
      BY <1>4, <2>1, <2>2
  <1>8. \A z \in Ctx : \A i \in 1..Len(replies'[z]) : obj[replies'[z][i].cmd] = "live"
    <2>. SUFFICES ASSUME NEW z \in Ctx, NEW i \in 1..Len(replies'[z])
                  PROVE  obj[replies'[z][i].cmd] = "live"
      OBVIOUS
    <2>1. CASE replies'[z][i] = cb
      BY <1>2, <1>3, <2>1
    <2>2. CASE \E k \in 1..Len(replies[z]) : replies[z][k] = replies'[z][i]
      BY <2>2 DEF Registered
    <2>. QED
      BY <1>7, <2>1, <2>2
  <1>9. \A d \in Cmd : obj[d] = "live" =>
           \E z \in Ctx : \E i \in 1..Len(replies'[z]) : replies'[z][i].cmd = d
    <2>. SUFFICES ASSUME NEW d \in Cmd, obj[d] = "live"
                  PROVE  \E z \in Ctx : \E i \in 1..Len(replies'[z]) : replies'[z][i].cmd = d
      OBVIOUS
    <2>1. CASE d = c
      BY <1>3, <1>4, <2>1
    <2>2. CASE d # c
      <3>1. PICK z \in Ctx : \E i \in 1..Len(R[z]) : R[z][i].cmd = d
        BY <1>2, <2>2
      <3>2. PICK i \in 1..Len(R[z]) : R[z][i].cmd = d
        BY <3>1
      <3>3. i \in 1..Len(replies'[z]) /\ replies'[z][i].cmd = d
        BY <1>4, <3>2
      <3>. QED
        BY <3>3
    <2>. QED
      BY <2>1, <2>2
  <1>10. Registered'
    <2>1. obj' = obj
      BY DEF Passed
    <2>. QED
      BY <1>5, <1>6, <1>8, <1>9, <2>1 DEF Registered, Open
  <1>11. \A z \in Ctx : z # x /\ replies[z] # <<>> => replies'[z] # <<>>
    BY <1>1, <1>4
  <1>. QED
    BY <1>2, <1>4, <1>7, <1>10, <1>11 DEF cb

Life == {"unused", "live", "closing", "freed", "lost"}

LEMMA SettledFacts ==
  ASSUME NEW s \in [Ctx -> Life], NEW x \in Ctx, NEW q
  PROVE  /\ Settled(s, q, x) \in [Ctx -> Life]
         /\ \A z \in Ctx : Settled(s, q, x)[z] =
              IF z = x /\ s[x] = "closing" /\ q[x] = <<>> THEN "freed" ELSE s[z]
  BY DEF Settled, Life

(* What a callback of c keeps of the other commands, and how c goes on.    *)
Carried(c) ==
  /\ \A d \in Cmd : con[d] # None => con'[d] = con[d]
  /\ \A d \in Cmd : con'[d] = con[d] \/ (d = c /\ hops'[c] > 0)
  /\ \A z \in Ctx : status[z] # "unused" => host'[z] = host[z]
  /\ \A h \in Host, z \in Cmd : status[z] # "unused" /\ connections'[h] = z => connections[h] = z
  /\ \A z \in Ctx : \A i \in 1..Len(replies'[z]) :
       \/ /\ replies'[z][i].cmd \in Cmd \ {c}
          /\ \E k \in 1..Len(replies[z]) : replies[z][k] = replies'[z][i]
       \/ /\ replies'[z][i].cmd = c
          /\ replies'[z][i].what = "asked" => asking'[z]
          /\ replies'[z][i].what = "moved" /\ hops'[c] < 2 => host'[z] = told'[c]

LEMMA SentCore ==
  ASSUME AsyncAssumption, Core, NEW x \in Ctx, replies[x] # <<>>,
         NEW c \in Cmd, c = Head(replies[x]).cmd, Sent(x, c)
  PROVE  Core' /\ Carried(c)
  <1>1. PICK y \in Cmd \cup {None}, to \in Ctx, what \in What :
          /\ Send(x, c, y, to, what)
          /\ UNCHANGED host
          /\ con[c] \in {None, y} /\ status[to] = "live"
          /\ y # None => status[y] # "unused"
          /\ to \in Cmd => to = y
          /\ to \in SlotRange =>
               what = "command" /\ (y # None => status[y] \notin {"live", "unused"})
          /\ y # con[c] => hops'[c] > 0
          /\ what = "asked" => asking'[to]
          /\ what = "moved" /\ hops'[c] < 2 => host[to] = told'[c]
    BY DEF Sent
  <1>2. /\ nodes' = nodes /\ connections' = connections /\ obj' = obj /\ heard' = heard
        /\ host' = host
    BY <1>1 DEF Send
  <1>3. /\ status' \in [Ctx -> Life]
        /\ \A z \in Ctx : status'[z] =
             IF z = x /\ status[x] = "closing" /\ replies'[x] = <<>> THEN "freed" ELSE status[z]
    <2>1. status' = Settled(status, replies', x)
      BY <1>1 DEF Send
    <2>. QED
      BY <2>1 DEF Settled, Core, ClientTypes, Life
  <1>4. /\ Registered' /\ obj[c] = "live" /\ Open(x)
        /\ replies' \in [Ctx -> Seq(Callback)] /\ replies'[to] # <<>>
        /\ \A z \in Ctx : z # x /\ replies[z] # <<>> => replies'[z] # <<>>
        /\ \A z \in Ctx : \A i \in 1..Len(replies'[z]) :
              \/ /\ replies'[z][i].cmd \in Cmd \ {c}
                 /\ \E k \in 1..Len(replies[z]) : replies[z][k] = replies'[z][i]
              \/ z = to /\ replies'[z][i] = [cmd |-> c, what |-> what]
    <2>1. \A z \in Ctx : Open(z) /\ replies'[z] # <<>> => status'[z] \in {"live", "closing"}
      BY <1>3 DEF Open
    <2>2. status'[to] \in {"live", "closing"}
      BY <1>1, <1>3
    <2>3. ClientTypes /\ Registered /\ Passed(x, c, to, what)
      BY <1>1 DEF Core, Send, Passed
    <2>. QED
      BY <2>1, <2>2, <2>3, PassedOn
  <1>5. /\ con \in [Cmd -> Cmd \cup {None}] /\ con'[c] = y
        /\ \A d \in Cmd : d # c => con'[d] = con[d]
        /\ con' \in [Cmd -> Cmd \cup {None}]
        /\ None \notin Cmd /\ None \notin SlotRange /\ SlotRange \cap Cmd = {}
    BY <1>1 DEF Core, ClientTypes, Send, AsyncAssumption
  <1>6. ClientTypes'
    BY <1>2, <1>3, <1>4, <1>5 DEF Core, ClientTypes, Life
  <1>7. Placed'
    <2>1. ASSUME NEW z \in Cmd, NEW i \in 1..Len(replies'[z])
          PROVE  con'[replies'[z][i].cmd] = z
      <3>1. CASE z = to /\ replies'[z][i] = [cmd |-> c, what |-> what]
        BY <1>1, <1>5, <3>1
      <3>2. CASE /\ replies'[z][i].cmd \in Cmd \ {c}
                 /\ \E k \in 1..Len(replies[z]) : replies[z][k] = replies'[z][i]
        BY <1>5, <3>2 DEF Core, Placed
      <3>. QED
        BY <1>4, <3>1, <3>2 DEF Ctx
    <2>2. ASSUME NEW r \in SlotRange, NEW i \in 1..Len(replies'[r])
          PROVE  /\ replies'[r][i].what = "command"
                 /\ con'[replies'[r][i].cmd] # None =>
                      status'[con'[replies'[r][i].cmd]] \notin {"live", "unused"}
      <3>1. CASE r = to /\ replies'[r][i] = [cmd |-> c, what |-> what]
        BY <1>1, <1>3, <1>5, <3>1 DEF Ctx
      <3>2. CASE /\ replies'[r][i].cmd \in Cmd \ {c}
                 /\ \E k \in 1..Len(replies[r]) : replies[r][k] = replies'[r][i]
        <4>. DEFINE d == replies'[r][i].cmd
        <4>1. /\ replies'[r][i].what = "command" /\ d \in Cmd /\ d # c
              /\ con[d] # None => status[con[d]] \notin {"live", "unused"}
          BY <3>2 DEF Core, Placed
        <4>2. con'[d] = con[d] /\ con[d] \in Cmd \cup {None}
          BY <1>5, <4>1
        <4>3. con[d] # None => status'[con[d]] \notin {"live", "unused"}
          BY <1>3, <4>1, <4>2 DEF Ctx
        <4>. QED
          BY <4>1, <4>2, <4>3
      <3>. QED
        BY <1>4, <3>1, <3>2 DEF Ctx
    <2>. QED
      BY <2>1, <2>2 DEF Placed
  <1>8. Linked'
    <2>. DEFINE used(z) == status[z] # "unused"
    <2>5. \A z \in Ctx : status'[z] # "unused" <=> used(z)
      BY <1>3
    <2>6. /\ \A z \in Cmd : used(z) => con[z] = z /\ host[z] \in Host
          /\ \A d \in Cmd : con[d] # None => used(con[d])
      BY DEF Core, Linked
    <2>. HIDE DEF used
    <2>1. \A z \in Cmd : status'[z] # "unused" => con'[z] = z /\ host'[z] \in Host
      BY <1>1, <1>2, <1>5, <2>5, <2>6 DEF Ctx
    <2>2. \A d \in Cmd : con'[d] # None => status'[con'[d]] # "unused"
      <3>1. y # None => used(y) /\ y \in Ctx
        BY <1>1 DEF used, Ctx
      <3>. QED
        BY <1>5, <2>5, <2>6, <3>1 DEF Ctx
    <2>3. \A h \in Host : connections'[h] # None =>
             status'[connections'[h]] # "unused" /\ host'[connections'[h]] = h
      <3>1. \A h \in Host : connections[h] # None =>
               connections[h] \in Ctx /\ used(connections[h]) /\ host[connections[h]] = h
        BY DEF Core, Linked, ClientTypes, Ctx, used
      <3>. QED
        BY <1>2, <2>5, <3>1
    <2>4. \A d \in Cmd : obj'[d] = "unused" => con'[d] = None
      BY <1>2, <1>4, <1>5 DEF Core, Linked
    <2>. QED
      BY <2>1, <2>2, <2>3, <2>4 DEF Linked
  <1>9. ContextLife'
    <2>1. ClosingDrains'
      BY <1>3, <1>4 DEF Core, ContextLife, ClosingDrains
    <2>2. NoOrphan'
      <3>. SUFFICES ASSUME NEW z \in Cmd, status'[z] = "live"
                    PROVE  \E d \in Cmd : obj'[d] = "live" /\ con'[d] = z
        BY DEF NoOrphan
      <3>1. PICK d \in Cmd : obj[d] = "live" /\ con[d] = z
        <4>1. status[z] = "live"
          BY <1>3 DEF Ctx
        <4>. QED
          BY <4>1 DEF Core, ContextLife, NoOrphan
      <3>2. con'[d] = z
        BY <1>1, <1>5, <3>1
      <3>. QED
        BY <1>2, <3>1, <3>2
    <2>3. NodesOpen'
      BY <1>2, <1>3 DEF Core, ContextLife, NodesOpen, ClientTypes, Ctx
    <2>. QED
      BY <2>1, <2>2, <2>3 DEF ContextLife
  <1>10. Ended'
    <2>1. \A z \in Cmd : status'[z] \in {"closing", "freed"} => status[z] \in {"closing", "freed"}
      BY <1>3 DEF Ctx
    <2>2. \A d \in Cmd : obj[d] = "deleted" => con'[d] = con[d]
      BY <1>4, <1>5
    <2>. QED
      BY <1>2, <2>1, <2>2 DEF Core, Ended
  <1>11. Unheard'
    BY <1>2 DEF Core, Unheard
  <1>12. Carried(c)
    <2>1. \A d \in Cmd : con[d] # None => con'[d] = con[d]
      BY <1>1, <1>5
    <2>2. \A d \in Cmd : con'[d] = con[d] \/ (d = c /\ hops'[c] > 0)
      BY <1>1, <1>5
    <2>3. \A z \in Ctx : \A i \in 1..Len(replies'[z]) :
            \/ /\ replies'[z][i].cmd \in Cmd \ {c}
               /\ \E k \in 1..Len(replies[z]) : replies[z][k] = replies'[z][i]
            \/ /\ replies'[z][i].cmd = c
               /\ replies'[z][i].what = "asked" => asking'[z]
               /\ replies'[z][i].what = "moved" /\ hops'[c] < 2 => host'[z] = told'[c]
      <3>1. ASSUME NEW z \in Ctx, NEW i \in 1..Len(replies'[z]),
                   z = to, replies'[z][i] = [cmd |-> c, what |-> what]
            PROVE  /\ replies'[z][i].cmd = c
                   /\ replies'[z][i].what = "asked" => asking'[z]
                   /\ replies'[z][i].what = "moved" /\ hops'[c] < 2 => host'[z] = told'[c]
        BY <1>1, <1>2, <3>1
      <3>. QED
        BY <1>4, <3>1
    <2>. QED
      BY <1>2, <2>1, <2>2, <2>3 DEF Carried
  <1>. QED
    BY <1>4, <1>6, <1>7, <1>8, <1>9, <1>10, <1>11, <1>12 DEF Core

LEMMA JoinedCore ==
  ASSUME AsyncAssumption, Core, NEW x \in Ctx, replies[x] # <<>>,
         NEW c \in Cmd, c = Head(replies[x]).cmd, Joined(x, c)
  PROVE  Core' /\ Carried(c)
  <1>1. PICK h \in Host : \E what \in What :
          /\ CreateNewConnection(x, c, h, what) /\ con[c] = None /\ connections[h] = None
          /\ told'[c] = h /\ hops'[c] > 0 /\ what # "asked"
    BY DEF Joined
  <1>2. PICK what \in What :
          /\ CreateNewConnection(x, c, h, what) /\ con[c] = None /\ connections[h] = None
          /\ told'[c] = h /\ hops'[c] > 0 /\ what # "asked"
    BY <1>1
  <1>. DEFINE cb == [cmd |-> c, what |-> what]
  <1>3. nodes' = nodes /\ obj' = obj /\ heard' = heard
    BY <1>2 DEF CreateNewConnection
  <1>4. /\ None \notin Cmd /\ None \notin SlotRange /\ SlotRange \cap Cmd = {}
        /\ c \in Ctx
    BY DEF AsyncAssumption, Ctx
  <1>5. status[c] = "unused" /\ replies[c] = <<>> /\ x # c
    <2>1. status[c] = "unused"
      BY <1>2, <1>4 DEF Core, Linked
    <2>. QED
      BY <1>4, <2>1 DEF Core, Registered, Open
  <1>6. /\ con \in [Cmd -> Cmd \cup {None}] /\ con'[c] = c
        /\ \A d \in Cmd : d # c => con'[d] = con[d]
        /\ con' \in [Cmd -> Cmd \cup {None}]
    BY <1>2 DEF Core, ClientTypes, CreateNewConnection
  <1>7. /\ connections \in [Host -> Cmd \cup {None}] /\ connections'[h] = c
        /\ \A k \in Host : k # h => connections'[k] = connections[k]
        /\ connections' \in [Host -> Cmd \cup {None}]
    BY <1>2 DEF Core, ClientTypes, CreateNewConnection
  <1>8. /\ host \in [Ctx -> Host \cup {None}] /\ host'[c] = h
        /\ \A z \in Ctx : z # c => host'[z] = host[z]
        /\ host' \in [Ctx -> Host \cup {None}]
    BY <1>2, <1>4 DEF Core, ClientTypes, CreateNewConnection
  <1>9. /\ status' \in [Ctx -> Life] /\ status'[c] = "live"
        /\ \A z \in Ctx : z # c => status'[z] =
             IF z = x /\ status[x] = "closing" /\ replies'[x] = <<>> THEN "freed" ELSE status[z]
    <2>1. status' = Settled([status EXCEPT ![c] = "live"], replies', x)
      BY <1>2 DEF CreateNewConnection
    <2>. QED
      BY <1>4, <1>5, <2>1 DEF Settled, Core, ClientTypes, Life
  <1>10. Passed(x, c, c, what)
    <2>1. Rest(x)[c] = <<>>
      BY <1>4, <1>5, RestFacts DEF Core
    <2>2. Append(Rest(x)[c], cb) = <<cb>>
      BY <2>1
    <2>3. replies' = [Rest(x) EXCEPT ![c] = <<cb>>]
      BY <1>2 DEF CreateNewConnection
    <2>. QED
      BY <1>3, <2>2, <2>3 DEF Passed
  <1>11. /\ Registered' /\ obj[c] = "live" /\ Open(x)
         /\ replies' \in [Ctx -> Seq(Callback)] /\ replies'[c] # <<>>
         /\ \A z \in Ctx : z # x /\ replies[z] # <<>> => replies'[z] # <<>>
         /\ \A z \in Ctx : \A i \in 1..Len(replies'[z]) :
               \/ /\ replies'[z][i].cmd \in Cmd \ {c}
                  /\ \E k \in 1..Len(replies[z]) : replies[z][k] = replies'[z][i]
               \/ z = c /\ replies'[z][i] = cb
    <2>1. \A z \in Ctx : Open(z) /\ replies'[z] # <<>> => status'[z] \in {"live", "closing"}
      BY <1>9 DEF Open
    <2>2. ClientTypes /\ Registered
      BY DEF Core
    <2>. QED
      BY <1>4, <1>9, <1>10, <2>1, <2>2, PassedOn
  <1>. HIDE DEF cb
  <1>12. ClientTypes'
    BY <1>3, <1>6, <1>7, <1>8, <1>9, <1>11 DEF Core, ClientTypes, Life
  <1>. DEFINE used(z) == status[z] # "unused"
  <1>13. \A z \in Ctx : status'[z] # "unused" <=> used(z) \/ z = c
    BY <1>9
  <1>14. /\ \A z \in Cmd : used(z) => con[z] = z /\ host[z] \in Host
         /\ \A d \in Cmd : con[d] # None => used(con[d]) /\ con[d] # c
         /\ \A k \in Host : connections[k] # None =>
              /\ used(connections[k]) /\ connections[k] # c /\ connections[k] \in Ctx
              /\ host[connections[k]] = k
    BY <1>5 DEF Core, Linked, ClientTypes, Ctx
  <1>. HIDE DEF used
  <1>15. Placed'
    <2>1. ASSUME NEW z \in Cmd, NEW i \in 1..Len(replies'[z])
          PROVE  con'[replies'[z][i].cmd] = z
      <3>1. CASE z = c /\ replies'[z][i] = cb
        BY <1>6, <3>1 DEF cb
      <3>2. CASE /\ replies'[z][i].cmd \in Cmd \ {c}
                 /\ \E k \in 1..Len(replies[z]) : replies[z][k] = replies'[z][i]
        BY <1>6, <3>2 DEF Core, Placed
      <3>. QED
        BY <1>11, <3>1, <3>2 DEF Ctx
    <2>2. ASSUME NEW r \in SlotRange, NEW i \in 1..Len(replies'[r])
          PROVE  /\ replies'[r][i].what = "command"
                 /\ con'[replies'[r][i].cmd] # None =>
                      status'[con'[replies'[r][i].cmd]] \notin {"live", "unused"}
      <3>. DEFINE d == replies'[r][i].cmd
      <3>1. /\ d \in Cmd \ {c}
            /\ \E k \in 1..Len(replies[r]) : replies[r][k] = replies'[r][i]
        BY <1>4, <1>11 DEF Ctx
      <3>2. /\ replies'[r][i].what = "command" /\ d \in Cmd /\ d # c
            /\ con[d] # None => status[con[d]] \notin {"live", "unused"}
        BY <3>1 DEF Core, Placed
      <3>3. con'[d] = con[d] /\ con[d] \in Cmd \cup {None} /\ con[d] # c
        BY <1>4, <1>6, <1>14, <3>2
      <3>4. con[d] # None => status'[con[d]] \notin {"live", "unused"}
        BY <1>9, <3>2, <3>3 DEF Ctx
      <3>. QED
        BY <3>2, <3>3, <3>4
    <2>. QED
      BY <2>1, <2>2 DEF Placed
  <1>16. Linked'
    <2>1. \A z \in Cmd : status'[z] # "unused" => con'[z] = z /\ host'[z] \in Host
      BY <1>6, <1>8, <1>13, <1>14 DEF Ctx
    <2>2. \A d \in Cmd : con'[d] # None => status'[con'[d]] # "unused"
      BY <1>6, <1>13, <1>14 DEF Ctx
    <2>3. \A k \in Host : connections'[k] # None =>
             status'[connections'[k]] # "unused" /\ host'[connections'[k]] = k
      BY <1>4, <1>7, <1>8, <1>13, <1>14
    <2>4. \A d \in Cmd : obj'[d] = "unused" => con'[d] = None
      BY <1>3, <1>6, <1>11 DEF Core, Linked
    <2>. QED
      BY <2>1, <2>2, <2>3, <2>4 DEF Linked
  <1>17. ContextLife'
    <2>1. ClosingDrains'
      BY <1>9, <1>11 DEF Core, ContextLife, ClosingDrains
    <2>2. NoOrphan'
      <3>. SUFFICES ASSUME NEW z \in Cmd, status'[z] = "live"
                    PROVE  \E d \in Cmd : obj'[d] = "live" /\ con'[d] = z
        BY DEF NoOrphan
      <3>1. CASE z = c
        BY <1>3, <1>6, <1>11, <3>1
      <3>2. CASE z # c
        <4>1. status[z] = "live"
          BY <1>9, <3>2 DEF Ctx
        <4>2. PICK d \in Cmd : obj[d] = "live" /\ con[d] = z
          BY <4>1 DEF Core, ContextLife, NoOrphan
        <4>3. con'[d] = z
          BY <1>2, <1>4, <1>6, <4>2
        <4>. QED
          BY <1>3, <4>2, <4>3
      <3>. QED
        BY <3>1, <3>2
    <2>3. NodesOpen'
      <3>1. \A r \in nodes : r \in Ctx /\ r # c /\ status[r] \in {"live", "lost"}
        BY <1>4 DEF Core, ContextLife, NodesOpen, ClientTypes, Ctx
      <3>. QED
        BY <1>3, <1>9, <3>1 DEF NodesOpen
    <2>. QED
      BY <2>1, <2>2, <2>3 DEF ContextLife
  <1>18. Ended'
    <2>. SUFFICES ASSUME NEW z \in Cmd, status'[z] \in {"closing", "freed"}
                  PROVE  (\E d \in Cmd : con'[d] = z /\ obj'[d] = "deleted") \/ connections'[host'[z]] # z
      BY DEF Ended
    <2>1. z # c /\ status[z] \in {"closing", "freed"}
      BY <1>9 DEF Ctx
    <2>2. host[z] \in Host /\ host'[z] = host[z]
      BY <1>8, <2>1 DEF Core, Linked, Ctx
    <2>3. connections'[host'[z]] = z => connections[host[z]] = z
      BY <1>7, <2>1, <2>2
    <2>4. (\E d \in Cmd : con[d] = z /\ obj[d] = "deleted") \/ connections[host[z]] # z
      BY <2>1 DEF Core, Ended
    <2>5. \A d \in Cmd : obj[d] = "deleted" => con'[d] = con[d] /\ obj'[d] = obj[d]
      BY <1>3, <1>6, <1>11
    <2>. QED
      BY <2>3, <2>4, <2>5
  <1>19. Unheard'
    BY <1>3 DEF Core, Unheard
  <1>20. Carried(c)
    <2>1. \A d \in Cmd : con[d] # None => con'[d] = con[d]
      BY <1>2, <1>6
    <2>2. \A d \in Cmd : con'[d] = con[d] \/ (d = c /\ hops'[c] > 0)
      BY <1>2, <1>6
    <2>3. \A z \in Ctx : status[z] # "unused" => host'[z] = host[z]
      BY <1>5, <1>8
    <2>4. \A k \in Host, z \in Cmd :
             status[z] # "unused" /\ connections'[k] = z => connections[k] = z
      BY <1>5, <1>7
    <2>5. \A z \in Ctx : \A i \in 1..Len(replies'[z]) :
            \/ /\ replies'[z][i].cmd \in Cmd \ {c}
               /\ \E k \in 1..Len(replies[z]) : replies[z][k] = replies'[z][i]
            \/ /\ replies'[z][i].cmd = c
               /\ replies'[z][i].what = "asked" => asking'[z]
               /\ replies'[z][i].what = "moved" /\ hops'[c] < 2 => host'[z] = told'[c]
      <3>1. ASSUME NEW z \in Ctx, NEW i \in 1..Len(replies'[z]),
                   z = c, replies'[z][i] = cb
            PROVE  /\ replies'[z][i].cmd = c
                   /\ replies'[z][i].what = "asked" => asking'[z]
                   /\ replies'[z][i].what = "moved" /\ hops'[c] < 2 => host'[z] = told'[c]
        BY <1>2, <1>8, <3>1 DEF cb
      <3>. QED
        BY <1>11, <3>1
    <2>. QED
      BY <2>1, <2>2, <2>3, <2>4, <2>5 DEF Carried
  <1>. QED
    BY <1>11, <1>12, <1>15, <1>16, <1>17, <1>18, <1>19, <1>20 DEF Core

LEMMA FinishedCore ==
  ASSUME AsyncAssumption, Core, NEW x \in Ctx, replies[x] # <<>>,
         NEW c \in Cmd, c = Head(replies[x]).cmd, Finished(x, c)
  PROVE  Core' /\ Carried(c)
  <1>. DEFINE ends(y, bye) == (IF bye THEN InMaps ELSE {}) \cup ({y} \ {None})
  <1>1. PICK y \in Cmd \cup {None}, reply \in {"data", "error", "OK"}, bye \in BOOLEAN :
          /\ con[c] \in {None, y} /\ \A z \in ends(y, bye) : Open(z)
          /\ y # con[c] => hops'[c] > 0
          /\ status' = Closing(x, ends(y, bye), Rest(x))
          /\ replies' = Rest(x)
          /\ heard' = [heard EXCEPT ![c] = Append(@, reply)]
          /\ obj' = [obj EXCEPT ![c] = "deleted"]
          /\ con' = [con EXCEPT ![c] = y]
          /\ IF bye THEN ClearMaps ELSE UNCHANGED <<nodes, connections>>
          /\ host' = host
    BY DEF Finished
  <1>2. /\ None \notin Cmd /\ None \notin SlotRange /\ SlotRange \cap Cmd = {}
        /\ host' = host
    BY <1>1 DEF AsyncAssumption
  <1>3. /\ c \in Cmd /\ obj[c] = "live" /\ Open(x)
        /\ replies' \in [Ctx -> Seq(Callback)]
        /\ \A z \in Ctx : z # x => replies'[z] = replies[z]
        /\ \A z \in Ctx : \A i \in 1..Len(replies'[z]) :
              /\ replies'[z][i].cmd \in Cmd \ {c}
              /\ \E k \in 1..Len(replies[z]) : replies[z][k] = replies'[z][i]
        /\ \A v, z \in Ctx : \A i \in 1..Len(replies'[v]), j \in 1..Len(replies'[z]) :
              replies'[v][i].cmd = replies'[z][j].cmd => v = z /\ i = j
        /\ \A d \in Cmd \ {c} : obj[d] = "live" =>
              \E z \in Ctx : \E i \in 1..Len(replies'[z]) : replies'[z][i].cmd = d
        /\ \A z \in Ctx : replies'[z] # <<>> => Open(z)
    <2>1. replies' = Rest(x)
      BY <1>1
    <2>2. ClientTypes /\ Registered
      BY DEF Core
    <2>3. Rest(x) \in [Ctx -> Seq(Callback)] /\ \A z \in Ctx : z # x => Rest(x)[z] = replies[z]
      BY <2>2, RestFacts
    <2>. DEFINE kept(q) ==
           /\ \A z \in Ctx : \A i \in 1..Len(q[z]) :
                 /\ q[z][i].cmd \in Cmd \ {c}
                 /\ \E k \in 1..Len(replies[z]) : replies[z][k] = q[z][i]
           /\ \A v, z \in Ctx : \A i \in 1..Len(q[v]), j \in 1..Len(q[z]) :
                 q[v][i].cmd = q[z][j].cmd => v = z /\ i = j
           /\ \A d \in Cmd \ {c} : obj[d] = "live" =>
                 \E z \in Ctx : \E i \in 1..Len(q[z]) : q[z][i].cmd = d
           /\ \A z \in Ctx : q[z] # <<>> => Open(z)
    <2>4. obj[c] = "live" /\ Open(x) /\ kept(Rest(x))
      BY <2>2, RestTokens
    <2>. HIDE DEF kept
    <2>5. kept(replies')
      BY <2>1, <2>4
    <2>6. replies' \in [Ctx -> Seq(Callback)] /\ \A z \in Ctx : z # x => replies'[z] = replies[z]
      BY <2>1, <2>3
    <2>. QED
      BY <2>4, <2>5, <2>6 DEF kept
  <1>4. /\ con \in [Cmd -> Cmd \cup {None}] /\ con'[c] = y
        /\ \A d \in Cmd : d # c => con'[d] = con[d]
        /\ con' \in [Cmd -> Cmd \cup {None}]
    BY <1>1 DEF Core, ClientTypes
  <1>5. /\ obj'[c] = "deleted" /\ \A d \in Cmd : d # c => obj'[d] = obj[d]
        /\ obj' \in [Cmd -> {"unused", "live", "deleted", "leaked"}]
    BY <1>1 DEF Core, ClientTypes
  <1>6. /\ \A d \in Cmd : d # c => heard'[d] = heard[d]
        /\ heard' \in [Cmd -> Seq({"data", "error", "OK"})]
    <2>1. heard \in [Cmd -> Seq({"data", "error", "OK"})]
      BY DEF Core, ClientTypes
    <2>2. Append(heard[c], reply) \in Seq({"data", "error", "OK"})
      BY <2>1
    <2>. QED
      BY <1>1, <2>1, <2>2
  <1>7. /\ ~bye => nodes' = nodes /\ connections' = connections
        /\ bye => nodes' = {} /\ \A h \in Host : connections'[h] = None
        /\ nodes' \subseteq SlotRange /\ connections' \in [Host -> Cmd \cup {None}]
        /\ \A h \in Host : connections'[h] \in {None, connections[h]}
    BY <1>1 DEF ClearMaps, Core, ClientTypes
  <1>. DEFINE E == ends(y, bye)
  <1>8. /\ y # None => y \in E
        /\ ~bye => E \subseteq Cmd
        /\ E \subseteq Ctx /\ \A z \in E : Open(z)
    BY <1>1, InMapsFacts DEF Ctx
  <1>9. /\ status' \in [Ctx -> Life]
        /\ \A z \in Ctx : status'[z] =
             IF z \in E \/ (z = x /\ status[x] = "closing")
             THEN IF replies'[z] = <<>> THEN "freed" ELSE "closing"
             ELSE status[z]
    BY <1>1 DEF Closing, Life, Core, ClientTypes
  <1>10. \A d \in Cmd : con[d] # None => con'[d] = con[d]
    BY <1>1, <1>4
  <1>. HIDE DEF E, ends
  <1>11. \A z \in Ctx : status'[z] \in {"unused", "live"} =>
            status[z] = status'[z] /\ z \notin E
    BY <1>9
  <1>12. \A z \in E : status[z] \in {"live", "closing"}
    BY <1>8 DEF Open
  <1>13. ClientTypes'
    BY <1>2, <1>3, <1>4, <1>5, <1>6, <1>7, <1>9 DEF Core, ClientTypes, Life
  <1>14. Registered'
    <2>1. \A z \in Ctx : replies'[z] # <<>> => Open(z)'
      <3>. SUFFICES ASSUME NEW z \in Ctx, replies'[z] # <<>>
                    PROVE  status'[z] \in {"live", "closing"}
        BY DEF Open
      <3>1. status[z] \in {"live", "closing"}
        BY <1>3 DEF Open
      <3>. QED
        BY <1>9, <3>1
    <2>2. \A z \in Ctx : \A i \in 1..Len(replies'[z]) : obj'[replies'[z][i].cmd] = "live"
      <3>. SUFFICES ASSUME NEW z \in Ctx, NEW i \in 1..Len(replies'[z])
                    PROVE  obj'[replies'[z][i].cmd] = "live"
        OBVIOUS
      <3>1. /\ replies'[z][i].cmd \in Cmd /\ replies'[z][i].cmd # c
            /\ \E k \in 1..Len(replies[z]) : replies[z][k] = replies'[z][i]
        BY <1>3
      <3>2. obj[replies'[z][i].cmd] = "live"
        BY <3>1 DEF Core, Registered
      <3>. QED
        BY <1>5, <3>1, <3>2
    <2>3. \A d \in Cmd : obj'[d] = "live" =>
             \E z \in Ctx : \E i \in 1..Len(replies'[z]) : replies'[z][i].cmd = d
      BY <1>3, <1>5
    <2>. QED
      BY <1>3, <2>1, <2>2, <2>3 DEF Registered
  <1>15. Placed'
    <2>1. ASSUME NEW z \in Ctx, NEW i \in 1..Len(replies'[z]),
                 NEW d, d = replies'[z][i].cmd
          PROVE  /\ d \in Cmd /\ con'[d] = con[d]
                 /\ z \in Cmd => con[d] = z
                 /\ z \in SlotRange =>
                      /\ replies'[z][i].what = "command"
                      /\ con[d] # None => status[con[d]] \notin {"live", "unused"}
      <3>1. d \in Cmd /\ d # c /\ \E k \in 1..Len(replies[z]) : replies[z][k] = replies'[z][i]
        BY <1>3, <2>1
      <3>. QED
        BY <1>4, <2>1, <3>1 DEF Core, Placed
    <2>2. ASSUME NEW z \in Cmd, NEW i \in 1..Len(replies'[z])
          PROVE  con'[replies'[z][i].cmd] = z
      BY <2>1 DEF Ctx
    <2>3. ASSUME NEW r \in SlotRange, NEW i \in 1..Len(replies'[r])
          PROVE  /\ replies'[r][i].what = "command"
                 /\ con'[replies'[r][i].cmd] # None =>
                      status'[con'[replies'[r][i].cmd]] \notin {"live", "unused"}
      <3>. DEFINE d == replies'[r][i].cmd
      <3>1. /\ d \in Cmd /\ con'[d] = con[d] /\ replies'[r][i].what = "command"
            /\ con[d] # None => status[con[d]] \notin {"live", "unused"}
        BY <2>1 DEF Ctx
      <3>2. con[d] # None => con[d] \in Ctx
        BY <1>4, <3>1 DEF Ctx
      <3>. QED
        BY <1>11, <3>1, <3>2
    <2>. QED
      BY <2>2, <2>3 DEF Placed
  <1>16. Linked'
    <2>. DEFINE used(z) == status[z] # "unused"
    <2>1. \A z \in Ctx : status'[z] # "unused" <=> used(z)
      BY <1>9, <1>12
    <2>2. /\ \A z \in Cmd : used(z) => con[z] = z /\ host[z] \in Host
          /\ \A d \in Cmd : con[d] # None => used(con[d])
          /\ \A h \in Host : connections[h] # None =>
               /\ used(connections[h]) /\ connections[h] \in Ctx
               /\ host[connections[h]] = h
      BY DEF Core, Linked, ClientTypes, Ctx
    <2>3. y # None => used(y) /\ y \in Ctx
      BY <1>8, <1>12
    <2>. HIDE DEF used
    <2>4. \A z \in Cmd : status'[z] # "unused" => con'[z] = z /\ host'[z] \in Host
      BY <1>2, <1>10, <2>1, <2>2 DEF Ctx
    <2>5. \A d \in Cmd : con'[d] # None => status'[con'[d]] # "unused"
      BY <1>4, <2>1, <2>2, <2>3 DEF Ctx
    <2>6. \A h \in Host : connections'[h] # None =>
             status'[connections'[h]] # "unused" /\ host'[connections'[h]] = h
      BY <1>2, <1>7, <2>1, <2>2
    <2>7. \A d \in Cmd : obj'[d] = "unused" => con'[d] = None
      BY <1>4, <1>5 DEF Core, Linked
    <2>. QED
      BY <2>4, <2>5, <2>6, <2>7 DEF Linked
  <1>17. ContextLife'
    <2>1. ClosingDrains'
      <3>. SUFFICES ASSUME NEW z \in Ctx, status'[z] = "closing"
                    PROVE  replies'[z] # <<>>
        BY DEF ClosingDrains
      <3>1. CASE z \in E \/ (z = x /\ status[x] = "closing")
        BY <1>9, <3>1
      <3>2. CASE ~(z \in E \/ (z = x /\ status[x] = "closing"))
        <4>1. status[z] = "closing" /\ z # x
          BY <1>9, <3>2
        <4>. QED
          BY <1>3, <4>1 DEF Core, ContextLife, ClosingDrains
      <3>. QED
        BY <3>1, <3>2
    <2>2. NoOrphan'
      <3>. SUFFICES ASSUME NEW z \in Cmd, status'[z] = "live"
                    PROVE  \E d \in Cmd : obj'[d] = "live" /\ con'[d] = z
        BY DEF NoOrphan
      <3>1. status[z] = "live" /\ z \notin E
        BY <1>11 DEF Ctx
      <3>2. PICK d \in Cmd : obj[d] = "live" /\ con[d] = z
        BY <3>1 DEF Core, ContextLife, NoOrphan
      <3>3. d # c
        BY <1>1, <1>2, <1>8, <3>1, <3>2
      <3>. QED
        BY <1>4, <1>5, <3>2, <3>3
    <2>3. NodesOpen'
      <3>1. CASE bye
        BY <1>7, <3>1 DEF NodesOpen
      <3>2. CASE ~bye
        <4>1. \A r \in nodes : r \in Ctx /\ r \notin E /\ status[r] \in {"live", "lost"}
          BY <1>2, <1>8, <3>2 DEF Core, ContextLife, NodesOpen, ClientTypes, Ctx
        <4>2. \A r \in nodes : status'[r] = status[r]
          BY <1>9, <4>1
        <4>. QED
          BY <1>7, <3>2, <4>1, <4>2 DEF NodesOpen
      <3>. QED
        BY <3>1, <3>2
    <2>. QED
      BY <2>1, <2>2, <2>3 DEF ContextLife
  <1>18. Ended'
    <2>. SUFFICES ASSUME NEW z \in Cmd, status'[z] \in {"closing", "freed"}
                  PROVE  (\E d \in Cmd : con'[d] = z /\ obj'[d] = "deleted") \/ connections'[host'[z]] # z
      BY DEF Ended
    <2>1. z = y => con'[c] = z /\ obj'[c] = "deleted"
      BY <1>4, <1>5
    <2>2. bye => connections'[host'[z]] # z
      <3>1. status[z] # "unused"
        BY <1>9, <1>12 DEF Ctx
      <3>2. host[z] \in Host
        BY <3>1 DEF Core, Linked
      <3>. QED
        BY <1>2, <1>7, <3>2
    <2>3. CASE ~bye /\ z # y
      <3>1. z \notin E
        BY <2>3 DEF E, ends
      <3>2. status[z] \in {"closing", "freed"}
        BY <1>9, <3>1 DEF Ctx
      <3>3. (\E d \in Cmd : con[d] = z /\ obj[d] = "deleted") \/ connections[host[z]] # z
        BY <3>2 DEF Core, Ended
      <3>4. \A d \in Cmd : obj[d] = "deleted" => con'[d] = con[d] /\ obj'[d] = obj[d]
        BY <1>3, <1>4, <1>5
      <3>. QED
        BY <1>2, <1>7, <2>3, <3>3, <3>4
    <2>. QED
      BY <2>1, <2>2, <2>3
  <1>19. Unheard'
    BY <1>5, <1>6 DEF Core, Unheard
  <1>20. Carried(c)
    <2>1. \A d \in Cmd : con'[d] = con[d] \/ (d = c /\ hops'[c] > 0)
      BY <1>1, <1>4
    <2>2. \A h \in Host, z \in Cmd : connections'[h] = z => connections[h] = z
      BY <1>2, <1>7
    <2>3. \A z \in Ctx : host'[z] = host[z]
      BY <1>2
    <2>4. \A z \in Ctx : \A i \in 1..Len(replies'[z]) :
             /\ replies'[z][i].cmd \in Cmd \ {c}
             /\ \E k \in 1..Len(replies[z]) : replies[z][k] = replies'[z][i]
      BY <1>3
    <2>. QED
      BY <1>10, <2>1, <2>2, <2>3, <2>4 DEF Carried
  <1>. QED
    BY <1>13, <1>14, <1>15, <1>16, <1>17, <1>18, <1>19, <1>20 DEF Core

LEMMA DiedCore ==
  ASSUME Core, UNCHANGED <<clientVars, host>>
  PROVE  Core'
  <1>1. /\ status' = status /\ host' = host /\ replies' = replies /\ nodes' = nodes
        /\ connections' = connections /\ obj' = obj /\ con' = con /\ heard' = heard
    BY DEF clientVars
  <1>2. ClientTypes'
    BY <1>1 DEF Core, ClientTypes
  <1>3. Registered'
    BY <1>1 DEF Core, Registered, Open
  <1>4. Placed' /\ Linked' /\ Ended' /\ Unheard'
    BY <1>1 DEF Core, Placed, Linked, Ended, Unheard
  <1>5. ContextLife'
    BY <1>1 DEF Core, ContextLife, ClosingDrains, NoOrphan, NodesOpen
  <1>. QED
    BY <1>2, <1>3, <1>4, <1>5 DEF Core

LEMMA AcceptedCore ==
  ASSUME AsyncAssumption, Core, Accepted, UNCHANGED host
  PROVE  Core'
  <1>1. PICK c \in Cmd, r \in nodes :
          /\ obj[c] = "unused" /\ status[r] = "live"
          /\ obj' = [obj EXCEPT ![c] = "live"]
          /\ replies' = [replies EXCEPT ![r] = Append(@, [cmd |-> c, what |-> "command"])]
          /\ UNCHANGED <<status, nodes, connections, con, heard>>
    BY DEF Accepted
  <1>. DEFINE cb == [cmd |-> c, what |-> "command"]
              old(z, i) == i \in 1..Len(replies[z]) /\ replies'[z][i] = replies[z][i]
              new(z, i) == z = r /\ i = Len(replies[r]) + 1 /\ replies'[z][i] = cb
  <1>2. /\ status' = status /\ nodes' = nodes /\ connections' = connections /\ con' = con
        /\ heard' = heard /\ host' = host
    BY <1>1
  <1>3. /\ obj'[c] = "live" /\ \A d \in Cmd : d # c => obj'[d] = obj[d]
        /\ obj' \in [Cmd -> {"unused", "live", "deleted", "leaked"}]
    BY <1>1 DEF Core, ClientTypes
  <1>4. /\ r \in SlotRange /\ r \in Ctx /\ r \notin Cmd /\ None \notin SlotRange
        /\ cb \in Callback /\ cb.cmd = c /\ cb.what = "command"
    BY DEF Core, ClientTypes, Ctx, AsyncAssumption, Callback, What
  <1>5. status[r] = "live" /\ obj[c] = "unused" /\ con[c] = None
    BY <1>1 DEF Core, Linked
  <1>6. /\ replies' \in [Ctx -> Seq(Callback)]
        /\ \A z \in Ctx : \A i \in 1..Len(replies'[z]) : old(z, i) \/ new(z, i)
        /\ \A z \in Ctx : \A i \in 1..Len(replies[z]) :
              i \in 1..Len(replies'[z]) /\ replies'[z][i] = replies[z][i]
        /\ Len(replies[r]) + 1 \in 1..Len(replies'[r])
        /\ replies'[r][Len(replies[r]) + 1] = cb
        /\ replies'[r] # <<>>
        /\ \A z \in Ctx : z # r => replies'[z] = replies[z]
    <2>1. PICK q : q = replies'
      OBVIOUS
    <2>2. q = [replies EXCEPT ![r] = Append(@, cb)] /\ replies \in [Ctx -> Seq(Callback)]
      BY <1>1, <2>1 DEF Core, ClientTypes
    <2>. HIDE DEF cb
    <2>3. /\ q \in [Ctx -> Seq(Callback)]
          /\ \A z \in Ctx : \A i \in 1..Len(q[z]) :
               \/ i \in 1..Len(replies[z]) /\ q[z][i] = replies[z][i]
               \/ z = r /\ i = Len(replies[r]) + 1 /\ q[z][i] = cb
          /\ \A z \in Ctx : \A i \in 1..Len(replies[z]) :
               i \in 1..Len(q[z]) /\ q[z][i] = replies[z][i]
          /\ Len(replies[r]) + 1 \in 1..Len(q[r]) /\ q[r][Len(replies[r]) + 1] = cb
          /\ q[r] # <<>>
          /\ \A z \in Ctx : z # r => q[z] = replies[z]
      BY <1>4, <2>2, AddedFacts
    <2>. QED
      BY <2>1, <2>3, Zenon
  <1>. HIDE DEF cb
  <1>7. \A z \in Ctx : \A i \in 1..Len(replies[z]) : replies[z][i].cmd # c
    <2>1. \A z \in Ctx : \A i \in 1..Len(replies[z]) : obj[replies[z][i].cmd] = "live"
      BY DEF Core, Registered
    <2>. QED
      BY <1>5, <2>1
  <1>8. ClientTypes'
    BY <1>2, <1>3, <1>6 DEF Core, ClientTypes
  <1>9. Registered'
    <2>1. \A z \in Ctx : replies'[z] # <<>> => Open(z)'
      <3>1. \A z \in Ctx : replies'[z] # <<>> => Open(z)
        BY <1>5, <1>6 DEF Core, Registered, Open
      <3>. QED
        BY <1>2, <3>1 DEF Open
    <2>2. \A y, z \in Ctx : \A i \in 1..Len(replies'[y]), j \in 1..Len(replies'[z]) :
             replies'[y][i].cmd = replies'[z][j].cmd => y = z /\ i = j
      <3>. SUFFICES ASSUME NEW y \in Ctx, NEW z \in Ctx,
                           NEW i \in 1..Len(replies'[y]), NEW j \in 1..Len(replies'[z]),
                           replies'[y][i].cmd = replies'[z][j].cmd
                    PROVE  y = z /\ i = j
        OBVIOUS
      <3>1. (old(y, i) \/ new(y, i)) /\ (old(z, j) \/ new(z, j))
        BY <1>6
      <3>2. ASSUME old(y, i), old(z, j)
            PROVE  y = z /\ i = j
        BY <3>2 DEF Core, Registered
      <3>3. ASSUME old(y, i), new(z, j)
            PROVE  FALSE
        BY <1>4, <1>7, <3>3
      <3>4. ASSUME new(y, i), old(z, j)
            PROVE  FALSE
        BY <1>4, <1>7, <3>4
      <3>5. CASE new(y, i) /\ new(z, j)
        BY <3>5
      <3>. HIDE DEF old, new
      <3>. QED
        BY <3>1, <3>2, <3>3, <3>4, <3>5
    <2>3. \A z \in Ctx : \A i \in 1..Len(replies'[z]) : obj'[replies'[z][i].cmd] = "live"
      <3>. SUFFICES ASSUME NEW z \in Ctx, NEW i \in 1..Len(replies'[z])
                    PROVE  obj'[replies'[z][i].cmd] = "live"
        OBVIOUS
      <3>1. CASE new(z, i)
        BY <1>3, <1>4, <3>1
      <3>2. CASE old(z, i)
        <4>1. obj[replies[z][i].cmd] = "live" /\ replies[z][i].cmd \in Cmd
          <5>1. replies[z] \in Seq(Callback) /\ i \in 1..Len(replies[z])
            BY <3>2 DEF Core, ClientTypes
          <5>2. replies[z][i] \in Callback
            BY <5>1
          <5>. QED
            BY <5>1, <5>2 DEF Core, Registered, Callback
        <4>. QED
          BY <1>3, <1>5, <3>2, <4>1
      <3>. HIDE DEF old, new
      <3>. QED
        BY <1>6, <3>1, <3>2
    <2>4. \A d \in Cmd : obj'[d] = "live" =>
             \E z \in Ctx : \E i \in 1..Len(replies'[z]) : replies'[z][i].cmd = d
      <3>. SUFFICES ASSUME NEW d \in Cmd, obj'[d] = "live"
                    PROVE  \E z \in Ctx : \E i \in 1..Len(replies'[z]) : replies'[z][i].cmd = d
        OBVIOUS
      <3>1. CASE d = c
        BY <1>4, <1>6, <3>1
      <3>2. CASE d # c
        <4>1. PICK z \in Ctx : \E i \in 1..Len(replies[z]) : replies[z][i].cmd = d
          BY <1>3, <3>2 DEF Core, Registered
        <4>2. PICK i \in 1..Len(replies[z]) : replies[z][i].cmd = d
          BY <4>1
        <4>3. i \in 1..Len(replies'[z]) /\ replies'[z][i].cmd = d
          BY <1>6, <4>2
        <4>. QED
          BY <4>3
      <3>. QED
        BY <3>1, <3>2
    <2>. QED
      BY <2>1, <2>2, <2>3, <2>4 DEF Registered
  <1>10. Placed'
    <2>1. ASSUME NEW z \in Cmd, NEW i \in 1..Len(replies'[z])
          PROVE  con'[replies'[z][i].cmd] = z
      <3>1. z \in Ctx /\ z # r
        BY <1>4 DEF Ctx
      <3>2. replies'[z] = replies[z]
        BY <1>6, <3>1
      <3>. QED
        BY <1>2, <3>2 DEF Core, Placed
    <2>2. ASSUME NEW s \in SlotRange, NEW i \in 1..Len(replies'[s])
          PROVE  /\ replies'[s][i].what = "command"
                 /\ con'[replies'[s][i].cmd] # None =>
                      status'[con'[replies'[s][i].cmd]] \notin {"live", "unused"}
      <3>1. CASE new(s, i)
        BY <1>2, <1>4, <1>5, <3>1
      <3>2. CASE old(s, i)
        BY <1>2, <3>2 DEF Core, Placed
      <3>. HIDE DEF old, new
      <3>. QED
        BY <1>6, <3>1, <3>2 DEF Ctx
    <2>. QED
      BY <2>1, <2>2 DEF Placed
  <1>11. Linked'
    <2>1. \A d \in Cmd : obj'[d] = "unused" => con'[d] = None
      BY <1>2, <1>3 DEF Core, Linked
    <2>. QED
      BY <1>2, <2>1 DEF Core, Linked
  <1>12. ContextLife'
    <2>1. ClosingDrains'
      BY <1>2, <1>6 DEF Core, ContextLife, ClosingDrains
    <2>2. NoOrphan'
      BY <1>2, <1>3, <1>5 DEF Core, ContextLife, NoOrphan
    <2>3. NodesOpen'
      BY <1>2 DEF Core, ContextLife, NodesOpen
    <2>. QED
      BY <2>1, <2>2, <2>3 DEF ContextLife
  <1>13. Ended'
    <2>1. \A d \in Cmd : obj[d] = "deleted" => obj'[d] = "deleted"
      BY <1>3, <1>5
    <2>. QED
      BY <1>2, <2>1 DEF Core, Ended
  <1>14. Unheard'
    <2>1. \A d \in Cmd : obj'[d] \in {"unused", "live"} => obj[d] \in {"unused", "live"}
      BY <1>3, <1>5
    <2>. QED
      BY <1>2, <2>1 DEF Core, Unheard
  <1>. QED
    BY <1>8, <1>9, <1>10, <1>11, <1>12, <1>13, <1>14 DEF Core

LEMMA LeakedCore ==
  ASSUME Core, Leaked, UNCHANGED host
  PROVE  Core'
  <1>1. PICK c \in Cmd :
          /\ obj[c] = "unused" /\ obj' = [obj EXCEPT ![c] = "leaked"]
          /\ UNCHANGED <<status, replies, nodes, connections, con, heard>>
    BY DEF Leaked
  <1>2. /\ status' = status /\ nodes' = nodes /\ connections' = connections /\ con' = con
        /\ heard' = heard /\ host' = host /\ replies' = replies
    BY <1>1
  <1>3. /\ obj' \in [Cmd -> {"unused", "live", "deleted", "leaked"}]
        /\ \A d \in Cmd : \A s \in {"unused", "live"} : obj'[d] = s => obj[d] = s
        /\ \A d \in Cmd : \A s \in {"live", "deleted"} : obj[d] = s => obj'[d] = s
    BY <1>1 DEF Core, ClientTypes
  <1>4. ClientTypes'
    BY <1>2, <1>3 DEF Core, ClientTypes
  <1>5. Registered'
    <2>1. \A z \in Ctx : \A i \in 1..Len(replies[z]) : obj'[replies[z][i].cmd] = "live"
      <3>. SUFFICES ASSUME NEW z \in Ctx, NEW i \in 1..Len(replies[z])
                    PROVE  obj'[replies[z][i].cmd] = "live"
        OBVIOUS
      <3>1. replies[z] \in Seq(Callback)
        BY DEF Core, ClientTypes
      <3>2. replies[z][i] \in Callback
        BY <3>1
      <3>3. obj[replies[z][i].cmd] = "live" /\ replies[z][i].cmd \in Cmd
        BY <3>2 DEF Core, Registered, Callback
      <3>. QED
        BY <1>3, <3>3
    <2>2. \A d \in Cmd : obj'[d] = "live" =>
             \E z \in Ctx : \E i \in 1..Len(replies[z]) : replies[z][i].cmd = d
      BY <1>3 DEF Core, Registered
    <2>. QED
      BY <1>2, <2>1, <2>2 DEF Core, Registered, Open
  <1>6. Placed'
    BY <1>2 DEF Core, Placed
  <1>7. Linked'
    BY <1>2, <1>3 DEF Core, Linked
  <1>8. ContextLife'
    BY <1>2, <1>3 DEF Core, ContextLife, ClosingDrains, NoOrphan, NodesOpen
  <1>9. Ended'
    BY <1>2, <1>3 DEF Core, Ended
  <1>10. Unheard'
    BY <1>2, <1>3 DEF Core, Unheard
  <1>. QED
    BY <1>4, <1>5, <1>6, <1>7, <1>8, <1>9, <1>10 DEF Core

(* Contexts that close or are lost without a callback being called.        *)
LEMMA QuietCore ==
  ASSUME AsyncAssumption, Core, UNCHANGED <<replies, con, obj, heard, host>>,
         status' \in [Ctx -> Life],
         \A z \in Ctx : status'[z] = "live" => status[z] = "live",
         \A z \in Ctx : status'[z] = "unused" <=> status[z] = "unused",
         \A z \in Ctx : replies[z] # <<>> /\ Open(z) => status'[z] \in {"live", "closing"},
         \A z \in Ctx : status'[z] = "closing" => replies[z] # <<>>,
         \A z \in Ctx : status[z] \in {"closing", "freed", "lost"} =>
                          status'[z] \in {"closing", "freed", "lost"},
         nodes' \subseteq nodes, \A r \in nodes' : status'[r] \in {"live", "lost"},
         connections' \in [Host -> Cmd \cup {None}],
         \A h \in Host : connections'[h] \in {None, connections[h]},
         \A z \in Cmd : status'[z] \in {"closing", "freed"} =>
           status[z] \in {"closing", "freed"} \/ \A h \in Host : connections'[h] = None
  PROVE  Core'
  <1>1. /\ con' = con /\ heard' = heard /\ host' = host /\ replies' = replies /\ obj' = obj
        /\ None \notin Cmd
    BY DEF AsyncAssumption
  <1>2. ClientTypes'
    BY <1>1 DEF Core, ClientTypes, Life
  <1>3. Registered'
    <2>1. \A z \in Ctx : replies[z] # <<>> => status'[z] \in {"live", "closing"}
      BY DEF Core, Registered
    <2>. QED
      BY <1>1, <2>1 DEF Core, Registered, Open
  <1>4. Placed'
    <2>1. \A k \in Cmd \cup {None} : k # None /\ status[k] \notin {"live", "unused"} =>
             status'[k] \notin {"live", "unused"}
      BY DEF Ctx
    <2>2. ASSUME NEW s \in SlotRange, NEW i \in 1..Len(replies[s])
          PROVE  /\ replies[s][i].what = "command"
                 /\ con[replies[s][i].cmd] # None =>
                      status'[con[replies[s][i].cmd]] \notin {"live", "unused"}
      <3>1. replies[s] \in Seq(Callback)
        BY DEF Core, ClientTypes, Ctx
      <3>2. replies[s][i] \in Callback
        BY <3>1
      <3>3. con[replies[s][i].cmd] \in Cmd \cup {None}
        BY <3>2 DEF Core, ClientTypes, Callback
      <3>. QED
        BY <2>1, <3>3 DEF Core, Placed
    <2>. QED
      BY <1>1, <2>2 DEF Core, Placed
  <1>5. Linked'
    <2>1. \A z \in Cmd : status'[z] # "unused" => con[z] = z /\ host[z] \in Host
      BY DEF Core, Linked, Ctx
    <2>2. \A d \in Cmd : con[d] # None => status'[con[d]] # "unused"
      <3>1. \A d \in Cmd : con[d] # None => con[d] \in Ctx /\ status[con[d]] # "unused"
        BY DEF Core, Linked, ClientTypes, Ctx
      <3>. QED
        BY <3>1
    <2>3. \A h \in Host : connections'[h] # None =>
             status'[connections'[h]] # "unused" /\ host[connections'[h]] = h
      <3>1. \A h \in Host : connections[h] # None =>
               /\ connections[h] \in Ctx /\ status[connections[h]] # "unused"
               /\ host[connections[h]] = h
        BY DEF Core, Linked, ClientTypes, Ctx
      <3>. QED
        BY <3>1
    <2>. QED
      BY <1>1, <2>1, <2>2, <2>3 DEF Core, Linked
  <1>6. ContextLife'
    <2>1. ClosingDrains'
      BY <1>1 DEF ClosingDrains
    <2>2. NoOrphan'
      BY <1>1 DEF Core, ContextLife, NoOrphan, Ctx
    <2>3. NodesOpen'
      BY DEF NodesOpen
    <2>. QED
      BY <2>1, <2>2, <2>3 DEF ContextLife
  <1>7. Ended'
    <2>. SUFFICES ASSUME NEW z \in Cmd, status'[z] \in {"closing", "freed"}
                  PROVE  (\E d \in Cmd : con[d] = z /\ obj[d] = "deleted") \/ connections'[host[z]] # z
      BY <1>1 DEF Ended
    <2>1. host[z] \in Host
      BY DEF Core, Linked, Ctx
    <2>2. CASE \A h \in Host : connections'[h] = None
      BY <1>1, <2>1, <2>2
    <2>3. CASE status[z] \in {"closing", "freed"}
      BY <1>1, <2>1, <2>3 DEF Core, Ended
    <2>. QED
      BY <2>2, <2>3
  <1>8. Unheard'
    BY <1>1 DEF Core, Unheard
  <1>. QED
    BY <1>2, <1>3, <1>4, <1>5, <1>6, <1>7, <1>8 DEF Core

LEMMA MapsClosedCore ==
  ASSUME AsyncAssumption, Core, MapsClosed, UNCHANGED host
  PROVE  Core'
  <1>1. /\ UNCHANGED <<replies, con, obj, heard, host>>
        /\ nodes' = {} /\ connections' = [h \in Host |-> None]
    BY DEF MapsClosed, ClearMaps
  <1>2. /\ status \in [Ctx -> Life] /\ status' \in [Ctx -> Life]
        /\ \A z \in Ctx : status'[z] =
             IF z \in InMaps THEN IF replies[z] = <<>> THEN "freed" ELSE "closing"
             ELSE status[z]
    BY DEF MapsClosed, Closing, Core, ClientTypes, Life, Ctx, AsyncAssumption
  <1>3. \A z \in InMaps : status[z] \in {"live", "closing"}
    BY DEF MapsClosed, Open
  <1>4. \A z \in Ctx : status[z] = "closing" => replies[z] # <<>>
    BY DEF Core, ContextLife, ClosingDrains
  <1>5. /\ \A z \in Ctx : status'[z] = "live" => status[z] = "live"
        /\ \A z \in Ctx : status'[z] = "unused" <=> status[z] = "unused"
        /\ \A z \in Ctx : replies[z] # <<>> /\ Open(z) => status'[z] \in {"live", "closing"}
        /\ \A z \in Ctx : status'[z] = "closing" => replies[z] # <<>>
        /\ \A z \in Ctx : status[z] \in {"closing", "freed", "lost"} =>
                            status'[z] \in {"closing", "freed", "lost"}
    BY <1>2, <1>3, <1>4 DEF Open
  <1>6. /\ connections' \in [Host -> Cmd \cup {None}]
        /\ \A h \in Host : connections'[h] = None
    BY <1>1
  <1>. QED
    BY <1>1, <1>2, <1>5, <1>6, QuietCore

LEMMA LostCore ==
  ASSUME AsyncAssumption, Core, Lost, UNCHANGED host
  PROVE  Core'
  <1>1. PICK x \in Ctx :
          /\ Open(x) /\ replies[x] = <<>>
          /\ status' = [status EXCEPT ![x] = "lost"]
          /\ UNCHANGED <<replies, nodes, connections, obj, con, heard>>
    BY DEF Lost
  <1>2. UNCHANGED <<replies, con, obj, heard, host>> /\ nodes' = nodes /\ connections' = connections
    BY <1>1
  <1>3. /\ status \in [Ctx -> Life] /\ status' \in [Ctx -> Life]
        /\ \A z \in Ctx : status'[z] = IF z = x THEN "lost" ELSE status[z]
        /\ status[x] \in {"live", "closing"} /\ replies[x] = <<>>
    BY <1>1 DEF Core, ClientTypes, Life, Open
  <1>4. \A z \in Ctx : status[z] = "closing" => replies[z] # <<>>
    BY DEF Core, ContextLife, ClosingDrains
  <1>5. /\ \A z \in Ctx : status'[z] = "live" => status[z] = "live"
        /\ \A z \in Ctx : status'[z] = "unused" <=> status[z] = "unused"
        /\ \A z \in Ctx : replies[z] # <<>> /\ Open(z) => status'[z] \in {"live", "closing"}
        /\ \A z \in Ctx : status'[z] = "closing" => replies[z] # <<>>
        /\ \A z \in Ctx : status[z] \in {"closing", "freed", "lost"} =>
                            status'[z] \in {"closing", "freed", "lost"}
    BY <1>3, <1>4 DEF Open
  <1>6. /\ connections' \in [Host -> Cmd \cup {None}]
        /\ \A h \in Host : connections'[h] \in {None, connections[h]}
        /\ \A r \in nodes' : status'[r] \in {"live", "lost"}
    BY <1>2, <1>3 DEF Core, ClientTypes, ContextLife, NodesOpen, Ctx
  <1>7. \A z \in Cmd : status'[z] \in {"closing", "freed"} => status[z] \in {"closing", "freed"}
    BY <1>3 DEF Ctx
  <1>. QED
    BY <1>2, <1>3, <1>5, <1>6, <1>7, QuietCore

-----------------------------------------------------------------------------
(* What the nodes and the users of commands see.                           *)

(* AskingLostToOthers for every command behind its ASKING, wherever it     *)
(* stands among the callbacks of its context.                              *)
Asked ==
  crashed = "no" =>
  \A x \in Ctx : \A i \in 1..Len(replies[x]) : replies[x][i].what = "asked" =>
    asking[x] \/ \E d \in Cmd : d # replies[x][i].cmd /\ con[d] = x

Unserved ==
  crashed = "no" => \A c \in Cmd : obj[c] \in {"unused", "live"} => served[c] = 0

(* AskingReplyCause, and the connection it speaks of exists.               *)
Reported == AskingReplyCause /\ \A c \in Cmd : heard[c] = <<"OK">> => con[c] # None

Ghosts ==
  ServerTypes /\ Asked /\ Unconnected /\ Unserved /\ FirstMovedFollowed
  /\ UseAfterFreeCause /\ Reported

IInv == Core /\ Ghosts

LEMMA CarriedGhosts ==
  ASSUME AsyncAssumption, Core, Core', Asked, Unconnected, FirstMovedFollowed, crashed = "no",
         NEW x \in Ctx, replies[x] # <<>>, NEW c \in Cmd, c = Head(replies[x]).cmd,
         ServerTypes, Turn(x, c), Carried(c)
  PROVE  Asked' /\ Unconnected' /\ FirstMovedFollowed'
  <1>. DEFINE old(z, i) == /\ replies'[z][i].cmd \in Cmd \ {c}
                           /\ \E k \in 1..Len(replies[z]) : replies[z][k] = replies'[z][i]
              new(z, i) == /\ replies'[z][i].cmd = c
                           /\ replies'[z][i].what = "asked" => asking'[z]
                           /\ replies'[z][i].what = "moved" /\ hops'[c] < 2 => host'[z] = told'[c]
  <1>1. /\ \A d \in Cmd : con[d] # None => con'[d] = con[d]
        /\ \A d \in Cmd : con'[d] = con[d] \/ (d = c /\ hops'[c] > 0)
        /\ \A z \in Ctx : status[z] # "unused" => host'[z] = host[z]
        /\ \A z \in Ctx : \A i \in 1..Len(replies'[z]) : old(z, i) \/ new(z, i)
    BY DEF Carried
  <1>2. /\ \A z \in Ctx : z # x => asking'[z] = asking[z]
        /\ \A d \in Cmd : d # c => hops'[d] = hops[d] /\ told'[d] = told[d]
        /\ hops'[c] >= hops[c] /\ hops[c] \in Nat /\ hops'[c] \in Nat
    BY DEF Turn, ServerTypes, AsyncAssumption
  <1>3. x \in Cmd => con[c] = x
    BY HeadFacts
  <1>4. None \notin Cmd
    BY DEF AsyncAssumption
  <1>. HIDE DEF old, new
  <1>5. Asked'
    <2>. SUFFICES ASSUME NEW z \in Ctx, NEW i \in 1..Len(replies'[z]),
                         replies'[z][i].what = "asked"
                  PROVE  asking'[z] \/ \E d \in Cmd : d # replies'[z][i].cmd /\ con'[d] = z
      BY DEF Asked
    <2>1. CASE new(z, i)
      BY <2>1 DEF new
    <2>2. CASE old(z, i)
      <3>. DEFINE e == replies'[z][i]
      <3>1. PICK k \in 1..Len(replies[z]) : replies[z][k] = e
        BY <2>2 DEF old
      <3>2. e.cmd # c
        BY <2>2 DEF old
      <3>3. asking[z] \/ \E d \in Cmd : d # e.cmd /\ con[d] = z
        BY <3>1 DEF Asked
      <3>4. z \in Cmd
        BY <3>1 DEF Core, Placed, Ctx
      <3>5. CASE z = x
        BY <1>1, <1>3, <1>4, <3>2, <3>4, <3>5
      <3>6. CASE z # x
        BY <1>1, <1>2, <1>4, <3>3, <3>4, <3>6
      <3>. QED
        BY <3>5, <3>6
    <2>. QED
      BY <1>1, <2>1, <2>2
  <1>6. Unconnected'
    <2>. SUFFICES ASSUME NEW d \in Cmd, hops'[d] = 0
                  PROVE  con'[d] = None
      BY DEF Unconnected
    <2>1. hops[d] = 0
      BY <1>2
    <2>2. con[d] = None
      BY <2>1 DEF Unconnected
    <2>. QED
      BY <1>1, <2>2
  <1>7. FirstMovedFollowed'
    <2>0. \A z \in Ctx : DOMAIN replies[z] = 1..Len(replies[z])
                         /\ DOMAIN replies'[z] = 1..Len(replies'[z])
      <3>1. replies \in [Ctx -> Seq(Callback)] /\ replies' \in [Ctx -> Seq(Callback)]
        BY DEF Core, ClientTypes
      <3>. QED
        BY <3>1
    <2>. SUFFICES ASSUME NEW z \in Ctx, NEW i \in DOMAIN replies'[z],
                         replies'[z][i].what = "moved", hops'[replies'[z][i].cmd] < 2
                  PROVE  host'[z] = told'[replies'[z][i].cmd]
      BY DEF FirstMovedFollowed
    <2>1. i \in 1..Len(replies'[z])
      BY <2>0
    <2>2. CASE new(z, i)
      BY <2>2 DEF new
    <2>3. CASE old(z, i)
      <3>. DEFINE e == replies'[z][i]
      <3>1. PICK k \in 1..Len(replies[z]) : replies[z][k] = e
        BY <2>3 DEF old
      <3>2. e.cmd \in Cmd /\ e.cmd # c
        BY <2>3 DEF old
      <3>3. hops[e.cmd] < 2 /\ told'[e.cmd] = told[e.cmd]
        BY <1>2, <3>2
      <3>4. host[z] = told[e.cmd]
        <4>1. k \in DOMAIN replies[z]
          BY <2>0
        <4>2. replies[z][k].what = "moved" /\ hops[replies[z][k].cmd] < 2
          BY <3>1, <3>3
        <4>3. host[z] = told[replies[z][k].cmd]
          BY <4>1, <4>2 DEF FirstMovedFollowed
        <4>. QED
          BY <3>1, <4>3
      <3>5. replies[z] # <<>>
        <4>1. replies[z] \in Seq(Callback)
          BY DEF Core, ClientTypes
        <4>. QED
          BY <3>1, <4>1
      <3>6. status[z] # "unused"
        BY <3>5 DEF Core, Registered, Open
      <3>. QED
        BY <1>1, <3>3, <3>4, <3>6
    <2>. QED
      BY <1>1, <2>1, <2>2, <2>3
  <1>. QED
    BY <1>5, <1>6, <1>7

(* A report of an ASKING's OK that was made stays explained.               *)
LEMMA ReportKept ==
  ASSUME AsyncAssumption, Core, Reported, NEW c \in Cmd, heard[c] = <<"OK">>,
         \A d \in Cmd : con[d] # None => con'[d] = con[d],
         \A d \in Cmd : obj[d] = "deleted" => obj'[d] = "deleted",
         \A z \in Ctx : status[z] # "unused" => host'[z] = host[z],
         \A h \in Host, z \in Cmd :
           status[z] # "unused" /\ connections'[h] = z => connections[h] = z
  PROVE  /\ con'[c] # None
         /\ \/ \E d \in Cmd : d # c /\ con'[d] = con'[c] /\ obj'[d] = "deleted"
            \/ connections'[host'[con'[c]]] # con'[c]
  <1>1. con[c] \in Cmd /\ con[c] # None /\ con'[c] = con[c]
    BY DEF Reported, Core, ClientTypes
  <1>2. status[con[c]] # "unused" /\ host[con[c]] \in Host /\ host'[con[c]] = host[con[c]]
    BY <1>1 DEF Core, Linked, Ctx
  <1>3. CASE \E d \in Cmd : d # c /\ con[d] = con[c] /\ obj[d] = "deleted"
    BY <1>1, <1>3
  <1>4. CASE connections[host[con[c]]] # con[c]
    BY <1>1, <1>2, <1>4
  <1>. QED
    BY <1>1, <1>3, <1>4 DEF Reported, AskingReplyCause

LEMMA SentGhosts ==
  ASSUME AsyncAssumption, Core, Core', Ghosts, crashed = "no",
         NEW x \in Ctx, replies[x] # <<>>, NEW c \in Cmd, c = Head(replies[x]).cmd,
         Turn(x, c), Sent(x, c) \/ Joined(x, c), Carried(c)
  PROVE  Ghosts'
  <1>1. obj' = obj /\ heard' = heard /\ served' = served /\ crashed' = "no"
    BY DEF Sent, Send, Joined, CreateNewConnection
  <1>2. ServerTypes'
    BY <1>1 DEF Ghosts, ServerTypes, Turn
  <1>3. Asked' /\ Unconnected' /\ FirstMovedFollowed'
    BY CarriedGhosts DEF Ghosts
  <1>4. Unserved' /\ UseAfterFreeCause'
    BY <1>1 DEF Ghosts, Unserved, UseAfterFreeCause
  <1>5. Reported'
    <2>. SUFFICES ASSUME NEW d \in Cmd, heard[d] = <<"OK">>
                  PROVE  /\ con'[d] # None
                         /\ \/ \E e \in Cmd : e # d /\ con'[e] = con'[d] /\ obj'[e] = "deleted"
                            \/ connections'[host'[con'[d]]] # con'[d]
      BY <1>1 DEF Reported, AskingReplyCause
    <2>. QED
      BY <1>1, ReportKept DEF Carried, Ghosts
  <1>. QED
    BY <1>2, <1>3, <1>4, <1>5 DEF Ghosts

LEMMA FinishedGhosts ==
  ASSUME AsyncAssumption, Core, Core', Ghosts, crashed = "no",
         NEW x \in Ctx, replies[x] # <<>>, NEW c \in Cmd, c = Head(replies[x]).cmd,
         Turn(x, c), Finished(x, c), Carried(c)
  PROVE  Ghosts'
  <1>1. PICK reply \in {"data", "error", "OK"} :
          /\ heard' = [heard EXCEPT ![c] = Append(@, reply)]
          /\ obj' = [obj EXCEPT ![c] = "deleted"]
          /\ crashed' = "no"
          /\ served' = IF reply = "data" THEN [served EXCEPT ![c] = @ + 1] ELSE served
          /\ reply = "OK" => x \in Cmd /\ con[c] = x /\ status[x] = "closing"
    BY DEF Finished
  <1>2. obj[c] = "live" /\ heard[c] = <<>>
    BY RestTokens DEF Core, Unheard
  <1>3. /\ obj'[c] = "deleted" /\ \A d \in Cmd : d # c => obj'[d] = obj[d]
        /\ \A d \in Cmd : obj[d] = "deleted" => obj'[d] = "deleted"
    BY <1>1 DEF Core, ClientTypes
  <1>4. \A d \in Cmd : d # c => heard'[d] = heard[d]
    BY <1>1 DEF Core, ClientTypes
  <1>5. heard'[c] = <<"OK">> => reply = "OK"
    <2>1. heard'[c] = <<reply>>
      BY <1>1, <1>2 DEF Core, ClientTypes
    <2>2. <<reply>>[1] = reply /\ <<"OK">>[1] = "OK"
      OBVIOUS
    <2>. QED
      BY <2>1, <2>2
  <1>6. served' \in [Cmd -> Nat] /\ \A d \in Cmd : d # c => served'[d] = served[d]
    <2>1. served \in [Cmd -> Nat]
      BY DEF Ghosts, ServerTypes
    <2>2. CASE reply = "data"
      BY <1>1, <2>1, <2>2
    <2>3. CASE reply # "data"
      BY <1>1, <2>1, <2>3
    <2>. QED
      BY <2>2, <2>3
  <1>7. ServerTypes'
    BY <1>1, <1>6 DEF Ghosts, ServerTypes, Turn
  <1>8. Asked' /\ Unconnected' /\ FirstMovedFollowed'
    BY CarriedGhosts DEF Ghosts
  <1>9. Unserved' /\ UseAfterFreeCause'
    BY <1>1, <1>3, <1>6 DEF Ghosts, Unserved, UseAfterFreeCause
  <1>10. Reported'
    <2>. SUFFICES ASSUME NEW d \in Cmd, heard'[d] = <<"OK">>
                  PROVE  /\ con'[d] # None
                         /\ \/ \E e \in Cmd : e # d /\ con'[e] = con'[d] /\ obj'[e] = "deleted"
                            \/ connections'[host'[con'[d]]] # con'[d]
      BY DEF Reported, AskingReplyCause
    <2>1. CASE d # c
      BY <1>3, <1>4, <2>1, ReportKept DEF Carried, Ghosts
    <2>2. CASE d = c
      <3>1. x \in Cmd /\ con[c] = x /\ status[x] = "closing" /\ None \notin Cmd
        BY <1>1, <1>5, <2>2 DEF AsyncAssumption
      <3>2. con'[c] = x /\ host'[x] = host[x] /\ host[x] \in Host
        BY <3>1 DEF Carried, Core, Linked, Ctx
      <3>3. (\E e \in Cmd : con[e] = x /\ obj[e] = "deleted") \/ connections[host[x]] # x
        BY <3>1 DEF Core, Ended
      <3>4. CASE connections[host[x]] # x
        BY <2>2, <3>1, <3>2, <3>4 DEF Carried
      <3>5. CASE \E e \in Cmd : con[e] = x /\ obj[e] = "deleted"
        BY <1>2, <1>3, <2>2, <3>1, <3>2, <3>5 DEF Carried
      <3>. QED
        BY <3>3, <3>4, <3>5
    <2>. QED
      BY <2>1, <2>2
  <1>. QED
    BY <1>7, <1>8, <1>9, <1>10 DEF Ghosts

LEMMA DiedGhosts ==
  ASSUME AsyncAssumption, Core, Ghosts, crashed = "no", Died,
         Aside \/ \E x \in Ctx, c \in Cmd : Turn(x, c)
  PROVE  Ghosts'
  <1>1. /\ status' = status /\ host' = host /\ replies' = replies /\ nodes' = nodes
        /\ connections' = connections /\ obj' = obj /\ con' = con /\ heard' = heard
        /\ told' = told
    BY DEF Died, clientVars
  <1>2. crashed' \in {"useAfterFree", "nullReply", "contextFreed"}
    BY DEF Died
  <1>3. served' \in [Cmd -> Nat]
    BY DEF Died, Ghosts, ServerTypes
  <1>4. /\ asking' \in [Ctx -> BOOLEAN] /\ moved' \in BOOLEAN /\ cluster' \in BOOLEAN
        /\ hops' \in [Cmd -> 0..MaxHops] /\ \A d \in Cmd : hops'[d] >= hops[d]
    <2>. USE DEF Ghosts, ServerTypes
    <2>1. \A d \in Cmd : hops[d] \in Nat
      BY DEF AsyncAssumption
    <2>2. CASE Aside
      BY <2>1, <2>2 DEF Aside, serverVars
    <2>3. CASE \E x \in Ctx, c \in Cmd : Turn(x, c)
      BY <2>1, <2>3 DEF Turn
    <2>. QED
      BY <2>2, <2>3
  <1>5. ServerTypes'
    BY <1>1, <1>2, <1>3, <1>4 DEF Ghosts, ServerTypes
  <1>6. Asked' /\ Unserved'
    BY <1>2 DEF Asked, Unserved
  <1>7. \A d \in Cmd : hops[d] \in Nat /\ hops'[d] \in Nat
    BY <1>4 DEF Ghosts, ServerTypes, AsyncAssumption
  <1>8. Unconnected'
    BY <1>1, <1>4, <1>7 DEF Ghosts, Unconnected
  <1>9. FirstMovedFollowed'
    <2>. SUFFICES ASSUME NEW z \in Ctx, NEW i \in DOMAIN replies[z],
                         replies[z][i].what = "moved", hops'[replies[z][i].cmd] < 2
                  PROVE  host[z] = told[replies[z][i].cmd]
      BY <1>1 DEF FirstMovedFollowed
    <2>1. replies[z] \in Seq(Callback)
      BY DEF Core, ClientTypes
    <2>2. replies[z][i] \in Callback
      BY <2>1
    <2>3. hops[replies[z][i].cmd] < 2
      BY <1>4, <1>7, <2>2 DEF Callback
    <2>. QED
      BY <2>3 DEF Ghosts, FirstMovedFollowed
  <1>10. UseAfterFreeCause'
    BY <1>1 DEF Died, UseAfterFreeCause, Dangling
  <1>11. Reported'
    BY <1>1 DEF Ghosts, Reported, AskingReplyCause
  <1>. QED
    BY <1>5, <1>6, <1>8, <1>9, <1>10, <1>11 DEF Ghosts

LEMMA AsideGhosts ==
  ASSUME AsyncAssumption, Core, Core', Ghosts, crashed = "no",
         Aside, Accepted \/ Leaked \/ MapsClosed \/ Lost
  PROVE  Ghosts'
  <1>1. /\ asking' = asking /\ hops' = hops /\ served' = served /\ host' = host
        /\ moved' = moved /\ told' = told /\ cluster' \in BOOLEAN
    BY DEF Aside, serverVars
  <1>2. con' = con /\ heard' = heard /\ crashed' = "no"
    BY DEF Accepted, Leaked, MapsClosed, Lost
  <1>3. /\ \A d \in Cmd : obj'[d] \in {"unused", "live"} => obj[d] \in {"unused", "live"}
        /\ \A d \in Cmd : obj[d] = "deleted" => obj'[d] = "deleted"
    <2>1. \/ obj' = obj
          \/ \E c \in Cmd, s \in {"live", "leaked"} :
               obj[c] = "unused" /\ obj' = [obj EXCEPT ![c] = s]
      BY DEF Accepted, Leaked, MapsClosed, Lost
    <2>2. obj \in [Cmd -> {"unused", "live", "deleted", "leaked"}]
      BY DEF Core, ClientTypes
    <2>. QED
      BY <2>1, <2>2
  <1>4. \A h \in Host, z \in Cmd : connections'[h] = z => connections[h] = z
    <2>1. connections' = connections \/ connections' = [h \in Host |-> None]
      BY DEF Accepted, Leaked, MapsClosed, ClearMaps, Lost
    <2>. QED
      BY <2>1 DEF AsyncAssumption
  <1>5. \A z \in Ctx : \A i \in 1..Len(replies'[z]) :
           \/ replies'[z][i].what = "command"
           \/ i \in 1..Len(replies[z]) /\ replies'[z][i] = replies[z][i]
    <2>1. CASE replies' = replies
      BY <2>1
    <2>2. CASE Accepted
      <3>1. PICK c \in Cmd, r \in nodes :
              replies' = [replies EXCEPT ![r] = Append(@, [cmd |-> c, what |-> "command"])]
        BY <2>2 DEF Accepted
      <3>. DEFINE cb == [cmd |-> c, what |-> "command"]
      <3>2. /\ replies \in [Ctx -> Seq(Callback)] /\ r \in Ctx /\ cb \in Callback
            /\ cb.what = "command"
        BY DEF Core, ClientTypes, Ctx, Callback, What
      <3>3. PICK q : q = replies'
        OBVIOUS
      <3>4. q = [replies EXCEPT ![r] = Append(@, cb)]
        BY <3>1, <3>3
      <3>. HIDE DEF cb
      <3>5. \A z \in Ctx : \A i \in 1..Len(q[z]) :
               \/ i \in 1..Len(replies[z]) /\ q[z][i] = replies[z][i]
               \/ z = r /\ i = Len(replies[r]) + 1 /\ q[z][i] = cb
        BY <3>2, <3>4, AddedFacts
      <3>. QED
        BY <3>2, <3>3, <3>5
    <2>. QED
      BY <2>1, <2>2 DEF Leaked, MapsClosed, Lost
  <1>6. ServerTypes'
    BY <1>1, <1>2 DEF Ghosts, ServerTypes
  <1>7. Asked'
    <2>. SUFFICES ASSUME NEW z \in Ctx, NEW i \in 1..Len(replies'[z]),
                         replies'[z][i].what = "asked"
                  PROVE  asking[z] \/ \E d \in Cmd : d # replies'[z][i].cmd /\ con[d] = z
      BY <1>1, <1>2 DEF Asked
    <2>. QED
      BY <1>5 DEF Ghosts, Asked
  <1>8. FirstMovedFollowed'
    <2>1. \A z \in Ctx : DOMAIN replies[z] = 1..Len(replies[z])
                         /\ DOMAIN replies'[z] = 1..Len(replies'[z])
      <3>1. replies \in [Ctx -> Seq(Callback)] /\ replies' \in [Ctx -> Seq(Callback)]
        BY DEF Core, ClientTypes
      <3>. QED
        BY <3>1
    <2>. SUFFICES ASSUME NEW z \in Ctx, NEW i \in 1..Len(replies'[z]),
                         replies'[z][i].what = "moved", hops[replies'[z][i].cmd] < 2
                  PROVE  host[z] = told[replies'[z][i].cmd]
      BY <1>1, <2>1 DEF FirstMovedFollowed
    <2>2. i \in DOMAIN replies[z] /\ replies'[z][i] = replies[z][i]
      BY <1>5, <2>1
    <2>. QED
      BY <2>2 DEF Ghosts, FirstMovedFollowed
  <1>9. Unconnected' /\ Unserved' /\ UseAfterFreeCause'
    BY <1>1, <1>2, <1>3 DEF Ghosts, Unconnected, Unserved, UseAfterFreeCause
  <1>10. Reported'
    <2>. SUFFICES ASSUME NEW d \in Cmd, heard[d] = <<"OK">>
                  PROVE  /\ con'[d] # None
                         /\ \/ \E e \in Cmd : e # d /\ con'[e] = con'[d] /\ obj'[e] = "deleted"
                            \/ connections'[host'[con'[d]]] # con'[d]
      BY <1>2 DEF Reported, AskingReplyCause
    <2>. QED
      BY <1>1, <1>2, <1>3, <1>4, ReportKept DEF Ghosts
  <1>. QED
    BY <1>6, <1>7, <1>8, <1>9, <1>10 DEF Ghosts

-----------------------------------------------------------------------------
(* The inductive invariant holds.                                          *)

LEMMA InitIInv ==
  ASSUME AsyncAssumption, Init
  PROVE  IInv
  <1>. USE DEF Init
  <1>1. \A x \in Ctx : replies[x] = <<>> /\ Len(replies[x]) = 0
    OBVIOUS
  <1>2. \A x \in Ctx : status[x] = IF x \in nodes THEN "live" ELSE "unused"
    OBVIOUS
  <1>3. \A x \in Cmd : status[x] = "unused"
    BY DEF Ctx, AsyncAssumption
  <1>4. \A c \in Cmd : con[c] = None /\ obj[c] = "unused" /\ heard[c] = <<>> /\ served[c] = 0
    OBVIOUS
  <1>5. ClientTypes
    BY DEF ClientTypes
  <1>6. Registered
    BY <1>1, <1>4 DEF Registered
  <1>7. Placed
    BY <1>1 DEF Placed, Ctx
  <1>8. Linked
    BY <1>3, <1>4 DEF Linked
  <1>9. ContextLife
    BY <1>2, <1>3 DEF ContextLife, ClosingDrains, NoOrphan, NodesOpen, Ctx
  <1>10. Ended /\ Unheard
    BY <1>3, <1>4 DEF Ended, Unheard
  <1>11. ServerTypes
    <2>1. 0 \in 0..MaxHops /\ 0 \in Nat
      BY DEF AsyncAssumption
    <2>. QED
      BY <2>1 DEF ServerTypes
  <1>12. Asked /\ Unconnected /\ Unserved /\ UseAfterFreeCause
    BY <1>1, <1>4 DEF Asked, Unconnected, Unserved, UseAfterFreeCause
  <1>13. FirstMovedFollowed
    BY <1>1 DEF FirstMovedFollowed
  <1>14. Reported
    <2>1. <<>> # <<"OK">>
      OBVIOUS
    <2>. QED
      BY <1>4, <2>1 DEF Reported, AskingReplyCause
  <1>. QED
    BY <1>5, <1>6, <1>7, <1>8, <1>9, <1>10, <1>11, <1>12, <1>13, <1>14 DEF IInv, Core, Ghosts

LEMMA NextIInv ==
  ASSUME AsyncAssumption, IInv, Next
  PROVE  IInv'
  <1>1. Core /\ Ghosts /\ ServerTypes /\ Unconnected /\ crashed = "no"
    BY DEF IInv, Ghosts, Next
  <1>2. ASSUME NEW x \in Ctx, replies[x] # <<>>, NEW c \in Cmd,
               c = Head(replies[x]).cmd, Turn(x, c),
               Sent(x, c) \/ Joined(x, c) \/ Finished(x, c) \/ Died
        PROVE  IInv'
    <2>1. CASE Sent(x, c)
      <3>1. Core' /\ Carried(c)
        BY <1>1, <1>2, <2>1, SentCore
      <3>. QED
        BY <1>1, <1>2, <2>1, <3>1, SentGhosts DEF IInv
    <2>2. CASE Joined(x, c)
      <3>1. Core' /\ Carried(c)
        BY <1>1, <1>2, <2>2, JoinedCore
      <3>. QED
        BY <1>1, <1>2, <2>2, <3>1, SentGhosts DEF IInv
    <2>3. CASE Finished(x, c)
      <3>1. Core' /\ Carried(c)
        BY <1>1, <1>2, <2>3, FinishedCore
      <3>. QED
        BY <1>1, <1>2, <2>3, <3>1, FinishedGhosts DEF IInv
    <2>4. CASE Died
      <3>1. UNCHANGED <<clientVars, host>>
        BY <2>4 DEF Died
      <3>2. Core'
        BY <1>1, <3>1, DiedCore
      <3>. QED
        BY <1>1, <1>2, <2>4, <3>2, DiedGhosts DEF IInv
    <2>. QED
      BY <1>2, <2>1, <2>2, <2>3, <2>4
  <1>3. ASSUME Aside, Accepted \/ Leaked \/ MapsClosed \/ Lost
        PROVE  IInv'
    <2>1. UNCHANGED host
      BY <1>3 DEF Aside
    <2>2. Core'
      BY <1>1, <1>3, <2>1, AcceptedCore, LeakedCore, MapsClosedCore, LostCore
    <2>. QED
      BY <1>1, <1>3, <2>2, AsideGhosts DEF IInv
  <1>4. ASSUME Aside, Died
        PROVE  IInv'
    <2>1. UNCHANGED <<clientVars, host>>
      BY <1>4 DEF Died
    <2>2. Core'
      BY <1>1, <2>1, DiedCore
    <2>. QED
      BY <1>1, <1>4, <2>2, DiedGhosts DEF IInv
  <1>. QED
    BY <1>1, <1>2, <1>3, <1>4, NextCases

LEMMA StutterIInv ==
  ASSUME IInv, UNCHANGED vars
  PROVE  IInv'
  <1>1. /\ UNCHANGED <<clientVars, host>>
        /\ status' = status /\ host' = host /\ replies' = replies /\ nodes' = nodes
        /\ connections' = connections /\ obj' = obj /\ con' = con /\ heard' = heard
        /\ told' = told /\ asking' = asking /\ hops' = hops /\ served' = served
        /\ moved' = moved /\ cluster' = cluster /\ crashed' = crashed
    BY DEF vars, clientVars, serverVars
  <1>2. Core'
    BY <1>1, DiedCore DEF IInv
  <1>3. ServerTypes' /\ Asked' /\ Unconnected' /\ Unserved'
    BY <1>1 DEF IInv, Ghosts, ServerTypes, Asked, Unconnected, Unserved
  <1>4. FirstMovedFollowed' /\ UseAfterFreeCause' /\ Reported'
    BY <1>1 DEF IInv, Ghosts, FirstMovedFollowed, UseAfterFreeCause, Dangling, Reported,
                AskingReplyCause
  <1>. QED
    BY <1>2, <1>3, <1>4 DEF IInv, Ghosts

(* The inductive invariant: what every command, connection and queued      *)
(* request is doing (Core), and what follows for the redirections and the  *)
(* deleted objects (Ghosts).                                               *)
THEOREM Invariance == Spec => []IInv
  <1>1. AsyncAssumption
    BY AsyncAssumption
  <1>. QED
    BY <1>1, InitIInv, NextIInv, StutterIInv, PTL DEF Spec

-----------------------------------------------------------------------------
(* What follows from it.                                                   *)

(* Every variable of the asynchronous client keeps its type.               *)
THEOREM TypeCorrect == Spec => []TypeOK
  <1>1. IInv => TypeOK
    BY DEF IInv, Core, Ghosts, ClientTypes, ServerTypes, TypeOK
  <1>. QED
    BY <1>1, Invariance, PTL

(* The registrations of a command are one when it lives, and none when it  *)
(* does not.                                                               *)
LEMMA TokensFacts ==
  ASSUME IInv, NEW c \in Cmd
  PROVE  /\ obj[c] = "live" => \E t : Tokens(c) = {t}
         /\ obj[c] # "live" => Tokens(c) = {}
  <1>1. replies \in [Ctx -> Seq(Callback)]
    BY DEF IInv, Core, ClientTypes
  <1>2. \A x \in Ctx : DOMAIN replies[x] = 1..Len(replies[x])
    BY <1>1
  <1>3. \A t : t \in Tokens(c) <=>
           \E x \in Ctx : Open(x) /\ \E i \in 1..Len(replies[x]) : replies[x][i].cmd = c /\ t = <<x, i>>
    BY <1>2 DEF Tokens
  <1>4. CASE obj[c] # "live"
    <2>1. \A x \in Ctx : \A i \in 1..Len(replies[x]) : replies[x][i].cmd # c
      BY <1>4 DEF IInv, Core, Registered
    <2>. QED
      BY <1>3, <1>4, <2>1
  <1>5. CASE obj[c] = "live"
    <2>1. PICK x \in Ctx : \E i \in 1..Len(replies[x]) : replies[x][i].cmd = c
      BY <1>5 DEF IInv, Core, Registered
    <2>2. PICK i \in 1..Len(replies[x]) : replies[x][i].cmd = c
      BY <2>1
    <2>3. Open(x)
      <3>1. replies[x] # <<>>
        BY <1>1
      <3>. QED
        BY <3>1 DEF IInv, Core, Registered
    <2>4. <<x, i>> \in Tokens(c)
      BY <1>3, <2>2, <2>3
    <2>5. ASSUME NEW t \in Tokens(c)
          PROVE  t = <<x, i>>
      <3>1. PICK y \in Ctx : \E j \in 1..Len(replies[y]) : replies[y][j].cmd = c /\ t = <<y, j>>
        BY <1>3
      <3>2. PICK j \in 1..Len(replies[y]) : replies[y][j].cmd = c /\ t = <<y, j>>
        BY <3>1
      <3>3. x = y /\ i = j
        BY <2>2, <3>2 DEF IInv, Core, Registered
      <3>. QED
        BY <3>2, <3>3
    <2>6. Tokens(c) = {<<x, i>>}
      BY <2>4, <2>5
    <2>. QED
      BY <1>5, <2>6
  <1>. QED
    BY <1>4, <1>5

(* A live command object is the data of exactly one registered callback, a *)
(* deleted or leaked one of none: hiredis never calls back into a command  *)
(* that deleted itself, and no command is left without a callback.         *)
THEOREM OneCallback == Spec => []OneToken
  <1>1. IInv => OneToken
    <2>. SUFFICES ASSUME IInv, NEW c \in Cmd
                  PROVE  Cardinality(Tokens(c)) = IF obj[c] = "live" THEN 1 ELSE 0
      BY DEF OneToken
    <2>1. CASE obj[c] = "live"
      <3>1. PICK t : Tokens(c) = {t}
        BY <2>1, TokensFacts
      <3>. QED
        BY <2>1, <3>1, FS_Singleton
    <2>2. CASE obj[c] # "live"
      <3>1. Tokens(c) = {}
        BY <2>2, TokensFacts
      <3>. QED
        BY <2>2, <3>1, FS_EmptySet
    <2>. QED
      BY <2>1, <2>2
  <1>. QED
    BY <1>1, Invariance, PTL

(* A context that was closed still has a callback that will free it, one   *)
(* that is open for a redirection has a live command that will close it,   *)
(* and the slot connections in nodes_ are closed by nobody but disconnect  *)
(* and the network.                                                        *)
THEOREM ContextsEnd == Spec => []ContextLife
  <1>1. IInv => ContextLife
    BY DEF IInv, Core
  <1>. QED
    BY <1>1, Invariance, PTL

(* A freed context is used only through the pointer to a redirection       *)
(* connection or to a slot connection that the network closed.             *)
THEOREM MemoryUse == Spec => []UseAfterFreeCause
  <1>1. IInv => UseAfterFreeCause
    BY DEF IInv, Ghosts
  <1>. QED
    BY <1>1, Invariance, PTL

(* An ASKING is missing at its node only when commands share the           *)
(* connection, and a first MOVED is followed to the host it named.         *)
THEOREM Redirections == Spec => []RedirectionFollowed
  <1>1. IInv => RedirectionFollowed
    <2>. SUFFICES ASSUME IInv
                  PROVE  AskingLostToOthers
      BY DEF IInv, Ghosts, RedirectionFollowed
    <2>. SUFFICES ASSUME crashed = "no", NEW x \in Ctx, replies[x] # <<>>,
                         Head(replies[x]).what = "asked"
                  PROVE  asking[x] \/ \E d \in Cmd : d # Head(replies[x]).cmd /\ con[d] = x
      BY DEF AskingLostToOthers
    <2>1. Head(replies[x]) = replies[x][1] /\ 1 \in 1..Len(replies[x])
      BY RestFacts DEF IInv, Core
    <2>. QED
      BY <2>1 DEF IInv, Ghosts, Asked
  <1>. QED
    BY <1>1, Invariance, PTL

(* The OK of an ASKING reaches the user of a command only when the         *)
(* connection was closed by another command or by disconnect.              *)
THEOREM AskingReplies == Spec => []AskingReplyCause
  <1>1. IInv => AskingReplyCause
    BY DEF IInv, Ghosts, Reported
  <1>. QED
    BY <1>1, Invariance, PTL

-----------------------------------------------------------------------------
(* The refinement: each callback of the event loop and each call of the    *)
(* program is one step of CommandService, or none.                         *)

(* What the abstract service sees.                                         *)
State == [c \in Cmd |-> StateOf[obj[c]]]
View == <<State, heard, served, crashed # "no">>

LEMMA StateValues ==
  /\ StateOf["unused"] = "new" /\ StateOf["live"] = "pending"
  /\ StateOf["leaked"] = "refused" /\ StateOf["deleted"] = "ended"
  BY DEF StateOf

(* The abstract state of a command changes with the life of its object.    *)
LEMMA StateChange ==
  ASSUME ClientTypes, NEW c \in Cmd, NEW s \in {"unused", "live", "deleted", "leaked"},
         obj' = [obj EXCEPT ![c] = s]
  PROVE  State' = [State EXCEPT ![c] = StateOf[s]]
  <1>1. \A d \in Cmd : obj'[d] = IF d = c THEN s ELSE obj[d]
    BY DEF ClientTypes
  <1>2. State' = [d \in Cmd |-> StateOf[obj'[d]]]
    BY DEF State
  <1>3. State' = [d \in Cmd |-> IF d = c THEN StateOf[s] ELSE State[d]]
    BY <1>1, <1>2 DEF State
  <1>4. [State EXCEPT ![c] = StateOf[s]] = [d \in Cmd |-> IF d = c THEN StateOf[s] ELSE State[d]]
    BY DEF State
  <1>. QED
    BY <1>3, <1>4

LEMMA RefinementInit ==
  ASSUME Init
  PROVE  Abstract!Init
  <1>1. \A c \in Cmd : obj[c] = "unused"
    BY DEF Init
  <1>2. State = [c \in Cmd |-> "new"]
    BY <1>1, StateValues DEF State
  <1>3. (crashed # "no") = FALSE
    BY DEF Init
  <1>. QED
    BY <1>2, <1>3 DEF Init, Abstract!Init, State

(* A callback that sends the command again is invisible.                   *)
LEMMA SentView ==
  ASSUME NEW x, NEW c, Sent(x, c) \/ Joined(x, c)
  PROVE  UNCHANGED View
  <1>1. obj' = obj /\ heard' = heard /\ served' = served /\ crashed' = crashed
    BY DEF Sent, Send, Joined, CreateNewConnection
  <1>. QED
    BY <1>1 DEF View, State

(* A callback that ends the command is Serve or Fail.                      *)
LEMMA FinishedServes ==
  ASSUME IInv, crashed = "no", NEW x \in Ctx, replies[x] # <<>>,
         NEW c \in Cmd, c = Head(replies[x]).cmd, Finished(x, c)
  PROVE  Abstract!Next
  <1>1. PICK reply \in {"data", "error", "OK"} :
          /\ heard' = [heard EXCEPT ![c] = Append(@, reply)]
          /\ obj' = [obj EXCEPT ![c] = "deleted"]
          /\ crashed' = crashed
          /\ served' = IF reply = "data" THEN [served EXCEPT ![c] = @ + 1] ELSE served
    BY DEF Finished
  <1>2. obj[c] = "live" /\ heard[c] = <<>> /\ served[c] = 0
    BY RestTokens DEF IInv, Core, Unheard, Ghosts, Unserved
  <1>3. State[c] = "pending" /\ State' = [State EXCEPT ![c] = "ended"]
    BY <1>1, <1>2, StateChange, StateValues DEF State, IInv, Core
  <1>4. heard' = [heard EXCEPT ![c] = <<reply>>]
    <2>1. Append(heard[c], reply) = <<reply>>
      BY <1>2
    <2>. QED
      BY <1>1, <2>1
  <1>5. /\ reply = "data" => served' = [served EXCEPT ![c] = 1]
        /\ reply # "data" => served' = served
    BY <1>1, <1>2
  <1>6. Abstract!End(c, reply)
    BY <1>1, <1>3, <1>4 DEF Abstract!End, State
  <1>7. CASE reply = "data"
    BY <1>5, <1>6, <1>7 DEF Abstract!Next, Abstract!Serve
  <1>8. CASE reply # "data"
    BY <1>1, <1>5, <1>6, <1>8 DEF Abstract!Next, Abstract!Fail
  <1>. QED
    BY <1>7, <1>8

(* The process may die while a command that a node has executed is being   *)
(* reported.                                                               *)
LEMMA DiedDies ==
  ASSUME IInv, crashed = "no", Died
  PROVE  Abstract!Next
  <1>1. /\ obj' = obj /\ heard' = heard /\ crashed' # "no"
        /\ \/ served' = served
           \/ \E c \in Cmd : obj[c] = "live" /\ served' = [served EXCEPT ![c] = @ + 1]
    BY DEF Died, clientVars
  <1>2. State' = State
    BY <1>1 DEF State
  <1>3. \/ served' = served
        \/ \E c \in Cmd : State[c] = "pending" /\ served' = [served EXCEPT ![c] = 1]
    <2>1. \A c \in Cmd : obj[c] = "live" => served[c] = 0 /\ State[c] = "pending"
      BY StateValues DEF IInv, Ghosts, Unserved, State
    <2>. QED
      BY <1>1, <2>1
  <1>. QED
    BY <1>1, <1>2, <1>3 DEF Abstract!Next, Abstract!Die, State

(* Command() is Submit; the rest of what the program does is invisible.    *)
LEMMA AsideSubmits ==
  ASSUME IInv, crashed = "no", Aside, Accepted \/ Leaked \/ MapsClosed \/ Lost
  PROVE  Abstract!Next \/ UNCHANGED View
  <1>1. served' = served /\ heard' = heard /\ crashed' = crashed
    BY DEF Aside, serverVars, Accepted, Leaked, MapsClosed, Lost
  <1>2. ASSUME NEW c \in Cmd, NEW s \in {"live", "leaked"}, obj[c] = "unused",
               obj' = [obj EXCEPT ![c] = s]
        PROVE  Abstract!Next
    <2>1. State[c] = "new" /\ State' = [State EXCEPT ![c] = StateOf[s]]
      BY <1>2, StateChange, StateValues DEF State, IInv, Core
    <2>2. StateOf[s] \in {"pending", "refused"}
      BY StateValues
    <2>3. Abstract!Submit(c)
      BY <1>1, <2>1, <2>2 DEF Abstract!Submit, State
    <2>. QED
      BY <2>3 DEF Abstract!Next
  <1>3. CASE Accepted
    BY <1>2, <1>3 DEF Accepted
  <1>4. CASE Leaked
    BY <1>2, <1>4 DEF Leaked
  <1>5. CASE MapsClosed \/ Lost
    <2>1. obj' = obj
      BY <1>5 DEF MapsClosed, Lost
    <2>. QED
      BY <1>1, <2>1 DEF View, State
  <1>. QED
    BY <1>3, <1>4, <1>5

LEMMA RefinementStep ==
  ASSUME AsyncAssumption, IInv, [Next]_vars
  PROVE  Abstract!Next \/ UNCHANGED View
  <1>1. CASE UNCHANGED vars
    <2>1. obj' = obj /\ heard' = heard /\ served' = served /\ crashed' = crashed
      BY <1>1 DEF vars, clientVars, serverVars
    <2>. QED
      BY <2>1 DEF View, State
  <1>2. CASE Next
    <2>1. crashed = "no" /\ ServerTypes /\ Core /\ Unconnected
      BY <1>2 DEF Next, IInv, Ghosts
    <2>2. ASSUME NEW x \in Ctx, replies[x] # <<>>, NEW c \in Cmd,
                 c = Head(replies[x]).cmd,
                 Sent(x, c) \/ Joined(x, c) \/ Finished(x, c) \/ Died
          PROVE  Abstract!Next \/ UNCHANGED View
      BY <2>1, <2>2, SentView, FinishedServes, DiedDies
    <2>3. ASSUME Aside, Accepted \/ Leaked \/ MapsClosed \/ Lost \/ Died
          PROVE  Abstract!Next \/ UNCHANGED View
      BY <2>1, <2>3, AsideSubmits, DiedDies
    <2>. QED
      BY <1>2, <2>1, <2>2, <2>3, NextCases
  <1>. QED
    BY <1>1, <1>2

(* However callbacks, faults and calls of the program interleave, a        *)
(* command that was accepted is reported at most once, executed once if    *)
(* its user gets a result, and never if he gets a failure.                 *)
THEOREM Refinement == Spec => ImplementsCommandService
  <1>1. IInv /\ [Next]_vars => [Abstract!Next]_(Abstract!serviceVars)
    BY AsyncAssumption, RefinementStep DEF View, State, Abstract!serviceVars
  <1>. QED
    BY <1>1, RefinementInit, Invariance, PTL
    DEF Spec, ImplementsCommandService, Abstract!Spec
=============================================================================
