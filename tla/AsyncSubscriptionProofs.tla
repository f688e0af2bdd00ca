---------------------- MODULE AsyncSubscriptionProofs -----------------------
(***************************************************************************)
(* Proofs about AsyncSubscription, for any number of commands, channels    *)
(* and messages: its type invariant, that hiredis keeps a deleted command  *)
(* object only when the flag went under a SUBSCRIBE, which objects are     *)
(* never deleted, and which replies reach whom.                            *)
(*                                                                         *)
(* What hiredis and the program do to the client's state is a function on  *)
(* records (Now).  The parts of the invariant are about such a record r,   *)
(* what is on its way back (inc) and the node's channels (s); a callback,  *)
(* which composes several functions, keeps them because each one does.     *)
(***************************************************************************)
EXTENDS AsyncSubscription, SequenceTheorems, FiniteSetTheorems, TLAPS

Client ==
  [sent : [Cmd -> What \cup {"unused"}], obj : [Cmd -> {"none", "live", "deleted"}],
   replies : Seq(Cmd), channels : [Channel -> Cmd \cup {None}], invalid : Seq(Cmd),
   subscribed : BOOLEAN, wire : Seq(Request)]

Answers == {"data", "error"}
Asks(q, what, ch) == q.what = what /\ ch \in Named(q.on)
Tells(p, what, ch) == p.what = what /\ p.on = ch

-----------------------------------------------------------------------------
(* What holds whatever the order of replies.                               *)

(* Where the object of each kind of command waits.                         *)
Kinds(r) ==
  /\ \A i \in DOMAIN r.replies : r.sent[r.replies[i]] = "other"
  /\ \A i \in DOMAIN r.invalid : r.sent[r.invalid[i]] = "other"
  /\ \A ch \in Channel : r.channels[ch] # None => r.sent[r.channels[ch]] = "subscribe"

(* A command that is no subscription waits in one place.                   *)
Distinct(r) ==
  /\ \A i, j \in DOMAIN r.replies : r.replies[i] = r.replies[j] => i = j
  /\ \A i, j \in DOMAIN r.invalid : r.invalid[i] = r.invalid[j] => i = j
  /\ \A i \in DOMAIN r.replies, j \in DOMAIN r.invalid : r.replies[i] # r.invalid[j]

Fresh(r) == \A c \in Cmd : r.sent[c] = "unused" <=> r.obj[c] = "none"

Used(r) == {c \in Cmd : r.sent[c] # "unused"}

Subscriber(r) == \E d \in Cmd : r.sent[d] = "subscribe"

(* The requests on their way, one of each command.                         *)
Requests(r) ==
  /\ \A j \in DOMAIN r.wire :
       /\ r.sent[r.wire[j].by] = r.wire[j].what
       /\ r.wire[j].what = "other" => r.wire[j].on = <<>>
       /\ r.wire[j].what # "other" => r.wire[j].on \in Names
  /\ \A i, j \in DOMAIN r.wire : r.wire[i].by = r.wire[j].by => i = j
  /\ Len(r.wire) <= Cardinality(Used(r))

(* A channel is left once at a time.                                       *)
LeftOnce(r, inc) ==
  /\ \A ch \in Channel, i, j \in DOMAIN r.wire :
       Asks(r.wire[i], "unsubscribe", ch) /\ Asks(r.wire[j], "unsubscribe", ch) => i = j
  /\ \A ch \in Channel, i \in DOMAIN inc, j \in DOMAIN r.wire :
       ~(Tells(inc[i], "unsubscribe", ch) /\ Asks(r.wire[j], "unsubscribe", ch))
  /\ \A ch \in Channel, i, j \in DOMAIN inc :
       Tells(inc[i], "unsubscribe", ch) /\ Tells(inc[j], "unsubscribe", ch) => i = j

Standing(r, inc) ==
  /\ Kinds(r) /\ Distinct(r) /\ Fresh(r)
  /\ r.subscribed => Subscriber(r)
  /\ Requests(r) /\ LeftOnce(r, inc)

-----------------------------------------------------------------------------
(* What holds until the flag goes under a SUBSCRIBE.                       *)

Live(r) ==
  /\ \A i \in DOMAIN r.replies : r.obj[r.replies[i]] = "live"
  /\ \A i \in DOMAIN r.invalid : r.obj[r.invalid[i]] = "live"
  /\ \A ch \in Channel : r.channels[ch] # None => r.obj[r.channels[ch]] = "live"

(* A callback of a channel is one that the node knows of, or will, or that *)
(* is about to be dropped; what is left is what was subscribed to.         *)
Joined(r, inc, s) ==
  /\ \A ch \in Channel : r.channels[ch] # None =>
       \/ ch \in s
       \/ \E j \in DOMAIN r.wire : Asks(r.wire[j], "subscribe", ch)
       \/ \E i \in DOMAIN inc : Tells(inc[i], "unsubscribe", ch)
  /\ \A ch \in Channel, j \in DOMAIN r.wire : Asks(r.wire[j], "unsubscribe", ch) =>
       ch \in s \/ \E k \in DOMAIN r.wire : k < j /\ Asks(r.wire[k], "subscribe", ch)

(* After the last channel is left the node says nothing of channels before *)
(* the next SUBSCRIBE.                                                     *)
Emptied(inc, s) ==
  \A i \in DOMAIN inc : inc[i].what = "unsubscribe" /\ inc[i].left = 0 =>
    \/ \E j \in DOMAIN inc : j > i /\ inc[j].what = "subscribe"
    \/ s = {} /\ \A j \in DOMAIN inc : j > i => inc[j].what \in Answers

(* The callbacks in the queue of replies are for what comes first.         *)
Ahead(r, inc, s) ==
  /\ \A i \in DOMAIN inc : i <= Len(r.replies) => inc[i].what \in Answers
  /\ Len(r.replies) <= Len(inc) + Len(r.wire)
  /\ \A j \in DOMAIN r.wire : Len(inc) + j <= Len(r.replies) => r.wire[j].what = "other"
  /\ s # {} => Len(r.replies) <= Len(inc)

(* Without the flag nothing is subscribed or says so.                      *)
Quiet(r, inc, s) ==
  ~r.subscribed =>
    /\ s = {} /\ \A ch \in Channel : r.channels[ch] = None
    /\ \A j \in DOMAIN r.wire : r.wire[j].what = "other"
    /\ \A i \in DOMAIN inc : inc[i].what \in Answers

Orderly(r, inc, s) ==
  Live(r) /\ Joined(r, inc, s) /\ Emptied(inc, s) /\ Ahead(r, inc, s) /\ Quiet(r, inc, s)

Base ==
  /\ TypeOK
  /\ Standing(Now, incoming)
  /\ "subscribe" \notin overlap => Orderly(Now, incoming, subs)
  /\ DanglingCause

-----------------------------------------------------------------------------
(* Sequences.                                                              *)

Grown(m, t, v) ==
  /\ Len(m) \in Nat /\ Len(t) = Len(m) + 1
  /\ DOMAIN m = 1..Len(m) /\ DOMAIN t = 1..(Len(m) + 1)
  /\ \A i \in 1..Len(m) : t[i] = m[i]
  /\ t[Len(m) + 1] = v

Shrunk(m, t) ==
  /\ Len(m) \in Nat /\ Len(t) \in Nat /\ Len(m) = Len(t) + 1
  /\ DOMAIN m = 1..Len(m) /\ DOMAIN t = 1..Len(t)
  /\ \A i \in 1..Len(t) : t[i] = m[i + 1] /\ i + 1 \in 1..Len(m)
  /\ \A i \in 1..Len(m) : i = 1 \/ (i - 1 \in 1..Len(t) /\ t[i - 1] = m[i])

(* What Append makes of a sequence.                                        *)
LEMMA Appending ==
  ASSUME NEW W, NEW m \in Seq(W), NEW v \in W
  PROVE  Append(m, v) \in Seq(W) /\ Grown(m, Append(m, v), v)
BY DEF Grown

(* What Tail makes of a sequence.                                          *)
LEMMA Popping ==
  ASSUME NEW W, NEW m \in Seq(W), m # <<>>
  PROVE  /\ Tail(m) \in Seq(W) /\ Head(m) \in W /\ Head(m) = m[1] /\ 1 \in DOMAIN m
         /\ Shrunk(m, Tail(m))
<1>1. Len(m) \in Nat /\ Len(m) >= 1 /\ DOMAIN m = 1..Len(m) /\ Head(m) = m[1]
  OBVIOUS
<1>2. PICK t : t = Tail(m)
  OBVIOUS
<1>3. t \in Seq(W) /\ Len(t) = Len(m) - 1 /\ \A i \in 1..Len(t) : t[i] = m[i + 1]
  BY <1>1, <1>2
<1>4. DOMAIN t = 1..Len(t) /\ Len(t) \in Nat /\ Len(m) = Len(t) + 1
  BY <1>1, <1>3
<1>5. \A i \in 1..Len(t) : i + 1 \in 1..Len(m)
  BY <1>4
<1>6. \A i \in 1..Len(m) : i = 1 \/ (i - 1 \in 1..Len(t) /\ t[i - 1] = m[i])
  BY <1>3, <1>4
<1>7. Shrunk(m, t)
  BY <1>1, <1>3, <1>4, <1>5, <1>6 DEF Shrunk
<1> QED
  BY <1>1, <1>2, <1>3, <1>7

-----------------------------------------------------------------------------
(* What the functions on records change.                                   *)

(* Every command sent.                                                     *)
Issues(r, t, c, what, on) ==
  /\ r.sent[c] = "unused"
  /\ t.sent[c] = what /\ t.obj[c] = "live"
  /\ \A d \in Cmd : d # c => t.sent[d] = r.sent[d] /\ t.obj[d] = r.obj[d]
  /\ \E q \in Request : /\ q.by = c /\ q.what = what /\ q.on = on
                        /\ Grown(r.wire, t.wire, q)

(* SUBSCRIBE, UNSUBSCRIBE, another command.                                *)
Subscribes(r, t, c, on) ==
  /\ Issues(r, t, c, "subscribe", on)
  /\ t.replies = r.replies /\ t.invalid = r.invalid /\ t.subscribed = TRUE
  /\ \A ch \in Channel : t.channels[ch] = IF ch \in Named(on) THEN c ELSE r.channels[ch]

Unsubscribes(r, t, c, on) ==
  /\ Issues(r, t, c, "unsubscribe", on)
  /\ t.replies = r.replies /\ t.invalid = r.invalid
  /\ t.channels = r.channels /\ t.subscribed = r.subscribed

Sends(r, t, c) ==
  /\ Issues(r, t, c, "other", <<>>)
  /\ t.channels = r.channels /\ t.subscribed = r.subscribed
  /\ IF r.subscribed THEN t.replies = r.replies /\ Grown(r.invalid, t.invalid, c)
     ELSE t.invalid = r.invalid /\ Grown(r.replies, t.replies, c)

(* A request names a channel or two.                                       *)
LEMMA NamesFacts ==
  ASSUME NEW on \in Names
  PROVE  /\ on \in Seq(Channel) /\ Len(on) \in {1, 2} /\ DOMAIN on = 1..Len(on)
         /\ \A i, j \in 1..Len(on) : on[i] = on[j] => i = j
         /\ Named(on) = {on[i] : i \in 1..Len(on)} /\ Named(on) \subseteq Channel
         /\ on[1] \in Named(on) /\ on # <<>>
<1>1. CASE \E ch \in Channel : on = <<ch>>
  <2>1. PICK ch \in Channel : on = <<ch>>
    BY <1>1
  <2>2. <<ch>> \in Seq(Channel) /\ Len(<<ch>>) = 1 /\ DOMAIN <<ch>> = 1..1 /\ <<ch>>[1] = ch
    OBVIOUS
  <2> QED
    BY <2>1, <2>2 DEF Named
<1>2. CASE on \in Channel \X Channel /\ on[1] # on[2]
  <2>1. PICK ch \in Channel, d \in Channel : on = <<ch, d>>
    BY <1>2
  <2>2. /\ <<ch, d>> \in Seq(Channel) /\ Len(<<ch, d>>) = 2 /\ DOMAIN <<ch, d>> = 1..2
        /\ <<ch, d>>[1] = ch /\ <<ch, d>>[2] = d
    OBVIOUS
  <2> QED
    BY <1>2, <2>1, <2>2 DEF Named
<1> QED
  BY <1>1, <1>2 DEF Names

(* The state is a record of the client.                                    *)
LEMMA NowClient == TypeOK => Now \in Client
BY DEF TypeOK, Now, Client

(* Issued changes three fields.                                            *)
LEMMA IssuedFields ==
  ASSUME NEW r \in Client, NEW c \in Cmd, r.sent[c] = "unused", NEW what \in What,
         NEW on \in Seq(Channel), NEW t, t = Issued(r, c, what, on)
  PROVE  /\ t \in Client /\ Issues(r, t, c, what, on)
         /\ t.replies = r.replies /\ t.invalid = r.invalid
         /\ t.channels = r.channels /\ t.subscribed = r.subscribed
<1>1. PICK q : q = [by |-> c, what |-> what, on |-> on]
  OBVIOUS
<1>2. q \in Request /\ q.by = c /\ q.what = what /\ q.on = on
  BY <1>1 DEF Request
<1>3. PICK w : w = Append(r.wire, q)
  OBVIOUS
<1>4. w \in Seq(Request) /\ Grown(r.wire, w, q)
  BY <1>2, <1>3, Appending DEF Client
<1>5. t = [r EXCEPT !.sent[c] = what, !.obj[c] = "live", !.wire = w]
  BY <1>1, <1>3 DEF Issued
<1>6. /\ t.sent = [r.sent EXCEPT ![c] = what] /\ t.obj = [r.obj EXCEPT ![c] = "live"]
      /\ t.wire = w /\ t.replies = r.replies /\ t.invalid = r.invalid
      /\ t.channels = r.channels /\ t.subscribed = r.subscribed
  BY <1>5 DEF Client
<1>7. t \in Client
  <2>1. PICK u, o : u = [r.sent EXCEPT ![c] = what] /\ o = [r.obj EXCEPT ![c] = "live"]
    OBVIOUS
  <2>2. u \in [Cmd -> What \cup {"unused"}] /\ o \in [Cmd -> {"none", "live", "deleted"}]
    BY <2>1 DEF Client
  <2>3. t = [r EXCEPT !.sent = u, !.obj = o, !.wire = w]
    BY <1>5, <2>1 DEF Client
  <2> QED
    BY <1>4, <2>2, <2>3 DEF Client
<1>8. Issues(r, t, c, what, on)
  <2>1. /\ t.sent[c] = what /\ t.obj[c] = "live"
        /\ \A d \in Cmd : d # c => t.sent[d] = r.sent[d] /\ t.obj[d] = r.obj[d]
    BY <1>6 DEF Client
  <2> QED
    BY <1>2, <1>4, <1>6, <2>1 DEF Issues
<1> QED
  BY <1>6, <1>7, <1>8

(* Every other command that is sent keeps what is queued, and goes to the  *)
(* end of a queue itself, or to its channels.                              *)
LEMMA SubscribeFields ==
  ASSUME NEW r \in Client, NEW c \in Cmd, r.sent[c] = "unused",
         NEW on \in Names, NEW t, t = SubscribeTo(r, c, on)
  PROVE  t \in Client /\ Subscribes(r, t, c, on)
<1>1. PICK i : i = Issued(r, c, "subscribe", on)
  OBVIOUS
<1>2. on \in Seq(Channel) /\ "subscribe" \in What
  BY NamesFacts DEF What
<1>3. /\ i \in Client /\ Issues(r, i, c, "subscribe", on)
      /\ i.replies = r.replies /\ i.invalid = r.invalid /\ i.channels = r.channels
  BY <1>1, <1>2, IssuedFields
<1>4. PICK f : f = [ch \in Channel |-> IF ch \in Named(on) THEN c ELSE i.channels[ch]]
  OBVIOUS
<1>5. f \in [Channel -> Cmd \cup {None}]
  BY <1>3, <1>4 DEF Client
<1>6. t = [i EXCEPT !.subscribed = TRUE, !.channels = f]
  <2>1. t = [i EXCEPT !.subscribed = TRUE,
                      !.channels = [ch \in Channel |-> IF ch \in Named(on) THEN c ELSE @[ch]]]
    BY <1>1, Zenon DEF SubscribeTo
  <2> QED
    BY <1>3, <1>4, <2>1 DEF Client
<1>7. /\ t \in Client /\ t.sent = i.sent /\ t.obj = i.obj /\ t.wire = i.wire
      /\ t.replies = i.replies /\ t.invalid = i.invalid /\ t.subscribed = TRUE
      /\ t.channels = f
  BY <1>3, <1>5, <1>6 DEF Client
<1>8. Issues(r, t, c, "subscribe", on)
  <2>1. t.sent = i.sent /\ t.obj = i.obj /\ t.wire = i.wire /\ Issues(r, i, c, "subscribe", on)
    BY <1>3, <1>7
  <2> QED
    BY <2>1, Zenon DEF Issues
<1> QED
  BY <1>3, <1>4, <1>7, <1>8 DEF Subscribes

(* OtherOn adds to one queue or the other.                                 *)
LEMMA OtherFields ==
  ASSUME NEW r \in Client, NEW c \in Cmd, r.sent[c] = "unused", NEW t, t = OtherOn(r, c)
  PROVE  t \in Client /\ Sends(r, t, c)
<1>1. PICK i : i = Issued(r, c, "other", <<>>)
  OBVIOUS
<1>2. <<>> \in Seq(Channel) /\ "other" \in What
  BY DEF What
<1>3. /\ i \in Client /\ Issues(r, i, c, "other", <<>>)
      /\ i.replies = r.replies /\ i.invalid = r.invalid
      /\ i.channels = r.channels /\ i.subscribed = r.subscribed
  <2>1. PICK what, none : what = "other" /\ none = <<>>
    OBVIOUS
  <2>2. what \in What /\ none \in Seq(Channel) /\ i = Issued(r, c, what, none)
    BY <1>1, <1>2, <2>1, Zenon
  <2>3. /\ i \in Client /\ Issues(r, i, c, what, none)
        /\ i.replies = r.replies /\ i.invalid = r.invalid
        /\ i.channels = r.channels /\ i.subscribed = r.subscribed
    BY <2>2, IssuedFields
  <2> QED
    BY <2>1, <2>3, Zenon
<1>4. PICK p, q : p = Append(r.replies, c) /\ q = Append(r.invalid, c)
  OBVIOUS
<1>5. /\ p \in Seq(Cmd) /\ q \in Seq(Cmd)
      /\ Grown(r.replies, p, c) /\ Grown(r.invalid, q, c)
  BY <1>4, Appending DEF Client
<1>6. t = IF r.subscribed THEN [i EXCEPT !.invalid = q] ELSE [i EXCEPT !.replies = p]
  BY <1>1, <1>3, <1>4 DEF OtherOn, Client
<1>7. /\ t \in Client /\ t.sent = i.sent /\ t.obj = i.obj /\ t.wire = i.wire
      /\ t.channels = i.channels /\ t.subscribed = i.subscribed
      /\ IF r.subscribed THEN t.invalid = q /\ t.replies = r.replies
         ELSE t.replies = p /\ t.invalid = r.invalid
  <2>1. CASE r.subscribed
    <3>1. t = [i EXCEPT !.invalid = q]
      BY <1>6, <2>1
    <3> QED
      BY <1>3, <1>5, <2>1, <3>1 DEF Client
  <2>2. CASE ~r.subscribed
    <3>1. t = [i EXCEPT !.replies = p]
      BY <1>6, <2>2
    <3> QED
      BY <1>3, <1>5, <2>2, <3>1 DEF Client
  <2> QED
    BY <2>1, <2>2
<1>8. Issues(r, t, c, "other", <<>>)
  BY <1>3, <1>7, Zenon DEF Issues
<1> QED
  BY <1>3, <1>5, <1>7, <1>8 DEF Sends

-----------------------------------------------------------------------------
(* A command that is sent.                                                 *)

(* The commands used so far can be counted.                                *)
LEMMA UsedFinite ==
  ASSUME NEW r
  PROVE  IsFiniteSet(Used(r)) /\ Cardinality(Used(r)) \in Nat /\ Cardinality(Used(r)) <= Cardinality(Cmd)
<1>1. Used(r) \in SUBSET Cmd
  BY DEF Used
<1> QED
  BY <1>1, SubscriptionAssumption, FS_Subset, FS_CardinalityType

(* A command that is sent is one more.                                     *)
LEMMA SentMore ==
  ASSUME NEW r, NEW t, NEW c \in Cmd, NEW what \in What, r.sent[c] = "unused", t.sent[c] = what,
         \A d \in Cmd : d # c => t.sent[d] = r.sent[d]
  PROVE  Cardinality(Used(t)) = Cardinality(Used(r)) + 1
<1>1. Used(t) = Used(r) \cup {c} /\ c \notin Used(r)
  BY DEF Used, What
<1> QED
  BY <1>1, UsedFinite, FS_AddElement

(* The form of a request for a kind of command.                            *)
Form(what, on) == IF what = "other" THEN on = <<>> ELSE on \in Names

(* A command sent adds its request and its object.                         *)
LEMMA IssuedRequests ==
  ASSUME NEW r \in Client, NEW t \in Client, NEW c \in Cmd, NEW what \in What, NEW on,
         Issues(r, t, c, what, on), Form(what, on), Requests(r), Fresh(r)
  PROVE  Requests(t) /\ Fresh(t)
<1>1. PICK q \in Request : /\ q.by = c /\ q.what = what /\ q.on = on
                           /\ Grown(r.wire, t.wire, q)
  BY DEF Issues
<1>2. /\ r.sent[c] = "unused" /\ t.sent[c] = what /\ t.obj[c] = "live"
      /\ \A d \in Cmd : d # c => t.sent[d] = r.sent[d] /\ t.obj[d] = r.obj[d]
  BY DEF Issues
<1>3. /\ DOMAIN r.wire = 1..Len(r.wire) /\ DOMAIN t.wire = 1..(Len(r.wire) + 1)
      /\ Len(r.wire) \in Nat /\ Len(t.wire) = Len(r.wire) + 1
      /\ \A i \in 1..Len(r.wire) : t.wire[i] = r.wire[i]
      /\ t.wire[Len(r.wire) + 1] = q
  BY <1>1 DEF Grown
<1>4. \A i \in 1..Len(r.wire) : r.wire[i] \in Request /\ r.wire[i].by # c
  <2>1. \A i \in 1..Len(r.wire) : r.wire[i] \in Request
    BY <1>3 DEF Client
  <2>2. \A i \in 1..Len(r.wire) : r.sent[r.wire[i].by] # "unused"
    BY <1>3, <2>1 DEF Requests, Request, What
  <2> QED
    BY <1>2, <2>1, <2>2
<1>5. \A j \in DOMAIN t.wire :
        /\ t.sent[t.wire[j].by] = t.wire[j].what
        /\ t.wire[j].what = "other" => t.wire[j].on = <<>>
        /\ t.wire[j].what # "other" => t.wire[j].on \in Names
  <2> SUFFICES ASSUME NEW j \in 1..(Len(r.wire) + 1)
      PROVE  /\ t.sent[t.wire[j].by] = t.wire[j].what
             /\ t.wire[j].what = "other" => t.wire[j].on = <<>>
             /\ t.wire[j].what # "other" => t.wire[j].on \in Names
    BY <1>3
  <2>1. CASE j \in 1..Len(r.wire)
    <3>1. t.wire[j] = r.wire[j] /\ r.wire[j].by \in Cmd /\ r.wire[j].by # c
      BY <1>3, <1>4, <2>1 DEF Request
    <3>2. t.sent[r.wire[j].by] = r.sent[r.wire[j].by]
      BY <1>2, <3>1
    <3> QED
      BY <1>3, <2>1, <3>1, <3>2 DEF Requests
  <2>2. CASE j = Len(r.wire) + 1
    BY <1>1, <1>2, <1>3, <2>2 DEF Form
  <2> QED
    BY <1>3, <2>1, <2>2
<1>6. \A i, j \in DOMAIN t.wire : t.wire[i].by = t.wire[j].by => i = j
  <2>1. \A i, j \in 1..Len(r.wire) : r.wire[i].by = r.wire[j].by => i = j
    BY <1>3 DEF Requests
  <2>2. \A i \in 1..(Len(r.wire) + 1) : i \in 1..Len(r.wire) \/ i = Len(r.wire) + 1
    BY <1>3
  <2>3. \A i \in 1..Len(r.wire) : t.wire[i].by = r.wire[i].by /\ t.wire[i].by # c
    BY <1>3, <1>4
  <2>4. t.wire[Len(r.wire) + 1].by = c
    BY <1>1, <1>3
  <2> QED
    BY <1>3, <2>1, <2>2, <2>3, <2>4
<1>7. Len(t.wire) <= Cardinality(Used(t))
  <2>1. Cardinality(Used(t)) = Cardinality(Used(r)) + 1
    BY <1>2, SentMore
  <2> QED
    BY <1>3, <2>1, UsedFinite DEF Requests
<1>8. Fresh(t)
  BY <1>2 DEF Fresh, What
<1> QED
  BY <1>5, <1>6, <1>7, <1>8 DEF Requests

(* No channel of on is being left.                                         *)
Stays(r, inc, on) ==
  \A ch \in Named(on) :
    /\ \A j \in DOMAIN r.wire : ~Asks(r.wire[j], "unsubscribe", ch)
    /\ \A i \in DOMAIN inc : ~Tells(inc[i], "unsubscribe", ch)

(* An UNSUBSCRIBE of a channel that is not being left is the only one.     *)
LEMMA IssuedLeft ==
  ASSUME NEW r \in Client, NEW t \in Client, NEW inc, NEW c \in Cmd, NEW what \in What, NEW on,
         Issues(r, t, c, what, on), LeftOnce(r, inc), what = "unsubscribe" => Stays(r, inc, on)
  PROVE  LeftOnce(t, inc)
<1>1. PICK q \in Request : /\ q.by = c /\ q.what = what /\ q.on = on
                           /\ Grown(r.wire, t.wire, q)
  BY DEF Issues
<1>2. /\ DOMAIN r.wire = 1..Len(r.wire) /\ DOMAIN t.wire = 1..(Len(r.wire) + 1)
      /\ Len(r.wire) \in Nat
      /\ \A i \in 1..Len(r.wire) : t.wire[i] = r.wire[i]
      /\ t.wire[Len(r.wire) + 1] = q
  BY <1>1 DEF Grown
<1>3. \A i \in 1..(Len(r.wire) + 1) : i \in 1..Len(r.wire) \/ i = Len(r.wire) + 1
  BY <1>2
<1>4. ASSUME NEW ch, Asks(q, "unsubscribe", ch)
      PROVE  /\ \A j \in 1..Len(r.wire) : ~Asks(r.wire[j], "unsubscribe", ch)
             /\ \A i \in DOMAIN inc : ~Tells(inc[i], "unsubscribe", ch)
  <2>1. what = "unsubscribe" /\ ch \in Named(on)
    BY <1>1, <1>4 DEF Asks
  <2> QED
    BY <1>2, <2>1 DEF Stays
<1>5. ASSUME NEW ch \in Channel, NEW i \in DOMAIN t.wire, NEW j \in DOMAIN t.wire,
             Asks(t.wire[i], "unsubscribe", ch), Asks(t.wire[j], "unsubscribe", ch)
      PROVE  i = j
  <2>1. CASE i \in 1..Len(r.wire) /\ j \in 1..Len(r.wire)
    BY <1>2, <1>5, <2>1 DEF LeftOnce
  <2>2. CASE i = Len(r.wire) + 1 /\ j \in 1..Len(r.wire)
    BY <1>2, <1>4, <1>5, <2>2
  <2>3. CASE i \in 1..Len(r.wire) /\ j = Len(r.wire) + 1
    BY <1>2, <1>4, <1>5, <2>3
  <2> QED
    BY <1>2, <1>3, <2>1, <2>2, <2>3
<1>6. ASSUME NEW ch \in Channel, NEW i \in DOMAIN inc, NEW j \in DOMAIN t.wire
      PROVE  ~(Tells(inc[i], "unsubscribe", ch) /\ Asks(t.wire[j], "unsubscribe", ch))
  <2>1. CASE j \in 1..Len(r.wire)
    BY <1>2, <2>1 DEF LeftOnce
  <2>2. CASE j = Len(r.wire) + 1
    BY <1>2, <1>4, <2>2
  <2> QED
    BY <1>2, <1>3, <2>1, <2>2
<1> QED
  BY <1>5, <1>6 DEF LeftOnce

(* What waits when c is sent goes on waiting, and c did not wait.          *)
LEMMA IssuedKinds ==
  ASSUME NEW r \in Client, NEW t \in Client, NEW c \in Cmd, NEW what \in What, NEW on,
         Issues(r, t, c, what, on), Kinds(r)
  PROVE  /\ DOMAIN r.replies = 1..Len(r.replies) /\ DOMAIN r.invalid = 1..Len(r.invalid)
         /\ \A i \in DOMAIN r.replies : LET d == r.replies[i] IN
               d \in Cmd /\ d # c /\ t.sent[d] = "other" /\ t.obj[d] = r.obj[d]
         /\ \A i \in DOMAIN r.invalid : LET d == r.invalid[i] IN
               d \in Cmd /\ d # c /\ t.sent[d] = "other" /\ t.obj[d] = r.obj[d]
         /\ \A ch \in Channel : LET d == r.channels[ch] IN
               d # None => d \in Cmd /\ d # c /\ t.sent[d] = "subscribe" /\ t.obj[d] = r.obj[d]
<1>1. /\ r.sent[c] = "unused" /\ \A d \in Cmd : d # c => t.sent[d] = r.sent[d] /\ t.obj[d] = r.obj[d]
  BY DEF Issues
<1>2. /\ \A i \in DOMAIN r.replies : r.replies[i] \in Cmd
      /\ \A i \in DOMAIN r.invalid : r.invalid[i] \in Cmd
      /\ \A ch \in Channel : r.channels[ch] # None => r.channels[ch] \in Cmd
      /\ DOMAIN r.replies = 1..Len(r.replies) /\ DOMAIN r.invalid = 1..Len(r.invalid)
  BY DEF Client
<1>3. /\ \A i \in DOMAIN r.replies : r.sent[r.replies[i]] = "other"
      /\ \A i \in DOMAIN r.invalid : r.sent[r.invalid[i]] = "other"
      /\ \A ch \in Channel : r.channels[ch] # None => r.sent[r.channels[ch]] = "subscribe"
  BY DEF Kinds
<1> QED
  BY <1>1, <1>2, <1>3

(* SUBSCRIBE keeps what holds in any order of replies.                     *)
LEMMA SubscribeStanding ==
  ASSUME NEW r \in Client, NEW t \in Client, NEW inc, NEW c \in Cmd, NEW on \in Names,
         Subscribes(r, t, c, on), Standing(r, inc)
  PROVE  Standing(t, inc)
<1>1. /\ Issues(r, t, c, "subscribe", on) /\ "subscribe" \in What
      /\ t.replies = r.replies /\ t.invalid = r.invalid /\ t.subscribed = TRUE
      /\ \A ch \in Channel : t.channels[ch] = IF ch \in Named(on) THEN c ELSE r.channels[ch]
  BY DEF Subscribes, What
<1>2. Kinds(r) /\ Distinct(r) /\ Fresh(r) /\ Requests(r) /\ LeftOnce(r, inc)
  BY DEF Standing
<1>3. t.sent[c] = "subscribe"
  BY <1>1 DEF Issues
<1>4. Requests(t) /\ Fresh(t)
  BY <1>1, <1>2, IssuedRequests DEF Form
<1>5. LeftOnce(t, inc)
  BY <1>1, <1>2, IssuedLeft
<1>6. Kinds(t)
  <2>1. /\ \A i \in DOMAIN r.replies : t.sent[r.replies[i]] = "other"
        /\ \A i \in DOMAIN r.invalid : t.sent[r.invalid[i]] = "other"
        /\ \A ch \in Channel : r.channels[ch] # None => t.sent[r.channels[ch]] = "subscribe"
    BY <1>1, <1>2, IssuedKinds
  <2> QED
    BY <1>1, <1>3, <2>1 DEF Kinds
<1>7. Distinct(t)
  BY <1>1, <1>2 DEF Distinct
<1>8. Subscriber(t)
  BY <1>3 DEF Subscriber
<1> QED
  BY <1>2, <1>4, <1>5, <1>6, <1>7, <1>8 DEF Standing

(* UNSUBSCRIBE of a channel that stays subscribed keeps it too.            *)
LEMMA UnsubscribeStanding ==
  ASSUME NEW r \in Client, NEW t \in Client, NEW inc, NEW c \in Cmd, NEW on \in Names,
         Unsubscribes(r, t, c, on), Stays(r, inc, on), Standing(r, inc)
  PROVE  Standing(t, inc)
<1>1. /\ Issues(r, t, c, "unsubscribe", on) /\ "unsubscribe" \in What
      /\ t.replies = r.replies /\ t.invalid = r.invalid
      /\ t.channels = r.channels /\ t.subscribed = r.subscribed
  BY DEF Unsubscribes, What
<1>2. Kinds(r) /\ Distinct(r) /\ Fresh(r) /\ Requests(r) /\ LeftOnce(r, inc)
  BY DEF Standing
<1>3. Requests(t) /\ Fresh(t)
  BY <1>1, <1>2, IssuedRequests DEF Form
<1>4. LeftOnce(t, inc)
  BY <1>1, <1>2, IssuedLeft
<1>5. Kinds(t)
  <2>1. /\ \A i \in DOMAIN r.replies : t.sent[r.replies[i]] = "other"
        /\ \A i \in DOMAIN r.invalid : t.sent[r.invalid[i]] = "other"
        /\ \A ch \in Channel : r.channels[ch] # None => t.sent[r.channels[ch]] = "subscribe"
    BY <1>1, <1>2, IssuedKinds
  <2> QED
    BY <1>1, <2>1 DEF Kinds
<1>6. Distinct(t)
  BY <1>1, <1>2 DEF Distinct
<1>7. t.subscribed => Subscriber(t)
  <2>1. \A d \in Cmd : r.sent[d] = "subscribe" => t.sent[d] = "subscribe"
    BY <1>1 DEF Issues
  <2> QED
    BY <1>1, <2>1 DEF Standing, Subscriber
<1> QED
  BY <1>2, <1>3, <1>4, <1>5, <1>6, <1>7 DEF Standing

(* A queue that c joins at the end.                                        *)
LEMMA Joining ==
  ASSUME NEW m \in Seq(Cmd), NEW t, NEW c \in Cmd, Grown(m, t, c),
         \A i \in DOMAIN m : m[i] # c, \A i, j \in DOMAIN m : m[i] = m[j] => i = j
  PROVE  /\ \A i, j \in DOMAIN t : t[i] = t[j] => i = j
         /\ \A i \in DOMAIN t : t[i] = c \/ \E k \in DOMAIN m : t[i] = m[k]
<1>1. /\ Len(m) \in Nat /\ DOMAIN m = 1..Len(m) /\ DOMAIN t = 1..(Len(m) + 1)
      /\ \A i \in 1..Len(m) : t[i] = m[i]
      /\ t[Len(m) + 1] = c
  BY DEF Grown
<1>2. \A i \in 1..(Len(m) + 1) : i \in 1..Len(m) \/ i = Len(m) + 1
  BY <1>1
<1> QED
  BY <1>1, <1>2

(* So does another command, which joins one queue.                         *)
LEMMA SendsStanding ==
  ASSUME NEW r \in Client, NEW t \in Client, NEW inc, NEW c \in Cmd,
         Sends(r, t, c), Standing(r, inc)
  PROVE  Standing(t, inc)
<1>1. /\ Issues(r, t, c, "other", <<>>) /\ "other" \in What
      /\ t.channels = r.channels /\ t.subscribed = r.subscribed
  BY DEF Sends, What
<1>2. Kinds(r) /\ Distinct(r) /\ Fresh(r) /\ Requests(r) /\ LeftOnce(r, inc)
  BY DEF Standing
<1>3. t.sent[c] = "other"
  BY <1>1 DEF Issues
<1>4. Requests(t) /\ Fresh(t)
  BY <1>1, <1>2, IssuedRequests DEF Form
<1>5. LeftOnce(t, inc)
  BY <1>1, <1>2, IssuedLeft
<1>6. /\ \A i \in DOMAIN r.replies : r.replies[i] # c /\ t.sent[r.replies[i]] = "other"
      /\ \A i \in DOMAIN r.invalid : r.invalid[i] # c /\ t.sent[r.invalid[i]] = "other"
      /\ \A ch \in Channel : r.channels[ch] # None => t.sent[r.channels[ch]] = "subscribe"
  BY <1>1, <1>2, IssuedKinds
<1>7. t.subscribed => Subscriber(t)
  <2>1. \A d \in Cmd : r.sent[d] = "subscribe" => t.sent[d] = "subscribe"
    BY <1>1 DEF Issues
  <2> QED
    BY <1>1, <2>1 DEF Standing, Subscriber
<1>8. Kinds(t) /\ Distinct(t)
  <2>1. CASE r.subscribed
    <3>1. t.replies = r.replies /\ Grown(r.invalid, t.invalid, c) /\ r.invalid \in Seq(Cmd)
      BY <2>1 DEF Sends, Client
    <3>2. /\ \A i, j \in DOMAIN t.invalid : t.invalid[i] = t.invalid[j] => i = j
          /\ \A i \in DOMAIN t.invalid :
                t.invalid[i] = c \/ \E k \in DOMAIN r.invalid : t.invalid[i] = r.invalid[k]
      BY <1>2, <1>6, <3>1, Joining DEF Distinct
    <3>3. Kinds(t)
      BY <1>1, <1>3, <1>6, <3>1, <3>2 DEF Kinds
    <3>4. Distinct(t)
      BY <1>2, <1>6, <3>1, <3>2 DEF Distinct
    <3> QED
      BY <3>3, <3>4
  <2>2. CASE ~r.subscribed
    <3>1. t.invalid = r.invalid /\ Grown(r.replies, t.replies, c) /\ r.replies \in Seq(Cmd)
      BY <2>2 DEF Sends, Client
    <3>2. /\ \A i, j \in DOMAIN t.replies : t.replies[i] = t.replies[j] => i = j
          /\ \A i \in DOMAIN t.replies :
                t.replies[i] = c \/ \E k \in DOMAIN r.replies : t.replies[i] = r.replies[k]
      BY <1>2, <1>6, <3>1, Joining DEF Distinct
    <3>3. Kinds(t)
      BY <1>1, <1>3, <1>6, <3>1, <3>2 DEF Kinds
    <3>4. Distinct(t)
      BY <1>2, <1>6, <3>1, <3>2 DEF Distinct
    <3> QED
      BY <3>3, <3>4
  <2> QED
    BY <2>1, <2>2
<1> QED
  BY <1>2, <1>4, <1>5, <1>7, <1>8 DEF Standing

(* The request of c is behind all others.                                  *)
LEMMA IssuedWire ==
  ASSUME NEW r \in Client, NEW t \in Client, NEW c \in Cmd, NEW what \in What, NEW on,
         Issues(r, t, c, what, on)
  PROVE  /\ Len(r.wire) \in Nat /\ Len(t.wire) = Len(r.wire) + 1
         /\ DOMAIN r.wire = 1..Len(r.wire) /\ DOMAIN t.wire = 1..(Len(r.wire) + 1)
         /\ \A j \in DOMAIN r.wire : j \in DOMAIN t.wire /\ t.wire[j] = r.wire[j]
         /\ Len(r.wire) + 1 \in DOMAIN t.wire
         /\ t.wire[Len(r.wire) + 1].by = c
         /\ t.wire[Len(r.wire) + 1].what = what /\ t.wire[Len(r.wire) + 1].on = on
         /\ \A j \in DOMAIN t.wire : j \in DOMAIN r.wire \/ j = Len(r.wire) + 1
<1>1. PICK q \in Request : /\ q.by = c /\ q.what = what /\ q.on = on
                           /\ Grown(r.wire, t.wire, q)
  BY DEF Issues
<1> QED
  BY <1>1 DEF Grown

(* A command sent leaves the callbacks of the channels with a reason.      *)
LEMMA IssuedJoined ==
  ASSUME NEW r \in Client, NEW t \in Client, NEW inc, NEW s, NEW c \in Cmd, NEW what \in What, NEW on,
         Issues(r, t, c, what, on), Joined(r, inc, s),
         \A ch \in Channel : t.channels[ch] # None =>
           r.channels[ch] # None \/ (what = "subscribe" /\ ch \in Named(on)),
         what = "unsubscribe" =>
           Stays(r, inc, on) /\ \A ch \in Named(on) \cap Channel : r.channels[ch] # None
  PROVE  Joined(t, inc, s)
<1>. DEFINE n == Len(r.wire) + 1
<1>1. /\ Len(r.wire) \in Nat /\ DOMAIN r.wire = 1..Len(r.wire)
      /\ \A j \in DOMAIN r.wire : j \in DOMAIN t.wire /\ t.wire[j] = r.wire[j]
      /\ n \in DOMAIN t.wire /\ t.wire[n].what = what /\ t.wire[n].on = on
      /\ \A j \in DOMAIN t.wire : j \in DOMAIN r.wire \/ j = n
  BY IssuedWire
<1>2. \A j \in DOMAIN r.wire : j < n
  BY <1>1
<1> HIDE DEF n
<1>3. \A ch \in Channel : r.channels[ch] # None =>
        \/ ch \in s
        \/ \E j \in DOMAIN r.wire : Asks(r.wire[j], "subscribe", ch)
        \/ \E i \in DOMAIN inc : Tells(inc[i], "unsubscribe", ch)
  BY DEF Joined
<1>4. ASSUME NEW ch \in Channel, t.channels[ch] # None
      PROVE  \/ ch \in s
             \/ \E j \in DOMAIN t.wire : Asks(t.wire[j], "subscribe", ch)
             \/ \E i \in DOMAIN inc : Tells(inc[i], "unsubscribe", ch)
  <2>1. CASE r.channels[ch] # None
    BY <1>1, <1>3, <2>1
  <2>2. CASE what = "subscribe" /\ ch \in Named(on)
    BY <1>1, <2>2 DEF Asks
  <2> QED
    BY <1>4, <2>1, <2>2
<1>5. ASSUME NEW ch \in Channel, NEW j \in DOMAIN t.wire, Asks(t.wire[j], "unsubscribe", ch)
      PROVE  ch \in s \/ \E k \in DOMAIN t.wire : k < j /\ Asks(t.wire[k], "subscribe", ch)
  <2>1. CASE j \in DOMAIN r.wire
    <3>1. ch \in s \/ \E k \in DOMAIN r.wire : k < j /\ Asks(r.wire[k], "subscribe", ch)
      BY <1>1, <1>5, <2>1 DEF Joined
    <3> QED
      BY <1>1, <3>1
  <2>2. CASE j = n
    <3>1. what = "unsubscribe" /\ ch \in Named(on)
      BY <1>1, <1>5, <2>2 DEF Asks
    <3>2. \A i \in DOMAIN inc : ~Tells(inc[i], "unsubscribe", ch)
      BY <3>1 DEF Stays
    <3>3. ch \in s \/ \E k \in DOMAIN r.wire : Asks(r.wire[k], "subscribe", ch)
      BY <1>3, <3>1, <3>2
    <3> QED
      BY <1>1, <1>2, <2>2, <3>3
  <2> QED
    BY <1>1, <2>1, <2>2
<1> QED
  BY <1>4, <1>5 DEF Joined

(* A callback at the end of the queue of replies comes with the request.   *)
LEMMA IssuedAhead ==
  ASSUME NEW r \in Client, NEW t \in Client, NEW inc \in Seq(Reply), NEW s, NEW c \in Cmd,
         NEW what \in What, NEW on, Issues(r, t, c, what, on), Ahead(r, inc, s),
         \/ Len(t.replies) = Len(r.replies)
         \/ /\ Len(t.replies) = Len(r.replies) + 1 /\ s = {} /\ what = "other"
            /\ \A j \in DOMAIN r.wire : r.wire[j].what = "other"
            /\ \A i \in DOMAIN inc : inc[i].what \in Answers
  PROVE  Ahead(t, inc, s)
<1>. DEFINE n == Len(r.wire) + 1
<1>1. /\ Len(r.wire) \in Nat /\ DOMAIN r.wire = 1..Len(r.wire) /\ Len(t.wire) = n
      /\ \A j \in DOMAIN r.wire : j \in DOMAIN t.wire /\ t.wire[j] = r.wire[j]
      /\ n \in DOMAIN t.wire /\ t.wire[n].what = what
      /\ \A j \in DOMAIN t.wire : j \in DOMAIN r.wire \/ j = n
  BY IssuedWire
<1>2. Len(r.replies) \in Nat /\ Len(inc) \in Nat /\ Len(r.replies) <= Len(inc) + Len(r.wire)
  BY DEF Ahead, Client
<1>3. CASE Len(t.replies) = Len(r.replies)
  <2>1. \A j \in DOMAIN t.wire : Len(inc) + j <= Len(t.replies) => t.wire[j].what = "other"
    <3> SUFFICES ASSUME NEW j \in DOMAIN t.wire, Len(inc) + j <= Len(t.replies)
                 PROVE  t.wire[j].what = "other"
      OBVIOUS
    <3>1. j # n
      BY <1>1, <1>2, <1>3
    <3>2. j \in DOMAIN r.wire /\ t.wire[j] = r.wire[j]
      BY <1>1, <3>1
    <3> QED
      BY <1>3, <3>2 DEF Ahead
  <2> QED
    BY <1>1, <1>2, <1>3, <2>1 DEF Ahead
<1>4. CASE /\ Len(t.replies) = Len(r.replies) + 1 /\ s = {} /\ what = "other"
           /\ \A j \in DOMAIN r.wire : r.wire[j].what = "other"
           /\ \A i \in DOMAIN inc : inc[i].what \in Answers
  <2>1. \A j \in DOMAIN t.wire : t.wire[j].what = "other"
    BY <1>1, <1>4
  <2>2. Len(t.replies) <= Len(inc) + Len(t.wire)
    BY <1>1, <1>2, <1>4
  <2> QED
    BY <1>4, <2>1, <2>2 DEF Ahead
<1> QED
  BY <1>3, <1>4

(* SUBSCRIBE keeps what holds until the flag goes under one.               *)
LEMMA SubscribeOrderly ==
  ASSUME NEW r \in Client, NEW t \in Client, NEW inc \in Seq(Reply), NEW s,
         NEW c \in Cmd, NEW on \in Names,
         Subscribes(r, t, c, on), Standing(r, inc), Orderly(r, inc, s)
  PROVE  Orderly(t, inc, s)
<1>1. /\ Issues(r, t, c, "subscribe", on) /\ "subscribe" \in What
      /\ t.replies = r.replies /\ t.invalid = r.invalid /\ t.subscribed = TRUE
      /\ \A ch \in Channel : t.channels[ch] = IF ch \in Named(on) THEN c ELSE r.channels[ch]
  BY DEF Subscribes, What
<1>2. Live(r) /\ Joined(r, inc, s) /\ Emptied(inc, s) /\ Ahead(r, inc, s) /\ Kinds(r)
  BY DEF Orderly, Standing
<1>3. Live(t)
  <2>1. /\ \A i \in DOMAIN r.replies : t.obj[r.replies[i]] = r.obj[r.replies[i]]
        /\ \A i \in DOMAIN r.invalid : t.obj[r.invalid[i]] = r.obj[r.invalid[i]]
        /\ \A ch \in Channel :
              r.channels[ch] # None => t.obj[r.channels[ch]] = r.obj[r.channels[ch]]
    BY <1>1, <1>2, IssuedKinds
  <2>2. t.obj[c] = "live"
    BY <1>1 DEF Issues
  <2> QED
    BY <1>1, <1>2, <2>1, <2>2 DEF Live
<1>4. Joined(t, inc, s)
  BY <1>1, <1>2, IssuedJoined
<1>5. Ahead(t, inc, s)
  BY <1>1, <1>2, IssuedAhead
<1>6. Quiet(t, inc, s)
  BY <1>1 DEF Quiet
<1> QED
  BY <1>2, <1>3, <1>4, <1>5, <1>6 DEF Orderly

(* UNSUBSCRIBE keeps it.                                                   *)
LEMMA UnsubscribeOrderly ==
  ASSUME NEW r \in Client, NEW t \in Client, NEW inc \in Seq(Reply), NEW s,
         NEW c \in Cmd, NEW on \in Names,
         Unsubscribes(r, t, c, on), Standing(r, inc), Orderly(r, inc, s),
         r.subscribed, Stays(r, inc, on), \A ch \in Named(on) : r.channels[ch] # None
  PROVE  Orderly(t, inc, s)
<1>1. /\ Issues(r, t, c, "unsubscribe", on) /\ "unsubscribe" \in What
      /\ t.replies = r.replies /\ t.invalid = r.invalid
      /\ t.channels = r.channels /\ t.subscribed = r.subscribed
  BY DEF Unsubscribes, What
<1>2. Live(r) /\ Joined(r, inc, s) /\ Emptied(inc, s) /\ Ahead(r, inc, s) /\ Kinds(r)
  BY DEF Orderly, Standing
<1>3. Live(t)
  <2>1. /\ \A i \in DOMAIN r.replies : t.obj[r.replies[i]] = r.obj[r.replies[i]]
        /\ \A i \in DOMAIN r.invalid : t.obj[r.invalid[i]] = r.obj[r.invalid[i]]
        /\ \A ch \in Channel :
              r.channels[ch] # None => t.obj[r.channels[ch]] = r.obj[r.channels[ch]]
    BY <1>1, <1>2, IssuedKinds
  <2> QED
    BY <1>1, <1>2, <2>1 DEF Live
<1>4. Joined(t, inc, s)
  BY <1>1, <1>2, IssuedJoined
<1>5. Ahead(t, inc, s)
  BY <1>1, <1>2, IssuedAhead
<1>6. Quiet(t, inc, s)
  BY <1>1 DEF Quiet
<1> QED
  BY <1>2, <1>3, <1>4, <1>5, <1>6 DEF Orderly

(* Another command keeps it: without the flag its request comes next.      *)
LEMMA SendsOrderly ==
  ASSUME NEW r \in Client, NEW t \in Client, NEW inc \in Seq(Reply), NEW s, NEW c \in Cmd,
         Sends(r, t, c), Standing(r, inc), Orderly(r, inc, s)
  PROVE  Orderly(t, inc, s)
<1>1. /\ Issues(r, t, c, "other", <<>>) /\ "other" \in What
      /\ t.channels = r.channels /\ t.subscribed = r.subscribed
  BY DEF Sends, What
<1>2. /\ Live(r) /\ Joined(r, inc, s) /\ Emptied(inc, s) /\ Ahead(r, inc, s)
      /\ Quiet(r, inc, s) /\ Kinds(r) /\ Distinct(r)
  BY DEF Orderly, Standing
<1>3. t.obj[c] = "live"
  BY <1>1 DEF Issues
<1>4. /\ \A i \in DOMAIN r.replies :
           r.replies[i] # c /\ t.obj[r.replies[i]] = r.obj[r.replies[i]]
      /\ \A i \in DOMAIN r.invalid :
           r.invalid[i] # c /\ t.obj[r.invalid[i]] = r.obj[r.invalid[i]]
      /\ \A ch \in Channel :
            r.channels[ch] # None => t.obj[r.channels[ch]] = r.obj[r.channels[ch]]
  BY <1>1, <1>2, IssuedKinds
<1>5. Joined(t, inc, s)
  BY <1>1, <1>2, IssuedJoined
<1>6. CASE r.subscribed
  <2>1. t.replies = r.replies /\ Grown(r.invalid, t.invalid, c) /\ r.invalid \in Seq(Cmd)
    BY <1>6 DEF Sends, Client
  <2>2. \A i \in DOMAIN t.invalid :
          t.invalid[i] = c \/ \E k \in DOMAIN r.invalid : t.invalid[i] = r.invalid[k]
    BY <1>2, <1>4, <2>1, Joining DEF Distinct
  <2>3. Live(t)
    <3>1. \A i \in DOMAIN t.invalid : t.obj[t.invalid[i]] = "live"
      BY <1>2, <1>3, <1>4, <2>2 DEF Live
    <3> QED
      BY <1>1, <1>2, <1>4, <2>1, <3>1 DEF Live
  <2>4. Ahead(t, inc, s)
    BY <1>1, <1>2, <2>1, IssuedAhead
  <2>5. Quiet(t, inc, s)
    BY <1>1, <1>6 DEF Quiet
  <2> QED
    BY <1>2, <1>5, <2>3, <2>4, <2>5 DEF Orderly
<1>7. CASE ~r.subscribed
  <2>1. t.invalid = r.invalid /\ Grown(r.replies, t.replies, c) /\ r.replies \in Seq(Cmd)
    BY <1>7 DEF Sends, Client
  <2>2. \A i \in DOMAIN t.replies :
          t.replies[i] = c \/ \E k \in DOMAIN r.replies : t.replies[i] = r.replies[k]
    BY <1>2, <1>4, <2>1, Joining DEF Distinct
  <2>3. Live(t)
    <3>1. \A i \in DOMAIN t.replies : t.obj[t.replies[i]] = "live"
      BY <1>2, <1>3, <1>4, <2>2 DEF Live
    <3> QED
      BY <1>1, <1>2, <1>4, <2>1, <3>1 DEF Live
  <2>4. /\ s = {} /\ \A ch \in Channel : r.channels[ch] = None
        /\ \A j \in DOMAIN r.wire : r.wire[j].what = "other"
        /\ \A i \in DOMAIN inc : inc[i].what \in Answers
    BY <1>2, <1>7 DEF Quiet
  <2>5. Len(t.replies) = Len(r.replies) + 1
    BY <2>1 DEF Grown
  <2>6. Ahead(t, inc, s)
    BY <1>1, <1>2, <2>4, <2>5, IssuedAhead
  <2>7. \A j \in DOMAIN t.wire : t.wire[j].what = "other"
    BY <1>1, <2>4, IssuedWire
  <2>8. Quiet(t, inc, s)
    BY <1>1, <2>4, <2>7 DEF Quiet
  <2> QED
    BY <1>2, <1>5, <2>3, <2>6, <2>8 DEF Orderly
<1> QED
  BY <1>6, <1>7

(* Without a call of hiredis only the object is there.                     *)
Refuses(r, t, c) ==
  /\ r.sent[c] = "unused" /\ t.sent[c] = "unsubscribe" /\ t.obj[c] = "deleted"
  /\ \A d \in Cmd : d # c => t.sent[d] = r.sent[d] /\ t.obj[d] = r.obj[d]
  /\ t.replies = r.replies /\ t.invalid = r.invalid /\ t.wire = r.wire
  /\ t.channels = r.channels /\ t.subscribed = r.subscribed

(* An UNSUBSCRIBE that is refused changes its own object only.             *)
LEMMA RefusedFields ==
  ASSUME NEW r \in Client, NEW c \in Cmd, r.sent[c] = "unused",
         NEW t, t = [r EXCEPT !.sent[c] = "unsubscribe", !.obj[c] = "deleted"]
  PROVE  t \in Client /\ Refuses(r, t, c)
<1>1. PICK u, o : u = [r.sent EXCEPT ![c] = "unsubscribe"] /\ o = [r.obj EXCEPT ![c] = "deleted"]
  OBVIOUS
<1>2. /\ u \in [Cmd -> What \cup {"unused"}] /\ o \in [Cmd -> {"none", "live", "deleted"}]
      /\ u[c] = "unsubscribe" /\ o[c] = "deleted"
      /\ \A d \in Cmd : d # c => u[d] = r.sent[d] /\ o[d] = r.obj[d]
  BY <1>1 DEF Client, What
<1>3. t = [r EXCEPT !.sent = u, !.obj = o]
  BY <1>1 DEF Client
<1>4. /\ t.sent = u /\ t.obj = o /\ t.replies = r.replies /\ t.invalid = r.invalid
      /\ t.wire = r.wire /\ t.channels = r.channels /\ t.subscribed = r.subscribed
      /\ t \in Client
  BY <1>2, <1>3 DEF Client
<1> QED
  BY <1>2, <1>4 DEF Refuses

(* It disturbs nothing.                                                    *)
LEMMA RefuseKeeps ==
  ASSUME NEW r \in Client, NEW t \in Client, NEW inc, NEW s, NEW c \in Cmd,
         Refuses(r, t, c), Standing(r, inc)
  PROVE  Standing(t, inc) /\ (Orderly(r, inc, s) => Orderly(t, inc, s))
<1>1. Kinds(r) /\ Distinct(r) /\ Fresh(r) /\ Requests(r) /\ LeftOnce(r, inc)
  BY DEF Standing
<1>2. /\ r.sent[c] = "unused" /\ t.sent[c] = "unsubscribe" /\ t.obj[c] = "deleted"
      /\ \A d \in Cmd : d # c => t.sent[d] = r.sent[d] /\ t.obj[d] = r.obj[d]
      /\ t.replies = r.replies /\ t.invalid = r.invalid /\ t.wire = r.wire
      /\ t.channels = r.channels /\ t.subscribed = r.subscribed
  BY DEF Refuses
<1>3. /\ \A i \in DOMAIN r.replies : LET d == r.replies[i] IN d \in Cmd /\ d # c
      /\ \A i \in DOMAIN r.invalid : LET d == r.invalid[i] IN d \in Cmd /\ d # c
      /\ \A ch \in Channel : LET d == r.channels[ch] IN d # None => d \in Cmd /\ d # c
      /\ \A j \in DOMAIN r.wire : r.wire[j].by \in Cmd /\ r.wire[j].what \in What
  <2>1. /\ \A i \in DOMAIN r.replies : r.replies[i] \in Cmd
        /\ \A i \in DOMAIN r.invalid : r.invalid[i] \in Cmd
        /\ \A ch \in Channel : r.channels[ch] # None => r.channels[ch] \in Cmd
    BY DEF Client
  <2>2. \A j \in DOMAIN r.wire : r.wire[j].by \in Cmd /\ r.wire[j].what \in What
    <3>1. \A j \in DOMAIN r.wire : r.wire[j] \in Request
      BY DEF Client
    <3> QED
      BY <3>1 DEF Request
  <2>3. /\ \A i \in DOMAIN r.replies : r.replies[i] # c
        /\ \A i \in DOMAIN r.invalid : r.invalid[i] # c
        /\ \A ch \in Channel : r.channels[ch] # None => r.channels[ch] # c
    BY <1>1, <1>2 DEF Kinds
  <2> QED
    BY <2>1, <2>2, <2>3
<1>4. \A j \in DOMAIN r.wire : r.wire[j].by # c
  BY <1>1, <1>2, <1>3 DEF Requests, What
<1>5. Kinds(t) /\ Distinct(t) /\ Fresh(t) /\ (t.subscribed => Subscriber(t))
  <2>1. Kinds(t)
    BY <1>1, <1>2, <1>3 DEF Kinds
  <2>2. Distinct(t)
    BY <1>1, <1>2 DEF Distinct
  <2>3. Fresh(t)
    BY <1>1, <1>2 DEF Fresh
  <2>4. Subscriber(r) => Subscriber(t)
    BY <1>2 DEF Subscriber
  <2> QED
    BY <1>2, <2>1, <2>2, <2>3, <2>4 DEF Standing
<1>6. Requests(t)
  <2>1. Cardinality(Used(t)) = Cardinality(Used(r)) + 1
    <3>1. "unsubscribe" \in What
      BY DEF What
    <3> QED
      BY <1>2, <3>1, SentMore
  <2>2. Len(t.wire) <= Cardinality(Used(t))
    <3>1. Len(r.wire) <= Cardinality(Used(r)) /\ Len(r.wire) \in Nat
      BY <1>1 DEF Requests, Client
    <3> QED
      BY <1>2, <2>1, <3>1, UsedFinite
  <2>3. \A j \in DOMAIN r.wire : t.sent[r.wire[j].by] = r.sent[r.wire[j].by]
    BY <1>2, <1>3, <1>4
  <2> QED
    BY <1>1, <1>2, <2>2, <2>3 DEF Requests
<1>7. LeftOnce(t, inc)
  BY <1>1, <1>2 DEF LeftOnce
<1>8. ASSUME Orderly(r, inc, s) PROVE Orderly(t, inc, s)
  <2>1. Live(r) /\ Joined(r, inc, s) /\ Emptied(inc, s) /\ Ahead(r, inc, s) /\ Quiet(r, inc, s)
    BY <1>8 DEF Orderly
  <2>2. Live(t)
    BY <1>2, <1>3, <2>1 DEF Live
  <2>3. Joined(t, inc, s)
    BY <1>2, <2>1 DEF Joined
  <2>4. Ahead(t, inc, s)
    BY <1>2, <2>1 DEF Ahead
  <2>5. Quiet(t, inc, s)
    BY <1>2, <2>1 DEF Quiet
  <2> QED
    BY <2>1, <2>2, <2>3, <2>4, <2>5 DEF Orderly
<1> QED
  BY <1>5, <1>6, <1>7, <1>8 DEF Standing

-----------------------------------------------------------------------------
(* A callback of hiredis: something comes off what is on its way back, and *)
(* off a queue.                                                            *)

(* Nobody will call c again.                                               *)
Free(r, c) ==
  /\ r.sent[c] # "unused"
  /\ \A i \in DOMAIN r.replies : r.replies[i] # c
  /\ \A i \in DOMAIN r.invalid : r.invalid[i] # c
  /\ \A ch \in Channel : r.channels[ch] # c

(* A channel is still left once when the first reply is taken.             *)
LEMMA ShiftLeft ==
  ASSUME NEW r, NEW inc, NEW k, Shrunk(inc, k), LeftOnce(r, inc)
  PROVE  LeftOnce(r, k)
<1>1. \A i \in DOMAIN k : i + 1 \in DOMAIN inc /\ k[i] = inc[i + 1] /\ i \in Nat
  BY DEF Shrunk
<1>2. ASSUME NEW ch \in Channel, NEW i \in DOMAIN k, NEW j \in DOMAIN k,
             Tells(k[i], "unsubscribe", ch), Tells(k[j], "unsubscribe", ch)
      PROVE  i = j
  <2>1. i + 1 = j + 1
    BY <1>1, <1>2 DEF LeftOnce
  <2> QED
    BY <1>1, <2>1
<1>3. \A ch \in Channel, i \in DOMAIN k, j \in DOMAIN r.wire :
        ~(Tells(k[i], "unsubscribe", ch) /\ Asks(r.wire[j], "unsubscribe", ch))
  BY <1>1 DEF LeftOnce
<1> QED
  BY <1>2, <1>3 DEF LeftOnce

(* What follows the last channel still does.                               *)
LEMMA ShiftEmptied ==
  ASSUME NEW inc, NEW k, Shrunk(inc, k), NEW s, Emptied(inc, s)
  PROVE  Emptied(k, s)
<1>1. /\ \A i \in DOMAIN k : i + 1 \in DOMAIN inc /\ k[i] = inc[i + 1] /\ i \in Nat
      /\ \A i \in DOMAIN inc : i \in Nat /\ (i = 1 \/ (i - 1 \in DOMAIN k /\ k[i - 1] = inc[i]))
  BY DEF Shrunk
<1> SUFFICES ASSUME NEW i \in DOMAIN k, k[i].what = "unsubscribe", k[i].left = 0
             PROVE  \/ \E j \in DOMAIN k : j > i /\ k[j].what = "subscribe"
                    \/ s = {} /\ \A j \in DOMAIN k : j > i => k[j].what \in Answers
  BY DEF Emptied
<1>2. /\ i + 1 \in DOMAIN inc /\ i \in Nat
      /\ \/ \E j \in DOMAIN inc : j > i + 1 /\ inc[j].what = "subscribe"
         \/ s = {} /\ \A j \in DOMAIN inc : j > i + 1 => inc[j].what \in Answers
  BY <1>1 DEF Emptied
<1>3. CASE \E j \in DOMAIN inc : j > i + 1 /\ inc[j].what = "subscribe"
  <2>1. PICK j \in DOMAIN inc : j > i + 1 /\ inc[j].what = "subscribe"
    BY <1>3
  <2>2. j - 1 \in DOMAIN k /\ k[j - 1].what = "subscribe" /\ j - 1 > i
    BY <1>1, <1>2, <2>1
  <2> QED
    BY <2>2
<1>4. CASE s = {} /\ \A j \in DOMAIN inc : j > i + 1 => inc[j].what \in Answers
  <2>1. \A j \in DOMAIN k : j > i => j + 1 > i + 1
    BY <1>1, <1>2
  <2> QED
    BY <1>1, <1>4, <2>1
<1> QED
  BY <1>2, <1>3, <1>4

(* A channel whose UNSUBSCRIBE is answered has no callback left.           *)
LEMMA ShiftJoined ==
  ASSUME NEW r, NEW inc, NEW k, Shrunk(inc, k), NEW s, Joined(r, inc, s),
         \A ch \in Channel : Tells(inc[1], "unsubscribe", ch) => r.channels[ch] = None
  PROVE  Joined(r, k, s)
<1>1. \A i \in DOMAIN inc : i = 1 \/ (i - 1 \in DOMAIN k /\ k[i - 1] = inc[i])
  BY DEF Shrunk
<1>2. ASSUME NEW ch \in Channel, r.channels[ch] # None
      PROVE  \/ ch \in s
             \/ \E j \in DOMAIN r.wire : Asks(r.wire[j], "subscribe", ch)
             \/ \E i \in DOMAIN k : Tells(k[i], "unsubscribe", ch)
  <2>1. CASE \E i \in DOMAIN inc : Tells(inc[i], "unsubscribe", ch)
    <3>1. PICK i \in DOMAIN inc : Tells(inc[i], "unsubscribe", ch)
      BY <2>1
    <3>2. i # 1
      BY <1>2, <3>1
    <3> QED
      BY <1>1, <3>1, <3>2
  <2> QED
    BY <1>2, <2>1 DEF Joined
<1>3. \A ch \in Channel, j \in DOMAIN r.wire : Asks(r.wire[j], "unsubscribe", ch) =>
        ch \in s \/ \E l \in DOMAIN r.wire : l < j /\ Asks(r.wire[l], "subscribe", ch)
  BY DEF Joined
<1> QED
  BY <1>2, <1>3 DEF Joined

(* Without the flag there is still nothing of channels.                    *)
LEMMA ShiftQuiet ==
  ASSUME NEW r, NEW inc, NEW k, Shrunk(inc, k), NEW s, Quiet(r, inc, s)
  PROVE  Quiet(r, k, s)
<1>1. \A i \in DOMAIN k : i + 1 \in DOMAIN inc /\ k[i] = inc[i + 1]
  BY DEF Shrunk
<1> QED
  BY <1>1 DEF Quiet

(* The queue of replies is empty, or it goes along.                        *)
LEMMA ShiftAhead ==
  ASSUME NEW r \in Client, NEW t \in Client, NEW inc \in Seq(Reply), NEW k, Shrunk(inc, k), NEW s,
         Ahead(r, inc, s), t.wire = r.wire,
         t.replies = <<>> \/ Shrunk(r.replies, t.replies)
  PROVE  Ahead(t, k, s)
<1>1. /\ Len(inc) \in Nat /\ Len(k) \in Nat /\ Len(inc) = Len(k) + 1
      /\ DOMAIN k = 1..Len(k)
      /\ \A i \in DOMAIN k : i + 1 \in DOMAIN inc /\ k[i] = inc[i + 1]
  BY DEF Shrunk
<1>2. Len(r.wire) \in Nat /\ DOMAIN r.wire = 1..Len(r.wire)
  BY DEF Client
<1>3. CASE t.replies = <<>>
  <2>1. Len(t.replies) = 0
    BY <1>3
  <2> QED
    BY <1>1, <1>2, <2>1 DEF Ahead
<1>4. CASE Shrunk(r.replies, t.replies)
  <2>1. Len(r.replies) \in Nat /\ Len(t.replies) \in Nat /\ Len(r.replies) = Len(t.replies) + 1
    BY <1>4 DEF Shrunk
  <2>2. /\ \A i \in DOMAIN inc : i <= Len(r.replies) => inc[i].what \in Answers
        /\ Len(r.replies) <= Len(inc) + Len(r.wire)
        /\ \A j \in DOMAIN r.wire : Len(inc) + j <= Len(r.replies) => r.wire[j].what = "other"
        /\ s # {} => Len(r.replies) <= Len(inc)
    BY DEF Ahead
  <2>3. \A i \in DOMAIN k : i <= Len(t.replies) => i + 1 <= Len(r.replies)
    BY <1>1, <2>1
  <2>4. \A i \in DOMAIN k : i <= Len(t.replies) => k[i].what \in Answers
    BY <1>1, <2>2, <2>3
  <2>5. \A j \in DOMAIN r.wire : Len(k) + j <= Len(t.replies) => Len(inc) + j <= Len(r.replies)
    BY <1>1, <1>2, <2>1
  <2>6. \A j \in DOMAIN t.wire : Len(k) + j <= Len(t.replies) => t.wire[j].what = "other"
    BY <2>2, <2>5
  <2>7. Len(t.replies) <= Len(k) + Len(t.wire) /\ (s # {} => Len(t.replies) <= Len(k))
    <3>1. \A a, b, d, e, w \in Nat : a = b + 1 /\ d = e + 1 =>
            (d <= a + w => e <= b + w) /\ (d <= a => e <= b)
      OBVIOUS
    <3>2. Len(t.wire) = Len(r.wire)
      OBVIOUS
    <3> QED
      BY <1>1, <1>2, <2>1, <2>2, <3>1, <3>2
  <2> QED
    BY <2>4, <2>6, <2>7 DEF Ahead
<1> QED
  BY <1>3, <1>4

(* The record after the oldest callback is taken from a queue.             *)
TakesReply(r, t) ==
  /\ Shrunk(r.replies, t.replies) /\ t.invalid = r.invalid
  /\ t.sent = r.sent /\ t.obj = r.obj /\ t.wire = r.wire
  /\ t.channels = r.channels /\ t.subscribed = r.subscribed

TakesInvalid(r, t) ==
  /\ Shrunk(r.invalid, t.invalid) /\ t.replies = r.replies
  /\ t.sent = r.sent /\ t.obj = r.obj /\ t.wire = r.wire
  /\ t.channels = r.channels /\ t.subscribed = r.subscribed

Leaves(r, t, ch, last) ==
  /\ t.replies = r.replies /\ t.invalid = r.invalid
  /\ t.sent = r.sent /\ t.obj = r.obj /\ t.wire = r.wire
  /\ t.subscribed = ~last /\ t.channels[ch] = None
  /\ \A d \in Channel : d # ch => t.channels[d] = r.channels[d]

(* What the three ways to take a reply change.                             *)
LEMMA TakenFields ==
  ASSUME NEW r \in Client, NEW t
  PROVE  /\ r.replies # <<>> /\ t = [r EXCEPT !.replies = Tail(@)] =>
              t \in Client /\ TakesReply(r, t) /\ Head(r.replies) \in Cmd
              /\ Head(r.replies) = r.replies[1]
         /\ r.invalid # <<>> /\ t = [r EXCEPT !.invalid = Tail(@)] =>
              t \in Client /\ TakesInvalid(r, t) /\ Head(r.invalid) \in Cmd
              /\ Head(r.invalid) = r.invalid[1]
         /\ \A ch \in Channel, last \in BOOLEAN :
              t = Left(r, ch, last) => t \in Client /\ Leaves(r, t, ch, last)
<1>1. ASSUME r.replies # <<>>, t = [r EXCEPT !.replies = Tail(@)]
      PROVE  t \in Client /\ TakesReply(r, t) /\ Head(r.replies) \in Cmd
             /\ Head(r.replies) = r.replies[1]
  <2>1. PICK m : m = Tail(r.replies)
    OBVIOUS
  <2>2. /\ m \in Seq(Cmd) /\ Head(r.replies) \in Cmd /\ Head(r.replies) = r.replies[1]
        /\ Shrunk(r.replies, m)
    BY <1>1, <2>1, Popping DEF Client
  <2>3. t = [r EXCEPT !.replies = m]
    BY <1>1, <2>1
  <2>4. /\ t \in Client /\ t.replies = m /\ t.invalid = r.invalid
        /\ t.sent = r.sent /\ t.obj = r.obj /\ t.wire = r.wire
        /\ t.channels = r.channels /\ t.subscribed = r.subscribed
    BY <2>2, <2>3 DEF Client
  <2> QED
    BY <2>2, <2>4, Zenon DEF TakesReply
<1>2. ASSUME r.invalid # <<>>, t = [r EXCEPT !.invalid = Tail(@)]
      PROVE  t \in Client /\ TakesInvalid(r, t) /\ Head(r.invalid) \in Cmd
             /\ Head(r.invalid) = r.invalid[1]
  <2>1. PICK m : m = Tail(r.invalid)
    OBVIOUS
  <2>2. /\ m \in Seq(Cmd) /\ Head(r.invalid) \in Cmd /\ Head(r.invalid) = r.invalid[1]
        /\ Shrunk(r.invalid, m)
    BY <1>2, <2>1, Popping DEF Client
  <2>3. t = [r EXCEPT !.invalid = m]
    BY <1>2, <2>1
  <2>4. /\ t \in Client /\ t.invalid = m /\ t.replies = r.replies
        /\ t.sent = r.sent /\ t.obj = r.obj /\ t.wire = r.wire
        /\ t.channels = r.channels /\ t.subscribed = r.subscribed
    BY <2>2, <2>3 DEF Client
  <2> QED
    BY <2>2, <2>4, Zenon DEF TakesInvalid
<1>3. ASSUME NEW ch \in Channel, NEW last \in BOOLEAN, t = Left(r, ch, last)
      PROVE  t \in Client /\ Leaves(r, t, ch, last)
  <2>1. PICK f : f = [r.channels EXCEPT ![ch] = None]
    OBVIOUS
  <2>2. /\ f \in [Channel -> Cmd \cup {None}] /\ f[ch] = None
        /\ \A d \in Channel : d # ch => f[d] = r.channels[d]
    BY <2>1 DEF Client
  <2>3. t = [r EXCEPT !.channels = f, !.subscribed = ~last]
    BY <1>3, <2>1 DEF Left, Client
  <2>4. /\ t \in Client /\ t.replies = r.replies /\ t.invalid = r.invalid
        /\ t.sent = r.sent /\ t.obj = r.obj /\ t.wire = r.wire
        /\ t.subscribed = ~last /\ t.channels = f
    BY <2>2, <2>3 DEF Client
  <2> QED
    BY <2>2, <2>4 DEF Leaves
<1> QED
  BY <1>1, <1>2, <1>3

(* A queue without its first element.                                      *)
LEMMA Leaving1 ==
  ASSUME NEW m, NEW t, Shrunk(m, t), \A i, j \in DOMAIN m : m[i] = m[j] => i = j
  PROVE  /\ 1 \in DOMAIN m
         /\ \A i \in DOMAIN t : t[i] # m[1]
         /\ \A i \in DOMAIN t : \E k \in DOMAIN m : t[i] = m[k]
         /\ \A i, j \in DOMAIN t : t[i] = t[j] => i = j
<1>1. /\ Len(m) \in Nat /\ Len(t) \in Nat /\ Len(m) = Len(t) + 1
      /\ DOMAIN m = 1..Len(m) /\ DOMAIN t = 1..Len(t)
      /\ \A i \in 1..Len(t) : t[i] = m[i + 1] /\ i + 1 \in 1..Len(m)
  BY DEF Shrunk
<1>2. \A i \in DOMAIN t : i + 1 \in DOMAIN m /\ i + 1 # 1 /\ t[i] = m[i + 1] /\ i \in Nat
  BY <1>1
<1>3. 1 \in DOMAIN m
  BY <1>1
<1>4. ASSUME NEW i \in DOMAIN t, NEW j \in DOMAIN t, t[i] = t[j] PROVE i = j
  <2>1. i + 1 = j + 1
    BY <1>2, <1>4
  <2> QED
    BY <1>2, <2>1
<1> QED
  BY <1>2, <1>3, <1>4

(* The first of the queue of replies: its object is there.                 *)
LEMMA ReplyTaken ==
  ASSUME NEW r \in Client, NEW t \in Client, NEW inc \in Seq(Reply), NEW k, Shrunk(inc, k), NEW s,
         TakesReply(r, t), Standing(r, inc)
  PROVE  /\ Standing(t, k) /\ Free(t, r.replies[1])
         /\ Orderly(r, inc, s) => Orderly(t, k, s) /\ t.obj[r.replies[1]] = "live"
<1>1. /\ Shrunk(r.replies, t.replies) /\ t.invalid = r.invalid
      /\ t.sent = r.sent /\ t.obj = r.obj /\ t.wire = r.wire
      /\ t.channels = r.channels /\ t.subscribed = r.subscribed
  BY DEF TakesReply
<1>2. Kinds(r) /\ Distinct(r) /\ Fresh(r) /\ Requests(r) /\ LeftOnce(r, inc)
  BY DEF Standing
<1>3. /\ 1 \in DOMAIN r.replies
      /\ \A i \in DOMAIN t.replies : t.replies[i] # r.replies[1]
      /\ \A i \in DOMAIN t.replies : \E n \in DOMAIN r.replies : t.replies[i] = r.replies[n]
      /\ \A i, j \in DOMAIN t.replies : t.replies[i] = t.replies[j] => i = j
  BY <1>1, <1>2, Leaving1 DEF Distinct
<1>4. Kinds(t)
  BY <1>1, <1>2, <1>3 DEF Kinds
<1>5. Distinct(t)
  BY <1>1, <1>2, <1>3 DEF Distinct
<1>6. LeftOnce(t, k)
  <2>1. LeftOnce(r, k)
    BY <1>2, ShiftLeft
  <2> QED
    BY <1>1, <2>1 DEF LeftOnce
<1>7. Fresh(t) /\ Requests(t) /\ (t.subscribed => Subscriber(t))
  BY <1>1, <1>2 DEF Standing, Fresh, Requests, Used, Subscriber
<1>8. Free(t, r.replies[1])
  <2>1. r.sent[r.replies[1]] = "other" /\ r.replies[1] \in Cmd
    BY <1>2, <1>3 DEF Kinds, Client
  <2>2. \A i \in DOMAIN t.invalid : t.invalid[i] # r.replies[1]
    BY <1>1, <1>2, <1>3 DEF Distinct
  <2>3. \A ch \in Channel : t.channels[ch] # r.replies[1]
    BY <1>1, <1>2, <2>1, SubscriptionAssumption DEF Kinds
  <2> QED
    BY <1>1, <1>3, <2>1, <2>2, <2>3 DEF Free
<1>9. ASSUME Orderly(r, inc, s) PROVE Orderly(t, k, s) /\ t.obj[r.replies[1]] = "live"
  <2>1. Live(r) /\ Joined(r, inc, s) /\ Emptied(inc, s) /\ Ahead(r, inc, s) /\ Quiet(r, inc, s)
    BY <1>9 DEF Orderly
  <2>2. Live(t) /\ t.obj[r.replies[1]] = "live"
    BY <1>1, <1>3, <2>1 DEF Live
  <2>3. ~ \E ch \in Channel : Tells(inc[1], "unsubscribe", ch)
    <3>1. Len(r.replies) >= 1 /\ 1 \in DOMAIN inc
      BY <1>1 DEF Shrunk
    <3>2. inc[1].what \in Answers
      BY <2>1, <3>1 DEF Ahead
    <3> QED
      BY <3>2 DEF Tells, Answers
  <2>4. Joined(r, k, s)
    BY <2>1, <2>3, ShiftJoined
  <2>5. Joined(t, k, s)
    BY <1>1, <2>4 DEF Joined
  <2>6. Ahead(t, k, s)
    BY <1>1, <2>1, ShiftAhead
  <2>7. Quiet(t, k, s)
    <3>1. Quiet(r, k, s)
      BY <2>1, ShiftQuiet
    <3> QED
      BY <1>1, <3>1 DEF Quiet
  <2>8. Emptied(k, s)
    BY <2>1, ShiftEmptied
  <2> QED
    BY <2>2, <2>5, <2>6, <2>7, <2>8 DEF Orderly
<1> QED
  BY <1>4, <1>5, <1>6, <1>7, <1>8, <1>9 DEF Standing

(* The first of the other queue, when the queue of replies is empty.       *)
LEMMA InvalidTaken ==
  ASSUME NEW r \in Client, NEW t \in Client, NEW inc \in Seq(Reply), NEW k, Shrunk(inc, k), NEW s,
         TakesInvalid(r, t), Standing(r, inc), r.replies = <<>>, inc[1].what = "data"
  PROVE  /\ Standing(t, k) /\ Free(t, r.invalid[1])
         /\ Orderly(r, inc, s) => Orderly(t, k, s) /\ t.obj[r.invalid[1]] = "live"
<1>1. /\ Shrunk(r.invalid, t.invalid) /\ t.replies = r.replies
      /\ t.sent = r.sent /\ t.obj = r.obj /\ t.wire = r.wire
      /\ t.channels = r.channels /\ t.subscribed = r.subscribed
  BY DEF TakesInvalid
<1>2. Kinds(r) /\ Distinct(r) /\ Fresh(r) /\ Requests(r) /\ LeftOnce(r, inc)
  BY DEF Standing
<1>3. /\ 1 \in DOMAIN r.invalid
      /\ \A i \in DOMAIN t.invalid : t.invalid[i] # r.invalid[1]
      /\ \A i \in DOMAIN t.invalid : \E n \in DOMAIN r.invalid : t.invalid[i] = r.invalid[n]
      /\ \A i, j \in DOMAIN t.invalid : t.invalid[i] = t.invalid[j] => i = j
  BY <1>1, <1>2, Leaving1 DEF Distinct
<1>4. Kinds(t)
  BY <1>1, <1>2, <1>3 DEF Kinds
<1>5. Distinct(t)
  BY <1>1, <1>2, <1>3 DEF Distinct
<1>6. LeftOnce(t, k)
  <2>1. LeftOnce(r, k)
    BY <1>2, ShiftLeft
  <2> QED
    BY <1>1, <2>1 DEF LeftOnce
<1>7. Fresh(t) /\ Requests(t) /\ (t.subscribed => Subscriber(t))
  BY <1>1, <1>2 DEF Standing, Fresh, Requests, Used, Subscriber
<1>8. Free(t, r.invalid[1])
  <2>1. r.sent[r.invalid[1]] = "other" /\ r.invalid[1] \in Cmd
    BY <1>2, <1>3 DEF Kinds, Client
  <2>2. \A i \in DOMAIN t.replies : t.replies[i] # r.invalid[1]
    BY <1>1, <1>2, <1>3 DEF Distinct
  <2>3. \A ch \in Channel : t.channels[ch] # r.invalid[1]
    BY <1>1, <1>2, <2>1, SubscriptionAssumption DEF Kinds
  <2> QED
    BY <1>1, <1>3, <2>1, <2>2, <2>3 DEF Free
<1>9. ASSUME Orderly(r, inc, s) PROVE Orderly(t, k, s) /\ t.obj[r.invalid[1]] = "live"
  <2>1. Live(r) /\ Joined(r, inc, s) /\ Emptied(inc, s) /\ Ahead(r, inc, s) /\ Quiet(r, inc, s)
    BY <1>9 DEF Orderly
  <2>2. Live(t) /\ t.obj[r.invalid[1]] = "live"
    BY <1>1, <1>3, <2>1 DEF Live
  <2>3. Joined(r, k, s)
    BY <2>1, ShiftJoined DEF Tells
  <2>4. Joined(t, k, s)
    BY <1>1, <2>3 DEF Joined
  <2>5. Ahead(t, k, s)
    BY <1>1, <2>1, ShiftAhead
  <2>6. Quiet(t, k, s)
    <3>1. Quiet(r, k, s)
      BY <2>1, ShiftQuiet
    <3> QED
      BY <1>1, <3>1 DEF Quiet
  <2>7. Emptied(k, s)
    BY <2>1, ShiftEmptied
  <2> QED
    BY <2>2, <2>4, <2>5, <2>6, <2>7 DEF Orderly
<1> QED
  BY <1>4, <1>5, <1>6, <1>7, <1>8, <1>9 DEF Standing

(* Nobody hears of it, or the callback of a channel that is kept.          *)
LEMMA NothingTaken ==
  ASSUME NEW r \in Client, NEW inc \in Seq(Reply), NEW k, Shrunk(inc, k), NEW s,
         Standing(r, inc), r.replies = <<>>,
         \A ch \in Channel : Tells(inc[1], "unsubscribe", ch) => r.channels[ch] = None
  PROVE  Standing(r, k) /\ (Orderly(r, inc, s) => Orderly(r, k, s))
<1>1. Standing(r, k)
  BY ShiftLeft DEF Standing
<1>2. ASSUME Orderly(r, inc, s) PROVE Orderly(r, k, s)
  <2>1. Live(r) /\ Joined(r, inc, s) /\ Emptied(inc, s) /\ Ahead(r, inc, s) /\ Quiet(r, inc, s)
    BY <1>2 DEF Orderly
  <2>2. Joined(r, k, s)
    BY <2>1, ShiftJoined
  <2>3. Ahead(r, k, s)
    BY <2>1, ShiftAhead
  <2> QED
    BY <2>1, <2>2, <2>3, ShiftQuiet, ShiftEmptied DEF Orderly
<1> QED
  BY <1>1, <1>2

(* The reply to the UNSUBSCRIBE of the last channel.                        *)
LastOf(p) == p.what = "unsubscribe" /\ p.left = 0

NoSubscribe(r, inc) ==
  /\ \A j \in DOMAIN r.wire : r.wire[j].what # "subscribe"
  /\ \A i \in DOMAIN inc : inc[i].what # "subscribe"

(* After the last channel there is nothing subscribed, if no SUBSCRIBE is  *)
(* under way, and what the node says next is for the queues.               *)
LEMMA LastLeft ==
  ASSUME NEW r \in Client, NEW inc \in Seq(Reply), NEW k, Shrunk(inc, k), NEW s,
         NEW ch \in Channel, Tells(inc[1], "unsubscribe", ch), inc[1].left = 0,
         Requests(r), Joined(r, inc, s), Emptied(inc, s), NoSubscribe(r, inc)
  PROVE  /\ s = {} /\ \A d \in Channel : d # ch => r.channels[d] = None
         /\ \A j \in DOMAIN r.wire : r.wire[j].what = "other"
         /\ \A i \in DOMAIN k : k[i].what \in Answers
<1>1. /\ 1 \in DOMAIN inc /\ \A i \in DOMAIN inc : i = 1 \/ i > 1
      /\ \A i \in DOMAIN k : i + 1 \in DOMAIN inc /\ i + 1 > 1 /\ k[i] = inc[i + 1]
  BY DEF Shrunk
<1>2. s = {} /\ \A j \in DOMAIN inc : j > 1 => inc[j].what \in Answers
  BY <1>1 DEF Tells, Emptied, NoSubscribe
<1>3. \A d \in Channel : d # ch => r.channels[d] = None
  <2> SUFFICES ASSUME NEW d \in Channel, d # ch, r.channels[d] # None PROVE FALSE
    OBVIOUS
  <2>1. \E i \in DOMAIN inc : Tells(inc[i], "unsubscribe", d)
    BY <1>2 DEF Joined, NoSubscribe, Asks
  <2>2. PICK i \in DOMAIN inc : Tells(inc[i], "unsubscribe", d)
    BY <2>1
  <2>3. i # 1
    BY <2>2 DEF Tells
  <2>4. inc[i].what \in Answers
    BY <1>1, <1>2, <2>3
  <2> QED
    BY <2>2, <2>4 DEF Tells, Answers
<1>4. \A j \in DOMAIN r.wire : r.wire[j].what = "other"
  <2> SUFFICES ASSUME NEW j \in DOMAIN r.wire, r.wire[j].what # "other" PROVE FALSE
    OBVIOUS
  <2>1. r.wire[j] \in Request
    BY DEF Client
  <2>2. r.wire[j].what = "unsubscribe" /\ r.wire[j].on \in Names
    BY <2>1 DEF NoSubscribe, Request, What, Requests
  <2>3. r.wire[j].on[1] \in Named(r.wire[j].on) /\ r.wire[j].on[1] \in Channel
    BY <2>2, NamesFacts
  <2>4. Asks(r.wire[j], "unsubscribe", r.wire[j].on[1])
    BY <2>2, <2>3 DEF Asks
  <2> QED
    BY <1>2, <2>3, <2>4 DEF Joined, NoSubscribe, Asks
<1>5. \A i \in DOMAIN k : k[i].what \in Answers
  BY <1>1, <1>2
<1> QED
  BY <1>2, <1>3, <1>4, <1>5

(* The callback of a channel that is left, and the flag with the last.     *)
LEMMA ChannelLeft ==
  ASSUME NEW r \in Client, NEW t \in Client, NEW inc \in Seq(Reply), NEW k, Shrunk(inc, k), NEW s,
         NEW ch \in Channel, Tells(inc[1], "unsubscribe", ch), Leaves(r, t, ch, LastOf(inc[1])),
         Standing(r, inc), r.replies = <<>>, r.subscribed, r.channels[ch] # None
  PROVE  /\ Standing(t, k) /\ t.sent[r.channels[ch]] = "subscribe"
         /\ Orderly(r, inc, s) /\ (LastOf(inc[1]) => NoSubscribe(r, inc)) =>
              /\ Orderly(t, k, s) /\ t.obj[r.channels[ch]] = "live"
              /\ LastOf(inc[1]) => Free(t, r.channels[ch])
<1>1. /\ t.replies = r.replies /\ t.invalid = r.invalid
      /\ t.sent = r.sent /\ t.obj = r.obj /\ t.wire = r.wire
      /\ t.subscribed = ~LastOf(inc[1]) /\ t.channels[ch] = None
      /\ \A d \in Channel : d # ch => t.channels[d] = r.channels[d]
      /\ \A d \in Channel : t.channels[d] # None => t.channels[d] = r.channels[d]
  BY DEF Leaves
<1>2. Kinds(r) /\ Distinct(r) /\ Fresh(r) /\ Requests(r) /\ LeftOnce(r, inc) /\ Subscriber(r)
  BY DEF Standing
<1>3. Standing(t, k)
  <2>1. LeftOnce(t, k)
    <3>1. LeftOnce(r, k)
      BY <1>2, ShiftLeft
    <3> QED
      BY <1>1, <3>1 DEF LeftOnce
  <2>2. Kinds(t)
    BY <1>1, <1>2 DEF Kinds
  <2>3. Distinct(t) /\ Fresh(t) /\ Requests(t) /\ Subscriber(t)
    BY <1>1, <1>2 DEF Distinct, Fresh, Requests, Used, Subscriber
  <2> QED
    BY <2>1, <2>2, <2>3 DEF Standing
<1>4. t.sent[r.channels[ch]] = "subscribe"
  BY <1>1, <1>2 DEF Kinds
<1>5. ASSUME Orderly(r, inc, s), LastOf(inc[1]) => NoSubscribe(r, inc)
      PROVE  /\ Orderly(t, k, s) /\ t.obj[r.channels[ch]] = "live"
             /\ LastOf(inc[1]) => Free(t, r.channels[ch])
  <2>1. Live(r) /\ Joined(r, inc, s) /\ Emptied(inc, s) /\ Ahead(r, inc, s) /\ Quiet(r, inc, s)
    BY <1>5 DEF Orderly
  <2>2. Live(t) /\ t.obj[r.channels[ch]] = "live"
    BY <1>1, <2>1 DEF Live
  <2>3. Joined(t, inc, s)
    <3>1. /\ \A d \in Channel : r.channels[d] # None =>
               \/ d \in s
               \/ \E j \in DOMAIN r.wire : Asks(r.wire[j], "subscribe", d)
               \/ \E i \in DOMAIN inc : Tells(inc[i], "unsubscribe", d)
          /\ \A d \in Channel, j \in DOMAIN r.wire : Asks(r.wire[j], "unsubscribe", d) =>
               d \in s \/ \E n \in DOMAIN r.wire : n < j /\ Asks(r.wire[n], "subscribe", d)
      BY <2>1 DEF Joined
    <3>2. \A d \in Channel : t.channels[d] # None => r.channels[d] # None
      BY <1>1
    <3> QED
      BY <1>1, <3>1, <3>2 DEF Joined
  <2>4. Joined(t, k, s)
    <3>1. \A d \in Channel : Tells(inc[1], "unsubscribe", d) => d = ch
      BY DEF Tells
    <3> QED
      BY <1>1, <2>3, <3>1, ShiftJoined
  <2>5. Ahead(t, k, s)
    BY <1>1, <2>1, ShiftAhead
  <2>6. LastOf(inc[1]) =>
          /\ s = {} /\ \A d \in Channel : t.channels[d] = None
          /\ \A j \in DOMAIN t.wire : t.wire[j].what = "other"
          /\ \A i \in DOMAIN k : k[i].what \in Answers
    <3> SUFFICES ASSUME LastOf(inc[1])
                 PROVE  /\ s = {} /\ \A d \in Channel : t.channels[d] = None
                        /\ \A j \in DOMAIN t.wire : t.wire[j].what = "other"
                        /\ \A i \in DOMAIN k : k[i].what \in Answers
      OBVIOUS
    <3>1. NoSubscribe(r, inc) /\ inc[1].left = 0
      BY <1>5 DEF LastOf
    <3>2. /\ s = {} /\ \A d \in Channel : d # ch => r.channels[d] = None
          /\ \A j \in DOMAIN r.wire : r.wire[j].what = "other"
          /\ \A i \in DOMAIN k : k[i].what \in Answers
      BY <1>2, <2>1, <3>1, LastLeft
    <3> QED
      BY <1>1, <3>2
  <2>7. Quiet(t, k, s)
    BY <1>1, <2>6 DEF Quiet
  <2>8. LastOf(inc[1]) => Free(t, r.channels[ch])
    <3>1. r.sent[r.channels[ch]] = "subscribe"
      BY <1>2 DEF Kinds
    <3>2. \A i \in DOMAIN r.invalid : r.invalid[i] # r.channels[ch]
      BY <1>2, <3>1 DEF Kinds
    <3>3. \A i \in DOMAIN r.replies : r.replies[i] # r.channels[ch]
      BY <1>2, <3>1 DEF Kinds
    <3> QED
      BY <1>1, <2>6, <3>1, <3>2, <3>3 DEF Free
  <2>9. Emptied(k, s)
    BY <2>1, ShiftEmptied
  <2> QED
    BY <2>2, <2>4, <2>5, <2>7, <2>8, <2>9 DEF Orderly
<1> QED
  BY <1>3, <1>4, <1>5

(* The end of an object nobody will call.                                  *)
Ends(r, t, c) ==
  /\ t.obj[c] = "deleted" /\ \A d \in Cmd : d # c => t.obj[d] = r.obj[d]
  /\ t.sent = r.sent /\ t.replies = r.replies /\ t.invalid = r.invalid /\ t.wire = r.wire
  /\ t.channels = r.channels /\ t.subscribed = r.subscribed

(* Without the flag Deleted is the end of an object.                       *)
LEMMA DeletedFields ==
  ASSUME NEW r \in Client, NEW c \in Cmd, NEW t, t = Deleted(r, c)
  PROVE  t \in Client /\ IF r.subscribed THEN t = r ELSE Ends(r, t, c)
<1>1. CASE r.subscribed
  BY <1>1 DEF Deleted
<1>2. CASE ~r.subscribed
  <2>1. PICK o : o = [r.obj EXCEPT ![c] = "deleted"]
    OBVIOUS
  <2>2. /\ o \in [Cmd -> {"none", "live", "deleted"}] /\ o[c] = "deleted"
        /\ \A d \in Cmd : d # c => o[d] = r.obj[d]
    BY <2>1 DEF Client
  <2>3. t = [r EXCEPT !.obj = o]
    BY <1>2, <2>1 DEF Deleted
  <2>4. /\ t \in Client /\ t.obj = o /\ t.sent = r.sent /\ t.replies = r.replies
        /\ t.invalid = r.invalid /\ t.wire = r.wire
        /\ t.channels = r.channels /\ t.subscribed = r.subscribed
    BY <2>2, <2>3 DEF Client
  <2> QED
    BY <1>2, <2>2, <2>4 DEF Ends
<1> QED
  BY <1>1, <1>2

(* The end of an object that waits nowhere disturbs nothing.               *)
LEMMA EndKeeps ==
  ASSUME NEW r \in Client, NEW t \in Client, NEW inc, NEW s, NEW c \in Cmd, Ends(r, t, c),
         Standing(r, inc), r.sent[c] # "unused"
  PROVE  Standing(t, inc) /\ (Orderly(r, inc, s) /\ Free(r, c) => Orderly(t, inc, s))
<1>1. /\ t.obj[c] = "deleted" /\ \A d \in Cmd : d # c => t.obj[d] = r.obj[d]
      /\ t.sent = r.sent /\ t.replies = r.replies /\ t.invalid = r.invalid /\ t.wire = r.wire
      /\ t.channels = r.channels /\ t.subscribed = r.subscribed
  BY DEF Ends
<1>2. Fresh(t)
  BY <1>1 DEF Standing, Fresh
<1>3. Standing(t, inc)
  BY <1>1, <1>2 DEF Standing, Kinds, Distinct, Requests, Used, LeftOnce, Subscriber
<1>4. ASSUME Orderly(r, inc, s), Free(r, c) PROVE Orderly(t, inc, s)
  <2>1. Live(r) /\ Joined(r, inc, s) /\ Emptied(inc, s) /\ Ahead(r, inc, s) /\ Quiet(r, inc, s)
    BY <1>4 DEF Orderly
  <2>2. /\ \A i \in DOMAIN r.replies : r.replies[i] \in Cmd
        /\ \A i \in DOMAIN r.invalid : r.invalid[i] \in Cmd
        /\ \A ch \in Channel : r.channels[ch] # None => r.channels[ch] \in Cmd
    BY DEF Client
  <2>3. Live(t)
    BY <1>1, <1>4, <2>1, <2>2 DEF Live, Free
  <2>4. Joined(t, inc, s) /\ Ahead(t, inc, s) /\ Quiet(t, inc, s)
    BY <1>1, <2>1 DEF Joined, Ahead, Quiet
  <2> QED
    BY <2>1, <2>3, <2>4 DEF Orderly
<1> QED
  BY <1>3, <1>4

(* What the program does inside its callback.                              *)
LEMMA InsideCases ==
  ASSUME NEW r \in Client, r.sent = sent, NEW q \in Inside(r)
  PROVE  /\ q \in Client
         /\ \/ q = r
            \/ \E d \in Cmd, on \in Names : Subscribes(r, q, d, on)
            \/ \E d \in Cmd : Sends(r, q, d)
<1>1. CASE q = r
  BY <1>1
<1>2. CASE \E d \in {c \in Cmd : Unused(c)}, on \in Names : q = SubscribeTo(r, d, on)
  <2>1. PICK d \in Cmd, on \in Names : Unused(d) /\ q = SubscribeTo(r, d, on)
    BY <1>2
  <2>2. q \in Client /\ Subscribes(r, q, d, on)
    BY <2>1, SubscribeFields DEF Unused
  <2> QED
    BY <2>2
<1>3. CASE \E d \in {c \in Cmd : Unused(c)} : q = OtherOn(r, d)
  <2>1. PICK d \in Cmd : Unused(d) /\ q = OtherOn(r, d)
    BY <1>3
  <2>2. q \in Client /\ Sends(r, q, d)
    BY <2>1, OtherFields DEF Unused
  <2> QED
    BY <2>2
<1> QED
  BY <1>1, <1>2, <1>3 DEF Inside

(* Another command that is sent leaves c alone.                            *)
LEMMA StaysFree ==
  ASSUME NEW r \in Client, NEW t \in Client, NEW c \in Cmd, NEW d \in Cmd, Free(r, c),
         Sends(r, t, d) \/ \E on \in Names : Subscribes(r, t, d, on)
  PROVE  Free(t, c)
<1>1. CASE \E on \in Names : Subscribes(r, t, d, on)
  BY <1>1 DEF Subscribes, Issues, Free
<1>2. CASE Sends(r, t, d)
  <2>1. d # c /\ t.sent[c] = r.sent[c] /\ t.channels = r.channels
    BY <1>2 DEF Sends, Issues, Free
  <2>2. \A m, n : Grown(m, n, d) /\ (\A i \in DOMAIN m : m[i] # c) => \A i \in DOMAIN n : n[i] # c
    <3> SUFFICES ASSUME NEW m, NEW n, Grown(m, n, d), \A i \in DOMAIN m : m[i] # c
                 PROVE  \A i \in DOMAIN n : n[i] # c
      OBVIOUS
    <3>1. \A i \in DOMAIN n : i \in 1..Len(m) \/ i = Len(m) + 1
      BY DEF Grown
    <3> QED
      BY <2>1, <3>1 DEF Grown
  <2> QED
    BY <1>2, <2>1, <2>2 DEF Sends, Free
<1> QED
  BY <1>1, <1>2

(* The callback of the program sends something, and its object may end.    *)
LEMMA CallbackKeeps ==
  ASSUME NEW r \in Client, r.sent = sent, NEW k \in Seq(Reply), NEW s, NEW c \in Cmd,
         r.sent[c] # "unused", Standing(r, k), NEW q \in Inside(r), NEW t, t = Deleted(q, c)
  PROVE  /\ t \in Client /\ Standing(t, k)
         /\ Orderly(r, k, s) /\ (r.subscribed \/ Free(r, c)) => Orderly(t, k, s)
<1>1. /\ q \in Client
      /\ \/ q = r
         \/ \E d \in Cmd, on \in Names : Subscribes(r, q, d, on)
         \/ \E d \in Cmd : Sends(r, q, d)
  BY InsideCases
<1>2. /\ Standing(q, k) /\ (Orderly(r, k, s) => Orderly(q, k, s))
      /\ q.sent[c] # "unused" /\ (r.subscribed => q.subscribed) /\ (Free(r, c) => Free(q, c))
  <2>1. CASE q = r
    BY <2>1
  <2>2. CASE \E d \in Cmd, on \in Names : Subscribes(r, q, d, on)
    <3>1. PICK d \in Cmd, on \in Names : Subscribes(r, q, d, on)
      BY <2>2
    <3>2. q.sent[c] # "unused" /\ q.subscribed
      BY <3>1 DEF Subscribes, Issues
    <3> QED
      BY <1>1, <3>1, <3>2, SubscribeStanding, SubscribeOrderly, StaysFree
  <2>3. CASE \E d \in Cmd : Sends(r, q, d)
    <3>1. PICK d \in Cmd : Sends(r, q, d)
      BY <2>3
    <3>2. q.sent[c] # "unused" /\ (r.subscribed => q.subscribed)
      BY <3>1 DEF Sends, Issues
    <3> QED
      BY <1>1, <3>1, <3>2, SendsStanding, SendsOrderly, StaysFree
  <2> QED
    BY <1>1, <2>1, <2>2, <2>3
<1>3. t \in Client /\ IF q.subscribed THEN t = q ELSE Ends(q, t, c)
  BY <1>1, DeletedFields
<1>4. CASE q.subscribed
  BY <1>2, <1>3, <1>4
<1>5. CASE ~q.subscribed
  <2>1. Standing(t, k) /\ (Orderly(q, k, s) /\ Free(q, c) => Orderly(t, k, s))
    BY <1>1, <1>2, <1>3, <1>5, EndKeeps
  <2> QED
    BY <1>2, <1>3, <1>5, <2>1
<1> QED
  BY <1>4, <1>5

-----------------------------------------------------------------------------
(* The node answers a request.                                             *)

Extended(inc, k, m) ==
  /\ Len(inc) \in Nat /\ m \in {1, 2} /\ Len(k) = Len(inc) + m
  /\ DOMAIN inc = 1..Len(inc) /\ DOMAIN k = 1..(Len(inc) + m)
  /\ \A i \in 1..Len(inc) : k[i] = inc[i]

(* A reply for each channel, or one.                                       *)
Answered(q, inc, k) ==
  IF q.what = "other"
  THEN /\ Extended(inc, k, 1)
       /\ k[Len(inc) + 1].what \in Answers /\ k[Len(inc) + 1].by = q.by
  ELSE /\ Extended(inc, k, Len(q.on))
       /\ \A i \in 1..Len(q.on) : /\ Tells(k[Len(inc) + i], q.what, q.on[i])
                                  /\ k[Len(inc) + i].left = Cardinality(SubsAfter(q, i))

Followed(m, v, k) ==
  /\ Len(m) \in Nat /\ Len(k) = Len(m) + Len(v)
  /\ DOMAIN m = 1..Len(m) /\ DOMAIN k = 1..(Len(m) + Len(v))
  /\ \A i \in 1..Len(m) : k[i] = m[i]
  /\ \A i \in 1..Len(v) : k[Len(m) + i] = v[i]

(* What \o makes of two sequences.                                         *)
LEMMA Concatenation ==
  ASSUME NEW W, NEW m \in Seq(W), NEW v \in Seq(W)
  PROVE  m \o v \in Seq(W) /\ Followed(m, v, m \o v)
BY SMT DEF Followed

(* A function on 1..n is a sequence.                                       *)
LEMMA Listed ==
  ASSUME NEW W, NEW n \in Nat, NEW v \in [1..n -> W]
  PROVE  v \in Seq(W) /\ Len(v) = n
BY SMT

(* The node's channels after each of a request's replies can be counted.   *)
LEMMA SubsFinite ==
  ASSUME NEW q \in Request, NEW n, q.what # "other" => q.on \in Names, n <= Len(q.on), n \in Nat,
         subs \subseteq Channel
  PROVE  /\ SubsAfter(q, n) \subseteq Channel /\ IsFiniteSet(SubsAfter(q, n))
         /\ Cardinality(SubsAfter(q, n)) \in Nat
         /\ Cardinality(SubsAfter(q, n)) = 0 <=> SubsAfter(q, n) = {}
<1>1. q.on \in Seq(Channel)
  BY DEF Request
<1>2. \A i \in 1..n : q.on[i] \in Channel
  BY <1>1
<1>3. SubsAfter(q, n) \in SUBSET Channel
  BY <1>2 DEF SubsAfter
<1>4. IsFiniteSet(SubsAfter(q, n))
  BY <1>3, SubscriptionAssumption, FS_Subset
<1> QED
  BY <1>3, <1>4, FS_CardinalityType, FS_EmptySet

(* The replies of Served answer the request, in order.                     *)
LEMMA ServedFacts ==
  ASSUME NEW q \in Request, q.what # "other" => q.on \in Names, subs \subseteq Channel,
         NEW inc \in Seq(Reply), NEW k, k = inc \o Served(q)
  PROVE  k \in Seq(Reply) /\ Answered(q, inc, k)
<1>1. PICK v : v = Served(q)
  OBVIOUS
<1>2. CASE q.what = "other"
  <2>1. PICK a : a = [what |-> IF subs = {} THEN "data" ELSE "error", by |-> q.by]
    OBVIOUS
  <2>2. v = <<a>>
    BY <1>1, <1>2, <2>1 DEF Served
  <2>3. a \in Reply /\ a.what \in Answers /\ a.by = q.by
    <3>1. q.by \in Cmd
      BY DEF Request
    <3>2. a \in [what : {"data", "error"}, by : Cmd]
      BY <2>1, <3>1
    <3> QED
      BY <2>1, <3>2 DEF Reply, Answers
  <2>4. v \in Seq(Reply) /\ Len(v) = 1 /\ v[1] = a
    BY <2>2, <2>3
  <2>5. /\ k \in Seq(Reply) /\ Len(k) = Len(inc) + 1 /\ k[Len(inc) + 1] = a
        /\ \A i \in 1..Len(inc) : k[i] = inc[i]
        /\ Len(inc) \in Nat
    <3>1. k \in Seq(Reply) /\ Followed(inc, v, k)
      BY <1>1, <2>4, Concatenation, Zenon
    <3> QED
      BY <2>4, <3>1 DEF Followed
  <2>6. DOMAIN inc = 1..Len(inc) /\ DOMAIN k = 1..(Len(inc) + 1)
    <3>1. DOMAIN inc = 1..Len(inc) /\ DOMAIN k = 1..Len(k)
      BY <2>5
    <3> QED
      BY <2>5, <3>1
  <2>7. Extended(inc, k, 1)
    BY <2>5, <2>6 DEF Extended
  <2> QED
    BY <1>2, <2>3, <2>5, <2>7 DEF Answered
<1>3. CASE q.what # "other"
  <2>1. /\ q.on \in Seq(Channel) /\ Len(q.on) \in {1, 2} /\ DOMAIN q.on = 1..Len(q.on)
        /\ q.what \in {"subscribe", "unsubscribe"}
    BY <1>3, NamesFacts DEF Request, What
  <2>2. \A i \in 1..Len(q.on) : /\ i \in Nat /\ i <= Len(q.on) /\ q.on[i] \in Channel
                                /\ Cardinality(SubsAfter(q, i)) \in Nat
    <3> SUFFICES ASSUME NEW i \in 1..Len(q.on)
                 PROVE  /\ i \in Nat /\ i <= Len(q.on) /\ q.on[i] \in Channel
                        /\ Cardinality(SubsAfter(q, i)) \in Nat
      OBVIOUS
    <3>1. i \in Nat /\ i <= Len(q.on) /\ q.on[i] \in Channel
      BY <2>1
    <3> QED
      BY <3>1, SubsFinite
  <2>3. v = [i \in 1..Len(q.on) |-> [what |-> q.what, on |-> q.on[i],
                                     left |-> Cardinality(SubsAfter(q, i))]]
    BY <1>1, <1>3, <2>1 DEF Served
  <2>4. \A i \in 1..Len(q.on) :
          /\ v[i] \in Reply /\ Tells(v[i], q.what, q.on[i])
          /\ v[i].left = Cardinality(SubsAfter(q, i))
    BY <2>1, <2>2, <2>3 DEF Reply, Tells
  <2>5. v \in Seq(Reply) /\ Len(v) = Len(q.on)
    <3>1. PICK n : n = Len(q.on)
      OBVIOUS
    <3>2. n \in Nat
      BY <2>1, <3>1
    <3>3. v \in [1..n -> Reply]
      BY <2>3, <2>4, <3>1, Zenon
    <3> QED
      BY <3>1, <3>2, <3>3, Listed
  <2>6. /\ k \in Seq(Reply) /\ Len(k) = Len(inc) + Len(q.on) /\ Len(inc) \in Nat
        /\ \A i \in 1..Len(inc) : k[i] = inc[i]
        /\ \A i \in 1..Len(q.on) : k[Len(inc) + i] = v[i]
        /\ DOMAIN inc = 1..Len(inc) /\ DOMAIN k = 1..(Len(inc) + Len(q.on))
    <3>1. k \in Seq(Reply) /\ Followed(inc, v, k)
      BY <1>1, <2>5, Concatenation, Zenon
    <3> QED
      BY <2>5, <3>1 DEF Followed
  <2>7. Extended(inc, k, Len(q.on))
    BY <2>1, <2>6 DEF Extended
  <2> QED
    BY <1>3, <2>4, <2>6, <2>7 DEF Answered
<1> QED
  BY <1>2, <1>3

(* The oldest request is taken, and answered.                              *)
Serves(r, t, inc, k) ==
  /\ Shrunk(r.wire, t.wire) /\ Answered(r.wire[1], inc, k)
  /\ t.sent = r.sent /\ t.obj = r.obj /\ t.replies = r.replies /\ t.invalid = r.invalid
  /\ t.channels = r.channels /\ t.subscribed = r.subscribed

(* What is on its way is what was, or an answer to the oldest request.     *)
LEMMA ServeFacts ==
  ASSUME NEW r \in Client, NEW t \in Client, NEW inc, NEW k, Serves(r, t, inc, k), Requests(r)
  PROVE  /\ \A j \in DOMAIN t.wire : /\ j \in Nat /\ j + 1 \in DOMAIN r.wire /\ j + 1 > 1
                                     /\ t.wire[j] = r.wire[j + 1]
         /\ \A j \in DOMAIN r.wire :
              j \in Nat /\ (j = 1 \/ (j - 1 \in DOMAIN t.wire /\ t.wire[j - 1] = r.wire[j]))
         /\ 1 \in DOMAIN r.wire /\ r.wire[1] \in Request
         /\ \A i \in DOMAIN inc : i \in Nat /\ i \in DOMAIN k /\ k[i] = inc[i] /\ i <= Len(inc)
         /\ r.wire[1].what = "other" =>
              \A i \in DOMAIN k : i \in DOMAIN inc \/ (i = Len(inc) + 1 /\ k[i].what \in Answers)
         /\ r.wire[1].what # "other" =>
              /\ r.wire[1].on \in Names
              /\ \A i \in DOMAIN k : i \in DOMAIN inc \/ \E n \in 1..Len(r.wire[1].on) :
                   /\ i = Len(inc) + n /\ Tells(k[i], r.wire[1].what, r.wire[1].on[n])
                   /\ k[i].left = Cardinality(SubsAfter(r.wire[1], n))
              /\ \A n \in 1..Len(r.wire[1].on) :
                   /\ Len(inc) + n \in DOMAIN k
                   /\ Tells(k[Len(inc) + n], r.wire[1].what, r.wire[1].on[n])
                   /\ k[Len(inc) + n].left = Cardinality(SubsAfter(r.wire[1], n))
         /\ Len(inc) \in Nat
<1>1. PICK q : q = r.wire[1]
  OBVIOUS
<1>2. Shrunk(r.wire, t.wire) /\ Answered(q, inc, k)
  BY <1>1 DEF Serves
<1>3. /\ \A j \in DOMAIN t.wire : /\ j \in Nat /\ j + 1 \in DOMAIN r.wire /\ j + 1 > 1
                                  /\ t.wire[j] = r.wire[j + 1]
      /\ \A j \in DOMAIN r.wire :
           j \in Nat /\ (j = 1 \/ (j - 1 \in DOMAIN t.wire /\ t.wire[j - 1] = r.wire[j]))
      /\ 1 \in DOMAIN r.wire
  <2>1. \A j \in DOMAIN t.wire : /\ j \in Nat /\ j + 1 \in DOMAIN r.wire /\ j + 1 > 1
                                 /\ t.wire[j] = r.wire[j + 1]
    BY <1>2 DEF Shrunk
  <2>2. \A j \in DOMAIN r.wire :
          j \in Nat /\ (j = 1 \/ (j - 1 \in DOMAIN t.wire /\ t.wire[j - 1] = r.wire[j]))
    BY <1>2 DEF Shrunk
  <2>3. 1 \in DOMAIN r.wire
    BY <1>2 DEF Shrunk
  <2> QED
    BY <2>1, <2>2, <2>3, Zenon
<1>4. q \in Request
  BY <1>1, <1>3 DEF Client
<1>5. CASE q.what = "other"
  <2>1. /\ Extended(inc, k, 1)
        /\ k[Len(inc) + 1].what \in Answers /\ k[Len(inc) + 1].by = q.by
    BY <1>2, <1>5 DEF Answered
  <2>2. /\ Len(inc) \in Nat
        /\ \A i \in DOMAIN inc : i \in Nat /\ i \in DOMAIN k /\ k[i] = inc[i] /\ i <= Len(inc)
        /\ \A i \in DOMAIN k : i \in DOMAIN inc \/ i = Len(inc) + 1
    BY <2>1 DEF Extended
  <2> QED
    BY <1>1, <1>3, <1>4, <1>5, <2>1, <2>2
<1>6. CASE q.what # "other"
  <2>1. /\ Extended(inc, k, Len(q.on))
        /\ \A i \in 1..Len(q.on) : /\ Tells(k[Len(inc) + i], q.what, q.on[i])
                                   /\ k[Len(inc) + i].left = Cardinality(SubsAfter(q, i))
    BY <1>2, <1>6 DEF Answered
  <2>2. /\ Len(inc) \in Nat
        /\ \A i \in DOMAIN inc : i \in Nat /\ i \in DOMAIN k /\ k[i] = inc[i] /\ i <= Len(inc)
        /\ \A i \in 1..Len(q.on) : Len(inc) + i \in DOMAIN k
    BY <2>1 DEF Extended
  <2>3. \A i \in DOMAIN k : i \in DOMAIN inc \/ \E n \in 1..Len(q.on) : i = Len(inc) + n
    <3> SUFFICES ASSUME NEW i \in DOMAIN k, i \notin DOMAIN inc
                 PROVE  \E n \in 1..Len(q.on) : i = Len(inc) + n
      OBVIOUS
    <3>1. i - Len(inc) \in 1..Len(q.on) /\ i = Len(inc) + (i - Len(inc))
      BY <2>1 DEF Extended
    <3> QED
      BY <3>1
  <2>4. q.on \in Names
    BY <1>1, <1>3, <1>6 DEF Requests
  <2> QED
    BY <1>1, <1>3, <1>4, <1>6, <2>1, <2>2, <2>3, <2>4
<1> QED
  BY <1>5, <1>6

(* The node's answer keeps what holds in any order of replies.             *)
LEMMA ServeStanding ==
  ASSUME NEW r \in Client, NEW t \in Client, NEW inc, NEW k, Serves(r, t, inc, k),
         Standing(r, inc)
  PROVE  Standing(t, k)
<1>1. /\ t.sent = r.sent /\ t.obj = r.obj /\ t.replies = r.replies /\ t.invalid = r.invalid
      /\ t.channels = r.channels /\ t.subscribed = r.subscribed /\ Shrunk(r.wire, t.wire)
  BY DEF Serves
<1>2. Kinds(r) /\ Distinct(r) /\ Fresh(r) /\ Requests(r) /\ LeftOnce(r, inc)
  BY DEF Standing
<1>. DEFINE q == r.wire[1]
<1>3. /\ \A j \in DOMAIN t.wire : /\ j \in Nat /\ j + 1 \in DOMAIN r.wire /\ j + 1 > 1
                                  /\ t.wire[j] = r.wire[j + 1]
      /\ 1 \in DOMAIN r.wire
      /\ \A i \in DOMAIN inc : i \in Nat /\ k[i] = inc[i]
  BY <1>2, ServeFacts
<1>4. \A i \in DOMAIN k, ch \in Channel : i \in DOMAIN inc \/ ~Tells(k[i], "unsubscribe", ch) \/
        \E n \in 1..Len(q.on) : /\ i = Len(inc) + n /\ ch = q.on[n] /\ q.what = "unsubscribe"
                                /\ q.on \in Names
  <2>1. CASE q.what = "other"
    <3>1. \A i \in DOMAIN k : i \in DOMAIN inc \/ k[i].what \in Answers
      BY <1>2, <2>1, ServeFacts
    <3> QED
      BY <3>1 DEF Tells, Answers
  <2>2. CASE q.what # "other"
    <3>1. /\ q.on \in Names
          /\ \A i \in DOMAIN k : i \in DOMAIN inc \/ \E n \in 1..Len(q.on) :
               i = Len(inc) + n /\ Tells(k[i], q.what, q.on[n])
      BY <1>2, <2>2, ServeFacts
    <3> QED
      BY <3>1 DEF Tells
  <2> QED
    BY <2>1, <2>2
<1>5. \A n \in 1..Len(q.on) : q.what = "unsubscribe" /\ q.on \in Names =>
        Asks(q, "unsubscribe", q.on[n])
  BY NamesFacts DEF Asks
<1> HIDE DEF q
<1>6. ASSUME NEW ch \in Channel, NEW i \in DOMAIN t.wire, NEW j \in DOMAIN t.wire,
             Asks(t.wire[i], "unsubscribe", ch), Asks(t.wire[j], "unsubscribe", ch)
      PROVE  i = j
  <2>1. i + 1 = j + 1
    BY <1>2, <1>3, <1>6 DEF LeftOnce
  <2> QED
    BY <1>3, <2>1
<1>7. ASSUME NEW ch \in Channel, NEW i \in DOMAIN k, NEW j \in DOMAIN t.wire,
             Tells(k[i], "unsubscribe", ch), Asks(t.wire[j], "unsubscribe", ch)
      PROVE  FALSE
  <2>1. Asks(r.wire[j + 1], "unsubscribe", ch) /\ j + 1 \in DOMAIN r.wire /\ j + 1 > 1
    BY <1>3, <1>7
  <2>2. CASE i \in DOMAIN inc
    BY <1>2, <1>3, <1>7, <2>1, <2>2 DEF LeftOnce
  <2>3. CASE i \notin DOMAIN inc
    <3>1. Asks(r.wire[1], "unsubscribe", ch)
      BY <1>4, <1>5, <1>7, <2>3 DEF q
    <3>2. 1 = j + 1
      BY <1>2, <1>3, <2>1, <3>1 DEF LeftOnce
    <3> QED
      BY <2>1, <3>2
  <2> QED
    BY <2>2, <2>3
<1>8. ASSUME NEW ch \in Channel, NEW i \in DOMAIN k, NEW j \in DOMAIN k,
             Tells(k[i], "unsubscribe", ch), Tells(k[j], "unsubscribe", ch)
      PROVE  i = j
  <2>1. \A a \in DOMAIN k : a \notin DOMAIN inc /\ Tells(k[a], "unsubscribe", ch) =>
          Asks(r.wire[1], "unsubscribe", ch)
    BY <1>4, <1>5 DEF q
  <2>2. CASE i \in DOMAIN inc /\ j \in DOMAIN inc
    BY <1>2, <1>3, <1>8, <2>2 DEF LeftOnce
  <2>3. CASE i \in DOMAIN inc /\ j \notin DOMAIN inc
    BY <1>2, <1>3, <1>8, <2>1, <2>3 DEF LeftOnce
  <2>4. CASE i \notin DOMAIN inc /\ j \in DOMAIN inc
    BY <1>2, <1>3, <1>8, <2>1, <2>4 DEF LeftOnce
  <2>5. CASE i \notin DOMAIN inc /\ j \notin DOMAIN inc
    <3>1. PICK n \in 1..Len(q.on) : i = Len(inc) + n /\ ch = q.on[n] /\ q.on \in Names
      BY <1>4, <1>8, <2>5
    <3>2. PICK m \in 1..Len(q.on) : j = Len(inc) + m /\ ch = q.on[m] /\ q.on \in Names
      BY <1>4, <1>8, <2>5
    <3>3. n = m
      BY <3>1, <3>2, NamesFacts
    <3> QED
      BY <3>1, <3>2, <3>3
  <2> QED
    BY <2>2, <2>3, <2>4, <2>5
<1>9. LeftOnce(t, k)
  BY <1>6, <1>7, <1>8 DEF LeftOnce
<1>10. Kinds(t) /\ Distinct(t) /\ Fresh(t) /\ (t.subscribed => Subscriber(t))
  BY <1>1, <1>2 DEF Standing, Kinds, Distinct, Fresh, Subscriber
<1>11. Requests(t)
  <2>1. Len(t.wire) <= Cardinality(Used(t))
    <3>1. Used(t) = Used(r)
      BY <1>1 DEF Used
    <3> QED
      BY <1>1, <1>2, <3>1, UsedFinite DEF Shrunk, Requests
  <2>2. \A i, j \in DOMAIN t.wire : t.wire[i].by = t.wire[j].by => i = j
    <3> SUFFICES ASSUME NEW i \in DOMAIN t.wire, NEW j \in DOMAIN t.wire,
                        t.wire[i].by = t.wire[j].by
                 PROVE  i = j
      OBVIOUS
    <3>1. i + 1 = j + 1
      BY <1>2, <1>3 DEF Requests
    <3> QED
      BY <1>3, <3>1
  <2> QED
    BY <1>1, <1>2, <1>3, <2>1, <2>2 DEF Requests
<1> QED
  BY <1>9, <1>10, <1>11 DEF Standing

(* The channels after a request.                                           *)
LEMMA SubsChanges ==
  ASSUME NEW q \in Request, q.what = "other" => q.on = <<>>, q.what # "other" => q.on \in Names,
         NEW s, s = SubsAfter(q, Len(q.on))
  PROVE  /\ q.what = "other" => s = subs
         /\ q.what = "subscribe" => s = subs \cup Named(q.on)
         /\ q.what = "unsubscribe" => s = subs \ Named(q.on)
<1>1. CASE q.what = "other"
  <2>1. Len(q.on) = 0
    BY <1>1
  <2> QED
    BY <1>1, <2>1 DEF SubsAfter
<1>2. CASE q.what # "other"
  <2>1. Named(q.on) = {q.on[i] : i \in 1..Len(q.on)}
    BY <1>2, NamesFacts
  <2> QED
    BY <1>2, <2>1 DEF SubsAfter
<1> QED
  BY <1>1, <1>2

(* The channels an UNSUBSCRIBE at the front names are subscribed to.       *)
LEMMA UnsubscribedIn ==
  ASSUME NEW r, NEW inc, Joined(r, inc, subs), DOMAIN r.wire \subseteq Nat \ {0}, 1 \in DOMAIN r.wire,
         r.wire[1].what = "unsubscribe", r.wire[1].on \in Names
  PROVE  \A ch \in Named(r.wire[1].on) : ch \in subs
<1> SUFFICES ASSUME NEW ch \in Named(r.wire[1].on) PROVE ch \in subs
  OBVIOUS
<1>1. ch \in Channel /\ Asks(r.wire[1], "unsubscribe", ch)
  BY NamesFacts DEF Asks
<1>2. \A n \in DOMAIN r.wire : ~(n < 1)
  OBVIOUS
<1> QED
  BY <1>1, <1>2 DEF Joined

(* After it the callbacks of the channels still have a reason.             *)
LEMMA ServeJoined ==
  ASSUME NEW r \in Client, NEW t \in Client, NEW inc, NEW k, Serves(r, t, inc, k),
         Requests(r), LeftOnce(r, inc), Joined(r, inc, subs),
         NEW s, s = SubsAfter(r.wire[1], Len(r.wire[1].on))
  PROVE  Joined(t, k, s)
<1>. DEFINE q == r.wire[1]
<1>1. /\ \A j \in DOMAIN t.wire : /\ j \in Nat /\ j + 1 \in DOMAIN r.wire /\ j + 1 > 1
                                  /\ t.wire[j] = r.wire[j + 1]
      /\ \A j \in DOMAIN r.wire :
           j \in Nat /\ (j = 1 \/ (j - 1 \in DOMAIN t.wire /\ t.wire[j - 1] = r.wire[j]))
      /\ 1 \in DOMAIN r.wire /\ q \in Request
      /\ \A i \in DOMAIN inc : i \in DOMAIN k /\ k[i] = inc[i]
      /\ q.what # "other" => \A n \in 1..Len(q.on) :
           Len(inc) + n \in DOMAIN k /\ Tells(k[Len(inc) + n], q.what, q.on[n])
  BY ServeFacts
<1>2. (q.what = "other" => q.on = <<>>) /\ (q.what # "other" => q.on \in Names)
  BY <1>1 DEF Requests
<1>3. /\ q.what = "other" => s = subs
      /\ q.what = "subscribe" => s = subs \cup Named(q.on)
      /\ q.what = "unsubscribe" => s = subs \ Named(q.on)
      /\ q.what \in What
  BY <1>1, <1>2, SubsChanges DEF Request
<1>4. t.channels = r.channels
  BY DEF Serves
<1> HIDE DEF q
<1>5. \A ch \in Channel : ch \in subs => ch \in s \/ Asks(q, "unsubscribe", ch)
  BY <1>3 DEF What, Asks
<1>6. \A ch \in Channel : Asks(q, "subscribe", ch) => ch \in s
  BY <1>3 DEF Asks
<1>7. \A ch \in Channel : Asks(q, "unsubscribe", ch) =>
        \E i \in DOMAIN k : Tells(k[i], "unsubscribe", ch)
  <2> SUFFICES ASSUME NEW ch \in Channel, Asks(q, "unsubscribe", ch)
               PROVE  \E i \in DOMAIN k : Tells(k[i], "unsubscribe", ch)
    OBVIOUS
  <2>1. q.what = "unsubscribe" /\ q.on \in Names /\ ch \in Named(q.on)
    BY <1>2 DEF Asks
  <2>2. PICK n \in 1..Len(q.on) : ch = q.on[n]
    BY <2>1, NamesFacts
  <2> QED
    BY <1>1, <2>1, <2>2
<1>8. ASSUME NEW ch \in Channel, r.channels[ch] # None
      PROVE  \/ ch \in s
             \/ \E j \in DOMAIN t.wire : Asks(t.wire[j], "subscribe", ch)
             \/ \E i \in DOMAIN k : Tells(k[i], "unsubscribe", ch)
  <2>1. CASE ch \in subs
    BY <1>5, <1>7, <2>1
  <2>2. CASE \E j \in DOMAIN r.wire : Asks(r.wire[j], "subscribe", ch)
    <3>1. PICK j \in DOMAIN r.wire : Asks(r.wire[j], "subscribe", ch)
      BY <2>2
    <3>2. CASE j = 1
      BY <1>6, <3>1, <3>2 DEF q
    <3>3. CASE j # 1
      BY <1>1, <3>1, <3>3
    <3> QED
      BY <3>2, <3>3
  <2>3. CASE \E i \in DOMAIN inc : Tells(inc[i], "unsubscribe", ch)
    BY <1>1, <2>3
  <2> QED
    BY <1>8, <2>1, <2>2, <2>3 DEF Joined
<1>9. ASSUME NEW ch \in Channel, NEW j \in DOMAIN t.wire, Asks(t.wire[j], "unsubscribe", ch)
      PROVE  ch \in s \/ \E n \in DOMAIN t.wire : n < j /\ Asks(t.wire[n], "subscribe", ch)
  <2>1. j \in Nat /\ j + 1 \in DOMAIN r.wire /\ j + 1 > 1 /\ Asks(r.wire[j + 1], "unsubscribe", ch)
    BY <1>1, <1>9
  <2>2. ~Asks(q, "unsubscribe", ch)
    <3> SUFFICES ASSUME Asks(q, "unsubscribe", ch) PROVE FALSE
      OBVIOUS
    <3>1. 1 = j + 1
      BY <1>1, <2>1 DEF LeftOnce, q
    <3> QED
      BY <2>1, <3>1
  <2>3. CASE ch \in subs
    BY <1>5, <2>2, <2>3
  <2>4. CASE \E n \in DOMAIN r.wire : n < j + 1 /\ Asks(r.wire[n], "subscribe", ch)
    <3>1. PICK n \in DOMAIN r.wire : n < j + 1 /\ Asks(r.wire[n], "subscribe", ch)
      BY <2>4
    <3>2. CASE n = 1
      BY <1>6, <3>1, <3>2 DEF q
    <3>3. CASE n # 1
      <4>1. n \in Nat /\ n - 1 \in DOMAIN t.wire /\ t.wire[n - 1] = r.wire[n]
        BY <1>1, <3>3
      <4>2. n - 1 < j
        BY <2>1, <3>1, <4>1
      <4> QED
        BY <3>1, <4>1, <4>2
    <3> QED
      BY <3>2, <3>3
  <2> QED
    BY <2>1, <2>3, <2>4 DEF Joined
<1> QED
  BY <1>4, <1>8, <1>9 DEF Joined

(* After the last channel the node says nothing of channels.               *)
LEMMA ServeEmptied ==
  ASSUME NEW r \in Client, NEW t \in Client, NEW inc, NEW k, Serves(r, t, inc, k),
         Requests(r), Joined(r, inc, subs), Emptied(inc, subs), subs \subseteq Channel,
         NEW s, s = SubsAfter(r.wire[1], Len(r.wire[1].on))
  PROVE  Emptied(k, s)
<1>. DEFINE q == r.wire[1]
<1>1. /\ \A j \in DOMAIN r.wire : j \in Nat \ {0}
      /\ 1 \in DOMAIN r.wire /\ q \in Request
      /\ \A i \in DOMAIN inc : i \in Nat /\ i \in DOMAIN k /\ k[i] = inc[i] /\ i <= Len(inc)
      /\ q.what = "other" =>
           \A i \in DOMAIN k : i \in DOMAIN inc \/ (i = Len(inc) + 1 /\ k[i].what \in Answers)
      /\ q.what # "other" =>
           /\ \A i \in DOMAIN k : i \in DOMAIN inc \/ \E n \in 1..Len(q.on) :
                /\ i = Len(inc) + n /\ Tells(k[i], q.what, q.on[n])
                /\ k[i].left = Cardinality(SubsAfter(q, n))
           /\ \A n \in 1..Len(q.on) :
                /\ Len(inc) + n \in DOMAIN k
                /\ Tells(k[Len(inc) + n], q.what, q.on[n])
      /\ Len(inc) \in Nat
  <2>1. \A j \in DOMAIN r.wire : j \in Nat \ {0}
    BY DEF Serves, Shrunk
  <2> QED
    BY <2>1, ServeFacts
<1>2. (q.what = "other" => q.on = <<>>) /\ (q.what # "other" => q.on \in Names)
  BY <1>1 DEF Requests
<1>3. /\ q.what = "other" => s = subs
      /\ q.what = "unsubscribe" => s = subs \ Named(q.on)
      /\ q.what \in What
  BY <1>1, <1>2, SubsChanges DEF Request
<1>4. q.what = "unsubscribe" => \A ch \in Named(q.on) : ch \in subs
  BY <1>1, <1>2, UnsubscribedIn
<1>5. s = SubsAfter(q, Len(q.on))
  OBVIOUS
<1> HIDE DEF q
<1> SUFFICES ASSUME NEW i \in DOMAIN k, k[i].what = "unsubscribe", k[i].left = 0
             PROVE  \/ \E j \in DOMAIN k : j > i /\ k[j].what = "subscribe"
                    \/ s = {} /\ \A j \in DOMAIN k : j > i => k[j].what \in Answers
  BY DEF Emptied
<1>6. CASE i \in DOMAIN inc
  <2>1. CASE \E j \in DOMAIN inc : j > i /\ inc[j].what = "subscribe"
    BY <1>1, <2>1
  <2>2. CASE subs = {} /\ \A j \in DOMAIN inc : j > i => inc[j].what \in Answers
    <3>1. CASE q.what = "other"
      BY <1>1, <1>3, <2>2, <3>1
    <3>2. CASE q.what = "subscribe"
      <4>1. q.on \in Names /\ 1 \in 1..Len(q.on)
        BY <1>2, <3>2, NamesFacts
      <4>2. Len(inc) + 1 \in DOMAIN k /\ k[Len(inc) + 1].what = "subscribe"
        BY <1>1, <3>2, <4>1 DEF Tells
      <4>3. Len(inc) + 1 > i
        BY <1>1, <1>6
      <4> QED
        BY <4>2, <4>3
    <3>3. CASE q.what = "unsubscribe"
      <4>1. q.on[1] \in Named(q.on)
        BY <1>2, <3>3, NamesFacts
      <4> QED
        BY <1>4, <2>2, <3>3, <4>1
    <3> QED
      BY <1>3, <3>1, <3>2, <3>3 DEF What
  <2> QED
    BY <1>1, <1>6, <2>1, <2>2 DEF Emptied
<1>7. CASE i \notin DOMAIN inc
  <2>1. q.what = "unsubscribe"
    BY <1>1, <1>3, <1>7 DEF Answers, Tells, What
  <2>2. PICK n \in 1..Len(q.on) : i = Len(inc) + n /\ k[i].left = Cardinality(SubsAfter(q, n))
    BY <1>1, <1>7, <2>1
  <2>3. /\ q.on \in Names /\ Len(q.on) \in {1, 2}
        /\ \A a, b \in 1..Len(q.on) : q.on[a] = q.on[b] => a = b
        /\ \A a \in 1..Len(q.on) : q.on[a] \in Named(q.on)
    BY <1>2, <2>1, NamesFacts
  <2>4. SubsAfter(q, n) = {}
    <3>1. n \in Nat /\ n <= Len(q.on) /\ Cardinality(SubsAfter(q, n)) = 0
      BY <2>2, <2>3
    <3> QED
      BY <1>1, <2>3, <3>1, SubsFinite
  <2>5. n = Len(q.on)
    <3> SUFFICES ASSUME n # Len(q.on) PROVE FALSE
      OBVIOUS
    <3>1. n = 1 /\ Len(q.on) = 2
      BY <2>2, <2>3
    <3>2. q.on[2] \in subs /\ q.on[2] # q.on[1]
      BY <1>4, <2>1, <2>3, <3>1
    <3>3. q.on[2] \in SubsAfter(q, 1)
      <4>1. \A a \in 1..1 : a = 1
        OBVIOUS
      <4> QED
        BY <2>1, <3>2, <4>1 DEF SubsAfter
    <3> QED
      BY <2>4, <3>1, <3>3
  <2>6. \A j \in DOMAIN k : ~(j > i)
    <3> SUFFICES ASSUME NEW j \in DOMAIN k, j > i PROVE FALSE
      OBVIOUS
    <3>1. CASE j \in DOMAIN inc
      BY <1>1, <2>2, <2>3, <3>1
    <3>2. CASE j \notin DOMAIN inc
      <4>1. PICK m \in 1..Len(q.on) : j = Len(inc) + m
        BY <1>1, <2>1, <3>2
      <4> QED
        BY <1>1, <2>2, <2>3, <2>5, <4>1
    <3> QED
      BY <3>1, <3>2
  <2> QED
    BY <1>5, <2>4, <2>5, <2>6
<1> QED
  BY <1>6, <1>7

(* The queue of replies is still for what comes first.                     *)
LEMMA ServeAhead ==
  ASSUME NEW r \in Client, NEW t \in Client, NEW inc, NEW k, Serves(r, t, inc, k),
         Requests(r), Ahead(r, inc, subs),
         NEW s, s = SubsAfter(r.wire[1], Len(r.wire[1].on))
  PROVE  Ahead(t, k, s)
<1>1. /\ \A j \in DOMAIN t.wire : /\ j \in Nat /\ j + 1 \in DOMAIN r.wire /\ j >= 1
                                  /\ t.wire[j] = r.wire[j + 1]
      /\ 1 \in DOMAIN r.wire /\ Len(inc) \in Nat /\ t.replies = r.replies
      /\ Len(r.wire) \in Nat /\ Len(t.wire) \in Nat /\ Len(r.wire) = Len(t.wire) + 1
      /\ Len(r.replies) \in Nat
  <2>1. Shrunk(r.wire, t.wire) /\ t.replies = r.replies
    BY DEF Serves
  <2>2. Len(inc) \in Nat /\ 1 \in DOMAIN r.wire
    BY ServeFacts
  <2>3. Len(r.replies) \in Nat
    BY DEF Client
  <2>4. \A j \in DOMAIN t.wire : /\ j \in Nat /\ j + 1 \in DOMAIN r.wire /\ j >= 1
                                 /\ t.wire[j] = r.wire[j + 1]
    BY <2>1 DEF Shrunk
  <2> QED
    BY <2>1, <2>2, <2>3, <2>4 DEF Shrunk
<1>2. /\ \A i \in DOMAIN inc : i <= Len(r.replies) => inc[i].what \in Answers
      /\ Len(r.replies) <= Len(inc) + Len(r.wire)
      /\ \A j \in DOMAIN r.wire : Len(inc) + j <= Len(r.replies) => r.wire[j].what = "other"
      /\ subs # {} => Len(r.replies) <= Len(inc)
  BY DEF Ahead
<1>3. CASE r.wire[1].what = "other"
  <2>1. /\ Len(k) = Len(inc) + 1
        /\ \A i \in DOMAIN inc : k[i] = inc[i]
        /\ \A i \in DOMAIN k : i \in DOMAIN inc \/ k[i].what \in Answers
    <3>1. Answered(r.wire[1], inc, k)
      BY DEF Serves
    <3>2. Extended(inc, k, 1)
      BY <1>3, <3>1 DEF Answered
    <3> QED
      BY <1>3, <3>2, ServeFacts DEF Extended
  <2>2. s = subs
    <3>1. r.wire[1].on = <<>> /\ r.wire[1] \in Request
      BY <1>1, <1>3, ServeFacts DEF Requests
    <3> QED
      BY <1>3, <3>1, SubsChanges
  <2>3. \A j \in DOMAIN t.wire : Len(k) + j <= Len(t.replies) => t.wire[j].what = "other"
    <3> SUFFICES ASSUME NEW j \in DOMAIN t.wire, Len(k) + j <= Len(t.replies)
                 PROVE  t.wire[j].what = "other"
      OBVIOUS
    <3>1. j + 1 \in DOMAIN r.wire /\ Len(inc) + (j + 1) <= Len(r.replies)
      BY <1>1, <2>1
    <3> QED
      BY <1>1, <1>2, <3>1
  <2>4. \A i \in DOMAIN k : i <= Len(t.replies) => k[i].what \in Answers
    BY <1>1, <1>2, <2>1
  <2>5. Len(t.replies) <= Len(k) + Len(t.wire) /\ (s # {} => Len(t.replies) <= Len(k))
    <3>1. \A a, b, n, w, x \in Nat : b = a + 1 /\ w = x + 1 =>
            (n <= a + w => n <= b + x) /\ (n <= a => n <= b)
      OBVIOUS
    <3>2. Len(k) \in Nat /\ Len(k) = Len(inc) + 1 /\ Len(r.wire) = Len(t.wire) + 1
      BY <1>1, <2>1
    <3>3. Len(r.replies) <= Len(inc) + Len(r.wire) /\ (s # {} => Len(r.replies) <= Len(inc))
      BY <1>2, <2>2
    <3> QED
      BY <1>1, <3>1, <3>2, <3>3
  <2> QED
    BY <2>3, <2>4, <2>5 DEF Ahead
<1>4. CASE r.wire[1].what # "other"
  <2>1. Len(r.replies) <= Len(inc)
    <3>1. ~(Len(inc) + 1 <= Len(r.replies))
      BY <1>1, <1>2, <1>4
    <3> QED
      BY <1>1, <3>1
  <2>2. /\ Len(k) \in Nat /\ Len(inc) <= Len(k)
        /\ \A i \in DOMAIN k : i <= Len(inc) => i \in DOMAIN inc /\ k[i] = inc[i]
    <3>1. Answered(r.wire[1], inc, k)
      BY DEF Serves
    <3>2. Extended(inc, k, Len(r.wire[1].on))
      BY <1>4, <3>1 DEF Answered
    <3> QED
      BY <3>2 DEF Extended
  <2>3. \A i \in DOMAIN k : i <= Len(t.replies) => k[i].what \in Answers
    <3> SUFFICES ASSUME NEW i \in DOMAIN k, i <= Len(t.replies) PROVE k[i].what \in Answers
      OBVIOUS
    <3>1. i \in Nat
      BY <2>2 DEF Serves, Answered, Extended
    <3>2. i <= Len(inc)
      BY <1>1, <2>1, <3>1
    <3> QED
      BY <1>1, <1>2, <2>2, <3>2
  <2>4. \A j \in DOMAIN t.wire : ~(Len(k) + j <= Len(t.replies))
    BY <1>1, <2>1, <2>2
  <2>5. Len(t.replies) <= Len(k) + Len(t.wire) /\ Len(t.replies) <= Len(k)
    BY <1>1, <2>1, <2>2
  <2> QED
    BY <2>3, <2>4, <2>5 DEF Ahead
<1> QED
  BY <1>3, <1>4

(* The node's answer keeps what holds until the flag goes under one.       *)
LEMMA ServeOrderly ==
  ASSUME NEW r \in Client, NEW t \in Client, NEW inc, NEW k, Serves(r, t, inc, k),
         Standing(r, inc), Orderly(r, inc, subs), subs \subseteq Channel,
         NEW s, s = SubsAfter(r.wire[1], Len(r.wire[1].on))
  PROVE  Orderly(t, k, s)
<1>1. Requests(r) /\ LeftOnce(r, inc)
  BY DEF Standing
<1>2. /\ Live(r) /\ Joined(r, inc, subs) /\ Emptied(inc, subs) /\ Ahead(r, inc, subs)
      /\ Quiet(r, inc, subs)
  BY DEF Orderly
<1>3. Joined(t, k, s) /\ Emptied(k, s) /\ Ahead(t, k, s)
  BY <1>1, <1>2, ServeJoined, ServeEmptied, ServeAhead
<1>4. Live(t)
  BY <1>2 DEF Serves, Live
<1>5. Quiet(t, k, s)
  <2> SUFFICES ASSUME ~t.subscribed
               PROVE  /\ s = {} /\ \A ch \in Channel : t.channels[ch] = None
                      /\ \A j \in DOMAIN t.wire : t.wire[j].what = "other"
                      /\ \A i \in DOMAIN k : k[i].what \in Answers
    BY DEF Quiet
  <2>1. /\ subs = {} /\ \A ch \in Channel : r.channels[ch] = None
        /\ \A j \in DOMAIN r.wire : r.wire[j].what = "other"
        /\ \A i \in DOMAIN inc : inc[i].what \in Answers
    BY <1>2 DEF Serves, Quiet
  <2>2. /\ \A j \in DOMAIN t.wire : j + 1 \in DOMAIN r.wire /\ t.wire[j] = r.wire[j + 1]
        /\ 1 \in DOMAIN r.wire /\ r.wire[1] \in Request
    BY <1>1, ServeFacts
  <2>3. r.wire[1].what = "other" /\ r.wire[1].on = <<>>
    BY <1>1, <2>1, <2>2 DEF Requests
  <2>4. s = subs
    BY <2>2, <2>3, SubsChanges
  <2>5. /\ \A i \in DOMAIN inc : k[i] = inc[i]
        /\ \A i \in DOMAIN k : i \in DOMAIN inc \/ k[i].what \in Answers
    BY <1>1, <2>3, ServeFacts
  <2>6. t.channels = r.channels
    BY DEF Serves
  <2> QED
    BY <2>1, <2>2, <2>4, <2>5, <2>6
<1> QED
  BY <1>3, <1>4, <1>5 DEF Orderly

(* The node passes a message on.                                           *)
LEMMA PublishKeeps ==
  ASSUME NEW r \in Client, NEW inc, NEW k, NEW v, Grown(inc, k, v), v.what = "message",
         NEW s, NEW ch \in s, Standing(r, inc)
  PROVE  Standing(r, k) /\ (Orderly(r, inc, s) => Orderly(r, k, s))
<1>1. /\ Len(inc) \in Nat /\ Len(k) = Len(inc) + 1
      /\ \A i \in DOMAIN inc : i \in Nat /\ i \in DOMAIN k /\ k[i] = inc[i] /\ i <= Len(inc)
      /\ \A i \in DOMAIN k : i \in DOMAIN inc \/ (i = Len(inc) + 1 /\ k[i].what = "message")
  BY DEF Grown
<1>2. \A i \in DOMAIN k, d \in Channel : Tells(k[i], "unsubscribe", d) => i \in DOMAIN inc
  BY <1>1 DEF Tells
<1>3. Standing(r, k)
  <2>1. LeftOnce(r, k)
    <3>1. /\ \A d \in Channel, i, j \in DOMAIN r.wire :
               Asks(r.wire[i], "unsubscribe", d) /\ Asks(r.wire[j], "unsubscribe", d) => i = j
          /\ \A d \in Channel, i \in DOMAIN inc, j \in DOMAIN r.wire :
               ~(Tells(inc[i], "unsubscribe", d) /\ Asks(r.wire[j], "unsubscribe", d))
          /\ \A d \in Channel, i, j \in DOMAIN inc :
               Tells(inc[i], "unsubscribe", d) /\ Tells(inc[j], "unsubscribe", d) => i = j
      BY DEF Standing, LeftOnce
    <3> QED
      BY <1>1, <1>2, <3>1 DEF LeftOnce
  <2> QED
    BY <2>1 DEF Standing
<1>4. ASSUME Orderly(r, inc, s) PROVE Orderly(r, k, s)
  <2>1. Live(r) /\ Joined(r, inc, s) /\ Emptied(inc, s) /\ Ahead(r, inc, s) /\ Quiet(r, inc, s)
    BY <1>4 DEF Orderly
  <2>2. Joined(r, k, s)
    BY <1>1, <2>1 DEF Joined
  <2>3. Emptied(k, s)
    <3> SUFFICES ASSUME NEW i \in DOMAIN k, k[i].what = "unsubscribe", k[i].left = 0
                 PROVE  \E j \in DOMAIN k : j > i /\ k[j].what = "subscribe"
      BY DEF Emptied
    <3>1. i \in DOMAIN inc
      BY <1>1
    <3>2. PICK j \in DOMAIN inc : j > i /\ inc[j].what = "subscribe"
      BY <1>1, <2>1, <3>1 DEF Emptied
    <3> QED
      BY <1>1, <3>2
  <2>4. Ahead(r, k, s)
    <3>1. Len(r.replies) <= Len(inc) /\ Len(r.replies) \in Nat /\ Len(r.wire) \in Nat
          /\ DOMAIN r.wire = 1..Len(r.wire)
      BY <2>1 DEF Ahead, Client
    <3>2. \A i \in DOMAIN k : i <= Len(r.replies) => k[i].what \in Answers
      BY <1>1, <2>1, <3>1 DEF Ahead
    <3>3. \A a, b, n, w \in Nat : b = a + 1 /\ n <= a => n <= b + w /\ n <= b /\ ~(b + w <= n)
      OBVIOUS
    <3>4. Len(inc) \in Nat /\ Len(k) \in Nat /\ Len(k) = Len(inc) + 1
      BY <1>1
    <3>5. Len(r.replies) <= Len(k) + Len(r.wire) /\ Len(r.replies) <= Len(k)
      BY <3>1, <3>3, <3>4
    <3>6. \A j \in DOMAIN r.wire : j \in Nat /\ ~(Len(k) + j <= Len(r.replies))
      <4>1. \A j \in DOMAIN r.wire : j \in Nat
        BY <3>1
      <4> QED
        BY <3>1, <3>3, <3>4, <4>1
    <3> QED
      BY <3>2, <3>5, <3>6 DEF Ahead
  <2>5. Quiet(r, k, s)
    BY <2>1 DEF Quiet
  <2> QED
    BY <2>1, <2>2, <2>3, <2>4, <2>5 DEF Orderly
<1> QED
  BY <1>3, <1>4

-----------------------------------------------------------------------------
(* Every step keeps the base of the invariant.                             *)

Others ==
  /\ heard \in [Cmd -> Nat]
  /\ overlap \subseteq {"subscribe", "other"}
  /\ messages \in 0..MaxMessages
  /\ mismatch \subseteq Cmd
  /\ crashed \in {"no", "closed", "nullReply", "assert", "useAfterFree"}

Moves ==
  /\ Now' \in Client /\ incoming' \in Seq(Reply) /\ subs' \subseteq Channel /\ Others'
  /\ Standing(Now', incoming')
  /\ "subscribe" \notin overlap' => Orderly(Now', incoming', subs') /\ crashed' # "useAfterFree"

(* The fields of the state.                                                *)
LEMMA NowFields ==
  /\ Now.sent = sent /\ Now.obj = obj /\ Now.replies = replies /\ Now.channels = channels
  /\ Now.invalid = invalid /\ Now.subscribed = subscribed /\ Now.wire = wire
BY DEF Now

(* The fields of the next state.                                           *)
LEMMA NowFieldsNext ==
  /\ Now'.sent = sent' /\ Now'.obj = obj' /\ Now'.replies = replies' /\ Now'.channels = channels'
  /\ Now'.invalid = invalid' /\ Now'.subscribed = subscribed' /\ Now'.wire = wire'
BY DEF Now

(* Becomes makes a record the next state.                                  *)
LEMMA BecomesNow ==
  ASSUME NEW r \in Client, Becomes(r)
  PROVE  Now' = r
BY DEF Becomes, Now, Client

(* A record is the client's when it is in a state.                         *)
LEMMA BaseState ==
  ASSUME Now \in Client, incoming \in Seq(Reply), subs \subseteq Channel, Others,
         Standing(Now, incoming),
         "subscribe" \notin overlap => Orderly(Now, incoming, subs) /\ crashed # "useAfterFree"
  PROVE  Base
<1>1. Len(wire) <= Cardinality(Cmd)
  <2>1. Len(wire) <= Cardinality(Used(Now))
    BY NowFields DEF Standing, Requests
  <2>2. Len(wire) \in Nat
    BY NowFields DEF Client
  <2>3. Cardinality(Cmd) \in Nat
    BY SubscriptionAssumption, FS_CardinalityType
  <2> QED
    BY <2>1, <2>2, <2>3, UsedFinite
<1>2. TypeOK
  <2>1. /\ sent \in [Cmd -> What \cup {"unused"}] /\ obj \in [Cmd -> {"none", "live", "deleted"}]
        /\ replies \in Seq(Cmd) /\ channels \in [Channel -> Cmd \cup {None}]
        /\ invalid \in Seq(Cmd) /\ subscribed \in BOOLEAN /\ wire \in Seq(Request)
    BY NowFields DEF Client
  <2> QED
    BY <1>1, <2>1 DEF TypeOK, Others
<1>3. DanglingCause
  <2> SUFFICES ASSUME "subscribe" \notin overlap,
                      (\E c \in Waiting : obj[c] = "deleted") \/ crashed = "useAfterFree"
               PROVE  FALSE
    BY DEF DanglingCause
  <2>1. PICK c \in Waiting : obj[c] = "deleted"
    OBVIOUS
  <2>2. \/ \E i \in DOMAIN replies : c = replies[i]
        \/ \E i \in DOMAIN invalid : c = invalid[i]
        \/ \E ch \in Channel : c = channels[ch] /\ c # None
    BY <2>1 DEF Waiting
  <2>3. Live(Now)
    BY DEF Orderly
  <2> QED
    BY <2>1, <2>2, <2>3, NowFields DEF Live
<1> QED
  BY <1>2, <1>3 DEF Base

(* What Base says of the record.                                           *)
LEMMA BaseFacts ==
  ASSUME Base
  PROVE  /\ Now \in Client /\ incoming \in Seq(Reply) /\ subs \subseteq Channel /\ Others
         /\ Standing(Now, incoming)
         /\ "subscribe" \notin overlap => Orderly(Now, incoming, subs)
BY NowClient DEF Base, TypeOK, Others

(* A step that keeps the parts of Base keeps it.                           *)
LEMMA BaseNext == Moves => Base'
<1>1. /\ Now \in Client /\ incoming \in Seq(Reply) /\ subs \subseteq Channel /\ Others
      /\ Standing(Now, incoming)
      /\ ("subscribe" \notin overlap => Orderly(Now, incoming, subs) /\ crashed # "useAfterFree")
      => Base
  BY BaseState
<1>2. (/\ Now \in Client /\ incoming \in Seq(Reply) /\ subs \subseteq Channel /\ Others
       /\ Standing(Now, incoming)
       /\ ("subscribe" \notin overlap => Orderly(Now, incoming, subs) /\ crashed # "useAfterFree")
       => Base)'
  BY <1>1, PTL
<1> QED
  BY <1>2 DEF Moves

(* The commands that the program sends outside of its callbacks.           *)
LEMMA SentMoves ==
  ASSUME Base, crashed = "no", NEW c \in Cmd
  PROVE  /\ \A on \in Names : Subscribe(c, on) => Moves /\ Subscribes(Now, Now', c, on)
         /\ \A on \in Names : Unsubscribe(c, on) =>
              Moves /\ Unsubscribes(Now, Now', c, on) /\ subscribed
         /\ UnsubscribeRefused(c) => Moves /\ Refuses(Now, Now', c)
         /\ Other(c) => Moves /\ Sends(Now, Now', c)
<1>1. /\ Now \in Client /\ incoming \in Seq(Reply) /\ subs \subseteq Channel /\ Others
      /\ Standing(Now, incoming)
      /\ "subscribe" \notin overlap => Orderly(Now, incoming, subs)
  BY BaseFacts
<1>2. Unused(c) => Now.sent[c] = "unused"
  BY NowFields DEF Unused
<1>3. ASSUME NEW on \in Names, Subscribe(c, on)
      PROVE  Moves /\ Subscribes(Now, Now', c, on)
  <2>1. /\ Becomes(SubscribeTo(Now, c, on)) /\ Unused(c)
        /\ UNCHANGED <<heard, incoming, subs, messages, overlap, mismatch, crashed>>
    BY <1>3 DEF Subscribe
  <2>2. Now' = SubscribeTo(Now, c, on) /\ Now' \in Client /\ Subscribes(Now, Now', c, on)
    <3>1. PICK t : t = SubscribeTo(Now, c, on)
      OBVIOUS
    <3>2. t \in Client /\ Subscribes(Now, t, c, on)
      BY <1>1, <1>2, <2>1, <3>1, SubscribeFields
    <3>3. Now' = t
      BY <2>1, <3>1, <3>2, BecomesNow
    <3> QED
      BY <3>1, <3>2, <3>3
  <2>3. /\ Standing(Now', incoming)
        /\ "subscribe" \notin overlap => Orderly(Now', incoming, subs)
    BY <1>1, <2>2, SubscribeStanding, SubscribeOrderly
  <2> QED
    BY <1>1, <2>1, <2>2, <2>3 DEF Moves, Others
<1>4. ASSUME NEW on \in Names, Unsubscribe(c, on)
      PROVE  Moves /\ Unsubscribes(Now, Now', c, on) /\ subscribed
  <2>1. /\ Becomes(Issued(Now, c, "unsubscribe", on)) /\ Unused(c) /\ subscribed
        /\ \A ch \in Named(on) : channels[ch] # None /\ ~Leaving(ch)
        /\ UNCHANGED <<heard, incoming, subs, messages, overlap, mismatch, crashed>>
    BY <1>4 DEF Unsubscribe
  <2>2. Now' \in Client /\ Unsubscribes(Now, Now', c, on)
    <3>1. PICK t : t = Issued(Now, c, "unsubscribe", on)
      OBVIOUS
    <3>2. on \in Seq(Channel) /\ "unsubscribe" \in What
      BY NamesFacts DEF What
    <3>3. t \in Client /\ Unsubscribes(Now, t, c, on)
      BY <1>1, <1>2, <2>1, <3>1, <3>2, IssuedFields DEF Unsubscribes
    <3>4. Now' = t
      BY <2>1, <3>1, <3>3, BecomesNow
    <3> QED
      BY <3>3, <3>4
  <2>3. Stays(Now, incoming, on) /\ Now.subscribed /\ \A ch \in Named(on) : Now.channels[ch] # None
    BY <2>1, NowFields DEF Stays, Leaving, Asks, Tells
  <2>4. /\ Standing(Now', incoming)
        /\ "subscribe" \notin overlap => Orderly(Now', incoming, subs)
    BY <1>1, <2>2, <2>3, UnsubscribeStanding, UnsubscribeOrderly
  <2> QED
    BY <1>1, <2>1, <2>2, <2>4 DEF Moves, Others
<1>5. ASSUME UnsubscribeRefused(c) PROVE Moves /\ Refuses(Now, Now', c)
  <2>1. /\ Becomes([Now EXCEPT !.sent[c] = "unsubscribe", !.obj[c] = "deleted"]) /\ Unused(c)
        /\ UNCHANGED <<heard, incoming, subs, messages, overlap, mismatch, crashed>>
    BY <1>5 DEF UnsubscribeRefused
  <2>2. Now' \in Client /\ Refuses(Now, Now', c)
    <3>1. PICK t : t = [Now EXCEPT !.sent[c] = "unsubscribe", !.obj[c] = "deleted"]
      OBVIOUS
    <3>2. t \in Client /\ Refuses(Now, t, c)
      BY <1>1, <1>2, <2>1, <3>1, RefusedFields
    <3>3. Now' = t
      BY <2>1, <3>1, <3>2, BecomesNow
    <3> QED
      BY <3>2, <3>3
  <2>3. /\ Standing(Now', incoming)
        /\ "subscribe" \notin overlap => Orderly(Now', incoming, subs)
    BY <1>1, <2>2, RefuseKeeps
  <2> QED
    BY <1>1, <2>1, <2>2, <2>3 DEF Moves, Others
<1>6. ASSUME Other(c) PROVE Moves /\ Sends(Now, Now', c)
  <2>1. /\ Becomes(OtherOn(Now, c)) /\ Unused(c)
        /\ UNCHANGED <<heard, incoming, subs, messages, overlap, mismatch, crashed>>
    BY <1>6 DEF Other
  <2>2. Now' \in Client /\ Sends(Now, Now', c)
    <3>1. PICK t : t = OtherOn(Now, c)
      OBVIOUS
    <3>2. t \in Client /\ Sends(Now, t, c)
      BY <1>1, <1>2, <2>1, <3>1, OtherFields
    <3>3. Now' = t
      BY <2>1, <3>1, <3>2, BecomesNow
    <3> QED
      BY <3>2, <3>3
  <2>3. /\ Standing(Now', incoming)
        /\ "subscribe" \notin overlap => Orderly(Now', incoming, subs)
    BY <1>1, <2>2, SendsStanding, SendsOrderly
  <2> QED
    BY <1>1, <2>1, <2>2, <2>3 DEF Moves, Others
<1> QED
  BY <1>3, <1>4, <1>5, <1>6

(* The node: it answers, and it passes on what is published.               *)
LEMMA ServeMoves ==
  ASSUME Base, crashed = "no", Serve
  PROVE  /\ Moves /\ Serves(Now, Now', incoming, incoming')
         /\ subs' = SubsAfter(Now.wire[1], Len(Now.wire[1].on))
         /\ UNCHANGED <<clientVars, messages, overlap, mismatch, crashed>>
<1>1. /\ Now \in Client /\ incoming \in Seq(Reply) /\ subs \subseteq Channel /\ Others
      /\ Standing(Now, incoming)
      /\ "subscribe" \notin overlap => Orderly(Now, incoming, subs)
  BY BaseFacts
<1>2. /\ wire # <<>> /\ subs' = SubsAfter(Head(wire), Len(Head(wire).on))
      /\ incoming' = incoming \o Served(Head(wire)) /\ wire' = Tail(wire)
      /\ UNCHANGED <<clientVars, messages, overlap, mismatch, crashed>>
  BY DEF Serve
<1>3. wire \in Seq(Request)
  BY <1>1, NowFields DEF Client
<1>4. /\ wire' \in Seq(Request) /\ Head(wire) \in Request /\ Head(wire) = wire[1]
      /\ 1 \in DOMAIN wire /\ Shrunk(wire, wire')
  BY <1>2, <1>3, Popping
<1>5. PICK q : q = wire[1]
  OBVIOUS
<1>6. q \in Request /\ (q.what # "other" => q.on \in Names) /\ (q.what = "other" => q.on = <<>>)
  BY <1>1, <1>4, <1>5, NowFields DEF Standing, Requests
<1>7. incoming' \in Seq(Reply) /\ Answered(q, incoming, incoming')
  BY <1>1, <1>2, <1>4, <1>5, <1>6, ServedFacts
<1>8. subs' = SubsAfter(q, Len(q.on)) /\ subs' \subseteq Channel
  <2>1. q.on \in Seq(Channel)
    BY <1>6 DEF Request
  <2>2. Len(q.on) \in Nat /\ Len(q.on) <= Len(q.on)
    BY <2>1
  <2>3. SubsAfter(q, Len(q.on)) \subseteq Channel
    BY <1>1, <1>6, <2>2, SubsFinite
  <2> QED
    BY <1>2, <1>4, <1>5, <2>3
<1>9. UNCHANGED <<sent, obj, replies, channels, invalid, subscribed, heard>>
  BY <1>2 DEF clientVars
<1>10. Serves(Now, Now', incoming, incoming')
  BY <1>4, <1>5, <1>7, <1>9, NowFields, NowFieldsNext DEF Serves
<1>11. Now' \in Client
  <2>1. /\ sent' \in [Cmd -> What \cup {"unused"}] /\ obj' \in [Cmd -> {"none", "live", "deleted"}]
        /\ replies' \in Seq(Cmd) /\ channels' \in [Channel -> Cmd \cup {None}]
        /\ invalid' \in Seq(Cmd) /\ subscribed' \in BOOLEAN
    BY <1>1, <1>9, NowFields DEF Client
  <2> QED
    BY <1>4, <2>1 DEF Now, Client
<1>12. Standing(Now', incoming')
  BY <1>1, <1>10, <1>11, ServeStanding
<1>13. "subscribe" \notin overlap => Orderly(Now', incoming', subs')
  BY <1>1, <1>5, <1>8, <1>10, <1>11, NowFields, ServeOrderly
<1>14. Moves
  <2>1. Others' /\ overlap' = overlap /\ crashed' = "no"
    BY <1>1, <1>2, <1>9 DEF Others
  <2> QED
    BY <1>7, <1>8, <1>11, <1>12, <1>13, <2>1 DEF Moves
<1> QED
  BY <1>2, <1>5, <1>8, <1>10, <1>14, NowFields

(* A message of a channel.                                                 *)
LEMMA PublishMoves ==
  ASSUME Base, crashed = "no", NEW ch \in Channel, Publish(ch)
  PROVE  /\ Moves /\ Now' = Now /\ ch \in subs
         /\ \E v : Grown(incoming, incoming', v) /\ v.what = "message"
         /\ UNCHANGED <<clientVars, wire, subs, overlap, mismatch, crashed>>
<1>1. /\ Now \in Client /\ incoming \in Seq(Reply) /\ subs \subseteq Channel /\ Others
      /\ Standing(Now, incoming)
      /\ "subscribe" \notin overlap => Orderly(Now, incoming, subs)
  BY BaseFacts
<1>2. /\ ch \in subs /\ messages < MaxMessages /\ messages' = messages + 1
      /\ incoming' = Append(incoming, [what |-> "message", on |-> ch, left |-> 0])
      /\ UNCHANGED <<clientVars, wire, subs, overlap, mismatch, crashed>>
  BY DEF Publish
<1>3. PICK v : v = [what |-> "message", on |-> ch, left |-> 0]
  OBVIOUS
<1>4. v \in Reply /\ v.what = "message"
  BY <1>3 DEF Reply
<1>5. incoming' \in Seq(Reply) /\ Grown(incoming, incoming', v)
  BY <1>1, <1>2, <1>3, <1>4, Appending
<1>6. Now' = Now /\ heard' = heard
  BY <1>2 DEF clientVars, Now
<1>7. /\ Standing(Now, incoming')
      /\ "subscribe" \notin overlap => Orderly(Now, incoming', subs)
  BY <1>1, <1>2, <1>4, <1>5, PublishKeeps
<1>8. Others'
  BY <1>1, <1>2, <1>6, SubscriptionAssumption DEF Others
<1> QED
  BY <1>1, <1>2, <1>4, <1>5, <1>6, <1>7, <1>8 DEF Moves

(* A callback of hiredis, from what it found, m.                           *)
Called(m, c) ==
  IF m.obj[c] # "live"
  THEN Now' = m /\ heard' = heard /\ crashed' = "useAfterFree"
  ELSE /\ \E q \in Inside(m) : Now' = Deleted(q, c)
       /\ heard' = [heard EXCEPT ![c] = @ + 1]
       /\ crashed' = crashed

(* A callback finds a deleted object, or lets the program act.             *)
LEMMA CallFields ==
  ASSUME NEW m \in Client, m.sent = sent, NEW c \in Cmd, Call(m, c)
  PROVE  Called(m, c)
<1>1. CASE m.obj[c] # "live"
  <2>1. Becomes(m) /\ heard' = heard /\ crashed' = "useAfterFree"
    BY <1>1 DEF Call
  <2> QED
    BY <1>1, <2>1, BecomesNow DEF Called
<1>2. CASE m.obj[c] = "live"
  <2>1. /\ \E q \in Inside(m) : Becomes(Deleted(q, c))
        /\ heard' = [heard EXCEPT ![c] = @ + 1] /\ crashed' = crashed
    BY <1>2 DEF Call
  <2>2. PICK q \in Inside(m) : Becomes(Deleted(q, c))
    BY <2>1
  <2>3. PICK t : t = Deleted(q, c)
    OBVIOUS
  <2>4. t \in Client
    BY <2>3, InsideCases, DeletedFields
  <2>5. Now' = Deleted(q, c)
    BY <2>2, <2>3, <2>4, BecomesNow
  <2> QED
    BY <1>2, <2>1, <2>5 DEF Called
<1> QED
  BY <1>1, <1>2

(* It keeps the parts of Base, and finds no deleted object before the flag *)
(* goes.                                                                   *)
LEMMA CallKeeps ==
  ASSUME NEW m \in Client, m.sent = sent, NEW k \in Seq(Reply), NEW s, NEW c \in Cmd,
         m.sent[c] # "unused", Standing(m, k), Called(m, c), Others, crashed = "no"
  PROVE  /\ Now' \in Client /\ Standing(Now', k)
         /\ heard' \in [Cmd -> Nat] /\ crashed' \in {"no", "useAfterFree"}
         /\ Orderly(m, k, s) /\ m.obj[c] = "live" /\ (m.subscribed \/ Free(m, c)) =>
              Orderly(Now', k, s) /\ crashed' # "useAfterFree"
<1>1. CASE m.obj[c] # "live"
  BY <1>1 DEF Called, Others
<1>2. CASE m.obj[c] = "live"
  <2>1. /\ \E q \in Inside(m) : Now' = Deleted(q, c)
        /\ heard' = [heard EXCEPT ![c] = @ + 1] /\ crashed' = "no"
    BY <1>2 DEF Called
  <2>2. PICK q \in Inside(m) : Now' = Deleted(q, c)
    BY <2>1
  <2>3. PICK t : t = Deleted(q, c)
    OBVIOUS
  <2>4. /\ t \in Client /\ Standing(t, k)
        /\ Orderly(m, k, s) /\ (m.subscribed \/ Free(m, c)) => Orderly(t, k, s)
    BY <2>3, CallbackKeeps
  <2> QED
    BY <2>1, <2>2, <2>3, <2>4 DEF Others
<1> QED
  BY <1>1, <1>2

(* What comes back is taken.                                               *)
Received ==
  /\ incoming \in Seq(Reply) /\ incoming' \in Seq(Reply) /\ incoming # <<>>
  /\ Head(incoming) = incoming[1] /\ incoming[1] \in Reply
  /\ 1 \in DOMAIN incoming /\ Shrunk(incoming, incoming')

(* The first of what is on its way is taken.                               *)
LEMMA Receiving ==
  ASSUME incoming \in Seq(Reply), incoming # <<>>, incoming' = Tail(incoming)
  PROVE  Received
BY Popping DEF Received

(* A reply of the queue: its first callback is called.                     *)
LEMMA ReplyMoves ==
  ASSUME Base, crashed = "no", ReceiveReply
  PROVE  /\ Moves /\ Received
         /\ replies # <<>> /\ replies[1] \in Cmd /\ 1 \in DOMAIN replies
         /\ \E t \in Client : TakesReply(Now, t) /\ Called(t, replies[1])
         /\ mismatch' = IF Mine(incoming[1], replies[1]) THEN mismatch
                        ELSE mismatch \cup {replies[1]}
         /\ UNCHANGED <<subs, messages, overlap>>
<1>1. /\ Now \in Client /\ incoming \in Seq(Reply) /\ subs \subseteq Channel /\ Others
      /\ Standing(Now, incoming)
      /\ "subscribe" \notin overlap => Orderly(Now, incoming, subs)
  BY BaseFacts
<1>2. /\ incoming # <<>> /\ replies # <<>>
      /\ Call([Now EXCEPT !.replies = Tail(@)], Head(replies))
      /\ mismatch' = IF Mine(Head(incoming), Head(replies)) THEN mismatch
                     ELSE mismatch \cup {Head(replies)}
      /\ incoming' = Tail(incoming)
      /\ UNCHANGED <<subs, messages, overlap>>
  BY DEF ReceiveReply
<1>3. Received
  BY <1>1, <1>2, Receiving
<1>4. PICK t : t = [Now EXCEPT !.replies = Tail(@)]
  OBVIOUS
<1>5. /\ t \in Client /\ TakesReply(Now, t) /\ Head(replies) \in Cmd
      /\ Head(replies) = replies[1]
  BY <1>1, <1>2, <1>4, NowFields, TakenFields
<1>6. PICK c : c = replies[1]
  OBVIOUS
<1>7. c \in Cmd /\ t.sent = sent /\ Called(t, c)
  <2>1. t.sent = sent
    BY <1>5, NowFields DEF TakesReply
  <2> QED
    BY <1>2, <1>4, <1>5, <1>6, <2>1, CallFields
<1>8. 1 \in DOMAIN replies /\ Now.replies = replies
  BY <1>1, <1>2, NowFields, Popping DEF Client
<1>9. /\ Standing(t, incoming') /\ Free(t, c)
      /\ Orderly(Now, incoming, subs) => Orderly(t, incoming', subs) /\ t.obj[c] = "live"
  BY <1>1, <1>3, <1>5, <1>6, <1>8, ReplyTaken DEF Received
<1>10. t.sent[c] # "unused"
  BY <1>9 DEF Free
<1>11. /\ Now' \in Client /\ Standing(Now', incoming')
       /\ heard' \in [Cmd -> Nat] /\ crashed' \in {"no", "useAfterFree"}
       /\ Orderly(t, incoming', subs) /\ t.obj[c] = "live" /\ (t.subscribed \/ Free(t, c)) =>
            Orderly(Now', incoming', subs) /\ crashed' # "useAfterFree"
  BY <1>1, <1>3, <1>5, <1>7, <1>9, <1>10, CallKeeps DEF Received
<1>12. mismatch' \subseteq Cmd
  BY <1>1, <1>2, <1>5 DEF Others
<1>13. Moves
  <2>1. Others'
    BY <1>1, <1>2, <1>11, <1>12 DEF Others
  <2> QED
    BY <1>1, <1>2, <1>3, <1>9, <1>11, <2>1 DEF Moves, Received
<1>14. mismatch' = IF Mine(incoming[1], replies[1]) THEN mismatch
                   ELSE mismatch \cup {replies[1]}
  BY <1>2, <1>3, <1>5 DEF Received
<1> QED
  BY <1>2, <1>3, <1>5, <1>6, <1>7, <1>8, <1>13, <1>14

(* A reply for the queue of invalid commands: nobody, or the first of it.  *)
LEMMA InvalidMoves ==
  ASSUME Base, crashed = "no", ReceiveInvalid
  PROVE  /\ Moves /\ Received /\ replies = <<>> /\ subscribed /\ incoming[1].what = "data"
         /\ UNCHANGED <<subs, messages, overlap>>
         /\ \/ invalid = <<>> /\ Now' = Now /\ UNCHANGED <<heard, mismatch, crashed>>
            \/ /\ invalid # <<>> /\ invalid[1] \in Cmd /\ 1 \in DOMAIN invalid
               /\ \E t \in Client : TakesInvalid(Now, t) /\ Called(t, invalid[1])
               /\ mismatch' = IF Mine(incoming[1], invalid[1]) THEN mismatch
                              ELSE mismatch \cup {invalid[1]}
<1>1. /\ Now \in Client /\ incoming \in Seq(Reply) /\ subs \subseteq Channel /\ Others
      /\ Standing(Now, incoming)
      /\ "subscribe" \notin overlap => Orderly(Now, incoming, subs)
  BY BaseFacts
<1>2. /\ incoming # <<>> /\ replies = <<>> /\ subscribed
      /\ Head(incoming).what = "data" /\ incoming' = Tail(incoming)
      /\ UNCHANGED <<subs, messages, overlap>>
  BY DEF ReceiveInvalid
<1>3. Received
  BY <1>1, <1>2, Receiving
<1>4. incoming[1].what = "data" /\ Now.replies = <<>>
  BY <1>2, <1>3, NowFields DEF Received
<1>5. CASE invalid = <<>>
  <2>1. Becomes(Now) /\ UNCHANGED <<heard, mismatch, crashed>>
    BY <1>5 DEF ReceiveInvalid
  <2>2. Now' = Now
    BY <1>1, <2>1, BecomesNow
  <2>3. \A ch \in Channel : Tells(incoming[1], "unsubscribe", ch) => Now.channels[ch] = None
    BY <1>4 DEF Tells
  <2>4. /\ Standing(Now, incoming')
        /\ Orderly(Now, incoming, subs) => Orderly(Now, incoming', subs)
    BY <1>1, <1>3, <1>4, <2>3, NothingTaken DEF Received
  <2>5. Moves
    BY <1>1, <1>2, <1>3, <2>1, <2>2, <2>4 DEF Moves, Others, Received
  <2> QED
    BY <1>2, <1>3, <1>4, <1>5, <2>1, <2>2, <2>5
<1>6. CASE invalid # <<>>
  <2>1. /\ Call([Now EXCEPT !.invalid = Tail(@)], Head(invalid))
        /\ mismatch' = IF Mine(Head(incoming), Head(invalid)) THEN mismatch
                       ELSE mismatch \cup {Head(invalid)}
    BY <1>6 DEF ReceiveInvalid
  <2>2. PICK t : t = [Now EXCEPT !.invalid = Tail(@)]
    OBVIOUS
  <2>3. /\ t \in Client /\ TakesInvalid(Now, t) /\ Head(invalid) \in Cmd
        /\ Head(invalid) = invalid[1]
    BY <1>1, <1>6, <2>2, NowFields, TakenFields
  <2>4. PICK c : c = invalid[1]
    OBVIOUS
  <2>5. c \in Cmd /\ t.sent = sent /\ Called(t, c)
    <3>1. t.sent = sent
      BY <2>3, NowFields DEF TakesInvalid
    <3> QED
      BY <2>1, <2>2, <2>3, <2>4, <3>1, CallFields
  <2>6. 1 \in DOMAIN invalid /\ Now.invalid = invalid
    BY <1>1, <1>6, NowFields, Popping DEF Client
  <2>7. /\ Standing(t, incoming') /\ Free(t, c)
        /\ Orderly(Now, incoming, subs) => Orderly(t, incoming', subs) /\ t.obj[c] = "live"
    BY <1>1, <1>3, <1>4, <2>3, <2>4, <2>6, InvalidTaken DEF Received
  <2>8. t.sent[c] # "unused"
    BY <2>7 DEF Free
  <2>9. /\ Now' \in Client /\ Standing(Now', incoming')
        /\ heard' \in [Cmd -> Nat] /\ crashed' \in {"no", "useAfterFree"}
        /\ Orderly(t, incoming', subs) /\ t.obj[c] = "live" /\ (t.subscribed \/ Free(t, c)) =>
             Orderly(Now', incoming', subs) /\ crashed' # "useAfterFree"
    BY <1>1, <1>3, <2>3, <2>5, <2>7, <2>8, CallKeeps DEF Received
  <2>10. mismatch' \subseteq Cmd
    BY <1>1, <2>1, <2>3 DEF Others
  <2>11. Moves
    <3>1. Others'
      BY <1>1, <1>2, <2>9, <2>10 DEF Others
    <3> QED
      BY <1>1, <1>2, <1>3, <2>7, <2>9, <3>1 DEF Moves, Received
  <2>12. mismatch' = IF Mine(incoming[1], invalid[1]) THEN mismatch
                     ELSE mismatch \cup {invalid[1]}
    BY <1>3, <2>1, <2>3 DEF Received
  <2> QED
    BY <1>2, <1>3, <1>4, <1>6, <2>3, <2>4, <2>5, <2>6, <2>11, <2>12
<1> QED
  BY <1>5, <1>6

(* A message or reply of a channel: nobody, or the callback of the channel *)
(* before or after it is dropped.                                          *)
LEMMA ChannelMoves ==
  ASSUME Base, crashed = "no", ReceiveChannel
  PROVE  /\ Moves /\ Received /\ replies = <<>> /\ subscribed
         /\ incoming[1].what \in {"subscribe", "unsubscribe", "message"}
         /\ incoming[1].on \in Channel /\ incoming[1].left \in Nat
         /\ overlap' = overlap \cup {what \in {"subscribe", "other"} :
                                       LastOf(incoming[1]) /\ UnderWay(what)}
         /\ UNCHANGED <<subs, messages, mismatch>>
         /\ \/ /\ channels[incoming[1].on] = None
               /\ Now' = Now /\ UNCHANGED <<heard, crashed>>
            \/ /\ channels[incoming[1].on] \in Cmd
               /\ sent[channels[incoming[1].on]] = "subscribe"
               /\ \/ incoming[1].what # "unsubscribe" /\ Called(Now, channels[incoming[1].on])
                  \/ /\ incoming[1].what = "unsubscribe"
                     /\ \E t \in Client : /\ Leaves(Now, t, incoming[1].on, LastOf(incoming[1]))
                                          /\ Called(t, channels[incoming[1].on])
<1>1. /\ Now \in Client /\ incoming \in Seq(Reply) /\ subs \subseteq Channel /\ Others
      /\ Standing(Now, incoming)
      /\ "subscribe" \notin overlap => Orderly(Now, incoming, subs)
  BY BaseFacts
<1>2. /\ incoming # <<>> /\ replies = <<>> /\ subscribed /\ incoming' = Tail(incoming)
      /\ UNCHANGED <<subs, messages, mismatch>>
  BY DEF ReceiveChannel
<1>3. Received
  BY <1>1, <1>2, Receiving
<1>4. PICK p : p = incoming[1]
  OBVIOUS
<1>5. PICK last : last = LastOf(p)
  OBVIOUS
<1>6. last \in BOOLEAN
  BY <1>5 DEF LastOf
<1>7. /\ p.what \in {"subscribe", "unsubscribe", "message"}
      /\ overlap' = overlap \cup {what \in {"subscribe", "other"} : last /\ UnderWay(what)}
      /\ IF channels[p.on] = None THEN Becomes(Now) /\ UNCHANGED <<heard, crashed>>
         ELSE Call(IF p.what = "unsubscribe" THEN Left(Now, p.on, last) ELSE Now, channels[p.on])
  BY <1>3, <1>4, <1>5, Zenon DEF ReceiveChannel, Received, LastOf
<1>8. p.on \in Channel /\ p.left \in Nat
  BY <1>3, <1>4, <1>7 DEF Received, Reply
<1>9. Now.replies = <<>> /\ Now.subscribed /\ Now.channels = channels
  BY <1>2, NowFields
<1>10. overlap' \subseteq {"subscribe", "other"} /\ ("subscribe" \notin overlap' => "subscribe" \notin overlap)
  BY <1>1, <1>7 DEF Others
<1>11. CASE channels[p.on] = None
  <2>1. Becomes(Now) /\ UNCHANGED <<heard, crashed>>
    BY <1>7, <1>11
  <2>2. Now' = Now
    BY <1>1, <2>1, BecomesNow
  <2>3. \A ch \in Channel : Tells(incoming[1], "unsubscribe", ch) => Now.channels[ch] = None
    BY <1>4, <1>9, <1>11 DEF Tells
  <2>4. /\ Standing(Now, incoming')
        /\ Orderly(Now, incoming, subs) => Orderly(Now, incoming', subs)
    BY <1>1, <1>3, <1>9, <2>3, NothingTaken DEF Received
  <2>5. Moves
    BY <1>1, <1>2, <1>3, <1>10, <2>1, <2>2, <2>4 DEF Moves, Others, Received
  <2> QED
    BY <1>2, <1>3, <1>4, <1>5, <1>7, <1>8, <1>11, <2>1, <2>2, <2>5
<1>12. CASE channels[p.on] # None
  <2>1. PICK c : c = channels[p.on]
    OBVIOUS
  <2>2. c \in Cmd /\ sent[c] = "subscribe" /\ c = Now.channels[p.on] /\ c # None
    BY <1>1, <1>8, <1>9, <1>12, <2>1, NowFields DEF Client, Standing, Kinds
  <2>3. CASE p.what # "unsubscribe"
    <3>1. Called(Now, c)
      <4>1. Call(Now, c)
        BY <1>7, <1>12, <2>1, <2>3
      <4> QED
        BY <1>1, <2>2, <4>1, NowFields, CallFields
    <3>2. \A ch \in Channel : Tells(incoming[1], "unsubscribe", ch) => Now.channels[ch] = None
      BY <1>4, <2>3 DEF Tells
    <3>3. /\ Standing(Now, incoming')
          /\ Orderly(Now, incoming, subs) => Orderly(Now, incoming', subs)
      BY <1>1, <1>3, <1>9, <3>2, NothingTaken DEF Received
    <3>4. /\ Now' \in Client /\ Standing(Now', incoming')
          /\ heard' \in [Cmd -> Nat] /\ crashed' \in {"no", "useAfterFree"}
          /\ Orderly(Now, incoming', subs) /\ Now.obj[c] = "live" /\ (Now.subscribed \/ Free(Now, c)) =>
               Orderly(Now', incoming', subs) /\ crashed' # "useAfterFree"
      <4>1. Now.sent = sent /\ Now.sent[c] # "unused"
        BY <2>2, NowFields
      <4> QED
        BY <1>1, <1>3, <2>2, <3>1, <3>3, <4>1, CallKeeps DEF Received
    <3>5. Orderly(Now, incoming, subs) => Now.obj[c] = "live"
      BY <1>8, <2>2 DEF Orderly, Live
    <3>6. Moves
      <4>1. Others'
        BY <1>1, <1>2, <1>10, <3>4 DEF Others
      <4> QED
        BY <1>1, <1>2, <1>3, <1>9, <1>10, <3>3, <3>4, <3>5, <4>1 DEF Moves, Received
    <3> QED
      BY <1>2, <1>3, <1>4, <1>5, <1>7, <1>8, <2>1, <2>2, <2>3, <3>1, <3>6
  <2>4. CASE p.what = "unsubscribe"
    <3>1. PICK t : t = Left(Now, p.on, last)
      OBVIOUS
    <3>2. t \in Client /\ Leaves(Now, t, p.on, last)
      BY <1>1, <1>6, <1>8, <3>1, TakenFields
    <3>3. t.sent = sent /\ Called(t, c)
      <4>1. Call(t, c) /\ t.sent = sent
        BY <1>7, <1>12, <2>1, <2>4, <3>1, <3>2, NowFields DEF Leaves
      <4> QED
        BY <2>2, <3>2, <4>1, CallFields
    <3>4. Tells(incoming[1], "unsubscribe", p.on) /\ (last => incoming[1].left = 0)
      BY <1>4, <1>5, <2>4 DEF Tells, LastOf
    <3>5. /\ Standing(t, incoming')
          /\ Orderly(Now, incoming, subs) /\ (last => NoSubscribe(Now, incoming)) =>
               /\ Orderly(t, incoming', subs) /\ t.obj[c] = "live"
               /\ last => Free(t, c)
      <4>1. PICK ch \in Channel : ch = p.on
        BY <1>8
      <4>2. /\ Leaves(Now, t, ch, LastOf(incoming[1])) /\ Tells(incoming[1], "unsubscribe", ch)
            /\ c = Now.channels[ch] /\ Now.channels[ch] # None
        BY <1>4, <1>5, <2>2, <3>2, <3>4, <4>1
      <4>3. Shrunk(incoming, incoming')
        BY <1>3 DEF Received
      <4>4. /\ Standing(t, incoming')
            /\ Orderly(Now, incoming, subs) /\ (LastOf(incoming[1]) => NoSubscribe(Now, incoming)) =>
                 /\ Orderly(t, incoming', subs) /\ t.obj[Now.channels[ch]] = "live"
                 /\ LastOf(incoming[1]) => Free(t, Now.channels[ch])
        BY <1>1, <1>9, <3>2, <4>2, <4>3, ChannelLeft
      <4> QED
        BY <1>4, <1>5, <4>2, <4>4
    <3>6. /\ Now' \in Client /\ Standing(Now', incoming')
          /\ heard' \in [Cmd -> Nat] /\ crashed' \in {"no", "useAfterFree"}
          /\ Orderly(t, incoming', subs) /\ t.obj[c] = "live" /\ (t.subscribed \/ Free(t, c)) =>
               Orderly(Now', incoming', subs) /\ crashed' # "useAfterFree"
      <4>1. t.sent[c] # "unused"
        BY <2>2, <3>3
      <4> QED
        BY <1>1, <1>3, <2>2, <3>2, <3>3, <3>5, <4>1, CallKeeps DEF Received
    <3>7. t.subscribed = ~last
      BY <3>2 DEF Leaves
    <3>8. "subscribe" \notin overlap' => (last => NoSubscribe(Now, incoming))
      <4> SUFFICES ASSUME "subscribe" \notin overlap', last PROVE NoSubscribe(Now, incoming)
        OBVIOUS
      <4>1. ~UnderWay("subscribe")
        BY <1>7
      <4> QED
        BY <4>1, NowFields DEF UnderWay, NoSubscribe
    <3>9. Moves
      <4>1. Others'
        BY <1>1, <1>2, <1>10, <3>6 DEF Others
      <4> QED
        BY <1>1, <1>2, <1>3, <1>10, <3>5, <3>6, <3>7, <3>8, <4>1 DEF Moves, Received
    <3> QED
      BY <1>2, <1>3, <1>4, <1>5, <1>7, <1>8, <2>1, <2>2, <2>4, <3>2, <3>3, <3>9
  <2> QED
    BY <2>3, <2>4
<1> QED
  BY <1>11, <1>12

(* The end of the process, and nothing else.                               *)
LEMMA StillMoves ==
  ASSUME Base, UNCHANGED <<clientVars, nodeVars, overlap, mismatch>>,
         crashed' \in {"closed", "nullReply", "assert"}
  PROVE  Moves
<1>1. /\ Now \in Client /\ incoming \in Seq(Reply) /\ subs \subseteq Channel /\ Others
      /\ Standing(Now, incoming)
      /\ "subscribe" \notin overlap => Orderly(Now, incoming, subs)
  BY BaseFacts
<1>2. /\ Now' = Now /\ incoming' = incoming /\ subs' = subs /\ overlap' = overlap
      /\ heard' = heard /\ messages' = messages /\ mismatch' = mismatch
  BY DEF clientVars, nodeVars, Now
<1>3. Others'
  BY <1>1, <1>2 DEF Others
<1> QED
  BY <1>1, <1>2, <1>3 DEF Moves

(* At first nothing is sent.                                               *)
LEMMA BaseInit == Init => Base
<1> SUFFICES ASSUME Init PROVE Base
  OBVIOUS
<1>1. /\ Now.sent = [c \in Cmd |-> "unused"] /\ Now.obj = [c \in Cmd |-> "none"]
      /\ Now.replies = <<>> /\ Now.invalid = <<>> /\ Now.wire = <<>>
      /\ Now.channels = [ch \in Channel |-> None] /\ Now.subscribed = FALSE
  BY NowFields DEF Init
<1>2. Now \in Client
  <2>1. /\ sent \in [Cmd -> What \cup {"unused"}] /\ obj \in [Cmd -> {"none", "live", "deleted"}]
        /\ channels \in [Channel -> Cmd \cup {None}] /\ subscribed \in BOOLEAN
    BY DEF Init
  <2>2. replies \in Seq(Cmd) /\ invalid \in Seq(Cmd) /\ wire \in Seq(Request)
    BY DEF Init
  <2> QED
    BY <2>1, <2>2 DEF Now, Client
<1>3. incoming = <<>> /\ incoming \in Seq(Reply) /\ subs = {} /\ crashed = "no"
  BY DEF Init
<1>4. Others
  BY SubscriptionAssumption DEF Init, Others
<1>5. \A v : v = <<>> => DOMAIN v = {} /\ Len(v) = 0
  OBVIOUS
<1>6. Standing(Now, incoming)
  <2>1. Kinds(Now) /\ Distinct(Now) /\ Fresh(Now) /\ LeftOnce(Now, incoming)
    BY <1>1, <1>3, <1>5 DEF Kinds, Distinct, Fresh, LeftOnce
  <2>2. Requests(Now)
    BY <1>1, <1>5, UsedFinite DEF Requests
  <2> QED
    BY <1>1, <2>1, <2>2 DEF Standing
<1>7. Orderly(Now, incoming, subs)
  <2>1. Live(Now) /\ Joined(Now, incoming, subs) /\ Emptied(incoming, subs)
    BY <1>1, <1>3, <1>5 DEF Live, Joined, Emptied
  <2>2. Ahead(Now, incoming, subs) /\ Quiet(Now, incoming, subs)
    BY <1>1, <1>3, <1>5 DEF Ahead, Quiet
  <2> QED
    BY <2>1, <2>2 DEF Orderly
<1> QED
  BY <1>2, <1>3, <1>4, <1>6, <1>7, BaseState

(* Each action keeps Base.                                                 *)
LEMMA BaseStep == Base /\ [Next]_vars => Base'
<1> SUFFICES ASSUME Base, [Next]_vars PROVE Base'
  OBVIOUS
<1>1. CASE UNCHANGED vars
  BY <1>1 DEF vars, clientVars, nodeVars, Base, TypeOK, Waiting, DanglingCause, Now
<1>2. CASE Next
  <2>1. crashed = "no"
    BY <1>2 DEF Next
  <2>2. ASSUME NEW c \in Cmd, NEW on \in Names, Subscribe(c, on) \/ Unsubscribe(c, on) PROVE Moves
    BY <2>1, <2>2, SentMoves
  <2>3. ASSUME NEW c \in Cmd, UnsubscribeRefused(c) \/ Other(c) PROVE Moves
    BY <2>1, <2>3, SentMoves
  <2>4. ASSUME NEW ch \in Channel, Publish(ch) PROVE Moves
    BY <2>1, <2>4, PublishMoves
  <2>5. ASSUME Serve \/ ReceiveReply \/ ReceiveChannel \/ ReceiveInvalid PROVE Moves
    BY <2>1, <2>5, ServeMoves, ReplyMoves, ChannelMoves, InvalidMoves
  <2>6. ASSUME ReceiveUnexpected \/ TearDown PROVE Moves
    BY <2>6, StillMoves DEF ReceiveUnexpected, TearDown, vars, nodeVars, clientVars
  <2>7. Moves
    BY <1>2, <2>2, <2>3, <2>4, <2>5, <2>6 DEF Next
  <2> QED
    BY <2>7, BaseNext
<1> QED
  BY <1>1, <1>2

(* The inductive invariant: where each object waits and what is on its     *)
(* way, and, until the flag goes under a SUBSCRIBE, that what waits is not *)
(* deleted, that the channels agree with the node's and that the queue of  *)
(* replies comes first.                                                    *)
THEOREM Invariance == Spec => []Base
<1> QED
  BY BaseInit, BaseStep, PTL DEF Spec

(* hiredis keeps or calls a deleted object only when the flag went under a *)
(* SUBSCRIBE.                                                              *)
THEOREM Dangling == Spec => []DanglingCause
<1>1. Base => DanglingCause
  BY DEF Base
<1> QED
  BY <1>1, Invariance, PTL

(* The variables of AsyncSubscription have their types.                    *)
THEOREM TypeCorrect == Spec => []TypeOK
<1>1. Base => TypeOK
  BY DEF Base
<1> QED
  BY <1>1, Invariance, PTL

-----------------------------------------------------------------------------
(* Which reply is for whom: the two queues are one, and hold the commands  *)
(* in the order in which they are answered, as long as the flag does not   *)
(* go while the second is in use.                                          *)

Queued(r, c) ==
  (\E i \in DOMAIN r.replies : r.replies[i] = c) \/ (\E i \in DOMAIN r.invalid : r.invalid[i] = c)

Before(r, c, d) ==
  \/ \E i, j \in DOMAIN r.replies : i < j /\ r.replies[i] = c /\ r.replies[j] = d
  \/ \E i \in DOMAIN r.replies, j \in DOMAIN r.invalid : r.replies[i] = c /\ r.invalid[j] = d
  \/ \E i, j \in DOMAIN r.invalid : i < j /\ r.invalid[i] = c /\ r.invalid[j] = d

(* The i-th of what is on its way back, and then of what is on its way to  *)
(* the node, is an answer to c or will be.                                 *)
Owed(r, inc, i, c) ==
  \/ i \in DOMAIN inc /\ inc[i].what \in Answers /\ inc[i].by = c
  \/ \E j \in DOMAIN r.wire : i = Len(inc) + j /\ r.wire[j].what = "other" /\ r.wire[j].by = c

Awaited(r, inc, c) == \E i \in Nat : Owed(r, inc, i, c)
Earlier(r, inc, c, d) == \E i, j \in Nat : i < j /\ Owed(r, inc, i, c) /\ Owed(r, inc, j, d)

Paired(r, inc) ==
  /\ \A c \in Cmd : Queued(r, c) <=> Awaited(r, inc, c)
  /\ \A c, d \in Cmd : Earlier(r, inc, c, d) => Before(r, c, d)
  /\ ~r.subscribed => r.invalid = <<>>

(* A callback for a reply is called once.                                  *)
Once(r, h) ==
  \A c \in Cmd : /\ r.sent[c] = "unused" \/ Queued(r, c) => h[c] = 0
                 /\ r.sent[c] = "other" => h[c] <= 1

(* What is sent is owed last.                                              *)
LEMMA IssuedOwed ==
  ASSUME NEW r \in Client, NEW t \in Client, NEW inc \in Seq(Reply), NEW c \in Cmd, NEW what, NEW on,
         Issues(r, t, c, what, on)
  PROVE  /\ what # "other" => \A i, d : Owed(t, inc, i, d) <=> Owed(r, inc, i, d)
         /\ what = "other" => \A i, d :
              Owed(t, inc, i, d) <=>
                Owed(r, inc, i, d) \/ (i = Len(inc) + Len(r.wire) + 1 /\ d = c)
         /\ \A i, d : Owed(r, inc, i, d) => i \in Nat /\ i < Len(inc) + Len(r.wire) + 1
         /\ Len(inc) + Len(r.wire) + 1 \in Nat
<1>1. PICK q \in Request : /\ q.by = c /\ q.what = what /\ q.on = on
                           /\ Grown(r.wire, t.wire, q)
  BY DEF Issues
<1>2. /\ Len(r.wire) \in Nat /\ DOMAIN r.wire = 1..Len(r.wire)
      /\ DOMAIN t.wire = 1..(Len(r.wire) + 1)
      /\ \A j \in DOMAIN r.wire : j \in DOMAIN t.wire /\ t.wire[j] = r.wire[j]
      /\ \A j \in DOMAIN t.wire : j \in DOMAIN r.wire \/ j = Len(r.wire) + 1
      /\ Len(r.wire) + 1 \in DOMAIN t.wire /\ t.wire[Len(r.wire) + 1] = q
  BY <1>1 DEF Grown
<1>3. Len(inc) \in Nat /\ DOMAIN inc = 1..Len(inc)
  OBVIOUS
<1>4. \A i, d : Owed(t, inc, i, d) <=>
        \/ Owed(r, inc, i, d)
        \/ i = Len(inc) + (Len(r.wire) + 1) /\ q.what = "other" /\ q.by = d
  BY <1>2 DEF Owed
<1>5. Len(inc) + (Len(r.wire) + 1) = Len(inc) + Len(r.wire) + 1
  BY <1>2, <1>3
<1>6. \A i, d : Owed(r, inc, i, d) => i \in Nat /\ i < Len(inc) + Len(r.wire) + 1
  BY <1>2, <1>3 DEF Owed
<1> QED
  BY <1>1, <1>2, <1>3, <1>4, <1>5, <1>6

(* What is owed in the same order stays paired with the same queues.       *)
LEMMA OwedSame ==
  ASSUME NEW r, NEW t, NEW inc, NEW k, Paired(r, inc),
         t.replies = r.replies, t.invalid = r.invalid, t.subscribed = r.subscribed \/ t.subscribed,
         \A c \in Cmd : Awaited(t, k, c) <=> Awaited(r, inc, c),
         \A c, d \in Cmd : Earlier(t, k, c, d) => Earlier(r, inc, c, d)
  PROVE  Paired(t, k)
BY DEF Paired, Queued, Before

(* SUBSCRIBE and UNSUBSCRIBE owe nothing to a queue.                       *)
LEMMA ChannelsPaired ==
  ASSUME NEW r \in Client, NEW t \in Client, NEW inc \in Seq(Reply), NEW c \in Cmd, Paired(r, inc),
         (\E on \in Names : Subscribes(r, t, c, on)) \/ (\E on \in Names : Unsubscribes(r, t, c, on))
  PROVE  Paired(t, inc)
<1>1. /\ t.replies = r.replies /\ t.invalid = r.invalid
      /\ t.subscribed = r.subscribed \/ t.subscribed
  BY DEF Subscribes, Unsubscribes
<1>2. PICK what, on : Issues(r, t, c, what, on) /\ what # "other"
  BY DEF Subscribes, Unsubscribes
<1>3. \A i, d : Owed(t, inc, i, d) <=> Owed(r, inc, i, d)
  BY <1>2, IssuedOwed
<1> QED
  BY <1>1, <1>3, OwedSame DEF Awaited, Earlier

(* Another command is owed last and queued last.                           *)
LEMMA SendsPaired ==
  ASSUME NEW r \in Client, NEW t \in Client, NEW inc \in Seq(Reply), NEW c \in Cmd, Paired(r, inc),
         Sends(r, t, c)
  PROVE  Paired(t, inc)
<1>1. Issues(r, t, c, "other", <<>>)
  BY DEF Sends
<1>2. PICK n \in Nat : n = Len(inc) + Len(r.wire) + 1
  BY <1>1, IssuedOwed
<1>3. /\ \A i, d : Owed(t, inc, i, d) <=> Owed(r, inc, i, d) \/ (i = n /\ d = c)
      /\ \A i, d : Owed(r, inc, i, d) => i \in Nat /\ i < n
  BY <1>1, <1>2, IssuedOwed
<1>4. \A d \in Cmd : Awaited(t, inc, d) <=> Awaited(r, inc, d) \/ d = c
  BY <1>3 DEF Awaited
<1>5. \A a, d \in Cmd : Earlier(t, inc, a, d) =>
        Earlier(r, inc, a, d) \/ (Awaited(r, inc, a) /\ d = c)
  BY <1>3 DEF Earlier, Awaited
<1>6. /\ t.subscribed = r.subscribed
      /\ IF r.subscribed THEN t.replies = r.replies /\ Grown(r.invalid, t.invalid, c)
         ELSE t.invalid = r.invalid /\ r.invalid = <<>> /\ Grown(r.replies, t.replies, c)
  BY DEF Sends, Paired
<1>7. /\ \A d \in Cmd : Queued(t, d) <=> Queued(r, d) \/ d = c
      /\ \A a, d \in Cmd : Before(r, a, d) => Before(t, a, d)
      /\ \A a \in Cmd : Queued(r, a) => Before(t, a, c)
  <2>1. \A m, v : Grown(m, v, c) =>
          /\ \A i \in DOMAIN m : i \in DOMAIN v /\ v[i] = m[i] /\ i < Len(m) + 1
          /\ \A i \in DOMAIN v : i \in DOMAIN m \/ i = Len(m) + 1
          /\ Len(m) + 1 \in DOMAIN v /\ v[Len(m) + 1] = c
    BY DEF Grown
  <2>2. CASE r.subscribed
    <3>1. t.replies = r.replies /\ Grown(r.invalid, t.invalid, c)
      BY <1>6, <2>2
    <3>2. /\ \A i \in DOMAIN r.invalid : /\ i \in DOMAIN t.invalid /\ t.invalid[i] = r.invalid[i]
                                         /\ i < Len(r.invalid) + 1
          /\ \A i \in DOMAIN t.invalid : i \in DOMAIN r.invalid \/ i = Len(r.invalid) + 1
          /\ Len(r.invalid) + 1 \in DOMAIN t.invalid /\ t.invalid[Len(r.invalid) + 1] = c
      BY <2>1, <3>1
    <3> QED
      BY <3>1, <3>2 DEF Queued, Before
  <2>3. CASE ~r.subscribed
    <3>1. /\ t.invalid = r.invalid /\ Grown(r.replies, t.replies, c)
          /\ DOMAIN r.invalid = {}
      BY <1>6, <2>3
    <3>2. /\ \A i \in DOMAIN r.replies : /\ i \in DOMAIN t.replies /\ t.replies[i] = r.replies[i]
                                         /\ i < Len(r.replies) + 1
          /\ \A i \in DOMAIN t.replies : i \in DOMAIN r.replies \/ i = Len(r.replies) + 1
          /\ Len(r.replies) + 1 \in DOMAIN t.replies /\ t.replies[Len(r.replies) + 1] = c
      BY <2>1, <3>1
    <3> QED
      BY <3>1, <3>2 DEF Queued, Before
  <2> QED
    BY <2>2, <2>3
<1>8. ~t.subscribed => t.invalid = <<>>
  BY <1>6
<1> QED
  BY <1>4, <1>5, <1>7, <1>8 DEF Paired

(* What goes from the node's side to the client's keeps its place.         *)
Slides(r, inc, t, k, m, e) ==
  /\ \A i, c : Owed(t, k, i, c) => i \in Nat /\ \/ i <= m /\ Owed(r, inc, i, c)
                                                \/ i > m + e /\ Owed(r, inc, i - e, c)
  /\ \A i, c : Owed(r, inc, i, c) => i \in Nat /\ \/ i <= m /\ Owed(t, k, i, c)
                                                  \/ i > m /\ Owed(t, k, i + e, c)

LEMMA Sliding ==
  ASSUME NEW r, NEW t, NEW inc, NEW k, NEW m \in Nat, NEW e \in Nat, Slides(r, inc, t, k, m, e)
  PROVE  /\ \A c \in Cmd : Awaited(t, k, c) <=> Awaited(r, inc, c)
         /\ \A c, d \in Cmd : Earlier(t, k, c, d) => Earlier(r, inc, c, d)
<1>1. ASSUME NEW c, NEW i \in Nat, Owed(t, k, i, c)
      PROVE  \E j \in Nat : Owed(r, inc, j, c) /\ ((i <= m /\ j = i) \/ (i > m + e /\ j = i - e))
  <2>1. i > m + e => i - e \in Nat
    OBVIOUS
  <2> QED
    BY <1>1, <2>1 DEF Slides
<1>2. ASSUME NEW c, NEW i \in Nat, Owed(r, inc, i, c)
      PROVE  \E j \in Nat : Owed(t, k, j, c)
  BY <1>2 DEF Slides
<1>3. ASSUME NEW c, NEW d, Earlier(t, k, c, d)
      PROVE  Earlier(r, inc, c, d)
  <2>1. PICK i \in Nat, j \in Nat : i < j /\ Owed(t, k, i, c) /\ Owed(t, k, j, d)
    BY <1>3 DEF Earlier
  <2>2. PICK x \in Nat : Owed(r, inc, x, c) /\ ((i <= m /\ x = i) \/ (i > m + e /\ x = i - e))
    BY <1>1, <2>1
  <2>3. PICK y \in Nat : Owed(r, inc, y, d) /\ ((j <= m /\ y = j) \/ (j > m + e /\ y = j - e))
    BY <1>1, <2>1
  <2>4. x < y
    BY <2>1, <2>2, <2>3
  <2> QED
    BY <2>2, <2>3, <2>4 DEF Earlier
<1> QED
  BY <1>1, <1>2, <1>3 DEF Awaited

(* The node's answer is owed where its request was.                        *)
LEMMA ServePaired ==
  ASSUME NEW r \in Client, NEW t \in Client, NEW inc \in Seq(Reply), NEW k, Serves(r, t, inc, k),
         Requests(r), Paired(r, inc)
  PROVE  Paired(t, k)
<1>1. /\ t.replies = r.replies /\ t.invalid = r.invalid /\ t.subscribed = r.subscribed
      /\ Answered(r.wire[1], inc, k)
  BY DEF Serves
<1>2. /\ \A j \in DOMAIN t.wire : /\ j \in Nat /\ j + 1 \in DOMAIN r.wire /\ j + 1 > 1
                                  /\ t.wire[j] = r.wire[j + 1]
      /\ \A j \in DOMAIN r.wire :
           j \in Nat /\ (j = 1 \/ (j - 1 \in DOMAIN t.wire /\ t.wire[j - 1] = r.wire[j]))
      /\ 1 \in DOMAIN r.wire /\ r.wire[1] \in Request
  BY ServeFacts
<1>3. PICK q : q = r.wire[1]
  OBVIOUS
<1>4. Len(inc) \in Nat /\ DOMAIN inc = 1..Len(inc)
  OBVIOUS
<1>5. \A j \in DOMAIN t.wire : j >= 1
  BY DEF Client
<1>6. CASE q.what = "other"
  <2>1. /\ Len(k) = Len(inc) + 1 /\ DOMAIN k = 1..(Len(inc) + 1)
        /\ \A i \in 1..Len(inc) : k[i] = inc[i]
        /\ k[Len(inc) + 1].what \in Answers /\ k[Len(inc) + 1].by = q.by
    BY <1>1, <1>3, <1>6 DEF Answered, Extended
  <2>2. \A i, c : Owed(t, k, i, c) => Owed(r, inc, i, c)
    <3> SUFFICES ASSUME NEW i, NEW c, Owed(t, k, i, c) PROVE Owed(r, inc, i, c)
      OBVIOUS
    <3>1. CASE i \in DOMAIN k /\ k[i].what \in Answers /\ k[i].by = c
      <4>1. i \in DOMAIN inc \/ i = Len(inc) + 1
        BY <1>4, <2>1, <3>1
      <4> QED
        BY <1>2, <1>3, <1>4, <1>6, <2>1, <3>1, <4>1 DEF Owed
    <3>2. CASE \E j \in DOMAIN t.wire : i = Len(k) + j /\ t.wire[j].what = "other" /\ t.wire[j].by = c
      <4>1. PICK j \in DOMAIN t.wire : i = Len(k) + j /\ t.wire[j].what = "other" /\ t.wire[j].by = c
        BY <3>2
      <4>2. i = Len(inc) + (j + 1)
        <5>1. j \in Nat /\ Len(inc) \in Nat /\ i = (Len(inc) + 1) + j
          BY <1>2, <1>4, <2>1, <4>1
        <5> QED
          BY <5>1
      <4> QED
        BY <1>2, <4>1, <4>2 DEF Owed
    <3> QED
      BY <3>1, <3>2 DEF Owed
  <2>3. \A i, c : Owed(r, inc, i, c) => Owed(t, k, i, c)
    <3> SUFFICES ASSUME NEW i, NEW c, Owed(r, inc, i, c) PROVE Owed(t, k, i, c)
      OBVIOUS
    <3>1. CASE i \in DOMAIN inc /\ inc[i].what \in Answers /\ inc[i].by = c
      BY <1>4, <2>1, <3>1 DEF Owed
    <3>2. CASE \E j \in DOMAIN r.wire : i = Len(inc) + j /\ r.wire[j].what = "other" /\ r.wire[j].by = c
      <4>1. PICK j \in DOMAIN r.wire : i = Len(inc) + j /\ r.wire[j].what = "other" /\ r.wire[j].by = c
        BY <3>2
      <4>2. CASE j = 1
        BY <1>3, <1>4, <2>1, <4>1, <4>2 DEF Owed
      <4>3. CASE j # 1
        <5>1. i = Len(k) + (j - 1)
          BY <1>2, <1>4, <2>1, <4>1
        <5> QED
          BY <1>2, <4>1, <4>3, <5>1 DEF Owed
      <4> QED
        BY <4>2, <4>3
    <3> QED
      BY <3>1, <3>2 DEF Owed
  <2> QED
    BY <1>1, <2>2, <2>3, OwedSame DEF Awaited, Earlier
<1>7. CASE q.what # "other"
  <2>1. PICK n \in {1, 2} : n = Len(q.on)
    BY <1>1, <1>3, <1>7 DEF Answered, Extended
  <2>2. /\ Len(k) = Len(inc) + n /\ DOMAIN k = 1..(Len(inc) + n)
        /\ \A i \in 1..Len(inc) : k[i] = inc[i]
        /\ \A i \in 1..n : k[Len(inc) + i].what = q.what
    BY <1>1, <1>3, <1>7, <2>1 DEF Answered, Extended, Tells
  <2>3. q.what \notin Answers
    BY <1>2, <1>3, <1>7 DEF Request, What, Answers
  <2>4. \A i \in DOMAIN k : i \in DOMAIN inc \/ k[i].what \notin Answers
    <3> SUFFICES ASSUME NEW i \in DOMAIN k, i \notin DOMAIN inc PROVE k[i].what \notin Answers
      OBVIOUS
    <3>1. i - Len(inc) \in 1..n /\ i = Len(inc) + (i - Len(inc))
      BY <1>4, <2>1, <2>2
    <3> QED
      BY <2>2, <2>3, <3>1
  <2>5. PICK e \in {0, 1} : n = e + 1
    BY <2>1
  <2>6. ASSUME NEW i, NEW c, Owed(t, k, i, c)
        PROVE  i \in Nat /\ \/ i <= Len(inc) /\ Owed(r, inc, i, c)
                            \/ i > Len(inc) + e /\ Owed(r, inc, i - e, c)
    <3>1. CASE i \in DOMAIN k /\ k[i].what \in Answers /\ k[i].by = c
      BY <1>4, <2>2, <2>4, <3>1 DEF Owed
    <3>2. CASE \E j \in DOMAIN t.wire : i = Len(k) + j /\ t.wire[j].what = "other" /\ t.wire[j].by = c
      <4>1. PICK j \in DOMAIN t.wire : i = Len(k) + j /\ t.wire[j].what = "other" /\ t.wire[j].by = c
        BY <3>2
      <4>2. i \in Nat /\ i - e = Len(inc) + (j + 1) /\ i > Len(inc) + e
        <5>1. j \in Nat /\ j >= 1 /\ Len(inc) \in Nat /\ i = (Len(inc) + (e + 1)) + j
          BY <1>2, <1>4, <1>5, <2>2, <2>5, <4>1
        <5> QED
          BY <5>1
      <4>3. j + 1 \in DOMAIN r.wire /\ r.wire[j + 1].what = "other" /\ r.wire[j + 1].by = c
        BY <1>2, <4>1
      <4>4. Owed(r, inc, i - e, c)
        BY <4>2, <4>3, Zenon DEF Owed
      <4> QED
        BY <4>2, <4>4
    <3> QED
      BY <2>6, <3>1, <3>2 DEF Owed
  <2>7. ASSUME NEW i, NEW c, Owed(r, inc, i, c)
        PROVE  i \in Nat /\ \/ i <= Len(inc) /\ Owed(t, k, i, c)
                            \/ i > Len(inc) /\ Owed(t, k, i + e, c)
    <3>1. CASE i \in DOMAIN inc /\ inc[i].what \in Answers /\ inc[i].by = c
      BY <1>4, <2>1, <2>2, <3>1 DEF Owed
    <3>2. CASE \E j \in DOMAIN r.wire : i = Len(inc) + j /\ r.wire[j].what = "other" /\ r.wire[j].by = c
      <4>1. PICK j \in DOMAIN r.wire : i = Len(inc) + j /\ r.wire[j].what = "other" /\ r.wire[j].by = c
        BY <3>2
      <4>2. j # 1 /\ j - 1 \in DOMAIN t.wire /\ t.wire[j - 1] = r.wire[j] /\ j \in Nat
        BY <1>2, <1>3, <1>7, <4>1
      <4>3. i \in Nat /\ i + e = Len(k) + (j - 1) /\ i > Len(inc)
        <5>1. /\ j \in Nat /\ j - 1 >= 1 /\ Len(inc) \in Nat /\ i = Len(inc) + j
              /\ Len(k) = Len(inc) + (e + 1)
          BY <1>4, <1>5, <2>2, <2>5, <4>1, <4>2
        <5> QED
          BY <5>1
      <4> QED
        BY <4>1, <4>2, <4>3 DEF Owed
    <3> QED
      BY <2>7, <3>1, <3>2 DEF Owed
  <2>8. e \in Nat
    BY <2>5
  <2>9. /\ \A c \in Cmd : Awaited(t, k, c) <=> Awaited(r, inc, c)
        /\ \A c, d \in Cmd : Earlier(t, k, c, d) => Earlier(r, inc, c, d)
    <3>1. Slides(r, inc, t, k, Len(inc), e)
      BY <2>6, <2>7, Zenon DEF Slides
    <3> QED
      BY <1>4, <2>8, <3>1, Sliding
  <2> QED
    BY <1>1, <2>9, OwedSame
<1> QED
  BY <1>6, <1>7

(* A message is owed to nobody.                                            *)
LEMMA PublishPaired ==
  ASSUME NEW r \in Client, NEW inc \in Seq(Reply), NEW k, NEW v, Grown(inc, k, v),
         v.what = "message", Paired(r, inc)
  PROVE  Paired(r, k)
<1>1. /\ Len(inc) \in Nat /\ DOMAIN inc = 1..Len(inc) /\ DOMAIN k = 1..(Len(inc) + 1)
      /\ \A i \in 1..Len(inc) : k[i] = inc[i]
      /\ k[Len(inc) + 1] = v /\ Len(k) = Len(inc) + 1
  BY DEF Grown
<1>2. \A j \in DOMAIN r.wire : j \in Nat /\ j >= 1
  BY DEF Client
<1>3. ASSUME NEW i, NEW c, Owed(r, k, i, c)
      PROVE  i \in Nat /\ \/ i <= Len(inc) /\ Owed(r, inc, i, c)
                          \/ i > Len(inc) + 1 /\ Owed(r, inc, i - 1, c)
  <2>1. CASE i \in DOMAIN k /\ k[i].what \in Answers /\ k[i].by = c
    <3>1. i \in DOMAIN inc
      BY <1>1, <2>1 DEF Answers
    <3> QED
      BY <1>1, <2>1, <3>1 DEF Owed
  <2>2. CASE \E j \in DOMAIN r.wire : i = Len(k) + j /\ r.wire[j].what = "other" /\ r.wire[j].by = c
    <3>1. PICK j \in DOMAIN r.wire : i = Len(k) + j /\ r.wire[j].what = "other" /\ r.wire[j].by = c
      BY <2>2
    <3>2. i \in Nat /\ i - 1 = Len(inc) + j /\ i > Len(inc) + 1
      <4>1. j \in Nat /\ j >= 1 /\ Len(inc) \in Nat /\ i = (Len(inc) + 1) + j
        BY <1>1, <1>2, <3>1
      <4> QED
        BY <4>1
    <3> QED
      BY <3>1, <3>2 DEF Owed
  <2> QED
    BY <1>3, <2>1, <2>2 DEF Owed
<1>4. ASSUME NEW i, NEW c, Owed(r, inc, i, c)
      PROVE  i \in Nat /\ \/ i <= Len(inc) /\ Owed(r, k, i, c)
                          \/ i > Len(inc) /\ Owed(r, k, i + 1, c)
  <2>1. CASE i \in DOMAIN inc /\ inc[i].what \in Answers /\ inc[i].by = c
    BY <1>1, <2>1 DEF Owed
  <2>2. CASE \E j \in DOMAIN r.wire : i = Len(inc) + j /\ r.wire[j].what = "other" /\ r.wire[j].by = c
    <3>1. PICK j \in DOMAIN r.wire : i = Len(inc) + j /\ r.wire[j].what = "other" /\ r.wire[j].by = c
      BY <2>2
    <3>2. i \in Nat /\ i + 1 = Len(k) + j /\ i > Len(inc)
      BY <1>1, <1>2, <3>1
    <3> QED
      BY <3>1, <3>2 DEF Owed
  <2> QED
    BY <1>4, <2>1, <2>2 DEF Owed
<1>5. /\ \A c \in Cmd : Awaited(r, k, c) <=> Awaited(r, inc, c)
      /\ \A c, d \in Cmd : Earlier(r, k, c, d) => Earlier(r, inc, c, d)
  <2>1. Slides(r, inc, r, k, Len(inc), 1)
    BY <1>3, <1>4, Zenon DEF Slides
  <2> QED
    BY <1>1, <2>1, Sliding
<1> QED
  BY <1>5, OwedSame

(* The client takes what comes first: the rest is one place nearer.        *)
LEMMA TakenOwed ==
  ASSUME NEW r \in Client, NEW t, t.wire = r.wire, NEW inc \in Seq(Reply), NEW k, Shrunk(inc, k)
  PROVE  /\ \A i, c : Owed(t, k, i, c) => i \in Nat /\ i >= 1 /\ Owed(r, inc, i + 1, c)
         /\ \A i, c : Owed(r, inc, i, c) =>
              i \in Nat /\ \/ i = 1 /\ inc[1].what \in Answers /\ inc[1].by = c
                           \/ i > 1 /\ Owed(t, k, i - 1, c)
         /\ \A c : inc[1].what \in Answers /\ inc[1].by = c => Owed(r, inc, 1, c)
<1>1. /\ Len(inc) \in Nat /\ Len(k) \in Nat /\ Len(inc) = Len(k) + 1
      /\ DOMAIN inc = 1..Len(inc) /\ DOMAIN k = 1..Len(k)
      /\ \A i \in DOMAIN k : i + 1 \in DOMAIN inc /\ k[i] = inc[i + 1]
      /\ \A i \in DOMAIN inc : i = 1 \/ (i - 1 \in DOMAIN k /\ k[i - 1] = inc[i])
  BY DEF Shrunk
<1>2. \A j \in DOMAIN r.wire : j \in Nat /\ j >= 1
  BY DEF Client
<1>3. ASSUME NEW i, NEW c, Owed(t, k, i, c)
      PROVE  i \in Nat /\ i >= 1 /\ Owed(r, inc, i + 1, c)
  <2>1. CASE i \in DOMAIN k /\ k[i].what \in Answers /\ k[i].by = c
    BY <1>1, <2>1 DEF Owed
  <2>2. CASE \E j \in DOMAIN t.wire : i = Len(k) + j /\ t.wire[j].what = "other" /\ t.wire[j].by = c
    <3>1. PICK j \in DOMAIN r.wire : i = Len(k) + j /\ r.wire[j].what = "other" /\ r.wire[j].by = c
      BY <2>2
    <3>2. i \in Nat /\ i >= 1 /\ i + 1 = Len(inc) + j
      <4>1. j \in Nat /\ j >= 1 /\ Len(k) \in Nat /\ Len(inc) = Len(k) + 1 /\ i = Len(k) + j
        BY <1>1, <1>2, <3>1
      <4> QED
        BY <4>1
    <3> QED
      BY <3>1, <3>2 DEF Owed
  <2> QED
    BY <1>3, <2>1, <2>2 DEF Owed
<1>4. ASSUME NEW i, NEW c, Owed(r, inc, i, c)
      PROVE  i \in Nat /\ \/ i = 1 /\ inc[1].what \in Answers /\ inc[1].by = c
                          \/ i > 1 /\ Owed(t, k, i - 1, c)
  <2>1. CASE i \in DOMAIN inc /\ inc[i].what \in Answers /\ inc[i].by = c
    <3>1. i \in Nat /\ (i = 1 \/ i > 1)
      BY <1>1, <2>1
    <3> QED
      BY <1>1, <2>1, <3>1 DEF Owed
  <2>2. CASE \E j \in DOMAIN r.wire : i = Len(inc) + j /\ r.wire[j].what = "other" /\ r.wire[j].by = c
    <3>1. PICK j \in DOMAIN r.wire : i = Len(inc) + j /\ r.wire[j].what = "other" /\ r.wire[j].by = c
      BY <2>2
    <3>2. i \in Nat /\ i > 1 /\ i - 1 = Len(k) + j
      <4>1. j \in Nat /\ j >= 1 /\ Len(k) \in Nat /\ Len(inc) = Len(k) + 1 /\ i = Len(inc) + j
        BY <1>1, <1>2, <3>1
      <4> QED
        BY <4>1
    <3> QED
      BY <3>1, <3>2 DEF Owed
  <2> QED
    BY <1>4, <2>1, <2>2 DEF Owed
<1>5. 1 \in DOMAIN inc
  BY <1>1
<1> QED
  BY <1>3, <1>4, <1>5 DEF Owed

(* It is for a channel.                                                    *)
LEMMA DropPaired ==
  ASSUME NEW r \in Client, NEW t, NEW inc \in Seq(Reply), NEW k, Shrunk(inc, k),
         inc[1].what \notin Answers, t.wire = r.wire, t.replies = r.replies, t.invalid = r.invalid,
         ~t.subscribed => t.invalid = <<>>, Paired(r, inc)
  PROVE  Paired(t, k)
<1>1. /\ \A i, c : Owed(t, k, i, c) => i \in Nat /\ i >= 1 /\ Owed(r, inc, i + 1, c)
      /\ \A i, c : Owed(r, inc, i, c) => i \in Nat /\ i > 1 /\ Owed(t, k, i - 1, c)
  BY TakenOwed
<1>2. ASSUME NEW c \in Cmd
      PROVE  Awaited(t, k, c) <=> Awaited(r, inc, c)
  <2>1. ASSUME NEW i \in Nat, Owed(t, k, i, c) PROVE i + 1 \in Nat /\ Owed(r, inc, i + 1, c)
    BY <1>1, <2>1
  <2>2. ASSUME NEW i \in Nat, Owed(r, inc, i, c) PROVE i - 1 \in Nat /\ Owed(t, k, i - 1, c)
    BY <1>1, <2>2
  <2> QED
    BY <2>1, <2>2 DEF Awaited
<1>3. ASSUME NEW c \in Cmd, NEW d \in Cmd, Earlier(t, k, c, d)
      PROVE  Earlier(r, inc, c, d)
  <2>1. PICK i \in Nat, j \in Nat : i < j /\ Owed(t, k, i, c) /\ Owed(t, k, j, d)
    BY <1>3 DEF Earlier
  <2>2. i + 1 < j + 1 /\ Owed(r, inc, i + 1, c) /\ Owed(r, inc, j + 1, d)
    BY <1>1, <2>1
  <2> QED
    BY <2>2 DEF Earlier
<1> QED
  BY <1>2, <1>3 DEF Paired, Queued, Before

(* The first of the queues goes.                                           *)
Dequeues(r, t, c) ==
  /\ Queued(r, c) /\ \A d : Queued(t, d) <=> Queued(r, d) /\ d # c
  /\ \A a, d : Before(r, a, d) /\ a # c => Before(t, a, d)
  /\ \A a : ~Before(r, a, c)
  /\ r.invalid = <<>> => t.invalid = <<>>
  /\ t.wire = r.wire /\ t.subscribed = r.subscribed /\ t.sent = r.sent

(* A queue without its first, c.                                           *)
Pops(m, v, c) ==
  /\ 1 \in DOMAIN m /\ m[1] = c
  /\ \A i \in DOMAIN v : v[i] # c /\ \E n \in DOMAIN m : m[n] = v[i]
  /\ \A i \in DOMAIN m : m[i] = c \/ \E n \in DOMAIN v : v[n] = m[i]
  /\ \A i, j \in DOMAIN m : i < j => m[j] # c
  /\ \A i, j \in DOMAIN m : i < j /\ m[i] # c =>
       \E n, l \in DOMAIN v : n < l /\ v[n] = m[i] /\ v[l] = m[j]

(* A queue without its first element.                                      *)
LEMMA Popped ==
  ASSUME NEW m, NEW v, Shrunk(m, v), \A i, j \in DOMAIN m : m[i] = m[j] => i = j
  PROVE  Pops(m, v, m[1])
<1>1. /\ 1 \in DOMAIN m
      /\ \A i \in DOMAIN v : v[i] # m[1]
      /\ \A i \in DOMAIN v : \E n \in DOMAIN m : v[i] = m[n]
  BY Leaving1
<1>2. \A i \in DOMAIN m : i \in Nat /\ i >= 1 /\ (i = 1 \/ (i - 1 \in DOMAIN v /\ v[i - 1] = m[i]))
  BY DEF Shrunk
<1>3. ASSUME NEW i \in DOMAIN m, NEW j \in DOMAIN m, i < j, m[i] # m[1]
      PROVE  \E n, l \in DOMAIN v : n < l /\ v[n] = m[i] /\ v[l] = m[j]
  <2>1. i # 1 /\ j # 1 /\ i - 1 < j - 1
    BY <1>2, <1>3
  <2>2. i - 1 \in DOMAIN v /\ v[i - 1] = m[i] /\ j - 1 \in DOMAIN v /\ v[j - 1] = m[j]
    BY <1>2, <2>1
  <2> QED
    BY <2>1, <2>2
<1>4. ASSUME NEW i \in DOMAIN m, NEW j \in DOMAIN m, i < j PROVE m[j] # m[1]
  <2>1. j # 1
    BY <1>2, <1>4
  <2> QED
    BY <1>1, <2>1
<1> QED
  BY <1>1, <1>2, <1>3, <1>4 DEF Pops

(* The command at its head leaves the queues, and the others keep their    *)
(* order.                                                                  *)
LEMMA QueueShrinks ==
  ASSUME NEW r, NEW t, Distinct(r), NEW c,
         \/ TakesReply(r, t) /\ c = r.replies[1]
         \/ TakesInvalid(r, t) /\ r.replies = <<>> /\ c = r.invalid[1]
  PROVE  Dequeues(r, t, c)
<1>1. CASE TakesReply(r, t) /\ c = r.replies[1]
  <2>1. /\ Shrunk(r.replies, t.replies) /\ t.invalid = r.invalid
        /\ t.wire = r.wire /\ t.subscribed = r.subscribed /\ t.sent = r.sent
    BY <1>1 DEF TakesReply
  <2>2. Pops(r.replies, t.replies, c)
    BY <1>1, <2>1, Popped DEF Distinct
  <2>3. \A i \in DOMAIN r.invalid : r.invalid[i] # c
    BY <1>1, <2>2 DEF Distinct, Pops
  <2>4. Queued(r, c) /\ \A d : Queued(t, d) <=> Queued(r, d) /\ d # c
    BY <2>1, <2>2, <2>3 DEF Queued, Pops
  <2>5. \A a, d : Before(r, a, d) /\ a # c => Before(t, a, d)
    BY <2>1, <2>2 DEF Before, Pops
  <2>6. \A a : ~Before(r, a, c)
    BY <2>2, <2>3 DEF Before, Pops
  <2> QED
    BY <2>1, <2>4, <2>5, <2>6 DEF Dequeues
<1>2. CASE TakesInvalid(r, t) /\ r.replies = <<>> /\ c = r.invalid[1]
  <2>1. /\ Shrunk(r.invalid, t.invalid) /\ t.replies = r.replies /\ DOMAIN r.replies = {}
        /\ t.wire = r.wire /\ t.subscribed = r.subscribed /\ t.sent = r.sent
    BY <1>2 DEF TakesInvalid
  <2>2. Pops(r.invalid, t.invalid, c)
    <3>1. \A i, j \in DOMAIN r.invalid : r.invalid[i] = r.invalid[j] => i = j
      BY DEF Distinct
    <3> QED
      BY <1>2, <2>1, <3>1, Popped
  <2>3. Queued(r, c) /\ \A d : Queued(t, d) <=> Queued(r, d) /\ d # c
    BY <2>1, <2>2 DEF Queued, Pops
  <2>4. \A a, d : Before(r, a, d) /\ a # c => Before(t, a, d)
    BY <2>1, <2>2 DEF Before, Pops
  <2>5. \A a : ~Before(r, a, c)
    BY <2>1, <2>2 DEF Before, Pops
  <2>6. r.invalid # <<>>
    BY <2>2 DEF Pops
  <2> QED
    BY <2>1, <2>3, <2>4, <2>5, <2>6 DEF Dequeues
<1> QED
  BY <1>1, <1>2

(* It is for the first of the queues.                                      *)
LEMMA TakePaired ==
  ASSUME NEW r \in Client, NEW t, NEW inc \in Seq(Reply), NEW k, Shrunk(inc, k),
         NEW c \in Cmd, Dequeues(r, t, c), inc[1].what \in Answers, inc[1].by \in Cmd, Paired(r, inc)
  PROVE  inc[1].by = c /\ Paired(t, k)
<1>1. /\ \A i, d : Owed(t, k, i, d) => i \in Nat /\ i >= 1 /\ Owed(r, inc, i + 1, d)
      /\ \A i, d : Owed(r, inc, i, d) =>
           i \in Nat /\ \/ i = 1 /\ inc[1].by = d
                        \/ i > 1 /\ Owed(t, k, i - 1, d)
      /\ Owed(r, inc, 1, inc[1].by)
  BY TakenOwed DEF Dequeues
<1>2. inc[1].by = c
  <2>1. PICK i \in Nat : Owed(r, inc, i, c)
    BY DEF Dequeues, Paired, Awaited
  <2>2. ASSUME i > 1 PROVE FALSE
    <3>1. Earlier(r, inc, inc[1].by, c)
      BY <1>1, <2>1, <2>2 DEF Earlier
    <3> QED
      BY <3>1 DEF Paired, Dequeues
  <2> QED
    BY <1>1, <2>1, <2>2
<1>3. ASSUME NEW d \in Cmd
      PROVE  Awaited(t, k, d) <=> Awaited(r, inc, d) /\ d # c
  <2>1. ASSUME NEW i \in Nat, Owed(t, k, i, d) PROVE Awaited(r, inc, d) /\ d # c
    <3>1. i + 1 \in Nat /\ 1 < i + 1 /\ Owed(r, inc, i + 1, d)
      BY <1>1, <2>1
    <3>2. Earlier(r, inc, c, d)
      BY <1>1, <1>2, <3>1 DEF Earlier
    <3> QED
      BY <3>1, <3>2 DEF Awaited, Paired, Dequeues
  <2>2. ASSUME NEW i \in Nat, Owed(r, inc, i, d), d # c PROVE Awaited(t, k, d)
    <3>1. i - 1 \in Nat /\ Owed(t, k, i - 1, d)
      BY <1>1, <1>2, <2>2
    <3> QED
      BY <3>1 DEF Awaited
  <2> QED
    BY <2>1, <2>2 DEF Awaited
<1>4. ASSUME NEW a \in Cmd, NEW d \in Cmd, Earlier(t, k, a, d)
      PROVE  Before(t, a, d)
  <2>1. PICK i \in Nat, j \in Nat : i < j /\ Owed(t, k, i, a) /\ Owed(t, k, j, d)
    BY <1>4 DEF Earlier
  <2>2. i + 1 \in Nat /\ j + 1 \in Nat /\ i + 1 < j + 1 /\ Owed(r, inc, i + 1, a) /\ Owed(r, inc, j + 1, d)
    BY <1>1, <2>1
  <2>3. Before(r, a, d)
    BY <2>2 DEF Earlier, Paired
  <2>4. a # c
    BY <1>3, <2>1 DEF Awaited
  <2> QED
    BY <2>3, <2>4 DEF Dequeues
<1> QED
  BY <1>2, <1>3, <1>4 DEF Paired, Dequeues

(* A command that is sent has not been heard of.                           *)
LEMMA SentQueued ==
  ASSUME NEW r, NEW t, NEW c,
         \/ Sends(r, t, c)
         \/ t.replies = r.replies /\ t.invalid = r.invalid
  PROVE  \A d : Queued(t, d) => Queued(r, d) \/ d = c
<1>1. \A m, v : Grown(m, v, c) => \A i \in DOMAIN v : v[i] = c \/ \E j \in DOMAIN m : m[j] = v[i]
  <2> SUFFICES ASSUME NEW m, NEW v, Grown(m, v, c), NEW i \in DOMAIN v
               PROVE  v[i] = c \/ \E j \in DOMAIN m : m[j] = v[i]
    OBVIOUS
  <2>1. i \in 1..Len(m) \/ i = Len(m) + 1
    BY DEF Grown
  <2> QED
    BY <2>1 DEF Grown
<1>2. CASE Sends(r, t, c)
  BY <1>1, <1>2 DEF Sends, Queued
<1>3. CASE t.replies = r.replies /\ t.invalid = r.invalid
  BY <1>3 DEF Queued
<1> QED
  BY <1>2, <1>3

(* A command that is sent was not called.                                  *)
LEMMA SentOnce ==
  ASSUME NEW r, NEW t, NEW c \in Cmd, NEW h \in [Cmd -> Nat], Once(r, h),
         r.sent[c] = "unused", \A d \in Cmd : d # c => t.sent[d] = r.sent[d], t.sent[c] # "unused",
         Sends(r, t, c) \/ (t.replies = r.replies /\ t.invalid = r.invalid)
  PROVE  Once(t, h)
<1>1. \A d : Queued(t, d) => Queued(r, d) \/ d = c
  BY SentQueued
<1>2. h[c] = 0
  BY DEF Once
<1> SUFFICES ASSUME NEW d \in Cmd
             PROVE  /\ t.sent[d] = "unused" \/ Queued(t, d) => h[d] = 0
                    /\ t.sent[d] = "other" => h[d] <= 1
  BY DEF Once
<1>3. CASE d = c
  BY <1>2, <1>3
<1>4. CASE d # c
  BY <1>1, <1>4 DEF Once
<1> QED
  BY <1>3, <1>4

(* What the program does in its callback.                                  *)
LEMMA CallPaired ==
  ASSUME NEW m \in Client, m.sent = sent, NEW k \in Seq(Reply), NEW c \in Cmd, Called(m, c),
         Paired(m, k)
  PROVE  Paired(Now', k)
<1>1. CASE m.obj[c] # "live"
  BY <1>1 DEF Called
<1>2. CASE m.obj[c] = "live"
  <2>1. PICK q \in Inside(m) : Now' = Deleted(q, c)
    BY <1>2 DEF Called
  <2>2. /\ q \in Client
        /\ \/ q = m
           \/ \E d \in Cmd, on \in Names : Subscribes(m, q, d, on)
           \/ \E d \in Cmd : Sends(m, q, d)
    BY InsideCases
  <2>3. Paired(q, k)
    BY <2>2, ChannelsPaired, SendsPaired
  <2>4. PICK t : t = Deleted(q, c)
    OBVIOUS
  <2>5. t \in Client /\ IF q.subscribed THEN t = q ELSE Ends(q, t, c)
    BY <2>2, <2>4, DeletedFields
  <2>6. /\ t.replies = q.replies /\ t.invalid = q.invalid /\ t.wire = q.wire
        /\ t.subscribed = q.subscribed
    BY <2>5 DEF Ends
  <2>7. \A i, d : Owed(t, k, i, d) <=> Owed(q, k, i, d)
    BY <2>6, Zenon DEF Owed
  <2>8. Paired(t, k)
    BY <2>3, <2>6, <2>7, OwedSame DEF Awaited, Earlier
  <2> QED
    BY <2>1, <2>4, <2>8
<1> QED
  BY <1>1, <1>2

(* A call counts one.                                                      *)
LEMMA CallOnce ==
  ASSUME NEW m \in Client, m.sent = sent, NEW c \in Cmd, Called(m, c),
         Once(m, heard), heard \in [Cmd -> Nat],
         m.sent[c] = "subscribe" \/ (heard[c] = 0 /\ m.sent[c] # "unused"), ~Queued(m, c)
  PROVE  Once(Now', heard')
<1>1. CASE m.obj[c] # "live"
  BY <1>1 DEF Called
<1>2. CASE m.obj[c] = "live"
  <2>1. PICK q \in Inside(m) : Now' = Deleted(q, c) /\ heard' = [heard EXCEPT ![c] = @ + 1]
    BY <1>2 DEF Called
  <2>2. /\ q \in Client
        /\ \/ q = m
           \/ \E d \in Cmd, on \in Names : Subscribes(m, q, d, on)
           \/ \E d \in Cmd : Sends(m, q, d)
    BY InsideCases
  <2>3. /\ Once(q, heard) /\ ~Queued(q, c)
        /\ q.sent[c] = "subscribe" \/ (heard[c] = 0 /\ q.sent[c] # "unused")
    <3>1. CASE q = m
      BY <3>1
    <3>2. ASSUME NEW d \in Cmd, NEW what, NEW on, Issues(m, q, d, what, on), what # "unused",
                 Sends(m, q, d) \/ (q.replies = m.replies /\ q.invalid = m.invalid)
          PROVE  /\ Once(q, heard) /\ ~Queued(q, c)
                 /\ q.sent[c] = "subscribe" \/ (heard[c] = 0 /\ q.sent[c] # "unused")
      <4>1. /\ m.sent[d] = "unused" /\ q.sent[d] = what
            /\ \A e \in Cmd : e # d => q.sent[e] = m.sent[e]
        BY <3>2 DEF Issues
      <4>2. d # c
        BY <4>1
      <4>3. Once(q, heard)
        BY <3>2, <4>1, SentOnce
      <4>4. \A e : Queued(q, e) => Queued(m, e) \/ e = d
        BY <3>2, SentQueued
      <4> QED
        BY <4>1, <4>2, <4>3, <4>4
    <3>3. CASE \E d \in Cmd, on \in Names : Subscribes(m, q, d, on)
      BY <3>2, <3>3 DEF Subscribes
    <3>4. CASE \E d \in Cmd : Sends(m, q, d)
      BY <3>2, <3>4 DEF Sends
    <3> QED
      BY <2>2, <3>1, <3>3, <3>4
  <2>4. PICK t : t = Deleted(q, c)
    OBVIOUS
  <2>5. t \in Client /\ IF q.subscribed THEN t = q ELSE Ends(q, t, c)
    BY <2>2, <2>4, DeletedFields
  <2>6. t.sent = q.sent /\ \A d : Queued(t, d) <=> Queued(q, d)
    BY <2>5 DEF Ends, Queued
  <2>7. heard'[c] = heard[c] + 1 /\ \A d \in Cmd : d # c => heard'[d] = heard[d]
    BY <2>1
  <2>8. Once(t, heard')
    <3> SUFFICES ASSUME NEW d \in Cmd
                 PROVE  /\ t.sent[d] = "unused" \/ Queued(t, d) => heard'[d] = 0
                        /\ t.sent[d] = "other" => heard'[d] <= 1
      BY DEF Once
    <3>1. CASE d = c
      BY <2>3, <2>6, <2>7, <3>1
    <3>2. CASE d # c
      BY <2>3, <2>6, <2>7, <3>2 DEF Once
    <3> QED
      BY <3>1, <3>2
  <2> QED
    BY <2>1, <2>4, <2>8
<1> QED
  BY <1>1, <1>2

Replied ==
  /\ Once(Now, heard)
  /\ overlap = {} => Paired(Now, incoming) /\ mismatch = {} /\ crashed # "assert"

(* What is about commands when one is sent, and what the node does.        *)
LEMMA RepliedSent ==
  ASSUME Base, Replied, crashed = "no", NEW c \in Cmd,
         \/ \E on \in Names : Subscribe(c, on) \/ Unsubscribe(c, on)
         \/ UnsubscribeRefused(c) \/ Other(c)
  PROVE  Replied'
<1>1. Now \in Client /\ incoming \in Seq(Reply) /\ heard \in [Cmd -> Nat]
  BY BaseFacts DEF Others
<1>2. /\ UNCHANGED <<heard, incoming, overlap, mismatch, crashed>>
      /\ \/ \E on \in Names : Subscribes(Now, Now', c, on)
         \/ \E on \in Names : Unsubscribes(Now, Now', c, on)
         \/ Refuses(Now, Now', c)
         \/ Sends(Now, Now', c)
  BY SentMoves DEF Subscribe, Unsubscribe, UnsubscribeRefused, Other
<1>3. Now' \in Client
  BY SentMoves DEF Moves
<1>4. Once(Now', heard)
  <2>1. CASE \E on \in Names : Subscribes(Now, Now', c, on) \/ Unsubscribes(Now, Now', c, on)
    <3>1. /\ Now.sent[c] = "unused" /\ Now'.sent[c] # "unused"
          /\ \A d \in Cmd : d # c => Now'.sent[d] = Now.sent[d]
          /\ Now'.replies = Now.replies /\ Now'.invalid = Now.invalid
      BY <2>1 DEF Subscribes, Unsubscribes, Issues
    <3> QED
      BY <1>1, <3>1, SentOnce DEF Replied
  <2>2. CASE Refuses(Now, Now', c)
    <3>1. /\ Now.sent[c] = "unused" /\ Now'.sent[c] # "unused"
          /\ \A d \in Cmd : d # c => Now'.sent[d] = Now.sent[d]
          /\ Now'.replies = Now.replies /\ Now'.invalid = Now.invalid
      BY <2>2 DEF Refuses
    <3> QED
      BY <1>1, <3>1, SentOnce DEF Replied
  <2>3. CASE Sends(Now, Now', c)
    <3>1. /\ Now.sent[c] = "unused" /\ Now'.sent[c] # "unused"
          /\ \A d \in Cmd : d # c => Now'.sent[d] = Now.sent[d]
      BY <2>3 DEF Sends, Issues
    <3> QED
      BY <1>1, <2>3, <3>1, SentOnce DEF Replied
  <2> QED
    BY <1>2, <2>1, <2>2, <2>3
<1>5. Paired(Now, incoming) => Paired(Now', incoming)
  <2>1. CASE \E on \in Names : Subscribes(Now, Now', c, on) \/ Unsubscribes(Now, Now', c, on)
    BY <1>1, <1>3, <2>1, ChannelsPaired
  <2>2. CASE Refuses(Now, Now', c)
    BY <2>2 DEF Refuses, Paired, Queued, Before, Awaited, Earlier, Owed
  <2>3. CASE Sends(Now, Now', c)
    BY <1>1, <1>3, <2>3, SendsPaired
  <2> QED
    BY <1>2, <2>1, <2>2, <2>3
<1> QED
  BY <1>2, <1>4, <1>5 DEF Replied

(* The node's answer or message keeps the queues paired.                   *)
LEMMA RepliedNode ==
  ASSUME Base, Replied, crashed = "no", Serve \/ \E ch \in Channel : Publish(ch)
  PROVE  Replied'
<1>1. /\ Now \in Client /\ incoming \in Seq(Reply) /\ Requests(Now)
      /\ UNCHANGED <<sent, replies, invalid, heard, overlap, mismatch, crashed>>
  BY BaseFacts DEF Serve, Publish, clientVars, Standing
<1>2. Once(Now', heard')
  BY <1>1, NowFields, NowFieldsNext DEF Replied, Once, Queued
<1>3. CASE Serve
  <2>1. Serves(Now, Now', incoming, incoming') /\ Now' \in Client
    BY <1>3, ServeMoves DEF Moves
  <2>2. Paired(Now, incoming) => Paired(Now', incoming')
    BY <1>1, <2>1, ServePaired
  <2> QED
    BY <1>1, <1>2, <2>2 DEF Replied
<1>4. CASE \E ch \in Channel : Publish(ch)
  <2>1. PICK ch \in Channel : Publish(ch)
    BY <1>4
  <2>2. Now' = Now /\ \E v : Grown(incoming, incoming', v) /\ v.what = "message"
    BY <2>1, PublishMoves
  <2>3. Paired(Now, incoming) => Paired(Now', incoming')
    BY <1>1, <2>2, PublishPaired
  <2> QED
    BY <1>1, <1>2, <2>3 DEF Replied
<1> QED
  BY <1>3, <1>4

(* A callback of the queues gets the reply to its own command.             *)
LEMMA RepliedReply ==
  ASSUME Base, Replied, crashed = "no", NEW t \in Client, NEW c \in Cmd, Received, Called(t, c),
         Dequeues(Now, t, c), overlap' = overlap, incoming[1].what \in Answers,
         mismatch' = IF Mine(incoming[1], c) THEN mismatch ELSE mismatch \cup {c}
  PROVE  Replied'
<1>1. /\ Now \in Client /\ incoming \in Seq(Reply) /\ Standing(Now, incoming)
      /\ heard \in [Cmd -> Nat] /\ Now.sent = sent
  BY BaseFacts, NowFields DEF Others
<1>2. t.sent = sent /\ Queued(Now, c) /\ ~Queued(t, c) /\ \A d : Queued(t, d) => Queued(Now, d)
  BY <1>1 DEF Dequeues
<1>3. Once(t, heard) /\ heard[c] = 0
  BY <1>1, <1>2 DEF Replied, Once
<1>4. t.sent[c] # "unused"
  BY <1>1, <1>2 DEF Standing, Kinds, Queued
<1>5. Once(Now', heard')
  BY <1>1, <1>2, <1>3, <1>4, CallOnce
<1>6. ASSUME overlap = {}
      PROVE  Paired(Now', incoming') /\ mismatch' = {} /\ crashed' # "assert"
  <2>1. Paired(Now, incoming) /\ mismatch = {}
    BY <1>6 DEF Replied
  <2>2. incoming[1].by \in Cmd
    BY DEF Received, Reply, Answers
  <2>3. incoming' \in Seq(Reply) /\ Shrunk(incoming, incoming')
    BY DEF Received
  <2>4. incoming[1].by = c /\ Paired(t, incoming')
    BY <1>1, <2>1, <2>2, <2>3, TakePaired
  <2>5. Paired(Now', incoming')
    BY <1>2, <2>3, <2>4, CallPaired
  <2>6. mismatch' = {}
    BY <2>1, <2>4 DEF Mine, Answers
  <2> QED
    BY <2>5, <2>6 DEF Called
<1> QED
  BY <1>5, <1>6 DEF Replied

(* What does not go to a queue changes nothing in them.                    *)
LEMMA RepliedChannel ==
  ASSUME Base, Replied, crashed = "no", ReceiveChannel
  PROVE  Replied'
<1>1. /\ Now \in Client /\ incoming \in Seq(Reply) /\ Standing(Now, incoming)
      /\ heard \in [Cmd -> Nat]
  BY BaseFacts DEF Others
<1>2. /\ Received /\ subscribed
      /\ incoming[1].what \in {"subscribe", "unsubscribe", "message"}
      /\ overlap' = overlap \cup {what \in {"subscribe", "other"} :
                                    LastOf(incoming[1]) /\ UnderWay(what)}
      /\ mismatch' = mismatch
  BY ChannelMoves
<1>3. incoming' \in Seq(Reply) /\ Shrunk(incoming, incoming') /\ incoming[1].what \notin Answers
  BY <1>2 DEF Received, Answers
<1>4. overlap' = {} => overlap = {} /\ (LastOf(incoming[1]) => invalid = <<>>)
  BY <1>2 DEF UnderWay
<1>5. ASSUME NEW t \in Client, t = Now \/ \E ch \in Channel : Leaves(Now, t, ch, LastOf(incoming[1]))
      PROVE  /\ t.sent = sent /\ Once(t, heard) /\ \A d : Queued(t, d) <=> Queued(Now, d)
             /\ overlap' = {} => Paired(t, incoming')
  <2>1. /\ t.sent = Now.sent /\ t.replies = Now.replies /\ t.invalid = Now.invalid
        /\ t.wire = Now.wire /\ (t.subscribed \/ (~t.subscribed /\ LastOf(incoming[1])))
    BY <1>2, <1>5, NowFields DEF Leaves
  <2>2. \A d : Queued(t, d) <=> Queued(Now, d)
    BY <2>1 DEF Queued
  <2>3. Once(t, heard)
    BY <2>1, <2>2 DEF Replied, Once
  <2>4. ASSUME overlap' = {} PROVE Paired(t, incoming')
    <3>1. Paired(Now, incoming) /\ (~t.subscribed => t.invalid = <<>>)
      BY <1>4, <2>1, <2>4, NowFields DEF Replied
    <3> QED
      BY <1>1, <1>3, <2>1, <3>1, DropPaired
  <2> QED
    BY <2>1, <2>2, <2>3, <2>4, NowFields
<1>6. CASE Now' = Now /\ UNCHANGED <<heard, crashed>>
  BY <1>1, <1>2, <1>4, <1>5, <1>6 DEF Replied
<1>7. ASSUME NEW c \in Cmd, sent[c] = "subscribe", NEW t \in Client, Called(t, c),
             t = Now \/ \E ch \in Channel : Leaves(Now, t, ch, LastOf(incoming[1]))
      PROVE  Replied'
  <2>1. /\ t.sent = sent /\ Once(t, heard) /\ \A d : Queued(t, d) <=> Queued(Now, d)
        /\ overlap' = {} => Paired(t, incoming')
    BY <1>5, <1>7
  <2>2. ~Queued(t, c)
    BY <1>1, <1>7, <2>1, NowFields DEF Standing, Kinds, Queued
  <2>3. Once(Now', heard')
    BY <1>1, <1>7, <2>1, <2>2, CallOnce
  <2>4. overlap' = {} => Paired(Now', incoming')
    BY <1>3, <1>7, <2>1, CallPaired
  <2>5. crashed' # "assert"
    BY <1>7 DEF Called
  <2> QED
    BY <1>2, <1>4, <2>3, <2>4, <2>5 DEF Replied
<1>8. \/ Now' = Now /\ UNCHANGED <<heard, crashed>>
      \/ \E c \in Cmd, t \in Client :
           /\ sent[c] = "subscribe" /\ Called(t, c)
           /\ t = Now \/ \E ch \in Channel : Leaves(Now, t, ch, LastOf(incoming[1]))
  BY <1>1, ChannelMoves
<1> QED
  BY <1>6, <1>7, <1>8

(* A reply of the other queue is its own.                                  *)
LEMMA RepliedInvalid ==
  ASSUME Base, Replied, crashed = "no", ReceiveInvalid
  PROVE  Replied'
<1>1. /\ Now \in Client /\ Standing(Now, incoming) /\ replies = <<>>
      /\ Received /\ incoming[1].what = "data" /\ overlap' = overlap
  BY BaseFacts, InvalidMoves
<1>2. incoming[1].what \in Answers /\ incoming[1].by \in Cmd
  BY <1>1 DEF Received, Reply, Answers
<1>3. CASE invalid = <<>> /\ Now' = Now /\ UNCHANGED <<heard, mismatch, crashed>>
  <2>1. overlap # {}
    <3> SUFFICES ASSUME overlap = {} PROVE FALSE
      OBVIOUS
    <3>1. Awaited(Now, incoming, incoming[1].by)
      BY <1>1, <1>2 DEF Awaited, Owed, Received
    <3>2. Queued(Now, incoming[1].by)
      BY <1>2, <3>1 DEF Replied, Paired
    <3> QED
      BY <1>1, <1>3, <3>2, NowFields DEF Queued
  <2> QED
    BY <1>1, <1>3, <2>1 DEF Replied
<1>4. CASE /\ invalid # <<>> /\ invalid[1] \in Cmd
           /\ \E t \in Client : TakesInvalid(Now, t) /\ Called(t, invalid[1])
           /\ mismatch' = IF Mine(incoming[1], invalid[1]) THEN mismatch
                          ELSE mismatch \cup {invalid[1]}
  <2>1. PICK t \in Client : TakesInvalid(Now, t) /\ Called(t, invalid[1])
    BY <1>4
  <2>2. Dequeues(Now, t, invalid[1])
    BY <1>1, <2>1, QueueShrinks, NowFields DEF Standing
  <2> QED
    BY <1>1, <1>2, <1>4, <2>1, <2>2, RepliedReply
<1> QED
  BY <1>3, <1>4, InvalidMoves

(* So is a reply of the queue of replies.                                  *)
LEMMA RepliedQueue ==
  ASSUME Base, Replied, crashed = "no", ReceiveReply
  PROVE  Replied'
<1>1. /\ Now \in Client /\ Standing(Now, incoming) /\ Received
      /\ replies # <<>> /\ replies[1] \in Cmd /\ 1 \in DOMAIN replies
      /\ overlap' = overlap
      /\ mismatch' = IF Mine(incoming[1], replies[1]) THEN mismatch
                     ELSE mismatch \cup {replies[1]}
  BY BaseFacts, ReplyMoves
<1>2. PICK t \in Client : TakesReply(Now, t) /\ Called(t, replies[1])
  BY ReplyMoves
<1>3. Dequeues(Now, t, replies[1])
  BY <1>1, <1>2, QueueShrinks, NowFields DEF Standing
<1>4. CASE overlap = {}
  <2>1. Ahead(Now, incoming, subs)
    BY <1>4, BaseFacts DEF Orderly
  <2>2. 1 <= Len(replies) /\ 1 \in DOMAIN incoming
    BY <1>1, NowFields DEF Client, Received
  <2>3. incoming[1].what \in Answers
    BY <2>1, <2>2, NowFields DEF Ahead
  <2> QED
    BY <1>1, <1>2, <1>3, <2>3, RepliedReply
<1>5. CASE overlap # {}
  <2>1. t.sent = sent /\ Queued(Now, replies[1]) /\ ~Queued(t, replies[1])
        /\ \A d : Queued(t, d) => Queued(Now, d)
    BY <1>3, NowFields DEF Dequeues
  <2>2. Once(t, heard) /\ heard[replies[1]] = 0
    BY <1>1, <2>1, NowFields DEF Replied, Once
  <2>3. t.sent[replies[1]] # "unused"
    BY <1>1, <2>1, NowFields DEF Standing, Kinds, Queued
  <2>4. heard \in [Cmd -> Nat]
    BY BaseFacts DEF Others
  <2>5. Once(Now', heard')
    BY <1>1, <1>2, <2>1, <2>2, <2>3, <2>4, CallOnce
  <2> QED
    BY <1>1, <1>5, <2>5 DEF Replied
<1> QED
  BY <1>4, <1>5

(* There is no reply without a callback while the queues are paired.       *)
LEMMA RepliedUnexpected ==
  ASSUME Base, Replied, crashed = "no", ReceiveUnexpected
  PROVE  Replied'
<1>1. /\ incoming # <<>> /\ replies = <<>> /\ ~subscribed /\ Head(incoming).what # "error"
      /\ UNCHANGED <<clientVars, nodeVars, overlap, mismatch>>
  BY DEF ReceiveUnexpected
<1>2. Now' = Now /\ incoming' = incoming /\ heard' = heard
  BY <1>1 DEF clientVars, nodeVars, Now
<1>3. overlap # {}
  <2> SUFFICES ASSUME overlap = {} PROVE FALSE
    OBVIOUS
  <2>1. /\ Now \in Client /\ incoming \in Seq(Reply) /\ Quiet(Now, incoming, subs)
        /\ Paired(Now, incoming)
    BY BaseFacts DEF Orderly, Replied
  <2>2. 1 \in DOMAIN incoming /\ incoming[1] \in Reply
    BY <1>1, <2>1
  <2>3. incoming[1].what \in Answers /\ incoming[1].by \in Cmd
    <3>1. incoming[1].what \in Answers
      BY <1>1, <2>1, <2>2, NowFields DEF Quiet
    <3> QED
      BY <2>2, <3>1 DEF Reply, Answers
  <2>4. Awaited(Now, incoming, incoming[1].by)
    BY <2>2, <2>3 DEF Awaited, Owed
  <2>5. Queued(Now, incoming[1].by) /\ invalid = <<>>
    BY <1>1, <2>1, <2>3, <2>4, NowFields DEF Paired
  <2> QED
    BY <1>1, <2>5, NowFields DEF Queued
<1> QED
  BY <1>1, <1>2, <1>3 DEF Replied

(* At first nothing is owed.                                               *)
LEMMA RepliedInit == Init => Replied
<1> SUFFICES ASSUME Init PROVE Replied
  OBVIOUS
<1>1. \A v : v = <<>> => DOMAIN v = {}
  OBVIOUS
<1>2. /\ DOMAIN Now.replies = {} /\ DOMAIN Now.invalid = {} /\ DOMAIN Now.wire = {}
      /\ DOMAIN incoming = {} /\ Now.invalid = <<>> /\ Now.sent = sent
  BY <1>1, NowFields DEF Init
<1>3. Once(Now, heard)
  BY <1>2 DEF Once, Queued, Init
<1>4. Paired(Now, incoming)
  BY <1>2 DEF Paired, Queued, Before, Awaited, Earlier, Owed
<1> QED
  BY <1>3, <1>4 DEF Replied, Init

(* Each action keeps Replied.                                              *)
LEMMA RepliedStep == Base /\ Replied /\ [Next]_vars => Replied'
<1> SUFFICES ASSUME Base, Replied, [Next]_vars PROVE Replied'
  OBVIOUS
<1>1. ASSUME UNCHANGED vars PROVE Replied'
  <2>1. Now' = Now /\ UNCHANGED <<heard, overlap, incoming, mismatch, crashed>>
    BY <1>1 DEF vars, clientVars, nodeVars, Now
  <2> QED
    BY <2>1 DEF Replied
<1>2. CASE Next
  <2>1. crashed = "no"
    BY <1>2 DEF Next
  <2>2. ASSUME TearDown PROVE Replied'
    <3>1. /\ Now' = Now /\ UNCHANGED <<heard, overlap, incoming, mismatch>>
          /\ crashed' # "assert"
      BY <2>2 DEF TearDown, clientVars, nodeVars, Now
    <3> QED
      BY <3>1 DEF Replied
  <2> QED
    BY <1>2, <2>1, <2>2, RepliedSent, RepliedNode, RepliedQueue, RepliedChannel, RepliedInvalid,
       RepliedUnexpected DEF Next
<1> QED
  BY <1>1, <1>2 DEF vars

(* The program's callback of a command that is no subscription is called   *)
(* once at most, and with its own reply, and hiredis finds no reply it has *)
(* no callback for, unless the flag went while something was under way.    *)
THEOREM OwnReplies == Spec => []OwnReply
<1>1. Replied => OwnReply
  BY NowFields DEF Replied, Once, OwnReply
<1> QED
  BY <1>1, Invariance, RepliedInit, RepliedStep, PTL DEF Spec

-----------------------------------------------------------------------------
(* Which objects are never deleted.  While one command subscribes, what it *)
(* subscribed to and has not left is called back by it; with a second one  *)
(* anything may be left over.                                              *)

Two(r) == \E d, e \in Cmd : d # e /\ r.sent[d] = "subscribe" /\ r.sent[e] = "subscribe"

Asked(r) == \E j \in DOMAIN r.wire : r.wire[j].what = "subscribe"
Telling(inc) == \E i \in DOMAIN inc : inc[i].what = "unsubscribe"

Someone(r, inc, s) ==
  s # {} \/ Telling(inc) \/ \E j \in DOMAIN r.wire : r.wire[j].what = "unsubscribe"

(* The channel stays until after what comes i-th.                          *)
Stayed(r, inc, s, i, ch) ==
  /\ r.channels[ch] # None
  /\ ch \in s \/ \E j \in DOMAIN inc : j > i /\ Tells(inc[j], "unsubscribe", ch)

OneOnly(r, inc, s) ==
  /\ s # {} \/ Telling(inc) => ~Asked(r)
  /\ \A i, j \in DOMAIN inc : i < j /\ inc[i].what = "unsubscribe" => inc[j].what # "subscribe"
  /\ \A ch \in s : r.channels[ch] # None
  /\ \A ch \in Channel, j \in DOMAIN r.wire :
       Asks(r.wire[j], "subscribe", ch) => r.channels[ch] # None
  /\ \A i \in DOMAIN inc, ch \in s : ~Tells(inc[i], "unsubscribe", ch)
  /\ \A i \in DOMAIN inc : inc[i].what = "unsubscribe" /\ inc[i].left # 0 =>
       \E ch \in Channel : ch # inc[i].on /\ Stayed(r, inc, s, i, ch)

Subscriptions(r, inc, s) ==
  /\ Someone(r, inc, s) => Subscriber(r)
  /\ Two(r) \/ OneOnly(r, inc, s)

(* An object that is not deleted, and that nobody will call.               *)
Loose(r, c) ==
  /\ r.obj[c] = "live" /\ r.sent[c] \in {"subscribe", "other"}
  /\ ~Queued(r, c) /\ \A ch \in Channel : r.channels[ch] # c

Excused(r, c) == IF r.sent[c] = "subscribe" THEN Two(r) ELSE Subscriber(r)

Excusable(r) == \A c \in Cmd : Loose(r, c) => Excused(r, c)

(* After SUBSCRIBE its own object waits, and any other is excused by it.   *)
LEMMA SubscribeExcusable ==
  ASSUME NEW r \in Client, NEW t \in Client, NEW c \in Cmd, NEW on \in Names, Subscribes(r, t, c, on)
  PROVE  Excusable(t) /\ (Subscriber(r) => Two(t))
<1>1. /\ r.sent[c] = "unused" /\ t.sent[c] = "subscribe"
      /\ \A d \in Cmd : d # c => t.sent[d] = r.sent[d]
      /\ \A ch \in Channel : t.channels[ch] = IF ch \in Named(on) THEN c ELSE r.channels[ch]
  BY DEF Subscribes, Issues
<1>2. on[1] \in Channel /\ t.channels[on[1]] = c
  BY <1>1, NamesFacts
<1>3. ASSUME NEW d \in Cmd, Loose(t, d) PROVE Excused(t, d)
  <2>1. d # c
    BY <1>2, <1>3 DEF Loose
  <2> QED
    BY <1>1, <2>1 DEF Excused, Two, Subscriber
<1>4. Subscriber(r) => Two(t)
  BY <1>1 DEF Subscriber, Two
<1> QED
  BY <1>3, <1>4 DEF Excusable

(* The first SUBSCRIBE is the only one, the next is the second.            *)
LEMMA SubscribeOne ==
  ASSUME NEW r \in Client, NEW t \in Client, NEW inc, NEW s, NEW c \in Cmd, NEW on \in Names,
         Subscribes(r, t, c, on), Requests(r), Subscriptions(r, inc, s)
  PROVE  Subscriptions(t, inc, s)
<1>1. /\ r.sent[c] = "unused" /\ t.sent[c] = "subscribe"
      /\ \A d \in Cmd : d # c => t.sent[d] = r.sent[d]
      /\ \A ch \in Channel : t.channels[ch] = IF ch \in Named(on) THEN c ELSE r.channels[ch]
  BY DEF Subscribes, Issues
<1>2. Subscriber(t) /\ (Subscriber(r) => Two(t))
  BY <1>1, SubscribeExcusable DEF Subscriber
<1>3. CASE ~Subscriber(r)
  <2>1. ~Someone(r, inc, s)
    BY <1>3 DEF Subscriptions
  <2>2. PICK q \in Request : q.by = c /\ q.what = "subscribe" /\ q.on = on /\ Grown(r.wire, t.wire, q)
    BY DEF Subscribes, Issues
  <2>3. \A j \in DOMAIN r.wire : r.wire[j].what # "subscribe"
    <3>1. \A j \in DOMAIN r.wire : r.wire[j].by \in Cmd
      <4>1. \A j \in DOMAIN r.wire : r.wire[j] \in Request
        BY DEF Client
      <4> QED
        BY <4>1 DEF Request
    <3> QED
      BY <1>3, <3>1 DEF Requests, Subscriber
  <2>4. \A j \in DOMAIN t.wire : t.wire[j] = q \/ \E l \in DOMAIN r.wire : t.wire[j] = r.wire[l]
    <3>1. \A j \in DOMAIN t.wire : j \in 1..Len(r.wire) \/ j = Len(r.wire) + 1
      BY <2>2 DEF Grown
    <3> QED
      BY <2>2, <3>1 DEF Grown
  <2>5. \A ch \in Channel, j \in DOMAIN t.wire : Asks(t.wire[j], "subscribe", ch) => ch \in Named(on)
    BY <2>2, <2>3, <2>4 DEF Asks
  <2>6. s = {} /\ ~Telling(inc)
    BY <2>1 DEF Someone
  <2>7. \A ch \in Named(on) : t.channels[ch] # None
    BY <1>1, NamesFacts, SubscriptionAssumption
  <2> QED
    BY <1>2, <2>5, <2>6, <2>7 DEF Subscriptions, OneOnly, Telling
<1> QED
  BY <1>2, <1>3 DEF Subscriptions

(* A command of another kind.                                              *)
LEMMA AnotherOne ==
  ASSUME NEW r \in Client, NEW t \in Client, NEW inc, NEW s, NEW c \in Cmd,
         \/ Sends(r, t, c)
         \/ \E on \in Names : Unsubscribes(r, t, c, on) /\ Subscriber(r)
         \/ Refuses(r, t, c),
         Subscriptions(r, inc, s)
  PROVE  Subscriptions(t, inc, s)
<1>1. /\ \A d \in Cmd : r.sent[d] = "subscribe" => t.sent[d] = "subscribe"
      /\ t.channels = r.channels
      /\ \/ t.wire = r.wire
         \/ \E q : Grown(r.wire, t.wire, q) /\ (q.what = "other" \/ (q.what = "unsubscribe" /\ Subscriber(r)))
  BY DEF Sends, Unsubscribes, Refuses, Issues
<1>2. \A m, v, q : Grown(m, v, q) => \A j \in DOMAIN v : v[j] = q \/ \E l \in DOMAIN m : v[j] = m[l]
  <2> SUFFICES ASSUME NEW m, NEW v, NEW q, Grown(m, v, q), NEW j \in DOMAIN v
               PROVE  v[j] = q \/ \E l \in DOMAIN m : v[j] = m[l]
    OBVIOUS
  <2>1. j \in 1..Len(m) \/ j = Len(m) + 1
    BY DEF Grown
  <2> QED
    BY <2>1 DEF Grown
<1>3. (Subscriber(r) => Subscriber(t)) /\ (Two(r) => Two(t))
  BY <1>1 DEF Subscriber, Two
<1>4. \A j \in DOMAIN t.wire : \/ \E l \in DOMAIN r.wire : t.wire[j] = r.wire[l]
                               \/ t.wire[j].what = "other"
                               \/ t.wire[j].what = "unsubscribe" /\ Subscriber(r)
  BY <1>1, <1>2
<1>5. Someone(t, inc, s) => Someone(r, inc, s) \/ Subscriber(r)
  BY <1>4 DEF Someone
<1>6. OneOnly(r, inc, s) => OneOnly(t, inc, s)
  <2>1. Asked(t) => Asked(r)
    BY <1>4 DEF Asked
  <2>2. \A ch, j : j \in DOMAIN t.wire /\ Asks(t.wire[j], "subscribe", ch) =>
          \E l \in DOMAIN r.wire : Asks(r.wire[l], "subscribe", ch)
    BY <1>4 DEF Asks
  <2> QED
    BY <1>1, <2>1, <2>2 DEF OneOnly, Stayed
<1> QED
  BY <1>3, <1>5, <1>6 DEF Subscriptions

(* The object of another command waits, or is none of those that count.    *)
LEMMA AnotherExcusable ==
  ASSUME NEW r \in Client, NEW t \in Client, NEW c \in Cmd,
         \/ Sends(r, t, c)
         \/ \E on \in Names : Unsubscribes(r, t, c, on)
         \/ Refuses(r, t, c)
  PROVE  /\ \A d \in Cmd : Loose(t, d) => Loose(r, d) /\ d # c
         /\ \A d \in Cmd : d # c /\ Excused(r, d) => Excused(t, d)
<1>1. /\ \A d \in Cmd : d # c => t.sent[d] = r.sent[d] /\ t.obj[d] = r.obj[d]
      /\ t.channels = r.channels /\ r.sent[c] = "unused"
  BY DEF Sends, Unsubscribes, Refuses, Issues
<1>2. \A d : Queued(r, d) => Queued(t, d)
  <2>1. \A m, v : Grown(m, v, c) => \A i \in DOMAIN m : i \in DOMAIN v /\ v[i] = m[i]
    BY DEF Grown
  <2>2. CASE Sends(r, t, c)
    BY <2>1, <2>2 DEF Sends, Queued
  <2>3. CASE t.replies = r.replies /\ t.invalid = r.invalid
    BY <2>3 DEF Queued
  <2> QED
    BY <2>2, <2>3 DEF Unsubscribes, Refuses
<1>3. ~Loose(t, c)
  <2>1. CASE Sends(r, t, c)
    <3>1. \A m, v : Grown(m, v, c) => \E i \in DOMAIN v : v[i] = c
      BY DEF Grown
    <3> QED
      BY <2>1, <3>1 DEF Sends, Queued, Loose
  <2>2. CASE t.sent[c] = "unsubscribe"
    BY <2>2 DEF Loose
  <2> QED
    BY <2>1, <2>2 DEF Unsubscribes, Refuses, Issues
<1>4. (Subscriber(r) => Subscriber(t)) /\ (Two(r) => Two(t))
  BY <1>1 DEF Subscriber, Two
<1> QED
  BY <1>1, <1>2, <1>3, <1>4 DEF Loose, Excused

(* The node serves the only SUBSCRIBE, or an UNSUBSCRIBE after it.         *)
LEMMA ServeOne ==
  ASSUME NEW r \in Client, NEW t \in Client, NEW inc \in Seq(Reply), NEW k, Serves(r, t, inc, k),
         Requests(r), subs \subseteq Channel, Subscriptions(r, inc, subs),
         Two(r) \/ Joined(r, inc, subs),
         NEW s, s = SubsAfter(r.wire[1], Len(r.wire[1].on)), s \subseteq Channel,
         r.wire[1].what = "other" => s = subs
  PROVE  Subscriptions(t, k, s)
<1>1. t.sent = r.sent /\ t.channels = r.channels
  BY DEF Serves
<1>2. PICK q : q = r.wire[1]
  OBVIOUS
<1>3. /\ \A j \in DOMAIN t.wire : j + 1 \in DOMAIN r.wire /\ j + 1 # 1 /\ t.wire[j] = r.wire[j + 1]
      /\ 1 \in DOMAIN r.wire /\ q \in Request
      /\ \A i \in DOMAIN inc : i \in Nat /\ i \in DOMAIN k /\ k[i] = inc[i] /\ i <= Len(inc)
      /\ q.what = "other" =>
           \A i \in DOMAIN k : i \in DOMAIN inc \/ (i = Len(inc) + 1 /\ k[i].what \in Answers)
      /\ q.what # "other" =>
           /\ q.on \in Names
           /\ \A i \in DOMAIN k : i \in DOMAIN inc \/ \E n \in 1..Len(q.on) :
                /\ i = Len(inc) + n /\ Tells(k[i], q.what, q.on[n])
                /\ k[i].left = Cardinality(SubsAfter(q, n))
           /\ \A n \in 1..Len(q.on) :
                Len(inc) + n \in DOMAIN k /\ Tells(k[Len(inc) + n], q.what, q.on[n])
      /\ Len(inc) \in Nat
  BY <1>2, ServeFacts
<1>4. (Subscriber(r) => Subscriber(t)) /\ (Two(r) => Two(t))
  BY <1>1 DEF Subscriber, Two
<1>5. q.what \in {"subscribe", "unsubscribe", "other"} /\ q.by \in Cmd /\ r.sent[q.by] = q.what
  BY <1>2, <1>3 DEF Request, What, Requests
<1>6. Asked(t) => Asked(r)
  BY <1>3 DEF Asked
<1>7. \A ch, j : j \in DOMAIN t.wire /\ Asks(t.wire[j], "subscribe", ch) =>
        \E l \in DOMAIN r.wire : Asks(r.wire[l], "subscribe", ch)
  BY <1>3
<1>8. \A j \in DOMAIN t.wire : t.wire[j].what = "unsubscribe" => Someone(r, inc, subs)
  BY <1>3 DEF Someone
<1>9. CASE q.what = "other"
  <2>1. s = subs /\ \A i \in DOMAIN k : i \in DOMAIN inc \/ k[i].what \in Answers
    BY <1>2, <1>3, <1>9
  <2>2. \A i \in DOMAIN k : k[i].what \in {"subscribe", "unsubscribe"} => i \in DOMAIN inc /\ k[i] = inc[i]
    BY <1>3, <2>1 DEF Answers
  <2>3. Telling(k) => Telling(inc)
    BY <2>2 DEF Telling
  <2>4. Someone(t, k, s) => Someone(r, inc, subs)
    BY <1>8, <2>1, <2>3 DEF Someone
  <2>5. OneOnly(r, inc, subs) => OneOnly(t, k, s)
    <3> SUFFICES ASSUME OneOnly(r, inc, subs) PROVE OneOnly(t, k, s)
      OBVIOUS
    <3>1. \A i, ch : i \in DOMAIN inc /\ Stayed(r, inc, subs, i, ch) => Stayed(t, k, s, i, ch)
      BY <1>1, <1>3, <2>1 DEF Stayed
    <3>2. \A i \in DOMAIN k : k[i].what = "unsubscribe" /\ k[i].left # 0 =>
            \E ch \in Channel : ch # k[i].on /\ Stayed(t, k, s, i, ch)
      BY <2>2, <3>1 DEF OneOnly
    <3>3. s # {} \/ Telling(k) => ~Asked(t)
      BY <1>6, <2>1, <2>3 DEF OneOnly
    <3>4. \A i, j \in DOMAIN k : i < j /\ k[i].what = "unsubscribe" => k[j].what # "subscribe"
      BY <2>2 DEF OneOnly
    <3>5. \A i \in DOMAIN k, ch \in s : ~Tells(k[i], "unsubscribe", ch)
      BY <2>1, <2>2 DEF OneOnly, Tells
    <3>6. /\ \A ch \in s : t.channels[ch] # None
          /\ \A ch \in Channel, j \in DOMAIN t.wire :
               Asks(t.wire[j], "subscribe", ch) => t.channels[ch] # None
      BY <1>1, <1>7, <2>1 DEF OneOnly
    <3> QED
      BY <3>2, <3>3, <3>4, <3>5, <3>6 DEF OneOnly
  <2> QED
    BY <1>4, <2>4, <2>5 DEF Subscriptions
<1>10. CASE q.what = "subscribe"
  <2>1. Subscriber(t)
    BY <1>1, <1>5, <1>10 DEF Subscriber
  <2>2. ASSUME ~Two(r) PROVE OneOnly(t, k, s)
    <3>1. OneOnly(r, inc, subs) /\ Asked(r)
      BY <1>2, <1>3, <1>10, <2>2 DEF Subscriptions, Asked
    <3>2. subs = {} /\ ~Telling(inc)
      BY <3>1 DEF OneOnly
    <3>3. ~Asked(t)
      <4> SUFFICES ASSUME NEW j \in DOMAIN t.wire, t.wire[j].what = "subscribe" PROVE FALSE
        BY DEF Asked
      <4>1. /\ j + 1 \in DOMAIN r.wire /\ j + 1 # 1 /\ r.wire[j + 1].what = "subscribe"
            /\ r.wire[j + 1] \in Request
        BY <1>3 DEF Client
      <4>2. r.wire[j + 1].by # q.by
        BY <1>2, <1>3, <4>1 DEF Requests
      <4>3. r.sent[r.wire[j + 1].by] = "subscribe" /\ r.wire[j + 1].by \in Cmd
        BY <4>1 DEF Requests, Request
      <4> QED
        BY <1>5, <1>10, <2>2, <4>2, <4>3 DEF Two
    <3>4. \A i \in DOMAIN k : k[i].what # "unsubscribe"
      BY <1>3, <1>10, <3>2 DEF Telling, Tells
    <3>5. \A ch \in s : t.channels[ch] # None
      <4>1. s = subs \cup {q.on[i] : i \in 1..Len(q.on)}
        BY <1>2, <1>10 DEF SubsAfter
      <4>2. \A ch \in s : Asks(q, "subscribe", ch)
        BY <1>3, <1>10, <3>2, <4>1, NamesFacts DEF Asks
      <4> QED
        BY <1>1, <1>2, <1>3, <3>1, <4>2 DEF OneOnly
    <3> QED
      BY <3>3, <3>4, <3>5 DEF OneOnly, Asked, Asks, Telling, Tells
  <2> QED
    BY <1>4, <2>1, <2>2 DEF Subscriptions
<1>11. CASE q.what = "unsubscribe"
  <2>1. Subscriber(t)
    BY <1>2, <1>3, <1>4, <1>11 DEF Someone, Subscriptions
  <2>2. ASSUME ~Two(r) PROVE OneOnly(t, k, s)
    <3>1. OneOnly(r, inc, subs) /\ Joined(r, inc, subs)
      BY <2>2 DEF Subscriptions
    <3>2. /\ q.on \in Names /\ Len(q.on) \in {1, 2} /\ \A i, j \in 1..Len(q.on) : q.on[i] = q.on[j] => i = j
          /\ Named(q.on) = {q.on[i] : i \in 1..Len(q.on)} /\ q.on[1] \in Named(q.on)
          /\ Named(q.on) \subseteq Channel
      BY <1>3, <1>11, NamesFacts
    <3>3. \A ch \in Named(q.on) : ch \in subs
      <4> SUFFICES ASSUME NEW ch \in Named(q.on), ch \notin subs PROVE FALSE
        OBVIOUS
      <4>1. Asks(r.wire[1], "unsubscribe", ch) /\ ch \in Channel
        BY <1>2, <1>11, <3>2 DEF Asks
      <4>2. \E l \in DOMAIN r.wire : l < 1
        BY <1>3, <3>1, <4>1 DEF Joined
      <4>3. \A l \in DOMAIN r.wire : l \in 1..Len(r.wire)
        BY DEF Client
      <4> QED
        BY <4>2, <4>3 DEF Client
    <3>4. s = subs \ Named(q.on)
      BY <1>2, <1>11, <3>2 DEF SubsAfter
    <3>5. ~Asked(t)
      <4>1. subs # {}
        BY <3>2, <3>3
      <4> QED
        BY <1>6, <3>1, <4>1 DEF OneOnly
    <3>6. \A i \in DOMAIN k : k[i].what = "subscribe" => i \in DOMAIN inc /\ k[i] = inc[i]
      BY <1>3, <1>11 DEF Tells
    <3>7. \A i, j \in DOMAIN k : i < j /\ k[i].what = "unsubscribe" => k[j].what # "subscribe"
      <4> SUFFICES ASSUME NEW i \in DOMAIN k, NEW j \in DOMAIN k, i < j, k[i].what = "unsubscribe",
                          k[j].what = "subscribe"
                   PROVE  FALSE
        OBVIOUS
      <4>1. j \in DOMAIN inc /\ k[j] = inc[j] /\ j <= Len(inc) /\ j \in Nat
        BY <1>3, <3>6
      <4>2. i \in DOMAIN inc
        <5>1. i \in DOMAIN inc \/ \E n \in 1..Len(q.on) : i = Len(inc) + n
          BY <1>3, <1>11
        <5> QED
          BY <1>3, <4>1, <5>1
      <4> QED
        BY <1>3, <3>1, <4>1, <4>2 DEF OneOnly
    <3>8. \A i \in DOMAIN k, ch \in s : ~Tells(k[i], "unsubscribe", ch)
      <4> SUFFICES ASSUME NEW i \in DOMAIN k, NEW ch \in s, Tells(k[i], "unsubscribe", ch) PROVE FALSE
        OBVIOUS
      <4>1. CASE i \in DOMAIN inc
        BY <1>3, <3>1, <3>4, <4>1 DEF OneOnly
      <4>2. CASE \E n \in 1..Len(q.on) : Tells(k[i], q.what, q.on[n])
        BY <3>2, <3>4, <4>2 DEF Tells
      <4> QED
        BY <1>3, <1>11, <4>1, <4>2
    <3>9. ASSUME NEW i \in DOMAIN k, k[i].what = "unsubscribe", k[i].left # 0
          PROVE  \E ch \in Channel : ch # k[i].on /\ Stayed(t, k, s, i, ch)
      <4>1. ASSUME NEW ch \in subs, NEW m \in Nat, i = m, m <= Len(inc) \/
                     (\E n \in 1..Len(q.on) : m = Len(inc) + n /\ \A l \in 1..n : q.on[l] # ch)
            PROVE  Stayed(t, k, s, i, ch)
        <5>1. t.channels[ch] # None
          BY <1>1, <3>1 DEF OneOnly
        <5>2. CASE ch \in s
          BY <5>1, <5>2 DEF Stayed
        <5>3. CASE ch \notin s
          <6>1. PICK l \in 1..Len(q.on) : q.on[l] = ch
            BY <3>2, <3>4, <5>3
          <6>2. Len(inc) + l \in DOMAIN k /\ Tells(k[Len(inc) + l], "unsubscribe", ch)
            BY <1>3, <1>11, <6>1
          <6>3. Len(inc) + l > i
            BY <1>3, <3>2, <4>1, <6>1
          <6> QED
            BY <5>1, <6>2, <6>3 DEF Stayed
        <5> QED
          BY <5>2, <5>3
      <4>2. CASE i \in DOMAIN inc
        <5>1. PICK ch \in Channel : ch # inc[i].on /\ Stayed(r, inc, subs, i, ch)
          BY <1>3, <3>1, <3>9, <4>2 DEF OneOnly
        <5>2. CASE ch \in subs
          BY <1>3, <4>1, <4>2, <5>1, <5>2
        <5>3. CASE ch \notin subs
          <6>1. Stayed(t, k, s, i, ch)
            BY <1>1, <1>3, <5>1, <5>3 DEF Stayed
          <6> QED
            BY <1>3, <4>2, <5>1, <6>1
        <5> QED
          BY <5>2, <5>3
      <4>3. CASE i \notin DOMAIN inc
        <5>1. PICK n \in 1..Len(q.on) : /\ i = Len(inc) + n /\ Tells(k[i], q.what, q.on[n])
                                        /\ k[i].left = Cardinality(SubsAfter(q, n))
          BY <1>3, <1>11, <4>3
        <5>2. SubsAfter(q, n) # {}
          <6>1. n \in Nat /\ n <= Len(q.on)
            BY <3>2
          <6> QED
            BY <1>3, <3>2, <3>9, <5>1, <6>1, SubsFinite
        <5>3. PICK ch \in SubsAfter(q, n) : TRUE
          BY <5>2
        <5>4. ch \in subs /\ \A l \in 1..n : q.on[l] # ch
          BY <1>11, <5>3 DEF SubsAfter
        <5>5. i \in Nat /\ n \in 1..n
          BY <1>3, <3>2, <5>1
        <5>6. Stayed(t, k, s, i, ch)
          BY <4>1, <5>1, <5>4, <5>5
        <5> QED
          BY <5>1, <5>4, <5>5, <5>6 DEF Tells
      <4> QED
        BY <4>2, <4>3
    <3>10. /\ \A ch \in s : t.channels[ch] # None
           /\ \A ch \in Channel, j \in DOMAIN t.wire :
                Asks(t.wire[j], "subscribe", ch) => t.channels[ch] # None
      BY <1>1, <1>7, <3>1, <3>4 DEF OneOnly
    <3> QED
      BY <3>5, <3>7, <3>8, <3>9, <3>10 DEF OneOnly
  <2> QED
    BY <1>4, <2>1, <2>2 DEF Subscriptions
<1> QED
  BY <1>5, <1>9, <1>10, <1>11

(* A message changes no channel.                                           *)
LEMMA PublishOne ==
  ASSUME NEW r, NEW inc, NEW k, NEW v, Grown(inc, k, v), v.what = "message",
         NEW s, Subscriptions(r, inc, s)
  PROVE  Subscriptions(r, k, s)
<1>1. /\ \A i \in DOMAIN inc : i \in DOMAIN k /\ k[i] = inc[i]
      /\ \A i \in DOMAIN k : i \in DOMAIN inc \/ k[i] = v
  <2>1. \A i \in DOMAIN k : i \in 1..Len(inc) \/ i = Len(inc) + 1
    BY DEF Grown
  <2> QED
    BY <2>1 DEF Grown
<1>2. \A i \in DOMAIN k : k[i].what \in {"subscribe", "unsubscribe"} => i \in DOMAIN inc /\ k[i] = inc[i]
  BY <1>1
<1>3. Telling(k) => Telling(inc)
  BY <1>2 DEF Telling
<1>4. ASSUME OneOnly(r, inc, s) PROVE OneOnly(r, k, s)
  <2>1. \A i, ch : Stayed(r, inc, s, i, ch) => Stayed(r, k, s, i, ch)
    BY <1>1 DEF Stayed
  <2>2. \A i \in DOMAIN k : k[i].what = "unsubscribe" /\ k[i].left # 0 =>
          \E ch \in Channel : ch # k[i].on /\ Stayed(r, k, s, i, ch)
    BY <1>2, <1>4, <2>1 DEF OneOnly
  <2>3. \A i, j \in DOMAIN k : i < j /\ k[i].what = "unsubscribe" => k[j].what # "subscribe"
    BY <1>2, <1>4 DEF OneOnly
  <2>4. \A i \in DOMAIN k, ch \in s : ~Tells(k[i], "unsubscribe", ch)
    BY <1>2, <1>4 DEF OneOnly, Tells
  <2> QED
    BY <1>3, <1>4, <2>2, <2>3, <2>4 DEF OneOnly
<1> QED
  BY <1>3, <1>4 DEF Subscriptions, Someone

(* What comes first is taken, and a channel with it perhaps.               *)
LEMMA TakenOne ==
  ASSUME NEW r, NEW t, NEW inc, NEW k, Shrunk(inc, k), NEW s, Subscriptions(r, inc, s),
         LeftOnce(r, inc), t.sent = r.sent, t.wire = r.wire,
         \/ t.channels = r.channels
         \/ \E ch \in Channel : /\ Tells(inc[1], "unsubscribe", ch)
                                /\ \A d \in Channel : d # ch => t.channels[d] = r.channels[d],
         s \subseteq Channel
  PROVE  Subscriptions(t, k, s)
<1>1. /\ \A i \in DOMAIN k : i + 1 \in DOMAIN inc /\ k[i] = inc[i + 1] /\ i \in Nat /\ i >= 1
      /\ \A i \in DOMAIN inc : i \in Nat /\ (i = 1 \/ (i - 1 \in DOMAIN k /\ k[i - 1] = inc[i]))
      /\ 1 \in DOMAIN inc
  BY DEF Shrunk
<1>2. Telling(k) => Telling(inc)
  BY <1>1 DEF Telling
<1>3. (Subscriber(r) => Subscriber(t)) /\ (Two(r) => Two(t))
  BY DEF Subscriber, Two
<1>4. ASSUME OneOnly(r, inc, s) PROVE OneOnly(t, k, s)
  <2>1. \A ch \in s : t.channels[ch] # None
    BY <1>1, <1>4 DEF OneOnly
  <2>2. \A ch \in Channel, j \in DOMAIN t.wire :
          Asks(t.wire[j], "subscribe", ch) => t.channels[ch] # None
    <3>1. CASE t.channels = r.channels
      BY <1>4, <3>1 DEF OneOnly
    <3>2. CASE \E ch \in Channel : Tells(inc[1], "unsubscribe", ch)
      <4>1. Telling(inc)
        BY <1>1, <3>2 DEF Telling, Tells
      <4>2. ~Asked(t)
        BY <1>4, <4>1 DEF OneOnly, Asked
      <4> QED
        BY <4>2 DEF Asked, Asks
    <3> QED
      BY <3>1, <3>2
  <2>3. \A i, j \in DOMAIN k : i < j /\ k[i].what = "unsubscribe" => k[j].what # "subscribe"
    <3> SUFFICES ASSUME NEW i \in DOMAIN k, NEW j \in DOMAIN k, i < j, k[i].what = "unsubscribe"
                 PROVE  k[j].what # "subscribe"
      OBVIOUS
    <3>1. i + 1 < j + 1
      BY <1>1
    <3> QED
      BY <1>1, <1>4, <3>1 DEF OneOnly
  <2>4. \A i \in DOMAIN k, ch \in s : ~Tells(k[i], "unsubscribe", ch)
    BY <1>1, <1>4 DEF OneOnly
  <2>5. ASSUME NEW i \in DOMAIN k, k[i].what = "unsubscribe", k[i].left # 0
        PROVE  \E ch \in Channel : ch # k[i].on /\ Stayed(t, k, s, i, ch)
    <3>1. PICK ch \in Channel : ch # k[i].on /\ Stayed(r, inc, s, i + 1, ch)
      BY <1>1, <1>4, <2>5 DEF OneOnly
    <3>2. t.channels[ch] # None
      <4>1. CASE t.channels = r.channels
        BY <3>1, <4>1 DEF Stayed
      <4>2. ASSUME NEW d \in Channel, Tells(inc[1], "unsubscribe", d),
                   \A e \in Channel : e # d => t.channels[e] = r.channels[e]
            PROVE  t.channels[ch] # None
        <5>1. ch # d
          <6>1. CASE ch \in s
            BY <1>1, <1>4, <4>2, <6>1 DEF OneOnly
          <6>2. CASE \E j \in DOMAIN inc : j > i + 1 /\ Tells(inc[j], "unsubscribe", ch)
            <7>1. PICK j \in DOMAIN inc : j > i + 1 /\ Tells(inc[j], "unsubscribe", ch)
              BY <6>2
            <7>2. j # 1
              BY <1>1, <7>1
            <7> QED
              BY <1>1, <4>2, <7>1, <7>2 DEF LeftOnce
          <6> QED
            BY <3>1, <6>1, <6>2 DEF Stayed
        <5> QED
          BY <3>1, <4>2, <5>1 DEF Stayed
      <4> QED
        BY <4>1, <4>2
    <3>3. ch \in s \/ \E j \in DOMAIN k : j > i /\ Tells(k[j], "unsubscribe", ch)
      <4> SUFFICES ASSUME ch \notin s PROVE \E j \in DOMAIN k : j > i /\ Tells(k[j], "unsubscribe", ch)
        OBVIOUS
      <4>1. PICK j \in DOMAIN inc : j > i + 1 /\ Tells(inc[j], "unsubscribe", ch)
        BY <3>1 DEF Stayed
      <4>2. j # 1 /\ j - 1 > i
        BY <1>1, <4>1
      <4> QED
        BY <1>1, <4>1, <4>2
    <3> QED
      BY <3>1, <3>2, <3>3 DEF Stayed
  <2>6. s # {} \/ Telling(k) => ~Asked(t)
    BY <1>2, <1>4 DEF OneOnly, Asked
  <2> QED
    BY <2>1, <2>2, <2>3, <2>4, <2>5, <2>6 DEF OneOnly
<1>5. Someone(t, k, s) => Someone(r, inc, s)
  BY <1>2 DEF Someone
<1> QED
  BY <1>3, <1>4, <1>5 DEF Subscriptions

(* A callback: c is deleted, or there is an excuse.                        *)
LEMMA CallOne ==
  ASSUME NEW m \in Client, m.sent = sent, NEW k, NEW s, NEW c \in Cmd, Called(m, c),
         Requests(m), Subscriptions(m, k, s)
  PROVE  Subscriptions(Now', k, s)
<1>1. CASE m.obj[c] # "live"
  BY <1>1 DEF Called
<1>2. CASE m.obj[c] = "live"
  <2>1. PICK q \in Inside(m) : Now' = Deleted(q, c)
    BY <1>2 DEF Called
  <2>2. /\ q \in Client
        /\ \/ q = m
           \/ \E d \in Cmd, on \in Names : Subscribes(m, q, d, on)
           \/ \E d \in Cmd : Sends(m, q, d)
    BY InsideCases
  <2>3. Subscriptions(q, k, s)
    BY <2>2, SubscribeOne, AnotherOne
  <2>4. PICK t : t = Deleted(q, c)
    OBVIOUS
  <2>5. t \in Client /\ IF q.subscribed THEN t = q ELSE Ends(q, t, c)
    BY <2>2, <2>4, DeletedFields
  <2>6. Subscriptions(t, k, s)
    BY <2>3, <2>5 DEF Ends, Subscriptions, Someone, Subscriber, Two, OneOnly, Asked, Stayed
  <2> QED
    BY <2>1, <2>4, <2>6
<1> QED
  BY <1>1, <1>2

(* What the program does in its callback is excused as well.               *)
LEMMA CallExcusable ==
  ASSUME NEW m \in Client, m.sent = sent, NEW c \in Cmd, m.sent[c] # "unused", Called(m, c),
         \A d \in Cmd : d # c /\ Loose(m, d) => Excused(m, d),
         m.subscribed /\ Loose(m, c) => Excused(m, c)
  PROVE  /\ Excusable(Now') /\ (Subscriber(m) => Subscriber(Now')) /\ (Two(m) => Two(Now'))
<1>1. CASE m.obj[c] # "live"
  BY <1>1 DEF Called, Excusable, Loose
<1>2. CASE m.obj[c] = "live"
  <2>1. PICK q \in Inside(m) : Now' = Deleted(q, c)
    BY <1>2 DEF Called
  <2>2. /\ q \in Client
        /\ \/ q = m
           \/ \E d \in Cmd, on \in Names : Subscribes(m, q, d, on)
           \/ \E d \in Cmd : Sends(m, q, d)
    BY InsideCases
  <2>3. PICK t : t = Deleted(q, c)
    OBVIOUS
  <2>4. t \in Client /\ IF q.subscribed THEN t = q ELSE Ends(q, t, c)
    BY <2>2, <2>3, DeletedFields
  <2>5. /\ (Subscriber(q) => Subscriber(t)) /\ (Two(q) => Two(t))
        /\ \A d \in Cmd : Loose(t, d) => Loose(q, d)
        /\ \A d \in Cmd : Loose(t, d) /\ Excused(q, d) => Excused(t, d)
        /\ ~q.subscribed => ~Loose(t, c)
    <3>1. CASE q.subscribed
      BY <2>4, <3>1
    <3>2. CASE ~q.subscribed
      <4>1. Ends(q, t, c)
        BY <2>4, <3>2
      <4>2. (Subscriber(q) => Subscriber(t)) /\ (Two(q) => Two(t))
        BY <4>1 DEF Ends, Subscriber, Two
      <4>3. /\ \A d \in Cmd : Loose(t, d) => Loose(q, d)
            /\ ~Loose(t, c)
        BY <4>1 DEF Ends, Loose, Queued
      <4>4. \A d \in Cmd : Excused(q, d) => Excused(t, d)
        BY <4>1, <4>2 DEF Ends, Excused
      <4> QED
        BY <4>2, <4>3, <4>4
    <3> QED
      BY <3>1, <3>2
  <2>6. CASE \E d \in Cmd, on \in Names : Subscribes(m, q, d, on)
    <3>1. PICK d \in Cmd, on \in Names : Subscribes(m, q, d, on)
      BY <2>6
    <3>2. Excusable(q) /\ (Subscriber(m) => Two(q)) /\ Subscriber(q) /\ (Two(m) => Two(q))
      <4>1. m.sent[d] = "unused" /\ q.sent[d] = "subscribe" /\ \A e \in Cmd : e # d => q.sent[e] = m.sent[e]
        BY <3>1 DEF Subscribes, Issues
      <4>2. Subscriber(q) /\ (Two(m) => Two(q))
        BY <4>1 DEF Subscriber, Two
      <4> QED
        BY <2>2, <3>1, <4>2, SubscribeExcusable
    <3> QED
      BY <2>1, <2>3, <2>5, <3>2 DEF Excusable
  <2>7. CASE q = m \/ \E d \in Cmd : Sends(m, q, d)
    <3>1. /\ \A e \in Cmd : Loose(q, e) => Loose(m, e)
          /\ \A e \in Cmd : Loose(q, e) /\ Excused(m, e) => Excused(q, e)
          /\ (Subscriber(m) => Subscriber(q)) /\ (Two(m) => Two(q))
          /\ q.subscribed = m.subscribed
      <4>1. CASE q = m
        BY <4>1
      <4>2. CASE \E d \in Cmd : Sends(m, q, d)
        <5>1. PICK d \in Cmd : Sends(m, q, d)
          BY <4>2
        <5>2. /\ \A e \in Cmd : Loose(q, e) => Loose(m, e) /\ e # d
              /\ \A e \in Cmd : e # d /\ Excused(m, e) => Excused(q, e)
          BY <2>2, <5>1, AnotherExcusable
        <5>3. (Subscriber(m) => Subscriber(q)) /\ (Two(m) => Two(q)) /\ q.subscribed = m.subscribed
          <6>1. /\ m.sent[d] = "unused" /\ \A e \in Cmd : e # d => q.sent[e] = m.sent[e]
                /\ q.subscribed = m.subscribed
            BY <5>1 DEF Sends, Issues
          <6> QED
            BY <6>1 DEF Subscriber, Two
        <5> QED
          BY <5>2, <5>3
      <4> QED
        BY <2>7, <4>1, <4>2
    <3>2. ASSUME NEW e \in Cmd, Loose(t, e) PROVE Excused(t, e)
      <4>1. Loose(q, e) /\ Loose(m, e) /\ (e = c => m.subscribed)
        BY <2>5, <3>1, <3>2
      <4> QED
        BY <2>5, <3>1, <3>2, <4>1
    <3> QED
      BY <2>1, <2>3, <2>5, <3>1, <3>2 DEF Excusable
  <2> QED
    BY <2>2, <2>6, <2>7
<1> QED
  BY <1>1, <1>2

Accounted ==
  /\ Subscriptions(Now, incoming, subs) /\ Excusable(Now)
  /\ "subscribe" \in overlap => Two(Now)

(* A command that the program sends.                                       *)
LEMMA AccountedSent ==
  ASSUME Base, Accounted, crashed = "no", NEW c \in Cmd,
         \/ \E on \in Names : Subscribe(c, on) \/ Unsubscribe(c, on)
         \/ UnsubscribeRefused(c) \/ Other(c)
  PROVE  Accounted'
<1>1. Now \in Client /\ Standing(Now, incoming)
  BY BaseFacts
<1>2. Now' \in Client /\ UNCHANGED <<incoming, subs, overlap>>
  BY SentMoves DEF Moves, Subscribe, Unsubscribe, UnsubscribeRefused, Other
<1>3. CASE \E on \in Names : Subscribe(c, on)
  <2>1. PICK on \in Names : Subscribe(c, on)
    BY <1>3
  <2>2. Subscribes(Now, Now', c, on)
    BY <2>1, SentMoves
  <2>3. Subscriptions(Now', incoming, subs)
    BY <1>1, <1>2, <2>2, SubscribeOne DEF Accounted, Standing
  <2>4. Excusable(Now') /\ (Two(Now) => Two(Now'))
    <3>1. Two(Now) => Subscriber(Now)
      BY DEF Two, Subscriber
    <3> QED
      BY <1>1, <1>2, <2>2, <3>1, SubscribeExcusable
  <2> QED
    BY <1>2, <2>3, <2>4 DEF Accounted
<1>4. CASE (\E on \in Names : Unsubscribe(c, on)) \/ UnsubscribeRefused(c) \/ Other(c)
  <2>1. \/ Sends(Now, Now', c)
        \/ \E on \in Names : Unsubscribes(Now, Now', c, on) /\ Subscriber(Now)
        \/ Refuses(Now, Now', c)
    BY <1>1, <1>4, SentMoves, NowFields DEF Standing
  <2>2. Subscriptions(Now', incoming, subs)
    BY <1>1, <1>2, <2>1, AnotherOne DEF Accounted
  <2>3. /\ \A d \in Cmd : Loose(Now', d) => Loose(Now, d) /\ d # c
        /\ \A d \in Cmd : d # c /\ Excused(Now, d) => Excused(Now', d)
    BY <1>1, <1>2, <2>1, AnotherExcusable
  <2>4. Excusable(Now')
    BY <2>3 DEF Accounted, Excusable
  <2>5. Two(Now) => Two(Now')
    <3>1. Now.sent[c] = "unused" /\ \A d \in Cmd : d # c => Now'.sent[d] = Now.sent[d]
      BY <2>1 DEF Sends, Unsubscribes, Refuses, Issues
    <3> QED
      BY <3>1 DEF Two
  <2> QED
    BY <1>2, <2>2, <2>4, <2>5 DEF Accounted
<1> QED
  BY <1>3, <1>4

(* The node's answer or message.                                           *)
LEMMA AccountedNode ==
  ASSUME Base, Accounted, crashed = "no", Serve \/ \E ch \in Channel : Publish(ch)
  PROVE  Accounted'
<1>1. /\ Now \in Client /\ incoming \in Seq(Reply) /\ Standing(Now, incoming) /\ subs \subseteq Channel
      /\ "subscribe" \notin overlap => Orderly(Now, incoming, subs)
  BY BaseFacts
<1>2. /\ UNCHANGED <<sent, obj, replies, channels, invalid, overlap>>
  BY DEF Serve, Publish, clientVars
<1>3. /\ Excusable(Now') /\ (Two(Now) => Two(Now'))
  BY <1>2, NowFields, NowFieldsNext DEF Accounted, Excusable, Loose, Excused, Queued, Two, Subscriber
<1>4. CASE Serve
  <2>1. /\ Serves(Now, Now', incoming, incoming') /\ Now' \in Client /\ subs' \subseteq Channel
        /\ subs' = SubsAfter(Now.wire[1], Len(Now.wire[1].on))
    BY <1>4, ServeMoves DEF Moves
  <2>2. Two(Now) \/ Joined(Now, incoming, subs)
    BY <1>1 DEF Orderly, Accounted
  <2>3. Now.wire[1].what = "other" => subs' = subs
    <3> SUFFICES ASSUME Now.wire[1].what = "other" PROVE subs' = subs
      OBVIOUS
    <3>1. 1 \in DOMAIN Now.wire
      BY <2>1 DEF Serves, Shrunk
    <3>2. Now.wire[1].on = <<>>
      BY <1>1, <3>1 DEF Standing, Requests
    <3>3. Len(Now.wire[1].on) = 0
      BY <3>2
    <3> QED
      BY <2>1, <3>3 DEF SubsAfter
  <2>4. Subscriptions(Now', incoming', subs')
    <3>1. Requests(Now) /\ Subscriptions(Now, incoming, subs)
      BY <1>1 DEF Standing, Accounted
    <3> QED
      BY <1>1, <2>1, <2>2, <2>3, <3>1, ServeOne
  <2> QED
    BY <1>2, <1>3, <2>4 DEF Accounted
<1>5. CASE \E ch \in Channel : Publish(ch)
  <2>1. PICK ch \in Channel : Publish(ch)
    BY <1>5
  <2>2. Now' = Now /\ subs' = subs /\ \E v : Grown(incoming, incoming', v) /\ v.what = "message"
    BY <2>1, PublishMoves
  <2>3. Subscriptions(Now, incoming', subs)
    BY <2>2, PublishOne DEF Accounted
  <2> QED
    BY <1>2, <1>3, <2>2, <2>3 DEF Accounted
<1> QED
  BY <1>4, <1>5

(* A callback of a queue: its command is deleted, or somebody subscribes.  *)
LEMMA AccountedReply ==
  ASSUME Base, Accounted, crashed = "no", NEW t \in Client, NEW c \in Cmd, Received, Called(t, c),
         TakesReply(Now, t) \/ TakesInvalid(Now, t), Now.sent[c] = "other",
         \A d : Queued(t, d) <=> Queued(Now, d) /\ d # c, UNCHANGED <<subs, overlap>>
  PROVE  Accounted'
<1>1. /\ Now \in Client /\ incoming \in Seq(Reply) /\ Standing(Now, incoming) /\ subs \subseteq Channel
  BY BaseFacts
<1>2. /\ t.sent = sent /\ t.sent = Now.sent /\ t.obj = Now.obj /\ t.wire = Now.wire
      /\ t.channels = Now.channels /\ t.subscribed = Now.subscribed
  BY NowFields DEF TakesReply, TakesInvalid
<1>3. Shrunk(incoming, incoming')
  BY DEF Received
<1>4. Subscriptions(t, incoming', subs)
  BY <1>1, <1>2, <1>3, TakenOne DEF Accounted, Standing
<1>5. Requests(t)
  BY <1>1, <1>2 DEF Standing, Requests, Used
<1>6. Subscriptions(Now', incoming', subs)
  BY <1>2, <1>4, <1>5, CallOne
<1>7. (Two(Now) => Two(t)) /\ (Subscriber(Now) => Subscriber(t))
  BY <1>2 DEF Two, Subscriber
<1>8. \A d \in Cmd : d # c /\ Loose(t, d) => Excused(t, d)
  <2>1. \A d \in Cmd : d # c /\ Loose(t, d) => Loose(Now, d)
    BY <1>2 DEF Loose
  <2> QED
    BY <1>2, <1>7, <2>1 DEF Accounted, Excusable, Excused
<1>9. t.subscribed /\ Loose(t, c) => Excused(t, c)
  BY <1>1, <1>2, <1>7 DEF Standing, Excused
<1>10. Excusable(Now') /\ (Two(t) => Two(Now'))
  BY <1>2, <1>8, <1>9, CallExcusable
<1> QED
  BY <1>6, <1>7, <1>10 DEF Accounted

(* A reply of one of the queues.                                           *)
LEMMA AccountedQueues ==
  ASSUME Base, Accounted, crashed = "no", ReceiveReply \/ ReceiveInvalid
  PROVE  Accounted'
<1>1. /\ Now \in Client /\ incoming \in Seq(Reply) /\ Standing(Now, incoming) /\ subs \subseteq Channel
  BY BaseFacts
<1>2. CASE ReceiveReply
  <2>1. /\ Received /\ replies[1] \in Cmd /\ 1 \in DOMAIN replies /\ UNCHANGED <<subs, overlap>>
    BY <1>2, ReplyMoves
  <2>2. PICK t \in Client : TakesReply(Now, t) /\ Called(t, replies[1])
    BY <1>2, ReplyMoves
  <2>3. Dequeues(Now, t, replies[1])
    BY <1>1, <2>2, QueueShrinks, NowFields DEF Standing
  <2>4. Now.sent[replies[1]] = "other"
    BY <1>1, <2>1, NowFields DEF Standing, Kinds
  <2> QED
    BY <2>1, <2>2, <2>3, <2>4, AccountedReply DEF Dequeues
<1>3. CASE ReceiveInvalid
  <2>1. /\ Received /\ replies = <<>> /\ UNCHANGED <<subs, overlap>>
        /\ \/ Now' = Now
           \/ /\ invalid[1] \in Cmd /\ 1 \in DOMAIN invalid
              /\ \E t \in Client : TakesInvalid(Now, t) /\ Called(t, invalid[1])
    BY <1>3, InvalidMoves
  <2>2. CASE Now' = Now
    <3>1. Subscriptions(Now, incoming', subs)
      BY <1>1, <2>1, TakenOne DEF Accounted, Standing, Received
    <3> QED
      BY <2>1, <2>2, <3>1 DEF Accounted
  <2>3. CASE /\ invalid[1] \in Cmd /\ 1 \in DOMAIN invalid
             /\ \E t \in Client : TakesInvalid(Now, t) /\ Called(t, invalid[1])
    <3>1. PICK t \in Client : TakesInvalid(Now, t) /\ Called(t, invalid[1])
      BY <2>3
    <3>2. Dequeues(Now, t, invalid[1])
      BY <1>1, <2>1, <3>1, QueueShrinks, NowFields DEF Standing
    <3>3. Now.sent[invalid[1]] = "other"
      BY <1>1, <2>3, NowFields DEF Standing, Kinds
    <3> QED
      BY <2>1, <2>3, <3>1, <3>2, <3>3, AccountedReply DEF Dequeues
  <2> QED
    BY <2>1, <2>2, <2>3
<1> QED
  BY <1>2, <1>3

(* A callback of a channel.  While there is one subscriber, it is deleted  *)
(* with its last channel.                                                  *)
LEMMA AccountedChannel ==
  ASSUME Base, Accounted, crashed = "no", ReceiveChannel
  PROVE  Accounted'
<1>1. /\ Now \in Client /\ incoming \in Seq(Reply) /\ Standing(Now, incoming) /\ subs \subseteq Channel
      /\ Requests(Now) /\ LeftOnce(Now, incoming)
  BY BaseFacts DEF Standing
<1>2. /\ Received /\ incoming[1].what \in {"subscribe", "unsubscribe", "message"}
      /\ incoming[1].on \in Channel /\ incoming[1].left \in Nat /\ subs' = subs
      /\ overlap' = overlap \cup {what \in {"subscribe", "other"} :
                                    LastOf(incoming[1]) /\ UnderWay(what)}
  BY ChannelMoves
<1>3. Shrunk(incoming, incoming') /\ 1 \in DOMAIN incoming
  BY <1>2 DEF Received
<1>4. "subscribe" \in overlap' => Two(Now)
  <2> SUFFICES ASSUME LastOf(incoming[1]), UnderWay("subscribe"), OneOnly(Now, incoming, subs)
               PROVE  FALSE
    BY <1>2 DEF Accounted, Subscriptions
  <2>1. Telling(incoming) /\ incoming[1].what = "unsubscribe"
    BY <1>3 DEF Telling, LastOf
  <2>2. ~Asked(Now)
    BY <2>1 DEF OneOnly
  <2>3. PICK i \in DOMAIN incoming : incoming[i].what = "subscribe"
    BY <2>2, NowFields DEF UnderWay, Asked
  <2>4. i # 1 /\ i \in 1..Len(incoming)
    BY <1>1, <2>1, <2>3
  <2>5. 1 < i
    BY <1>1, <2>4
  <2> QED
    BY <1>3, <2>1, <2>3, <2>5 DEF OneOnly
<1>5. CASE Now' = Now
  <2>1. Subscriptions(Now, incoming', subs)
    BY <1>1, <1>3, TakenOne DEF Accounted
  <2> QED
    BY <1>2, <1>4, <1>5, <2>1 DEF Accounted
<1>6. ASSUME NEW c \in Cmd, c = channels[incoming[1].on], sent[c] = "subscribe",
             NEW t \in Client, Called(t, c),
             \/ t = Now
             \/ /\ incoming[1].what = "unsubscribe"
                /\ Leaves(Now, t, incoming[1].on, LastOf(incoming[1]))
      PROVE  Accounted'
  <2>1. /\ t.sent = sent /\ t.sent = Now.sent /\ t.obj = Now.obj /\ t.wire = Now.wire
        /\ t.replies = Now.replies /\ t.invalid = Now.invalid
        /\ \A d \in Channel : d # incoming[1].on => t.channels[d] = Now.channels[d]
        /\ Now.channels[incoming[1].on] = c
    BY <1>6, NowFields DEF Leaves
  <2>2. (Two(Now) => Two(t)) /\ (Subscriber(Now) => Subscriber(t))
    BY <2>1 DEF Two, Subscriber
  <2>3. Subscriptions(t, incoming', subs)
    <3>1. CASE t = Now
      BY <1>1, <1>3, <3>1, TakenOne DEF Accounted
    <3>2. CASE incoming[1].what = "unsubscribe"
      <4>1. Tells(incoming[1], "unsubscribe", incoming[1].on)
        BY <3>2 DEF Tells
      <4> QED
        BY <1>1, <1>2, <1>3, <2>1, <4>1, TakenOne DEF Accounted
    <3> QED
      BY <1>6, <3>1, <3>2
  <2>4. Requests(t)
    BY <1>1, <2>1 DEF Requests, Used
  <2>5. Subscriptions(Now', incoming', subs)
    BY <1>6, <2>1, <2>3, <2>4, CallOne
  <2>6. \A d \in Cmd : d # c /\ Loose(t, d) => Excused(t, d)
    <3>1. \A d \in Cmd : d # c /\ Loose(t, d) => Loose(Now, d)
      BY <2>1 DEF Loose, Queued
    <3> QED
      BY <2>1, <2>2, <3>1 DEF Accounted, Excusable, Excused
  <2>7. t.subscribed /\ Loose(t, c) => Excused(t, c)
    <3>1. CASE t = Now
      BY <1>2, <2>1, <3>1 DEF Loose
    <3>2. CASE /\ incoming[1].what = "unsubscribe"
               /\ Leaves(Now, t, incoming[1].on, LastOf(incoming[1]))
      <4> SUFFICES ASSUME t.subscribed, Loose(t, c), ~Two(Now) PROVE FALSE
        BY <1>6, <2>1, <2>2 DEF Excused
      <4>1. incoming[1].left # 0
        BY <3>2 DEF Leaves, LastOf
      <4>2. OneOnly(Now, incoming, subs)
        BY DEF Accounted, Subscriptions
      <4>3. PICK ch \in Channel : ch # incoming[1].on /\ Now.channels[ch] # None
        BY <1>3, <3>2, <4>1, <4>2 DEF OneOnly, Stayed
      <4>4. t.channels[ch] = Now.channels[ch] /\ Now.channels[ch] \in Cmd
            /\ Now.sent[Now.channels[ch]] = "subscribe"
        BY <1>1, <2>1, <4>3 DEF Client, Standing, Kinds
      <4>5. Now.channels[ch] = c
        BY <1>6, <2>1, <4>4 DEF Two
      <4> QED
        BY <4>4, <4>5 DEF Loose
    <3> QED
      BY <1>6, <3>1, <3>2
  <2>8. Excusable(Now') /\ (Two(t) => Two(Now'))
    <3>1. t.sent[c] # "unused"
      BY <1>6, <2>1
    <3> QED
      BY <1>6, <2>1, <2>6, <2>7, <3>1, CallExcusable
  <2> QED
    BY <1>2, <1>4, <2>2, <2>5, <2>8 DEF Accounted
<1>7. \/ Now' = Now
      \/ \E c \in Cmd, t \in Client :
           /\ c = channels[incoming[1].on] /\ sent[c] = "subscribe" /\ Called(t, c)
           /\ \/ t = Now
              \/ /\ incoming[1].what = "unsubscribe"
                 /\ Leaves(Now, t, incoming[1].on, LastOf(incoming[1]))
  BY <1>1, ChannelMoves
<1> QED
  BY <1>5, <1>6, <1>7

(* At first there is no object.                                            *)
LEMMA AccountedInit == Init => Accounted
<1> SUFFICES ASSUME Init PROVE Accounted
  OBVIOUS
<1>1. \A v : v = <<>> => DOMAIN v = {}
  OBVIOUS
<1>2. /\ DOMAIN Now.wire = {} /\ DOMAIN incoming = {} /\ subs = {} /\ overlap = {}
      /\ \A c \in Cmd : Now.obj[c] = "none"
  BY <1>1, NowFields DEF Init
<1>3. Subscriptions(Now, incoming, subs)
  BY <1>2 DEF Subscriptions, Someone, OneOnly, Telling, Asked
<1>4. Excusable(Now)
  BY <1>2 DEF Excusable, Loose
<1> QED
  BY <1>2, <1>3, <1>4 DEF Accounted

(* Each action keeps Accounted.                                            *)
LEMMA AccountedStep == Base /\ Accounted /\ [Next]_vars => Accounted'
<1> SUFFICES ASSUME Base, Accounted, [Next]_vars PROVE Accounted'
  OBVIOUS
<1>1. ASSUME UNCHANGED <<clientVars, nodeVars, overlap>> PROVE Accounted'
  <2>1. Now' = Now /\ UNCHANGED <<overlap, incoming, subs>>
    BY <1>1 DEF clientVars, nodeVars, Now
  <2> QED
    BY <2>1 DEF Accounted
<1>2. CASE Next
  <2>1. crashed = "no"
    BY <1>2 DEF Next
  <2>2. ASSUME TearDown \/ ReceiveUnexpected PROVE Accounted'
    BY <1>1, <2>2 DEF TearDown, ReceiveUnexpected
  <2> QED
    BY <1>2, <2>1, <2>2, AccountedSent, AccountedNode, AccountedQueues, AccountedChannel DEF Next
<1> QED
  BY <1>1, <1>2 DEF vars

(* An object that is not deleted and that nobody will call any more is     *)
(* that of an UNSUBSCRIBE, or another command has subscribed.              *)
THEOREM Leaks == Spec => []LeakCause
<1>1. Base /\ Accounted => LeakCause
  <2> SUFFICES ASSUME Base, Accounted, NEW c \in Cmd, obj[c] = "live", c \notin Waiting,
                      sent[c] # "unsubscribe"
               PROVE  \E d \in Cmd : d # c /\ sent[d] = "subscribe"
    BY DEF LeakCause
  <2>1. Now \in Client /\ Fresh(Now)
    BY BaseFacts DEF Standing
  <2>2. sent[c] \in {"subscribe", "other"}
    BY <2>1, NowFields DEF Client, What, Fresh
  <2>3. Loose(Now, c)
    BY <2>2, SubscriptionAssumption, NowFields DEF Loose, Queued, Waiting
  <2>4. Excused(Now, c)
    BY <2>3 DEF Accounted, Excusable
  <2> QED
    BY <2>2, <2>4, NowFields DEF Excused, Two, Subscriber
<1> QED
  BY <1>1, Invariance, AccountedInit, AccountedStep, PTL DEF Spec
=============================================================================
