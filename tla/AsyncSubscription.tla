------------------------- MODULE AsyncSubscription --------------------------
(***************************************************************************)
(* SUBSCRIBE and UNSUBSCRIBE, and other commands, sent through             *)
(* AsyncHiredisCommand on one connection that is neither redirected nor    *)
(* disconnected by the program.  What ends the life of a command object is *)
(* the flag REDIS_SUBSCRIBED of the connection at the time of a callback.  *)
(*                                                                         *)
(* External: hiredis, which keeps a callback per channel besides the queue *)
(* of replies, and the node.                                               *)
(***************************************************************************)
EXTENDS Naturals, Sequences, FiniteSets

CONSTANTS
  Cmd,           \* the command objects of the program
  Channel,       \* the channels
  None,          \* no callback
  MaxMessages    \* bound: messages published

ASSUME SubscriptionAssumption ==
  /\ None \notin Cmd /\ MaxMessages \in Nat
  /\ IsFiniteSet(Cmd) /\ IsFiniteSet(Channel)

VARIABLES
  sent,          \* what a command object was made for
  obj,           \* its life
  heard,         \* how often its redisCallback_ was called
  replies,       \* callbacks of hiredis for replies in order
  channels,      \* and for messages, per channel
  invalid,       \* and for commands sent while subscribed
  subscribed,    \* REDIS_SUBSCRIBED
  wire,          \* requests on their way to the node
  incoming,      \* replies and messages on their way back
  subs,          \* the channels the node has this connection subscribed to
  messages,      \* messages so far
  overlap,       \* commands under way when the flag went, by kind
  mismatch,      \* commands whose callback was given what was not theirs
  crashed        \* why the process has died

clientVars == <<sent, obj, heard, replies, channels, invalid, subscribed>>
nodeVars == <<wire, incoming, subs, messages>>
vars == <<clientVars, nodeVars, overlap, mismatch, crashed>>

What == {"subscribe", "unsubscribe", "other"}
Request == [by : Cmd, what : What, on : Seq(Channel)]
(* A reply to a channel command has the number of channels left.           *)
Reply == [what : {"subscribe", "unsubscribe", "message"}, on : Channel, left : Nat]
           \cup [what : {"data", "error"}, by : Cmd]

TypeOK ==
  /\ sent \in [Cmd -> What \cup {"unused"}]
  /\ obj \in [Cmd -> {"none", "live", "deleted"}]
  /\ heard \in [Cmd -> Nat]
  /\ replies \in Seq(Cmd) /\ invalid \in Seq(Cmd)
  /\ channels \in [Channel -> Cmd \cup {None}]
  /\ subscribed \in BOOLEAN
  /\ overlap \subseteq {"subscribe", "other"}
  /\ wire \in Seq(Request) /\ Len(wire) <= Cardinality(Cmd)
  /\ incoming \in Seq(Reply)
  /\ subs \subseteq Channel
  /\ messages \in 0..MaxMessages
  /\ mismatch \subseteq Cmd
  /\ crashed \in {"no", "closed", "nullReply", "assert", "useAfterFree"}

Init ==
  /\ sent = [c \in Cmd |-> "unused"]
  /\ obj = [c \in Cmd |-> "none"]
  /\ heard = [c \in Cmd |-> 0]
  /\ replies = <<>> /\ invalid = <<>>
  /\ channels = [ch \in Channel |-> None]
  /\ subscribed = FALSE
  /\ overlap = {}
  /\ wire = <<>> /\ incoming = <<>>
  /\ subs = {}
  /\ messages = 0
  /\ mismatch = {}
  /\ crashed = "no"

-----------------------------------------------------------------------------
(* Command(): the object is made, and process() gives it to hiredis, which *)
(* is a change of this record.                                             *)
Now == [sent |-> sent, obj |-> obj, replies |-> replies, channels |-> channels,
        invalid |-> invalid, subscribed |-> subscribed, wire |-> wire]

Becomes(r) ==
  /\ sent' = r.sent /\ obj' = r.obj
  /\ replies' = r.replies /\ channels' = r.channels /\ invalid' = r.invalid
  /\ subscribed' = r.subscribed
  /\ wire' = r.wire

(* Mutant: the command is given to hiredis twice.                          *)
IssuedTwice(r, c, what, on) ==
  LET q == [by |-> c, what |-> what, on |-> on] IN
  [r EXCEPT !.sent[c] = what, !.obj[c] = "live", !.wire = @ \o <<q, q>>]

Issued(r, c, what, on) ==
  [r EXCEPT !.sent[c] = what, !.obj[c] = "live",
            !.wire = Append(@, [by |-> c, what |-> what, on |-> on])]

Named(on) == {on[i] : i \in DOMAIN on}

(* The callback of a channel replaces the one before.                      *)
SubscribeTo(r, c, on) ==
  [Issued(r, c, "subscribe", on) EXCEPT
     !.subscribed = TRUE,
     !.channels = [ch \in Channel |-> IF ch \in Named(on) THEN c ELSE @[ch]]]

(* A command of another kind waits for its reply in a queue of its own     *)
(* while the flag is set.                                                  *)
OtherOn(r, c) ==
  LET s == Issued(r, c, "other", <<>>) IN
  IF r.subscribed THEN [s EXCEPT !.invalid = Append(@, c)]
  ELSE [s EXCEPT !.replies = Append(@, c)]

Unused(c) == sent[c] = "unused"

(* One or two channels, named once.                                        *)
Names == {<<ch>> : ch \in Channel}
           \cup {on \in Channel \X Channel : on[1] # on[2]}

Subscribe(c, on) ==
  /\ Unused(c)
  /\ Becomes(SubscribeTo(Now, c, on))
  /\ UNCHANGED <<heard, incoming, subs, messages, overlap, mismatch, crashed>>

Other(c) ==
  /\ Unused(c)
  /\ Becomes(OtherOn(Now, c))
  /\ UNCHANGED <<heard, incoming, subs, messages, overlap, mismatch, crashed>>

(* A SUBSCRIBE, or a command in the queue of invalid ones, has no answer.  *)
UnderWay(what) ==
  IF what = "other" THEN invalid # <<>>
  ELSE \/ \E i \in DOMAIN wire : wire[i].what = what
       \/ \E i \in DOMAIN incoming : incoming[i].what = what

(* UNSUBSCRIBE has no callback of its own: its object is given to nobody.  *)
(* The program unsubscribes once from what it has subscribed to.           *)
Leaving(ch) ==
  \/ \E i \in DOMAIN wire : wire[i].what = "unsubscribe" /\ ch \in Named(wire[i].on)
  \/ \E i \in DOMAIN incoming : incoming[i].what = "unsubscribe" /\ incoming[i].on = ch

Unsubscribe(c, on) ==
  /\ Unused(c) /\ subscribed
  /\ \A ch \in Named(on) : channels[ch] # None /\ ~Leaving(ch)
  /\ Becomes(Issued(Now, c, "unsubscribe", on))
  /\ UNCHANGED <<heard, incoming, subs, messages, overlap, mismatch, crashed>>

(* hiredis refuses it when nothing is subscribed: the object is deleted    *)
(* and Command() throws.                                                   *)
UnsubscribeRefused(c) ==
  /\ Unused(c) /\ ~subscribed
  /\ Becomes([Now EXCEPT !.sent[c] = "unsubscribe", !.obj[c] = "deleted"])
  /\ UNCHANGED <<heard, incoming, subs, messages, overlap, mismatch, crashed>>

-----------------------------------------------------------------------------
(* The node.                                                               *)

(* The channels subscribed to after the first n of a request.              *)
SubsAfter(r, n) ==
  LET named == {r.on[i] : i \in 1..n} IN
  IF r.what = "subscribe" THEN subs \cup named ELSE subs \ named

(* A channel command has a reply for every channel it names; another one   *)
(* has an error while the connection is subscribed.                        *)
Served(r) ==
  IF r.what = "other"
  THEN <<[what |-> IF subs = {} THEN "data" ELSE "error", by |-> r.by]>>
  ELSE [i \in DOMAIN r.on |-> [what |-> r.what, on |-> r.on[i],
                                left |-> Cardinality(SubsAfter(r, i))]]

Serve ==
  /\ wire # <<>>
  /\ subs' = SubsAfter(Head(wire), Len(Head(wire).on))
  /\ incoming' = incoming \o Served(Head(wire))
  /\ wire' = Tail(wire)
  /\ UNCHANGED <<clientVars, messages, overlap, mismatch, crashed>>

Publish(ch) ==
  /\ ch \in subs
  /\ messages < MaxMessages
  /\ messages' = messages + 1
  /\ incoming' = Append(incoming, [what |-> "message", on |-> ch, left |-> 0])
  /\ UNCHANGED <<clientVars, wire, subs, overlap, mismatch, crashed>>

-----------------------------------------------------------------------------
(* processCommandReply.                                                    *)

(* Mutants: the object is deleted after every callback; after none.        *)
DeletedAlways(r, c) == [r EXCEPT !.obj[c] = "deleted"]
DeletedNever(r, c) == r

(* The flag is looked at after the callback of the program.                *)
Deleted(r, c) == IF r.subscribed THEN r ELSE [r EXCEPT !.obj[c] = "deleted"]

(* The callback of the program may send a command of its own.              *)
Inside(r) ==
  {r} \cup {SubscribeTo(r, d, on) : d \in {c \in Cmd : Unused(c)}, on \in Names}
      \cup {OtherOn(r, d) : d \in {c \in Cmd : Unused(c)}}

Call(r, c) ==
  IF r.obj[c] # "live"
  THEN crashed' = "useAfterFree" /\ Becomes(r) /\ UNCHANGED heard
  ELSE /\ \E s \in Inside(r) : Becomes(Deleted(s, c))
       /\ heard' = [heard EXCEPT ![c] = @ + 1]
       /\ UNCHANGED crashed

Mine(p, c) == p.what \in {"data", "error"} /\ p.by = c

(* A callback of the queue of replies takes whatever comes first.          *)
ReceiveReply ==
  /\ incoming # <<>> /\ replies # <<>>
  /\ Call([Now EXCEPT !.replies = Tail(@)], Head(replies))
  /\ mismatch' = IF Mine(Head(incoming), Head(replies)) THEN mismatch
                 ELSE mismatch \cup {Head(replies)}
  /\ incoming' = Tail(incoming)
  /\ UNCHANGED <<subs, messages, overlap>>

(* The callback of a channel that was left is dropped.                     *)
Left(r, ch, last) == [r EXCEPT !.channels[ch] = None, !.subscribed = ~last]

(* Without one, the flag must be set.  The flag goes with the last         *)
(* channel, before the callback of that channel is called.                 *)
ReceiveChannel ==
  /\ incoming # <<>> /\ replies = <<>> /\ subscribed
  /\ LET p == Head(incoming) IN
     /\ p.what \in {"subscribe", "unsubscribe", "message"}
     /\ LET last == p.what = "unsubscribe" /\ p.left = 0
            r == IF p.what = "unsubscribe" THEN Left(Now, p.on, last) ELSE Now
        IN /\ overlap' = overlap \cup
                {what \in {"subscribe", "other"} : last /\ UnderWay(what)}
           /\ IF channels[p.on] = None
              THEN Becomes(Now) /\ UNCHANGED <<heard, crashed>>
              ELSE Call(r, channels[p.on])
  /\ incoming' = Tail(incoming)
  /\ UNCHANGED <<subs, messages, mismatch>>

ReceiveInvalid ==
  /\ incoming # <<>> /\ replies = <<>> /\ subscribed
  /\ Head(incoming).what = "data"
  /\ IF invalid = <<>> THEN Becomes(Now) /\ UNCHANGED <<heard, mismatch, crashed>>
     ELSE /\ Call([Now EXCEPT !.invalid = Tail(@)], Head(invalid))
          /\ mismatch' = IF Mine(Head(incoming), Head(invalid)) THEN mismatch
                         ELSE mismatch \cup {Head(invalid)}
  /\ incoming' = Tail(incoming)
  /\ UNCHANGED <<subs, messages, overlap>>

ReceiveUnexpected ==
  /\ incoming # <<>> /\ replies = <<>> /\ ~subscribed
  /\ Head(incoming).what # "error"
  /\ crashed' = "assert"
  /\ UNCHANGED <<clientVars, nodeVars, overlap, mismatch>>

(* The connection is lost, or hiredis closes it for an error nobody in the *)
(* queue of replies waits for: every callback is called with NULL, which   *)
(* checkCritical reads.                                                    *)
Waiting == ({replies[i] : i \in DOMAIN replies} \cup {invalid[i] : i \in DOMAIN invalid}
              \cup {channels[ch] : ch \in Channel}) \ {None}

TearDown ==
  /\ crashed' = IF Waiting = {} THEN "closed" ELSE "nullReply"
  /\ UNCHANGED <<clientVars, nodeVars, overlap, mismatch>>

Next ==
  /\ crashed = "no"
  /\ \/ \E c \in Cmd :
          \/ \E on \in Names : Subscribe(c, on) \/ Unsubscribe(c, on)
          \/ UnsubscribeRefused(c)
          \/ Other(c)
     \/ Serve \/ \E ch \in Channel : Publish(ch)
     \/ ReceiveReply \/ ReceiveChannel \/ ReceiveInvalid \/ ReceiveUnexpected
     \/ TearDown

Spec == Init /\ [][Next]_vars

-----------------------------------------------------------------------------
(* Properties.                                                             *)

(* hiredis keeps the callback of a deleted object, or calls it, only when  *)
(* the last UNSUBSCRIBE of the connection was answered while another       *)
(* SUBSCRIBE was under way; nothing else mixes up the flag and the lives   *)
(* of subscriptions, other commands and their replies.                     *)
DanglingCause ==
  (\E c \in Waiting : obj[c] = "deleted") \/ crashed = "useAfterFree"
    => "subscribe" \in overlap

(* An object that nobody will call any more is deleted, except that of an  *)
(* UNSUBSCRIBE, one whose channels were subscribed to again by another     *)
(* command, and one whose last callback came while the flag was set.       *)
LeakCause ==
  \A c \in Cmd :
    obj[c] = "live" /\ c \notin Waiting /\ sent[c] # "unsubscribe" =>
      \E d \in Cmd : d # c /\ sent[d] = "subscribe"

(* The program's callback of a command that is no subscription is called   *)
(* at most once, and with its own reply unless the flag went while a       *)
(* SUBSCRIBE, or a command sent under the flag, was under way; only then   *)
(* does hiredis find a reply it has no callback for.                       *)
OwnReply ==
  /\ \A c \in Cmd : sent[c] = "other" => heard[c] <= 1
  /\ mismatch # {} \/ crashed = "assert" => overlap # {}
=============================================================================
