-------------------------- MODULE BlockingCommand ---------------------------
(***************************************************************************)
(* HiredisCommand::process() (hirediscommand.h) over the DefaultContainer  *)
(* of one thread: a program that sends commands for keys of one slot, one  *)
(* after the other.  The subject is what SyncCommand abstracts from: the   *)
(* memory of every reply, the text of redirections, the exception that     *)
(* ends a command and the connections the container keeps.                 *)
(*                                                                         *)
(* External: the nodes, which answer a command with some text or lose the  *)
(* connection; hiredis; and the callback the program gave to setMovedCb.   *)
(***************************************************************************)
EXTENDS Redirection

CONSTANTS
  Address,      \* the host and port texts a node may redirect to
  ErrorText,    \* the other error texts a node or a script may answer
  MaxCommands   \* bound: commands the program sends

(* A node announces a port that is a number, and no text is as long as the *)
(* greatest size_t, npos.                                                  *)
ASSUME AddressAssumption ==
  /\ Address \subseteq [host : Seq(STRING), port : Seq(STRING)]
  /\ \A a \in Address : /\ Len(a.port) = 1 /\ stoi(a.port) = "ok"
                         /\ Len(a.host) + 6 < npos
  /\ MaxCommands \in Nat

VARIABLES
  ready,      \* readytouse_
  pc,         \* where process() is
  leg,        \* the redirection it follows
  answered,   \* the text of its first reply
  target,     \* host and port
  mem,        \* memory of the replies of the command, in their order
  slotErr,    \* err of the connection of the slot
  cached,     \* connections_ of the container: err of each, by host and port
  moved,      \* moved_
  outcome,    \* what the last command ended in
  crashed,    \* why the process has died of undefined behaviour
  sent        \* commands so far

vars == <<ready, pc, leg, answered, target, mem, slotErr, cached, moved, outcome,
          crashed, sent>>

NoAddress == [host |-> <<>>, port |-> <<>>]
OK == <<"OK">>                   \* a reply that is no error
Redirect(kind, a) == <<kind, " ", "1", " ">> \o a.host \o <<":">> \o a.port
RedirectText == {Redirect(kind, a) : kind \in {"ASK", "MOVED"}, a \in Address}
Text == {OK} \cup RedirectText \cup ErrorText

(* The exceptions of clusterexception.h that these functions throw, by     *)
(* their base class, and the two that std::stoi throws.                    *)
Critical == {"Disconnected", "NotInitialized", "ClusterDown"}
BadState == {"NodeSearch", "LogicError"}
Argument == {"InvalidArgument"}
ClusterException == Critical \cup BadState \cup Argument
Std == {"invalid_argument", "out_of_range"}
CallbackException == "callback"

(* A reply the program is given; its memory is the program's, and AltReply *)
(* frees it.                                                               *)
Outcome == [by : {"none"}]
             \cup [by : {"reply"}, text : Text, leg : {"none", "ASK", "MOVED"}]
             \cup [by : {"garbage"}]
             \cup [by : {"throw"}, what : ClusterException \cup Std \cup {CallbackException}]

TypeOK ==
  /\ ready \in BOOLEAN /\ slotErr \in BOOLEAN /\ moved \in BOOLEAN
  /\ pc \in {"idle", "recv", "redirect", "asking", "retry"}
  /\ leg \in {"none", "ASK", "MOVED"}
  /\ answered \in Text \cup {<<>>}
  /\ mem \in Seq({"held", "freed", "freedTwice", "user", "garbage"}) /\ Len(mem) <= 3
  /\ \A k \in DOMAIN cached : cached[k] \in BOOLEAN
  /\ outcome \in Outcome
  /\ crashed \in {"no", "nullReply", "garbageReply", "nullCluster", "deletedCluster"}
  /\ sent \in 0..MaxCommands

Init ==
  /\ ready = TRUE /\ slotErr = FALSE /\ moved = FALSE
  /\ pc = "idle"
  /\ leg = "none"
  /\ answered = <<>> /\ target = NoAddress
  /\ mem = <<>>
  /\ cached = [k \in {} |-> FALSE]
  /\ outcome = [by |-> "none"]
  /\ crashed = "no"
  /\ sent = 0

-----------------------------------------------------------------------------
(* The reply of the moment is the last of mem.                             *)

Free(m) ==
  [m EXCEPT ![Len(m)] = IF @ = "held" THEN "freed" ELSE "freedTwice"]

(* Mutant: the base class does not free the reply it is given.             *)
ThrowKeepingReply(what, m, given) ==
  /\ pc' = "idle"
  /\ outcome' = [by |-> "throw", what |-> what]
  /\ mem' = m

(* An exception leaves process(); the constructor of ClusterException      *)
(* frees the reply it is given.                                            *)
Throw(what, m, given) ==
  /\ pc' = "idle"
  /\ outcome' = [by |-> "throw", what |-> what]
  /\ mem' = IF given THEN Free(m) ELSE m

Return(text, m) ==
  /\ pc' = "idle"
  /\ outcome' = [by |-> "reply", text |-> text, leg |-> leg]
  /\ mem' = [m EXCEPT ![Len(m)] = "user"]

Crash(why) ==
  /\ crashed' = why
  /\ UNCHANGED <<pc, leg, answered, target, mem, cached, moved, outcome>>

-----------------------------------------------------------------------------
(* The constructor and getConnection: no cluster, a cluster that was       *)
(* stopped, a slot nobody owns, or a connection to send on.                *)
Begin ==
  /\ pc = "idle" /\ sent < MaxCommands
  /\ sent' = sent + 1
  /\ leg' = "none" /\ answered' = <<>> /\ target' = NoAddress
  /\ \/ \E what \in {"InvalidArgument", "NodeSearch"} : Throw(what, <<>>, FALSE)
     \/ ~ready /\ Throw("NotInitialized", <<>>, FALSE)
     \/ ready /\ pc' = "recv" /\ mem' = <<>> /\ UNCHANGED outcome
  /\ UNCHANGED <<ready, slotErr, cached, moved, crashed>>

Stop ==
  /\ ready /\ pc = "idle"
  /\ ready' = FALSE
  /\ UNCHANGED <<pc, leg, answered, target, mem, slotErr, cached, moved, outcome,
                 crashed, sent>>

(* The connection of the slot is lost, or was: redisGetReply leaves reply  *)
(* as it was, and checkCritical looks at the connection first.             *)
SlotLost ==
  /\ pc = "recv"
  /\ slotErr' = TRUE
  /\ Throw("Disconnected", mem, FALSE)
  /\ UNCHANGED <<ready, leg, answered, target, cached, moved, crashed, sent>>

(* Follow a redirection: the reply is freed before the new connection.     *)
Follow(text, m) ==
  /\ pc' = "redirect"
  /\ leg' = processResult(text)
  /\ target' = parsehostport(text)
  /\ mem' = Free(m)
  /\ UNCHANGED outcome

(* The first reply: checkCritical, then a switch over processResult.       *)
SlotReply(text) ==
  /\ pc = "recv" /\ ~slotErr
  /\ answered' = text
  /\ LET m == Append(mem, "held")
         state == processResult(text)
     IN \/ /\ clusterDown(text)
           /\ Throw("ClusterDown", m, TRUE)
           /\ UNCHANGED <<leg, target>>
        \/ /\ ~clusterDown(text) /\ state \in {"ASK", "MOVED"}
           /\ Follow(text, m)
        \/ /\ ~clusterDown(text) /\ state = "READY"
           /\ Return(text, m)
           /\ UNCHANGED <<leg, target>>
        \/ /\ ~clusterDown(text) /\ state = "CLUSTERDOWN"
           /\ Throw("LogicError", m, TRUE)
           /\ UNCHANGED <<leg, target>>
  /\ UNCHANGED <<ready, slotErr, cached, moved, crashed, sent>>

-----------------------------------------------------------------------------
(* createNewConnection: the connection the container has for the address,  *)
(* which nobody tests or replaces when it is lost, or a new one, which is  *)
(* kept when it is good.                                                   *)
Connected == pc' = (IF leg = "ASK" THEN "asking" ELSE "retry")

CreateNewConnection ==
  /\ pc = "redirect"
  /\ IF target \in DOMAIN cached
     THEN /\ \/ ~cached[target] /\ Connected /\ UNCHANGED <<mem, outcome>>
             \/ cached[target] /\ Throw("LogicError", mem, FALSE)
          /\ UNCHANGED cached
     ELSE \/ /\ stoi(target.port) # "ok"
             /\ Throw(stoi(target.port), mem, FALSE)
             /\ UNCHANGED cached
          \/ /\ stoi(target.port) = "ok"
             /\ Throw("LogicError", mem, FALSE)
             /\ UNCHANGED cached
          \/ /\ stoi(target.port) = "ok"
             /\ Connected
             /\ cached' = [a \in DOMAIN cached \cup {target} |->
                             IF a = target THEN FALSE ELSE cached[a]]
             /\ UNCHANGED <<mem, outcome>>
  /\ UNCHANGED <<ready, leg, answered, target, slotErr, moved, crashed, sent>>

(* The ASKING of a redirection: redisCommand gives NULL when the           *)
(* connection is lost, which checkCritical reads.                          *)
Asking ==
  /\ pc = "asking"
  /\ \/ /\ Crash("nullReply")
     \/ /\ Throw("LogicError", Append(mem, "held"), TRUE)
        /\ UNCHANGED <<leg, answered, target, cached, moved, crashed>>
     \/ /\ pc' = "retry"
        /\ mem' = Free(Append(mem, "held"))
        /\ UNCHANGED <<leg, answered, target, cached, moved, outcome, crashed>>
  /\ UNCHANGED <<ready, slotErr, sent>>

(* Mutant: the reply to the command sent again is followed when it is a    *)
(* redirection.                                                            *)
AskReplyFollows(text) ==
  /\ pc = "retry" /\ leg = "ASK" /\ processResult(text) = "ASK"
  /\ Follow(text, Append(mem, "held"))
  /\ answered' = text
  /\ UNCHANGED <<ready, slotErr, cached, moved, crashed, sent>>

(* The command again, after ASKING.                                        *)
AskReply(text) ==
  /\ pc = "retry" /\ leg = "ASK"
  /\ LET m == Append(mem, "held") IN
     \/ clusterDown(text) /\ Throw("ClusterDown", m, TRUE)
     \/ ~clusterDown(text) /\ Return(text, m)
  /\ UNCHANGED <<ready, leg, answered, target, slotErr, cached, moved, crashed, sent>>

(* checkCritical is not given the connection and reads what redisGetReply  *)
(* left in reply.                                                          *)
AskLost ==
  /\ pc = "retry" /\ leg = "ASK"
  /\ Crash("garbageReply")
  /\ UNCHANGED <<ready, slotErr, sent>>

(* The callback of setMovedCb returns, throws ("for aborting               *)
(* redirections"), or deletes the cluster to make a new one, after which   *)
(* process() uses cluster_p_.                                              *)
MovedCb(Returned) ==
  /\ moved' = TRUE
  /\ \/ Returned /\ UNCHANGED crashed
     \/ Throw(CallbackException, Append(mem, "held"), FALSE) /\ UNCHANGED crashed
     \/ crashed' = "deletedCluster" /\ UNCHANGED <<pc, mem, outcome>>

(* The command again, at the node of a MOVED: nothing is tested.           *)
MovedReply(text) ==
  /\ pc = "retry" /\ leg = "MOVED"
  /\ MovedCb(Return(text, Append(mem, "held")))
  /\ UNCHANGED <<ready, leg, answered, target, slotErr, cached, sent>>

MovedLost ==
  /\ pc = "retry" /\ leg = "MOVED"
  /\ cached' = [cached EXCEPT ![target] = TRUE]
  /\ MovedCb(/\ pc' = "idle"
             /\ outcome' = [by |-> "garbage"]
             /\ UNCHANGED mem)
  /\ UNCHANGED <<ready, leg, answered, target, slotErr, sent>>

Next ==
  /\ crashed = "no"
  /\ \/ Begin \/ Stop \/ SlotLost
     \/ \E text \in Text : SlotReply(text) \/ AskReply(text) \/ MovedReply(text)
     \/ CreateNewConnection \/ Asking \/ AskLost \/ MovedLost

Spec == Init /\ [][Next]_vars

-----------------------------------------------------------------------------
(* Properties.                                                             *)

(* Every reply of a command is freed once or is the caller's, on every     *)
(* path through redirections and exceptions; the caller's is the last one. *)
(* A reply is left behind only by a moved callback that throws.            *)
ReplyOnce ==
  /\ \A i \in DOMAIN mem : mem[i] # "freedTwice"
  /\ pc = "idle" => \A i \in DOMAIN mem :
       /\ mem[i] = "user" <=> i = Len(mem) /\ outcome.by = "reply"
       /\ mem[i] = "held" => outcome = [by |-> "throw", what |-> CallbackException]

(* A redirection whose host has no colon is followed to the very address   *)
(* the node named.                                                         *)
PlainAddress == {a \in Address : ~Contains(a.host, ":")}
FollowsTold ==
  \A a \in PlainAddress :
    pc # "idle" /\ leg # "none" /\ answered = Redirect(leg, a) => target = a

(* What the first leg tests, and the legs after it do not.  A reply that   *)
(* was never written is read or handed out, a CLUSTERDOWN or a redirection *)
(* comes out as the reply, and an exception that is no ClusterException    *)
(* leaves process(), only after a redirection; and of these a CLUSTERDOWN  *)
(* only after a MOVED.                                                     *)
FirstLegChecked ==
  /\ crashed \in {"garbageReply", "nullReply"} => leg # "none"
  /\ pc = "idle" /\ outcome.by = "garbage" => leg # "none"
  /\ pc = "idle" /\ outcome.by = "throw" /\ outcome.what \in Std => leg # "none"
  /\ outcome.by = "reply" =>
       /\ Contains(outcome.text, "CLUSTERDOWN") => outcome.leg = "MOVED"
       /\ processResult(outcome.text) # "READY" => outcome.leg # "none"
=============================================================================
