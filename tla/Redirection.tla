---------------------------- MODULE Redirection -----------------------------
(***************************************************************************)
(* How the text of an error reply is read: HiredisProcess                  *)
(* (hiredisprocess.h), and std::stoi of the port in container.h.           *)
(*                                                                         *)
(* A text is a sequence of words and of the separators " " and ":"; a      *)
(* position is an offset in this sequence, from 0 on.                      *)
(***************************************************************************)
EXTENDS Integers, Sequences, FiniteSets

(* A number that fits an int, one that does not, and a word that begins    *)
(* with another one.                                                       *)
Number == {"1", "2", "7001"}
BigNumber == {"99999999999"}
Begins(s, word) ==
  s # <<>> /\ Head(s) \in (IF word = "ASK" THEN {"ASK", "ASKED"} ELSE {word})

Contains(s, word) == \E i \in DOMAIN s : s[i] = word

-----------------------------------------------------------------------------
npos == 255

(* size_t arithmetic: npos + 1 is 0.                                       *)
Inc(p) == (p + 1) % (npos + 1)

find(s, word, pos) ==
  LET at == {i \in pos..(Len(s) - 1) : s[i + 1] = word} IN
  IF at = {} THEN npos ELSE CHOOSE i \in at : \A j \in at : i <= j

(* A length below 0 is a very large one.                                   *)
substr(s, pos, n) ==
  SubSeq(s, pos + 1, IF n < 0 \/ pos + n > Len(s) THEN Len(s) ELSE pos + n)

(* Mutant: the host is what follows the first blank.                       *)
parsehostportFirst(error) ==
  LET hostPotision == Inc(find(error, " ", 0))
      portPosition == Inc(find(error, ":", hostPotision))
  IN [host |-> substr(error, hostPotision, portPosition - hostPotision - 1),
      port |-> substr(error, portPosition, npos)]

(* Neither position can be npos, so a text that has no address is not      *)
(* rejected.                                                               *)
parsehostport(error) ==
  LET hostPotision == Inc(find(error, " ", Inc(find(error, " ", 0))))
      portPosition == Inc(find(error, ":", hostPotision))
  IN [host |-> substr(error, hostPotision, portPosition - hostPotision - 1),
      port |-> substr(error, portPosition, npos)]

(* The state for a reply that is an error with this text.                  *)
processResult(error) ==
  IF Begins(error, "ASK") THEN "ASK"
  ELSE IF Begins(error, "MOVED") THEN "MOVED"
  ELSE IF Begins(error, "CLUSTERDOWN") THEN "CLUSTERDOWN"
  ELSE "READY"

(* Mutant: only a text that begins so is critical.                         *)
clusterDownAtStart(error) == Begins(error, "CLUSTERDOWN")

(* The second test of checkCritical.                                       *)
clusterDown(error) == Contains(error, "CLUSTERDOWN")

-----------------------------------------------------------------------------
(* std::stoi: blanks, then a number, then anything; else it throws.        *)
Blanks(s) ==
  {n \in 0..Len(s) : /\ \A i \in 1..n : s[i] = " "
                     /\ n = Len(s) \/ s[n + 1] # " "}
FirstWord(s) == LET n == CHOOSE n \in Blanks(s) : TRUE
                IN IF n = Len(s) THEN "" ELSE s[n + 1]

stoi(s) == IF FirstWord(s) \in Number THEN "ok"
           ELSE IF FirstWord(s) \in BigNumber THEN "out_of_range"
           ELSE "invalid_argument"
=============================================================================
