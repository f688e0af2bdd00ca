----------------------- MODULE BlockingCommandProofs ------------------------
(***************************************************************************)
(* Proofs about BlockingCommand and Redirection, for any addresses, error  *)
(* texts and number of commands: the type invariant, that every reply is   *)
(* freed once or is the caller's, that a redirection is followed to the    *)
(* address the node named, and what the legs after the first do not test.  *)
(***************************************************************************)
EXTENDS BlockingCommand, SequenceTheorems, TLAPS

Memory == {"held", "freed", "freedTwice", "user", "garbage"}

(* What is left of the replies of a command that has ended in o: this is   *)
(* ReplyOnce at "idle".                                                    *)
Closed(m, o) ==
  /\ m \in Seq(Memory) /\ Len(m) <= 3
  /\ \A i \in DOMAIN m :
       /\ m[i] # "freedTwice"
       /\ m[i] = "user" <=> i = Len(m) /\ o.by = "reply"
       /\ m[i] = "held" => o = [by |-> "throw", what |-> CallbackException]

(* While it runs, the replies it has had are freed, and there is room for  *)
(* those it may still get.                                                 *)
Loose(m, n) == m \in Seq({"freed"}) /\ Len(m) <= n

Course ==
  /\ pc = "recv" => Loose(mem, 0) /\ leg = "none"
  /\ pc \in {"redirect", "asking"} => Loose(mem, 1)
  /\ pc = "retry" => Loose(mem, 2)
  /\ pc = "idle" => Closed(mem, outcome)

(* It follows the first reply, whose kind and address it has read.         *)
Following ==
  pc \in {"redirect", "asking", "retry"} =>
    /\ leg = processResult(answered) /\ leg \in {"ASK", "MOVED"}
    /\ target = parsehostport(answered)

IInv == TypeOK /\ Course /\ Following /\ FirstLegChecked

-----------------------------------------------------------------------------
(* How the text of a redirection is read.                                  *)

(* find() gives the first position where the word is.                      *)
LEMMA FindsFirst ==
  ASSUME NEW s, NEW word, NEW pos \in Nat, NEW i \in Nat,
         Len(s) \in Nat, pos <= i, i <= Len(s) - 1, s[i + 1] = word,
         \A j \in pos..(i - 1) : s[j + 1] # word
  PROVE  find(s, word, pos) = i
<1> DEFINE at == {j \in pos..(Len(s) - 1) : s[j + 1] = word}
<1>1. i \in at /\ at \subseteq Nat /\ \A j \in at : i <= j
  OBVIOUS
<1>2. \A k \in at : (\A j \in at : k <= j) => k = i
  BY <1>1
<1>3. find(s, word, pos) = CHOOSE k \in at : \A j \in at : k <= j
  BY <1>1 DEF find
<1> HIDE DEF at
<1> QED
  BY <1>1, <1>2, <1>3

(* The words that texts are made of; the prover does not know by itself    *)
(* that those of a redirection are strings.                                *)
Word == STRING \cup {"ASK", "MOVED", " ", "1", ":"}

LEMMA AddressWords ==
  ASSUME NEW a \in Address
  PROVE  /\ a.host \in Seq(Word) /\ a.port \in Seq(Word) /\ Len(a.port) = 1
         /\ Len(a.host) + 6 < npos /\ a = [host |-> a.host, port |-> a.port]
<1>1. /\ a.host \in Seq(STRING) /\ a.port \in Seq(STRING) /\ Len(a.port) = 1
      /\ Len(a.host) + 6 < npos /\ a = [host |-> a.host, port |-> a.port]
  BY AddressAssumption
<1>2. ASSUME NEW S, NEW W, S \subseteq W, NEW h \in Seq(S)
      PROVE  h \in Seq(W)
  BY <1>2
<1>3. STRING \subseteq Word
  BY DEF Word
<1> QED
  BY <1>1, <1>2, <1>3

LEMMA FourWords ==
  ASSUME NEW W, NEW a \in W, NEW b \in W, NEW c \in W, NEW d \in W
  PROVE  /\ <<a, b, c, d>> \in Seq(W) /\ Len(<<a, b, c, d>>) = 4
         /\ <<a, b, c, d>>[1] = a /\ <<a, b, c, d>>[2] = b
         /\ <<a, b, c, d>>[3] = c /\ <<a, b, c, d>>[4] = d
OBVIOUS

(* The words of a redirection: the kind, a slot between blanks, the host,  *)
(* a colon and the port.  They are variables here, since the prover does   *)
(* not mix literals with sequences of a set.                               *)
Spelt(kind, blank, one, colon, host, port) ==
  <<kind, blank, one, blank>> \o host \o <<colon>> \o port

Words(s, kind, blank, one, colon, host, port) ==
  /\ Len(host) \in Nat /\ Len(s) = Len(host) + 6
  /\ s[1] = kind /\ s[2] = blank /\ s[3] = one /\ s[4] = blank
  /\ \A i \in 1..Len(host) : s[i + 4] = host[i]
  /\ s[Len(host) + 5] = colon
  /\ s[Len(host) + 6] = port[1]

LEMMA Concatenation ==
  ASSUME NEW W, NEW x \in Seq(W), NEW y \in Seq(W)
  PROVE  /\ x \o y \in Seq(W) /\ Len(x) \in Nat /\ Len(y) \in Nat
         /\ Len(x \o y) = Len(x) + Len(y)
         /\ \A i \in 1..Len(x) : (x \o y)[i] = x[i]
         /\ \A i \in 1..Len(y) : (x \o y)[i + Len(x)] = y[i]
OBVIOUS

LEMMA OneMore ==
  ASSUME NEW W, NEW x \in Seq(W), NEW y \in Seq(W), Len(y) = 1
  PROVE  /\ x \o y \in Seq(W) /\ Len(x \o y) = Len(x) + 1
         /\ \A i \in 1..Len(x) : (x \o y)[i] = x[i]
         /\ (x \o y)[Len(x) + 1] = y[1]
<1>1. /\ x \o y \in Seq(W) /\ Len(x) \in Nat /\ Len(x \o y) = Len(x) + Len(y)
      /\ \A i \in 1..Len(x) : (x \o y)[i] = x[i]
      /\ \A i \in 1..Len(y) : (x \o y)[i + Len(x)] = y[i]
  BY Concatenation
<1>2. 1 \in 1..Len(y) /\ 1 + Len(x) = Len(x) + 1
  BY <1>1
<1> QED
  BY <1>1, <1>2

LEMMA SpeltWords ==
  ASSUME NEW W, NEW kind \in W, NEW blank \in W, NEW one \in W, NEW colon \in W,
         NEW host \in Seq(W), NEW port \in Seq(W), Len(port) = 1
  PROVE  LET s == Spelt(kind, blank, one, colon, host, port)
         IN s \in Seq(W) /\ Words(s, kind, blank, one, colon, host, port)
<1> DEFINE head == <<kind, blank, one, blank>>
           h == head \o host
           c == h \o <<colon>>
           s == c \o port
           n == Len(host)
<1>1. head \in Seq(W) /\ Len(head) = 4 /\ head[1] = kind /\ head[2] = blank
      /\ head[3] = one /\ head[4] = blank
  BY FourWords
<1> HIDE DEF head
<1>2. /\ h \in Seq(W) /\ n \in Nat /\ Len(h) = 4 + n
      /\ \A i \in 1..4 : h[i] = head[i]
      /\ \A i \in 1..n : h[i + 4] = host[i]
  <2>1. /\ h \in Seq(W) /\ Len(host) \in Nat /\ Len(h) = Len(head) + Len(host)
        /\ \A i \in 1..Len(head) : h[i] = head[i]
        /\ \A i \in 1..Len(host) : h[i + Len(head)] = host[i]
    <3>1. head \in Seq(W)
      BY <1>1
    <3> QED
      BY <3>1, Concatenation
  <2> HIDE DEF h
  <2> QED
    BY <1>1, <2>1
<1> HIDE DEF h
<1>3. <<colon>> \in Seq(W) /\ Len(<<colon>>) = 1 /\ <<colon>>[1] = colon
  OBVIOUS
<1>4. /\ c \in Seq(W) /\ Len(c) = Len(h) + 1
      /\ \A i \in 1..Len(h) : c[i] = h[i]
      /\ c[Len(h) + 1] = colon
  BY <1>2, <1>3, OneMore
<1> HIDE DEF c
<1>5. /\ s \in Seq(W) /\ Len(s) = Len(c) + 1
      /\ \A i \in 1..Len(c) : s[i] = c[i]
      /\ s[Len(c) + 1] = port[1]
  BY <1>4, OneMore
<1> HIDE DEF s, n
<1>6. \A i \in 1..(4 + n) : s[i] = h[i]
  BY <1>2, <1>4, <1>5
<1>7. s[1] = kind /\ s[2] = blank /\ s[3] = one /\ s[4] = blank
  BY <1>1, <1>2, <1>6
<1>8. \A i \in 1..n : s[i + 4] = host[i]
  BY <1>2, <1>6
<1>9. s[n + 5] = colon
  <2>1. Len(h) + 1 = n + 5 /\ n + 5 \in 1..Len(c)
    BY <1>2, <1>4
  <2> QED
    BY <1>4, <1>5, <2>1
<1>10. s[n + 6] = port[1] /\ Len(s) = n + 6
  <2>1. Len(h) = 4 + n /\ Len(c) = Len(h) + 1 /\ n \in Nat
    BY <1>2, <1>4
  <2>2. Len(c) + 1 = n + 6
    BY <2>1
  <2> QED
    BY <1>5, <2>2
<1>11. s = Spelt(kind, blank, one, colon, host, port)
  BY DEF s, c, h, head, Spelt
<1>12. n \in Nat /\ s \in Seq(W)
  BY <1>2, <1>5
<1>13. Words(s, kind, blank, one, colon, host, port)
  BY <1>7, <1>8, <1>9, <1>10, <1>12, Zenon DEF Words, n
<1> QED
  BY <1>11, <1>12, <1>13

(* Where find() and SubSeq find them again.                                *)
LEMMA FindsBlanks ==
  ASSUME NEW s, Len(s) \in Nat, Len(s) >= 6, NEW blank, s[1] # blank, s[2] = blank,
         s[3] # blank, s[4] = blank
  PROVE  find(s, blank, 0) = 1 /\ find(s, blank, 2) = 3
<1>1. find(s, blank, 0) = 1
  <2>1. \A j \in 0..(1 - 1) : s[j + 1] # blank
    OBVIOUS
  <2> QED
    BY <2>1, FindsFirst
<1>2. find(s, blank, 2) = 3
  <2>1. \A j \in 2..(3 - 1) : s[j + 1] # blank
    OBVIOUS
  <2> QED
    BY <2>1, FindsFirst
<1> QED
  BY <1>1, <1>2

LEMMA FindsColon ==
  ASSUME NEW s, NEW n \in Nat, Len(s) = n + 6, NEW colon, s[n + 5] = colon,
         \A i \in 1..n : s[i + 4] # colon
  PROVE  find(s, colon, 4) = n + 4
<1>1. \A j \in 4..(n + 4 - 1) : s[j + 1] # colon
  <2> SUFFICES ASSUME NEW j \in 4..(n + 3) PROVE s[j + 1] # colon
    OBVIOUS
  <2>1. j - 3 \in 1..n /\ (j - 3) + 4 = j + 1
    OBVIOUS
  <2> QED
    BY <2>1
<1>2. n + 4 \in Nat /\ 4 <= n + 4 /\ n + 4 <= Len(s) - 1 /\ s[(n + 4) + 1] = colon
      /\ Len(s) \in Nat
  OBVIOUS
<1> QED
  BY <1>1, <1>2, FindsFirst

LEMMA SubSeqOfParts ==
  ASSUME NEW W, NEW s \in Seq(W), NEW host \in Seq(W), NEW port \in Seq(W), Len(port) = 1,
         Len(s) = Len(host) + 6, \A i \in 1..Len(host) : s[i + 4] = host[i],
         s[Len(host) + 6] = port[1]
  PROVE  /\ SubSeq(s, 5, Len(host) + 4) = host
         /\ SubSeq(s, Len(host) + 6, Len(host) + 6) = port
<1> DEFINE n == Len(host)
           g == SubSeq(s, 5, n + 4)
           q == SubSeq(s, n + 6, n + 6)
<1>1. g \in Seq(W) /\ Len(g) = n /\ \A i \in 1..n : g[i] = s[i + 4]
  OBVIOUS
<1>2. q \in Seq(W) /\ Len(q) = 1 /\ q[1] = s[n + 6]
  OBVIOUS
<1> HIDE DEF g, q
<1>3. g = host
  BY <1>1, SeqEqual
<1>4. q = port
  BY <1>2, SeqEqual
<1> QED
  BY <1>3, <1>4 DEF g, q

Parts(s, blank, colon, host, port) ==
  /\ Len(host) \in Nat /\ Len(s) = Len(host) + 6
  /\ find(s, blank, 0) = 1
  /\ find(s, blank, 2) = 3
  /\ find(s, colon, 4) = Len(host) + 4
  /\ SubSeq(s, 5, Len(host) + 4) = host
  /\ SubSeq(s, Len(host) + 6, Len(host) + 6) = port

LEMMA RedirectParts ==
  ASSUME NEW W, NEW kind \in W, NEW blank \in W, NEW one \in W, NEW colon \in W,
         NEW host \in Seq(W), NEW port \in Seq(W), Len(port) = 1,
         kind # blank, one # blank, \A i \in 1..Len(host) : host[i] # colon
  PROVE  Parts(Spelt(kind, blank, one, colon, host, port), blank, colon, host, port)
<1> DEFINE n == Len(host)
           s == Spelt(kind, blank, one, colon, host, port)
<1>1. s \in Seq(W) /\ Words(s, kind, blank, one, colon, host, port)
  BY SpeltWords
<1> HIDE DEF s
<1>2. n \in Nat /\ Len(s) = n + 6
  BY <1>1 DEF Words
<1>3. find(s, blank, 0) = 1 /\ find(s, blank, 2) = 3
  <2>1. Len(s) \in Nat /\ Len(s) >= 6
    BY <1>2
  <2> QED
    BY <1>1, <2>1, FindsBlanks DEF Words
<1>4. find(s, colon, 4) = n + 4
  <2>1. s[n + 5] = colon /\ \A i \in 1..n : s[i + 4] # colon
    BY <1>1 DEF Words
  <2> HIDE DEF n
  <2> QED
    BY <1>2, <2>1, FindsColon
<1>5. SubSeq(s, 5, n + 4) = host /\ SubSeq(s, n + 6, n + 6) = port
  BY <1>1, SubSeqOfParts DEF Words
<1> QED
  BY <1>2, <1>3, <1>4, <1>5 DEF s, Parts

(* What parsehostport makes of them.                                       *)
LEMMA SubstrOfParts ==
  ASSUME NEW s, NEW n \in Nat, Len(s) = n + 6, n + 6 < npos
  PROVE  /\ Inc(1) = 2 /\ Inc(3) = 4 /\ Inc(n + 4) = n + 5
         /\ substr(s, 4, (n + 5) - 4 - 1) = SubSeq(s, 5, n + 4)
         /\ substr(s, n + 5, npos) = SubSeq(s, n + 6, n + 6)
<1>1. Inc(1) = 2 /\ Inc(3) = 4 /\ Inc(n + 4) = n + 5
  BY DEF Inc, npos
<1>2. (n + 5) - 4 - 1 = n /\ ~(n < 0) /\ ~(4 + n > Len(s)) /\ 4 + 1 = 5 /\ 4 + n = n + 4
  OBVIOUS
<1>3. n + 5 + npos > Len(s) /\ (n + 5) + 1 = n + 6
  BY DEF npos
<1> QED
  BY <1>1, <1>2, <1>3 DEF substr

(* A text of a host without a colon gives back its address.                *)
LEMMA ParsesPlain ==
  ASSUME NEW kind \in {"ASK", "MOVED"}, NEW a \in Address, ~Contains(a.host, ":")
  PROVE  parsehostport(Redirect(kind, a)) = a
<1> DEFINE n == Len(a.host)
           s == Redirect(kind, a)
<1>1. a.host \in Seq(Word) /\ a.port \in Seq(Word) /\ Len(a.port) = 1
      /\ n + 6 < npos /\ a = [host |-> a.host, port |-> a.port]
  BY AddressWords
<1>2. /\ n \in Nat /\ Len(s) = n + 6
      /\ find(s, " ", 0) = 1 /\ find(s, " ", 2) = 3 /\ find(s, ":", 4) = n + 4
      /\ SubSeq(s, 5, n + 4) = a.host
      /\ SubSeq(s, n + 6, n + 6) = a.port
  <2>1. kind \in Word /\ " " \in Word /\ "1" \in Word /\ ":" \in Word
        /\ kind # " " /\ "1" # " "
    BY DEF Word
  <2>2. \A i \in 1..Len(a.host) : a.host[i] # ":"
    BY <1>1 DEF Contains
  <2>3. s = Spelt(kind, " ", "1", ":", a.host, a.port)
    BY DEF Redirect, Spelt
  <2>4. PICK blank, one, colon : blank = " " /\ one = "1" /\ colon = ":"
    OBVIOUS
  <2>5. /\ kind \in Word /\ blank \in Word /\ one \in Word /\ colon \in Word
        /\ kind # blank /\ one # blank
        /\ \A i \in 1..Len(a.host) : a.host[i] # colon
    BY <2>1, <2>2, <2>4, Zenon
  <2> DEFINE t == Spelt(kind, blank, one, colon, a.host, a.port)
  <2>6. Parts(t, blank, colon, a.host, a.port)
    <3>1. a.host \in Seq(Word) /\ a.port \in Seq(Word) /\ Len(a.port) = 1
      BY <1>1
    <3> QED
      BY <2>5, <3>1, RedirectParts, Zenon
  <2>7. s = t
    BY <2>3, <2>4, Zenon
  <2> HIDE DEF s, t
  <2> QED
    BY <2>4, <2>6, <2>7, Zenon DEF Parts
<1> HIDE DEF n, s
<1>3. /\ Inc(1) = 2 /\ Inc(3) = 4 /\ Inc(n + 4) = n + 5
      /\ substr(s, 4, (n + 5) - 4 - 1) = SubSeq(s, 5, n + 4)
      /\ substr(s, n + 5, npos) = SubSeq(s, n + 6, n + 6)
  <2>1. n \in Nat /\ Len(s) = n + 6 /\ n + 6 < npos
    BY <1>1, <1>2, Zenon
  <2> QED
    BY <2>1, SubstrOfParts, Zenon
<1>4. parsehostport(s) = [host |-> substr(s, 4, (n + 5) - 4 - 1), port |-> substr(s, n + 5, npos)]
  BY <1>2, <1>3, Zenon DEF parsehostport
<1>5. parsehostport(s) = [host |-> a.host, port |-> a.port]
  BY <1>2, <1>3, <1>4, Zenon
<1> QED
  BY <1>1, <1>5, Zenon DEF s

-----------------------------------------------------------------------------
(* The memory of replies.                                                  *)

LEMMA Appended ==
  ASSUME NEW W, NEW m \in Seq(W), NEW v \in W
  PROVE  /\ Append(m, v) \in Seq(W) /\ Len(m) \in Nat /\ Len(Append(m, v)) = Len(m) + 1
         /\ DOMAIN Append(m, v) = 1..(Len(m) + 1)
         /\ \A i \in 1..Len(m) : Append(m, v)[i] = m[i]
         /\ Append(m, v)[Len(m) + 1] = v
OBVIOUS

LEMMA LastChanged ==
  ASSUME NEW W, NEW m \in Seq(W), NEW u \in W, NEW v \in W
  PROVE  [Append(m, u) EXCEPT ![Len(Append(m, u))] = v] = Append(m, v)
<1> DEFINE q == [Append(m, u) EXCEPT ![Len(Append(m, u))] = v]
           n == Len(m) + 1
<1>1. /\ Append(m, u) \in Seq(W) /\ Len(m) \in Nat /\ Len(Append(m, u)) = n
      /\ DOMAIN Append(m, u) = 1..n
      /\ \A i \in 1..Len(m) : Append(m, u)[i] = m[i]
  BY Appended
<1>2. /\ Append(m, v) \in Seq(W) /\ Len(Append(m, v)) = n
      /\ \A i \in 1..Len(m) : Append(m, v)[i] = m[i]
      /\ Append(m, v)[n] = v
  BY Appended
<1>3. q \in Seq(W) /\ Len(q) = n /\ q[n] = v /\ \A i \in 1..Len(m) : q[i] = m[i]
  <2>1. PICK p : p = Append(m, u)
    OBVIOUS
  <2>2. q = [p EXCEPT ![n] = v] /\ p \in Seq(W) /\ Len(p) = n /\ DOMAIN p = 1..n
        /\ \A i \in 1..Len(m) : p[i] = m[i]
    BY <1>1, <2>1
  <2> HIDE DEF q
  <2>3. n \in 1..n /\ n \in Nat /\ \A i \in 1..Len(m) : i \in 1..n /\ i # n
    BY <1>1
  <2> HIDE DEF n
  <2>4. q \in Seq(W) /\ Len(q) = n /\ DOMAIN q = 1..n
    BY <2>2, <2>3
  <2>5. q[n] = v /\ \A i \in 1..Len(m) : q[i] = m[i]
    BY <2>2, <2>3
  <2> QED
    BY <2>4, <2>5
<1> HIDE DEF q
<1>4. \A i \in 1..n : q[i] = Append(m, v)[i]
  <2>1. \A i \in 1..n : i \in 1..Len(m) \/ i = n
    BY <1>1
  <2> QED
    BY <1>2, <1>3, <2>1
<1>5. q = Append(m, v)
  BY <1>2, <1>3, <1>4, SeqEqual
<1> QED
  BY <1>5 DEF q

LEMMA LooseFacts ==
  ASSUME NEW n \in Nat, NEW m, Loose(m, n)
  PROVE  /\ m \in Seq(Memory) /\ Len(m) <= n
         /\ Len(m) \in 0..n /\ DOMAIN m = 1..Len(m)
         /\ \A i \in 1..Len(m) : m[i] = "freed"
<1>1. {"freed"} \subseteq Memory
  BY DEF Memory
<1>2. ASSUME NEW S, NEW W, S \subseteq W, NEW h \in Seq(S)
      PROVE  h \in Seq(W)
  BY <1>2
<1>3. m \in Seq({"freed"})
  BY DEF Loose
<1>4. m \in Seq(Memory)
  BY <1>1, <1>2, <1>3
<1>5. Len(m) \in Nat /\ DOMAIN m = 1..Len(m) /\ \A i \in 1..Len(m) : m[i] \in {"freed"}
  BY <1>3
<1> QED
  BY <1>4, <1>5 DEF Loose

LEMMA Room ==
  ASSUME NEW n \in Nat, NEW k \in 0..n
  PROVE  k + 1 <= n + 1
OBVIOUS

(* A reply more, freed.                                                    *)
LEMMA FreeReply ==
  ASSUME NEW n \in Nat, NEW m, Loose(m, n)
  PROVE  Free(Append(m, "held")) = Append(m, "freed") /\ Loose(Append(m, "freed"), n + 1)
<1>1. m \in Seq(Memory) /\ "held" \in Memory /\ "freed" \in Memory /\ Len(m) \in 0..n
  BY LooseFacts DEF Memory
<1>2. PICK q : q = Append(m, "held")
  OBVIOUS
<1>3. q[Len(q)] = "held"
  BY <1>1, <1>2, Appended
<1>4. Free(q) = [q EXCEPT ![Len(q)] = "freed"]
  BY <1>3 DEF Free
<1>5. [q EXCEPT ![Len(q)] = "freed"] = Append(m, "freed")
  BY <1>1, <1>2, LastChanged
<1>6. Append(m, "freed") \in Seq({"freed"}) /\ Len(Append(m, "freed")) = Len(m) + 1
  <2>1. m \in Seq({"freed"}) /\ "freed" \in {"freed"}
    BY DEF Loose
  <2> QED
    BY <2>1, Appended
<1>7. Len(m) + 1 <= n + 1
  BY <1>1, Room, Zenon
<1>8. Loose(Append(m, "freed"), n + 1)
  BY <1>6, <1>7, Zenon DEF Loose
<1> QED
  BY <1>2, <1>4, <1>5, <1>8, Zenon

(* What a command may end in: with what it had freed, with one more reply  *)
(* freed, with one more that is the caller's, or left behind.              *)
LEMMA ClosedLoose ==
  ASSUME NEW m, Loose(m, 3), NEW o, o.by # "reply"
  PROVE  Closed(m, o)
<1>1. /\ m \in Seq(Memory) /\ Len(m) \in 0..3 /\ DOMAIN m = 1..Len(m)
      /\ \A i \in 1..Len(m) : m[i] = "freed"
  BY LooseFacts
<1> QED
  BY <1>1 DEF Closed

LEMMA ClosedMore ==
  ASSUME NEW m, Loose(m, 2), NEW v \in {"user", "held"}, NEW o,
         v = "user" <=> o.by = "reply",
         v = "held" => o = [by |-> "throw", what |-> CallbackException]
  PROVE  Closed(Append(m, v), o)
<1>1. /\ m \in Seq(Memory) /\ Len(m) \in 0..2 /\ DOMAIN m = 1..Len(m)
      /\ \A i \in 1..Len(m) : m[i] = "freed"
  BY LooseFacts
<1>2. PICK q : q = Append(m, v)
  OBVIOUS
<1>3. v \in Memory
  BY DEF Memory
<1>4. /\ q \in Seq(Memory) /\ Len(q) = Len(m) + 1 /\ DOMAIN q = 1..(Len(m) + 1)
      /\ \A i \in 1..Len(m) : q[i] = m[i]
      /\ q[Len(m) + 1] = v
  BY <1>1, <1>2, <1>3, Appended
<1>5. \A i \in DOMAIN q : \/ i \in 1..Len(m) /\ i # Len(q) /\ q[i] = "freed"
                          \/ i = Len(q) /\ q[i] = v
  BY <1>1, <1>4
<1>6. Len(q) <= 3
  <2>1. 2 \in Nat /\ 2 + 1 = 3
    OBVIOUS
  <2>2. Len(m) + 1 <= 2 + 1
    BY <1>1, <2>1, Room, Zenon
  <2> QED
    BY <1>4, <2>1, <2>2, Zenon
<1>7. Closed(q, o)
  BY <1>4, <1>5, <1>6 DEF Closed
<1> QED
  BY <1>2, <1>7

LEMMA LooseMore ==
  ASSUME NEW n \in Nat, NEW k \in Nat, n <= k, NEW m, Loose(m, n)
  PROVE  Loose(m, k)
<1>1. m \in Seq({"freed"}) /\ Len(m) <= n
  BY DEF Loose
<1>2. Len(m) \in Nat
  BY <1>1
<1>3. Len(m) <= k
  <2> DEFINE l == Len(m)
  <2>1. l \in Nat /\ l <= n
    BY <1>1, <1>2
  <2> HIDE DEF l
  <2>2. l <= k
    BY <2>1
  <2> QED
    BY <2>2 DEF l
<1> QED
  BY <1>1, <1>3, Zenon DEF Loose

(* In both cases the memory is that of TypeOK.                             *)
Room3(m) == m \in Seq(Memory) /\ Len(m) <= 3

LEMMA LooseRoom ==
  ASSUME NEW m, Loose(m, 2)
  PROVE  Room3(m)
<1>1. Loose(m, 3)
  BY LooseMore
<1>2. m \in Seq(Memory) /\ Len(m) <= 3
  BY <1>1, LooseFacts
<1> QED
  BY <1>2, Zenon DEF Room3

LEMMA ClosedRoom ==
  ASSUME NEW m, NEW o, Closed(m, o)
  PROVE  Room3(m)
BY Zenon DEF Closed, Room3

LEMMA CourseRoom ==
  ASSUME NEW m, NEW o,
         Loose(m, 0) \/ Loose(m, 1) \/ Loose(m, 2) \/ Closed(m, o)
  PROVE  Room3(m)
BY LooseMore, LooseRoom, ClosedRoom

-----------------------------------------------------------------------------
(* How a command ends.                                                     *)

Thrown(what) == outcome' = [by |-> "throw", what |-> what]

LEMMA ThrowEnds ==
  ASSUME NEW what, NEW m, Loose(m, 2), Throw(what, m, FALSE)
  PROVE  pc' = "idle" /\ Closed(mem', outcome') /\ Thrown(what)
<1>1. Loose(m, 3)
  BY LooseMore
<1>2. pc' = "idle" /\ mem' = m /\ Thrown(what)
  BY DEF Throw, Thrown
<1>3. outcome'.by # "reply"
  BY <1>2 DEF Thrown
<1> QED
  BY <1>1, <1>2, <1>3, ClosedLoose

LEMMA ThrowFreeEnds ==
  ASSUME NEW what, NEW m, Loose(m, 2), Throw(what, Append(m, "held"), TRUE)
  PROVE  pc' = "idle" /\ Closed(mem', outcome') /\ Thrown(what)
<1>1. pc' = "idle" /\ mem' = Free(Append(m, "held")) /\ Thrown(what)
  BY DEF Throw, Thrown
<1>2. Free(Append(m, "held")) = Append(m, "freed") /\ Loose(Append(m, "freed"), 2 + 1)
  BY FreeReply
<1>3. Loose(mem', 3)
  <2>1. 2 + 1 = 3
    OBVIOUS
  <2> QED
    BY <1>1, <1>2, <2>1, Zenon
<1>4. outcome'.by # "reply"
  BY <1>1 DEF Thrown
<1> QED
  BY <1>1, <1>3, <1>4, ClosedLoose

LEMMA ThrowHoldingEnds ==
  ASSUME NEW m, Loose(m, 2), Throw(CallbackException, Append(m, "held"), FALSE)
  PROVE  pc' = "idle" /\ Closed(mem', outcome') /\ Thrown(CallbackException)
<1>1. pc' = "idle" /\ mem' = Append(m, "held") /\ Thrown(CallbackException)
  BY DEF Throw, Thrown
<1>2. outcome' = [by |-> "throw", what |-> CallbackException] /\ outcome'.by # "reply"
  BY <1>1 DEF Thrown
<1>3. Closed(Append(m, "held"), outcome')
  BY <1>2, ClosedMore
<1> QED
  BY <1>1, <1>3, Zenon

Returned(text) == outcome' = [by |-> "reply", text |-> text, leg |-> leg]

LEMMA ReturnEnds ==
  ASSUME NEW text, NEW m, Loose(m, 2), Return(text, Append(m, "held"))
  PROVE  pc' = "idle" /\ Closed(mem', outcome') /\ Returned(text)
<1>1. m \in Seq(Memory) /\ "held" \in Memory /\ "user" \in Memory
  BY LooseFacts DEF Memory
<1>2. PICK q : q = Append(m, "held")
  OBVIOUS
<1>3. pc' = "idle" /\ mem' = [q EXCEPT ![Len(q)] = "user"] /\ Returned(text)
  BY <1>2, Zenon DEF Return, Returned
<1>4. mem' = Append(m, "user")
  <2>1. [q EXCEPT ![Len(q)] = "user"] = Append(m, "user")
    BY <1>1, <1>2, LastChanged
  <2> QED
    BY <1>3, <2>1, Zenon
<1>5. outcome'.by = "reply"
  BY <1>3 DEF Returned
<1>6. Closed(Append(m, "user"), outcome')
  BY <1>5, ClosedMore
<1> QED
  BY <1>3, <1>4, <1>6, Zenon

LEMMA FollowLoose ==
  ASSUME NEW text, NEW m, NEW n \in Nat, Loose(m, n), Follow(text, Append(m, "held"))
  PROVE  Loose(mem', n + 1)
BY FreeReply, Zenon DEF Follow

LEMMA EndKeeps ==
  ASSUME pc' = "idle", Closed(mem', outcome')
  PROVE  Course' /\ Following' /\ Room3(mem')
<1>1. Course' /\ Following'
  BY DEF Course, Following
<1> QED
  BY <1>1, ClosedRoom

(* What an exception leaves, when no other one than a ClusterException can *)
(* have come without a redirection.                                        *)
LEMMA ThrownKeeps ==
  ASSUME NEW what \in ClusterException \cup Std \cup {CallbackException}, Thrown(what),
         crashed' = "no", what \in Std => leg' # "none"
  PROVE  outcome' \in Outcome /\ FirstLegChecked'
BY DEF Thrown, Outcome, FirstLegChecked

(* What a reply leaves: those of the first leg are tested, those after an  *)
(* ASK for CLUSTERDOWN only.                                               *)
LEMMA ReturnedKeeps ==
  ASSUME NEW text \in Text, Returned(text), leg \in {"none", "ASK", "MOVED"},
         crashed' \in {"no", "deletedCluster"},
         leg = "none" => processResult(text) = "READY",
         leg # "MOVED" => ~Contains(text, "CLUSTERDOWN")
  PROVE  outcome' \in Outcome /\ FirstLegChecked'
<1> PICK d, r : d = Contains(text, "CLUSTERDOWN") /\ r = processResult(text)
  OBVIOUS
<1>1. outcome' = [by |-> "reply", text |-> text, leg |-> leg]
  BY DEF Returned
<1>2. outcome'.by = "reply" /\ outcome'.text = text /\ outcome'.leg = leg
  BY <1>1
<1>3. outcome' \in Outcome
  BY <1>1 DEF Outcome
<1> QED
  BY <1>2, <1>3 DEF FirstLegChecked

LEMMA InitIInv == Init => IInv
<1> SUFFICES ASSUME Init PROVE IInv
  OBVIOUS
<1>1. Loose(<<>>, 3)
  BY DEF Loose
<1>2. Closed(mem, outcome)
  <2>1. mem = <<>> /\ outcome.by # "reply"
    BY DEF Init
  <2> QED
    BY <1>1, <2>1, ClosedLoose
<1>3. Course /\ Following
  BY <1>2 DEF Init, Course, Following
<1>4. TypeOK
  <2>1. Room3(mem)
    BY <1>2, ClosedRoom
  <2>2. outcome \in Outcome
    BY DEF Init, Outcome
  <2>3. \A k \in DOMAIN cached : cached[k] \in BOOLEAN
    BY DEF Init
  <2>4. MaxCommands \in Nat /\ 0 \in 0..MaxCommands
    BY AddressAssumption
  <2>5. answered \in Text \cup {<<>>}
    BY DEF Init
  <2> QED
    BY <2>1, <2>2, <2>3, <2>4, <2>5 DEF Init, TypeOK, Room3, Memory
<1>5. FirstLegChecked
  BY DEF Init, FirstLegChecked
<1> QED
  BY <1>3, <1>4, <1>5 DEF IInv

LEMMA BeginKeeps == IInv /\ crashed = "no" /\ Begin => IInv'
<1> SUFFICES ASSUME IInv, crashed = "no", Begin PROVE IInv'
  OBVIOUS
<1>1. TypeOK /\ FirstLegChecked
  BY DEF IInv
<1>2. /\ leg' = "none" /\ answered' = <<>> /\ target' = NoAddress
      /\ sent' = sent + 1 /\ sent < MaxCommands
      /\ UNCHANGED <<ready, slotErr, cached, moved, crashed>>
  BY DEF Begin
<1>3. Loose(<<>>, 0) /\ Loose(<<>>, 2)
  BY DEF Loose
<1>4. /\ Course' /\ Following' /\ Room3(mem')
      /\ pc' \in {"idle", "recv"} /\ outcome' \in Outcome /\ FirstLegChecked'
  <2>1. CASE \E what \in {"InvalidArgument", "NodeSearch", "NotInitialized"} : Throw(what, <<>>, FALSE)
    <3>1. PICK what \in {"InvalidArgument", "NodeSearch", "NotInitialized"} : Throw(what, <<>>, FALSE)
      BY <2>1
    <3>2. pc' = "idle" /\ Closed(mem', outcome') /\ Thrown(what)
      BY <1>3, <3>1, ThrowEnds
    <3>3. Course' /\ Following' /\ Room3(mem')
      BY <3>2, EndKeeps
    <3>4. /\ what \in ClusterException \cup Std \cup {CallbackException}
          /\ what \notin Std
      BY <3>1 DEF ClusterException, Critical, BadState, Argument, Std, CallbackException
    <3>5. outcome' \in Outcome /\ FirstLegChecked'
      BY <1>2, <3>2, <3>4, ThrownKeeps
    <3> QED
      BY <3>2, <3>3, <3>5
  <2>2. CASE pc' = "recv" /\ mem' = <<>> /\ UNCHANGED outcome
    <3>1. Course' /\ Following'
      BY <1>2, <1>3, <2>2 DEF Course, Following
    <3>2. Room3(mem')
      BY <1>3, <2>2, LooseRoom
    <3>3. outcome' \in Outcome
      BY <1>1, <2>2 DEF TypeOK
    <3>4. FirstLegChecked'
      BY <1>1, <1>2, <2>2 DEF FirstLegChecked
    <3> QED
      BY <2>2, <3>1, <3>2, <3>3, <3>4
  <2> QED
    BY <2>1, <2>2 DEF Begin
<1>5. TypeOK'
  <2>1. sent' \in 0..MaxCommands
    BY <1>1, <1>2, AddressAssumption DEF TypeOK
  <2> QED
    BY <1>1, <1>2, <1>4, <2>1 DEF TypeOK, Room3, Memory
<1> QED
  BY <1>4, <1>5 DEF IInv

LEMMA StopKeeps == IInv /\ crashed = "no" /\ Stop => IInv'
BY DEF IInv, Stop, TypeOK, Course, Following, FirstLegChecked

(* What a step of a command keeps.                                         *)
Kept ==
  /\ Course' /\ Following' /\ FirstLegChecked'
  /\ Room3(mem') /\ outcome' \in Outcome
  /\ pc' \in {"idle", "recv", "redirect", "asking", "retry"}
  /\ leg' \in {"none", "ASK", "MOVED"}

LEMMA SlotLostKeeps == IInv /\ crashed = "no" /\ SlotLost => IInv'
<1> SUFFICES ASSUME IInv, crashed = "no", SlotLost PROVE IInv'
  OBVIOUS
<1>1. TypeOK /\ Loose(mem, 0)
  BY DEF IInv, SlotLost, Course
<1>2. /\ slotErr' = TRUE /\ Throw("Disconnected", mem, FALSE)
      /\ UNCHANGED <<ready, leg, answered, target, cached, moved, crashed, sent>>
  BY DEF SlotLost
<1>3. pc' = "idle" /\ Closed(mem', outcome') /\ Thrown("Disconnected")
  <2>1. Loose(mem, 2)
    BY <1>1, LooseMore
  <2> QED
    BY <1>2, <2>1, ThrowEnds
<1>4. Course' /\ Following' /\ Room3(mem')
  BY <1>3, EndKeeps
<1>5. outcome' \in Outcome /\ FirstLegChecked'
  <2>1. /\ "Disconnected" \in ClusterException \cup Std \cup {CallbackException}
        /\ "Disconnected" \notin Std
    BY DEF ClusterException, Critical, Std
  <2> QED
    BY <1>2, <1>3, <2>1, ThrownKeeps
<1>6. TypeOK'
  BY <1>1, <1>2, <1>3, <1>4, <1>5 DEF TypeOK, Room3, Memory
<1> QED
  BY <1>4, <1>5, <1>6 DEF IInv

LEMMA SlotReplyKeeps ==
  IInv /\ crashed = "no" /\ (\E text \in Text : SlotReply(text)) => IInv'
<1> SUFFICES ASSUME IInv, crashed = "no", NEW text \in Text, SlotReply(text) PROVE IInv'
  OBVIOUS
<1>1. TypeOK /\ Loose(mem, 0) /\ Loose(mem, 2) /\ leg = "none" /\ FirstLegChecked
  <2>1. TypeOK /\ Loose(mem, 0) /\ leg = "none" /\ FirstLegChecked
    BY DEF IInv, SlotReply, Course
  <2> QED
    BY <2>1, LooseMore
<1>2. answered' = text /\ UNCHANGED <<ready, slotErr, cached, moved, crashed, sent>>
  BY DEF SlotReply
<1>3. Kept
  <2>1. ASSUME NEW what \in {"ClusterDown", "LogicError"},
               Throw(what, Append(mem, "held"), TRUE), UNCHANGED leg
        PROVE  Kept
    <3>1. pc' = "idle" /\ Closed(mem', outcome') /\ Thrown(what)
      BY <1>1, <2>1, ThrowFreeEnds
    <3>2. /\ what \in ClusterException \cup Std \cup {CallbackException}
          /\ what \notin Std
      BY <2>1 DEF ClusterException, Critical, BadState, Std
    <3>3. outcome' \in Outcome /\ FirstLegChecked'
      BY <1>2, <3>1, <3>2, ThrownKeeps
    <3>4. Course' /\ Following' /\ Room3(mem')
      BY <3>1, EndKeeps
    <3> QED
      BY <1>1, <2>1, <3>1, <3>3, <3>4, Zenon DEF Kept, TypeOK
  <2>2. ASSUME processResult(text) \in {"ASK", "MOVED"}, Follow(text, Append(mem, "held"))
        PROVE  Kept
    <3>1. /\ pc' = "redirect" /\ leg' = processResult(text) /\ target' = parsehostport(text)
          /\ UNCHANGED outcome
      BY <2>2 DEF Follow
    <3>2. Loose(mem', 1) /\ Loose(mem', 2)
      <4>1. Loose(mem', 0 + 1)
        BY <1>1, <2>2, FollowLoose
      <4>2. Loose(mem', 1)
        BY <4>1
      <4> QED
        BY <4>2, LooseMore
    <3>3. Course'
      BY <3>1, <3>2 DEF Course
    <3>4. Following'
      BY <1>2, <2>2, <3>1 DEF Following
    <3>5. Room3(mem')
      BY <3>2, LooseRoom
    <3>6. FirstLegChecked' /\ outcome' \in Outcome
      BY <1>1, <1>2, <3>1 DEF FirstLegChecked, TypeOK
    <3> QED
      BY <2>2, <3>1, <3>3, <3>4, <3>5, <3>6 DEF Kept
  <2>3. ASSUME ~clusterDown(text), processResult(text) = "READY",
               Return(text, Append(mem, "held")), UNCHANGED leg
        PROVE  Kept
    <3>1. pc' = "idle" /\ Closed(mem', outcome') /\ Returned(text)
      BY <1>1, <2>3, ReturnEnds
    <3>2. Course' /\ Following' /\ Room3(mem')
      BY <3>1, EndKeeps
    <3>3. ~Contains(text, "CLUSTERDOWN")
      BY <2>3 DEF clusterDown
    <3>4. outcome' \in Outcome /\ FirstLegChecked'
      BY <1>1, <1>2, <2>3, <3>1, <3>3, ReturnedKeeps, Zenon
    <3> QED
      BY <1>1, <2>3, <3>1, <3>2, <3>4, Zenon DEF Kept, TypeOK
  <2>4. PICK m, state : m = Append(mem, "held") /\ state = processResult(text)
    OBVIOUS
  <2>5. \/ Throw("ClusterDown", m, TRUE) /\ UNCHANGED leg
        \/ state \in {"ASK", "MOVED"} /\ Follow(text, m)
        \/ ~clusterDown(text) /\ state = "READY" /\ Return(text, m) /\ UNCHANGED leg
        \/ Throw("LogicError", m, TRUE) /\ UNCHANGED leg
    BY <2>4, Zenon DEF SlotReply
  <2> QED
    BY <2>1, <2>2, <2>3, <2>4, <2>5
<1>4. TypeOK'
  <2>1. answered' \in Text \cup {<<>>}
    BY <1>2
  <2> QED
    BY <1>1, <1>2, <1>3, <2>1 DEF TypeOK, Kept, Room3, Memory
<1> QED
  BY <1>3, <1>4 DEF IInv, Kept

-----------------------------------------------------------------------------
(* The legs after the first.                                               *)

(* An exception of a later leg, of any kind.                               *)
LEMMA LaterThrow ==
  ASSUME NEW what \in ClusterException \cup Std \cup {CallbackException},
         pc' = "idle", Closed(mem', outcome'), Thrown(what),
         leg \in {"ASK", "MOVED"}, UNCHANGED <<leg, crashed>>, crashed = "no"
  PROVE  Kept
<1>1. leg' # "none" /\ crashed' = "no" /\ leg' \in {"none", "ASK", "MOVED"}
  OBVIOUS
<1>2. outcome' \in Outcome /\ FirstLegChecked'
  BY <1>1, ThrownKeeps
<1>3. Course' /\ Following' /\ Room3(mem')
  BY EndKeeps
<1> QED
  BY <1>1, <1>2, <1>3, Zenon DEF Kept

(* It goes on, or stops where it is.                                       *)
LEMMA LaterStep ==
  ASSUME IInv, leg \in {"ASK", "MOVED"}, UNCHANGED <<leg, answered, target, outcome>>,
         Following,
         pc' \in {"redirect", "asking", "retry"},
         pc \in {"redirect", "asking", "retry"},
         Loose(mem', 2), pc' \in {"redirect", "asking"} => Loose(mem', 1)
  PROVE  Kept
<1>1. Course'
  BY DEF Course
<1>2. Following'
  BY DEF Following
<1>3. FirstLegChecked' /\ outcome' \in Outcome /\ leg' \in {"none", "ASK", "MOVED"}
  BY DEF IInv, FirstLegChecked, TypeOK
<1>4. Room3(mem')
  BY LooseRoom
<1> QED
  BY <1>1, <1>2, <1>3, <1>4 DEF Kept

LEMMA CreateNewConnectionKeeps == IInv /\ crashed = "no" /\ CreateNewConnection => IInv'
<1> SUFFICES ASSUME IInv, crashed = "no", CreateNewConnection PROVE IInv'
  OBVIOUS
<1>1. /\ TypeOK /\ Following /\ leg \in {"ASK", "MOVED"} /\ pc = "redirect"
      /\ Loose(mem, 1) /\ Loose(mem, 2)
      /\ UNCHANGED <<ready, leg, answered, target, slotErr, moved, crashed, sent>>
  <2>1. TypeOK /\ Following /\ leg \in {"ASK", "MOVED"} /\ pc = "redirect" /\ Loose(mem, 1)
    BY DEF IInv, CreateNewConnection, Course, Following
  <2> QED
    BY <2>1, LooseMore DEF CreateNewConnection
<1>2. \/ \E what \in {"LogicError"} \cup Std : Throw(what, mem, FALSE)
      \/ Connected /\ UNCHANGED <<mem, outcome>>
  BY DEF CreateNewConnection, stoi, Std
<1>3. Kept
  <2>1. ASSUME NEW what \in {"LogicError"} \cup Std, Throw(what, mem, FALSE)
        PROVE  Kept
    <3>1. pc' = "idle" /\ Closed(mem', outcome') /\ Thrown(what)
      BY <1>1, <2>1, ThrowEnds
    <3>2. what \in ClusterException \cup Std \cup {CallbackException}
      BY <2>1 DEF ClusterException, BadState
    <3> QED
      BY <1>1, <3>1, <3>2, LaterThrow
  <2>2. ASSUME Connected, UNCHANGED <<mem, outcome>>
        PROVE  Kept
    <3>1. pc' \in {"asking", "retry"}
      BY <2>2 DEF Connected
    <3> QED
      BY <1>1, <2>2, <3>1, LaterStep
  <2> QED
    BY <1>2, <2>1, <2>2
<1>4. \A k \in DOMAIN cached' : cached'[k] \in BOOLEAN
  BY <1>1 DEF CreateNewConnection, TypeOK
<1>5. TypeOK'
  BY <1>1, <1>3, <1>4 DEF TypeOK, Kept, Room3, Memory
<1> QED
  BY <1>3, <1>5 DEF IInv, Kept

LEMMA CrashKeeps ==
  ASSUME IInv, crashed = "no", NEW why \in {"nullReply", "garbageReply"}, Crash(why),
         pc \in {"asking", "retry"}, UNCHANGED <<ready, slotErr, sent>>
  PROVE  IInv'
<1>1. TypeOK' /\ Course' /\ Following'
  BY DEF IInv, Crash, TypeOK, Course, Following
<1>2. FirstLegChecked'
  BY DEF IInv, Crash, FirstLegChecked, Following
<1> QED
  BY <1>1, <1>2 DEF IInv

LEMMA AskingKeeps == IInv /\ crashed = "no" /\ Asking => IInv'
<1> SUFFICES ASSUME IInv, crashed = "no", Asking PROVE IInv'
  OBVIOUS
<1>1. /\ TypeOK /\ Following /\ leg \in {"ASK", "MOVED"} /\ pc = "asking"
      /\ Loose(mem, 1) /\ Loose(mem, 2)
      /\ UNCHANGED <<ready, slotErr, sent>>
  <2>1. TypeOK /\ Following /\ leg \in {"ASK", "MOVED"} /\ pc = "asking" /\ Loose(mem, 1)
    BY DEF IInv, Asking, Course, Following
  <2> QED
    BY <2>1, LooseMore DEF Asking
<1>2. CASE Crash("nullReply")
  BY <1>1, <1>2, CrashKeeps
<1>3. CASE UNCHANGED <<leg, answered, target, cached, moved, crashed>> /\ Kept
  <2>1. TypeOK'
    BY <1>1, <1>3 DEF TypeOK, Kept, Room3, Memory
  <2> QED
    BY <1>3, <2>1 DEF IInv, Kept
<1>4. ASSUME Throw("LogicError", Append(mem, "held"), TRUE), UNCHANGED <<leg, crashed>>
      PROVE  Kept
  <2>1. pc' = "idle" /\ Closed(mem', outcome') /\ Thrown("LogicError")
    BY <1>1, <1>4, ThrowFreeEnds
  <2>2. "LogicError" \in ClusterException \cup Std \cup {CallbackException}
    BY DEF ClusterException, BadState
  <2> QED
    BY <1>1, <1>4, <2>1, <2>2, LaterThrow
<1>5. ASSUME pc' = "retry", mem' = Free(Append(mem, "held")),
             UNCHANGED <<leg, answered, target, outcome>>
      PROVE  Kept
  <2>1. Free(Append(mem, "held")) = Append(mem, "freed") /\ Loose(Append(mem, "freed"), 1 + 1)
    BY <1>1, FreeReply
  <2>2. Loose(mem', 2)
    <3>1. 1 + 1 = 2
      OBVIOUS
    <3> QED
      BY <1>5, <2>1, <3>1, Zenon
  <2> QED
    BY <1>1, <1>5, <2>2, LaterStep
<1>6. \/ Crash("nullReply")
      \/ /\ Throw("LogicError", Append(mem, "held"), TRUE)
         /\ UNCHANGED <<leg, answered, target, cached, moved, crashed>>
      \/ /\ pc' = "retry" /\ mem' = Free(Append(mem, "held"))
         /\ UNCHANGED <<leg, answered, target, cached, moved, outcome, crashed>>
  BY Zenon DEF Asking
<1>7. ASSUME UNCHANGED <<leg, answered, target, cached, moved, crashed>>
      PROVE  UNCHANGED <<leg, crashed>> /\ UNCHANGED <<leg, answered, target>>
  BY <1>7
<1> QED
  BY <1>2, <1>3, <1>4, <1>5, <1>6, <1>7

LEMMA AskReplyKeeps ==
  IInv /\ crashed = "no" /\ (\E text \in Text : AskReply(text)) => IInv'
<1> SUFFICES ASSUME IInv, crashed = "no", NEW text \in Text, AskReply(text) PROVE IInv'
  OBVIOUS
<1>1. /\ TypeOK /\ leg = "ASK" /\ Loose(mem, 2)
      /\ UNCHANGED <<ready, leg, answered, target, slotErr, cached, moved, crashed, sent>>
  BY DEF IInv, AskReply, Course
<1>2. ASSUME Throw("ClusterDown", Append(mem, "held"), TRUE)
      PROVE  Kept
  <2>1. pc' = "idle" /\ Closed(mem', outcome') /\ Thrown("ClusterDown")
    BY <1>1, <1>2, ThrowFreeEnds
  <2>2. "ClusterDown" \in ClusterException \cup Std \cup {CallbackException}
    BY DEF ClusterException, Critical
  <2> QED
    BY <1>1, <2>1, <2>2, LaterThrow
<1>3. ASSUME ~clusterDown(text), Return(text, Append(mem, "held"))
      PROVE  Kept
  <2>1. pc' = "idle" /\ Closed(mem', outcome') /\ Returned(text)
    BY <1>1, <1>3, ReturnEnds
  <2>2. Course' /\ Following' /\ Room3(mem')
    BY <2>1, EndKeeps
  <2>3. ~Contains(text, "CLUSTERDOWN")
    BY <1>3 DEF clusterDown
  <2>4. outcome' \in Outcome /\ FirstLegChecked'
    BY <1>1, <2>1, <2>3, ReturnedKeeps
  <2> QED
    BY <1>1, <2>1, <2>2, <2>4 DEF Kept
<1>4. Kept
  <2>1. PICK m : m = Append(mem, "held")
    OBVIOUS
  <2>2. Throw("ClusterDown", m, TRUE) \/ (~clusterDown(text) /\ Return(text, m))
    BY <2>1, Zenon DEF AskReply
  <2> QED
    BY <1>2, <1>3, <2>1, <2>2
<1>5. TypeOK'
  BY <1>1, <1>4 DEF TypeOK, Kept, Room3, Memory
<1> QED
  BY <1>4, <1>5 DEF IInv, Kept

LEMMA AskLostKeeps == IInv /\ crashed = "no" /\ AskLost => IInv'
<1> SUFFICES ASSUME IInv, crashed = "no", AskLost PROVE IInv'
  OBVIOUS
<1>1. Crash("garbageReply") /\ pc = "retry" /\ UNCHANGED <<ready, slotErr, sent>>
  BY DEF AskLost
<1> QED
  BY <1>1, CrashKeeps

(* The moved callback may throw, or delete the cluster.                    *)
LEMMA MovedCbKeeps ==
  ASSUME IInv, crashed = "no", leg = "MOVED", pc = "retry", Loose(mem, 2),
         NEW ACTION R, MovedCb(R), R /\ crashed' = "no" => Kept,
         UNCHANGED <<ready, leg, answered, target, slotErr, sent>>,
         \A k \in DOMAIN cached' : cached'[k] \in BOOLEAN
  PROVE  IInv'
<1>1. TypeOK /\ Following
  BY DEF IInv
<1>2. Kept /\ moved' = TRUE /\ crashed' \in {"no", "deletedCluster"}
  <2>1. CASE R /\ UNCHANGED crashed
    BY <2>1 DEF MovedCb
  <2>2. CASE Throw(CallbackException, Append(mem, "held"), FALSE) /\ UNCHANGED crashed
    <3>1. pc' = "idle" /\ Closed(mem', outcome') /\ Thrown(CallbackException)
      BY <2>2, ThrowHoldingEnds
    <3>2. Kept
      BY <2>2, <3>1, LaterThrow
    <3> QED
      BY <2>2, <3>2 DEF MovedCb
  <2>3. CASE crashed' = "deletedCluster" /\ UNCHANGED <<pc, mem, outcome>>
    <3>1. Kept
      BY <1>1, <2>3, LaterStep
    <3> QED
      BY <2>3, <3>1 DEF MovedCb
  <2> QED
    BY <2>1, <2>2, <2>3, Zenon DEF MovedCb
<1>3. TypeOK'
  BY <1>1, <1>2 DEF TypeOK, Kept, Room3, Memory
<1> QED
  BY <1>2, <1>3 DEF IInv, Kept

LEMMA MovedReplyKeeps ==
  IInv /\ crashed = "no" /\ (\E text \in Text : MovedReply(text)) => IInv'
<1> SUFFICES ASSUME IInv, crashed = "no", NEW text \in Text, MovedReply(text) PROVE IInv'
  OBVIOUS
<1>1. /\ TypeOK /\ leg = "MOVED" /\ pc = "retry" /\ Loose(mem, 2)
      /\ MovedCb(Return(text, Append(mem, "held")))
      /\ UNCHANGED <<ready, leg, answered, target, slotErr, cached, sent>>
  BY DEF IInv, MovedReply, Course
<1>2. ASSUME Return(text, Append(mem, "held")), crashed' = "no"
      PROVE  Kept
  <2>1. pc' = "idle" /\ Closed(mem', outcome') /\ Returned(text)
    BY <1>1, <1>2, ReturnEnds
  <2>2. Course' /\ Following' /\ Room3(mem')
    BY <2>1, EndKeeps
  <2>3. outcome' \in Outcome /\ FirstLegChecked'
    BY <1>1, <1>2, <2>1, ReturnedKeeps
  <2> QED
    BY <1>1, <2>1, <2>2, <2>3 DEF Kept
<1>3. \A k \in DOMAIN cached' : cached'[k] \in BOOLEAN
  BY <1>1 DEF TypeOK
<1> QED
  BY <1>1, <1>2, <1>3, MovedCbKeeps, Zenon

LEMMA MovedLostKeeps == IInv /\ crashed = "no" /\ MovedLost => IInv'
<1> SUFFICES ASSUME IInv, crashed = "no", MovedLost PROVE IInv'
  OBVIOUS
<1> DEFINE R == pc' = "idle" /\ outcome' = [by |-> "garbage"] /\ UNCHANGED mem
<1>1. /\ TypeOK /\ FirstLegChecked /\ leg = "MOVED" /\ pc = "retry" /\ Loose(mem, 2)
      /\ cached' = [cached EXCEPT ![target] = TRUE]
      /\ MovedCb(R)
      /\ UNCHANGED <<ready, leg, answered, target, slotErr, sent>>
  BY DEF IInv, MovedLost, Course
<1>2. ASSUME R, crashed' = "no"
      PROVE  Kept
  <2>1. Loose(mem, 3)
    BY <1>1, LooseMore
  <2>2. outcome'.by # "reply" /\ pc' = "idle" /\ mem' = mem
    BY <1>2
  <2>3. Closed(mem', outcome')
    BY <2>1, <2>2, ClosedLoose
  <2>4. Course' /\ Following' /\ Room3(mem')
    BY <2>2, <2>3, EndKeeps
  <2>5. outcome' \in Outcome
    BY <1>2 DEF Outcome
  <2>6. FirstLegChecked'
    BY <1>1, <1>2 DEF FirstLegChecked
  <2> QED
    BY <1>1, <2>2, <2>4, <2>5, <2>6 DEF Kept
<1>3. \A k \in DOMAIN cached' : cached'[k] \in BOOLEAN
  BY <1>1 DEF TypeOK
<1> HIDE DEF R
<1> QED
  BY <1>1, <1>2, <1>3, MovedCbKeeps, Zenon

-----------------------------------------------------------------------------
LEMMA NextIInv == IInv /\ [Next]_vars => IInv'
<1> SUFFICES ASSUME IInv, [Next]_vars PROVE IInv'
  OBVIOUS
<1>1. CASE Next
  BY <1>1, BeginKeeps, StopKeeps, SlotLostKeeps, SlotReplyKeeps, CreateNewConnectionKeeps,
     AskingKeeps, AskReplyKeeps, AskLostKeeps, MovedReplyKeeps, MovedLostKeeps, Zenon DEF Next
<1>2. CASE UNCHANGED vars
  BY <1>2 DEF vars, IInv, TypeOK, Course, Following, FirstLegChecked
<1> QED
  BY <1>1, <1>2

(* The inductive invariant: the memory of a command at each of its steps,  *)
(* and the first reply that it follows.                                    *)
THEOREM Invariance == Spec => []IInv
BY InitIInv, NextIInv, PTL DEF Spec

(* Every variable keeps its type, and a command has no more than three     *)
(* replies (HiredisCommand::process).                                      *)
THEOREM TypeCorrect == Spec => []TypeOK
<1>1. IInv => TypeOK
  BY DEF IInv
<1> QED
  BY <1>1, Invariance, PTL

(* Every reply is freed once or is the caller's, whatever the nodes        *)
(* answer, on every way out of process(); only a callback of setMovedCb    *)
(* that throws leaves one behind.                                          *)
THEOREM RepliesOnce == Spec => []ReplyOnce
<1>1. IInv => ReplyOnce
  <2> SUFFICES ASSUME IInv PROVE ReplyOnce
    OBVIOUS
  <2>1. CASE pc = "idle"
    BY <2>1 DEF IInv, Course, Closed, ReplyOnce
  <2>2. CASE pc # "idle"
    <3>1. Loose(mem, 2)
      BY <2>2, LooseMore DEF IInv, TypeOK, Course
    <3>2. DOMAIN mem = 1..Len(mem) /\ \A i \in 1..Len(mem) : mem[i] = "freed"
      BY <3>1, LooseFacts
    <3> QED
      BY <2>2, <3>2 DEF ReplyOnce
  <2> QED
    BY <2>1, <2>2
<1> QED
  BY <1>1, Invariance, PTL

(* parsehostport reads from the text of a redirection the address the node *)
(* wrote, for any host without a colon, and process() connects there.      *)
THEOREM FollowsAddress == Spec => []FollowsTold
<1>1. IInv => FollowsTold
  <2> SUFFICES ASSUME IInv, NEW a \in PlainAddress, pc # "idle", leg # "none",
                      answered = Redirect(leg, a)
               PROVE  target = a
    BY DEF FollowsTold
  <2>1. leg \in {"ASK", "MOVED"} /\ target = parsehostport(Redirect(leg, a))
    BY Zenon DEF IInv, TypeOK, Course, Following
  <2>2. a \in Address /\ ~Contains(a.host, ":")
    BY DEF PlainAddress
  <2> QED
    BY <2>1, <2>2, ParsesPlain, Zenon
<1> QED
  BY <1>1, Invariance, PTL

(* The first leg tests what it was answered: an unwritten reply, an        *)
(* untested CLUSTERDOWN or redirection, and an exception of the standard   *)
(* library come only out of the legs after it.                             *)
THEOREM FirstLeg == Spec => []FirstLegChecked
<1>1. IInv => FirstLegChecked
  BY DEF IInv
<1> QED
  BY <1>1, Invariance, PTL
=============================================================================
