--------------------------- MODULE SlotHashProofs ---------------------------
(***************************************************************************)
(* SlotHash computes the slot of the cluster specification, for every key. *)
(*                                                                         *)
(* The CRC is linear: with the exclusive or, which SlotHash defines as a   *)
(* sum over bits, one bit of the division is a linear map on the words of  *)
(* 16 bits, and so are eight.  Eight steps on a word are therefore the     *)
(* exclusive or of eight on its low byte, which only move it up, and of    *)
(* eight on its high byte, which the table gives; each entry of the table  *)
(* follows from the entry of half its index.  The recursions of SlotHash   *)
(* are unfolded by induction over naturals, with sets for predicates       *)
(* (UpTo), from functions that exist by such an induction (Recursion).     *)
(***************************************************************************)
EXTENDS SlotHash, WellFoundedInduction, SequenceTheorems, TLAPS

-----------------------------------------------------------------------------
(* Induction, for a set in place of a predicate.                           *)

(* The naturals are well-founded.                                          *)
LEMMA NonemptyHasMin ==
  ASSUME NEW S \in SUBSET Nat, S # {}
  PROVE  \E s \in S : \A u \in S : s <= u
<1>1. PICK s \in S : \A u \in S : <<u, s>> \notin OpToRel(<, Nat)
  BY NatLessThanWellFounded, WFMin
<1>2. \A u \in S : ~(u < s)
  BY <1>1 DEF OpToRel
<1> QED
  BY <1>2

(* What holds of 0 and is passed on holds up to the bound.                 *)
LEMMA UpTo ==
  ASSUME NEW n \in Nat, NEW S, 0 \in S,
         \A i \in 0..n : i # n /\ i \in S => i + 1 \in S
  PROVE  \A i \in 0..n : i \in S
<1> DEFINE T == {i \in 0..n : i \notin S}
<1> SUFFICES ASSUME T # {} PROVE FALSE
  OBVIOUS
<1>1. T \in SUBSET Nat
  OBVIOUS
<1>2. PICK t \in T : \A u \in T : t <= u
  BY <1>1, NonemptyHasMin
<1>3. t \in 0..n /\ t # 0 /\ t \notin S
  BY <1>2
<1>4. t - 1 \in 0..n /\ t - 1 # n /\ ~(t <= t - 1) /\ (t - 1) + 1 = t
  BY <1>3
<1>5. t - 1 \in S
  BY <1>2, <1>4
<1> QED
  BY <1>3, <1>4, <1>5

(* f is what the recursion over c and F computes for 0..n.  A recursive    *)
(* definition is a CHOOSE of such a function, so it needs one to exist.    *)
StepFunction(V, n) == [V \X (1..n) -> V]
Follows(f, n, c, F) == f[0] = c /\ \A i \in 1..n : f[i] = F[<<f[i - 1], i>>]

LEMMA Recursion ==
  ASSUME NEW n \in Nat, NEW V, NEW c \in V, NEW F \in StepFunction(V, n)
  PROVE  \E f \in [0..n -> V] : Follows(f, n, c, F)
<1> USE DEF StepFunction, Follows
<1> DEFINE Def(f, m) == f[0] = c /\ \A i \in 1..m : f[i] = F[<<f[i - 1], i>>]
           S == {m \in 0..n : \E f \in [0..m -> V] : Def(f, m)}
<1>1. 0 \in S
  <2>1. [i \in 0..0 |-> c] \in [0..0 -> V] /\ Def([i \in 0..0 |-> c], 0)
    OBVIOUS
  <2> HIDE DEF Def
  <2>2. \E f \in [0..0 -> V] : Def(f, 0)
    BY <2>1
  <2> QED
    BY <2>2
<1>2. ASSUME NEW m \in 0..n, m # n, m \in S PROVE m + 1 \in S
  <2>1. PICK f \in [0..m -> V] : Def(f, m)
    BY <1>2
  <2> DEFINE g == [i \in 0..(m + 1) |-> IF i = m + 1 THEN F[<<f[m], m + 1>>] ELSE f[i]]
  <2>2. m + 1 \in 1..n /\ f[m] \in V
    BY <1>2
  <2>3. F[<<f[m], m + 1>>] \in V
    BY <2>2
  <2>4. g \in [0..(m + 1) -> V]
    BY <2>3
  <2>5. Def(g, m + 1)
    <3>1. g[0] = c
      BY <2>1
    <3>2. ASSUME NEW i \in 1..(m + 1) PROVE g[i] = F[<<g[i - 1], i>>]
      <4>1. CASE i = m + 1
        <5>1. g[i - 1] = f[m] /\ g[i] = F[<<f[m], m + 1>>]
          BY <4>1
        <5> HIDE DEF g
        <5> QED
          BY <4>1, <5>1
      <4>2. CASE i # m + 1
        <5>1. i \in 1..m /\ g[i] = f[i] /\ g[i - 1] = f[i - 1]
          BY <4>2
        <5> QED
          BY <2>1, <5>1
      <4> QED
        BY <4>1, <4>2
    <3> QED
      BY <3>1, <3>2
  <2> HIDE DEF g, Def
  <2> QED
    BY <2>2, <2>4, <2>5
<1>3. n \in S
  <2> HIDE DEF S
  <2> QED
    BY <1>1, <1>2, UpTo
<1> QED
  BY <1>3

-----------------------------------------------------------------------------
(* Words of 16 bits.                                                       *)

Word == {n \in Nat : n < 65536}

(* The number x without its i low bits.                                    *)
Above(x, i) == x \div 2^i

(* A number is its half and its last bit.                                  *)
LEMMA Half ==
  ASSUME NEW n \in Nat
  PROVE  n % 2 \in {0, 1} /\ n \div 2 \in Nat /\ n = 2 * (n \div 2) + (n % 2)
OBVIOUS

(* The converse.                                                           *)
LEMMA Unhalf ==
  ASSUME NEW m \in Nat, NEW b \in {0, 1}
  PROVE  (b + 2 * m) % 2 = b /\ (b + 2 * m) \div 2 = m
OBVIOUS

(* Shifting by one more bit halves once more.                              *)
LEMMA ShiftHalves ==
  ASSUME NEW x \in Nat
  PROVE  /\ Above(x, 0) = x
         /\ \A i \in 0..15 : Above(x, i + 1) = Above(x, i) \div 2
         /\ \A i \in 0..16 : Above(x, i) \in Nat
<1>0. Above(x, 0) = x
  BY DEF Above
<1>1. /\ Above(x, 1) = Above(x, 0) \div 2
      /\ Above(x, 2) = Above(x, 1) \div 2
      /\ Above(x, 3) = Above(x, 2) \div 2
      /\ Above(x, 4) = Above(x, 3) \div 2
  BY DEF Above
<1>2. /\ Above(x, 5) = Above(x, 4) \div 2
      /\ Above(x, 6) = Above(x, 5) \div 2
      /\ Above(x, 7) = Above(x, 6) \div 2
      /\ Above(x, 8) = Above(x, 7) \div 2
  BY DEF Above
<1>3. /\ Above(x, 9) = Above(x, 8) \div 2
      /\ Above(x, 10) = Above(x, 9) \div 2
      /\ Above(x, 11) = Above(x, 10) \div 2
      /\ Above(x, 12) = Above(x, 11) \div 2
  BY DEF Above
<1>4. /\ Above(x, 13) = Above(x, 12) \div 2
      /\ Above(x, 14) = Above(x, 13) \div 2
      /\ Above(x, 15) = Above(x, 14) \div 2
      /\ Above(x, 16) = Above(x, 15) \div 2
  BY DEF Above
<1>5. \A i \in 0..15 : Above(x, i + 1) = Above(x, i) \div 2
  BY <1>1, <1>2, <1>3, <1>4
<1>6. \A i \in 0..16 : Above(x, i) \in Nat
  <2> DEFINE S == {i \in 0..16 : Above(x, i) \in Nat}
  <2>1. 0 \in S /\ \A i \in 0..16 : i # 16 /\ i \in S => i + 1 \in S
    BY <1>0, <1>5, Half
  <2>2. \A i \in 0..16 : i \in S
    <3> HIDE DEF S
    <3> QED
      BY <2>1, UpTo
  <2> QED
    BY <2>2
<1> QED
  BY <1>0, <1>5, <1>6

(* The bits of a number are the differences between its halvings.          *)
LEMMA BitOfShift ==
  ASSUME NEW x \in Nat, NEW i \in 0..15
  PROVE  /\ Bit(x, i) \in {0, 1}
         /\ Above(x, i) = 2 * Above(x, i + 1) + Bit(x, i)
<1>1. Above(x, i) \in Nat /\ Above(x, i + 1) = Above(x, i) \div 2
  BY ShiftHalves
<1>2. Bit(x, i) = Above(x, i) % 2
  BY DEF Bit, Above
<1> QED
  BY <1>1, <1>2, Half

(* A word has nothing above its 16 bits.                                   *)
LEMMA NothingAbove ==
  ASSUME NEW x \in Word
  PROVE  x \in Nat /\ Above(x, 0) = x /\ Above(x, 16) = 0
<1>1. x \in Nat /\ x < 65536
  BY DEF Word
<1>2. x \div 65536 = 0
  BY <1>1
<1> QED
  BY <1>1, <1>2, ShiftHalves DEF Above

(* Words with the same bits are equal.                                     *)
LEMMA SameBits ==
  ASSUME NEW x \in Word, NEW y \in Word, \A i \in 0..15 : Bit(x, i) = Bit(y, i)
  PROVE  x = y
<1> DEFINE S == {j \in 0..16 : Above(x, 16 - j) = Above(y, 16 - j)}
<1>1. \A i \in 0..15 : Above(x, i + 1) = Above(y, i + 1) => Above(x, i) = Above(y, i)
  BY NothingAbove, BitOfShift
<1>2. \A j \in 0..16 : j # 16 /\ j \in S => j + 1 \in S
  <2>1. TAKE j \in 0..16
  <2>2. HAVE j # 16 /\ j \in S
  <2>3. /\ 15 - j \in 0..15 /\ (15 - j) + 1 = 16 - j
        /\ 16 - (j + 1) = 15 - j /\ j + 1 \in 0..16
    BY <2>2
  <2> QED
    BY <1>1, <2>2, <2>3
<1>3. 0 \in S
  BY NothingAbove
<1>4. 16 \in S
  <2> HIDE DEF S
  <2> QED
    BY <1>2, <1>3, UpTo
<1> QED
  BY <1>4, NothingAbove

(* The bits of a number given by the chain of its halvings.                *)
LEMMA BitsOfChain ==
  ASSUME NEW b \in [0..15 -> {0, 1}], NEW z \in [0..16 -> Nat],
         \A i \in 0..15 : z[i] = b[i] + 2 * z[i + 1]
  PROVE  \A i \in 0..15 : Bit(z[0], i) = b[i]
<1> DEFINE S == {i \in 0..16 : Above(z[0], i) = z[i]}
<1>1. z[0] \in Nat /\ \A i \in 0..15 : z[i + 1] \in Nat /\ b[i] \in {0, 1}
  OBVIOUS
<1>2. ASSUME NEW i \in 0..15 PROVE z[i] \div 2 = z[i + 1] /\ z[i] % 2 = b[i]
  <2>1. z[i + 1] \in Nat /\ b[i] \in {0, 1} /\ z[i] = b[i] + 2 * z[i + 1]
    BY <1>1
  <2>2. (b[i] + 2 * z[i + 1]) \div 2 = z[i + 1] /\ (b[i] + 2 * z[i + 1]) % 2 = b[i]
    BY <2>1, Unhalf
  <2> QED
    BY <2>1, <2>2
<1>3. 0 \in S /\ \A i \in 0..16 : i # 16 /\ i \in S => i + 1 \in S
  BY <1>1, <1>2, ShiftHalves
<1>4. \A i \in 0..16 : i \in S
  <2> HIDE DEF S
  <2> QED
    BY <1>3, UpTo
<1>5. \A i \in 0..15 : Bit(z[0], i) = Above(z[0], i) % 2
  BY DEF Bit, Above
<1>6. ASSUME NEW i \in 0..15 PROVE Above(z[0], i) = z[i]
  BY <1>4
<1> QED
  BY <1>2, <1>5, <1>6

-----------------------------------------------------------------------------
(* Xor is the exclusive or of the bits.                                    *)

(* The prover evaluates a power of literals only.                          *)
LEMMA PowersOfTwo ==
  /\ 2^0 = 1 /\ 2^1 = 2 /\ 2^2 = 4 /\ 2^3 = 8 /\ 2^4 = 16 /\ 2^5 = 32 /\ 2^6 = 64
  /\ 2^7 = 128 /\ 2^8 = 256 /\ 2^9 = 512 /\ 2^10 = 1024 /\ 2^11 = 2048 /\ 2^12 = 4096
  /\ 2^13 = 8192 /\ 2^14 = 16384 /\ 2^15 = 32768
OBVIOUS

LEMMA PowersAreNat == \A i \in 0..15 : 2^i \in Nat
<1> DEFINE P(i) == 2^i
<1>1. P(0) \in Nat /\ P(1) \in Nat /\ P(2) \in Nat /\ P(3) \in Nat
  OBVIOUS
<1>2. P(4) \in Nat /\ P(5) \in Nat /\ P(6) \in Nat /\ P(7) \in Nat
  OBVIOUS
<1>3. P(8) \in Nat /\ P(9) \in Nat /\ P(10) \in Nat /\ P(11) \in Nat
  OBVIOUS
<1>4. P(12) \in Nat /\ P(13) \in Nat /\ P(14) \in Nat /\ P(15) \in Nat
  OBVIOUS
<1> HIDE DEF P
<1>5. \A i \in 0..15 : P(i) \in Nat
  BY <1>1, <1>2, <1>3, <1>4
<1> QED
  BY <1>5 DEF P

(* The recursion of Xor unfolds to a sum of sixteen terms.                 *)
LEMMA XorUnfolds ==
  ASSUME NEW x, NEW y
  PROVE  \E h \in [0..16 -> Nat] :
           /\ Xor(x, y) = h[16]
           /\ h[0] = 0
           /\ \A i \in 0..15 :
                h[i + 1] = h[i] + (IF Bit(x, i) = Bit(y, i) THEN 0 ELSE 2^i)
<1> DEFINE D(i) == IF Bit(x, i) = Bit(y, i) THEN 0 ELSE 2^i
           Eq(f) == f = [n \in 0..16 |-> IF n = 0 THEN 0 ELSE f[n - 1] + D(n - 1)]
           F == [p \in Nat \X (1..16) |-> p[1] + D(p[2] - 1)]
           h == CHOOSE f : Eq(f)
<1>1. \A i \in 0..15 : D(i) \in Nat
  BY PowersAreNat
<1>2. Xor(x, y) = h[16]
  <2>1. \A n : (IF Bit(x, n - 1) = Bit(y, n - 1) THEN 0 ELSE 2^(n - 1)) = D(n - 1)
    OBVIOUS
  <2> QED
    BY Zenon DEF Xor
<1> HIDE DEF D
<1>3. F \in StepFunction(Nat, 16)
  <2>1. ASSUME NEW p \in Nat \X (1..16) PROVE p[1] + D(p[2] - 1) \in Nat
    <3>1. p[1] \in Nat /\ p[2] - 1 \in 0..15
      OBVIOUS
    <3> QED
      BY <1>1, <3>1
  <2> QED
    BY <2>1 DEF StepFunction
<1>4. \E f : Eq(f)
  <2>1. PICK f \in [0..16 -> Nat] : f[0] = 0 /\ \A i \in 1..16 : f[i] = F[<<f[i - 1], i>>]
    <3> HIDE DEF F
    <3>1. \E f \in [0..16 -> Nat] : Follows(f, 16, 0, F)
      BY <1>3, Recursion
    <3> QED
      BY <3>1 DEF Follows
  <2>2. ASSUME NEW i \in 1..16 PROVE f[i] = f[i - 1] + D(i - 1)
    <3>1. f[i - 1] \in Nat
      OBVIOUS
    <3>2. F[<<f[i - 1], i>>] = f[i - 1] + D(i - 1)
      BY <3>1
    <3> QED
      BY <2>1, <3>2
  <2>3. Eq(f)
    <3>1. f = [n \in 0..16 |-> f[n]]
      OBVIOUS
    <3>2. \A n \in 0..16 : f[n] = IF n = 0 THEN 0 ELSE f[n - 1] + D(n - 1)
      BY <2>1, <2>2
    <3> QED
      BY <3>1, <3>2
  <2> QED
    BY <2>3
<1>5. Eq(h)
  <2> HIDE DEF Eq
  <2> QED
    BY <1>4
<1> HIDE DEF h
<1>6. h[0] = 0 /\ \A i \in 0..15 : h[i + 1] = h[i] + D(i)
  <2>1. \A n \in 0..16 : h[n] = IF n = 0 THEN 0 ELSE h[n - 1] + D(n - 1)
    BY <1>5
  <2>2. ASSUME NEW i \in 0..15 PROVE h[i + 1] = h[i] + D(i)
    <3>1. i + 1 \in 0..16 /\ i + 1 # 0 /\ (i + 1) - 1 = i
      OBVIOUS
    <3> QED
      BY <2>1, <3>1
  <2> QED
    BY <2>1, <2>2
<1>7. \A i \in 0..16 : h[i] \in Nat
  <2> DEFINE S == {i \in 0..16 : h[i] \in Nat}
  <2>1. ASSUME NEW i \in 0..15, h[i] \in Nat PROVE h[i + 1] \in Nat
    BY <1>1, <1>6, <2>1
  <2>2. 0 \in S /\ \A i \in 0..16 : i # 16 /\ i \in S => i + 1 \in S
    BY <1>6, <2>1
  <2>3. \A i \in 0..16 : i \in S
    <3> HIDE DEF S
    <3> QED
      BY <2>2, UpTo
  <2> QED
    BY <2>3
<1>8. h \in [0..16 -> Nat]
  <2>1. h = [n \in 0..16 |-> h[n]]
    BY <1>5
  <2> QED
    BY <1>7, <2>1
<1> QED
  BY <1>2, <1>6, <1>8 DEF D

(* The terms of the sum are the bits of a word: with the bits b, h the sums *)
(* so far and z what is left to add after the shift, h ends where z begins. *)
LEMMA XorBits ==
  ASSUME NEW x, NEW y
  PROVE  /\ Xor(x, y) \in Word
         /\ \A i \in 0..15 : Bit(Xor(x, y), i) = IF Bit(x, i) = Bit(y, i) THEN 0 ELSE 1
<1> DEFINE b == [i \in 0..15 |-> IF Bit(x, i) = Bit(y, i) THEN 0 ELSE 1]
           G == [p \in Nat \X (1..16) |-> b[16 - p[2]] + 2 * p[1]]
<1>1. b \in [0..15 -> {0, 1}]
  OBVIOUS
<1>2. PICK h \in [0..16 -> Nat] :
        /\ Xor(x, y) = h[16]
        /\ h[0] = 0
        /\ \A i \in 0..15 : h[i + 1] = h[i] + (IF Bit(x, i) = Bit(y, i) THEN 0 ELSE 2^i)
  BY XorUnfolds
<1>3. \A i \in 0..15 : h[i + 1] = h[i] + (IF b[i] = 0 THEN 0 ELSE 2^i)
  <2>1. ASSUME NEW i \in 0..15 PROVE b[i] = 0 <=> Bit(x, i) = Bit(y, i)
    OBVIOUS
  <2> HIDE DEF b
  <2> QED
    BY <1>2, <2>1
<1> HIDE DEF b
<1>4. G \in StepFunction(Nat, 16)
  <2>1. ASSUME NEW p \in Nat \X (1..16) PROVE b[16 - p[2]] + 2 * p[1] \in Nat
    <3>1. p[1] \in Nat /\ 16 - p[2] \in 0..15
      OBVIOUS
    <3>2. b[16 - p[2]] \in {0, 1}
      BY <1>1, <3>1
    <3> QED
      BY <3>1, <3>2
  <2> QED
    BY <2>1 DEF StepFunction
<1>5. PICK g \in [0..16 -> Nat] : g[0] = 0 /\ \A i \in 1..16 : g[i] = G[<<g[i - 1], i>>]
  <2> HIDE DEF G
  <2>1. \E g \in [0..16 -> Nat] : Follows(g, 16, 0, G)
    BY <1>4, Recursion
  <2> QED
    BY <2>1 DEF Follows
<1>6. ASSUME NEW i \in 1..16 PROVE g[i] = b[16 - i] + 2 * g[i - 1]
  <2>1. g[i - 1] \in Nat
    OBVIOUS
  <2>2. G[<<g[i - 1], i>>] = b[16 - i] + 2 * g[i - 1]
    BY <2>1
  <2> QED
    BY <1>5, <2>2
<1> DEFINE z == [i \in 0..16 |-> g[16 - i]]
<1>7. z \in [0..16 -> Nat]
  OBVIOUS
<1>8. ASSUME NEW i \in 0..15 PROVE z[i] = b[i] + 2 * z[i + 1]
  <2>1. /\ 16 - i \in 1..16 /\ 16 - (16 - i) = i /\ (16 - i) - 1 = 16 - (i + 1)
        /\ i + 1 \in 0..16 /\ i \in 0..16
    OBVIOUS
  <2>2. z[i] = g[16 - i] /\ z[i + 1] = g[16 - (i + 1)]
    BY <2>1
  <2> QED
    BY <1>6, <2>1, <2>2
<1>9. z[16] = 0
  BY <1>5
<1> HIDE DEF z, G
<1>10. ASSUME NEW i \in 0..15 PROVE b[i] \in {0, 1} /\ z[i + 1] \in Nat /\ h[i] \in Nat
  BY <1>1, <1>7
<1> DEFINE nibble(i) == b[i] + 2 * b[i + 1] + 4 * b[i + 2] + 8 * b[i + 3]
<1>11. /\ nibble(0) \in 0..15
       /\ h[4] = h[0] + 1 * nibble(0)
       /\ z[0] = nibble(0) + 16 * z[4]
  <2>1. /\ h[1] = h[0] + 1 * b[0]
        /\ h[2] = h[1] + 2 * b[1]
        /\ h[3] = h[2] + 4 * b[2]
        /\ h[4] = h[3] + 8 * b[3]
    BY <1>3, <1>10, PowersOfTwo
  <2>2. /\ z[0] = b[0] + 2 * z[1]
        /\ z[1] = b[1] + 2 * z[2]
        /\ z[2] = b[2] + 2 * z[3]
        /\ z[3] = b[3] + 2 * z[4]
    BY <1>8
  <2>3. b[0] \in 0..1 /\ b[1] \in 0..1 /\ b[2] \in 0..1 /\ b[3] \in 0..1
    BY <1>10
  <2>4. h[0] \in Nat /\ z[4] \in Nat
    BY <1>7
  <2> QED
    BY <2>1, <2>2, <2>3, <2>4
<1>12. /\ nibble(4) \in 0..15
       /\ h[8] = h[4] + 16 * nibble(4)
       /\ z[4] = nibble(4) + 16 * z[8]
  <2>1. /\ h[5] = h[4] + 16 * b[4]
        /\ h[6] = h[5] + 32 * b[5]
        /\ h[7] = h[6] + 64 * b[6]
        /\ h[8] = h[7] + 128 * b[7]
    BY <1>3, <1>10, PowersOfTwo
  <2>2. /\ z[4] = b[4] + 2 * z[5]
        /\ z[5] = b[5] + 2 * z[6]
        /\ z[6] = b[6] + 2 * z[7]
        /\ z[7] = b[7] + 2 * z[8]
    BY <1>8
  <2>3. b[4] \in 0..1 /\ b[5] \in 0..1 /\ b[6] \in 0..1 /\ b[7] \in 0..1
    BY <1>10
  <2>4. h[4] \in Nat /\ z[8] \in Nat
    BY <1>7
  <2> QED
    BY <2>1, <2>2, <2>3, <2>4
<1>13. /\ nibble(8) \in 0..15
       /\ h[12] = h[8] + 256 * nibble(8)
       /\ z[8] = nibble(8) + 16 * z[12]
  <2>1. /\ h[9] = h[8] + 256 * b[8]
        /\ h[10] = h[9] + 512 * b[9]
        /\ h[11] = h[10] + 1024 * b[10]
        /\ h[12] = h[11] + 2048 * b[11]
    BY <1>3, <1>10, PowersOfTwo
  <2>2. /\ z[8] = b[8] + 2 * z[9]
        /\ z[9] = b[9] + 2 * z[10]
        /\ z[10] = b[10] + 2 * z[11]
        /\ z[11] = b[11] + 2 * z[12]
    BY <1>8
  <2>3. b[8] \in 0..1 /\ b[9] \in 0..1 /\ b[10] \in 0..1 /\ b[11] \in 0..1
    BY <1>10
  <2>4. h[8] \in Nat /\ z[12] \in Nat
    BY <1>7
  <2> QED
    BY <2>1, <2>2, <2>3, <2>4
<1>14. /\ nibble(12) \in 0..15
       /\ h[16] = h[12] + 4096 * nibble(12)
       /\ z[12] = nibble(12) + 16 * z[16]
  <2>1. /\ h[13] = h[12] + 4096 * b[12]
        /\ h[14] = h[13] + 8192 * b[13]
        /\ h[15] = h[14] + 16384 * b[14]
        /\ h[16] = h[15] + 32768 * b[15]
    BY <1>3, <1>10, PowersOfTwo
  <2>2. /\ z[12] = b[12] + 2 * z[13]
        /\ z[13] = b[13] + 2 * z[14]
        /\ z[14] = b[14] + 2 * z[15]
        /\ z[15] = b[15] + 2 * z[16]
    BY <1>8
  <2>3. b[12] \in 0..1 /\ b[13] \in 0..1 /\ b[14] \in 0..1 /\ b[15] \in 0..1
    BY <1>10
  <2>4. h[12] \in Nat /\ z[16] \in Nat
    BY <1>7
  <2> QED
    BY <2>1, <2>2, <2>3, <2>4
<1>15. h[16] = z[0] /\ h[16] \in Word
  <2> DEFINE n0 == nibble(0)  n1 == nibble(4)  n2 == nibble(8)  n3 == nibble(12)
  <2> HIDE DEF nibble
  <2>1. /\ n0 \in Nat /\ n0 < 16 /\ n1 \in Nat /\ n1 < 16
        /\ n2 \in Nat /\ n2 < 16 /\ n3 \in Nat /\ n3 < 16
    BY <1>11, <1>12, <1>13, <1>14
  <2>2. /\ h[4] = n0 /\ h[8] = h[4] + 16 * n1
        /\ h[12] = h[8] + 256 * n2 /\ h[16] = h[12] + 4096 * n3
        /\ z[0] = n0 + 16 * z[4] /\ z[4] = n1 + 16 * z[8]
        /\ z[8] = n2 + 16 * z[12] /\ z[12] = n3
    BY <1>2, <1>9, <1>11, <1>12, <1>13, <1>14, <2>1
  <2> HIDE DEF n0, n1, n2, n3
  <2>3. h[8] = n0 + 16 * n1 /\ z[8] = n2 + 16 * n3
    BY <2>1, <2>2, SMT
  <2>4. h[12] = n0 + 16 * n1 + 256 * n2 /\ z[4] = n1 + 16 * n2 + 256 * n3
    BY <2>1, <2>2, <2>3, SMT
  <2>5. h[16] = n0 + 16 * n1 + 256 * n2 + 4096 * n3
    BY <2>1, <2>2, <2>4, SMT
  <2>6. z[0] = n0 + 16 * n1 + 256 * n2 + 4096 * n3
    BY <2>1, <2>2, <2>4, SMT
  <2>7. h[16] \in Nat /\ h[16] < 65536
    BY <2>1, <2>5, SMT
  <2> QED
    BY <2>5, <2>6, <2>7, SMT DEF Word
<1>16. \A i \in 0..15 : Bit(z[0], i) = b[i]
  BY <1>1, <1>7, <1>8, BitsOfChain
<1> QED
  BY <1>2, <1>15, <1>16 DEF b

(* The laws of the exclusive or follow from those of bits.                 *)
LEMMA XorCommutes ==
  ASSUME NEW x, NEW y
  PROVE  Xor(x, y) = Xor(y, x)
<1>1. Xor(x, y) \in Word /\ Xor(y, x) \in Word
  BY XorBits
<1>2. \A i \in 0..15 : Bit(Xor(x, y), i) = Bit(Xor(y, x), i)
  BY XorBits
<1> QED
  BY <1>1, <1>2, SameBits

LEMMA XorAssociates ==
  ASSUME NEW x \in Word, NEW y \in Word, NEW z \in Word
  PROVE  Xor(Xor(x, y), z) = Xor(x, Xor(y, z))
<1>1. Xor(Xor(x, y), z) \in Word /\ Xor(x, Xor(y, z)) \in Word
  BY XorBits
<1>2. ASSUME NEW i \in 0..15
      PROVE  Bit(Xor(Xor(x, y), z), i) = Bit(Xor(x, Xor(y, z)), i)
  <2>1. Bit(x, i) \in {0, 1} /\ Bit(y, i) \in {0, 1} /\ Bit(z, i) \in {0, 1}
    BY BitOfShift DEF Word
  <2>2. /\ Bit(Xor(x, y), i) = IF Bit(x, i) = Bit(y, i) THEN 0 ELSE 1
        /\ Bit(Xor(y, z), i) = IF Bit(y, i) = Bit(z, i) THEN 0 ELSE 1
        /\ Bit(Xor(Xor(x, y), z), i) = IF Bit(Xor(x, y), i) = Bit(z, i) THEN 0 ELSE 1
        /\ Bit(Xor(x, Xor(y, z)), i) = IF Bit(x, i) = Bit(Xor(y, z), i) THEN 0 ELSE 1
    BY XorBits
  <2> QED
    BY <2>1, <2>2
<1> QED
  BY <1>1, <1>2, SameBits

(* Four words may be paired in another way.                                *)
LEMMA XorPairs ==
  ASSUME NEW a \in Word, NEW b \in Word, NEW c \in Word, NEW d \in Word
  PROVE  Xor(Xor(a, b), Xor(c, d)) = Xor(Xor(a, c), Xor(b, d))
<1>1. Xor(a, b) \in Word /\ Xor(c, d) \in Word /\ Xor(b, d) \in Word /\ Xor(c, b) \in Word
  BY XorBits
<1>2. Xor(Xor(a, b), Xor(c, d)) = Xor(a, Xor(b, Xor(c, d)))
  BY <1>1, XorAssociates
<1>3. Xor(b, Xor(c, d)) = Xor(Xor(b, c), d)
  BY XorAssociates
<1>4. Xor(Xor(b, c), d) = Xor(c, Xor(b, d))
  BY XorAssociates, XorCommutes
<1>5. Xor(a, Xor(c, Xor(b, d))) = Xor(Xor(a, c), Xor(b, d))
  BY <1>1, XorAssociates
<1> QED
  BY <1>2, <1>3, <1>4, <1>5

LEMMA XorZero ==
  ASSUME NEW x \in Word
  PROVE  Xor(x, 0) = x /\ Xor(0, x) = x
<1> DEFINE b(i) == Bit(0, i)
<1>1. /\ b(0) = 0 /\ b(1) = 0 /\ b(2) = 0 /\ b(3) = 0
      /\ b(4) = 0 /\ b(5) = 0 /\ b(6) = 0 /\ b(7) = 0
      /\ b(8) = 0 /\ b(9) = 0 /\ b(10) = 0 /\ b(11) = 0
      /\ b(12) = 0 /\ b(13) = 0 /\ b(14) = 0 /\ b(15) = 0
  BY DEF Bit
<1> HIDE DEF b
<1>2. ASSUME NEW i \in 0..15 PROVE b(i) = 0
  BY <1>1
<1>3. \A i \in 0..15 : Bit(x, i) \in {0, 1}
  BY BitOfShift DEF Word
<1>4. \A i \in 0..15 : Bit(Xor(x, 0), i) = Bit(x, i)
  BY <1>2, <1>3, XorBits DEF b
<1>5. Xor(x, 0) = x
  BY <1>4, SameBits, XorBits
<1> QED
  BY <1>5, XorCommutes

LEMMA XorSelf ==
  ASSUME NEW x \in Word
  PROVE  Xor(x, x) = 0
<1>1. \A i \in 0..15 : Bit(Xor(x, x), i) = 0
  BY XorBits
<1>2. Xor(x, x) \in Word /\ Xor(0, 0) \in Word /\ Xor(0, 0) = 0
  BY XorBits, XorZero DEF Word
<1>3. \A i \in 0..15 : Bit(Xor(0, 0), i) = 0
  BY XorBits
<1> QED
  BY <1>1, <1>2, <1>3, SameBits

-----------------------------------------------------------------------------
(* One bit of the division is linear.                                      *)

Double(r) == (2 * r) % 65536

(* Shifting a word to the left moves its bits up.                          *)
LEMMA BitsOfDouble ==
  ASSUME NEW r \in Word
  PROVE  /\ Double(r) \in Word
         /\ Bit(Double(r), 0) = 0
         /\ \A i \in 0..14 : Bit(Double(r), i + 1) = Bit(r, i)
<1>1. r \in Nat /\ r < 65536
  BY DEF Word
<1>2. Double(r) \in Word /\ Bit(Double(r), 0) = 0
  BY <1>1, SMT DEF Double, Word, Bit
<1> DEFINE d(i) == Bit(Double(r), i)
           c(i) == Bit(r, i)
<1>3. d(1) = c(0) /\ d(2) = c(1) /\ d(3) = c(2)
  BY <1>1, SMT DEF Double, Bit
<1>4. d(4) = c(3) /\ d(5) = c(4) /\ d(6) = c(5)
  BY <1>1, SMT DEF Double, Bit
<1>5. d(7) = c(6) /\ d(8) = c(7) /\ d(9) = c(8)
  BY <1>1, SMT DEF Double, Bit
<1>6. d(10) = c(9) /\ d(11) = c(10) /\ d(12) = c(11)
  BY <1>1, SMT DEF Double, Bit
<1>7. d(13) = c(12) /\ d(14) = c(13) /\ d(15) = c(14)
  BY <1>1, SMT DEF Double, Bit
<1> HIDE DEF d, c
<1>8. ASSUME NEW i \in 0..14 PROVE d(i + 1) = c(i)
  BY <1>3, <1>4, <1>5, <1>6, <1>7
<1> QED
  BY <1>2, <1>8 DEF d, c

(* Hence it is linear.                                                     *)
LEMMA DoubleIsLinear ==
  ASSUME NEW x \in Word, NEW y \in Word
  PROVE  Double(Xor(x, y)) = Xor(Double(x), Double(y))
<1>1. /\ Xor(x, y) \in Word /\ Double(Xor(x, y)) \in Word
      /\ Xor(Double(x), Double(y)) \in Word
  BY XorBits, BitsOfDouble
<1>2. Bit(Double(Xor(x, y)), 0) = Bit(Xor(Double(x), Double(y)), 0)
  BY <1>1, XorBits, BitsOfDouble
<1>3. ASSUME NEW i \in 0..14
      PROVE  Bit(Double(Xor(x, y)), i + 1) = Bit(Xor(Double(x), Double(y)), i + 1)
  <2>1. i \in 0..15 /\ i + 1 \in 0..15
    OBVIOUS
  <2>2. /\ Bit(Double(Xor(x, y)), i + 1) = Bit(Xor(x, y), i)
        /\ Bit(Double(x), i + 1) = Bit(x, i)
        /\ Bit(Double(y), i + 1) = Bit(y, i)
    BY <1>1, BitsOfDouble
  <2> QED
    BY <2>1, <2>2, XorBits
<1>4. ASSUME NEW i \in 0..15
      PROVE  Bit(Double(Xor(x, y)), i) = Bit(Xor(Double(x), Double(y)), i)
  <2>1. CASE i = 0
    BY <1>2, <2>1
  <2>2. CASE i # 0
    <3>1. i - 1 \in 0..14 /\ (i - 1) + 1 = i
      BY <2>2
    <3> QED
      BY <1>3, <3>1
  <2> QED
    BY <2>1, <2>2
<1> QED
  BY <1>1, <1>4, SameBits

(* ShiftBit divides by the polynomial when the highest bit is set.         *)
LEMMA ShiftBitCases ==
  ASSUME NEW r \in Word
  PROVE  /\ ShiftBit(r) \in Word
         /\ Bit(r, 15) \in {0, 1}
         /\ r < 32768 <=> Bit(r, 15) = 0
         /\ r < 32768 => ShiftBit(r) = 2 * r
         /\ ShiftBit(r) = IF Bit(r, 15) = 1 THEN Xor(Double(r), 4129) ELSE Double(r)
<1>1. r \in Nat /\ r < 65536
  BY DEF Word
<1>2. Bit(r, 15) \in {0, 1} /\ (r < 32768 <=> Bit(r, 15) = 0)
  BY <1>1, SMT DEF Bit
<1>3. r >= 32768 => (r - 32768) * 2 = Double(r)
  BY <1>1, SMT DEF Double
<1>4. r < 32768 => r * 2 = Double(r) /\ r * 2 = 2 * r
  BY <1>1, SMT DEF Double
<1>5. \h1021 = 4129
  BY SMT
<1>6. Double(r) \in Word
  BY BitsOfDouble
<1>7. r >= 32768 <=> ~(r < 32768)
  BY <1>1
<1> QED
  BY <1>2, <1>3, <1>4, <1>5, <1>6, <1>7, XorBits, SMT DEF ShiftBit

(* Two words with the highest bit set cancel their polynomials.            *)
LEMMA ShiftBitIsLinear ==
  ASSUME NEW x \in Word, NEW y \in Word
  PROVE  ShiftBit(Xor(x, y)) = Xor(ShiftBit(x), ShiftBit(y))
<1> DEFINE a == Double(x)
           b == Double(y)
<1>1. a \in Word /\ b \in Word /\ 4129 \in Word /\ 0 \in Word
  BY BitsOfDouble, SMT DEF Word
<1>2. Xor(x, y) \in Word /\ Double(Xor(x, y)) = Xor(a, b)
  BY XorBits, DoubleIsLinear
<1>3. Bit(Xor(x, y), 15) = IF Bit(x, 15) = Bit(y, 15) THEN 0 ELSE 1
  BY XorBits
<1>4. Xor(Xor(a, 4129), Xor(b, 4129)) = Xor(a, b)
  <2>1. Xor(Xor(a, 4129), Xor(b, 4129)) = Xor(Xor(a, b), Xor(4129, 4129))
    BY <1>1, XorPairs
  <2> QED
    BY <1>1, <2>1, XorBits, XorSelf, XorZero
<1>5. /\ Xor(Xor(a, 4129), b) = Xor(Xor(a, b), 4129)
      /\ Xor(a, Xor(b, 4129)) = Xor(Xor(a, b), 4129)
  <2>1. Xor(a, Xor(b, 4129)) = Xor(Xor(a, b), 4129)
    BY <1>1, XorAssociates
  <2>2. Xor(Xor(a, 4129), b) = Xor(a, Xor(4129, b))
    BY <1>1, XorAssociates
  <2> QED
    BY <2>1, <2>2, XorCommutes
<1>6. /\ Bit(x, 15) \in {0, 1} /\ Bit(y, 15) \in {0, 1}
      /\ ShiftBit(x) = IF Bit(x, 15) = 1 THEN Xor(a, 4129) ELSE a
      /\ ShiftBit(y) = IF Bit(y, 15) = 1 THEN Xor(b, 4129) ELSE b
      /\ ShiftBit(Xor(x, y)) =
           IF Bit(Xor(x, y), 15) = 1 THEN Xor(Xor(a, b), 4129) ELSE Xor(a, b)
  BY <1>2, ShiftBitCases
<1> HIDE DEF a, b
<1> QED
  BY <1>3, <1>4, <1>5, <1>6

-----------------------------------------------------------------------------
(* The table holds the remainders of the bytes.                            *)

(* The exclusive or with 4129, in arithmetic.                              *)
Flip(y) == y + (IF y % 2 = 0 THEN 1 ELSE -1) + (IF (y \div 32) % 2 = 0 THEN 32 ELSE -32)
             + (IF (y \div 4096) % 2 = 0 THEN 4096 ELSE -4096)

(* Bits 0, 5 and 12 change, and no other.                                  *)
LEMMA FlipIsXor ==
  ASSUME NEW y \in Word
  PROVE  Xor(y, 4129) = Flip(y)
<1>1. y \in Nat /\ y < 65536
  BY DEF Word
<1>2. Flip(y) \in Word
  BY <1>1, SMT DEF Flip, Word
<1> DEFINE f(i) == Bit(Flip(y), i)
           b(i) == Bit(y, i)
           c(i) == Bit(4129, i)
           m == (y \div 2) % 16
           n == (y \div 64) % 64
           k == y \div 8192
<1>3. m \in Nat /\ m < 16 /\ n \in Nat /\ n < 64 /\ k \in Nat /\ k < 8
  BY <1>1, SMT
<1>4. y % 2 \in {0, 1} /\ (y \div 32) % 2 \in {0, 1} /\ (y \div 4096) % 2 \in {0, 1}
  BY <1>1, SMT
<1>5. y = (y % 2) + 2 * m + 32 * ((y \div 32) % 2) + 64 * n
          + 4096 * ((y \div 4096) % 2) + 8192 * k
  BY <1>1, SMT
<1> HIDE DEF m, n, k
<1>6. Flip(y) = (1 - (y % 2)) + 2 * m + 32 * (1 - ((y \div 32) % 2)) + 64 * n
                + 4096 * (1 - ((y \div 4096) % 2)) + 8192 * k
  BY <1>1, <1>3, <1>4, <1>5, SMT DEF Flip
<1>7. PICK b0 \in {0, 1}, b5 \in {0, 1}, b12 \in {0, 1} :
        /\ y = b0 + 2 * m + 32 * b5 + 64 * n + 4096 * b12 + 8192 * k
        /\ Flip(y) = (1 - b0) + 2 * m + 32 * (1 - b5) + 64 * n + 4096 * (1 - b12) + 8192 * k
  BY <1>4, <1>5, <1>6
<1>8. c(0) = 1 /\ f(0) = 1 - b(0)
  BY <1>3, <1>7, SMT DEF Bit
<1>9. c(1) = 0 /\ f(1) = b(1)
  BY <1>3, <1>7, SMT DEF Bit
<1>10. c(2) = 0 /\ f(2) = b(2)
  BY <1>3, <1>7, SMT DEF Bit
<1>11. c(3) = 0 /\ f(3) = b(3)
  BY <1>3, <1>7, SMT DEF Bit
<1>12. c(4) = 0 /\ f(4) = b(4)
  BY <1>3, <1>7, SMT DEF Bit
<1>13. c(5) = 1 /\ f(5) = 1 - b(5)
  BY <1>3, <1>7, SMT DEF Bit
<1>14. c(6) = 0 /\ f(6) = b(6)
  <2>1. /\ y \div 2^6 = (n \div 1) + 64 * b12 + 128 * k
        /\ Flip(y) \div 2^6 = (n \div 1) + 64 * (1 - b12) + 128 * k
    BY <1>3, <1>7, SMT
  <2>2. 4129 \div 2^6 = 64
    BY SMT
  <2> QED
    BY <1>3, <1>7, <2>1, <2>2, SMT DEF Bit
<1>15. c(7) = 0 /\ f(7) = b(7)
  <2>1. /\ y \div 2^7 = (n \div 2) + 32 * b12 + 64 * k
        /\ Flip(y) \div 2^7 = (n \div 2) + 32 * (1 - b12) + 64 * k
    BY <1>3, <1>7, SMT
  <2>2. 4129 \div 2^7 = 32
    BY SMT
  <2> QED
    BY <1>3, <1>7, <2>1, <2>2, SMT DEF Bit
<1>16. c(8) = 0 /\ f(8) = b(8)
  <2>1. /\ y \div 2^8 = (n \div 4) + 16 * b12 + 32 * k
        /\ Flip(y) \div 2^8 = (n \div 4) + 16 * (1 - b12) + 32 * k
    BY <1>3, <1>7, SMT
  <2>2. 4129 \div 2^8 = 16
    BY SMT
  <2> QED
    BY <1>3, <1>7, <2>1, <2>2, SMT DEF Bit
<1>17. c(9) = 0 /\ f(9) = b(9)
  <2>1. /\ y \div 2^9 = (n \div 8) + 8 * b12 + 16 * k
        /\ Flip(y) \div 2^9 = (n \div 8) + 8 * (1 - b12) + 16 * k
    BY <1>3, <1>7, SMT
  <2>2. 4129 \div 2^9 = 8
    BY SMT
  <2> QED
    BY <1>3, <1>7, <2>1, <2>2, SMT DEF Bit
<1>18. c(10) = 0 /\ f(10) = b(10)
  <2>1. /\ y \div 2^10 = (n \div 16) + 4 * b12 + 8 * k
        /\ Flip(y) \div 2^10 = (n \div 16) + 4 * (1 - b12) + 8 * k
    BY <1>3, <1>7, SMT
  <2>2. 4129 \div 2^10 = 4
    BY SMT
  <2> QED
    BY <1>3, <1>7, <2>1, <2>2, SMT DEF Bit
<1>19. c(11) = 0 /\ f(11) = b(11)
  <2>1. /\ y \div 2^11 = (n \div 32) + 2 * b12 + 4 * k
        /\ Flip(y) \div 2^11 = (n \div 32) + 2 * (1 - b12) + 4 * k
    BY <1>3, <1>7, SMT
  <2>2. 4129 \div 2^11 = 2
    BY SMT
  <2> QED
    BY <1>3, <1>7, <2>1, <2>2, SMT DEF Bit
<1>20. c(12) = 1 /\ f(12) = 1 - b(12)
  BY <1>3, <1>7, SMT DEF Bit
<1>21. c(13) = 0 /\ f(13) = b(13)
  BY <1>3, <1>7, SMT DEF Bit
<1>22. c(14) = 0 /\ f(14) = b(14)
  BY <1>3, <1>7, SMT DEF Bit
<1>23. c(15) = 0 /\ f(15) = b(15)
  BY <1>3, <1>7, SMT DEF Bit
<1> HIDE DEF f, b, c
<1>24. ASSUME NEW i \in 0..15
       PROVE  /\ c(i) = (IF i \in {0, 5, 12} THEN 1 ELSE 0)
              /\ f(i) = IF i \in {0, 5, 12} THEN 1 - b(i) ELSE b(i)
  BY <1>8, <1>9, <1>10, <1>11, <1>12, <1>13, <1>14, <1>15,
     <1>16, <1>17, <1>18, <1>19, <1>20, <1>21, <1>22, <1>23
<1>25. \A i \in 0..15 : b(i) \in {0, 1}
  BY <1>1, BitOfShift DEF b
<1>26. \A i \in 0..15 : Bit(Xor(y, 4129), i) = IF b(i) = c(i) THEN 0 ELSE 1
  BY XorBits DEF b, c
<1>27. \A i \in 0..15 : Bit(Xor(y, 4129), i) = f(i)
  BY <1>24, <1>25, <1>26
<1> QED
  BY <1>2, <1>27, XorBits, SameBits DEF f

(* The form in which the table is compared with the division.              *)
LEMMA ShiftBitByFlip ==
  ASSUME NEW r \in Word
  PROVE  ShiftBit(r) = IF r < 32768 THEN 2 * r ELSE Flip(2 * r - 65536)
<1>1. r \in Nat /\ r < 65536
  BY DEF Word
<1>2. r >= 32768 => Double(r) = 2 * r - 65536
  BY <1>1, SMT DEF Double
<1>3. Double(r) \in Word
  BY BitsOfDouble
<1>4. r < 32768 \/ r >= 32768
  BY <1>1
<1> QED
  BY <1>1, <1>2, <1>3, <1>4, ShiftBitCases, FlipIsXor, SMT

(* Each pair of entries follows from the entry of half the index.          *)
Row(u) ==
  /\ crc16tab[2 * u + 1] = IF crc16tab[u + 1] < 32768 THEN 2 * crc16tab[u + 1]
                           ELSE Flip(2 * crc16tab[u + 1] - 65536)
  /\ crc16tab[2 * u + 2] = Flip(crc16tab[2 * u + 1])

(* By evaluation of the table.                                             *)
LEMMA Rows ==
  ASSUME NEW u \in Nat, u < 128
  PROVE  Row(u)
<1>1. \A v \in 0..15 : Row(v)
  BY SMT DEF crc16tab, Flip, Row
<1>2. \A v \in 16..31 : Row(v)
  BY SMT DEF crc16tab, Flip, Row
<1>3. \A v \in 32..47 : Row(v)
  BY SMT DEF crc16tab, Flip, Row
<1>4. \A v \in 48..63 : Row(v)
  BY SMT DEF crc16tab, Flip, Row
<1>5. \A v \in 64..79 : Row(v)
  BY SMT DEF crc16tab, Flip, Row
<1>6. \A v \in 80..95 : Row(v)
  BY SMT DEF crc16tab, Flip, Row
<1>7. \A v \in 96..111 : Row(v)
  BY SMT DEF crc16tab, Flip, Row
<1>8. \A v \in 112..127 : Row(v)
  BY SMT DEF crc16tab, Flip, Row
<1>9. \/ u \in 0..15 \/ u \in 16..31 \/ u \in 32..47 \/ u \in 48..63
      \/ u \in 64..79 \/ u \in 80..95 \/ u \in 96..111 \/ u \in 112..127
  OBVIOUS
<1> QED
  BY <1>1, <1>2, <1>3, <1>4, <1>5, <1>6, <1>7, <1>8, <1>9

-----------------------------------------------------------------------------
(* Eight bits of the division.                                             *)

Shift8(r) == ShiftBit(ShiftBit(ShiftBit(ShiftBit(ShiftBit(ShiftBit(ShiftBit(ShiftBit(r))))))))

(* They take a word to a word,                                             *)
LEMMA Shift8Type ==
  ASSUME NEW x \in Word
  PROVE  Shift8(x) \in Word
<1>1. \A w \in Word : ShiftBit(w) \in Word
  BY ShiftBitCases
<1> QED
  BY <1>1, Zenon DEF Shift8

(* and are linear.                                                         *)
LEMMA Shift8Linear ==
  ASSUME NEW x \in Word, NEW y \in Word
  PROVE  Shift8(Xor(x, y)) = Xor(Shift8(x), Shift8(y))
<1> DEFINE x1 == ShiftBit(x)   y1 == ShiftBit(y)
           x2 == ShiftBit(x1)  y2 == ShiftBit(y1)
           x3 == ShiftBit(x2)  y3 == ShiftBit(y2)
           x4 == ShiftBit(x3)  y4 == ShiftBit(y3)
           x5 == ShiftBit(x4)  y5 == ShiftBit(y4)
           x6 == ShiftBit(x5)  y6 == ShiftBit(y5)
           x7 == ShiftBit(x6)  y7 == ShiftBit(y6)
<1>1. \A w \in Word : ShiftBit(w) \in Word
  BY ShiftBitCases
<1>2. \A v, w \in Word : ShiftBit(Xor(v, w)) = Xor(ShiftBit(v), ShiftBit(w))
  BY ShiftBitIsLinear
<1>3. /\ x1 \in Word /\ y1 \in Word /\ x2 \in Word /\ y2 \in Word /\ x3 \in Word /\ y3 \in Word
      /\ x4 \in Word /\ y4 \in Word /\ x5 \in Word /\ y5 \in Word /\ x6 \in Word /\ y6 \in Word
      /\ x7 \in Word /\ y7 \in Word
  BY <1>1, Zenon
<1>4. /\ ShiftBit(Xor(x, y)) = Xor(x1, y1)
      /\ ShiftBit(Xor(x1, y1)) = Xor(x2, y2)
      /\ ShiftBit(Xor(x2, y2)) = Xor(x3, y3)
      /\ ShiftBit(Xor(x3, y3)) = Xor(x4, y4)
      /\ ShiftBit(Xor(x4, y4)) = Xor(x5, y5)
      /\ ShiftBit(Xor(x5, y5)) = Xor(x6, y6)
      /\ ShiftBit(Xor(x6, y6)) = Xor(x7, y7)
      /\ ShiftBit(Xor(x7, y7)) = Xor(ShiftBit(x7), ShiftBit(y7))
  BY <1>2, <1>3, Zenon
<1>5. Shift8(x) = ShiftBit(x7) /\ Shift8(y) = ShiftBit(y7)
  BY Zenon DEF Shift8
<1>6. Shift8(Xor(x, y)) =
        ShiftBit(ShiftBit(ShiftBit(ShiftBit(ShiftBit(ShiftBit(ShiftBit(ShiftBit(Xor(x, y)))))))))
  BY Zenon DEF Shift8
<1> HIDE DEF x1, x2, x3, x4, x5, x6, x7, y1, y2, y3, y4, y5, y6, y7
<1> QED
  BY <1>4, <1>5, <1>6

(* A low byte only moves up.                                               *)
LEMMA Shift8OfLow ==
  ASSUME NEW x \in Nat, x < 256
  PROVE  Shift8(x) = 256 * x
<1>1. \A w \in Nat : w < 32768 => ShiftBit(w) = 2 * w
  BY ShiftBitCases, SMT DEF Word
<1>2. /\ ShiftBit(x) = 2 * x /\ ShiftBit(2 * x) = 4 * x
      /\ ShiftBit(4 * x) = 8 * x /\ ShiftBit(8 * x) = 16 * x
  BY <1>1, SMT
<1>3. /\ ShiftBit(16 * x) = 32 * x /\ ShiftBit(32 * x) = 64 * x
      /\ ShiftBit(64 * x) = 128 * x /\ ShiftBit(128 * x) = 256 * x
  BY <1>1, SMT
<1> QED
  BY <1>2, <1>3 DEF Shift8

(* An exclusive or is known from its bits.                                 *)
LEMMA XorIs ==
  ASSUME NEW x, NEW y, NEW s \in Word,
         \A i \in 0..15 : Bit(s, i) = IF Bit(x, i) = Bit(y, i) THEN 0 ELSE 1
  PROVE  Xor(x, y) = s
BY XorBits, SameBits

(* Adding 1 to an even number sets its last bit.                           *)
LEMMA XorOne ==
  ASSUME NEW v \in Nat, v < 32768
  PROVE  Xor(2 * v, 1) = 2 * v + 1
<1> DEFINE a(i) == Bit(2 * v, i)
           b(i) == Bit(1, i)
           s(i) == Bit(2 * v + 1, i)
<1>1. a(0) = 0 /\ b(0) = 1 /\ s(0) = 1
  BY SMT DEF Bit
<1>2. b(1) = 0 /\ b(2) = 0 /\ b(3) = 0
  BY SMT DEF Bit
<1>3. b(4) = 0 /\ b(5) = 0 /\ b(6) = 0
  BY SMT DEF Bit
<1>4. b(7) = 0 /\ b(8) = 0 /\ b(9) = 0
  BY SMT DEF Bit
<1>5. b(10) = 0 /\ b(11) = 0 /\ b(12) = 0
  BY SMT DEF Bit
<1>6. b(13) = 0 /\ b(14) = 0 /\ b(15) = 0
  BY SMT DEF Bit
<1>7. s(1) = a(1) /\ s(2) = a(2) /\ s(3) = a(3)
  BY SMT DEF Bit
<1>8. s(4) = a(4) /\ s(5) = a(5) /\ s(6) = a(6)
  BY SMT DEF Bit
<1>9. s(7) = a(7) /\ s(8) = a(8) /\ s(9) = a(9)
  BY SMT DEF Bit
<1>10. s(10) = a(10) /\ s(11) = a(11) /\ s(12) = a(12)
  BY SMT DEF Bit
<1>11. s(13) = a(13) /\ s(14) = a(14) /\ s(15) = a(15)
  BY SMT DEF Bit
<1>12. \A i \in 0..15 : a(i) \in {0, 1}
  BY BitOfShift
<1> HIDE DEF a, b, s
<1>13. ASSUME NEW i \in 0..15 PROVE s(i) = IF a(i) = b(i) THEN 0 ELSE 1
  BY <1>1, <1>2, <1>3, <1>4, <1>5, <1>6, <1>7, <1>8, <1>9, <1>10, <1>11, <1>12
<1>14. 2 * v + 1 \in Word
  BY SMT DEF Word
<1> QED
  BY <1>13, <1>14, XorIs DEF a, b, s

(* A word is the exclusive or of its low byte and its high one.            *)
LEMMA XorOfBytes ==
  ASSUME NEW lo \in Nat, lo < 256, NEW hi \in Nat, hi < 256
  PROVE  Xor(lo, 256 * hi) = lo + 256 * hi
<1> DEFINE a(i) == Bit(lo, i)
           b(i) == Bit(256 * hi, i)
           s(i) == Bit(lo + 256 * hi, i)
<1>1. b(0) = 0 /\ s(0) = a(0) /\ b(1) = 0 /\ s(1) = a(1)
  BY SMT DEF Bit
<1>2. b(2) = 0 /\ s(2) = a(2) /\ b(3) = 0 /\ s(3) = a(3)
  BY SMT DEF Bit
<1>3. b(4) = 0 /\ s(4) = a(4) /\ b(5) = 0 /\ s(5) = a(5)
  BY SMT DEF Bit
<1>4. b(6) = 0 /\ s(6) = a(6) /\ b(7) = 0 /\ s(7) = a(7)
  BY SMT DEF Bit
<1>5. a(8) = 0 /\ s(8) = b(8) /\ a(9) = 0 /\ s(9) = b(9)
  BY SMT DEF Bit
<1>6. a(10) = 0 /\ s(10) = b(10) /\ a(11) = 0 /\ s(11) = b(11)
  BY SMT DEF Bit
<1>7. a(12) = 0 /\ s(12) = b(12) /\ a(13) = 0 /\ s(13) = b(13)
  BY SMT DEF Bit
<1>8. a(14) = 0 /\ s(14) = b(14) /\ a(15) = 0 /\ s(15) = b(15)
  BY SMT DEF Bit
<1>9. \A i \in 0..15 : a(i) \in {0, 1} /\ b(i) \in {0, 1}
  BY BitOfShift
<1> HIDE DEF a, b, s
<1>10. ASSUME NEW i \in 0..15 PROVE s(i) = IF a(i) = b(i) THEN 0 ELSE 1
  BY <1>1, <1>2, <1>3, <1>4, <1>5, <1>6, <1>7, <1>8, <1>9
<1>11. lo + 256 * hi \in Word
  BY SMT DEF Word
<1> QED
  BY <1>10, <1>11, XorIs DEF a, b, s

(* A high byte is replaced by its entry.                                   *)
LEMMA Shift8OfHigh ==
  ASSUME NEW t \in Nat, t < 256
  PROVE  crc16tab[t + 1] \in Word /\ Shift8(256 * t) = crc16tab[t + 1]
<1> DEFINE Good(u) == crc16tab[u + 1] \in Word /\ Shift8(256 * u) = crc16tab[u + 1]
           Bad == {u \in Nat : u < 256 /\ ~Good(u)}
<1> SUFFICES ASSUME Bad # {} PROVE FALSE
  OBVIOUS
<1>1. PICK u \in Bad : \A v \in Bad : u <= v
  <2>1. Bad \in SUBSET Nat
    OBVIOUS
  <2> HIDE DEF Bad
  <2> QED
    BY <2>1, NonemptyHasMin
<1>2. u \in Nat /\ u < 256 /\ ~Good(u) /\ \A v \in Nat : v < u => Good(v)
  BY <1>1
<1>3. Good(0)
  <2>1. crc16tab[0 + 1] = 0
    BY SMT DEF crc16tab
  <2>2. Shift8(256 * 0) = 0
    BY Shift8OfLow, SMT
  <2> QED
    BY <2>1, <2>2, SMT DEF Word
<1>4. u # 0
  BY <1>2, <1>3
<1> HIDE DEF Good, Bad
<1>5. PICK h \in Nat : u = 2 * h \/ u = 2 * h + 1
  <2>1. u \div 2 \in Nat /\ (u = 2 * (u \div 2) \/ u = 2 * (u \div 2) + 1)
    BY <1>2, SMT
  <2> QED
    BY <2>1
<1>6. Row(h) /\ h < 128
  BY <1>2, <1>5, Rows, SMT
<1>7. ASSUME NEW v \in Nat, v < 128, Good(v) PROVE Good(2 * v)
  <2>1. crc16tab[v + 1] \in Word /\ Shift8(256 * v) = crc16tab[v + 1]
    BY <1>7 DEF Good
  <2>2. crc16tab[2 * v + 1] = ShiftBit(crc16tab[v + 1])
    <3> DEFINE w == crc16tab[v + 1]
    <3>1. crc16tab[2 * v + 1] = IF w < 32768 THEN 2 * w ELSE Flip(2 * w - 65536)
      BY <1>7, Rows DEF Row
    <3> HIDE DEF w
    <3>2. ShiftBit(w) = IF w < 32768 THEN 2 * w ELSE Flip(2 * w - 65536)
      BY <2>1, ShiftBitByFlip DEF w
    <3> QED
      BY <3>1, <3>2, SMT DEF w
  <2>3. ShiftBit(256 * v) = 256 * (2 * v) /\ 256 * v \in Word
    <3>1. 256 * v \in Nat /\ 256 * v < 32768 /\ 2 * (256 * v) = 256 * (2 * v)
      BY <1>7, SMT
    <3>2. 256 * v \in Word
      BY <3>1, SMT DEF Word
    <3> QED
      BY <3>1, <3>2, ShiftBitCases
  <2>4. Shift8(ShiftBit(256 * v)) = ShiftBit(Shift8(256 * v))
    BY Zenon DEF Shift8
  <2>5. ShiftBit(crc16tab[v + 1]) \in Word
    BY <2>1, ShiftBitCases
  <2> QED
    BY <2>1, <2>2, <2>3, <2>4, <2>5 DEF Good
<1>8. ASSUME NEW v \in Nat, v < 128, Good(2 * v) PROVE Good(2 * v + 1)
  <2>1. crc16tab[2 * v + 1] \in Word /\ Shift8(256 * (2 * v)) = crc16tab[2 * v + 1]
    BY <1>8 DEF Good
  <2>2. crc16tab[(2 * v + 1) + 1] = Xor(crc16tab[2 * v + 1], 4129)
    <3>1. (2 * v + 1) + 1 = 2 * v + 2
      BY <1>8, SMT
    <3>2. Flip(crc16tab[2 * v + 1]) = Xor(crc16tab[2 * v + 1], 4129)
      BY <2>1, FlipIsXor
    <3>3. crc16tab[2 * v + 2] = Flip(crc16tab[2 * v + 1])
      BY <1>8, Rows DEF Row
    <3> QED
      BY <3>1, <3>2, <3>3
  <2>3. Shift8(256) = 4129
    <3>1. Shift8(256) = ShiftBit(ShiftBit(ShiftBit(ShiftBit(ShiftBit(ShiftBit(ShiftBit(ShiftBit(256))))))))
      BY Zenon DEF Shift8
    <3>2. \A w \in Nat : w < 32768 => ShiftBit(w) = 2 * w
      BY ShiftBitCases, SMT DEF Word
    <3>3. /\ ShiftBit(256) = 512 /\ ShiftBit(512) = 1024 /\ ShiftBit(1024) = 2048
          /\ ShiftBit(2048) = 4096 /\ ShiftBit(4096) = 8192 /\ ShiftBit(8192) = 16384
          /\ ShiftBit(16384) = 32768
      BY <3>2, SMT
    <3>4. ShiftBit(32768) = 4129
      <4>1. 32768 \in Word
        BY SMT DEF Word
      <4>2. Flip(0) = 4129
        BY SMT DEF Flip
      <4> QED
        BY <4>1, <4>2, ShiftBitByFlip, SMT
    <3> QED
      BY <3>1, <3>3, <3>4, SMT
  <2>4. Xor(256 * (2 * v), 256) = 256 * (2 * v + 1) /\ 256 * (2 * v) \in Word /\ 256 \in Word
    <3>1. 256 * (2 * v) \in Word /\ 256 \in Word
      BY <1>8, SMT DEF Word
    <3>2. 2 * v \in Word /\ 1 \in Word /\ 2 * v + 1 \in Nat /\ 2 * v + 1 < 256
      BY <1>8, SMT DEF Word
    <3>3. /\ Shift8(2 * v) = 256 * (2 * v) /\ Shift8(1) = 256
          /\ Shift8(2 * v + 1) = 256 * (2 * v + 1)
      BY <1>8, <3>2, Shift8OfLow, SMT
    <3>4. Xor(2 * v, 1) = 2 * v + 1
      BY <1>8, XorOne, SMT
    <3>5. Shift8(Xor(2 * v, 1)) = Xor(Shift8(2 * v), Shift8(1))
      BY <3>2, Shift8Linear
    <3> QED
      BY <3>1, <3>3, <3>4, <3>5
  <2> QED
    BY <2>1, <2>2, <2>3, <2>4, Shift8Linear, XorBits DEF Good
<1>9. h < u
  BY <1>4, <1>5, SMT
<1>10. Good(h)
  BY <1>2, <1>9
<1>11. Good(2 * h)
  BY <1>6, <1>7, <1>10
<1> QED
  BY <1>2, <1>5, <1>6, <1>8, <1>11

(* The recursion of ShiftByte unfolds to eight bits of the division.       *)
LEMMA ShiftByteUnfolds ==
  ASSUME NEW r, NEW byte
  PROVE  ShiftByte(r, byte) = Shift8(Xor(r, byte * 256))
<1> DEFINE c == Xor(r, byte * 256)
           Eq(f) == f = [i \in 0..8 |-> IF i = 0 THEN c ELSE LET q == f[i - 1] IN ShiftBit(q)]
           F == [p \in Word \X (1..8) |-> ShiftBit(p[1])]
           h == CHOOSE f : Eq(f)
<1>1. ShiftByte(r, byte) = h[8]
  BY Zenon DEF ShiftByte
<1>2. c \in Word
  BY XorBits
<1> HIDE DEF c
<1>3. F \in StepFunction(Word, 8)
  <2>1. ASSUME NEW p \in Word \X (1..8) PROVE ShiftBit(p[1]) \in Word
    BY ShiftBitCases
  <2> QED
    BY <2>1 DEF StepFunction
<1>4. \E f : Eq(f)
  <2>1. PICK f \in [0..8 -> Word] : f[0] = c /\ \A i \in 1..8 : f[i] = F[<<f[i - 1], i>>]
    <3> HIDE DEF F
    <3>1. \E f \in [0..8 -> Word] : Follows(f, 8, c, F)
      BY <1>2, <1>3, Recursion
    <3> QED
      BY <3>1 DEF Follows
  <2>2. ASSUME NEW i \in 1..8 PROVE f[i] = ShiftBit(f[i - 1])
    <3>1. f[i - 1] \in Word
      OBVIOUS
    <3>2. F[<<f[i - 1], i>>] = ShiftBit(f[i - 1])
      BY <3>1
    <3> QED
      BY <2>1, <3>2
  <2>3. Eq(f)
    <3>1. f = [n \in 0..8 |-> f[n]]
      OBVIOUS
    <3>2. \A n \in 0..8 : f[n] = IF n = 0 THEN c ELSE LET q == f[n - 1] IN ShiftBit(q)
      BY <2>1, <2>2
    <3> QED
      BY <3>1, <3>2
  <2> QED
    BY <2>3
<1>5. Eq(h)
  <2> HIDE DEF Eq
  <2> QED
    BY <1>4
<1> HIDE DEF h
<1>6. /\ h[0] = c /\ h[1] = ShiftBit(h[0]) /\ h[2] = ShiftBit(h[1])
      /\ h[3] = ShiftBit(h[2]) /\ h[4] = ShiftBit(h[3]) /\ h[5] = ShiftBit(h[4])
      /\ h[6] = ShiftBit(h[5]) /\ h[7] = ShiftBit(h[6]) /\ h[8] = ShiftBit(h[7])
  <2>1. h[0] = c /\ \A n \in 1..8 : h[n] = ShiftBit(h[n - 1])
    BY <1>5
  <2> QED
    BY <2>1
<1> QED
  BY <1>1, <1>6 DEF Shift8, c

(* One round of the loop of crc16 divides by one byte: the low byte of the *)
(* remainder moves up, and the high byte meets the char in the index.      *)
LEMMA RoundIsShiftByte ==
  ASSUME NEW q \in Word, NEW byte \in Nat, byte < 256
  PROVE  /\ ShiftByte(q, byte) \in Word
         /\ Xor((q * 256) % 65536, crc16tab[Xor(LowByte(q \div 256), byte) + 1])
              = ShiftByte(q, byte)
<1> DEFINE lo == q % 256
           hi == q \div 256
           t == Xor(hi, byte)
<1>1. q \in Nat /\ q < 65536
  BY DEF Word
<1>2. /\ lo \in Nat /\ lo < 256 /\ hi \in Nat /\ hi < 256 /\ q = lo + 256 * hi
      /\ LowByte(q \div 256) = hi /\ (q * 256) % 65536 = 256 * lo /\ byte * 256 = 256 * byte
  BY <1>1, SMT DEF LowByte
<1> HIDE DEF lo, hi
<1>3. /\ lo \in Word /\ hi \in Word /\ byte \in Word
      /\ 256 * lo \in Word /\ 256 * hi \in Word /\ 256 * byte \in Word
  BY <1>2, SMT DEF Word
<1>4. t \in Word /\ Shift8(t) = Xor(256 * hi, 256 * byte)
  BY <1>2, <1>3, Shift8Linear, Shift8OfLow, XorBits
<1>5. t \in Nat /\ t < 256
  <2> DEFINE b(i) == Bit(hi, i)
             c(i) == Bit(byte, i)
             d(i) == Bit(t, i)
  <2>1. /\ b(8) = 0 /\ b(9) = 0 /\ b(10) = 0 /\ b(11) = 0
        /\ b(12) = 0 /\ b(13) = 0 /\ b(14) = 0 /\ b(15) = 0
    BY <1>2, SMT DEF Bit
  <2>2. /\ c(8) = 0 /\ c(9) = 0 /\ c(10) = 0 /\ c(11) = 0
        /\ c(12) = 0 /\ c(13) = 0 /\ c(14) = 0 /\ c(15) = 0
    BY <1>2, SMT DEF Bit
  <2>3. \A i \in 0..15 : d(i) = IF b(i) = c(i) THEN 0 ELSE 1
    BY XorBits
  <2> HIDE DEF b, c, d, t
  <2>4. /\ d(8) = 0 /\ d(9) = 0 /\ d(10) = 0 /\ d(11) = 0
        /\ d(12) = 0 /\ d(13) = 0 /\ d(14) = 0 /\ d(15) = 0
    BY <2>1, <2>2, <2>3
  <2> DEFINE a(i) == Above(t, i)
  <2>5. a(16) = 0 /\ \A i \in 0..15 : a(i) = 2 * a(i + 1) + d(i)
    BY <1>4, NothingAbove, BitOfShift DEF d
  <2> HIDE DEF a
  <2>6. a(15) = 0 /\ a(14) = 0 /\ a(13) = 0 /\ a(12) = 0
    BY <2>4, <2>5
  <2>7. a(11) = 0 /\ a(10) = 0 /\ a(9) = 0 /\ a(8) = 0
    BY <2>4, <2>5, <2>6
  <2>8. t \in Nat /\ t \div 256 = 0
    BY <1>4, <2>7, SMT DEF a, Above, Word
  <2> QED
    BY <2>8, SMT
<1>6. 256 * t = Xor(256 * hi, 256 * byte)
  BY <1>4, <1>5, Shift8OfLow
<1> HIDE DEF t
<1>7. Xor(q, 256 * byte) = Xor(lo, 256 * t)
  <2>1. Xor(lo, 256 * hi) = q
    BY <1>2, XorOfBytes
  <2>2. Xor(Xor(lo, 256 * hi), 256 * byte) = Xor(lo, Xor(256 * hi, 256 * byte))
    BY <1>3, XorAssociates
  <2> QED
    BY <1>6, <2>1, <2>2
<1>8. 256 * t \in Word
  BY <1>5, SMT DEF Word
<1>9. Shift8(Xor(lo, 256 * t)) = Xor(256 * lo, crc16tab[t + 1])
  BY <1>2, <1>3, <1>5, <1>8, Shift8Linear, Shift8OfLow, Shift8OfHigh
<1>10. ShiftByte(q, byte) = Shift8(Xor(q, 256 * byte))
  BY <1>2, ShiftByteUnfolds
<1>11. ShiftByte(q, byte) = Xor((q * 256) % 65536, crc16tab[t + 1])
  BY <1>2, <1>7, <1>9, <1>10
<1>12. t = Xor(LowByte(q \div 256), byte)
  BY <1>2 DEF t
<1> QED
  BY <1>11, <1>12, XorBits

-----------------------------------------------------------------------------
(* The loop over the key.                                                  *)

(* The byte that a char stands for.                                        *)
Unsigned(c) == IF c < 0 THEN c + 256 ELSE c

(* Masking the index takes a negative char to its byte.                    *)
LEMMA LowByteOfChar ==
  ASSUME NEW c \in Char
  PROVE  LowByte(c) = Unsigned(c) /\ Unsigned(c) \in Nat /\ Unsigned(c) < 256
<1>1. c \in Int /\ -128 <= c /\ c <= 127
  BY SMT DEF Char
<1> QED
  BY <1>1, SMT DEF LowByte, Unsigned

(* The loop of crc16, as a function of the rounds done.                    *)
LEMMA crc16Unfolds ==
  ASSUME NEW n \in Nat, NEW buf, Len(buf) = n
  PROVE  \E h : /\ crc16(buf) = h[n]
                /\ h[0] = 0
                /\ \A i \in 1..n :
                     h[i] = Xor((h[i - 1] * 256) % 65536,
                                crc16tab[Xor(LowByte(h[i - 1] \div 256), LowByte(buf[i])) + 1])
<1> DEFINE G(q, i) == Xor((q * 256) % 65536,
                          crc16tab[Xor(LowByte(q \div 256), LowByte(buf[i])) + 1])
           Eq(f) == f = [m \in 0..Len(buf) |-> IF m = 0 THEN 0 ELSE LET c == f[m - 1] IN G(c, m)]
           F == [p \in Word \X (1..n) |-> G(p[1], p[2])]
           h == CHOOSE f : Eq(f)
<1>1. crc16(buf) = h[n]
  <2>1. crc16(buf) = h[Len(buf)]
    BY SMT DEF crc16
  <2> QED
    BY <2>1
<1>2. \A q, i : G(q, i) \in Word
  BY XorBits
<1> HIDE DEF G
<1>3. F \in StepFunction(Word, n)
  BY <1>2 DEF StepFunction
<1>4. 0 \in Word
  BY SMT DEF Word
<1>5. \E f : Eq(f)
  <2>1. PICK f \in [0..n -> Word] : f[0] = 0 /\ \A i \in 1..n : f[i] = F[<<f[i - 1], i>>]
    <3> HIDE DEF F
    <3>1. \E f \in [0..n -> Word] : Follows(f, n, 0, F)
      BY <1>3, <1>4, Recursion
    <3> QED
      BY <3>1 DEF Follows
  <2>2. ASSUME NEW i \in 1..n PROVE f[i] = G(f[i - 1], i)
    <3>1. f[i - 1] \in Word
      OBVIOUS
    <3>2. F[<<f[i - 1], i>>] = G(f[i - 1], i)
      BY <3>1
    <3> QED
      BY <2>1, <3>2
  <2>3. Eq(f)
    <3>1. f = [m \in 0..n |-> f[m]]
      OBVIOUS
    <3>2. \A m \in 0..n : f[m] = IF m = 0 THEN 0 ELSE LET c == f[m - 1] IN G(c, m)
      BY <2>1, <2>2
    <3> QED
      BY <3>1, <3>2
  <2> QED
    BY <2>3
<1>6. Eq(h)
  <2> HIDE DEF Eq
  <2> QED
    BY <1>5
<1> HIDE DEF h
<1>7. h[0] = 0 /\ \A i \in 1..n : h[i] = G(h[i - 1], i)
  BY <1>6
<1> QED
  BY <1>1, <1>7 DEF G

(* The division of the reference definition, char by char.                 *)
LEMMA RemainderUnfolds ==
  ASSUME NEW n \in Nat, NEW key, Len(key) = n
  PROVE  \E g : /\ Remainder(key) = g[n]
                /\ g[0] = 0
                /\ \A i \in 1..n : g[i] = ShiftByte(g[i - 1], Unsigned(key[i]))
<1> DEFINE G(q, i) == ShiftByte(q, IF key[i] < 0 THEN key[i] + 256 ELSE key[i])
           Eq(f) == f = [m \in 0..Len(key) |-> IF m = 0 THEN 0 ELSE LET q == f[m - 1] IN G(q, m)]
           F == [p \in Word \X (1..n) |-> G(p[1], p[2])]
           h == CHOOSE f : Eq(f)
<1>1. Remainder(key) = h[n]
  <2>1. Remainder(key) = h[Len(key)]
    BY Zenon DEF Remainder
  <2> QED
    BY <2>1
<1>2. \A q, i : G(q, i) \in Word
  BY ShiftByteUnfolds, Shift8Type, XorBits
<1> HIDE DEF G
<1>3. F \in StepFunction(Word, n)
  BY <1>2 DEF StepFunction
<1>4. 0 \in Word
  BY SMT DEF Word
<1>5. \E f : Eq(f)
  <2>1. PICK f \in [0..n -> Word] : f[0] = 0 /\ \A i \in 1..n : f[i] = F[<<f[i - 1], i>>]
    <3> HIDE DEF F
    <3>1. \E f \in [0..n -> Word] : Follows(f, n, 0, F)
      BY <1>3, <1>4, Recursion
    <3> QED
      BY <3>1 DEF Follows
  <2>2. ASSUME NEW i \in 1..n PROVE f[i] = G(f[i - 1], i)
    <3>1. f[i - 1] \in Word
      OBVIOUS
    <3>2. F[<<f[i - 1], i>>] = G(f[i - 1], i)
      BY <3>1
    <3> QED
      BY <2>1, <3>2
  <2>3. Eq(f)
    <3>1. f = [m \in 0..n |-> f[m]]
      OBVIOUS
    <3>2. \A m \in 0..n : f[m] = IF m = 0 THEN 0 ELSE LET q == f[m - 1] IN G(q, m)
      BY <2>1, <2>2
    <3> QED
      BY <3>1, <3>2
  <2> QED
    BY <2>3
<1>6. Eq(h)
  <2> HIDE DEF Eq
  <2> QED
    BY <1>5
<1> HIDE DEF h
<1>7. h[0] = 0 /\ \A i \in 1..n : h[i] = G(h[i - 1], i)
  BY <1>6
<1> QED
  BY <1>1, <1>7 DEF G, Unsigned

(***************************************************************************)
(* The table-driven CRC of crc16 is the remainder of the bitwise division, *)
(* for every sequence of chars, the negative ones included.                *)
(***************************************************************************)
THEOREM CrcIsRemainder ==
  ASSUME NEW buf \in Seq(Char)
  PROVE  crc16(buf) = Remainder(buf) /\ crc16(buf) \in Word
<1> DEFINE n == Len(buf)
<1>1. n \in Nat /\ \A i \in 1..n : buf[i] \in Char
  OBVIOUS
<1> HIDE DEF n
<1>2. PICK h : /\ crc16(buf) = h[n]
               /\ h[0] = 0
               /\ \A i \in 1..n :
                    h[i] = Xor((h[i - 1] * 256) % 65536,
                               crc16tab[Xor(LowByte(h[i - 1] \div 256), LowByte(buf[i])) + 1])
  BY <1>1, crc16Unfolds DEF n
<1>3. PICK g : /\ Remainder(buf) = g[n]
               /\ g[0] = 0
               /\ \A i \in 1..n : g[i] = ShiftByte(g[i - 1], Unsigned(buf[i]))
  BY <1>1, RemainderUnfolds DEF n
<1> DEFINE S == {i \in 0..n : h[i] \in Word /\ h[i] = g[i]}
<1>4. 0 \in S
  <2>1. 0 \in Word
    BY SMT DEF Word
  <2> QED
    BY <1>1, <1>2, <1>3, <2>1
<1>5. ASSUME NEW i \in 0..n, i # n, i \in S PROVE i + 1 \in S
  <2> DEFINE j == i + 1
  <2>1. j \in 1..n /\ j \in 0..n /\ j - 1 = i
    BY <1>1, <1>5
  <2>2. h[i] \in Word /\ h[i] = g[i]
    BY <1>5
  <2> HIDE DEF j
  <2>3. LowByte(buf[j]) = Unsigned(buf[j]) /\ Unsigned(buf[j]) \in Nat /\ Unsigned(buf[j]) < 256
    BY <1>1, <2>1, LowByteOfChar
  <2>4. h[j] = Xor((h[i] * 256) % 65536,
                   crc16tab[Xor(LowByte(h[i] \div 256), Unsigned(buf[j])) + 1])
    BY <1>2, <2>1, <2>3
  <2>5. h[j] = ShiftByte(h[i], Unsigned(buf[j])) /\ h[j] \in Word
    BY <2>2, <2>3, <2>4, RoundIsShiftByte
  <2>6. g[j] = ShiftByte(g[i], Unsigned(buf[j]))
    BY <1>3, <2>1
  <2>7. j \in S
    BY <2>1, <2>2, <2>5, <2>6
  <2> QED
    BY <2>7 DEF j
<1>6. n \in S
  <2> HIDE DEF S
  <2>1. n \in 0..n
    BY <1>1
  <2> QED
    BY <1>1, <1>4, <1>5, <2>1, UpTo
<1> QED
  BY <1>2, <1>3, <1>6

-----------------------------------------------------------------------------
(* The hash tag.                                                           *)

(* The loop finds the first ch from the offset on, or the end of the key.  *)
LEMMA IndexOfCharFinds ==
  ASSUME NEW key, Len(key) \in Nat, NEW ch, NEW i \in Nat
  PROVE  LET s == IndexOfChar(key, ch, i)
         IN /\ s \in Nat /\ s <= Len(key)
            /\ s # Len(key) => i <= s /\ key[s + 1] = ch
            /\ \A j \in Nat : i <= j /\ j < s => key[j + 1] # ch
<1> DEFINE n == Len(key)
           S == {j \in i..(n - 1) : key[j + 1] = ch} \cup {n}
           s == CHOOSE x \in S : \A y \in S : x <= y
<1>1. IndexOfChar(key, ch, i) = s
  BY DEF IndexOfChar, Min
<1>2. \A x : x \in S <=> x = n \/ (x \in Nat /\ i <= x /\ x < n /\ key[x + 1] = ch)
  BY SMT
<1> HIDE DEF S, n
<1>3. n \in Nat
  BY DEF n
<1>4. S \in SUBSET Nat /\ n \in S
  BY <1>2, <1>3
<1>5. s \in S /\ \A y \in S : s <= y
  BY <1>4, NonemptyHasMin
<1> HIDE DEF s
<1>6. s \in Nat /\ s <= n /\ (s # n => i <= s /\ key[s + 1] = ch)
  BY <1>2, <1>4, <1>5
<1>7. ASSUME NEW j \in Nat, i <= j, j < s PROVE key[j + 1] # ch
  <2>1. j \notin S
    BY <1>5, <1>6, <1>7
  <2> QED
    BY <1>2, <1>3, <1>6, <1>7, <2>1
<1> QED
  BY <1>1, <1>6, <1>7 DEF n

(* The tag of the declarative definition is the one the two loops find.    *)
LEMMA TagIsFound ==
  ASSUME NEW key, Len(key) \in Nat, NEW i \in 1..Len(key), NEW j \in 1..Len(key)
  PROVE  LET s == IndexOfChar(key, Open, 0)
             e == IndexOfChar(key, Close, s + 1)
         IN IsTag(key, i, j) <=>
              /\ s # Len(key) /\ e # Len(key) /\ e # s + 1
              /\ i = s + 1 /\ j = e + 1
<1> DEFINE n == Len(key)
           s == IndexOfChar(key, Open, 0)
           e == IndexOfChar(key, Close, s + 1)
<1>1. /\ s \in Nat /\ s <= n
      /\ s # n => key[s + 1] = Open
      /\ \A k \in Nat : k < s => key[k + 1] # Open
  BY IndexOfCharFinds
<1> HIDE DEF s
<1>2. /\ e \in Nat /\ e <= n
      /\ e # n => s + 1 <= e /\ key[e + 1] = Close
      /\ \A k \in Nat : s + 1 <= k /\ k < e => key[k + 1] # Close
  BY <1>1, IndexOfCharFinds
<1> HIDE DEF e
<1>3. n \in Nat /\ i \in Nat /\ j \in Nat /\ 1 <= i /\ i <= n /\ 1 <= j /\ j <= n
  BY DEF n
<1> HIDE DEF n
<1>4. ASSUME IsTag(key, i, j)
      PROVE  s # n /\ e # n /\ e # s + 1 /\ i = s + 1 /\ j = e + 1
  <2>1. /\ i < j - 1 /\ key[i] = Open /\ key[j] = Close
        /\ \A k \in 1..(i - 1) : key[k] # Open
        /\ \A k \in (i + 1)..(j - 1) : key[k] # Close
    BY <1>4 DEF IsTag
  <2>2. i - 1 \in Nat /\ (i - 1) + 1 = i /\ j - 1 \in Nat /\ (j - 1) + 1 = j
    BY <1>3
  <2>3. s <= i - 1
    <3>1. ~(i - 1 < s)
      BY <1>1, <2>1, <2>2
    <3> QED
      BY <1>1, <2>2, <3>1
  <2>4. s # n /\ key[s + 1] = Open
    BY <1>1, <1>3, <2>3
  <2>5. s + 1 = i
    <3>1. ~(s + 1 \in 1..(i - 1))
      BY <2>1, <2>4
    <3> QED
      BY <1>1, <1>3, <2>3, <3>1
  <2>6. e <= j - 1
    <3>1. s + 1 <= j - 1
      BY <1>1, <1>3, <2>1, <2>5
    <3>2. ~(j - 1 < e)
      BY <1>2, <2>1, <2>2, <3>1
    <3> QED
      BY <1>2, <2>2, <3>2
  <2>7. e # n /\ s + 1 <= e /\ key[e + 1] = Close
    BY <1>2, <1>3, <2>6
  <2>8. e + 1 = j
    <3>1. ~(e + 1 \in (i + 1)..(j - 1))
      BY <2>1, <2>7
    <3> QED
      BY <1>1, <1>2, <1>3, <2>5, <2>6, <2>7, <3>1
  <2> QED
    BY <1>1, <1>2, <1>3, <2>1, <2>4, <2>5, <2>7, <2>8
<1>5. ASSUME s # n, e # n, e # s + 1, i = s + 1, j = e + 1
      PROVE  IsTag(key, i, j)
  <2>1. key[i] = Open /\ key[j] = Close /\ i < j - 1
    BY <1>1, <1>2, <1>5
  <2>2. ASSUME NEW k \in 1..(i - 1) PROVE key[k] # Open
    <3>1. k - 1 \in Nat /\ k - 1 < s /\ (k - 1) + 1 = k
      BY <1>1, <1>5
    <3> QED
      BY <1>1, <3>1
  <2>3. ASSUME NEW k \in (i + 1)..(j - 1) PROVE key[k] # Close
    <3>1. k - 1 \in Nat /\ s + 1 <= k - 1 /\ k - 1 < e /\ (k - 1) + 1 = k
      BY <1>1, <1>2, <1>5
    <3> QED
      BY <1>2, <3>1
  <2> QED
    BY <2>1, <2>2, <2>3 DEF IsTag
<1> QED
  BY <1>4, <1>5 DEF n, s, e

(***************************************************************************)
(* SlotByKey is the slot of the cluster specification, for every key: what *)
(* the loops cut out is the tag, or the key when there is none, and its    *)
(* CRC is the remainder.  It is always a slot.                             *)
(***************************************************************************)
THEOREM SlotByKeyIsKeySlot ==
  ASSUME NEW key \in Seq(Char)
  PROVE  /\ SlotByKey(key) = KeySlot(key)
         /\ SlotByKey(key) \in Nat /\ SlotByKey(key) < 16384
<1> DEFINE n == Len(key)
           s == IndexOfChar(key, Open, 0)
           e == IndexOfChar(key, Close, s + 1)
           tagged == s # n /\ e # n /\ e # s + 1
           part == IF tagged THEN SubSeq(key, s + 2, e) ELSE key
<1>1. n \in Nat
  OBVIOUS
<1>2. SlotByKey(key) = crc16(part) % 16384
  BY SMT DEF SlotByKey
<1>3. \A i, j \in 1..n : IsTag(key, i, j) <=> tagged /\ i = s + 1 /\ j = e + 1
  BY <1>1, TagIsFound
<1>4. /\ s \in Nat /\ s <= n
      /\ e \in Nat /\ e <= n /\ (e # n => s + 1 <= e)
  <2>1. s \in Nat /\ s <= n
    BY <1>1, IndexOfCharFinds
  <2> HIDE DEF s
  <2>2. s + 1 \in Nat
    BY <2>1
  <2> QED
    BY <1>1, <2>1, <2>2, IndexOfCharFinds
<1> HIDE DEF n, s, e
<1>5. HashedPart(key) = part
  <2>1. CASE ~tagged
    BY <1>3, <2>1 DEF HashedPart, n
  <2>2. CASE tagged
    <3> DEFINE ij == CHOOSE p \in (1..n) \X (1..n) : IsTag(key, p[1], p[2])
    <3>1. s + 1 \in 1..n /\ e + 1 \in 1..n
      BY <1>1, <1>4, <2>2
    <3>2. IsTag(key, s + 1, e + 1)
      BY <1>3, <2>2, <3>1
    <3>3. /\ <<s + 1, e + 1>> \in (1..n) \X (1..n)
          /\ IsTag(key, <<s + 1, e + 1>>[1], <<s + 1, e + 1>>[2])
      BY <3>1, <3>2
    <3>4. ij \in (1..n) \X (1..n) /\ IsTag(key, ij[1], ij[2])
      BY <3>3
    <3>5. HashedPart(key) = SubSeq(key, ij[1] + 1, ij[2] - 1)
      BY <3>1, <3>2 DEF HashedPart, n
    <3> HIDE DEF ij
    <3>6. ij[1] = s + 1 /\ ij[2] = e + 1
      BY <1>3, <3>4
    <3>7. ij[1] + 1 = s + 2 /\ ij[2] - 1 = e
      BY <1>4, <3>6
    <3> QED
      BY <2>2, <3>5, <3>7
  <2> QED
    BY <2>1, <2>2
<1>6. part \in Seq(Char)
  <2>1. CASE tagged
    <3>1. \A k \in (s + 2)..e : k \in 1..n
      BY <1>1, <1>4, <2>1
    <3>2. SubSeq(key, s + 2, e) \in Seq(Char)
      BY <1>1, <1>4, <3>1, SubSeqProperties DEF n
    <3> QED
      BY <2>1, <3>2
  <2>2. CASE ~tagged
    BY <2>2
  <2> QED
    BY <2>1, <2>2
<1> HIDE DEF part
<1>7. crc16(part) = Remainder(part) /\ crc16(part) \in Word
  BY <1>6, CrcIsRemainder
<1>8. crc16(part) % 16384 \in Nat /\ crc16(part) % 16384 < 16384
  <2>1. crc16(part) \in Nat
    BY <1>7 DEF Word
  <2> QED
    BY <2>1, SMT
<1>9. KeySlot(key) = crc16(part) % 16384
  BY <1>5, <1>7, SMT DEF KeySlot
<1> QED
  BY <1>2, <1>8, <1>9
=============================================================================
