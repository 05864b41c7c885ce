------------------------- MODULE ChannelHopsProofs -------------------------
(***************************************************************************)
(* Proofs about the channel selection, for any number of channels and any  *)
(* map that is not empty: both algorithms choose a channel of the map,     *)
(* since a map has a channel of every rank below its size and so the       *)
(* search of chan_sel_remap always finds one; and what algorithm #2 draws  *)
(* for an event is a 16-bit word, as a sum of distinct powers of two.      *)
(*                                                                         *)
(* Then about the channel map update together with the channel             *)
(* selection: it is still the channel map update, so all that is proved of *)
(* that holds here, and both sides meet on one used channel.               *)
(*                                                                         *)
(* The accumulator of algorithm #1 cannot be told from the anchor point,   *)
(* whose number wraps at another modulus.  The invariant compares the two  *)
(* sides instead: where each accumulator would be had it counted the       *)
(* events that its side still has to count.                                *)
(***************************************************************************)
EXTENDS ChannelHops, ChannelMapUpdateProofs, SumProofs

-----------------------------------------------------------------------------
(* The rank of a channel in a map: how many lower ones the map has. *)
Rank(chm, c) == Cardinality({d \in chm : d < c})

(* The channel after one of rank k is the least of those above it. *)
LEMMA NextRank ==
  ASSUME NEW chm \in SUBSET Nat, IsFiniteSet(chm),
         NEW c \in chm, Rank(chm, c) + 1 < Cardinality(chm)
  PROVE  \E next \in chm : Rank(chm, next) = Rank(chm, c) + 1
<1> DEFINE Lower == {d \in chm : d < c}
           Higher == {d \in chm : d > c}
<1>1. IsFiniteSet(Lower) /\ c \notin Lower
  BY FS_Subset
<1>2. Cardinality(Lower \cup {c}) = Rank(chm, c) + 1
  BY <1>1, FS_AddElement DEF Rank
<1>3. Higher # {}
  <2> SUFFICES ASSUME Higher = {} PROVE FALSE
    OBVIOUS
  <2>1. \A d \in chm : d \in Nat /\ ~(d > c) /\ c \in Nat
    OBVIOUS
  <2>2. \A d \in chm : d < c \/ d = c
    BY <2>1
  <2>3. chm = Lower \cup {c}
    BY <2>2
  <2>4. Cardinality(chm) \in Nat
    BY FS_CardinalityType
  <2> QED
    BY <1>2, <2>3, <2>4
<1>4. PICK next \in Higher : \A d \in Higher : next <= d
  BY <1>3, LeastNatural
<1>5. {d \in chm : d < next} = Lower \cup {c}
  <2>1. next \in chm /\ next > c /\ \A d \in chm : d > c => next <= d
    BY <1>4
  <2>2. \A d \in chm : d < next <=> d < c \/ d = c
    <3> SUFFICES ASSUME NEW d \in chm PROVE d < next <=> d < c \/ d = c
      OBVIOUS
    <3>1. d \in Nat /\ c \in Nat /\ next \in Nat
      BY <2>1
    <3> QED
      BY <2>1, <3>1
  <2> QED
    BY <2>2
<1> QED
  BY <1>2, <1>4, <1>5 DEF Rank

(* A map has a channel of every rank below its size. *)
LEMMA RankExists ==
  ASSUME NEW chm \in SUBSET Nat, IsFiniteSet(chm), NEW k \in Nat, k < Cardinality(chm)
  PROVE  \E c \in chm : Rank(chm, c) = k
<1> DEFINE Missing == {n \in Nat : n < Cardinality(chm) /\ \A c \in chm : Rank(chm, c) # n}
<1> SUFFICES ASSUME Missing # {} PROVE FALSE
  OBVIOUS
<1>1. Cardinality(chm) \in Nat
  BY FS_CardinalityType
<1>2. PICK n \in Missing : \A m \in Missing : n <= m
  BY LeastNatural, Missing \in SUBSET Nat
<1>3. CASE n = 0
  <2>1. chm # {}
    BY <1>1, <1>2, <1>3, FS_EmptySet
  <2>2. PICK c \in chm : \A d \in chm : c <= d
    BY <2>1, LeastNatural
  <2>3. {d \in chm : d < c} = {}
    <3>1. \A d \in chm : d \in Nat /\ c \in Nat /\ c <= d
      BY <2>2
    <3>2. \A d \in chm : ~(d < c)
      BY <3>1
    <3> QED
      BY <3>2
  <2> QED
    BY <1>2, <1>3, <2>3, FS_EmptySet DEF Rank
<1>4. CASE n > 0
  <2>1. n - 1 \in Nat /\ n - 1 < Cardinality(chm) /\ n - 1 \notin Missing
    BY <1>1, <1>2, <1>4
  <2>2. PICK c \in chm : Rank(chm, c) = n - 1
    BY <2>1
  <2>3. \E next \in chm : Rank(chm, next) = n
    BY <1>1, <1>2, <2>2, NextRank
  <2> QED
    BY <1>2, <2>3
<1> QED
  BY <1>2, <1>3, <1>4

-----------------------------------------------------------------------------
(* A map of the channels is finite and has numbers as members. *)
LEMMA MapFinite ==
  ASSUME NEW chm \in SUBSET Channel, chm # {}
  PROVE  /\ chm \in SUBSET Nat /\ IsFiniteSet(chm)
         /\ Cardinality(chm) \in Nat /\ Cardinality(chm) > 0
<1>1. IsFiniteSet(Channel) /\ Channel \subseteq Nat
  BY NumChannelsAssumption, FS_Interval DEF Channel
<1>2. IsFiniteSet(chm)
  BY <1>1, FS_Subset
<1> QED
  BY <1>1, <1>2, FS_CardinalityType, FS_EmptySet

(* chan_sel_remap finds a channel for every index below the number of used     *)
(* ones: its loop over the map never runs out.                                 *)
THEOREM RemapUsed ==
  ASSUME NEW chm \in SUBSET Channel, NEW index \in Nat, index < Cardinality(chm), chm # {}
  PROVE  Remap(chm, index) \in chm
<1>1. \E c \in chm : Rank(chm, c) = index
  BY MapFinite, RankExists
<1> QED
  BY <1>1 DEF Remap, Rank

(* Algorithm #1 selects a channel of the map. *)
THEOREM Sel1Used ==
  ASSUME NEW chm \in SUBSET Channel, chm # {}, NEW use \in Nat
  PROVE  Sel1(use, chm) \in chm
<1>1. Cardinality(chm) \in Nat /\ Cardinality(chm) > 0
  BY MapFinite
<1>2. use % Cardinality(chm) \in Nat /\ use % Cardinality(chm) < Cardinality(chm)
  BY <1>1
<1>3. Remap(chm, use % Cardinality(chm)) \in chm
  BY <1>2, RemapUsed
<1> QED
  BY <1>3 DEF Sel1

(* A word scaled to n values. *)
LEMMA Scaled ==
  ASSUME NEW n \in Nat, n > 0, NEW p \in 0 .. Word - 1
  PROVE  (n * p) \div Word \in Nat /\ (n * p) \div Word < n
<1>1. p \in Nat /\ Word - 1 - p \in Nat /\ Word = 65536
  BY DEF Word
<1>2. \A a, b \in Nat : a * b \in Nat
  OBVIOUS
<1>3. n * p \in Nat /\ n * (Word - 1 - p) \in Nat
  BY <1>1, <1>2
<1>4. n * (Word - 1 - p) = 65535 * n - n * p
  BY <1>1
<1>5. n * p <= 65535 * n
  BY <1>3, <1>4
<1> DEFINE x == n * p
<1>6. x \in Nat /\ x <= 65535 * n
  BY <1>3, <1>5
<1> HIDE DEF x
<1>7. x \div 65536 \in Nat /\ x \div 65536 < n
  BY <1>6
<1> QED
  BY <1>1, <1>7 DEF x

(* Algorithm #2 selects a channel of the map, from any 16-bit word. *)
THEOREM Sel2Used ==
  ASSUME NEW chm \in SUBSET Channel, chm # {}, NEW prn \in 0 .. Word - 1
  PROVE  Sel2(prn, chm) \in chm
<1>1. Cardinality(chm) \in Nat /\ Cardinality(chm) > 0
  BY MapFinite
<1>2. (Cardinality(chm) * prn) \div Word \in Nat
      /\ (Cardinality(chm) * prn) \div Word < Cardinality(chm)
  BY <1>1, Scaled
<1>3. Remap(chm, (Cardinality(chm) * prn) \div Word) \in chm
  BY <1>2, RemapUsed
<1> QED
  BY <1>3 DEF Sel2

-----------------------------------------------------------------------------
(* Words. *)

(* The weights of the bits. *)
Weight(i) == 2^i

(* Their values. *)
LEMMA Weights ==
  /\ Weight(0) = 1 /\ Weight(1) = 2 /\ Weight(2) = 4 /\ Weight(3) = 8 /\ Weight(4) = 16
  /\ Weight(5) = 32 /\ Weight(6) = 64 /\ Weight(7) = 128 /\ Weight(8) = 256 /\ Weight(9) = 512
  /\ Weight(10) = 1024 /\ Weight(11) = 2048 /\ Weight(12) = 4096 /\ Weight(13) = 8192
  /\ Weight(14) = 16384 /\ Weight(15) = 32768
  BY DEF Weight

(* Each is a positive number. *)
LEMMA WeightsPositive == \A i \in 0 .. 15 : Weight(i) \in Nat \ {0}
<1> SUFFICES ASSUME NEW i \in 0 .. 15 PROVE Weight(i) \in Nat \ {0}
  OBVIOUS
<1>1. \/ i = 0 \/ i = 1 \/ i = 2 \/ i = 3 \/ i = 4 \/ i = 5 \/ i = 6 \/ i = 7 \/ i = 8
      \/ i = 9 \/ i = 10 \/ i = 11 \/ i = 12 \/ i = 13 \/ i = 14 \/ i = 15
  OBVIOUS
<1> QED
  BY <1>1, Weights

(* A bit is 0 or 1. *)
LEMMA BitIsBit == ASSUME NEW x \in Int, NEW i \in 0 .. 15 PROVE Bit(x, i) \in {0, 1}
<1>1. Weight(i) \in Nat \ {0}
  BY WeightsPositive
<1>2. ASSUME NEW n \in Nat \ {0} PROVE (x \div n) \in Int /\ (x \div n) % 2 \in {0, 1}
  OBVIOUS
<1>3. (x \div Weight(i)) % 2 \in {0, 1}
  BY <1>1, <1>2
<1> QED
  BY <1>3, Zenon DEF Bit, Weight

(* One more term of a sum over the numbers below n. *)
LEMMA OneTerm ==
  ASSUME NEW n \in Nat, NEW f \in [0 .. n -> Nat], NEW k \in 0 .. n
  PROVE  LET g(j) == [i \in 0 .. n |-> IF i < j THEN f[i] ELSE 0] IN
           /\ SumOver(g(k), 0 .. n) \in Nat
           /\ SumOver(g(k + 1), 0 .. n) = SumOver(g(k), 0 .. n) + f[k]
<1> DEFINE g(j) == [i \in 0 .. n |-> IF i < j THEN f[i] ELSE 0]
<1>1. g(k) \in [0 .. n -> Nat] /\ f[k] \in Nat
  OBVIOUS
<1>2. g(k + 1) = [g(k) EXCEPT ![k] = @ + f[k]]
  <2>1. \A i \in 0 .. n : g(k + 1)[i] = IF i = k THEN g(k)[i] + f[k] ELSE g(k)[i]
    OBVIOUS
  <2>2. g(k + 1) = [i \in 0 .. n |-> g(k + 1)[i]] /\ g(k) = [i \in 0 .. n |-> g(k)[i]]
    OBVIOUS
  <2> HIDE DEF g
  <2> QED
    BY <2>1, <2>2
<1>4. IsFiniteSet(0 .. n)
  BY FS_Interval, 0 \in Int, n \in Int
<1> HIDE DEF g
<1>3. /\ SumOver(g(k), 0 .. n) \in Nat
      /\ SumOver([g(k) EXCEPT ![k] = @ + f[k]], 0 .. n) = SumOver(g(k), 0 .. n) + f[k]
  BY <1>1, <1>4, SumGrows
<1> QED
  BY <1>2, <1>3 DEF g

(* What grows by at most the weight of each bit in turn stays a word: U and V are  *)
(* its values before and after each bit.                                           *)
LEMMA Climb ==
  ASSUME NEW U, NEW V, NEW f, U[0] = 0,
         \A k \in 0 .. 15 : V[k] = U[k] + f[k] /\ f[k] \in Nat /\ f[k] <= Weight(k),
         /\ U[1] = V[0] /\ U[2] = V[1] /\ U[3] = V[2] /\ U[4] = V[3] /\ U[5] = V[4]
         /\ U[6] = V[5] /\ U[7] = V[6] /\ U[8] = V[7] /\ U[9] = V[8] /\ U[10] = V[9]
         /\ U[11] = V[10] /\ U[12] = V[11] /\ U[13] = V[12] /\ U[14] = V[13] /\ U[15] = V[14]
  PROVE  V[15] \in Nat /\ V[15] < 65536
<1> DEFINE w == [i \in 0 .. 15 |-> Weight(i)]
<1>1. \A k \in 0 .. 15 : V[k] = U[k] + f[k] /\ f[k] \in Nat /\ f[k] <= w[k]
  OBVIOUS
<1>2. /\ w[0] = 1 /\ w[1] = 2 /\ w[2] = 4 /\ w[3] = 8 /\ w[4] = 16 /\ w[5] = 32
      /\ w[6] = 64 /\ w[7] = 128 /\ w[8] = 256 /\ w[9] = 512 /\ w[10] = 1024 /\ w[11] = 2048
      /\ w[12] = 4096 /\ w[13] = 8192 /\ w[14] = 16384 /\ w[15] = 32768
  BY Weights
<1> HIDE DEF w
<1>3. V[3] \in Nat /\ V[3] <= 15
  BY <1>1, <1>2
<1>4. V[7] \in Nat /\ V[7] <= 255
  BY <1>1, <1>2, <1>3
<1>5. V[11] \in Nat /\ V[11] <= 4095
  BY <1>1, <1>2, <1>4
<1> QED
  BY <1>1, <1>2, <1>5

(* A sum of bits by their weights is a word. *)
LEMMA BitsMakeWord ==
  ASSUME NEW f \in [0 .. 15 -> Nat], \A i \in 0 .. 15 : f[i] <= Weight(i)
  PROVE  SumOf(f) \in 0 .. Word - 1
<1> DEFINE g(j) == [i \in 0 .. 15 |-> IF i < j THEN f[i] ELSE 0]
           S(j) == SumOver(g(j), 0 .. 15)
           U == [j \in 0 .. 15 |-> S(j)]
           V == [j \in 0 .. 15 |-> S(j + 1)]
<1>1. ASSUME NEW k \in 0 .. 15 PROVE S(k) \in Nat /\ S(k + 1) = S(k) + f[k]
  BY OneTerm, 15 \in Nat
<1>2. S(0) = 0
  <2>1. g(0) = [i \in 0 .. 15 |-> 0]
    OBVIOUS
  <2> QED
    BY <2>1, SumOfZeros, FS_Interval, 0 \in Int, 15 \in Int
<1>3. S(16) = SumOver(f, 0 .. 15)
  <2>1. g(16) = f
    OBVIOUS
  <2> QED
    BY <2>1
<1> HIDE DEF S
<1>4. U[0] = 0 /\ V[15] = SumOver(f, 0 .. 15)
  BY <1>2, <1>3
<1>5. ASSUME NEW k \in 0 .. 15
      PROVE  V[k] = U[k] + f[k] /\ f[k] \in Nat /\ f[k] <= Weight(k)
  <2>1. V[k] = S(k + 1) /\ U[k] = S(k)
    OBVIOUS
  <2>2. f[k] \in Nat /\ f[k] <= Weight(k) /\ Weight(k) \in Nat
    BY WeightsPositive
  <2> HIDE DEF U, V
  <2> QED
    BY <1>1, <2>1, <2>2
<1>10. /\ U[1] = V[0] /\ U[2] = V[1] /\ U[3] = V[2] /\ U[4] = V[3] /\ U[5] = V[4]
       /\ U[6] = V[5] /\ U[7] = V[6] /\ U[8] = V[7] /\ U[9] = V[8] /\ U[10] = V[9]
       /\ U[11] = V[10] /\ U[12] = V[11] /\ U[13] = V[12] /\ U[14] = V[13] /\ U[15] = V[14]
  OBVIOUS
<1> HIDE DEF U, V
<1>6. V[15] \in Nat /\ V[15] < 65536
  BY <1>4, <1>5, <1>10, Climb
<1>7. SumOf(f) = SumOver(f, 0 .. 15)
  <2>1. DOMAIN f = 0 .. 15
    OBVIOUS
  <2>2. MapThenSumSet(LAMBDA i : f[i], 0 .. 15) = SumOver(f, 0 .. 15)
    BY SumIsSumOver
  <2> QED
    BY <2>1, <2>2 DEF SumOf
<1>8. SumOf(f) \in Nat /\ SumOf(f) < 65536
  BY <1>4, <1>6, <1>7
<1>9. Word \in Nat /\ SumOf(f) < Word
  BY <1>8 DEF Word
<1> QED
  BY <1>8, <1>9

(* The exclusive or of two numbers, as far as it goes, is a word. *)
LEMMA XorIsWord == ASSUME NEW a \in Int, NEW b \in Int PROVE Xor(a, b) \in 0 .. Word - 1
<1> DEFINE g == [i \in 0 .. 15 |-> ((Bit(a, i) + Bit(b, i)) % 2) * Weight(i)]
<1>1. ASSUME NEW i \in 0 .. 15 PROVE g[i] \in Nat /\ g[i] <= Weight(i)
  <2>1. Bit(a, i) \in {0, 1} /\ Bit(b, i) \in {0, 1} /\ Weight(i) \in Nat
    BY BitIsBit, WeightsPositive
  <2>2. (Bit(a, i) + Bit(b, i)) % 2 \in {0, 1}
    BY <2>1
  <2> DEFINE x == (Bit(a, i) + Bit(b, i)) % 2
             w == Weight(i)
  <2> HIDE DEF x, w
  <2>3. w \in Nat /\ (x = 0 \/ x = 1)
    BY <2>1, <2>2 DEF x, w
  <2>4. x * w \in Nat /\ x * w <= w
    BY <2>3
  <2> QED
    BY <2>4 DEF x, w
<1>2. g \in [0 .. 15 -> Nat]
  BY <1>1
<1> HIDE DEF g
<1>3. SumOf(g) \in 0 .. Word - 1
  BY <1>1, <1>2, BitsMakeWord
<1> QED
  BY <1>3, Zenon DEF Xor, Weight, g

(* Reversing the bits of a number makes one. *)
LEMMA Rev8IsNat == ASSUME NEW b \in Int PROVE Rev8(b) \in Nat
<1> DEFINE f == [i \in 0 .. 7 |-> Bit(b, i) * Weight(7 - i)]
<1>1. ASSUME NEW i \in 0 .. 7 PROVE f[i] \in Nat
  <2>1. Bit(b, i) \in {0, 1} /\ Weight(7 - i) \in Nat
    <3>1. i \in 0 .. 15 /\ 7 - i \in 0 .. 15
      OBVIOUS
    <3> QED
      BY <3>1, BitIsBit, WeightsPositive
  <2> DEFINE x == Bit(b, i)
             w == Weight(7 - i)
  <2> HIDE DEF x, w
  <2>2. w \in Nat /\ (x = 0 \/ x = 1)
    BY <2>1 DEF x, w
  <2>3. x * w \in Nat
    BY <2>2
  <2> QED
    BY <2>3 DEF x, w
<1>2. f \in [0 .. 7 -> Nat] /\ 0 \in 0 .. 7
  BY <1>1
<1>5. IsFiniteSet(0 .. 7)
  BY FS_Interval, 0 \in Int, 7 \in Int
<1> HIDE DEF f
<1>3. SumOver(f, 0 .. 7) \in Nat
  BY <1>2, <1>5, SumGrows, 0 \in Nat
<1>4. SumOf(f) = SumOver(f, 0 .. 7)
  <2>1. DOMAIN f = 0 .. 7
    BY <1>2
  <2>2. MapThenSumSet(LAMBDA i : f[i], 0 .. 7) = SumOver(f, 0 .. 7)
    BY SumIsSumOver
  <2> QED
    BY <2>1, <2>2 DEF SumOf
<1> QED
  BY <1>3, <1>4, Zenon DEF Rev8, Weight, f

(* What algorithm #2 draws for an event is a word: chan_prn_e returns a uint16_t. *)
THEOREM PrnIsWord == \A e \in Counter : Prn[e] \in 0 .. Word - 1
<1> SUFFICES ASSUME NEW e \in Counter PROVE PrnE(e, ChanId) \in 0 .. Word - 1
  BY DEF Prn
<1>1. e \in Int /\ ChanId \in Int
  BY HopsAssumption DEF Counter, Word
<1> DEFINE Round(x) == Mam(Perm(x), ChanId)
<1>2. ASSUME NEW x \in Int PROVE Round(x) \in Int
  <2>1. x \div 256 \in Int /\ x % 256 \in Int
    OBVIOUS
  <2>2. Rev8(x \div 256) \in Int /\ Rev8(x % 256) \in Int
    BY <2>1, Rev8IsNat
  <2>3. Perm(x) \in Int
    BY <2>2 DEF Perm
  <2> QED
    BY <1>1, <2>3 DEF Mam, Word
<1>3. Xor(e, ChanId) \in Int
  <2>1. Xor(e, ChanId) \in 0 .. Word - 1
    BY <1>1, XorIsWord
  <2>2. \A x \in 0 .. Word - 1 : x \in Int
    BY DEF Word
  <2> QED
    BY <2>1, <2>2, Zenon
<1> HIDE DEF Round
<1>4. Round(Round(Round(Xor(e, ChanId)))) \in Int
  BY <1>2, <1>3
<1>5. PrnS(e, ChanId) \in Int
  BY <1>4 DEF PrnS, Round
<1> QED
  BY <1>1, <1>5, XorIsWord DEF PrnE

-----------------------------------------------------------------------------
(* The composition takes the steps of the channel map update and no others. *)
THEOREM HopsRefine == HopSpec => Spec
<1>1. HopInit => Init
  BY DEF HopInit
<1>2. [HopNext]_hopVars => [Next]_vars
  BY DEF HopNext, HopReconnect, hopVars, Next
<1> QED
  BY <1>1, <1>2, PTL DEF HopSpec, Spec

-----------------------------------------------------------------------------
(* Where the accumulator is once the events that wait have been counted. *)
Ahead(s) == (data_chan_use[s] + data_chan_hop * (latency_prepare[s] + lazy[s])) % NumChannels

HopTypeOK ==
  /\ data_chan_sel \in {0, 1} /\ data_chan_hop \in Nat
  /\ data_chan_use \in [Side -> Channel]

(* The central is one hop ahead while only it has handled the anchor point. *)
InPhase ==
  data_chan_sel = 0 =>
    Ahead(Central) = IF stage = "peripheral" THEN (Ahead(Peripheral) + data_chan_hop) % NumChannels
                                             ELSE Ahead(Peripheral)

(* Remainders add up. *)
LEMMA RestAdds ==
  ASSUME NEW x \in Nat, NEW h \in Nat
  PROVE  ((x % NumChannels) + h) % NumChannels = (x + h) % NumChannels
<1> DEFINE m == NumChannels
           r == x % m
           q == x \div m
           r2 == (r + h) % m
           q2 == (r + h) \div m
<1>1. m \in Nat /\ m > 0
  BY NumChannelsAssumption
<1>2. r \in Nat /\ q \in Int /\ x = m * q + r
  BY <1>1
<1>3. r2 \in 0 .. m - 1 /\ q2 \in Int /\ r + h = m * q2 + r2
  BY <1>1, <1>2
<1> HIDE DEF r, q, r2, q2, m
<1>4. \A a, b \in Int : m * (a + b) = m * a + m * b
  BY <1>1
<1>5. x + h = m * (q + q2) + r2
  BY <1>1, <1>2, <1>3, <1>4
<1>6. \A d \in Int : (m * d + r2) % m = r2
  BY <1>1, <1>3, RestUnique
<1>7. q + q2 \in Int
  BY <1>2, <1>3
<1> QED
  BY <1>5, <1>6, <1>7 DEF m, r, r2

(* A side that handles the anchor point moves on by one hop. *)
LEMMA HopsOnce ==
  ASSUME TypeOK, HopTypeOK, NEW s \in Side, Skip(s) \/ Abort(s) \/ Prepare(s), Selects(s)
  PROVE  /\ HopTypeOK'
         /\ data_chan_sel' = data_chan_sel /\ data_chan_hop' = data_chan_hop
         /\ data_chan_sel = 0 => Ahead(s)' = (Ahead(s) + data_chan_hop) % NumChannels
         /\ \A t \in Side \ {s} : Ahead(t)' = Ahead(t)
<1> DEFINE u == data_chan_use[s]
           h == data_chan_hop
           n == latency_prepare[s] + lazy[s]
<1>1. /\ latency_prepare \in [Side -> Nat] /\ lazy \in [Side -> Nat] /\ attending \in [Side -> BOOLEAN]
      /\ data_chan_use \in [Side -> Channel] /\ u \in Nat /\ h \in Nat /\ n \in Nat
  BY NumChannelsAssumption DEF TypeOK, HopTypeOK, Channel
<1>2. data_chan_sel' = data_chan_sel /\ data_chan_hop' = data_chan_hop
  BY DEF Selects
<1>3. NumChannels \in Nat /\ NumChannels > 0
  BY NumChannelsAssumption
<1>4. \A a, b \in Nat : a * b \in Nat /\ a * (b + 1) = a * b + a
  OBVIOUS
<1>5. u + h * n \in Nat /\ u + h * (n + 1) = (u + h * n) + h
  BY <1>1, <1>4
<1>6. (((u + h * n) % NumChannels) + h) % NumChannels = (u + h * (n + 1)) % NumChannels
  BY <1>1, <1>5, RestAdds
<1>7. Ahead(s) = (u + h * n) % NumChannels
  BY DEF Ahead
<1>8. CASE Skip(s) \/ Abort(s)
  <2>1. attending'[s] = FALSE /\ latency_prepare'[s] + lazy'[s] = n + 1
    BY <1>1, <1>8 DEF Skip, Abort
  <2>2. \A t \in Side \ {s} : latency_prepare'[t] = latency_prepare[t] /\ lazy'[t] = lazy[t]
    BY <1>1, <1>8 DEF Skip, Abort
  <2>3. data_chan_use' = data_chan_use
    BY <2>1 DEF Selects
  <2>4. Ahead(s)' = (u + h * (n + 1)) % NumChannels
    BY <1>2, <2>1, <2>3 DEF Ahead
  <2>5. \A t \in Side \ {s} : Ahead(t)' = Ahead(t)
    BY <1>2, <2>2, <2>3 DEF Ahead
  <2> QED
    BY <1>2, <1>6, <1>7, <2>3, <2>4, <2>5 DEF HopTypeOK
<1>9. CASE Prepare(s)
  <2> DEFINE next == Unmapped(u, h, latency_prepare[s] + lazy[s])
  <2>1. attending'[s] = TRUE /\ latency_prepare'[s] + lazy'[s] = 0
        /\ \A t \in Side \ {s} : latency_prepare'[t] = latency_prepare[t] /\ lazy'[t] = lazy[t]
    BY <1>1, <1>9 DEF Prepare
  <2>2. next = (u + h * (n + 1)) % NumChannels
    BY <1>1 DEF Unmapped
  <2>3. next \in Channel /\ next \in Nat /\ next < NumChannels
    BY <1>1, <1>3, <1>5, <2>2 DEF Channel
  <2>4. CASE data_chan_sel = 0
    <3>1. data_chan_use' = [data_chan_use EXCEPT ![s] = next]
      BY <2>1, <2>4 DEF Selects
    <3> HIDE DEF next
    <3>2. data_chan_use'[s] = next /\ data_chan_use' \in [Side -> Channel]
          /\ \A t \in Side \ {s} : data_chan_use'[t] = data_chan_use[t]
      BY <1>1, <2>3, <3>1
    <3>3. Ahead(s)' = (next + h * 0) % NumChannels
      BY <1>2, <2>1, <3>2 DEF Ahead
    <3>4. (next + h * 0) % NumChannels = next
      BY <1>1, <1>3, <2>3
    <3>5. \A t \in Side \ {s} : Ahead(t)' = Ahead(t)
      BY <1>2, <2>1, <3>2 DEF Ahead
    <3> QED
      BY <1>2, <1>6, <1>7, <2>2, <3>2, <3>3, <3>4, <3>5 DEF HopTypeOK
  <2>5. CASE data_chan_sel # 0
    <3>1. data_chan_use' = data_chan_use
      BY <2>5 DEF Selects
    <3>2. \A t \in Side \ {s} : Ahead(t)' = Ahead(t)
      BY <1>2, <2>1, <3>1 DEF Ahead
    <3> QED
      BY <1>2, <2>5, <3>1, <3>2 DEF HopTypeOK
  <2> QED
    BY <2>4, <2>5
<1> QED
  BY <1>8, <1>9

(* At first nobody has hopped. *)
LEMMA PhaseInit == HopInit => HopTypeOK /\ InPhase
  BY HopsAssumption, NumChannelsAssumption, Sides
  DEF HopInit, Init, HopTypeOK, InPhase, Ahead, Side, Channel

(* Every step keeps the accumulators in phase. *)
LEMMA PhaseNext ==
  TypeOK /\ HopTypeOK /\ InPhase /\ [HopNext]_hopVars => (HopTypeOK /\ InPhase)'
<1> SUFFICES ASSUME TypeOK, HopTypeOK, InPhase, [HopNext]_hopVars PROVE (HopTypeOK /\ InPhase)'
  OBVIOUS
<1>1. CASE CentralStage /\ Selects(Central)
  <2>1. stage = "central" /\ stage' = "peripheral" /\ (Skip(Central) \/ Abort(Central) \/ Prepare(Central))
    BY <1>1, Zenon DEF CentralStage, CentralSkips, CentralCallback
  <2>2. HopTypeOK' /\ data_chan_sel' = data_chan_sel /\ data_chan_hop' = data_chan_hop
        /\ (data_chan_sel = 0 => Ahead(Central)' = (Ahead(Central) + data_chan_hop) % NumChannels)
        /\ Ahead(Peripheral)' = Ahead(Peripheral)
    BY <1>1, <2>1, Sides, HopsOnce
  <2> QED
    BY <2>1, <2>2 DEF InPhase
<1>2. CASE PeripheralStage /\ Selects(Peripheral)
  <2>1. stage = "peripheral" /\ stage' = "event"
        /\ (Skip(Peripheral) \/ Abort(Peripheral) \/ Prepare(Peripheral))
    BY <1>2, Zenon DEF PeripheralStage, PeripheralSkips, PeripheralCallback
  <2>2. HopTypeOK' /\ data_chan_sel' = data_chan_sel /\ data_chan_hop' = data_chan_hop
        /\ (data_chan_sel = 0 => Ahead(Peripheral)' = (Ahead(Peripheral) + data_chan_hop) % NumChannels)
        /\ Ahead(Central)' = Ahead(Central)
    BY <1>2, <2>1, Sides, HopsOnce
  <2> QED
    BY <2>1, <2>2 DEF InPhase
<1>3. CASE HopReconnect
  <2>1. HopTypeOK'
    BY <1>3, HopsAssumption, NumChannelsAssumption DEF HopReconnect, HopTypeOK, Channel
  <2>2. stage' = "central" /\ Ahead(Central)' = Ahead(Peripheral)'
    BY <1>3, Sides DEF HopReconnect, Reconnect, Ahead
  <2> QED
    BY <2>1, <2>2 DEF InPhase
<1>4. CASE /\ UNCHANGED <<counting, hopping>>
           /\ stage' = stage \/ (stage # "peripheral" /\ stage' # "peripheral")
  BY <1>4 DEF counting, hopping, HopTypeOK, InPhase, Ahead
<1>5. CASE ((\E m \in Map : Request(m)) \/ RxInd \/ NextAnchor \/ SupervisionTimeout) /\ UNCHANGED hopping
  BY <1>4, <1>5 DEF Request, RxInd, NextAnchor, SupervisionTimeout
<1>6. CASE UNCHANGED hopVars
  BY <1>4, <1>6 DEF hopVars, vars
<1> QED
  BY <1>1, <1>2, <1>3, <1>5, <1>6 DEF HopNext

(* With the invariant of the channel map update, and in an event both attend,  *)
(* nobody has an event left to count: accumulators and counters are equal.     *)
LEMMA MeetsInPhase == Inv /\ HopTypeOK /\ InPhase => SidesMeet
<1> SUFFICES ASSUME Inv, HopTypeOK, InPhase, Open, stage = "event", \A s \in Side : attending[s],
                    data_chan_map[Central] = data_chan_map[Peripheral]
             PROVE  /\ SelectedChannel(Central) = SelectedChannel(Peripheral)
                    /\ SelectedChannel(Central) \in data_chan_map[Central]
  BY DEF SidesMeet
<1> DEFINE chm == data_chan_map[Central]
<1>1. \A s \in Side : latency_prepare[s] = 0 /\ lazy[s] = 0
  BY DEF Inv, Attends
<1>2. chm \in SUBSET Channel /\ chm # {}
  BY HopsAssumption, Sides DEF Inv, TypeOK
<1>3. CASE data_chan_sel = 0
  <2> DEFINE c == data_chan_use[Central]
             p == data_chan_use[Peripheral]
  <2>1. c \in Channel /\ p \in Channel /\ data_chan_hop \in Nat
    BY Sides DEF HopTypeOK
  <2>2. Ahead(Central) = c % NumChannels /\ Ahead(Peripheral) = p % NumChannels
    <3>1. \A x \in Nat : x + data_chan_hop * (0 + 0) = x
      BY <2>1
    <3>2. c \in Nat /\ p \in Nat
      BY <2>1, NumChannelsAssumption DEF Channel
    <3> QED
      BY <1>1, <3>1, <3>2, Sides DEF Ahead
  <2>3. c = p
    BY <1>3, <2>1, <2>2, NumChannelsAssumption DEF InPhase, Channel
  <2>4. SelectedChannel(Central) = Sel1(c, chm) /\ SelectedChannel(Peripheral) = Sel1(p, chm)
    BY <1>3 DEF SelectedChannel
  <2>5. Sel1(c, chm) \in chm
    BY <1>2, <2>1, NumChannelsAssumption, Sel1Used DEF Channel
  <2> QED
    BY <2>3, <2>4, <2>5
<1>4. CASE data_chan_sel = 1
  <2>1. \A s \in Side : event_counter[s] \in Counter /\ Plus(event_counter[s], 0) = Plus(anchor, 1)
    BY <1>1 DEF Inv, TypeOK, CountersTrackAnchors, Handled
  <2>2. event_counter[Central] = event_counter[Peripheral]
    BY <2>1, PlusZero, Sides
  <2>3. Plus(event_counter[Central], -1) \in Counter
    <3>1. event_counter[Central] \in Int /\ -1 \in Int
      BY <2>1, Sides DEF Counter
    <3> QED
      BY <3>1, PlusInRange
  <2> DEFINE prn == Prn[Plus(event_counter[Central], -1)]
  <2>4. prn \in 0 .. Word - 1
    BY <2>3, PrnIsWord
  <2>5. SelectedChannel(Central) = Sel2(prn, chm) /\ SelectedChannel(Peripheral) = Sel2(prn, chm)
    BY <1>4, <2>2 DEF SelectedChannel
  <2>6. Sel2(prn, chm) \in chm
    BY <1>2, <2>4, Sel2Used
  <2> QED
    BY <2>5, <2>6
<1> QED
  BY <1>3, <1>4 DEF HopTypeOK

(* In an event both attend, over the same map, both sides are on one channel,  *)
(* and the map has it.                                                         *)
THEOREM SidesAlwaysMeet == HopSpec => []SidesMeet
<1>1. HopSpec => []Inv
  BY HopsRefine, Invariance, PTL
<1>2. Inv => TypeOK
  BY DEF Inv
<1>3. Inv /\ HopTypeOK /\ InPhase /\ [HopNext]_hopVars => (HopTypeOK /\ InPhase)'
  BY <1>2, PhaseNext
<1>4. HopSpec => [](HopTypeOK /\ InPhase)
  BY <1>1, <1>3, PhaseInit, PTL DEF HopSpec
<1> QED
  BY <1>1, <1>4, MeetsInPhase, PTL
=============================================================================
