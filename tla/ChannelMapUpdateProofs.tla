----------------------- MODULE ChannelMapUpdateProofs -----------------------
(***************************************************************************)
(* Proofs about ChannelMapUpdate for every size of the event counter and   *)
(* every bound on skipped events and delays.                               *)
(***************************************************************************)
EXTENDS ChannelMapUpdate, SequenceTheorems, TLAPS

-----------------------------------------------------------------------------
(* The event counter's arithmetic, for every even modulus: the sums of      *)
(* Instant.tla may be taken in any order, and an instant that is a known    *)
(* distance away is told from one that has passed.                          *)

(* A product with a positive factor is at least as far from 0 as the other.  *)
LEMMA ProductBound ==
  ASSUME NEW m \in Nat, m > 0, NEW d \in Int
  PROVE  /\ d >= 1 => m * d >= m
         /\ d <= -1 => m * d <= -m
<1>1. CASE d >= 1
  <2>1. PICK k \in Nat : d = k + 1
    BY <1>1, d - 1 \in Nat
  <2>2. m * d = m * k + m /\ m * k >= 0
    BY <2>1
  <2> QED
    BY <1>1, <2>2
<1>2. CASE d <= -1
  <2>1. PICK k \in Nat : d = -1 - k
    BY <1>2, -1 - d \in Nat
  <2>2. m * d = -m - m * k /\ m * k >= 0
    BY <2>1
  <2> QED
    BY <1>2, <2>2
<1> QED
  BY <1>1, <1>2

(* Division is unique: what is written as a multiple plus a small rest.      *)
LEMMA RestUnique ==
  ASSUME NEW m \in Nat, m > 0, NEW q \in Int, NEW r \in 0 .. m - 1
  PROVE  (m * q + r) % m = r
<1> DEFINE a == m * q + r
           d == (a \div m) - q
<1>1. a \in Int /\ a \div m \in Int /\ a % m \in 0 .. m - 1 /\ a = m * (a \div m) + (a % m)
  OBVIOUS
<1>2. d \in Int /\ m * d = m * (a \div m) - m * q
  BY <1>1
<1>3. m * d = r - (a % m)
  BY <1>1, <1>2
<1>4. m * d < m /\ m * d > -m
  BY <1>1, <1>3
<1>5. ~(d >= 1) /\ ~(d <= -1)
  <2> HIDE DEF d
  <2> QED
    BY <1>2, <1>4, ProductBound
<1>6. d = 0
  BY <1>2, <1>5
<1>7. a \div m = q
  BY <1>1, <1>6
<1> QED
  BY <1>1, <1>7

(* A sum is in range. *)
LEMMA PlusInRange ==
  ASSUME NEW e \in Int, NEW n \in Int
  PROVE  Plus(e, n) \in Counter
  BY CounterModAssumption DEF Plus, Counter

(* Nothing added. *)
LEMMA PlusZero ==
  ASSUME NEW e \in Counter
  PROVE  Plus(e, 0) = e
<1>1. CounterMod \in Nat /\ CounterMod > 0
  BY CounterModAssumption
<1>2. (CounterMod * 0 + e) % CounterMod = e
  BY <1>1, RestUnique, 0 \in Int DEF Counter
<1> QED
  BY <1>1, <1>2 DEF Plus, Counter

(* Sums may be taken in two steps. *)
LEMMA PlusPlus ==
  ASSUME NEW e \in Int, NEW n \in Int, NEW k \in Int
  PROVE  Plus(Plus(e, n), k) = Plus(e, n + k)
<1>1. CounterMod \in Nat /\ CounterMod > 0
  BY CounterModAssumption
<1> DEFINE m == CounterMod
           q == (e + n) \div m
           r == (e + n) % m
           p == (r + k) \div m
           s == (r + k) % m
<1>2. q \in Int /\ r \in Int /\ e + n = m * q + r
  BY <1>1
<1>3. p \in Int /\ s \in 0 .. m - 1 /\ r + k = m * p + s
  BY <1>1, <1>2
<1>4. m \in Nat /\ m > 0
  BY <1>1
<1> HIDE DEF q, r, p, s, m
<1>5. e + (n + k) = m * q + m * p + s
  BY <1>2, <1>3, <1>4
<1>6. m * q + m * p + s = m * (q + p) + s
  BY <1>2, <1>3, <1>4
<1>7. (m * (q + p) + s) % m = s
  BY <1>2, <1>3, <1>4, RestUnique, q + p \in Int
<1>8. (e + (n + k)) % m = s
  BY <1>5, <1>6, <1>7
<1> QED
  BY <1>8 DEF Plus, m, r, s

-----------------------------------------------------------------------------
(* How far an instant is ahead of the event counter.                        *)

\* The signed distance from event e to instant i, negative when i lies behind.
Dist(i, e) ==
  LET d == (i - e) % CounterMod IN IF d <= HalfRange THEN d ELSE d - CounterMod

(* The modulus is twice the half range, and two. *)
LEMMA HalfFacts ==
  /\ CounterMod \in Nat /\ CounterMod > 0
  /\ HalfRange \in Nat /\ HalfRange >= 1 /\ CounterMod = 2 * HalfRange + 2
<1>1. CounterMod \in Nat /\ CounterMod >= 4 /\ CounterMod % 2 = 0
  BY CounterModAssumption
<1>2. \A m \in Nat : m % 2 = 0 => m = 2 * (m \div 2)
  OBVIOUS
<1> QED
  BY <1>1, <1>2 DEF HalfRange

(* A small distance is the remainder, or the remainder less the modulus. *)
LEMMA SmallRest ==
  ASSUME NEW x \in Int, NEW q \in Int, NEW k \in Int, x = CounterMod * q + k,
         -HalfRange <= k, k <= HalfRange
  PROVE  x % CounterMod = IF k >= 0 THEN k ELSE k + CounterMod
<1>1. CASE k >= 0
  BY <1>1, HalfFacts, RestUnique
<1>2. CASE k < 0
  <2>1. CounterMod * q + k = CounterMod * (q - 1) + (k + CounterMod)
    BY HalfFacts
  <2>2. k + CounterMod \in 0 .. CounterMod - 1 /\ q - 1 \in Int
    BY <1>2, HalfFacts
  <2>3. (CounterMod * (q - 1) + (k + CounterMod)) % CounterMod = k + CounterMod
    BY <2>2, HalfFacts, RestUnique
  <2> QED
    BY <1>2, <2>1, <2>3
<1> QED
  BY <1>1, <1>2

(* The distance differs from the plain difference by whole rounds. *)
LEMMA DistRounds ==
  ASSUME NEW i \in Int, NEW e \in Int
  PROVE  /\ Dist(i, e) \in Int /\ Dist(i, e) <= HalfRange
         /\ \E q \in Int : i - e = CounterMod * q + Dist(i, e)
<1> DEFINE d == (i - e) % CounterMod
           r == (i - e) \div CounterMod
<1>1. d \in Int /\ r \in Int /\ d < CounterMod /\ i - e = CounterMod * r + d
  BY HalfFacts
<1>2. Dist(i, e) = IF d <= HalfRange THEN d ELSE d - CounterMod
  BY DEF Dist
<1> HIDE DEF d, r
<1>3. CASE d <= HalfRange
  BY <1>1, <1>2, <1>3
<1>4. CASE d > HalfRange
  <2>1. i - e = CounterMod * (r + 1) + (d - CounterMod) /\ r + 1 \in Int
    BY <1>1, HalfFacts
  <2>2. Dist(i, e) = d - CounterMod /\ d - CounterMod \in Int /\ d - CounterMod <= HalfRange
    BY <1>1, <1>2, <1>4, HalfFacts
  <2> QED
    BY <2>1, <2>2
<1> QED
  BY <1>1, <1>3, <1>4, HalfFacts

(* ... and is the only small number that does. *)
LEMMA DistUnique ==
  ASSUME NEW i \in Int, NEW e \in Int, NEW q \in Int, NEW k \in Int,
         i - e = CounterMod * q + k, -HalfRange <= k, k <= HalfRange
  PROVE  Dist(i, e) = k
<1>1. (i - e) % CounterMod = IF k >= 0 THEN k ELSE k + CounterMod
  BY SmallRest
<1> QED
  BY <1>1, HalfFacts DEF Dist

(* A sum differs from the plain sum by whole rounds. *)
LEMMA PlusRounds ==
  ASSUME NEW e \in Int, NEW n \in Int
  PROVE  \E q \in Int : Plus(e, n) = e + n + CounterMod * q
<1> DEFINE r == (e + n) \div CounterMod
<1>1. r \in Int /\ e + n = CounterMod * r + ((e + n) % CounterMod)
  BY HalfFacts
<1>2. Plus(e, n) = e + n + CounterMod * (-r) /\ -r \in Int
  BY <1>1, HalfFacts DEF Plus
<1> QED
  BY <1>2

(* An instant is as far ahead as was added to the counter. *)
LEMMA DistOfSum ==
  ASSUME NEW e \in Int, NEW k \in Int, -HalfRange <= k, k <= HalfRange
  PROVE  Dist(Plus(e, k), e) = k
<1>1. PICK q \in Int : Plus(e, k) = e + k + CounterMod * q
  BY PlusRounds
<1>2. Plus(e, k) \in Int /\ Plus(e, k) - e = CounterMod * q + k
  BY <1>1, HalfFacts
<1> QED
  BY <1>2, DistUnique

(* n events later an instant is n events nearer, until it is long past. *)
LEMMA DistLater ==
  ASSUME NEW i \in Int, NEW e \in Int, NEW n \in Nat, Dist(i, e) - n >= -HalfRange
  PROVE  Dist(i, Plus(e, n)) = Dist(i, e) - n
<1> DEFINE d == Dist(i, e)
<1>1. PICK q \in Int : i - e = CounterMod * q + d
  BY DistRounds
<1>2. PICK p \in Int : Plus(e, n) = e + n + CounterMod * p
  BY PlusRounds
<1>3. d \in Int /\ d <= HalfRange
  BY DistRounds
<1> HIDE DEF d
<1>4. CounterMod * (q - p) = CounterMod * q - CounterMod * p /\ q - p \in Int
  BY HalfFacts
<1>5. Plus(e, n) \in Int /\ i - Plus(e, n) = CounterMod * (q - p) + (d - n)
  BY <1>1, <1>2, <1>3, <1>4, HalfFacts
<1>6. -HalfRange <= d - n /\ d - n <= HalfRange /\ d - n \in Int
  BY <1>3, HalfFacts DEF d
<1>7. Dist(i, Plus(e, n)) = d - n
  BY <1>4, <1>5, <1>6, DistUnique
<1> QED
  BY <1>7 DEF d

(* An instant has been reached when it is not ahead. *)
LEMMA ReachedDist ==
  ASSUME NEW i \in Int, NEW e \in Int, Dist(i, e) >= -HalfRange
  PROVE  InstantReachedOrPassed(i, e) <=> Dist(i, e) <= 0
<1> DEFINE d == Dist(i, e)
<1>1. PICK q \in Int : i - e = CounterMod * q + d
  BY DistRounds
<1>2. d \in Int /\ d <= HalfRange /\ d >= -HalfRange
  BY DistRounds
<1> HIDE DEF d
<1>3. CounterMod * (-q) = -(CounterMod * q) /\ -q \in Int
  BY HalfFacts
<1> DEFINE f == -d
           x == e - i
           p == -q
<1>4. x \in Int /\ p \in Int /\ f \in Int /\ x = CounterMod * p + f
      /\ -HalfRange <= f /\ f <= HalfRange
  BY <1>1, <1>2, <1>3, HalfFacts
<1> HIDE DEF f, x, p
<1>5. x % CounterMod = IF f >= 0 THEN f ELSE f + CounterMod
  BY <1>4, SmallRest
<1>6. InstantReachedOrPassed(i, e) <=> f >= 0
  BY <1>4, <1>5, HalfFacts DEF x, InstantReachedOrPassed
<1> QED
  BY <1>2, <1>6 DEF d, f

(* An instant that is not passed is not behind. *)
LEMMA NotPassedDist ==
  ASSUME NEW i \in Int, NEW e \in Int, Dist(i, e) >= -HalfRange, InstantNotPassed(i, e)
  PROVE  Dist(i, e) >= 0
<1> DEFINE d == Dist(i, e)
<1>1. PICK q \in Int : i - e = CounterMod * q + d
  BY DistRounds
<1>2. d \in Int /\ d <= HalfRange /\ d >= -HalfRange
  BY DistRounds
<1> HIDE DEF d
<1>3. (i - e) % CounterMod = IF d >= 0 THEN d ELSE d + CounterMod
  BY <1>1, <1>2, SmallRest
<1> QED
  BY <1>2, <1>3, HalfFacts DEF d, InstantNotPassed

-----------------------------------------------------------------------------
(* Lemmas about the constants and the operators. *)

(* The constants, as the proofs use them. *)
LEMMA ConstantFacts ==
  /\ CounterMod \in Nat /\ CounterMod >= 4 /\ 0 \in Counter
  /\ InstantDelta \in Counter /\ InstantDelta \in Nat /\ InstantDelta >= 1
  /\ NumCtx \in Nat /\ TxBufs \in Nat /\ MaxStall \in Nat
  /\ CentralSkip \in Nat /\ PeripheralSkip \in Nat /\ \A s \in Side : MaxSkip(s) \in Nat
  /\ InstantDelta + CentralSkip + PeripheralSkip + MaxStall < HalfRange
  BY CounterModAssumption, InstantDeltaAssumption, SkipAssumption DEF Counter, MaxSkip

(* There are two sides. *)
LEMMA Sides ==
  Central \in Side /\ Peripheral \in Side /\ Central # Peripheral
  BY DEF Side, Central, Peripheral

(* A RUN event keeps the queue typed and the map a map. *)
LEMMA RunFacts ==
  ASSUME NEW q \in Seq(Proc), NEW ec \in Nat, NEW ready \in BOOLEAN, NEW m \in Map
  PROVE  /\ AfterRun(q, ec, ready) \in Seq(Proc)
         /\ Len(AfterRun(q, ec, ready)) \in Nat /\ Len(AfterRun(q, ec, ready)) <= Len(q)
         /\ MapAfterRun(q, ec, m) \in Map
         /\ Sends(q, ready) => Head(q).chm \in Map
<1>1. Len(q) \in Nat /\ (q # <<>> => Head(q) \in Proc /\ Head(q) = q[1] /\ 1 \in DOMAIN q /\ Len(q) >= 1)
  BY LenProperties, ElementOfSeq, EmptySeq, HeadTailProperties
<1>2. CASE Sends(q, ready)
  <2> DEFINE p == [Head(q) EXCEPT !.state = "WAIT_INSTANT", !.instant = Plus(ec, InstantDelta)]
  <2>1. q # <<>> /\ ~Completes(q, ec)
    BY <1>2 DEF Sends, Completes
  <2>2. Plus(ec, InstantDelta) \in Counter
    BY PlusInRange, ConstantFacts
  <2>3. p \in Proc
    BY <1>1, <2>1, <2>2 DEF Proc
  <2>4. AfterRun(q, ec, ready) = [q EXCEPT ![1] = p]
    BY <1>1, <1>2, <2>1 DEF AfterRun
  <2> HIDE DEF p
  <2>5. [q EXCEPT ![1] = p] \in Seq(Proc) /\ Len([q EXCEPT ![1] = p]) = Len(q)
    BY <1>1, <2>1, <2>3, ExceptSeq
  <2>6. MapAfterRun(q, ec, m) = m /\ Head(q).chm \in Map
    BY <1>1, <2>1 DEF MapAfterRun, Proc
  <2> QED
    BY <1>1, <2>4, <2>5, <2>6
<1>3. CASE ~Sends(q, ready) /\ Completes(q, ec)
  <2>1. q # <<>>
    BY <1>3 DEF Completes
  <2>2. AfterRun(q, ec, ready) = Tail(q) /\ MapAfterRun(q, ec, m) = Head(q).chm
    BY <1>3 DEF AfterRun, MapAfterRun
  <2>3. Tail(q) \in Seq(Proc) /\ Len(Tail(q)) = Len(q) - 1
    BY <2>1, HeadTailProperties
  <2> QED
    BY <1>1, <1>3, <2>1, <2>2, <2>3 DEF Proc
<1>4. CASE ~Sends(q, ready) /\ ~Completes(q, ec)
  BY <1>1, <1>4 DEF AfterRun, MapAfterRun
<1> QED
  BY <1>2, <1>3, <1>4

(* A side that skips, aborts or prepares keeps its counters typed. *)
LEMMA CountingTyped ==
  ASSUME TypeOK, NEW s \in Side, Skip(s) \/ Abort(s) \/ Prepare(s)
  PROVE  /\ event_counter' \in [Side -> Counter]
         /\ latency_prepare' \in [Side -> Nat] /\ lazy' \in [Side -> Nat]
         /\ \A t \in Side : latency_prepare'[t] + lazy'[t] <= MaxSkip(t)
         /\ attending' \in [Side -> BOOLEAN]
<1> USE DEF TypeOK
<1>1. latency_prepare[s] \in Nat /\ lazy[s] \in Nat /\ event_counter[s] \in Int
  BY DEF Counter
<1>2. attending' \in [Side -> BOOLEAN]
  <2>1. attending' = [attending EXCEPT ![s] = FALSE] \/ attending' = [attending EXCEPT ![s] = TRUE]
    BY Zenon DEF Skip, Abort, Prepare
  <2> QED
    BY <2>1, Zenon
<1>3. CASE Skip(s)
  BY <1>1, <1>2, <1>3, ConstantFacts DEF Skip
<1>4. CASE Abort(s)
  BY <1>1, <1>2, <1>4, ConstantFacts DEF Abort
<1>5. CASE Prepare(s)
  <2>1. Plus(event_counter[s], latency_prepare[s] + lazy[s] + 1) \in Counter
    BY <1>1, PlusInRange
  <2> QED
    BY <1>1, <1>2, <1>5, <2>1, ConstantFacts DEF Prepare
<1> QED
  BY <1>3, <1>4, <1>5

-----------------------------------------------------------------------------
(* Type correctness. *)

(* The first states are typed. *)
LEMMA TypeInit == Init => TypeOK
<1> SUFFICES ASSUME Init PROVE TypeOK
  OBVIOUS
<1>1. <<>> \in Seq(Proc) /\ <<>> \in Seq(Ind) /\ Len(<<>>) = 0
  BY EmptySeq
<1>2. attending \in [Side -> BOOLEAN]
  BY Zenon DEF Init
<1>3. \A s \in Side : latency_prepare[s] + lazy[s] <= MaxSkip(s)
  BY ConstantFacts DEF Init
<1> QED
  BY <1>1, <1>2, <1>3, ConstantFacts DEF Init, TypeOK

(* What the central's RUN event leaves is typed. *)
LEMMA CentralRunTyped ==
  ASSUME TypeOK, NEW ready \in BOOLEAN, CentralRun(ready)
  PROVE  /\ procs' \in Seq(Proc) /\ Len(procs') <= NumCtx
         /\ data_chan_map' \in [Side -> Map]
         /\ inds' \in Seq(Ind) /\ Len(inds') <= TxBufs
<1> DEFINE ec == EventCounter(Central, lazy[Central])
<1>1. latency_prepare[Central] + lazy[Central] \in Int /\ event_counter[Central] \in Int
  BY Sides DEF TypeOK, Counter
<1>2. ec \in Nat
  <2>1. ec = Plus(event_counter[Central], latency_prepare[Central] + lazy[Central])
    BY DEF EventCounter
  <2> HIDE DEF ec
  <2>2. ec \in Counter
    BY <1>1, <2>1, PlusInRange
  <2> QED
    BY <2>2, ConstantFacts DEF Counter
<1>3. procs \in Seq(Proc) /\ data_chan_map[Central] \in Map
  BY Sides DEF TypeOK
<1>4. procs' = AfterRun(procs, ec, ready) /\ Len(procs) <= NumCtx /\ Len(procs) \in Nat
  BY <1>3, LenProperties DEF CentralRun, TypeOK
<1>5. data_chan_map' = [data_chan_map EXCEPT ![Central] = MapAfterRun(procs, ec, @)]
  BY DEF CentralRun
<1> HIDE DEF ec
<1> DEFINE q == AfterRun(procs, ec, ready)
           m == MapAfterRun(procs, ec, data_chan_map[Central])
<1>9. /\ q \in Seq(Proc) /\ Len(q) \in Nat /\ Len(q) <= Len(procs)
      /\ m \in Map
      /\ Sends(procs, ready) => Head(procs).chm \in Map
  BY <1>2, <1>3, RunFacts
<1> HIDE DEF q, m
<1>6. procs' \in Seq(Proc) /\ Len(procs') <= NumCtx
  BY <1>4, <1>9, ConstantFacts DEF q
<1>7. data_chan_map' \in [Side -> Map]
  BY <1>5, <1>9 DEF TypeOK, m
<1>8. inds' \in Seq(Ind) /\ Len(inds') <= TxBufs
  <2>1. CASE ~Sends(procs, ready)
    BY <2>1 DEF CentralRun, TypeOK
  <2>2. CASE Sends(procs, ready)
    <3> DEFINE x == [chm |-> Head(procs).chm, instant |-> Plus(ec, InstantDelta)]
    <3>1. x \in Ind
      <4>1. Plus(ec, InstantDelta) \in Counter
        BY <1>2, PlusInRange, ConstantFacts
      <4> QED
        BY <1>9, <2>2, <4>1 DEF Ind
    <3>2. inds' = Append(inds, x) /\ Len(inds) < TxBufs /\ inds \in Seq(Ind)
      BY <2>2 DEF CentralRun, TypeOK, ec
    <3> HIDE DEF x
    <3> QED
      BY <3>1, <3>2, AppendProperties, LenProperties, ConstantFacts
  <2> QED
    BY <2>1, <2>2
<1> QED
  BY <1>6, <1>7, <1>8

(* Every step keeps the types. *)
LEMMA TypeNext == TypeOK /\ [Next]_vars => TypeOK'
<1> SUFFICES ASSUME TypeOK, [Next]_vars PROVE TypeOK'
  OBVIOUS
<1>1. ASSUME NEW m \in Map, Request(m) PROVE TypeOK'
  <2>1. NewProc(m) \in Proc
    BY ConstantFacts DEF NewProc, Proc
  <2>2. procs' \in Seq(Proc) /\ Len(procs') <= NumCtx
    BY <1>1, <2>1, AppendProperties, LenProperties, ConstantFacts DEF TypeOK, Request
  <2> QED
    BY <1>1, <2>2 DEF TypeOK, Request, counting
<1>2. CASE CentralSkips
  BY <1>2, Sides, CountingTyped DEF TypeOK, CentralSkips
<1>3. ASSUME NEW ready \in BOOLEAN, NEW aborted \in BOOLEAN, CentralCallback(ready, aborted)
      PROVE  TypeOK'
  <2>1. Abort(Central) \/ Prepare(Central)
    BY <1>3 DEF CentralCallback
  <2>2. CentralRun(ready)
    BY <1>3 DEF CentralCallback
  <2> QED
    BY <1>3, <2>1, <2>2, Sides, CountingTyped, CentralRunTyped DEF TypeOK, CentralCallback
<1>4. CASE PeripheralSkips
  BY <1>4, Sides, CountingTyped DEF TypeOK, PeripheralSkips
<1>5. ASSUME NEW aborted \in BOOLEAN, PeripheralCallback(aborted) PROVE TypeOK'
  <2>1. Abort(Peripheral) \/ Prepare(Peripheral)
    BY <1>5 DEF PeripheralCallback
  <2>2. data_chan_map' \in [Side -> Map] /\ rr' \in Ind \union {NoInd}
    BY <1>5, Sides DEF TypeOK, PeripheralCallback, InstantCame, Ind
  <2>3. prep_lazy' \in Nat
    BY <1>5, Sides DEF TypeOK, PeripheralCallback
  <2> QED
    BY <1>5, <2>1, <2>2, <2>3, Sides, CountingTyped DEF TypeOK, PeripheralCallback
<1>6. CASE RxInd
  <2>1. inds \in Seq(Ind) /\ inds # <<>>
    BY <1>6 DEF TypeOK, RxInd
  <2>2. Head(inds) \in Ind /\ Tail(inds) \in Seq(Ind) /\ Len(Tail(inds)) = Len(inds) - 1 /\ Len(inds) \in Nat
    BY <2>1, HeadTailProperties, LenProperties
  <2>3. inds' \in Seq(Ind) /\ Len(inds') <= TxBufs
    BY <1>6, <2>2, ConstantFacts DEF TypeOK, RxInd
  <2>4. rr' \in Ind \union {NoInd} /\ reason' \in {"none", "INSTANT_PASSED", "CONN_TIMEOUT"}
    BY <1>6, <2>2 DEF TypeOK, RxInd
  <2> QED
    BY <1>6, <2>3, <2>4, ConstantFacts DEF TypeOK, RxInd, counting
<1>7. CASE NextAnchor
  <2>1. anchor' \in Counter
    BY <1>7, PlusInRange DEF TypeOK, NextAnchor, Counter
  <2>2. stalled' \in 0 .. MaxStall
    BY <1>7, ConstantFacts DEF TypeOK, NextAnchor
  <2> QED
    BY <1>7, <2>1, <2>2 DEF TypeOK, NextAnchor, counting
<1>8. CASE SupervisionTimeout
  BY <1>8 DEF TypeOK, SupervisionTimeout, counting
<1>9. CASE Reconnect
  <2>1. <<>> \in Seq(Proc) /\ <<>> \in Seq(Ind) /\ Len(<<>>) = 0
    BY EmptySeq
  <2>2. attending' \in [Side -> BOOLEAN]
    BY <1>9, Zenon DEF Reconnect
  <2>3. \A s \in Side : latency_prepare'[s] + lazy'[s] <= MaxSkip(s)
    BY <1>9, ConstantFacts DEF Reconnect
  <2> QED
    BY <1>9, <2>1, <2>2, <2>3, ConstantFacts DEF TypeOK, Reconnect
<1>10. CASE UNCHANGED vars
  BY <1>10 DEF TypeOK, vars, counting
<1> QED
  BY <1>1, <1>2, <1>3, <1>4, <1>5, <1>6, <1>7, <1>8, <1>9, <1>10
  DEF Next, CentralStage, PeripheralStage

(* Every variable keeps its type. *)
THEOREM TypeCorrect == Spec => []TypeOK
  BY TypeInit, TypeNext, PTL DEF Spec

-----------------------------------------------------------------------------
(* Both sides count the anchor points. *)

(* A side that handles the current anchor point counts one event more. *)
LEMMA CountsOne ==
  ASSUME TypeOK, NEW s \in Side, Skip(s) \/ Abort(s) \/ Prepare(s)
  PROVE  /\ Plus(event_counter'[s], latency_prepare'[s] + lazy'[s])
              = Plus(event_counter[s], latency_prepare[s] + lazy[s] + 1)
         /\ \A t \in Side \ {s} :
              event_counter'[t] = event_counter[t] /\ latency_prepare'[t] = latency_prepare[t]
              /\ lazy'[t] = lazy[t]
<1>1. latency_prepare[s] \in Nat /\ lazy[s] \in Nat /\ event_counter[s] \in Int
      /\ event_counter \in [Side -> Counter] /\ latency_prepare \in [Side -> Nat] /\ lazy \in [Side -> Nat]
  BY DEF Counter, TypeOK
<1>2. CASE Skip(s)
  BY <1>1, <1>2 DEF Skip
<1>3. CASE Abort(s)
  BY <1>1, <1>3 DEF Abort
<1>4. CASE Prepare(s)
  <2> DEFINE e == Plus(event_counter[s], latency_prepare[s] + lazy[s] + 1)
  <2>1. e \in Counter
    BY <1>1, PlusInRange
  <2>2. event_counter' = [event_counter EXCEPT ![s] = e]
        /\ latency_prepare' = [latency_prepare EXCEPT ![s] = 0] /\ lazy' = [lazy EXCEPT ![s] = 0]
    BY <1>4 DEF Prepare
  <2> HIDE DEF e
  <2>3. Plus(e, 0) = e
    BY <2>1, PlusZero
  <2>4. Plus(event_counter'[s], latency_prepare'[s] + lazy'[s]) = e
    BY <1>1, <2>2, <2>3
  <2> QED
    BY <1>1, <2>2, <2>4 DEF e
<1> QED
  BY <1>2, <1>3, <1>4

(* ... so that the sum follows when it was the current anchor point. *)
LEMMA CountsAnchor ==
  ASSUME TypeOK, NEW s \in Side, Skip(s) \/ Abort(s) \/ Prepare(s),
         Plus(event_counter[s], latency_prepare[s] + lazy[s]) = Plus(anchor, 0)
  PROVE  Plus(event_counter'[s], latency_prepare'[s] + lazy'[s]) = Plus(anchor, 1)
<1> DEFINE n == latency_prepare[s] + lazy[s]
           e == event_counter[s]
<1>1. e \in Int /\ n \in Int /\ anchor \in Int
  BY DEF TypeOK, Counter
<1>4. Plus(e, n) = Plus(anchor, 0)
  OBVIOUS
<1>5. Plus(event_counter'[s], latency_prepare'[s] + lazy'[s]) = Plus(e, n + 1)
  BY CountsOne
<1> HIDE DEF e, n
<1>2. Plus(Plus(e, n), 1) = Plus(e, n + 1)
  BY <1>1, PlusPlus
<1>3. Plus(Plus(anchor, 0), 1) = Plus(anchor, 1)
  BY <1>1, PlusPlus
<1> QED
  BY <1>2, <1>3, <1>4, <1>5

(* At first every side has counted the same number of events. *)
LEMMA TrackInit == Init => CountersTrackAnchors
  BY DEF Init, CountersTrackAnchors, Handled, Side

(* Whatever a side does with an anchor point, it counts it once. *)
LEMMA TrackNext == TypeOK /\ CountersTrackAnchors /\ [Next]_vars => CountersTrackAnchors'
<1> SUFFICES ASSUME TypeOK, CountersTrackAnchors, [Next]_vars PROVE CountersTrackAnchors'
  OBVIOUS
<1>1. CASE /\ stage = "central" /\ stage' = "peripheral" /\ anchor' = anchor
           /\ Skip(Central) \/ Abort(Central) \/ Prepare(Central)
  <2>1. Plus(event_counter[Central], latency_prepare[Central] + lazy[Central]) = Plus(anchor, 0)
    BY <1>1, Sides DEF CountersTrackAnchors, Handled
  <2>2. Plus(event_counter'[Central], latency_prepare'[Central] + lazy'[Central]) = Plus(anchor, 1)
    BY <1>1, <2>1, Sides, CountsAnchor
  <2> QED
    BY <1>1, <2>2, Sides, CountsOne DEF CountersTrackAnchors, Handled, Side
<1>2. CASE /\ stage = "peripheral" /\ stage' = "event" /\ anchor' = anchor
           /\ Skip(Peripheral) \/ Abort(Peripheral) \/ Prepare(Peripheral)
  <2>1. Plus(event_counter[Peripheral], latency_prepare[Peripheral] + lazy[Peripheral]) = Plus(anchor, 0)
    BY <1>2, Sides DEF CountersTrackAnchors, Handled
  <2>2. Plus(event_counter'[Peripheral], latency_prepare'[Peripheral] + lazy'[Peripheral]) = Plus(anchor, 1)
    BY <1>2, <2>1, Sides, CountsAnchor
  <2> QED
    BY <1>2, <2>2, Sides, CountsOne DEF CountersTrackAnchors, Handled, Side
<1>3. CASE NextAnchor
  <2>1. Plus(Plus(anchor, 1), 0) = Plus(anchor, 1)
    BY PlusPlus DEF TypeOK, Counter
  <2> QED
    BY <1>3, <2>1, Sides DEF NextAnchor, counting, CountersTrackAnchors, Handled
<1>4. CASE Reconnect
  BY <1>4 DEF Reconnect, CountersTrackAnchors, Handled, Side
<1>5. CASE UNCHANGED <<anchor, stage, counting>>
  BY <1>5 DEF counting, CountersTrackAnchors, Handled
<1>6. CASE CentralStage
  <2>1. stage = "central" /\ stage' = "peripheral" /\ anchor' = anchor
        /\ (Skip(Central) \/ Abort(Central) \/ Prepare(Central))
    BY <1>6, Zenon DEF CentralStage, CentralSkips, CentralCallback
  <2> QED
    BY <1>1, <2>1
<1>7. CASE PeripheralStage
  <2>1. stage = "peripheral" /\ stage' = "event" /\ anchor' = anchor
        /\ (Skip(Peripheral) \/ Abort(Peripheral) \/ Prepare(Peripheral))
    BY <1>7, Zenon DEF PeripheralStage, PeripheralSkips, PeripheralCallback
  <2> QED
    BY <1>2, <2>1
<1>8. CASE (\E m \in Map : Request(m)) \/ RxInd \/ SupervisionTimeout \/ UNCHANGED vars
  BY <1>5, <1>8 DEF Request, RxInd, SupervisionTimeout, vars
<1> QED
  BY <1>3, <1>4, <1>6, <1>7, <1>8 DEF Next

(* Both sides' event counters stay with the anchor points. *)
THEOREM CountersTrack == Spec => []CountersTrackAnchors
<1>1. TypeOK /\ CountersTrackAnchors /\ [Next]_vars => (TypeOK /\ CountersTrackAnchors)'
  BY TypeNext, TrackNext
<1> QED
  BY <1>1, TypeInit, TrackInit, PTL DEF Spec

-----------------------------------------------------------------------------
(* The two sides agree on the map.                                          *)

\* 1 when side s has handled the current anchor point.
Done(s) == IF Handled(s) THEN 1 ELSE 0

\* The head of the central's procedures waits for its instant; it is the one
\* whose indication is x.
Waiting == procs # <<>> /\ Head(procs).state = "WAIT_INSTANT"
WaitsFor(x) == Waiting /\ Head(procs).instant = x.instant /\ Head(procs).chm = x.chm

\* A side that has prepared the event has no event left to count.
Attends == \A s \in Side : attending[s] => latency_prepare[s] = 0 /\ lazy[s] = 0

\* Only the head waits, and no longer than the central skips events.
OneWaits ==
  /\ \A i \in DOMAIN procs : i > 1 => procs[i].state = "WAIT_TX"
  /\ Waiting => Dist(Head(procs).instant, anchor) \in Done(Central) - lazy[Central] .. InstantDelta

\* Indications are at most as old as the stall, and only the last one, that of
\* the waiting procedure, is still ahead of its instant.
Sent ==
  \A i \in DOMAIN inds :
    /\ Dist(inds[i].instant, anchor) \in InstantDelta - stalled .. InstantDelta
    /\ Dist(inds[i].instant, anchor) > 0 => i = Len(inds) /\ WaitsFor(inds[i])

\* The same of the indication the peripheral has taken.
Taken ==
  rr # NoInd =>
    /\ Dist(rr.instant, anchor) \in Done(Peripheral) - lazy[Peripheral] .. InstantDelta
    /\ Dist(rr.instant, anchor) > 0 => WaitsFor(rr) /\ inds = <<>>

\* A procedure whose instant is ahead is on its way or has been taken.
Announced ==
  Waiting /\ Dist(Head(procs).instant, anchor) > 0 =>
    (\E i \in DOMAIN inds : WaitsFor(inds[i])) \/ (rr # NoInd /\ WaitsFor(rr))

\* The map each side ought to use at the current anchor point.
CentralMap ==
  IF Waiting /\ Dist(Head(procs).instant, anchor) <= 0 THEN Head(procs).chm ELSE data_chan_map[Central]
PeripheralMap ==
  IF rr # NoInd /\ Dist(rr.instant, anchor) <= 0 THEN rr.chm ELSE data_chan_map[Peripheral]

SameMap == CentralMap = PeripheralMap \/ \E i \in DOMAIN inds : Dist(inds[i].instant, anchor) <= 0

Agreement ==
  /\ prep_lazy <= PeripheralSkip
  /\ Open => OneWaits /\ Sent /\ Taken /\ Announced /\ SameMap

Inv == TypeOK /\ CountersTrackAnchors /\ Attends /\ Agreement

(* What the invariant says of the bounds: no pending instant is long past. *)
LEMMA PendingNear ==
  ASSUME Inv, Open
  PROVE  /\ HalfRange \in Nat /\ anchor \in Int
         /\ \A s \in Side : lazy[s] \in Nat /\ latency_prepare[s] \in Nat
              /\ latency_prepare[s] + lazy[s] <= MaxSkip(s) /\ Done(s) \in {0, 1}
         /\ stalled \in 0 .. MaxStall
         /\ Waiting => /\ Head(procs).instant \in Int /\ Head(procs) \in Proc
                       /\ Dist(Head(procs).instant, anchor) \in Int
                       /\ Dist(Head(procs).instant, anchor) - 1 >= -HalfRange
         /\ \A i \in DOMAIN inds :
              /\ inds[i] \in Ind /\ inds[i].instant \in Int
              /\ Dist(inds[i].instant, anchor) \in Int
              /\ Dist(inds[i].instant, anchor) - 2 - PeripheralSkip >= -HalfRange
         /\ rr # NoInd => /\ rr \in Ind /\ rr.instant \in Int
                          /\ Dist(rr.instant, anchor) \in Int
                          /\ Dist(rr.instant, anchor) - 1 >= -HalfRange
<1> USE DEF Inv
<1>1. HalfRange \in Nat /\ anchor \in Int
  BY HalfFacts DEF TypeOK, Counter
<1>2. \A s \in Side : lazy[s] \in Nat /\ latency_prepare[s] \in Nat
        /\ latency_prepare[s] + lazy[s] <= MaxSkip(s) /\ Done(s) \in {0, 1}
  BY DEF TypeOK, Done
<1>3. lazy[Central] <= CentralSkip /\ lazy[Peripheral] <= PeripheralSkip
  BY <1>2, Sides, ConstantFacts DEF MaxSkip
<1>4. stalled \in 0 .. MaxStall
  BY DEF TypeOK
<1>5. ASSUME Waiting
      PROVE  /\ Head(procs).instant \in Int /\ Head(procs) \in Proc
             /\ Dist(Head(procs).instant, anchor) \in Int
             /\ Dist(Head(procs).instant, anchor) - 1 >= -HalfRange
  <2>1. Head(procs) \in Proc
    BY <1>5, HeadTailProperties DEF Waiting, TypeOK
  <2>2. Head(procs).instant \in Int
    BY <2>1 DEF Proc, Counter
  <2>3. Dist(Head(procs).instant, anchor) \in Done(Central) - lazy[Central] .. InstantDelta
    BY <1>5 DEF Agreement, OneWaits
  <2> QED
    BY <1>1, <1>2, <1>3, <2>1, <2>2, <2>3, Sides, ConstantFacts
<1>6. ASSUME NEW i \in DOMAIN inds
      PROVE  /\ inds[i] \in Ind /\ inds[i].instant \in Int
             /\ Dist(inds[i].instant, anchor) \in Int
             /\ Dist(inds[i].instant, anchor) - 2 - PeripheralSkip >= -HalfRange
  <2>1. inds[i] \in Ind
    BY ElementOfSeq, LenProperties DEF TypeOK
  <2>2. inds[i].instant \in Int
    BY <2>1 DEF Ind, Counter
  <2>3. Dist(inds[i].instant, anchor) \in InstantDelta - stalled .. InstantDelta
    BY DEF Agreement, Sent
  <2> QED
    BY <1>1, <1>4, <2>1, <2>2, <2>3, ConstantFacts
<1>7. ASSUME rr # NoInd
      PROVE  /\ rr \in Ind /\ rr.instant \in Int
             /\ Dist(rr.instant, anchor) \in Int
             /\ Dist(rr.instant, anchor) - 1 >= -HalfRange
  <2>1. rr \in Ind
    BY <1>7 DEF TypeOK
  <2>2. rr.instant \in Int
    BY <2>1 DEF Ind, Counter
  <2>3. Dist(rr.instant, anchor) \in Done(Peripheral) - lazy[Peripheral] .. InstantDelta
    BY <1>7 DEF Agreement, Taken
  <2> QED
    BY <1>1, <1>2, <1>3, <2>1, <2>2, <2>3, Sides, ConstantFacts
<1> QED
  BY <1>1, <1>2, <1>4, <1>5, <1>6, <1>7

(* A side that has not handled the anchor point computes its number. *)
LEMMA CallbackCounter ==
  ASSUME Inv, NEW s \in Side, ~Handled(s)
  PROVE  EventCounter(s, lazy[s]) = anchor
<1>1. Plus(event_counter[s], latency_prepare[s] + lazy[s]) = Plus(anchor, 0)
  BY DEF Inv, CountersTrackAnchors
<1>2. Plus(anchor, 0) = anchor
  BY PlusZero DEF Inv, TypeOK
<1> QED
  BY <1>1, <1>2 DEF EventCounter

(* The first states, and those of a new connection. *)
LEMMA FreshAgrees ==
  ASSUME procs = <<>>, inds = <<>>, rr = NoInd, prep_lazy = 0,
         NEW m, data_chan_map = [s \in Side |-> m]
  PROVE  Agreement
<1>1. DOMAIN procs = {} /\ DOMAIN inds = {}
  OBVIOUS
<1> QED
  BY <1>1, Sides, ConstantFacts
  DEF Agreement, OneWaits, Sent, Taken, Announced, SameMap, CentralMap, PeripheralMap, Waiting

(* The same of the next state. *)
LEMMA FreshAgreesNext ==
  ASSUME procs' = <<>>, inds' = <<>>, rr' = NoInd, prep_lazy' = 0,
         NEW m, data_chan_map' = [s \in Side |-> m]
  PROVE  Agreement'
<1>1. DOMAIN procs' = {} /\ DOMAIN inds' = {}
  OBVIOUS
<1> QED
  BY <1>1, Sides, ConstantFacts
  DEF Agreement, OneWaits, Sent, Taken, Announced, SameMap, CentralMap, PeripheralMap, Waiting

(* Whoever prepares has no event left to count. *)
LEMMA AttendsNext == TypeOK /\ Attends /\ [Next]_vars => Attends'
<1> SUFFICES ASSUME TypeOK, Attends, [Next]_vars PROVE Attends'
  OBVIOUS
<1>1. ASSUME NEW s \in Side, Skip(s) \/ Abort(s) \/ Prepare(s) PROVE Attends'
  BY <1>1 DEF TypeOK, Attends, Skip, Abort, Prepare
<1>2. CASE CentralStage
  BY <1>1, <1>2, Sides, Zenon DEF CentralStage, CentralSkips, CentralCallback
<1>3. CASE PeripheralStage
  BY <1>1, <1>3, Sides, Zenon DEF PeripheralStage, PeripheralSkips, PeripheralCallback
<1>4. CASE Reconnect
  BY <1>4 DEF Reconnect, Attends
<1>5. CASE UNCHANGED <<counting, attending>>
  BY <1>5 DEF counting, Attends
<1>6. CASE (\E m \in Map : Request(m)) \/ RxInd \/ NextAnchor \/ SupervisionTimeout \/ UNCHANGED vars
  BY <1>5, <1>6 DEF Request, RxInd, NextAnchor, SupervisionTimeout, vars
<1> QED
  BY <1>2, <1>3, <1>4, <1>6 DEF Next

(* A request is queued behind whatever waits. *)
LEMMA RequestAgrees ==
  ASSUME Inv, NEW m \in Map, Request(m)
  PROVE  Agreement'
<1> USE DEF Inv
<1>1. NewProc(m) \in Proc /\ NewProc(m).state = "WAIT_TX" /\ procs \in Seq(Proc) /\ Len(procs) \in Nat
  BY ConstantFacts, LenProperties DEF NewProc, Proc, TypeOK
<1>2. /\ procs' # <<>> /\ DOMAIN procs' = 1 .. Len(procs) + 1
      /\ \A i \in 1 .. Len(procs) : procs'[i] = procs[i]
      /\ procs'[Len(procs) + 1] = NewProc(m)
      /\ Head(procs') = procs'[1]
  BY <1>1, AppendProperties, LenProperties, HeadTailProperties DEF Request
<1>3. procs # <<>> => Head(procs') = Head(procs)
  BY <1>1, <1>2, EmptySeq, HeadTailProperties
<1>4. procs = <<>> => Head(procs').state = "WAIT_TX"
  BY <1>1, <1>2, EmptySeq
<1>5. (Waiting <=> Waiting') /\ (Waiting => Head(procs') = Head(procs))
  BY <1>2, <1>3, <1>4 DEF Waiting
<1>6. \A i \in DOMAIN procs' : i > 1 => procs'[i].state = "WAIT_TX"
  BY <1>1, <1>2, LenProperties DEF Request, Agreement, OneWaits
<1>7. UNCHANGED <<anchor, stage, counting, prep_lazy, data_chan_map, inds, rr, stalled, reason>> /\ Open
  BY DEF Request
<1>8. (Done(Central) = Done(Central)') /\ (Done(Peripheral) = Done(Peripheral)') /\ (Open <=> Open')
  BY <1>7 DEF Done, Handled, Open
<1>9. \A x : WaitsFor(x) <=> WaitsFor(x)'
  BY <1>5 DEF WaitsFor
<1>10. OneWaits'
  BY <1>5, <1>6, <1>7, <1>8 DEF OneWaits, Agreement, counting
<1>11. Sent' /\ Taken' /\ Announced'
  BY <1>5, <1>7, <1>8, <1>9 DEF Sent, Taken, Announced, Agreement, counting
<1>12. SameMap'
  BY <1>5, <1>7 DEF SameMap, CentralMap, PeripheralMap, Agreement
<1> QED
  BY <1>7, <1>10, <1>11, <1>12 DEF Agreement

(* A side that skips the anchor point changes nothing but its lateness. *)
LEMMA SkipAgrees ==
  ASSUME Inv, CentralSkips \/ PeripheralSkips
  PROVE  Agreement'
<1> USE DEF Inv
<1>1. UNCHANGED <<anchor, prep_lazy, data_chan_map, procs, inds, rr, stalled, reason>> /\ Open
  BY DEF CentralSkips, PeripheralSkips
<1>2. \A s \in Side : lazy[s] \in Nat /\ Done(s) \in {0, 1}
  BY DEF TypeOK, Done
<1>3. \A s \in Side : Done(s)' - lazy'[s] = Done(s) - lazy[s]
  <2>1. CASE CentralSkips
    BY <1>2, <2>1, Sides DEF CentralSkips, Skip, Done, Handled, Side, TypeOK
  <2>2. CASE PeripheralSkips
    BY <1>2, <2>2, Sides DEF PeripheralSkips, Skip, Done, Handled, Side, TypeOK
  <2> QED
    BY <2>1, <2>2
<1>4. OneWaits' /\ Taken'
  BY <1>1, <1>3, Sides DEF Agreement, OneWaits, Taken, Waiting, WaitsFor
<1>5. Sent' /\ Announced' /\ SameMap'
  BY <1>1 DEF Agreement, Sent, Announced, SameMap, CentralMap, PeripheralMap, Waiting, WaitsFor
<1> QED
  BY <1>1, <1>4, <1>5 DEF Agreement

(* The peripheral's callback takes a map whose instant has come, and only    *)
(* such a one.                                                               *)
LEMMA PeripheralAgrees ==
  ASSUME Inv, NEW aborted \in BOOLEAN, PeripheralCallback(aborted)
  PROVE  Agreement'
<1> USE DEF Inv
<1>1. UNCHANGED <<anchor, procs, inds, stalled, reason>> /\ Open /\ prep_lazy' = lazy[Peripheral]
  BY DEF PeripheralCallback
<1>2. EventCounter(Peripheral, lazy[Peripheral]) = anchor
  BY Sides, CallbackCounter DEF PeripheralCallback, Handled
<1>3. InstantCame <=> rr # NoInd /\ Dist(rr.instant, anchor) <= 0
  <2>1. CASE rr = NoInd
    BY <2>1 DEF InstantCame
  <2>2. CASE rr # NoInd
    <3>1. rr.instant \in Int /\ anchor \in Int /\ Dist(rr.instant, anchor) >= -HalfRange
      BY <1>1, <2>2, PendingNear
    <3> QED
      BY <1>2, <2>2, <3>1, ReachedDist DEF InstantCame
  <2> QED
    BY <2>1, <2>2
<1>4. lazy' = [lazy EXCEPT ![Peripheral] = 0] /\ stage = "peripheral" /\ stage' = "event"
  BY DEF PeripheralCallback, Abort, Prepare
<1>5. /\ lazy'[Peripheral] = 0 /\ lazy'[Central] = lazy[Central]
      /\ Done(Peripheral)' = 1 /\ Done(Central)' = Done(Central)
  BY <1>4, Sides DEF Done, Handled, TypeOK
<1>6. prep_lazy' <= PeripheralSkip
  <2>1. /\ lazy[Peripheral] \in Nat /\ latency_prepare[Peripheral] \in Nat
        /\ latency_prepare[Peripheral] + lazy[Peripheral] <= MaxSkip(Peripheral)
    BY <1>1, PendingNear, Sides
  <2> QED
    BY <1>1, <2>1, Sides, ConstantFacts DEF MaxSkip
<1>7. OneWaits' /\ Sent'
  BY <1>1, <1>5 DEF Agreement, OneWaits, Sent, Waiting, WaitsFor
<1>8. CASE InstantCame
  <2>1. rr' = NoInd /\ data_chan_map' = [data_chan_map EXCEPT ![Peripheral] = rr.chm]
    BY <1>8 DEF PeripheralCallback
  <2>2. data_chan_map'[Peripheral] = rr.chm /\ data_chan_map'[Central] = data_chan_map[Central]
    BY <2>1, Sides DEF TypeOK
  <2>3. Taken'
    BY <2>1 DEF Taken
  <2>4. Announced'
    <3>1. rr # NoInd /\ Dist(rr.instant, anchor) \in Int /\ Dist(rr.instant, anchor) <= 0
      BY <1>1, <1>3, <1>8, PendingNear
    <3>2. ~(Waiting /\ Dist(Head(procs).instant, anchor) > 0 /\ WaitsFor(rr))
      BY <3>1 DEF WaitsFor
    <3> QED
      BY <1>1, <3>2 DEF Agreement, Announced, Waiting, WaitsFor
  <2>5. SameMap'
    BY <1>1, <1>3, <1>8, <2>1, <2>2 DEF Agreement, SameMap, CentralMap, PeripheralMap, Waiting
  <2> QED
    BY <1>6, <1>7, <2>3, <2>4, <2>5 DEF Agreement
<1>9. CASE ~InstantCame
  <2>1. rr' = rr /\ data_chan_map' = data_chan_map
    BY <1>9 DEF PeripheralCallback
  <2>2. Taken'
    <3>1. rr # NoInd => Dist(rr.instant, anchor) \in 1 .. InstantDelta
      BY <1>1, <1>3, <1>9, PendingNear, ConstantFacts DEF Agreement, Taken
    <3> QED
      BY <1>1, <1>5, <2>1, <3>1 DEF Agreement, Taken, Waiting, WaitsFor
  <2>3. Announced' /\ SameMap'
    BY <1>1, <2>1 DEF Agreement, Announced, SameMap, CentralMap, PeripheralMap, Waiting, WaitsFor
  <2> QED
    BY <1>6, <1>7, <2>2, <2>3 DEF Agreement
<1> QED
  BY <1>8, <1>9

(* In the central's callback the frame is the same in every case. *)
LEMMA CentralFrame ==
  ASSUME Inv, NEW ready \in BOOLEAN, NEW aborted \in BOOLEAN, CentralCallback(ready, aborted)
  PROVE  /\ UNCHANGED <<anchor, prep_lazy, rr, stalled, reason>> /\ Open
         /\ EventCounter(Central, lazy[Central]) = anchor
         /\ lazy'[Central] = 0 /\ lazy'[Peripheral] = lazy[Peripheral]
         /\ Done(Central)' = 1 /\ Done(Peripheral)' = Done(Peripheral)
         /\ procs' = AfterRun(procs, anchor, ready)
         /\ data_chan_map'[Central] = MapAfterRun(procs, anchor, data_chan_map[Central])
         /\ data_chan_map'[Peripheral] = data_chan_map[Peripheral]
         /\ Completes(procs, anchor) <=> Waiting /\ Dist(Head(procs).instant, anchor) <= 0
<1> USE DEF Inv
<1>1. UNCHANGED <<anchor, prep_lazy, rr, stalled, reason>> /\ Open
  BY DEF CentralCallback
<1>2. EventCounter(Central, lazy[Central]) = anchor
  BY Sides, CallbackCounter DEF CentralCallback, Handled
<1>3. lazy' = [lazy EXCEPT ![Central] = 0] /\ stage = "central" /\ stage' = "peripheral"
  BY DEF CentralCallback, Abort, Prepare
<1>4. /\ lazy'[Central] = 0 /\ lazy'[Peripheral] = lazy[Peripheral]
      /\ Done(Central)' = 1 /\ Done(Peripheral)' = Done(Peripheral)
  BY <1>3, Sides DEF Done, Handled, TypeOK
<1>5. /\ procs' = AfterRun(procs, anchor, ready)
      /\ data_chan_map' = [data_chan_map EXCEPT ![Central] = MapAfterRun(procs, anchor, @)]
  BY <1>2 DEF CentralCallback, CentralRun
<1>6. /\ data_chan_map'[Central] = MapAfterRun(procs, anchor, data_chan_map[Central])
      /\ data_chan_map'[Peripheral] = data_chan_map[Peripheral]
  BY <1>5, Sides DEF TypeOK
<1>7. Completes(procs, anchor) <=> Waiting /\ Dist(Head(procs).instant, anchor) <= 0
  <2>1. CASE ~Waiting
    BY <2>1 DEF Waiting, Completes
  <2>2. CASE Waiting
    <3>1. Head(procs).instant \in Int /\ anchor \in Int /\ Dist(Head(procs).instant, anchor) >= -HalfRange
      BY <1>1, <2>2, PendingNear
    <3> QED
      BY <2>2, <3>1, ReachedDist DEF Waiting, Completes
  <2> QED
    BY <2>1, <2>2
<1> QED
  BY <1>1, <1>2, <1>4, <1>5, <1>6, <1>7

(* The callback in which the indication is queued. *)
LEMMA SendAgrees ==
  ASSUME Inv, NEW ready \in BOOLEAN, NEW aborted \in BOOLEAN, CentralCallback(ready, aborted),
         Sends(procs, ready)
  PROVE  Agreement'
<1> USE DEF Inv
<1> DEFINE at == Plus(anchor, InstantDelta)
           p == [Head(procs) EXCEPT !.state = "WAIT_INSTANT", !.instant = at]
           x == [chm |-> Head(procs).chm, instant |-> at]
<1>1. UNCHANGED <<anchor, prep_lazy, rr, stalled, reason>> /\ Open
  BY CentralFrame
<1>2. procs \in Seq(Proc) /\ procs # <<>> /\ Head(procs) = procs[1] /\ Head(procs) \in Proc
      /\ Len(procs) \in Nat /\ DOMAIN procs = 1 .. Len(procs) /\ 1 \in DOMAIN procs
  BY HeadTailProperties, LenProperties, EmptySeq DEF Sends, TypeOK
<1>3. ~Waiting /\ ~Completes(procs, anchor)
  BY DEF Sends, Waiting, Completes
<1>4. procs' = [procs EXCEPT ![1] = p]
  BY <1>2, CentralFrame DEF AfterRun
<1>5. at \in Counter
  <2>1. anchor \in Int /\ InstantDelta \in Int
    BY ConstantFacts DEF TypeOK, Counter
  <2> QED
    BY <2>1, PlusInRange
<1>6. x.chm = Head(procs).chm /\ x.instant = at
  OBVIOUS
<1>7. inds' = Append(inds, x)
  BY CentralFrame DEF CentralCallback, CentralRun
<1>8. Dist(at, anchor) = InstantDelta
  BY <1>1, DistOfSum, PendingNear, ConstantFacts
<1>9. data_chan_map'[Central] = data_chan_map[Central]
      /\ data_chan_map'[Peripheral] = data_chan_map[Peripheral]
  BY <1>3, CentralFrame DEF MapAfterRun
<1> HIDE DEF at
<1>21. p \in Proc /\ p.chm = Head(procs).chm /\ p.state = "WAIT_INSTANT" /\ p.instant = at
  BY <1>2, <1>5 DEF Proc
<1>22. x \in Ind
  BY <1>2, <1>5 DEF Proc, Ind
<1> HIDE DEF p, x
<1>10. /\ procs' \in Seq(Proc) /\ Len(procs') = Len(procs) /\ DOMAIN procs' = DOMAIN procs
       /\ \A i \in DOMAIN procs : procs'[i] = IF i = 1 THEN p ELSE procs[i]
  BY <1>2, <1>4, <1>21, ExceptSeq
<1>11. procs' # <<>> /\ Head(procs') = p
  BY <1>2, <1>10, HeadTailProperties, EmptySeq
<1>12. /\ inds \in Seq(Ind) /\ Len(inds) \in Nat /\ DOMAIN inds = 1 .. Len(inds)
       /\ Len(inds') = Len(inds) + 1 /\ DOMAIN inds' = 1 .. Len(inds) + 1
       /\ \A i \in DOMAIN inds : inds'[i] = inds[i]
       /\ inds'[Len(inds) + 1] = x
  <2>1. inds \in Seq(Ind) /\ Len(inds) \in Nat /\ DOMAIN inds = 1 .. Len(inds)
    BY LenProperties DEF TypeOK
  <2> QED
    BY <1>7, <1>22, <2>1, AppendProperties, LenProperties
<1>13. Waiting'
  BY <1>11, <1>21 DEF Waiting
<1>14. Head(procs').instant = at /\ Head(procs').instant = x.instant /\ Head(procs').chm = x.chm
  BY <1>6, <1>11, <1>21
<1>15. OneWaits'
  <2>1. \A i \in DOMAIN procs' : i > 1 => procs'[i].state = "WAIT_TX"
    BY <1>1, <1>10 DEF Agreement, OneWaits
  <2>2. Dist(Head(procs').instant, anchor') \in Done(Central)' - lazy'[Central] .. InstantDelta
    BY <1>1, <1>8, <1>14, CentralFrame, ConstantFacts
  <2> QED
    BY <2>1, <2>2 DEF OneWaits
<1>16. \A i \in DOMAIN inds : Dist(inds[i].instant, anchor) \in Int /\ ~(Dist(inds[i].instant, anchor) > 0)
  BY <1>1, <1>3, PendingNear DEF Agreement, Sent, WaitsFor
<1>17. Sent'
  <2> SUFFICES ASSUME NEW i \in DOMAIN inds'
               PROVE  /\ Dist(inds'[i].instant, anchor) \in InstantDelta - stalled .. InstantDelta
                      /\ Dist(inds'[i].instant, anchor) > 0 => i = Len(inds') /\ WaitsFor(inds[i])'
    BY <1>1 DEF Sent
  <2>1. CASE i \in DOMAIN inds
    BY <1>1, <1>12, <1>16, <2>1 DEF Agreement, Sent
  <2>2. CASE i = Len(inds) + 1
    <3>1. WaitsFor(inds[i])'
      BY <1>12, <1>13, <1>14, <2>2 DEF WaitsFor
    <3>2. Dist(inds'[i].instant, anchor) = InstantDelta
      BY <1>6, <1>8, <1>12, <2>2
    <3> QED
      BY <1>12, <2>2, <3>1, <3>2, <1>1, PendingNear, ConstantFacts
  <2> QED
    BY <1>12, <2>1, <2>2
<1>18. Taken'
  BY <1>1, <1>3, CentralFrame DEF Agreement, Taken, WaitsFor
<1>19. Announced'
  <2>1. \E i \in DOMAIN inds' : inds'[i] = x
    BY <1>12
  <2>2. \E i \in DOMAIN inds' : WaitsFor(inds[i])'
    BY <1>13, <1>14, <2>1 DEF WaitsFor
  <2> QED
    BY <2>2 DEF Announced
<1>20. SameMap'
  <2>1. CentralMap' = CentralMap
    BY <1>1, <1>3, <1>8, <1>9, <1>14, ConstantFacts DEF CentralMap
  <2>2. PeripheralMap' = PeripheralMap
    BY <1>1, <1>9 DEF PeripheralMap
  <2>3. (\E i \in DOMAIN inds : Dist(inds[i].instant, anchor) <= 0)
          => \E i \in DOMAIN inds' : Dist(inds'[i].instant, anchor') <= 0
    BY <1>1, <1>12
  <2> QED
    BY <1>1, <2>1, <2>2, <2>3 DEF Agreement, SameMap
<1> QED
  BY <1>1, <1>15, <1>17, <1>18, <1>19, <1>20 DEF Agreement

(* The callback in which the instant has come. *)
LEMMA CompleteAgrees ==
  ASSUME Inv, NEW ready \in BOOLEAN, NEW aborted \in BOOLEAN, CentralCallback(ready, aborted),
         ~Sends(procs, ready), Completes(procs, anchor)
  PROVE  Agreement'
<1> USE DEF Inv
<1>1. UNCHANGED <<anchor, prep_lazy, rr, stalled, reason>> /\ Open
  BY CentralFrame
<1>2. Waiting /\ Dist(Head(procs).instant, anchor) <= 0 /\ procs # <<>>
  BY CentralFrame DEF Completes
<1>3. /\ procs' = Tail(procs) /\ data_chan_map'[Central] = Head(procs).chm
      /\ data_chan_map'[Peripheral] = data_chan_map[Peripheral] /\ inds' = inds
  BY CentralFrame DEF AfterRun, MapAfterRun, CentralCallback, CentralRun
<1>4. /\ procs \in Seq(Proc) /\ Len(procs) \in Nat /\ procs' \in Seq(Proc)
      /\ DOMAIN procs = 1 .. Len(procs) /\ DOMAIN procs' = 1 .. Len(procs) - 1
      /\ \A i \in DOMAIN procs' : procs'[i] = procs[i + 1]
  BY <1>2, <1>3, HeadTailProperties, LenProperties DEF TypeOK
<1>5. \A i \in DOMAIN procs' : procs'[i].state = "WAIT_TX"
  BY <1>1, <1>4 DEF Agreement, OneWaits
<1>6. ~Waiting'
  <2>1. procs' # <<>> => Head(procs') = procs'[1] /\ 1 \in DOMAIN procs'
    BY <1>4, HeadTailProperties, LenProperties, EmptySeq
  <2> QED
    BY <1>5, <2>1 DEF Waiting
<1>7. \A y : WaitsFor(y) => ~(Dist(y.instant, anchor) > 0)
  BY <1>1, <1>2, PendingNear DEF WaitsFor
<1>8. OneWaits' /\ Announced'
  BY <1>5, <1>6 DEF OneWaits, Announced
<1>9. Sent' /\ Taken'
  BY <1>1, <1>3, <1>7, CentralFrame DEF Agreement, Sent, Taken
<1>10. SameMap'
  BY <1>1, <1>2, <1>3, <1>6 DEF Agreement, SameMap, CentralMap, PeripheralMap
<1> QED
  BY <1>1, <1>8, <1>9, <1>10 DEF Agreement

(* A callback in which nothing is due. *)
LEMMA IdleAgrees ==
  ASSUME Inv, NEW ready \in BOOLEAN, NEW aborted \in BOOLEAN, CentralCallback(ready, aborted),
         ~Sends(procs, ready), ~Completes(procs, anchor)
  PROVE  Agreement'
<1> USE DEF Inv
<1>1. UNCHANGED <<anchor, prep_lazy, rr, stalled, reason>> /\ Open
  BY CentralFrame
<1>2. /\ procs' = procs /\ inds' = inds /\ data_chan_map'[Central] = data_chan_map[Central]
      /\ data_chan_map'[Peripheral] = data_chan_map[Peripheral]
  BY CentralFrame DEF AfterRun, MapAfterRun, CentralCallback, CentralRun
<1>3. Waiting => Dist(Head(procs).instant, anchor) \in 1 .. InstantDelta
  BY <1>1, CentralFrame, PendingNear, ConstantFacts DEF Agreement, OneWaits
<1>4. OneWaits'
  BY <1>1, <1>2, <1>3, CentralFrame DEF Agreement, OneWaits, Waiting
<1>5. Sent' /\ Taken' /\ Announced' /\ SameMap'
  BY <1>1, <1>2, CentralFrame
  DEF Agreement, Sent, Taken, Announced, SameMap, CentralMap, PeripheralMap, Waiting, WaitsFor
<1> QED
  BY <1>1, <1>4, <1>5 DEF Agreement

(* Before the peripheral receives, what it last took has been applied.       *)
LEMMA BothAttending ==
  ASSUME Inv, Open, stage = "event", NEW s \in Side, attending[s]
  PROVE  /\ latency_prepare[s] = 0 /\ lazy[s] = 0 /\ Done(s) = 1
         /\ s = Central /\ Waiting => Dist(Head(procs).instant, anchor) >= 1
         /\ s = Peripheral /\ rr # NoInd => inds = <<>> /\ Dist(rr.instant, anchor) >= 1
<1> USE DEF Inv
<1>1. latency_prepare[s] = 0 /\ lazy[s] = 0 /\ Done(s) = 1
  BY DEF Attends, Done, Handled
<1>2. s = Central /\ Waiting => Dist(Head(procs).instant, anchor) >= 1
  BY <1>1, PendingNear DEF Agreement, OneWaits
<1>3. s = Peripheral /\ rr # NoInd => inds = <<>> /\ Dist(rr.instant, anchor) >= 1
  BY <1>1, PendingNear DEF Agreement, Taken
<1> QED
  BY <1>1, <1>2, <1>3

(* What the peripheral takes is ahead of its instant: prep_lazy only makes   *)
(* it stricter.                                                              *)
LEMMA TakesAhead ==
  ASSUME Inv, Open, stage = "event", attending[Peripheral], inds # <<>>, Takes(Head(inds))
  PROVE  Dist(inds[1].instant, anchor) >= 1 /\ Head(inds) = inds[1] /\ 1 \in DOMAIN inds
<1> USE DEF Inv
<1> DEFINE i == inds[1].instant
           n == 1 + prep_lazy
<1>1. Head(inds) = inds[1] /\ 1 \in DOMAIN inds
  BY HeadTailProperties, LenProperties, EmptySeq DEF TypeOK
<1>2. event_counter[Peripheral] \in Counter /\ event_counter[Peripheral] \in Int /\ anchor \in Int
      /\ prep_lazy \in Nat /\ prep_lazy <= PeripheralSkip /\ PeripheralSkip \in Nat
  BY Sides, ConstantFacts DEF TypeOK, Counter, Agreement
<1>3. Plus(event_counter[Peripheral], 0) = Plus(anchor, 1)
  BY Sides, BothAttending DEF CountersTrackAnchors, Handled
<1>4. EventCounter(Peripheral, prep_lazy) = Plus(anchor, n)
  <2>1. Plus(event_counter[Peripheral], 0) = event_counter[Peripheral]
    BY <1>2, PlusZero
  <2>2. EventCounter(Peripheral, prep_lazy) = Plus(event_counter[Peripheral], prep_lazy)
    BY <1>2, Sides, BothAttending DEF EventCounter
  <2>3. Plus(Plus(anchor, 1), prep_lazy) = Plus(anchor, n)
    BY <1>2, PlusPlus
  <2> QED
    BY <1>3, <2>1, <2>2, <2>3
<1>5. i \in Int /\ Dist(i, anchor) \in Int /\ Dist(i, anchor) - 2 - PeripheralSkip >= -HalfRange
      /\ HalfRange \in Nat
  BY <1>1, PendingNear
<1>6. InstantNotPassed(i, Plus(anchor, n))
  BY <1>1, <1>4 DEF Takes
<1>7. n \in Nat /\ n >= 1 /\ n <= 1 + PeripheralSkip
  BY <1>2
<1> HIDE DEF i, n
<1>8. Dist(i, Plus(anchor, n)) = Dist(i, anchor) - n
  BY <1>2, <1>5, <1>7, DistLater
<1>9. Plus(anchor, n) \in Int
  BY <1>2, <1>7, PlusInRange DEF Counter
<1>10. Dist(i, Plus(anchor, n)) >= 0
  <2>1. Dist(i, Plus(anchor, n)) >= -HalfRange
    BY <1>2, <1>5, <1>7, <1>8
  <2> QED
    BY <1>5, <1>6, <1>9, <2>1, NotPassedDist
<1>11. Dist(i, anchor) >= 1
  BY <1>5, <1>7, <1>8, <1>10
<1> QED
  BY <1>1, <1>11 DEF i

(* Receiving an indication. *)
LEMMA RxAgrees ==
  ASSUME Inv, RxInd
  PROVE  Agreement'
<1> USE DEF Inv
<1>1. /\ UNCHANGED <<anchor, stage, lazy, prep_lazy, data_chan_map, procs>>
      /\ Open /\ stage = "event" /\ inds # <<>> /\ attending[Central] /\ attending[Peripheral]
      /\ inds' = Tail(inds)
  BY Sides DEF RxInd, counting
<1>2. rr = NoInd /\ Done(Peripheral)' = 1 /\ lazy[Peripheral] = 0 /\ Done(Central) = Done(Central)'
  BY <1>1, Sides, BothAttending DEF Done, Handled
<1>3. CASE Takes(Head(inds))
  <2>1. rr' = Head(inds)
    BY <1>2, <1>3 DEF RxInd
  <2>2. Dist(inds[1].instant, anchor) >= 1 /\ Head(inds) = inds[1] /\ 1 \in DOMAIN inds
    BY <1>1, <1>3, TakesAhead
  <2>3. /\ inds[1] \in Ind
        /\ Dist(inds[1].instant, anchor) \in InstantDelta - stalled .. InstantDelta
        /\ 1 = Len(inds) /\ WaitsFor(inds[1])
    <3>1. inds[1] \in Ind /\ Dist(inds[1].instant, anchor) \in Int
      BY <1>1, <2>2, PendingNear
    <3>2. /\ Dist(inds[1].instant, anchor) \in InstantDelta - stalled .. InstantDelta
          /\ Dist(inds[1].instant, anchor) > 0 => 1 = Len(inds) /\ WaitsFor(inds[1])
      BY <1>1, <2>2 DEF Agreement, Sent
    <3> QED
      BY <2>2, <3>1, <3>2
  <2>4. inds' = <<>> /\ DOMAIN inds = {1} /\ DOMAIN inds' = {}
    <3>1. inds \in Seq(Ind) /\ Len(inds) = 1 /\ DOMAIN inds = 1 .. Len(inds)
      BY <2>3, LenProperties DEF TypeOK
    <3>2. Tail(inds) \in Seq(Ind) /\ Len(Tail(inds)) = 0
      BY <1>1, <3>1, HeadTailProperties
    <3>3. Tail(inds) = <<>>
      BY <3>2, EmptySeq
    <3> QED
      BY <1>1, <3>1, <3>3
  <2>5. rr' # NoInd
    <3>1. inds[1].instant \in Counter /\ DOMAIN inds[1] = {"chm", "instant"} /\ DOMAIN NoInd = {"chm"}
      BY <2>3 DEF Ind, NoInd
    <3> QED
      BY <2>1, <2>2, <3>1
  <2>6. WaitsFor(rr)'
    BY <1>1, <2>1, <2>2, <2>3 DEF WaitsFor, Waiting
  <2>7. Dist(rr'.instant, anchor') \in 1 .. InstantDelta
    BY <1>1, <2>1, <2>2, <2>3
  <2>8. Taken'
    BY <1>1, <1>2, <2>4, <2>6, <2>7 DEF Taken
  <2>9. OneWaits'
    BY <1>1, <1>2 DEF Agreement, OneWaits, Waiting
  <2>10. Sent' /\ Announced'
    BY <2>4, <2>5, <2>6 DEF Sent, Announced
  <2>11. SameMap'
    <3>1. CentralMap = PeripheralMap
      BY <1>1, <2>2, <2>3, <2>4 DEF Agreement, SameMap
    <3>2. CentralMap' = CentralMap
      BY <1>1 DEF CentralMap, Waiting
    <3>3. PeripheralMap' = PeripheralMap
      BY <1>1, <1>2, <2>7 DEF PeripheralMap
    <3> QED
      BY <3>1, <3>2, <3>3 DEF SameMap
  <2> QED
    BY <1>1, <2>8, <2>9, <2>10, <2>11 DEF Agreement
<1>4. CASE ~Takes(Head(inds))
  BY <1>1, <1>2, <1>4 DEF RxInd, Agreement, Open
<1> QED
  BY <1>3, <1>4

(* From one anchor point to the next every instant is one event nearer. *)
LEMMA AnchorAgrees ==
  ASSUME Inv, NextAnchor
  PROVE  Agreement'
<1> USE DEF Inv
<1>1. /\ UNCHANGED <<lazy, prep_lazy, data_chan_map, procs, inds, rr, reason>>
      /\ Open /\ anchor' = Plus(anchor, 1)
      /\ \A s \in Side : Done(s) = 1 /\ Done(s)' = 0
  BY DEF NextAnchor, counting, Done, Handled
<1>2. /\ \A s \in Side : lazy[s] \in Nat
      /\ anchor \in Int /\ stalled \in Nat /\ (inds # <<>> => stalled' = stalled + 1)
  BY <1>1, PendingNear DEF NextAnchor
<1>3. ASSUME NEW i \in Int, Dist(i, anchor) \in Int, Dist(i, anchor) - 1 >= -HalfRange
      PROVE  Dist(i, anchor') = Dist(i, anchor) - 1
  BY <1>1, <1>2, <1>3, DistLater
<1>4. Waiting => /\ Dist(Head(procs).instant, anchor') = Dist(Head(procs).instant, anchor) - 1
                 /\ Dist(Head(procs).instant, anchor) \in Int
  BY <1>1, <1>3, PendingNear
<1>5. \A i \in DOMAIN inds : /\ Dist(inds[i].instant, anchor') = Dist(inds[i].instant, anchor) - 1
                             /\ Dist(inds[i].instant, anchor) \in Int
  <2> SUFFICES ASSUME NEW i \in DOMAIN inds
               PROVE  /\ Dist(inds[i].instant, anchor') = Dist(inds[i].instant, anchor) - 1
                      /\ Dist(inds[i].instant, anchor) \in Int
    OBVIOUS
  <2>1. inds[i].instant \in Int /\ Dist(inds[i].instant, anchor) \in Int
        /\ Dist(inds[i].instant, anchor) - 2 - PeripheralSkip >= -HalfRange /\ HalfRange \in Nat
    BY <1>1, PendingNear
  <2>2. Dist(inds[i].instant, anchor) - 1 >= -HalfRange
    BY <2>1, ConstantFacts
  <2> QED
    BY <1>3, <2>1, <2>2
<1>6. rr # NoInd => /\ Dist(rr.instant, anchor') = Dist(rr.instant, anchor) - 1
                    /\ Dist(rr.instant, anchor) \in Int
  BY <1>1, <1>3, PendingNear
<1>7. (Waiting <=> Waiting') /\ (\A y : WaitsFor(y) <=> WaitsFor(y)')
  BY <1>1 DEF Waiting, WaitsFor
<1>8. OneWaits'
  <2>1. \A i \in DOMAIN procs' : i > 1 => procs'[i].state = "WAIT_TX"
    BY <1>1 DEF Agreement, OneWaits
  <2>2. Waiting => Dist(Head(procs').instant, anchor') \in Done(Central)' - lazy'[Central] .. InstantDelta
    BY <1>1, <1>2, <1>4, Sides, ConstantFacts DEF Agreement, OneWaits
  <2> QED
    BY <1>7, <2>1, <2>2 DEF OneWaits
<1>9. Sent'
  <2> SUFFICES ASSUME NEW i \in DOMAIN inds
               PROVE  /\ Dist(inds[i].instant, anchor') \in InstantDelta - stalled' .. InstantDelta
                      /\ Dist(inds[i].instant, anchor') > 0 => i = Len(inds) /\ WaitsFor(inds[i])
    BY <1>1 DEF Sent, WaitsFor, Waiting
  <2>1. /\ Dist(inds[i].instant, anchor) \in InstantDelta - stalled .. InstantDelta
        /\ Dist(inds[i].instant, anchor) > 0 => i = Len(inds) /\ WaitsFor(inds[i])
    BY <1>1 DEF Agreement, Sent
  <2>2. stalled' = stalled + 1
    <3>1. inds # <<>>
      OBVIOUS
    <3> QED
      BY <1>2, <3>1
  <2>3. InstantDelta - stalled' = InstantDelta - stalled - 1
    BY <1>2, <2>2, ConstantFacts
  <2> QED
    BY <1>2, <1>5, <2>1, <2>3, ConstantFacts
<1>10. Taken'
  <2> SUFFICES ASSUME rr # NoInd
               PROVE  /\ Dist(rr.instant, anchor') \in Done(Peripheral)' - lazy'[Peripheral] .. InstantDelta
                      /\ Dist(rr.instant, anchor') > 0 => WaitsFor(rr) /\ inds = <<>>
    BY <1>1 DEF Taken, WaitsFor, Waiting
  <2>1. /\ Dist(rr.instant, anchor) \in Done(Peripheral) - lazy[Peripheral] .. InstantDelta
        /\ Dist(rr.instant, anchor) > 0 => WaitsFor(rr) /\ inds = <<>>
    BY <1>1 DEF Agreement, Taken
  <2> QED
    BY <1>1, <1>2, <1>6, <2>1, Sides, ConstantFacts
<1>11. Waiting /\ Dist(Head(procs).instant, anchor) > 0 =>
         (\E i \in DOMAIN inds : WaitsFor(inds[i])) \/ (rr # NoInd /\ WaitsFor(rr))
  BY <1>1 DEF Agreement, Announced
<1>12. Announced'
  <2>1. Waiting /\ Dist(Head(procs).instant, anchor') > 0 =>
         (\E i \in DOMAIN inds : WaitsFor(inds[i])) \/ (rr # NoInd /\ WaitsFor(rr))
    BY <1>4, <1>11
  <2> QED
    BY <1>1, <2>1 DEF Announced, WaitsFor, Waiting
<1>13. SameMap'
  <2>1. CASE \E i \in DOMAIN inds : Dist(inds[i].instant, anchor) <= 0
    <3>1. \E i \in DOMAIN inds : Dist(inds[i].instant, anchor') <= 0
      BY <1>5, <2>1
    <3> QED
      BY <1>1, <3>1 DEF SameMap
  <2>2. CASE CentralMap = PeripheralMap /\ Waiting /\ Dist(Head(procs).instant, anchor) = 1
    <3>1. CentralMap' = Head(procs).chm
      BY <1>1, <1>4, <1>7, <2>2 DEF CentralMap
    <3>2. CASE \E i \in DOMAIN inds : WaitsFor(inds[i])
      <4>1. \E i \in DOMAIN inds : Dist(inds[i].instant, anchor') <= 0
        BY <1>5, <2>2, <3>2 DEF WaitsFor
      <4> QED
        BY <1>1, <4>1 DEF SameMap
    <3>3. CASE rr # NoInd /\ WaitsFor(rr)
      <4>1. rr.chm = Head(procs).chm /\ Dist(rr.instant, anchor') <= 0
        BY <1>6, <2>2, <3>3 DEF WaitsFor
      <4>2. PeripheralMap' = rr.chm
        BY <1>1, <3>3, <4>1 DEF PeripheralMap
      <4> QED
        BY <3>1, <4>1, <4>2 DEF SameMap
    <3> QED
      BY <1>11, <2>2, <3>2, <3>3
  <2>3. CASE CentralMap = PeripheralMap /\ ~(Waiting /\ Dist(Head(procs).instant, anchor) = 1)
    <3>1. CentralMap' = CentralMap
      BY <1>1, <1>4, <1>7, <2>3 DEF CentralMap
    <3>2. rr # NoInd => Dist(rr.instant, anchor) # 1
      BY <1>1, <2>3 DEF Agreement, Taken, WaitsFor
    <3>3. PeripheralMap' = PeripheralMap
      BY <1>1, <1>6, <3>2 DEF PeripheralMap
    <3> QED
      BY <2>3, <3>1, <3>3 DEF SameMap
  <2> QED
    BY <1>1, <2>1, <2>2, <2>3 DEF Agreement, SameMap
<1> QED
  BY <1>1, <1>8, <1>9, <1>10, <1>12, <1>13, Zenon DEF Agreement

(* Every step keeps the agreement. *)
LEMMA AgreementNext == Inv /\ [Next]_vars => Agreement'
<1> SUFFICES ASSUME Inv, [Next]_vars PROVE Agreement'
  OBVIOUS
<1>1. ASSUME NEW ready \in BOOLEAN, NEW aborted \in BOOLEAN, CentralCallback(ready, aborted)
      PROVE  Agreement'
  BY <1>1, SendAgrees, CompleteAgrees, IdleAgrees
<1>2. CASE CentralStage
  BY <1>1, <1>2, SkipAgrees DEF CentralStage
<1>3. CASE PeripheralStage
  BY <1>3, SkipAgrees, PeripheralAgrees DEF PeripheralStage
<1>4. CASE SupervisionTimeout
  BY <1>4 DEF SupervisionTimeout, Inv, Agreement, Open
<1>5. CASE Reconnect
  <2>1. PICK m \in Map : data_chan_map' = [s \in Side |-> m]
    BY <1>5 DEF Reconnect
  <2>2. procs' = <<>> /\ inds' = <<>> /\ rr' = NoInd /\ prep_lazy' = 0
    BY <1>5 DEF Reconnect
  <2> QED
    BY <2>1, <2>2, FreshAgreesNext
<1>6. CASE UNCHANGED vars
  BY <1>6 DEF vars, counting, Inv, Agreement, Open, OneWaits, Sent, Taken, Announced, SameMap,
              CentralMap, PeripheralMap, Waiting, WaitsFor, Done, Handled
<1> QED
  BY <1>2, <1>3, <1>4, <1>5, <1>6, RequestAgrees, RxAgrees, AnchorAgrees DEF Next

(* The invariant behind the agreement of the two sides. *)
THEOREM Invariance == Spec => []Inv
<1>1. Init => Inv
  <2> SUFFICES ASSUME Init PROVE Inv
    OBVIOUS
  <2>1. TypeOK /\ CountersTrackAnchors
    BY TypeInit, TrackInit
  <2>2. Attends
    BY DEF Init, Attends
  <2>3. Agreement
    <3>1. PICK m \in Map : data_chan_map = [s \in Side |-> m]
      BY DEF Init
    <3> QED
      BY <3>1, FreshAgrees DEF Init
  <2> QED
    BY <2>1, <2>2, <2>3 DEF Inv
<1>2. Inv /\ [Next]_vars => Inv'
  BY TypeNext, TrackNext, AttendsNext, AgreementNext DEF Inv
<1> QED
  BY <1>1, <1>2, PTL DEF Spec

(* In an event both sides attend they hop over the same map, unless an       *)
(* indication whose instant has come is still on its way.                    *)
THEOREM SidesHopAlike == Spec => []HopsAgree
<1>1. Inv => HopsAgree
  <2> SUFFICES ASSUME Inv, Open, stage = "event", \A s \in Side : attending[s],
                      data_chan_map[Central] # data_chan_map[Peripheral]
               PROVE  \E i \in DOMAIN inds : InstantReachedOrPassed(inds[i].instant, anchor)
    BY DEF HopsAgree
  <2>1. CentralMap = data_chan_map[Central]
    BY Sides, BothAttending, PendingNear DEF CentralMap
  <2>2. PeripheralMap = data_chan_map[Peripheral]
    BY Sides, BothAttending, PendingNear DEF PeripheralMap
  <2>3. PICK i \in DOMAIN inds : Dist(inds[i].instant, anchor) <= 0
    BY <2>1, <2>2 DEF Inv, Agreement, SameMap
  <2>4. inds[i].instant \in Int /\ anchor \in Int /\ Dist(inds[i].instant, anchor) \in Int
        /\ Dist(inds[i].instant, anchor) - 2 - PeripheralSkip >= -HalfRange /\ HalfRange \in Nat
    BY PendingNear
  <2>5. Dist(inds[i].instant, anchor) >= -HalfRange
    BY <2>4, ConstantFacts
  <2> QED
    BY <2>3, <2>4, <2>5, ReachedDist
<1> QED
  BY <1>1, Invariance, PTL

(* An indication never finds the peripheral busy with the one before. *)
THEOREM NeverBusy == Spec => []PeripheralFree
<1>1. Inv => PeripheralFree
  BY Sides, BothAttending DEF PeripheralFree
<1> QED
  BY <1>1, Invariance, PTL
=============================================================================
