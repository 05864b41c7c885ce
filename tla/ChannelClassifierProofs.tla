----------------------- MODULE ChannelClassifierProofs -----------------------
(***************************************************************************)
(* Proofs about ChannelClassifier for every set of channels, every size of *)
(* the event counter and every value of the classification's parameters.   *)
(*                                                                         *)
(* The invariant joins the type, EnoughChannels, what the packet counters  *)
(* say about the evidence of the current logging period (Evidence) and     *)
(* how far the deadline of the next classification is ahead of the event   *)
(* counter while neither has wrapped around (Deadline).  A last one counts *)
(* the packets that stand behind the failures (RatioInv).                  *)
(***************************************************************************)
EXTENDS ChannelClassifier, SumProofs, SequenceTheorems

\* A counter has moved since its snapshot exactly on the channels the history
\* names, and never backwards.
Evidence ==
  \A c \in Channel :
    /\ prevsuccessPacketCount[c] <= currsuccessPacketCount[c]
    /\ prevfailPacketCount[c] <= currfailPacketCount[c]
    /\ c \in acked <=> prevsuccessPacketCount[c] < currsuccessPacketCount[c]
    /\ c \in failed <=> prevfailPacketCount[c] < currfailPacketCount[c]

\* A deadline that did not wrap around is reached after LoggingEvents events.
Deadline ==
  elapsed < LoggingEvents /\ channel_update_counter >= LoggingEvents
    => event_counter + (LoggingEvents - elapsed) <= channel_update_counter

-----------------------------------------------------------------------------
(* Lemmas about the operators. *)

(* The constants, as the proofs use them. *)
LEMMA ConstantFacts ==
  /\ CounterMod \in Nat /\ CounterMod >= 4
  /\ InstantDelta \in Nat
  /\ TrainingEvents \in Nat /\ 0 < TrainingEvents /\ TrainingEvents < CounterMod
  /\ LoggingEvents \in Nat /\ 0 < LoggingEvents /\ LoggingEvents < CounterMod
  /\ BadRatePct \in Nat /\ NumCtx \in Nat /\ MaxLazy \in Nat /\ MaxTx \in Nat
  BY EventsAssumption, CounterModAssumption, InstantDeltaAssumption DEF Counter

(* A 16-bit sum is in range, and is the sum itself unless it wraps around.   *)
LEMMA PlusFacts ==
  ASSUME NEW e \in Nat, NEW n \in Nat
  PROVE  /\ Plus(e, n) \in Counter
         /\ e + n < CounterMod => Plus(e, n) = e + n
<1>1. CounterMod \in Nat /\ CounterMod > 0 /\ e + n \in Nat
  BY ConstantFacts
<1>2. \A a, m \in Nat : m > 0 => a % m \in 0 .. m - 1
  OBVIOUS
<1>3. \A a, m \in Nat : a < m => a % m = a
  OBVIOUS
<1> QED
  BY <1>1, <1>2, <1>3 DEF Plus, Counter

(* A sum that wraps around is smaller than the addend. *)
LEMMA PlusWraps ==
  ASSUME NEW e \in Counter, NEW n \in Counter, e + n >= CounterMod
  PROVE  Plus(e, n) = e + n - CounterMod
<1>1. CounterMod \in Nat /\ CounterMod > 0 /\ e \in Nat /\ n \in Nat
      /\ e < CounterMod /\ n < CounterMod
  BY ConstantFacts DEF Counter
<1>2. ASSUME NEW a \in Nat, NEW m \in Nat, m > 0, m <= a, a < 2 * m
      PROVE  a % m = a - m
  <2> DEFINE q == a \div m
             r == a % m
  <2>1. a = m * q + r /\ q \in Nat /\ r \in 0 .. m - 1
    BY <1>2
  <2> HIDE DEF q, r
  <2>2. q >= 2 => m * q >= 2 * m
    BY <1>2, <2>1
  <2>3. q = 0 => m * q = 0
    BY <2>1
  <2>4. q = 1
    BY <1>2, <2>1, <2>2, <2>3
  <2>5. m * q = m
    BY <2>4
  <2>6. r = a - m
    BY <2>1, <2>5
  <2> QED
    BY <2>6 DEF r
<1> QED
  BY <1>1, <1>2 DEF Plus

(* A finite set with two members has two different ones. *)
LEMMA TwoMembers ==
  ASSUME NEW S, IsFiniteSet(S), Cardinality(S) >= 2
  PROVE  TwoChannels(S)
<1>1. Cardinality(S) # 0 /\ Cardinality(S) # 1
  BY FS_CardinalityType
<1>2. S # {} /\ \A x : S # {x}
  BY <1>1, FS_EmptySet, FS_Singleton
<1>3. PICK a \in S : TRUE
  BY <1>2
<1>4. PICK b \in S : b # a
  <2>1. (\A b \in S : b = a) => S = {a}
    BY <1>3
  <2> QED
    BY <1>2, <2>1
<1> QED
  BY <1>3, <1>4 DEF TwoChannels

(* The channels themselves, and every map of the Host, are enough. *)
LEMMA ChannelsEnough ==
  TwoChannels(Channel) /\ \A m \in HostMaps : m \subseteq Channel /\ TwoChannels(m)
  BY ChannelAssumption, HostMapsAssumption, TwoMembers DEF TwoChannels

(* The decision is a channel map with at least two channels: it falls back   *)
(* to every channel when fewer than two are good, and keeps the good ones.   *)
LEMMA NewMapFacts == NewMap \subseteq Channel /\ TwoChannels(NewMap)
<1>1. NewMap \subseteq Channel
  BY DEF NewMap
<1>2. IsFiniteSet(GoodChannels) /\ Cardinality(GoodChannels) \in Nat
  <2>1. GoodChannels \in SUBSET Channel
    BY DEF GoodChannels
  <2> QED
    BY <2>1, ChannelAssumption, FS_Subset, FS_CardinalityType
<1>3. CASE GoodChannels = Channel \/ Cardinality(GoodChannels) < 2
  BY <1>3, ChannelsEnough DEF NewMap
<1>4. CASE ~(GoodChannels = Channel \/ Cardinality(GoodChannels) < 2)
  <2>1. TwoChannels(GoodChannels)
    BY <1>2, <1>4, TwoMembers
  <2>2. GoodChannels \subseteq NewMap
    BY <1>4 DEF NewMap, GoodChannels
  <2> QED
    BY <1>1, <2>1, <2>2 DEF TwoChannels
<1> QED
  BY <1>1, <1>3, <1>4

(* A rate is above a percentage only if the counter has moved, and above     *)
(* zero whenever it has.                                                     *)
LEMMA RateFacts ==
  ASSUME NEW curr \in Nat, NEW prev \in Nat, NEW pct \in Nat, prev <= curr
  PROVE  /\ RateAbove(curr, prev, pct) => prev < curr
         /\ prev < curr => RateAbove(curr, prev, 0)
<1>1. pct * curr >= 0
  OBVIOUS
<1>2. 0 * curr = 0
  OBVIOUS
<1> QED
  BY <1>1, <1>2 DEF RateAbove
-----------------------------------------------------------------------------
(* Lemmas about the queue of procedures. *)

(* A RUN event keeps the queue within the pool and typed, and every map it   *)
(* leaves in the queue or takes into use was there before.                   *)
LEMMA RunFacts ==
  ASSUME NEW q \in Seq(Proc), Len(q) <= NumCtx, NEW ec \in Nat, NEW ready \in BOOLEAN,
         NEW m \in SUBSET Channel
  PROVE  /\ AfterRun(q, ec, ready) \in Seq(Proc) /\ Len(AfterRun(q, ec, ready)) <= NumCtx
         /\ \A i \in DOMAIN AfterRun(q, ec, ready) :
              \E j \in DOMAIN q : AfterRun(q, ec, ready)[i].chm = q[j].chm
         /\ \/ MapAfterRun(q, ec, m) = m
            \/ \E j \in DOMAIN q : MapAfterRun(q, ec, m) = q[j].chm
         /\ MapAfterRun(q, ec, m) \subseteq Channel
<1>1. Len(q) \in Nat /\ DOMAIN q = 1 .. Len(q) /\ \A i \in DOMAIN q : q[i] \in Proc
  BY LenProperties, ElementOfSeq
<1>2. q # <<>> => 1 \in DOMAIN q /\ Head(q) = q[1]
  BY <1>1, EmptySeq
<1>3. NumCtx \in Nat
  BY ConstantFacts
<1>4. CASE Sends(q, ready)
  <2> DEFINE p == [Head(q) EXCEPT !.state = "WAIT_INSTANT", !.instant = Plus(ec, InstantDelta)]
  <2>1. q # <<>> /\ ~Completes(q, ec)
    BY <1>4 DEF Sends, Completes
  <2>2. Plus(ec, InstantDelta) \in Counter
    BY PlusFacts, ConstantFacts
  <2>3. p \in Proc /\ p.chm = q[1].chm
    BY <1>1, <1>2, <2>1, <2>2 DEF Proc
  <2>4. AfterRun(q, ec, ready) = [q EXCEPT ![1] = p]
    BY <1>2, <1>4, <2>1 DEF AfterRun
  <2> HIDE DEF p
  <2>5. /\ [q EXCEPT ![1] = p] \in Seq(Proc) /\ Len([q EXCEPT ![1] = p]) = Len(q)
        /\ DOMAIN [q EXCEPT ![1] = p] = DOMAIN q
        /\ \A i \in DOMAIN q : [q EXCEPT ![1] = p][i] = IF i = 1 THEN p ELSE q[i]
    BY <1>1, <1>2, <2>1, <2>3, ExceptSeq
  <2>6. MapAfterRun(q, ec, m) = m
    BY <2>1 DEF MapAfterRun
  <2> QED
    BY <1>2, <2>1, <2>3, <2>4, <2>5, <2>6
<1>5. CASE ~Sends(q, ready) /\ Completes(q, ec)
  <2>1. q # <<>>
    BY <1>5 DEF Completes
  <2>2. AfterRun(q, ec, ready) = Tail(q) /\ MapAfterRun(q, ec, m) = q[1].chm
    BY <1>2, <1>5, <2>1 DEF AfterRun, MapAfterRun
  <2>3. /\ Tail(q) \in Seq(Proc) /\ Len(Tail(q)) = Len(q) - 1
        /\ \A i \in 1 .. Len(Tail(q)) : Tail(q)[i] = q[i + 1]
    BY <2>1, HeadTailProperties
  <2>4. DOMAIN Tail(q) = 1 .. Len(q) - 1
    BY <2>3, LenProperties
  <2>5. q[1].chm \subseteq Channel
    BY <1>1, <1>2, <2>1 DEF Proc
  <2>6. \A i \in DOMAIN Tail(q) : i + 1 \in DOMAIN q /\ Tail(q)[i].chm = q[i + 1].chm
    BY <1>1, <2>3, <2>4
  <2>7. Len(Tail(q)) <= NumCtx
    BY <1>1, <1>3, <2>3
  <2> QED
    BY <1>2, <2>1, <2>2, <2>3, <2>5, <2>6, <2>7
<1>6. CASE ~Sends(q, ready) /\ ~Completes(q, ec)
  BY <1>6 DEF AfterRun, MapAfterRun
<1> QED
  BY <1>4, <1>5, <1>6

(* A request adds at most its own map, and only while the pool has room.     *)
LEMMA RequestFacts ==
  ASSUME procs \in Seq(Proc), Len(procs) <= NumCtx, NEW m \in SUBSET Channel, ChanMapUpdate(m)
  PROVE  /\ procs' \in Seq(Proc) /\ Len(procs') <= NumCtx
         /\ \A i \in DOMAIN procs' :
              procs'[i].chm = m \/ \E j \in DOMAIN procs : procs'[i].chm = procs[j].chm
<1>1. CASE procs' = procs
  BY <1>1
<1>2. CASE Len(procs) < NumCtx /\ procs' = Append(procs, NewProc(m))
  <2>1. NewProc(m) \in Proc /\ NewProc(m).chm = m
    BY ConstantFacts DEF NewProc, Proc, Counter
  <2>2. Len(procs) \in Nat /\ DOMAIN procs = 1 .. Len(procs) /\ NumCtx \in Nat
    BY LenProperties, ConstantFacts
  <2>3. /\ procs' \in Seq(Proc) /\ Len(procs') = Len(procs) + 1
        /\ \A i \in 1 .. Len(procs) : procs'[i] = procs[i]
        /\ procs'[Len(procs) + 1] = NewProc(m)
    BY <1>2, <2>1, AppendProperties
  <2>4. DOMAIN procs' = 1 .. Len(procs) + 1
    BY <2>3, LenProperties
  <2> QED
    BY <1>2, <2>1, <2>2, <2>3, <2>4
<1> QED
  BY <1>1, <1>2 DEF ChanMapUpdate
-----------------------------------------------------------------------------
(* Lemmas about counting. *)

\* The part of the type the counters and the history are concerned with.
CountTypes ==
  /\ currentDataChannel \in Channel
  /\ currsuccessPacketCount \in [Channel -> Nat] /\ currfailPacketCount \in [Channel -> Nat]
  /\ prevsuccessPacketCount \in [Channel -> Nat] /\ prevfailPacketCount \in [Channel -> Nat]
  /\ acked \subseteq Channel /\ failed \subseteq Channel /\ failedHere \subseteq failed

(* Counting failures leaves the failure counter ahead of its snapshot on     *)
(* exactly the channels the history names.                                   *)
LEMMA FailureFacts ==
  ASSUME CountTypes, NEW n \in Nat, CountFailures(n)
  PROVE  /\ currfailPacketCount' \in [Channel -> Nat]
         /\ failed' \subseteq Channel /\ failedHere' \subseteq failed'
         /\ \A c \in Channel :
              /\ prevfailPacketCount[c] <= currfailPacketCount[c]
              /\ c \in failed <=> prevfailPacketCount[c] < currfailPacketCount[c]
              => /\ prevfailPacketCount[c] <= currfailPacketCount'[c]
                 /\ c \in failed' <=> prevfailPacketCount[c] < currfailPacketCount'[c]
<1> USE DEF CountTypes
<1>1. /\ currfailPacketCount' \in [Channel -> Nat]
      /\ \A c \in Channel : currfailPacketCount'[c]
           = currfailPacketCount[c] + (IF c = currentDataChannel THEN n ELSE 0)
  BY DEF CountFailures
<1>2. CASE n = 0
  BY <1>1, <1>2 DEF CountFailures
<1>3. CASE n # 0
  <2>1. /\ failed' = failed \union {currentDataChannel}
        /\ failedHere' = failedHere \union {currentDataChannel}
    BY <1>3 DEF CountFailures
  <2> QED
    BY <1>1, <1>3, <2>1
<1> QED
  BY <1>2, <1>3

(* The same of an acknowledgment bit, which may also count a failure. *)
LEMMA AckFacts ==
  ASSUME CountTypes, NEW ack \in BOOLEAN, NEW more \in 0 .. 1, CountAck(ack, more)
  PROVE  /\ currsuccessPacketCount' \in [Channel -> Nat] /\ acked' \subseteq Channel
         /\ currfailPacketCount' \in [Channel -> Nat]
         /\ failed' \subseteq Channel /\ failedHere' \subseteq failed'
         /\ exchanged' = TRUE \/ exchanged' = exchanged
         /\ Evidence /\ UNCHANGED snapshots => Evidence'
<1>1. /\ currsuccessPacketCount' \in [Channel -> Nat] /\ acked' \subseteq Channel
      /\ exchanged' = TRUE \/ exchanged' = exchanged
      /\ \A c \in Channel :
           /\ prevsuccessPacketCount[c] <= currsuccessPacketCount[c]
           /\ c \in acked <=> prevsuccessPacketCount[c] < currsuccessPacketCount[c]
           => /\ prevsuccessPacketCount[c] <= currsuccessPacketCount'[c]
              /\ c \in acked' <=> prevsuccessPacketCount[c] < currsuccessPacketCount'[c]
  <2>1. CASE ack
    <3>1. /\ currsuccessPacketCount' =
               [currsuccessPacketCount EXCEPT ![currentDataChannel] = @ + 1]
          /\ acked' = acked \union {currentDataChannel} /\ exchanged' = TRUE
      BY <2>1 DEF CountAck
    <3> QED
      BY <3>1 DEF CountTypes
  <2>2. CASE ~ack
    BY <2>2 DEF CountAck, CountTypes
  <2> QED
    BY <2>1, <2>2
<1>2. \E n \in Nat : CountFailures(n)
  BY DEF CountAck
<1>3. /\ currfailPacketCount' \in [Channel -> Nat]
      /\ failed' \subseteq Channel /\ failedHere' \subseteq failed'
      /\ \A c \in Channel :
           /\ prevfailPacketCount[c] <= currfailPacketCount[c]
           /\ c \in failed <=> prevfailPacketCount[c] < currfailPacketCount[c]
           => /\ prevfailPacketCount[c] <= currfailPacketCount'[c]
              /\ c \in failed' <=> prevfailPacketCount[c] < currfailPacketCount'[c]
  BY <1>2, FailureFacts
<1>4. Evidence /\ UNCHANGED snapshots => Evidence'
  BY <1>1, <1>3 DEF Evidence, snapshots
<1> QED
  BY <1>1, <1>3, <1>4

(* What the peripheral's handlers have in common: a number of failures is    *)
(* counted, and little else happens.                                         *)
LEMMA PeripheralFacts ==
  ASSUME \/ PeripheralFirstPacket
         \/ \E ack \in BOOLEAN : PeripheralPacket(ack)
         \/ \E ack \in BOOLEAN : PeripheralMicFailure(ack)
  PROVE  /\ \E n \in Nat : CountFailures(n)
         /\ currtxPacketCount' = currtxPacketCount + 1 \/ UNCHANGED currtxPacketCount
         /\ UNCHANGED <<connected, encrypted, exchanged, clock, decision, data_chan_map,
                        currentDataChannel, currsuccessPacketCount, snapshots, phase, crc_expire,
                        prepare, llcp, acked>>
  BY DEF PeripheralFirstPacket, PeripheralPacket, PeripheralMicFailure, PeripheralRx,
         PeripheralReply, CountTx

-----------------------------------------------------------------------------
(* Type correctness. *)

(* Initially nothing is connected, queued or counted. *)
LEMMA TypeInit == Init => TypeOK
<1> SUFFICES ASSUME Init PROVE TypeOK
  OBVIOUS
<1>1. Counter \subseteq Nat /\ 0 \in Counter
  BY ConstantFacts DEF Counter
<1>2. procs \in Seq(Proc) /\ Len(procs) <= NumCtx
  BY EmptySeq, ConstantFacts DEF Init
<1>3. connected \in BOOLEAN /\ encrypted \in BOOLEAN /\ exchanged \in BOOLEAN
  BY Zenon DEF Init
<1> QED
  BY <1>1, <1>2, <1>3, ConstantFacts
     DEF Init, TypeOK, ElapsedCap, NoPrepare, NoPeripheral, EncryptionAcks

(* Every handler keeps the type. *)
LEMMA TypeNext == TypeOK /\ [Next]_vars => TypeOK'
<1> SUFFICES ASSUME TypeOK, [Next]_vars PROVE TypeOK'
  OBVIOUS
<1> USE DEF link, clock, decision, counters, snapshots, llcp, history
<1>1. CountTypes
  BY DEF CountTypes, TypeOK
<1>2. Counter \subseteq Nat /\ {0, TrainingEvents} \subseteq Counter
  BY ConstantFacts DEF Counter
<1>3. CASE Setup
  <2>1. connected' \in BOOLEAN /\ encrypted' \in BOOLEAN /\ exchanged' \in BOOLEAN
    BY <1>3, Zenon DEF Setup
  <2> QED
    BY <1>2, <1>3, <2>1, ConstantFacts DEF Setup, TypeOK, ElapsedCap
<1>4. ASSUME NEW m \in HostMaps, HostChmUpdate(m) PROVE TypeOK'
  <2>1. m \in SUBSET Channel
    BY HostMapsAssumption
  <2>2. procs' \in Seq(Proc) /\ Len(procs') <= NumCtx
    BY <1>4, <2>1, RequestFacts DEF HostChmUpdate, TypeOK
  <2> QED
    BY <1>4, <2>1, <2>2 DEF HostChmUpdate, TypeOK
<1>5. ASSUME NEW lazy \in 0 .. MaxLazy, NEW ready \in BOOLEAN, TickerCb(lazy, ready)
      PROVE  TypeOK'
  <2> DEFINE ec == Plus(event_counter, latency_prepare + lazy)
  <2>1. ec \in Nat
    <3>1. event_counter \in Nat /\ latency_prepare + lazy \in Nat
      BY <1>2, ConstantFacts DEF TypeOK
    <3> QED
      BY <1>2, <3>1, PlusFacts
  <2>2. procs' = AfterRun(procs, ec, ready) /\ data_chan_map' = MapAfterRun(procs, ec, data_chan_map)
    BY <1>5 DEF TickerCb, RunProcs
  <2> HIDE DEF ec
  <2>3. procs' \in Seq(Proc) /\ Len(procs') <= NumCtx /\ data_chan_map' \subseteq Channel
    BY <2>1, <2>2, RunFacts DEF TypeOK
  <2> QED
    BY <1>5, <2>3, ConstantFacts DEF TickerCb, TypeOK
<1>6. ASSUME NEW c \in Channel, LllPrepare(c) PROVE TypeOK'
  <2>1. latency_prepare + prepare + 1 \in Nat
    BY <1>6, ConstantFacts DEF LllPrepare, TypeOK, NoPrepare
  <2>2. event_counter' \in Counter
    BY <1>2, <1>6, <2>1, PlusFacts DEF LllPrepare, TypeOK
  <2>3. elapsed' \in 0 .. ElapsedCap
    BY <1>6, <2>1, ConstantFacts DEF LllPrepare, TypeOK, ElapsedCap, MinOf
  <2> QED
    BY <1>6, <2>2, <2>3, ConstantFacts DEF LllPrepare, CountTx, TypeOK, NoPrepare
<1>7. CASE LllPrepareAborted
  BY <1>7, ConstantFacts DEF LllPrepareAborted, TypeOK, NoPrepare
<1>8. CASE IsrTx
  <2>1. CASE Due
    <3>1. Classify
      BY <1>8, <2>1 DEF IsrTx
    <3>2. channel_update_counter' \in Counter
      BY <1>2, <3>1, PlusFacts, ConstantFacts DEF Classify, NextUpdate, TypeOK
    <3>3. procs' \in Seq(Proc) /\ Len(procs') <= NumCtx
      <4>1. CASE NewMap # data_chan_map
        BY <3>1, <4>1, NewMapFacts, RequestFacts DEF Classify, TypeOK
      <4>2. CASE NewMap = data_chan_map
        BY <3>1, <4>2 DEF Classify, TypeOK
      <4> QED
        BY <4>1, <4>2
    <3>4. updatedChannelMap' \subseteq Channel
      BY <3>1, NewMapFacts DEF Classify
    <3>5. /\ prevsuccessPacketCount' = currsuccessPacketCount
          /\ prevfailPacketCount' = currfailPacketCount
          /\ acked' = {} /\ failed' = {} /\ failedHere' = {} /\ elapsed' = 0
      BY <3>1 DEF Classify
    <3> QED
      BY <1>8, <3>2, <3>3, <3>4, <3>5, ConstantFacts DEF IsrTx, TypeOK, ElapsedCap
  <2>2. CASE ~Due
    BY <1>8, <2>2 DEF IsrTx, TypeOK
  <2> QED
    BY <2>1, <2>2
<1>9. CASE IsrRxNone
  BY <1>9 DEF IsrRxNone, IsrRx, TypeOK
<1>10. CASE IsrRxCrcError
  <2>1. /\ currfailPacketCount' \in [Channel -> Nat]
        /\ failed' \subseteq Channel /\ failedHere' \subseteq failed'
    BY <1>1, <1>10, FailureFacts DEF IsrRxCrcError
  <2> QED
    BY <1>10, <2>1 DEF IsrRxCrcError, IsrRx, PrepareNextTx, CountTx, TypeOK
<1>11. ASSUME NEW ack \in BOOLEAN, NEW done \in BOOLEAN, IsrRxPdu(ack, done) PROVE TypeOK'
  <2>1. /\ currsuccessPacketCount' \in [Channel -> Nat] /\ acked' \subseteq Channel
        /\ currfailPacketCount' \in [Channel -> Nat]
        /\ failed' \subseteq Channel /\ failedHere' \subseteq failed'
        /\ exchanged' = TRUE \/ exchanged' = exchanged
    <3>1. CountAck(ack, 0) /\ 0 \in 0 .. 1
      BY <1>11 DEF IsrRxPdu
    <3> QED
      BY <1>1, <3>1, AckFacts, Zenon
  <2>2. exchanged' \in BOOLEAN
    BY <2>1, Zenon DEF TypeOK
  <2> QED
    BY <1>11, <2>1, <2>2 DEF IsrRxPdu, IsrRx, PrepareNextTx, CountTx, TypeOK
<1>12. ASSUME NEW ack \in BOOLEAN, IsrRxMicFailure(ack) PROVE TypeOK'
  <2>1. /\ currsuccessPacketCount' \in [Channel -> Nat] /\ acked' \subseteq Channel
        /\ currfailPacketCount' \in [Channel -> Nat]
        /\ failed' \subseteq Channel /\ failedHere' \subseteq failed'
        /\ exchanged' = TRUE \/ exchanged' = exchanged
    <3>1. CountAck(ack, 1) /\ 1 \in 0 .. 1
      BY <1>12 DEF IsrRxMicFailure
    <3> QED
      BY <1>1, <3>1, AckFacts, Zenon
  <2>2. procs' \in Seq(Proc) /\ Len(procs') <= NumCtx
    BY <1>12, EmptySeq, ConstantFacts DEF IsrRxMicFailure, Close
  <2>3. connected' \in BOOLEAN /\ exchanged' \in BOOLEAN
    BY <1>12, <2>1, Zenon DEF IsrRxMicFailure, Close, TypeOK
  <2> QED
    BY <1>12, <2>1, <2>2, <2>3, ConstantFacts DEF IsrRxMicFailure, IsrRx, Close, TypeOK, NoPrepare
<1>13. CASE RadioAbort
  BY <1>13 DEF RadioAbort, TypeOK
<1>14. ASSUME \/ PeripheralFirstPacket
              \/ \E ack \in BOOLEAN : PeripheralPacket(ack)
              \/ \E ack \in BOOLEAN : PeripheralMicFailure(ack)
       PROVE  TypeOK'
  <2>1. /\ currfailPacketCount' \in [Channel -> Nat]
        /\ failed' \subseteq Channel /\ failedHere' \subseteq failed'
    BY <1>1, <1>14, PeripheralFacts, FailureFacts
  <2>2. periphAcks' \in NoPeripheral .. EncryptionAcks
    BY <1>14 DEF PeripheralFirstPacket, PeripheralPacket, PeripheralMicFailure, TypeOK, MinOf,
                 NoPeripheral, EncryptionAcks
  <2>3. currtxPacketCount' \in Nat
    BY <1>14, PeripheralFacts DEF TypeOK
  <2> QED
    BY <1>14, <2>1, <2>2, <2>3, PeripheralFacts DEF TypeOK
<1>15. CASE StartEncryption
  BY <1>15 DEF StartEncryption, TypeOK
<1>16. CASE Disconnect
  <2>1. procs' \in Seq(Proc) /\ Len(procs') <= NumCtx
    BY <1>16, EmptySeq, ConstantFacts DEF Disconnect, Close
  <2>2. connected' \in BOOLEAN
    BY <1>16, Zenon DEF Disconnect, Close
  <2> QED
    BY <1>16, <2>1, <2>2, ConstantFacts DEF Disconnect, Close, TypeOK, NoPrepare
<1>17. CASE PeripheralDisconnect
  BY <1>17 DEF PeripheralDisconnect, TypeOK, NoPeripheral, EncryptionAcks
<1>18. CASE UNCHANGED vars
  BY <1>18 DEF vars, TypeOK
<1> QED
  BY <1>3, <1>4, <1>5, <1>6, <1>7, <1>8, <1>9, <1>10, <1>11, <1>12, <1>13, <1>14, <1>15, <1>16,
     <1>17, <1>18 DEF Next

(* Every variable keeps its type: the counters their widths, the queue of    *)
(* procedures the size of the pool.                                          *)
THEOREM TypeCorrect == Spec => []TypeOK
  BY TypeInit, TypeNext, PTL DEF Spec
-----------------------------------------------------------------------------
(* Two channels to hop over. *)

(* Every handler keeps two channels in each map: a new one comes from the    *)
(* Host or from the decision, any other from a queue that already had them.  *)
LEMMA EnoughNext == TypeOK /\ EnoughChannels /\ [Next]_vars => EnoughChannels'
<1> SUFFICES ASSUME TypeOK, EnoughChannels, [Next]_vars PROVE EnoughChannels'
  OBVIOUS
<1> USE DEF link, clock, decision, counters, snapshots, llcp, history
<1>1. /\ procs \in Seq(Proc) /\ Len(procs) <= NumCtx /\ data_chan_map \in SUBSET Channel
      /\ DOMAIN procs = 1 .. Len(procs)
  BY LenProperties DEF TypeOK
<1>2. CASE Setup
  BY <1>2 DEF Setup, EnoughChannels
<1>3. ASSUME NEW m \in HostMaps, HostChmUpdate(m) PROVE EnoughChannels'
  <2>1. m \in SUBSET Channel /\ TwoChannels(m)
    BY ChannelsEnough
  <2>2. \A i \in DOMAIN procs' : TwoChannels(procs'[i].chm)
    <3>1. CASE connected
      BY <1>1, <1>3, <2>1, <3>1, RequestFacts DEF HostChmUpdate, EnoughChannels
    <3>2. CASE ~connected
      BY <1>3, <3>2 DEF HostChmUpdate, EnoughChannels
    <3> QED
      BY <3>1, <3>2
  <2> QED
    BY <1>3, <2>1, <2>2 DEF HostChmUpdate, EnoughChannels
<1>4. ASSUME NEW lazy \in 0 .. MaxLazy, NEW ready \in BOOLEAN, TickerCb(lazy, ready)
      PROVE  EnoughChannels'
  <2> DEFINE ec == Plus(event_counter, latency_prepare + lazy)
  <2>1. ec \in Nat
    <3>1. event_counter \in Nat /\ latency_prepare + lazy \in Nat
      BY ConstantFacts DEF TypeOK, Counter
    <3>2. Counter \subseteq Nat
      BY ConstantFacts DEF Counter
    <3> QED
      BY <3>1, <3>2, PlusFacts
  <2>2. procs' = AfterRun(procs, ec, ready) /\ data_chan_map' = MapAfterRun(procs, ec, data_chan_map)
    BY <1>4 DEF TickerCb, RunProcs
  <2> HIDE DEF ec
  <2>3. /\ \A i \in DOMAIN procs' : \E j \in DOMAIN procs : procs'[i].chm = procs[j].chm
        /\ data_chan_map' = data_chan_map \/ \E j \in DOMAIN procs : data_chan_map' = procs[j].chm
    BY <1>1, <2>1, <2>2, RunFacts
  <2>4. /\ \A i \in DOMAIN procs' : TwoChannels(procs'[i].chm)
        /\ TwoChannels(data_chan_map')
    BY <2>3 DEF EnoughChannels
  <2> QED
    BY <1>4, <2>4 DEF TickerCb, EnoughChannels
<1>5. CASE IsrTx
  <2>1. CASE Due
    <3>1. Classify
      BY <1>5, <2>1 DEF IsrTx
    <3>2. \A i \in DOMAIN procs' : TwoChannels(procs'[i].chm)
      <4>1. CASE NewMap # data_chan_map
        BY <1>1, <3>1, <4>1, NewMapFacts, RequestFacts DEF Classify, EnoughChannels
      <4>2. CASE NewMap = data_chan_map
        BY <3>1, <4>2 DEF Classify, EnoughChannels
      <4> QED
        BY <4>1, <4>2
    <3>3. TwoChannels(updatedChannelMap')
      BY <3>1, NewMapFacts DEF Classify
    <3> QED
      BY <1>5, <3>2, <3>3 DEF IsrTx, EnoughChannels
  <2>2. CASE ~Due
    BY <1>5, <2>2 DEF IsrTx, EnoughChannels
  <2> QED
    BY <2>1, <2>2
<1>6. ASSUME NEW ack \in BOOLEAN, IsrRxMicFailure(ack) PROVE EnoughChannels'
  BY <1>6 DEF IsrRxMicFailure, IsrRx, Close, EnoughChannels
<1>7. CASE Disconnect
  BY <1>7 DEF Disconnect, Close, EnoughChannels
<1>8. ASSUME \/ \E c \in Channel : LllPrepare(c)
             \/ LllPrepareAborted \/ IsrRxNone \/ IsrRxCrcError
             \/ \E ack, done \in BOOLEAN : IsrRxPdu(ack, done)
             \/ RadioAbort \/ PeripheralFirstPacket
             \/ \E ack \in BOOLEAN : PeripheralPacket(ack)
             \/ \E ack \in BOOLEAN : PeripheralMicFailure(ack)
             \/ PeripheralDisconnect \/ StartEncryption \/ UNCHANGED vars
      PROVE  EnoughChannels'
  <2>1. UNCHANGED <<data_chan_map, map, updatedChannelMap, procs>>
    BY <1>8, PeripheralFacts
       DEF LllPrepare, LllPrepareAborted, IsrRx, IsrRxNone, IsrRxCrcError, IsrRxPdu, RadioAbort,
           PeripheralDisconnect, StartEncryption, vars
  <2> QED
    BY <2>1 DEF EnoughChannels
<1> QED
  BY <1>2, <1>3, <1>4, <1>5, <1>6, <1>7, <1>8 DEF Next

(* The map in use, the Host's map, the decision and every queued map have at *)
(* least two channels, whatever was counted (lll_conn_isr_tx 570-590,        *)
(* ull_chan.c, ull_llcp_chmu.c).                                             *)
THEOREM AlwaysEnoughChannels == Spec => []EnoughChannels
<1>1. Init => TypeOK /\ EnoughChannels
  BY TypeInit, ChannelsEnough DEF Init, EnoughChannels
<1>2. TypeOK /\ EnoughChannels /\ [Next]_vars => (TypeOK /\ EnoughChannels)'
  BY TypeNext, EnoughNext
<1> QED
  BY <1>1, <1>2, PTL DEF Spec

-----------------------------------------------------------------------------
(* The evidence behind an exclusion. *)

(* Every handler keeps the history in agreement with the counters. *)
LEMMA EvidenceNext == TypeOK /\ Evidence /\ [Next]_vars => Evidence'
<1> SUFFICES ASSUME TypeOK, Evidence, [Next]_vars PROVE Evidence'
  OBVIOUS
<1> USE DEF link, clock, decision, counters, snapshots, llcp, history
<1>1. CountTypes
  BY DEF CountTypes, TypeOK
<1>2. CASE IsrTx
  <2>1. CASE Due
    <3>1. /\ prevsuccessPacketCount' = currsuccessPacketCount
          /\ prevfailPacketCount' = currfailPacketCount
          /\ acked' = {} /\ failed' = {}
          /\ UNCHANGED counters
      BY <1>2, <2>1 DEF IsrTx, Classify
    <3> QED
      BY <1>1, <3>1 DEF Evidence, CountTypes
  <2>2. CASE ~Due
    BY <1>2, <2>2 DEF IsrTx, Evidence
  <2> QED
    BY <2>1, <2>2
<1>3. CASE IsrRxCrcError
  <2>1. CountFailures(1) /\ UNCHANGED <<snapshots, currsuccessPacketCount, acked>>
    BY <1>3 DEF IsrRxCrcError, IsrRx
  <2> QED
    BY <1>1, <2>1, FailureFacts DEF Evidence
<1>4. ASSUME NEW ack \in BOOLEAN, NEW done \in BOOLEAN, IsrRxPdu(ack, done) PROVE Evidence'
  <2>1. CountAck(ack, 0) /\ 0 \in 0 .. 1 /\ UNCHANGED snapshots
    BY <1>4 DEF IsrRxPdu, IsrRx
  <2> QED
    BY <1>1, <2>1, AckFacts, Zenon
<1>5. ASSUME NEW ack \in BOOLEAN, IsrRxMicFailure(ack) PROVE Evidence'
  <2>1. CountAck(ack, 1) /\ 1 \in 0 .. 1 /\ UNCHANGED snapshots
    BY <1>5 DEF IsrRxMicFailure, IsrRx
  <2> QED
    BY <1>1, <2>1, AckFacts, Zenon
<1>6. ASSUME \/ PeripheralFirstPacket
             \/ \E ack \in BOOLEAN : PeripheralPacket(ack)
             \/ \E ack \in BOOLEAN : PeripheralMicFailure(ack)
      PROVE  Evidence'
  <2>1. PICK n \in Nat : CountFailures(n)
    BY <1>6, PeripheralFacts
  <2>2. UNCHANGED <<snapshots, currsuccessPacketCount, acked>>
    BY <1>6, PeripheralFacts
  <2> QED
    BY <1>1, <2>1, <2>2, FailureFacts DEF Evidence
<1>7. ASSUME \/ Setup
             \/ \E m \in HostMaps : HostChmUpdate(m)
             \/ \E lazy \in 0 .. MaxLazy, ready \in BOOLEAN : TickerCb(lazy, ready)
             \/ \E c \in Channel : LllPrepare(c)
             \/ LllPrepareAborted \/ IsrRxNone \/ RadioAbort \/ StartEncryption \/ Disconnect
             \/ PeripheralDisconnect \/ UNCHANGED vars
      PROVE  Evidence'
  <2>1. UNCHANGED <<counters, snapshots, acked, failed>>
    BY <1>7 DEF Setup, HostChmUpdate, TickerCb, LllPrepare, LllPrepareAborted, IsrRx, IsrRxNone,
                RadioAbort, StartEncryption, Disconnect, PeripheralDisconnect, vars
  <2> QED
    BY <2>1 DEF Evidence
<1> QED
  BY <1>2, <1>3, <1>4, <1>5, <1>6, <1>7 DEF Next

(* A channel that is excluded moved its failure counter and not its success  *)
(* counter.                                                                  *)
LEMMA ExclusionStep ==
  ASSUME TypeOK, Evidence, Next, Classified, NEW c \in Channel, c \notin updatedChannelMap'
  PROVE  c \in failed \ acked
<1>1. updatedChannelMap' = NewMap
  BY DEF Classified, Next, IsrTx, Classify, Setup, HostChmUpdate, TickerCb, LllPrepare,
         LllPrepareAborted, IsrRx, IsrRxNone, IsrRxCrcError, IsrRxPdu, IsrRxMicFailure, RadioAbort,
         PeripheralFirstPacket, PeripheralPacket, PeripheralMicFailure, PeripheralRx,
         PeripheralDisconnect, StartEncryption, Disconnect
<1>2. ~Good(c) /\ Bad(c)
  BY <1>1 DEF NewMap
<1>3. /\ currsuccessPacketCount[c] \in Nat /\ prevsuccessPacketCount[c] \in Nat
      /\ currfailPacketCount[c] \in Nat /\ prevfailPacketCount[c] \in Nat
      /\ BadRatePct \in Nat
  BY ConstantFacts DEF TypeOK
<1>4. /\ ~(prevsuccessPacketCount[c] < currsuccessPacketCount[c])
      /\ prevfailPacketCount[c] < currfailPacketCount[c]
  BY <1>2, <1>3, RateFacts DEF Good, Bad, Evidence
<1> QED
  BY <1>4 DEF Evidence

(* A classification excludes a channel only on evidence: since the last one  *)
(* packets failed there and none was acknowledged (lll_conn.c 563-588).      *)
THEOREM ExclusionsJustified == Spec => ExclusionJustified
<1>1. Init => TypeOK /\ Evidence
  BY TypeInit DEF Init, Evidence
<1>2. TypeOK /\ Evidence /\ [Next]_vars => (TypeOK /\ Evidence)'
  BY TypeNext, EvidenceNext
<1>3. TypeOK /\ Evidence /\ [Next]_vars
        => [Classified => \A c \in Channel \ updatedChannelMap' : c \in failed \ acked]_vars
  BY ExclusionStep
<1> QED
  BY <1>1, <1>2, <1>3, PTL DEF Spec, ExclusionJustified

-----------------------------------------------------------------------------
(* The distance of two classifications. *)

(* Every handler keeps the deadline ahead of the event counter. *)
LEMMA DeadlineNext == TypeOK /\ Deadline /\ [Next]_vars => Deadline'
<1> SUFFICES ASSUME TypeOK, Deadline, [Next]_vars PROVE Deadline'
  OBVIOUS
<1> USE DEF link, clock, decision, counters, snapshots, llcp, history
<1>1. /\ event_counter \in Nat /\ event_counter < CounterMod
      /\ channel_update_counter \in Nat /\ channel_update_counter < CounterMod
      /\ elapsed \in Nat
  BY ConstantFacts DEF TypeOK, Counter, ElapsedCap
<1>2. CASE Setup
  BY <1>2, ConstantFacts DEF Setup, Deadline
<1>3. ASSUME NEW c \in Channel, LllPrepare(c) PROVE Deadline'
  <2> DEFINE k == latency_prepare + prepare + 1
  <2>1. k \in Nat
    BY <1>3, ConstantFacts DEF LllPrepare, TypeOK, NoPrepare
  <2>2. /\ event_counter' = Plus(event_counter, k)
        /\ elapsed' = MinOf(elapsed + k, LoggingEvents)
        /\ channel_update_counter' = channel_update_counter
    <3>1. elapsed + (latency_prepare + prepare) + 1 = elapsed + k
      BY <1>1, <1>3, ConstantFacts DEF LllPrepare, TypeOK, NoPrepare
    <3> QED
      BY <1>3, <3>1 DEF LllPrepare, ElapsedCap
  <2> HIDE DEF k
  <2>3. SUFFICES ASSUME elapsed' < LoggingEvents, channel_update_counter >= LoggingEvents
                 PROVE  event_counter' + (LoggingEvents - elapsed') <= channel_update_counter
    BY <2>2 DEF Deadline
  <2>4. elapsed' = elapsed + k
    BY <1>1, <2>1, <2>2, <2>3, ConstantFacts DEF MinOf
  <2>5. event_counter + (LoggingEvents - elapsed) <= channel_update_counter
    BY <1>1, <2>1, <2>3, <2>4, ConstantFacts DEF Deadline
  <2>6. event_counter' = event_counter + k
    BY <1>1, <2>1, <2>2, <2>3, <2>4, <2>5, PlusFacts, ConstantFacts
  <2> QED
    BY <1>1, <2>1, <2>4, <2>5, <2>6, ConstantFacts
<1>4. CASE IsrTx
  <2>1. CASE Due
    <3>1. /\ elapsed' = 0 /\ event_counter' = event_counter
          /\ channel_update_counter' = Plus(event_counter, LoggingEvents)
      BY <1>4, <2>1 DEF IsrTx, Classify, NextUpdate
    <3>2. CASE event_counter + LoggingEvents < CounterMod
      BY <1>1, <3>1, <3>2, PlusFacts, ConstantFacts DEF Deadline
    <3>3. CASE event_counter + LoggingEvents >= CounterMod
      <4>1. event_counter \in Counter /\ LoggingEvents \in Counter
        BY <1>1, ConstantFacts DEF Counter
      <4>2. channel_update_counter' = event_counter + LoggingEvents - CounterMod
        BY <3>1, <3>3, <4>1, PlusWraps
      <4> QED
        BY <1>1, <4>2, ConstantFacts DEF Deadline
    <3> QED
      BY <1>1, <3>2, <3>3, ConstantFacts
  <2>2. CASE ~Due
    BY <1>4, <2>2 DEF IsrTx, Deadline
  <2> QED
    BY <2>1, <2>2
<1>5. ASSUME \/ \E m \in HostMaps : HostChmUpdate(m)
             \/ \E lazy \in 0 .. MaxLazy, ready \in BOOLEAN : TickerCb(lazy, ready)
             \/ LllPrepareAborted \/ IsrRxNone \/ IsrRxCrcError
             \/ \E ack, done \in BOOLEAN : IsrRxPdu(ack, done)
             \/ \E ack \in BOOLEAN : IsrRxMicFailure(ack)
             \/ RadioAbort \/ PeripheralFirstPacket
             \/ \E ack \in BOOLEAN : PeripheralPacket(ack)
             \/ \E ack \in BOOLEAN : PeripheralMicFailure(ack)
             \/ PeripheralDisconnect \/ StartEncryption \/ Disconnect \/ UNCHANGED vars
      PROVE  Deadline'
  <2>1. UNCHANGED <<event_counter, elapsed, channel_update_counter>>
    BY <1>5, PeripheralFacts
       DEF HostChmUpdate, TickerCb, LllPrepareAborted, IsrRx, IsrRxNone, IsrRxCrcError, IsrRxPdu,
           IsrRxMicFailure, RadioAbort, PeripheralDisconnect, StartEncryption, Disconnect, vars
  <2> QED
    BY <2>1 DEF Deadline
<1> QED
  BY <1>2, <1>3, <1>4, <1>5 DEF Next

(* Two classifications of a connection are LOGGING_EVENTS apart unless the   *)
(* deadline wrapped around the 16-bit counter, so that the wrap is the only  *)
(* way to break the spacing (lll_conn.c 519, 531).                           *)
THEOREM EarlyMeansWrapped == Spec => EarlyOnlyOnWrap
<1>1. Init => TypeOK /\ Deadline
  BY TypeInit, ConstantFacts DEF Init, Deadline
<1>2. TypeOK /\ Deadline /\ [Next]_vars => (TypeOK /\ Deadline)'
  BY TypeNext, DeadlineNext
<1>3. TypeOK /\ Deadline /\ [Next]_vars
        => [Classified /\ elapsed < LoggingEvents => channel_update_counter < LoggingEvents]_vars
  <2> SUFFICES ASSUME TypeOK, Deadline, Classified, elapsed < LoggingEvents,
                      ~(channel_update_counter < LoggingEvents)
               PROVE  FALSE
    OBVIOUS
  <2>1. /\ event_counter \in Nat /\ channel_update_counter \in Nat /\ elapsed \in Nat
        /\ LoggingEvents \in Nat
    BY ConstantFacts DEF TypeOK, Counter, ElapsedCap
  <2>2. event_counter + (LoggingEvents - elapsed) <= channel_update_counter
    BY <2>1 DEF Deadline
  <2> QED
    BY <2>1, <2>2 DEF Classified, Due
<1> QED
  BY <1>1, <1>2, <1>3, PTL DEF Spec, EarlyOnlyOnWrap

-----------------------------------------------------------------------------
(* The loss ratio. *)

\* An event or a prepare belongs to a connection, and encryption to one that has
\* had an acknowledgment.
Live ==
  /\ phase # "idle" \/ prepare # NoPrepare => connected
  /\ connected /\ encrypted => exchanged

\* The packets acknowledged in a peripheral connection, as far as they are counted.
PeripheralReserve == IF periphAcks = NoPeripheral THEN 0 ELSE periphAcks

\* Besides one packet for each failure, there is the one whose reply is awaited
\* and one that was acknowledged in this connection, or the packets acknowledged
\* in a peripheral connection.
Backed ==
  Total(currfailPacketCount) + (IF phase = "idle" THEN 0 ELSE 1)
    + (IF connected /\ exchanged THEN 1 ELSE 0) + PeripheralReserve <= currtxPacketCount

RatioInv == Live /\ Backed

(* The total is the sum of the failures. *)
LEMMA TotalIsSum == ASSUME NEW count PROVE Total(count) = SumOver(count, Channel)
  BY SumIsSumOver DEF Total

(* Counting n failures on the channel of the event adds n to the total. *)
LEMMA TotalGrows ==
  ASSUME TypeOK, NEW n \in Nat, CountFailures(n)
  PROVE  /\ Total(currfailPacketCount) \in Nat
         /\ Total(currfailPacketCount)' = Total(currfailPacketCount) + n
<1>1. /\ currfailPacketCount \in [Channel -> Nat] /\ currentDataChannel \in Channel
      /\ currfailPacketCount' = [currfailPacketCount EXCEPT ![currentDataChannel] = @ + n]
      /\ IsFiniteSet(Channel)
  BY ChannelAssumption DEF TypeOK, CountFailures
<1>2. /\ SumOver(currfailPacketCount, Channel) \in Nat
      /\ SumOver([currfailPacketCount EXCEPT ![currentDataChannel] = @ + n], Channel)
           = SumOver(currfailPacketCount, Channel) + n
  BY <1>1, SumGrows
<1>3. SumOver(currfailPacketCount', Channel) = SumOver(currfailPacketCount, Channel) + n
  BY <1>1, <1>2
<1>4. Total(currfailPacketCount) = SumOver(currfailPacketCount, Channel)
  BY TotalIsSum
<1>5. Total(currfailPacketCount') = SumOver(currfailPacketCount', Channel)
  BY TotalIsSum
<1> QED
  BY <1>2, <1>3, <1>4, <1>5

(* Every handler keeps a packet in hand for each failure it may still count: *)
(* a reply is judged once, and the failures that a wrong MIC counts without  *)
(* a packet have earlier acknowledged packets to be counted against.         *)
LEMMA RatioNext == TypeOK /\ RatioInv /\ [Next]_vars => RatioInv'
<1> SUFFICES ASSUME TypeOK, RatioInv, [Next]_vars PROVE RatioInv'
  OBVIOUS
<1> USE DEF link, clock, decision, counters, snapshots, llcp, history, NoPrepare
<1> DEFINE T == Total(currfailPacketCount)
<1>1. /\ T \in Nat /\ currtxPacketCount \in Nat /\ phase \in {"idle", "tx", "rx"}
      /\ connected \in BOOLEAN /\ exchanged \in BOOLEAN /\ encrypted \in BOOLEAN
      /\ periphAcks \in NoPeripheral .. EncryptionAcks /\ PeripheralReserve \in Nat
  <2>1. currfailPacketCount \in [Channel -> Nat]
    BY DEF TypeOK
  <2>2. \E c \in Channel : TRUE
    BY DEF TypeOK
  <2>3. SumOver(currfailPacketCount, Channel) \in Nat
    BY <2>1, <2>2, ChannelAssumption, SumGrows, 0 \in Nat
  <2> QED
    BY <2>3, TotalIsSum DEF TypeOK, PeripheralReserve, NoPeripheral, EncryptionAcks
<1>2. ASSUME NEW n \in Nat, CountFailures(n) PROVE T' = T + n
  BY <1>2, TotalGrows
<1>3. ASSUME UNCHANGED currfailPacketCount PROVE T' = T
  <2>1. Total(currfailPacketCount) = SumOver(currfailPacketCount, Channel)
    BY TotalIsSum
  <2>2. Total(currfailPacketCount') = SumOver(currfailPacketCount', Channel)
    BY TotalIsSum
  <2> QED
    BY <1>3, <2>1, <2>2
<1> HIDE DEF T
<1>4. /\ phase # "idle" \/ prepare # NoPrepare => connected
      /\ connected /\ encrypted => exchanged
      /\ T + (IF phase = "idle" THEN 0 ELSE 1) + (IF connected /\ exchanged THEN 1 ELSE 0)
           + PeripheralReserve <= currtxPacketCount
  BY DEF RatioInv, Live, Backed, T
<1>5. ASSUME /\ phase' # "idle" \/ prepare' # NoPrepare => connected'
             /\ connected' /\ encrypted' => exchanged'
             /\ T' + (IF phase' = "idle" THEN 0 ELSE 1) + (IF connected' /\ exchanged' THEN 1 ELSE 0)
                  + PeripheralReserve' <= currtxPacketCount'
      PROVE  RatioInv'
  BY <1>5 DEF RatioInv, Live, Backed, T
<1>r. UNCHANGED periphAcks => PeripheralReserve' = PeripheralReserve
  BY DEF PeripheralReserve
<1>6. CASE Setup
  <2>1. T' = T /\ connected' = TRUE /\ encrypted' = FALSE /\ exchanged' = FALSE
        /\ UNCHANGED <<phase, currtxPacketCount, periphAcks>>
    BY <1>3, <1>6 DEF Setup
  <2> QED
    BY <1>1, <1>4, <1>5, <1>r, <2>1
<1>7. ASSUME \/ \E m \in HostMaps : HostChmUpdate(m)
             \/ \E lazy \in 0 .. MaxLazy, ready \in BOOLEAN : TickerCb(lazy, ready)
             \/ LllPrepareAborted \/ IsrTx \/ StartEncryption \/ UNCHANGED vars
      PROVE  RatioInv'
  <2>1. /\ UNCHANGED <<currfailPacketCount, connected, exchanged, periphAcks, currtxPacketCount>>
        /\ phase' = phase \/ (phase = "tx" /\ phase' = "rx")
        /\ prepare' = NoPrepare \/ prepare' = prepare \/ connected
        /\ encrypted' = encrypted \/ exchanged
    <3>1. CASE \/ \E m \in HostMaps : HostChmUpdate(m)
               \/ \E lazy \in 0 .. MaxLazy, ready \in BOOLEAN : TickerCb(lazy, ready)
      BY <3>1 DEF HostChmUpdate, TickerCb
    <3>2. CASE LllPrepareAborted \/ StartEncryption \/ UNCHANGED vars
      BY <3>2 DEF LllPrepareAborted, StartEncryption, vars
    <3>3. CASE IsrTx
      BY <3>3 DEF IsrTx
    <3> QED
      BY <1>7, <3>1, <3>2, <3>3
  <2>2. T' = T
    BY <1>3, <2>1
  <2>3. phase' = "idle" <=> phase = "idle"
    BY <2>1
  <2> QED
    BY <1>1, <1>4, <1>5, <1>r, <2>1, <2>2, <2>3
<1>8. ASSUME NEW c \in Channel, LllPrepare(c) PROVE RatioInv'
  <2>1. /\ T' = T /\ UNCHANGED <<connected, encrypted, exchanged, periphAcks>>
        /\ prepare # NoPrepare
        /\ prepare' = NoPrepare /\ phase = "idle" /\ currtxPacketCount' = currtxPacketCount + 1
    BY <1>3, <1>8 DEF LllPrepare, CountTx
  <2> QED
    BY <1>1, <1>4, <1>5, <1>r, <2>1
<1>9. CASE IsrRxNone
  <2>1. /\ T' = T /\ UNCHANGED <<link, prepare, currtxPacketCount>> /\ phase' = "idle"
    BY <1>3, <1>9 DEF IsrRxNone
  <2> QED
    BY <1>1, <1>4, <1>5, <1>r, <2>1
<1>10. CASE IsrRxCrcError
  <2>1. /\ T' = T + 1 /\ UNCHANGED <<link, prepare>> /\ phase = "rx"
        /\ currtxPacketCount' = currtxPacketCount + 1
    BY <1>2, <1>10 DEF IsrRxCrcError, IsrRx, PrepareNextTx, CountTx
  <2> QED
    BY <1>1, <1>4, <1>5, <1>r, <2>1
<1>11. ASSUME NEW ack \in BOOLEAN, NEW done \in BOOLEAN, IsrRxPdu(ack, done) PROVE RatioInv'
  <2>1. /\ UNCHANGED <<connected, encrypted, periphAcks, prepare>> /\ phase = "rx" /\ CountAck(ack, 0)
        /\ currtxPacketCount' = currtxPacketCount + 1
    BY <1>11 DEF IsrRxPdu, IsrRx, PrepareNextTx, CountTx
  <2>2. CASE ack
    <3>1. T' = T /\ exchanged' = TRUE
      <4>1. CountFailures(0) /\ exchanged' = TRUE
        BY <2>1, <2>2 DEF CountAck
      <4>2. T' = T + 0
        BY <1>2, <4>1
      <4> QED
        BY <1>1, <4>1, <4>2
    <3> QED
      BY <1>1, <1>4, <1>5, <1>r, <2>1, <3>1
  <2>3. CASE ~ack
    <3>1. T' = T + 1 /\ exchanged' = exchanged
      <4>1. CountFailures(1 + 0) /\ exchanged' = exchanged
        BY <2>1, <2>3 DEF CountAck
      <4> QED
        BY <1>2, <4>1
    <3> QED
      BY <1>1, <1>4, <1>5, <1>r, <2>1, <3>1
  <2> QED
    BY <2>2, <2>3
<1>12. ASSUME NEW ack \in BOOLEAN, IsrRxMicFailure(ack) PROVE RatioInv'
  <2>1. /\ connected' = FALSE /\ prepare' = NoPrepare /\ phase' = "idle" /\ phase = "rx"
        /\ encrypted /\ CountAck(ack, 1) /\ UNCHANGED <<currtxPacketCount, periphAcks>>
    BY <1>12 DEF IsrRxMicFailure, IsrRx, Close
  <2>2. T' = T + 1 \/ T' = T + 2
    <3>1. CASE ack
      <4>1. CountFailures(1)
        BY <2>1, <3>1 DEF CountAck
      <4> QED
        BY <1>2, <4>1
    <3>2. CASE ~ack
      <4>1. CountFailures(1 + 1)
        BY <2>1, <3>2 DEF CountAck
      <4>2. T' = T + (1 + 1)
        BY <1>2, <4>1
      <4> QED
        BY <1>1, <4>2
    <3> QED
      BY <3>1, <3>2
  <2>3. connected /\ exchanged /\ T + 2 + PeripheralReserve <= currtxPacketCount
    BY <1>1, <1>4, <2>1
  <2> QED
    BY <1>1, <1>5, <1>r, <2>1, <2>2, <2>3
<1>13. CASE RadioAbort
  <2>1. /\ T' = T /\ UNCHANGED <<link, prepare, currtxPacketCount>> /\ phase' = "idle"
    BY <1>3, <1>13 DEF RadioAbort
  <2> QED
    BY <1>1, <1>4, <1>5, <1>r, <2>1
<1>14. CASE PeripheralFirstPacket
  <2>1. /\ UNCHANGED <<connected, encrypted, exchanged, prepare, phase>>
        /\ currtxPacketCount' = currtxPacketCount + 1 /\ CountFailures(1)
        /\ periphAcks = NoPeripheral /\ periphAcks' = 0
    BY <1>14 DEF PeripheralFirstPacket, PeripheralRx, PeripheralReply, CountTx
  <2>2. T' = T + 1
    BY <1>2, <2>1
  <2>3. PeripheralReserve = 0 /\ PeripheralReserve' = 0
    BY <2>1 DEF PeripheralReserve
  <2> QED
    BY <1>1, <1>4, <1>5, <2>1, <2>2, <2>3
<1>15. ASSUME NEW ack \in BOOLEAN, PeripheralPacket(ack) PROVE RatioInv'
  <2>1. /\ UNCHANGED <<connected, encrypted, exchanged, prepare, phase>>
        /\ currtxPacketCount' = currtxPacketCount + 1 /\ periphAcks # NoPeripheral
    BY <1>15 DEF PeripheralPacket, PeripheralRx, PeripheralReply, CountTx
  <2>2. \/ T' = T /\ periphAcks' = MinOf(periphAcks + 1, EncryptionAcks)
        \/ T' = T + 1 /\ periphAcks' = MinOf(periphAcks + 0, EncryptionAcks)
    <3>1. CASE ack
      <4>1. CountFailures(0) /\ periphAcks' = MinOf(periphAcks + 1, EncryptionAcks)
        BY <1>15, <3>1 DEF PeripheralPacket, PeripheralRx
      <4>2. T' = T + 0
        BY <1>2, <4>1
      <4> QED
        BY <1>1, <4>1, <4>2
    <3>2. CASE ~ack
      <4>1. CountFailures(1) /\ periphAcks' = MinOf(periphAcks + 0, EncryptionAcks)
        BY <1>15, <3>2 DEF PeripheralPacket, PeripheralRx
      <4> QED
        BY <1>2, <4>1
    <3> QED
      BY <3>1, <3>2
  <2>3. /\ PeripheralReserve' \in Nat
        /\ T' + PeripheralReserve' <= T + PeripheralReserve + 1
    BY <1>1, <2>1, <2>2 DEF PeripheralReserve, MinOf, NoPeripheral, EncryptionAcks
  <2>4. T' \in Nat
    BY <1>1, <2>2
  <2> DEFINE Other == (IF phase = "idle" THEN 0 ELSE 1) + (IF connected /\ exchanged THEN 1 ELSE 0)
  <2>5. Other \in Nat /\ Other' = Other
    BY <1>1, <2>1
  <2>6. T + Other + PeripheralReserve <= currtxPacketCount
    BY <1>1, <1>4
  <2> HIDE DEF Other
  <2>7. \A t, tn, r, rn, o, x \in Nat :
          t + o + r <= x /\ tn + rn <= t + r + 1 => tn + o + rn <= x + 1
    OBVIOUS
  <2>8. T' + Other' + PeripheralReserve' <= currtxPacketCount'
    BY <1>1, <2>1, <2>3, <2>4, <2>5, <2>6, <2>7
  <2>9. /\ phase' # "idle" \/ prepare' # NoPrepare => connected'
        /\ connected' /\ encrypted' => exchanged'
    BY <1>4, <2>1
  <2>10. T' + (IF phase' = "idle" THEN 0 ELSE 1) + (IF connected' /\ exchanged' THEN 1 ELSE 0)
           + PeripheralReserve' <= currtxPacketCount'
    BY <2>4, <2>8 DEF Other
  <2> QED
    BY <1>5, <2>9, <2>10
<1>16. ASSUME NEW ack \in BOOLEAN, PeripheralMicFailure(ack) PROVE RatioInv'
  <2> DEFINE n == IF ack THEN 1 ELSE 2
  <2>1. /\ UNCHANGED <<connected, encrypted, exchanged, prepare, phase, currtxPacketCount>>
        /\ CountFailures(n) /\ periphAcks >= n /\ periphAcks' = NoPeripheral
    BY <1>1, <1>16 DEF PeripheralMicFailure, PeripheralRx, NoPeripheral, EncryptionAcks
  <2>2. n \in Nat /\ n >= 1
    OBVIOUS
  <2> HIDE DEF n
  <2>3. T' = T + n
    BY <1>2, <2>1, <2>2
  <2>4. PeripheralReserve >= n /\ PeripheralReserve' = 0
    BY <1>1, <2>1, <2>2 DEF PeripheralReserve, NoPeripheral
  <2> QED
    BY <1>1, <1>4, <1>5, <2>1, <2>2, <2>3, <2>4
<1>17. CASE PeripheralDisconnect
  <2>1. /\ T' = T /\ periphAcks' = NoPeripheral
        /\ UNCHANGED <<connected, encrypted, exchanged, prepare, phase, currtxPacketCount>>
    BY <1>3, <1>17 DEF PeripheralDisconnect
  <2>2. PeripheralReserve' = 0
    BY <2>1 DEF PeripheralReserve
  <2> QED
    BY <1>1, <1>4, <1>5, <2>1, <2>2
<1>18. CASE Disconnect
  <2>1. /\ T' = T /\ connected' = FALSE /\ prepare' = NoPrepare /\ phase' = "idle"
        /\ UNCHANGED <<currtxPacketCount, periphAcks>>
    BY <1>3, <1>18 DEF Disconnect, Close
  <2> QED
    BY <1>1, <1>4, <1>5, <1>r, <2>1
<1> QED
  BY <1>6, <1>7, <1>8, <1>9, <1>10, <1>11, <1>12, <1>13, <1>14, <1>15, <1>16, <1>17, <1>18 DEF Next

(* The failures counted over all channels never exceed the packets prepared  *)
(* for transmission: the loss ratio that each classification prints is a     *)
(* ratio, although a packet with a wrong MIC counts as two failures and the  *)
(* counters outlive the connection (isr_rx_pdu, lll_conn_isr_tx 613-621).    *)
THEOREM LossRatioIsOne == Spec => []LossRatioAtMostOne
<1>1. Init => TypeOK /\ RatioInv
  <2> SUFFICES ASSUME Init PROVE TypeOK /\ RatioInv
    OBVIOUS
  <2>1. Total(currfailPacketCount) = 0
    <3>1. currfailPacketCount = [c \in Channel |-> 0]
      BY DEF Init
    <3>2. SumOver(currfailPacketCount, Channel) = 0
      BY <3>1, ChannelAssumption, SumOfZeros
    <3> QED
      BY <3>2, TotalIsSum
  <2>2. /\ connected = FALSE /\ phase = "idle" /\ prepare = NoPrepare /\ currtxPacketCount = 0
        /\ PeripheralReserve = 0
    BY DEF Init, PeripheralReserve
  <2> QED
    BY <2>1, <2>2, TypeInit DEF RatioInv, Live, Backed
<1>2. TypeOK /\ RatioInv /\ [Next]_vars => (TypeOK /\ RatioInv)'
  BY TypeNext, RatioNext
<1>3. TypeOK /\ RatioInv => LossRatioAtMostOne
  <2> SUFFICES ASSUME TypeOK, RatioInv PROVE LossRatioAtMostOne
    OBVIOUS
  <2>1. SumOver(currfailPacketCount, Channel) \in Nat
    BY ChannelAssumption, SumGrows, 0 \in Nat DEF TypeOK
  <2>2. Total(currfailPacketCount) \in Nat
    BY <2>1, TotalIsSum
  <2>3. currtxPacketCount \in Nat
    BY DEF TypeOK
  <2> QED
    BY <2>2, <2>3 DEF RatioInv, Backed, LossRatioAtMostOne, TypeOK, PeripheralReserve, NoPeripheral,
                     EncryptionAcks
<1> QED
  BY <1>1, <1>2, <1>3, PTL DEF Spec
=============================================================================
