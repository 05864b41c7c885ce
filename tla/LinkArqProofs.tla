---------------------------- MODULE LinkArqProofs ----------------------------
(***************************************************************************)
(* Proofs about LinkArq for every payload set and every bound MaxPdus.     *)
(*                                                                         *)
(* The four invariants the run checks are inductive only together.  What   *)
(* is delivered and released is right because, while the link is up, the   *)
(* two sequence bits and the empty flag say exactly how far the receiver   *)
(* is ahead of the sender (InStep), and that in turn is kept because a     *)
(* packet on air still describes its sender (AirMatches): only its         *)
(* receiver acts before it is consumed.                                    *)
(***************************************************************************)
EXTENDS LinkArq, SequenceTheorems, TLAPS

Inv == TypeOK /\ InOrderOnce /\ ReleasedWereDelivered /\ InStepWhileUp

(* One-bit arithmetic: a bit that differs from another becomes it when      *)
(* flipped, and a flipped bit is a different bit.                           *)
LEMMA Bits ==
  ASSUME NEW a \in 0 .. 1, NEW b \in 0 .. 1
  PROVE  /\ Flip(a) \in 0 .. 1
         /\ Flip(a) # a
         /\ a # b <=> Flip(a) = b
  BY DEF Flip

(* The two sides are each other's peer. *)
LEMMA Peers ==
  ASSUME NEW s \in Side
  PROVE  /\ Peer(s) \in Side /\ Peer(s) # s /\ Peer(Peer(s)) = s
         /\ \A t \in Side : t = s \/ t = Peer(s)
         /\ s # NoSide
  BY DEF Side, Peer, Central, Peripheral, NoSide

(* What the packet-forming operators return for a side whose queue is typed: *)
(* an empty PDU exactly when the flag or an exhausted queue asks for one,     *)
(* otherwise the element after the released ones.                            *)
LEMMA PacketFacts ==
  ASSUME DataAssumption, NEW s \in Side, tx \in [Side -> Seq(Data)],
         NEW e \in BOOLEAN, NEW h \in Nat, h <= Len(tx[s])
  PROVE  /\ SendsEmpty(s, e, h) \in BOOLEAN
         /\ MoreData(s, e, h) \in BOOLEAN
         /\ Payload(s, e, h) \in Data \union {Empty}
         /\ Payload(s, e, h) = Empty <=> SendsEmpty(s, e, h)
         /\ ~SendsEmpty(s, e, h) => h < Len(tx[s]) /\ Payload(s, e, h) = tx[s][h + 1]
         /\ e => SendsEmpty(s, e, h)
         /\ ~e /\ h < Len(tx[s]) => ~SendsEmpty(s, e, h)
<1>1. tx[s] \in Seq(Data) /\ Len(tx[s]) \in Nat
  BY LenProperties
<1>2. h # Len(tx[s]) => h + 1 \in 1 .. Len(tx[s]) /\ tx[s][h + 1] \in Data
  BY <1>1, ElementOfSeq
<1>3. SendsEmpty(s, e, h) \in BOOLEAN
  BY Zenon DEF SendsEmpty
<1>4. MoreData(s, e, h) \in BOOLEAN
  <2>1. (h < Len(tx[s])) \in BOOLEAN /\ (h + 1 < Len(tx[s])) \in BOOLEAN
    BY <1>1
  <2> QED
    BY <2>1, Zenon DEF MoreData
<1> QED
  BY <1>1, <1>2, <1>3, <1>4 DEF SendsEmpty, Payload, DataAssumption

(* The initial state satisfies the invariant. *)
LEMMA InitInv == DataAssumption /\ Init => Inv
<1> SUFFICES ASSUME DataAssumption, Init PROVE Inv
  OBVIOUS
<1> USE DEF Init
<1>1. \A s \in Side : tx[s] = <<>> /\ rx[s] = <<>> /\ head[s] = 0 /\ nesn[s] = sn[s]
  OBVIOUS
<1>2. TypeOK
  <2>1. <<>> \in Seq(Data) /\ Len(<<>>) = 0
    BY EmptySeq
  <2>2. sn \in [Side -> 0 .. 1] /\ nesn \in [Side -> 0 .. 1] /\ crc_expire \in [Side -> 0 .. 2]
    OBVIOUS
  <2>3. empty \in [Side -> BOOLEAN] /\ md \in [Side -> BOOLEAN]
    BY Zenon
  <2>4. tx \in [Side -> Seq(Data)] /\ rx \in [Side -> Seq(Data)]
    BY <2>1
  <2>5. head \in [Side -> Nat] /\ \A s \in Side : head[s] <= Len(tx[s])
    BY <1>1, <2>1
  <2> QED
    BY <2>2, <2>3, <2>4, <2>5 DEF TypeOK
<1>3. InOrderOnce /\ ReleasedWereDelivered
  BY <1>1, Peers DEF InOrderOnce, ReleasedWereDelivered
<1>4. InStepWhileUp
  BY <1>1, Peers DEF InStepWhileUp, InStep, AirMatches, Side, NoSide, Central, Peripheral
<1> QED
  BY <1>2, <1>3, <1>4 DEF Inv
-----------------------------------------------------------------------------
(* A reception, before the reply is prepared. *)

(* Taking the acknowledgment of a packet on air brings the sender level with *)
(* its peer: the bits agree and exactly what was delivered is released.      *)
LEMMA AckLevels ==
  ASSUME Inv, NEW s \in Side, Receiving(s)
  PROVE  /\ SnAfter(s, air) = nesn[Peer(s)]
         /\ HeadAfter(s, air) = Len(rx[Peer(s)])
         /\ HeadAfter(s, air) = head[s] \/ HeadAfter(s, air) = head[s] + 1
         /\ HeadAfter(s, air) <= Len(tx[s])
         /\ EmptyAfter(s, air) \in BOOLEAN
<1> DEFINE r == Peer(s)
<1>1. r \in Side /\ r # s /\ Peer(r) = s
  BY Peers
<1>2. /\ sn[s] \in 0 .. 1 /\ nesn[r] \in 0 .. 1 /\ empty[s] \in BOOLEAN
      /\ head[s] \in Nat /\ head[s] <= Len(tx[s])
      /\ tx[s] \in Seq(Data) /\ rx[r] \in Seq(Data)
  BY <1>1 DEF Inv, TypeOK
<1>3. Len(tx[s]) \in Nat /\ Len(rx[r]) \in Nat
  BY <1>2, LenProperties
<1>4. InStep(s) /\ air.nesn = nesn[r]
  BY <1>1 DEF Inv, InStepWhileUp, AirMatches, Receiving
<1>5. CASE nesn[r] = sn[s]
  BY <1>2, <1>3, <1>4, <1>5 DEF InStep, SnAfter, HeadAfter, EmptyAfter, Acks
<1>6. CASE nesn[r] # sn[s]
  <2>1. Flip(sn[s]) = nesn[r]
    BY <1>2, <1>6, Bits
  <2> QED
    BY <1>2, <1>3, <1>4, <1>6, <2>1 DEF InStep, SnAfter, HeadAfter, EmptyAfter, Acks
<1> QED
  BY <1>5, <1>6

(* What a reception delivers is nothing or the sender's next element, and    *)
(* afterwards the sender r is still in step with the receiver.               *)
LEMMA Delivery ==
  ASSUME DataAssumption, Inv, NEW s \in Side, NEW room \in BOOLEAN, Receiving(s),
         NEW r, r = Peer(s)
  PROVE  /\ NesnAfter(s, air, room) \in 0 .. 1
         /\ \/ RxAfter(s, air, room) = rx[s]
            \/ /\ Len(rx[s]) < Len(tx[r])
               /\ RxAfter(s, air, room) = Append(rx[s], tx[r][Len(rx[s]) + 1])
         /\ NesnAfter(s, air, room) = sn[r] => Len(RxAfter(s, air, room)) = head[r]
         /\ NesnAfter(s, air, room) # sn[r] =>
              IF empty[r] THEN Len(RxAfter(s, air, room)) = head[r]
              ELSE Len(RxAfter(s, air, room)) = head[r] + 1 /\ head[r] < Len(tx[r])
<1>1. r \in Side /\ r # s /\ Peer(r) = s
  BY Peers
<1>2. /\ nesn[s] \in 0 .. 1 /\ sn[r] \in 0 .. 1 /\ empty[r] \in BOOLEAN
      /\ head[r] \in Nat /\ tx[r] \in Seq(Data) /\ rx[s] \in Seq(Data)
  BY <1>1 DEF Inv, TypeOK
<1>3. Len(tx[r]) \in Nat /\ Len(rx[s]) \in Nat
  BY <1>2, LenProperties
<1>4. /\ air.sn = sn[r]
      /\ air.pdu = Empty <=> empty[r]
      /\ air.pdu # Empty => head[r] < Len(tx[r]) /\ air.pdu = tx[r][head[r] + 1]
      /\ InStep(r)
  BY <1>1 DEF Inv, InStepWhileUp, AirMatches, Receiving
<1>5. CASE ~Accepts(s, air, room)
  BY <1>1, <1>2, <1>4, <1>5 DEF NesnAfter, RxAfter, InStep
<1>6. CASE Accepts(s, air, room)
  <2>1. nesn[s] = sn[r] /\ Len(rx[s]) = head[r]
    BY <1>1, <1>4, <1>6 DEF Accepts, InStep
  <2>2. NesnAfter(s, air, room) \in 0 .. 1 /\ NesnAfter(s, air, room) # sn[r]
    BY <1>2, <1>6, <2>1, Bits DEF NesnAfter
  <2>3. CASE air.pdu = Empty
    BY <1>4, <2>1, <2>2, <2>3 DEF RxAfter
  <2>4. CASE air.pdu # Empty
    <3>1. RxAfter(s, air, room) = Append(rx[s], tx[r][Len(rx[s]) + 1])
      BY <1>4, <1>6, <2>1, <2>4 DEF RxAfter
    <3>2. tx[r][head[r] + 1] \in Data
      BY <1>2, <1>3, <1>4, <2>4, ElementOfSeq
    <3>3. Len(RxAfter(s, air, room)) = head[r] + 1
      BY <1>2, <2>1, <3>1, <3>2, AppendProperties
    <3> QED
      BY <1>4, <2>1, <2>2, <2>4, <3>1, <3>3
  <2> QED
    BY <2>3, <2>4
<1> QED
  BY <1>5, <1>6

(* A reply is a well-formed packet that describes the state its sender is    *)
(* left in.  n and x are the sequence numbers it is sent with, h what has    *)
(* been released.                                                            *)
LEMMA ReplyFacts ==
  ASSUME DataAssumption, TypeOK, NEW s \in Side, NEW e \in BOOLEAN, NEW h \in Nat,
         h <= Len(tx[s]), NEW n \in 0 .. 1, NEW x \in 0 .. 1, NEW done \in BOOLEAN,
         Reply(s, e, h, n, x, done), tx' = tx,
         sn'[s] = n, nesn'[s] = x, head'[s] = h
  PROVE  /\ md' \in [Side -> BOOLEAN] /\ empty' \in [Side -> BOOLEAN]
         /\ air' \in Packet \union {NoPacket} /\ turn' \in Side \union {NoSide}
         /\ listening' \in BOOLEAN
         /\ AirMatches'
         /\ empty'[Peer(s)] = empty[Peer(s)]
         /\ empty'[s] = e \/ empty'[s] = SendsEmpty(s, e, h)
<1>1. Peer(s) \in Side /\ Peer(s) # s /\ Peer(Peer(s)) = s /\ s # NoSide
  BY Peers
<1>2. tx \in [Side -> Seq(Data)] /\ empty \in [Side -> BOOLEAN] /\ md \in [Side -> BOOLEAN]
      /\ listening \in BOOLEAN
  BY DEF TypeOK
<1>3. /\ SendsEmpty(s, e, h) \in BOOLEAN /\ MoreData(s, e, h) \in BOOLEAN
      /\ Payload(s, e, h) \in Data \union {Empty}
      /\ Payload(s, e, h) = Empty <=> SendsEmpty(s, e, h)
      /\ ~SendsEmpty(s, e, h) => h < Len(tx[s]) /\ Payload(s, e, h) = tx[s][h + 1]
  BY <1>2, PacketFacts
<1>4. md' \in [Side -> BOOLEAN]
  BY <1>2, <1>3, Zenon DEF Reply
<1>5. CASE s = Central /\ done
  <2>1. empty' = [empty EXCEPT ![s] = e] /\ air' = NoPacket /\ turn' = NoSide /\ listening' = FALSE
    BY <1>5 DEF Reply
  <2>2. AirMatches'
    BY <2>1 DEF AirMatches
  <2>3. empty' \in [Side -> BOOLEAN]
    BY <1>2, <2>1, Zenon
  <2> QED
    BY <1>1, <1>2, <1>4, <2>1, <2>2, <2>3
<1>6. CASE ~(s = Central /\ done)
  <2>1. /\ empty' = [empty EXCEPT ![s] = SendsEmpty(s, e, h)]
        /\ air' = [sn |-> n, nesn |-> x, md |-> MoreData(s, e, h), pdu |-> Payload(s, e, h)]
        /\ turn' = Peer(s)
        /\ listening' = (listening /\ ~(s = Peripheral /\ done))
    BY <1>6 DEF Reply
  <2>2. empty' \in [Side -> BOOLEAN] /\ listening' \in BOOLEAN
    BY <1>2, <1>3, <2>1, Zenon
  <2>3. air' \in Packet
    BY <1>3, <2>1 DEF Packet
  <2>4. empty'[s] = SendsEmpty(s, e, h) /\ empty'[Peer(s)] = empty[Peer(s)]
    BY <1>1, <1>2, <2>1
  <2>5. AirMatches'
    <3>1. Peer(turn') = s
      BY <1>1, <2>1
    <3>2. air'.sn = n /\ air'.nesn = x /\ air'.pdu = Payload(s, e, h)
      BY <2>1
    <3> QED
      BY <1>3, <2>4, <3>1, <3>2 DEF AirMatches
  <2> QED
    BY <1>1, <1>4, <2>1, <2>2, <2>3, <2>4, <2>5
<1> QED
  BY <1>5, <1>6
-----------------------------------------------------------------------------
(* The invariant, action by action. *)

(* Appending to a transmit queue disturbs neither side. *)
LEMMA EnqueueInv ==
  ASSUME DataAssumption, Inv, NEW s \in Side, NEW d \in Data, Enqueue(s, d)
  PROVE  Inv'
<1> USE DEF Enqueue, numbers, radio
<1>1. tx[s] \in Seq(Data) /\ tx \in [Side -> Seq(Data)]
  BY DEF Inv, TypeOK
<1>2. /\ \A t \in Side : tx'[t] \in Seq(Data) /\ Len(tx[t]) \in Nat /\ Len(tx'[t]) >= Len(tx[t])
      /\ \A t \in Side : \A i \in 1 .. Len(tx[t]) : tx'[t][i] = tx[t][i]
  <2> SUFFICES ASSUME NEW t \in Side
               PROVE  /\ tx'[t] \in Seq(Data) /\ Len(tx[t]) \in Nat /\ Len(tx'[t]) >= Len(tx[t])
                      /\ \A i \in 1 .. Len(tx[t]) : tx'[t][i] = tx[t][i]
    OBVIOUS
  <2>1. Len(tx[t]) \in Nat /\ tx[t] \in Seq(Data)
    BY <1>1, LenProperties
  <2>2. CASE t = s
    BY <1>1, <2>1, <2>2, AppendProperties
  <2>3. CASE t # s
    BY <1>1, <2>1, <2>3
  <2> QED
    BY <2>2, <2>3
<1>3. TypeOK'
  <2>1. tx' \in [Side -> Seq(Data)]
    BY <1>1, <1>2
  <2>2. \A t \in Side : head'[t] <= Len(tx'[t])
    <3> SUFFICES ASSUME NEW t \in Side PROVE head'[t] <= Len(tx'[t])
      OBVIOUS
    <3>1. head[t] \in Nat /\ head[t] <= Len(tx[t]) /\ head' = head
      BY DEF Inv, TypeOK
    <3>2. Len(tx'[t]) \in Nat
      BY <1>2, LenProperties
    <3> QED
      BY <1>2, <3>1, <3>2
  <2> QED
    BY <2>1, <2>2 DEF Inv, TypeOK
<1>4. InOrderOnce'
  <2> SUFFICES ASSUME NEW t \in Side
               PROVE  /\ Len(rx'[Peer(t)]) <= Len(tx'[t])
                      /\ \A i \in 1 .. Len(rx'[Peer(t)]) : rx'[Peer(t)][i] = tx'[t][i]
    BY DEF InOrderOnce
  <2>1. rx[Peer(t)] \in Seq(Data) /\ rx' = rx
    BY Peers DEF Inv, TypeOK
  <2>2. Len(rx[Peer(t)]) \in Nat /\ Len(tx'[t]) \in Nat
    BY <1>2, <2>1, LenProperties
  <2>3. /\ Len(rx[Peer(t)]) <= Len(tx[t])
        /\ \A i \in 1 .. Len(rx[Peer(t)]) : rx[Peer(t)][i] = tx[t][i]
    BY DEF Inv, InOrderOnce
  <2> QED
    BY <1>2, <2>1, <2>2, <2>3
<1>5. ReleasedWereDelivered'
  BY DEF Inv, ReleasedWereDelivered
<1>6. InStepWhileUp'
  <2>1. /\ up' = up /\ sn' = sn /\ nesn' = nesn /\ empty' = empty /\ head' = head /\ rx' = rx
        /\ air' = air /\ turn' = turn
    OBVIOUS
  <2>2. up /\ AirMatches /\ \A t \in Side : InStep(t)
    BY DEF Inv, InStepWhileUp
  <2>3. \A t \in Side : head[t] \in Nat /\ Len(tx'[t]) \in Nat
    BY <1>2, LenProperties DEF Inv, TypeOK
  <2>4. \A t \in Side : head[t] < Len(tx[t]) =>
          head[t] < Len(tx'[t]) /\ tx'[t][head[t] + 1] = tx[t][head[t] + 1]
    BY <1>2, <2>3
  <2>5. AirMatches'
    BY <2>1, <2>2, <2>4, Peers DEF AirMatches
  <2>6. \A t \in Side : InStep(t)'
    BY <2>1, <2>2, <2>4 DEF InStep
  <2> QED
    BY <2>5, <2>6 DEF InStepWhileUp
<1> QED
  BY <1>3, <1>4, <1>5, <1>6 DEF Inv

(* An anchor point: both sides may set their empty flag, which changes        *)
(* nothing for a side that has something to be acknowledged.                  *)
LEMMA ConnEventInv ==
  ASSUME DataAssumption, Inv, NEW attends \in BOOLEAN, ConnEvent(attends)
  PROVE  Inv'
<1> USE DEF ConnEvent, numbers, queues
<1>1. Central \in Side /\ Peripheral \in Side /\ Central # Peripheral
      /\ Peer(Central) = Peripheral /\ Peer(Peripheral) = Central
  BY DEF Side, Central, Peripheral, Peer
<1>2. TypeOK
  BY DEF Inv
<1>3. \A t \in Side : empty[t] \in BOOLEAN /\ head[t] \in Nat /\ head[t] <= Len(tx[t])
  BY <1>2 DEF TypeOK
<1>4. \A t \in Side :
        LET e == empty[t] h == head[t] IN
        /\ SendsEmpty(t, e, h) \in BOOLEAN /\ MoreData(t, e, h) \in BOOLEAN
        /\ Payload(t, e, h) \in Data \union {Empty}
        /\ Payload(t, e, h) = Empty <=> SendsEmpty(t, e, h)
        /\ ~SendsEmpty(t, e, h) => h < Len(tx[t]) /\ Payload(t, e, h) = tx[t][h + 1]
        /\ e => SendsEmpty(t, e, h)
        /\ ~e /\ h < Len(tx[t]) => ~SendsEmpty(t, e, h)
  <2>1. tx \in [Side -> Seq(Data)]
    BY <1>2 DEF TypeOK
  <2> QED
    BY <1>3, <2>1, PacketFacts
<1> DEFINE ce == SendsEmpty(Central, empty[Central], head[Central])
           pe == IF attends THEN SendsEmpty(Peripheral, empty[Peripheral], head[Peripheral])
                            ELSE empty[Peripheral]
<1>5. empty' = [empty EXCEPT ![Central] = ce, ![Peripheral] = pe]
  OBVIOUS
<1>6. ce \in BOOLEAN /\ pe \in BOOLEAN
  BY <1>1, <1>3, <1>4
<1>7. empty' \in [Side -> BOOLEAN] /\ empty'[Central] = ce /\ empty'[Peripheral] = pe
  <2> HIDE DEF ce, pe
  <2> QED
    BY <1>1, <1>2, <1>5, <1>6, Zenon DEF TypeOK
<1>8. TypeOK'
  <2>1. air' \in Packet
    BY <1>1, <1>2, <1>4 DEF TypeOK, Packet
  <2>2. md' \in [Side -> BOOLEAN]
    BY <1>1, <1>2, <1>4, Zenon DEF TypeOK
  <2>3. crc_expire' \in [Side -> 0 .. 2]
    BY <1>2 DEF TypeOK
  <2> QED
    BY <1>1, <1>2, <1>7, <2>1, <2>2, <2>3 DEF TypeOK
<1>9. InOrderOnce' /\ ReleasedWereDelivered'
  BY DEF Inv, InOrderOnce, ReleasedWereDelivered
<1>10. InStepWhileUp'
  <2>1. AirMatches'
    <3>1. Peer(turn') = Central
      BY <1>1
    <3>2. air'.sn = sn[Central] /\ air'.nesn = nesn[Central]
          /\ air'.pdu = Payload(Central, empty[Central], head[Central])
      OBVIOUS
    <3> QED
      BY <1>1, <1>4, <1>7, <3>1, <3>2 DEF AirMatches
  <2>2. \A t \in Side : InStep(t)'
    <3> SUFFICES ASSUME NEW t \in Side PROVE InStep(t)'
      OBVIOUS
    <3>1. InStep(t)
      BY DEF Inv, InStepWhileUp
    <3>2. empty'[t] = empty[t] \/ empty'[t] = SendsEmpty(t, empty[t], head[t])
      BY <1>1, <1>7 DEF Side
    <3>3. empty[t] => empty'[t]
      BY <1>3, <1>4, <3>2
    <3>4. ~empty[t] /\ head[t] < Len(tx[t]) => ~empty'[t]
      BY <1>3, <1>4, <3>2
    <3> QED
      BY <3>1, <3>3, <3>4 DEF InStep
  <2> QED
    BY <2>1, <2>2 DEF InStepWhileUp
<1> QED
  BY <1>8, <1>9, <1>10 DEF Inv

(* A silent event changes nothing the invariant is about. *)
LEMMA RxNoneInv ==
  ASSUME Inv, NEW s \in Side, RxNone(s)
  PROVE  Inv'
<1> USE DEF RxNone, numbers, queues
<1>1. TypeOK'
  BY DEF Inv, TypeOK, Side
<1>2. InOrderOnce' /\ ReleasedWereDelivered'
  BY DEF Inv, InOrderOnce, ReleasedWereDelivered
<1>3. InStepWhileUp'
  BY DEF Inv, InStepWhileUp, InStep, AirMatches
<1> QED
  BY <1>1, <1>2, <1>3 DEF Inv

(* A CRC error repeats the packet: the flag stays what it was for a side that *)
(* has something to be acknowledged.                                          *)
LEMMA RxCrcErrorInv ==
  ASSUME DataAssumption, Inv, NEW s \in Side, RxCrcError(s)
  PROVE  Inv'
<1> USE DEF RxCrcError, numbers, queues
<1> DEFINE done == crc_expire'[s] = 0
<1>1. TypeOK
  BY DEF Inv
<1>2. /\ tx \in [Side -> Seq(Data)] /\ sn[s] \in 0 .. 1 /\ nesn[s] \in 0 .. 1
      /\ empty[s] \in BOOLEAN /\ head[s] \in Nat /\ head[s] <= Len(tx[s])
  BY <1>1 DEF TypeOK
<1>3. /\ md' \in [Side -> BOOLEAN] /\ empty' \in [Side -> BOOLEAN]
      /\ air' \in Packet \union {NoPacket} /\ turn' \in Side \union {NoSide}
      /\ listening' \in BOOLEAN /\ AirMatches'
      /\ empty'[Peer(s)] = empty[Peer(s)]
      /\ empty'[s] = empty[s] \/ empty'[s] = SendsEmpty(s, empty[s], head[s])
  <2>1. done \in BOOLEAN
    OBVIOUS
  <2> HIDE DEF done
  <2>2. Reply(s, empty[s], head[s], sn[s], nesn[s], done)
    BY DEF done
  <2>3. tx' = tx /\ sn'[s] = sn[s] /\ nesn'[s] = nesn[s] /\ head'[s] = head[s]
    OBVIOUS
  <2> QED
    BY <1>1, <1>2, <2>1, <2>2, <2>3, ReplyFacts
<1>4. TypeOK'
  <2>1. crc_expire' \in [Side -> 0 .. 2]
    BY <1>1 DEF TypeOK
  <2> QED
    BY <1>1, <1>3, <2>1 DEF TypeOK
<1>5. InOrderOnce' /\ ReleasedWereDelivered'
  BY DEF Inv, InOrderOnce, ReleasedWereDelivered
<1>6. ASSUME NEW t \in Side PROVE InStep(t)'
  <2>1. InStep(t)
    BY DEF Inv, InStepWhileUp, Receiving
  <2>2. CASE t = s
    <3>1. empty[s] => empty'[s]
      BY <1>2, <1>3, PacketFacts
    <3>2. ~empty[s] /\ head[s] < Len(tx[s]) => ~empty'[s]
      BY <1>2, <1>3, PacketFacts
    <3> QED
      BY <2>1, <2>2, <3>1, <3>2 DEF InStep
  <2>3. CASE t = Peer(s)
    BY <1>3, <2>1, <2>3 DEF InStep
  <2> QED
    BY <2>2, <2>3, Peers
<1> QED
  BY <1>3, <1>4, <1>5, <1>6 DEF Inv, InStepWhileUp
(* A delivery keeps what has arrived at s a prefix of what its peer queued. *)
LEMMA PrefixKept ==
  ASSUME NEW q \in Seq(Data), NEW u \in Seq(Data), NEW v,
         Len(q) <= Len(u), \A i \in 1 .. Len(q) : q[i] = u[i],
         v = q \/ (Len(q) < Len(u) /\ v = Append(q, u[Len(q) + 1]))
  PROVE  /\ v \in Seq(Data) /\ Len(v) >= Len(q)
         /\ Len(v) <= Len(u) /\ \A i \in 1 .. Len(v) : v[i] = u[i]
<1>1. Len(q) \in Nat /\ Len(u) \in Nat
  BY LenProperties
<1>2. CASE v = q
  BY <1>1, <1>2
<1>3. CASE Len(q) < Len(u) /\ v = Append(q, u[Len(q) + 1])
  <2>1. u[Len(q) + 1] \in Data
    BY <1>1, <1>3, ElementOfSeq
  <2>2. /\ v \in Seq(Data) /\ Len(v) = Len(q) + 1
        /\ \A i \in 1 .. Len(q) : v[i] = q[i]
        /\ v[Len(q) + 1] = u[Len(q) + 1]
    BY <1>3, <2>1, AppendProperties
  <2> QED
    BY <1>1, <1>3, <2>2
<1> QED
  BY <1>2, <1>3

(* The safety part of the invariant after a reception at s that delivers or   *)
(* not and that releases what has been delivered to its peer r.               *)
LEMMA SafeAfterReception ==
  ASSUME Inv, NEW s \in Side, NEW r \in Side, r = Peer(s), NEW h, NEW v,
         h = Len(rx[r]) \/ h = head[s],
         tx' = tx, head' = [head EXCEPT ![s] = h], rx' = [rx EXCEPT ![s] = v],
         v = rx[s] \/ (Len(rx[s]) < Len(tx[r]) /\ v = Append(rx[s], tx[r][Len(rx[s]) + 1])),
         Len(v) <= head[r] + 1
  PROVE  /\ rx' \in [Side -> Seq(Data)]
         /\ InOrderOnce' /\ ReleasedWereDelivered'
<1>1. r # s /\ Peer(r) = s /\ \A t \in Side : t = s \/ t = r
  BY Peers
<1>2. /\ rx \in [Side -> Seq(Data)] /\ rx[s] \in Seq(Data) /\ rx[r] \in Seq(Data)
      /\ tx[r] \in Seq(Data) /\ head \in [Side -> Nat]
  BY DEF Inv, TypeOK
<1>3. /\ Len(rx[s]) <= Len(tx[r]) /\ \A i \in 1 .. Len(rx[s]) : rx[s][i] = tx[r][i]
      /\ Len(rx[r]) <= Len(tx[s]) /\ \A i \in 1 .. Len(rx[r]) : rx[r][i] = tx[s][i]
  BY <1>1 DEF Inv, InOrderOnce
<1>4. /\ v \in Seq(Data) /\ Len(v) >= Len(rx[s])
      /\ Len(v) <= Len(tx[r]) /\ \A i \in 1 .. Len(v) : v[i] = tx[r][i]
  <2> DEFINE q == rx[s]
             u == tx[r]
  <2>1. /\ q \in Seq(Data) /\ u \in Seq(Data)
        /\ Len(q) <= Len(u) /\ \A i \in 1 .. Len(q) : q[i] = u[i]
        /\ v = q \/ (Len(q) < Len(u) /\ v = Append(q, u[Len(q) + 1]))
    BY <1>2, <1>3
  <2> HIDE DEF q, u
  <2>2. /\ v \in Seq(Data) /\ Len(v) >= Len(q)
        /\ Len(v) <= Len(u) /\ \A i \in 1 .. Len(v) : v[i] = u[i]
    BY <2>1, PrefixKept
  <2> QED
    BY <2>2 DEF q, u
<1>5. rx'[s] = v /\ rx'[r] = rx[r] /\ head'[s] = h /\ head'[r] = head[r] /\ tx' = tx
  BY <1>1, <1>2
<1>6. /\ head[s] <= Len(rx[r]) /\ Len(rx[r]) <= head[s] + 1
      /\ head[r] <= Len(rx[s]) /\ Len(rx[s]) <= head[r] + 1
  BY <1>1 DEF Inv, ReleasedWereDelivered
<1>7. rx' \in [Side -> Seq(Data)]
  BY <1>2, <1>4
<1>8. InOrderOnce'
  <2> SUFFICES ASSUME NEW t \in Side
               PROVE  /\ Len(rx'[Peer(t)]) <= Len(tx'[t])
                      /\ \A i \in 1 .. Len(rx'[Peer(t)]) : rx'[Peer(t)][i] = tx'[t][i]
    BY DEF InOrderOnce
  <2>1. CASE t = s
    BY <1>3, <1>5, <2>1
  <2>2. CASE t = r
    BY <1>1, <1>4, <1>5, <2>2
  <2> QED
    BY <1>1, <2>1, <2>2
<1>9. ReleasedWereDelivered'
  <2> SUFFICES ASSUME NEW t \in Side
               PROVE  head'[t] <= Len(rx'[Peer(t)]) /\ Len(rx'[Peer(t)]) <= head'[t] + 1
    BY DEF ReleasedWereDelivered
  <2>1. CASE t = s
    <3>1. head[s] \in Nat /\ Len(rx[r]) \in Nat
      BY <1>2, LenProperties
    <3> QED
      BY <1>5, <1>6, <2>1, <3>1
  <2>2. CASE t = r
    <3>1. head[r] \in Nat /\ Len(v) \in Nat /\ Len(rx[s]) \in Nat
      BY <1>2, <1>4, LenProperties
    <3> QED
      BY <1>1, <1>4, <1>5, <1>6, <2>2, <3>1
  <2> QED
    BY <1>1, <2>1, <2>2
<1> QED
  BY <1>7, <1>8, <1>9

(* A valid packet: the receiver s is level with its peer, the peer stays in   *)
(* step with s, and the reply describes s.                                    *)
LEMMA RxPduInv ==
  ASSUME DataAssumption, Inv, NEW s \in Side, NEW room \in BOOLEAN, RxPdu(s, room)
  PROVE  Inv'
<1> DEFINE r == Peer(s)
           n == SnAfter(s, air)
           x == NesnAfter(s, air, room)
           e == EmptyAfter(s, air)
           h == HeadAfter(s, air)
           v == RxAfter(s, air, room)
           quiet == ~air.md /\ ~MoreData(s, e, h) /\ SendsEmpty(s, e, h)
           done == AckEndsEvent(s, air) \/ quiet
<1>1. r \in Side /\ r # s /\ Peer(r) = s /\ \A t \in Side : t = s \/ t = r
  BY Peers
<1>2. /\ Receiving(s) /\ tx' = tx /\ up' = up
      /\ sn' = [sn EXCEPT ![s] = n] /\ head' = [head EXCEPT ![s] = h]
      /\ nesn' = [nesn EXCEPT ![s] = x] /\ rx' = [rx EXCEPT ![s] = v]
      /\ crc_expire' = [crc_expire EXCEPT ![s] = 0]
      /\ Reply(s, e, h, n, x, done)
  BY DEF RxPdu, TakeAck
<1>3. /\ n = nesn[r] /\ h = Len(rx[r]) /\ h <= Len(tx[s]) /\ e \in BOOLEAN
  BY <1>2, AckLevels
<1>4. /\ x \in 0 .. 1
      /\ v = rx[s] \/ (Len(rx[s]) < Len(tx[r]) /\ v = Append(rx[s], tx[r][Len(rx[s]) + 1]))
      /\ x = sn[r] => Len(v) = head[r]
      /\ x # sn[r] => IF empty[r] THEN Len(v) = head[r]
                                  ELSE Len(v) = head[r] + 1 /\ head[r] < Len(tx[r])
  BY <1>2, Delivery
<1>5. done \in BOOLEAN
  BY Zenon
<1> HIDE DEF n, x, e, h, v, done
<1>6. TypeOK
  BY DEF Inv
<1>7. n \in 0 .. 1 /\ h \in Nat
  <2>1. rx[r] \in Seq(Data) /\ nesn[r] \in 0 .. 1
    BY <1>1, <1>6 DEF TypeOK
  <2> QED
    BY <1>3, <2>1, LenProperties
<1>8. /\ sn'[s] = n /\ nesn'[s] = x /\ head'[s] = h
      /\ sn'[r] = sn[r] /\ nesn'[r] = nesn[r] /\ head'[r] = head[r]
      /\ rx'[s] = v /\ rx'[r] = rx[r]
  BY <1>1, <1>2, <1>6 DEF TypeOK
<1>9. /\ md' \in [Side -> BOOLEAN] /\ empty' \in [Side -> BOOLEAN]
      /\ air' \in Packet \union {NoPacket} /\ turn' \in Side \union {NoSide}
      /\ listening' \in BOOLEAN /\ AirMatches'
      /\ empty'[r] = empty[r]
  BY <1>2, <1>3, <1>4, <1>5, <1>6, <1>7, <1>8, ReplyFacts
<1>10. rx' \in [Side -> Seq(Data)] /\ InOrderOnce' /\ ReleasedWereDelivered'
  <2>1. Len(v) <= head[r] + 1
    BY <1>1, <1>4, <1>6 DEF TypeOK
  <2> QED
    BY <1>1, <1>2, <1>3, <1>4, <2>1, SafeAfterReception
<1>11. TypeOK'
  <2>1. /\ sn' \in [Side -> 0 .. 1] /\ nesn' \in [Side -> 0 .. 1]
        /\ crc_expire' \in [Side -> 0 .. 2] /\ head' \in [Side -> Nat]
    BY <1>2, <1>4, <1>6, <1>7 DEF TypeOK
  <2>2. \A t \in Side : head'[t] <= Len(tx'[t])
    BY <1>1, <1>2, <1>3, <1>6, <1>8 DEF TypeOK
  <2> QED
    BY <1>2, <1>6, <1>9, <1>10, <2>1, <2>2 DEF TypeOK
<1>12. InStep(s)'
  BY <1>3, <1>8 DEF InStep
<1>13. InStep(r)'
  BY <1>1, <1>2, <1>4, <1>8, <1>9 DEF InStep
<1> QED
  BY <1>1, <1>9, <1>10, <1>11, <1>12, <1>13 DEF Inv, InStepWhileUp

(* A MIC failure closes the link: from then on only the safety part holds. *)
LEMMA RxMicFailureInv ==
  ASSUME DataAssumption, Inv, NEW s \in Side, RxMicFailure(s)
  PROVE  Inv'
<1> DEFINE r == Peer(s)
           h == HeadAfter(s, air)
<1>1. r \in Side /\ r # s /\ \A t \in Side : t = s \/ t = r
  BY Peers
<1>2. /\ Receiving(s) /\ tx' = tx /\ rx' = rx /\ md' = md /\ crc_expire' = crc_expire
      /\ sn' = [sn EXCEPT ![s] = SnAfter(s, air)] /\ head' = [head EXCEPT ![s] = h]
      /\ nesn' = [nesn EXCEPT ![s] = NesnAfter(s, air, TRUE)]
      /\ empty' = [empty EXCEPT ![s] = EmptyAfter(s, air)]
      /\ up' = FALSE /\ air' = NoPacket /\ turn' = NoSide /\ listening' = FALSE
  BY DEF RxMicFailure, TakeAck
<1>3. /\ SnAfter(s, air) = nesn[r] /\ h = Len(rx[r]) /\ h <= Len(tx[s])
      /\ EmptyAfter(s, air) \in BOOLEAN
  BY <1>2, AckLevels
<1>4. NesnAfter(s, air, TRUE) \in 0 .. 1
  BY <1>2, Delivery
<1> HIDE DEF h
<1>5. TypeOK
  BY DEF Inv
<1>6. rx' = [rx EXCEPT ![s] = rx[s]] /\ Len(rx[s]) <= head[r] + 1
  BY <1>1, <1>2, <1>5, Peers DEF TypeOK, Inv, ReleasedWereDelivered
<1>7. rx' \in [Side -> Seq(Data)] /\ InOrderOnce' /\ ReleasedWereDelivered'
  BY <1>1, <1>2, <1>3, <1>6, SafeAfterReception
<1>8. TypeOK'
  <2>1. /\ sn' \in [Side -> 0 .. 1] /\ nesn' \in [Side -> 0 .. 1]
    BY <1>1, <1>2, <1>3, <1>4, <1>5 DEF TypeOK
  <2>2. head' \in [Side -> Nat]
    <3>1. h \in Nat
      BY <1>1, <1>3, <1>5, LenProperties DEF TypeOK
    <3> QED
      BY <1>2, <1>5, <3>1 DEF TypeOK
  <2>3. \A t \in Side : head'[t] <= Len(tx'[t])
    BY <1>1, <1>2, <1>3, <1>5 DEF TypeOK
  <2>4. empty' \in [Side -> BOOLEAN]
    BY <1>2, <1>3, <1>5, Zenon DEF TypeOK
  <2> QED
    BY <1>2, <1>5, <1>7, <2>1, <2>2, <2>3, <2>4 DEF TypeOK
<1> QED
  BY <1>2, <1>7, <1>8 DEF Inv, InStepWhileUp

(* Every step of the specification keeps the invariant. *)
LEMMA NextInv == DataAssumption /\ Inv /\ [Next]_vars => Inv'
<1> SUFFICES ASSUME DataAssumption, Inv, [Next]_vars PROVE Inv'
  OBVIOUS
<1>1. ASSUME NEW s \in Side, NEW d \in Data, Enqueue(s, d) PROVE Inv'
  BY <1>1, EnqueueInv
<1>2. ASSUME NEW attends \in BOOLEAN, ConnEvent(attends) PROVE Inv'
  BY <1>2, ConnEventInv
<1>3. ASSUME NEW s \in Side, RxNone(s) PROVE Inv'
  BY <1>3, RxNoneInv
<1>4. ASSUME NEW s \in Side, RxCrcError(s) PROVE Inv'
  BY <1>4, RxCrcErrorInv
<1>5. ASSUME NEW s \in Side, RxMicFailure(s) PROVE Inv'
  BY <1>5, RxMicFailureInv
<1>6. ASSUME NEW s \in Side, NEW room \in BOOLEAN, RxPdu(s, room) PROVE Inv'
  BY <1>6, RxPduInv
<1>7. CASE UNCHANGED vars
  BY <1>7 DEF vars, numbers, queues, radio, Inv, TypeOK, InOrderOnce, ReleasedWereDelivered,
              InStepWhileUp, InStep, AirMatches
<1> QED
  BY <1>1, <1>2, <1>3, <1>4, <1>5, <1>6, <1>7 DEF Next, Radio

(* The four invariants hold together in every reachable state. *)
THEOREM Invariance == Spec => []Inv
<1>1. Init => Inv
  BY InitInv, DataAssumption
<1>2. Inv /\ [Next]_vars => Inv'
  BY NextInv, DataAssumption
<1> QED
  BY <1>1, <1>2, PTL DEF Spec

(* Every variable keeps its type, for any payloads and any length of queue.   *)
THEOREM TypeCorrect == Spec => []TypeOK
<1>1. Inv => TypeOK
  BY DEF Inv
<1> QED
  BY <1>1, Invariance, PTL

(* Each side's ULL receives what the other queued, once and in order, over    *)
(* lost packets, CRC errors, full receive pools and skipped events            *)
(* (isr_rx_pdu, lll_conn_pdu_tx_prep).                                        *)
THEOREM DeliveredInOrderOnce == Spec => []InOrderOnce
<1>1. Inv => InOrderOnce
  BY DEF Inv
<1> QED
  BY <1>1, Invariance, PTL

(* A node is reported acknowledged only after its delivery, and at most one   *)
(* delivered node is not yet reported (isr_rx_pdu's tx_release).              *)
THEOREM ReleaseIsJustified == Spec => []ReleasedWereDelivered
<1>1. Inv => ReleasedWereDelivered
  BY DEF Inv
<1> QED
  BY <1>1, Invariance, PTL

(* While the link is up the sequence bits and the empty flag tell exactly     *)
(* whether the last packet has arrived, and the packet on air describes its   *)
(* sender.                                                                    *)
THEOREM SidesInStep == Spec => []InStepWhileUp
<1>1. Inv => InStepWhileUp
  BY DEF Inv
<1> QED
  BY <1>1, Invariance, PTL

-----------------------------------------------------------------------------
(* The connection implements the reliable link. *)

(* Initially both specifications have sent, delivered and reported nothing. *)
LEMMA LinkInit == Init => Link!Init
  BY DEF Init, Link!Init

(* An enqueued PDU is a Send of the abstract link, a valid packet or a MIC    *)
(* failure an Exchange, and every other step leaves it unchanged.             *)
LEMMA LinkNext == DataAssumption /\ Inv /\ [Next]_vars => [Link!Next]_(Link!linkVars)
<1> SUFFICES ASSUME DataAssumption, Inv, [Next]_vars PROVE [Link!Next]_(Link!linkVars)
  OBVIOUS
<1> USE DEF Link!linkVars
<1>1. ASSUME NEW s \in Side, NEW d \in Data, Enqueue(s, d) PROVE Link!Next
  BY <1>1 DEF Enqueue, Link!Next, Link!Send
<1>2. ASSUME NEW s \in Side, Receiving(s), NEW h, NEW v,
             h = HeadAfter(s, air), head' = [head EXCEPT ![s] = h], tx' = tx,
             v = rx[s] \/ (/\ Len(rx[s]) < Len(tx[Peer(s)])
                          /\ v = Append(rx[s], tx[Peer(s)][Len(rx[s]) + 1])),
             rx' = [rx EXCEPT ![s] = v]
      PROVE  Link!Next
  <2> DEFINE r == Peer(s)
  <2>1. r \in Side /\ r # s
    BY Peers
  <2>2. /\ head \in [Side -> Nat] /\ rx \in [Side -> Seq(Data)]
        /\ rx[r] \in Seq(Data) /\ head[s] \in Nat
    BY <2>1 DEF Inv, TypeOK
  <2>3. Len(rx[r]) \in Nat
    BY <2>2, LenProperties
  <2>4. h = Len(rx[r]) /\ (h = head[s] \/ h = head[s] + 1)
    BY <1>2, AckLevels
  <2>5. Link!Confirms(s, r) \/ head' = head
    <3>1. CASE h = head[s]
      BY <1>2, <2>2, <3>1
    <3>2. CASE h = head[s] + 1
      BY <1>2, <2>2, <2>3, <2>4, <3>2 DEF Link!Confirms
    <3> QED
      BY <2>4, <3>1, <3>2
  <2>6. Link!Arrives(s, r) \/ rx' = rx
    BY <1>2, <2>2 DEF Link!Arrives
  <2>7. Link!Exchange(s, r)
    BY <1>2, <2>5, <2>6 DEF Link!Exchange
  <2> QED
    BY <2>1, <2>7 DEF Link!Next
<1>3. ASSUME NEW s \in Side, NEW room \in BOOLEAN, RxPdu(s, room) PROVE Link!Next
  <2>1. /\ Receiving(s) /\ tx' = tx /\ head' = [head EXCEPT ![s] = HeadAfter(s, air)]
        /\ rx' = [rx EXCEPT ![s] = RxAfter(s, air, room)]
    BY <1>3 DEF RxPdu, TakeAck
  <2>2. RxAfter(s, air, room) = rx[s] \/
          (/\ Len(rx[s]) < Len(tx[Peer(s)])
           /\ RxAfter(s, air, room) = Append(rx[s], tx[Peer(s)][Len(rx[s]) + 1]))
    BY <2>1, Delivery
  <2> QED
    BY <1>2, <2>1, <2>2
<1>4. ASSUME NEW s \in Side, RxMicFailure(s) PROVE Link!Next
  <2>1. /\ Receiving(s) /\ tx' = tx /\ head' = [head EXCEPT ![s] = HeadAfter(s, air)]
        /\ rx' = rx
    BY <1>4 DEF RxMicFailure, TakeAck
  <2>2. rx' = [rx EXCEPT ![s] = rx[s]]
    BY <2>1 DEF Inv, TypeOK
  <2> QED
    BY <1>2, <2>1, <2>2
<1>5. ASSUME NEW attends \in BOOLEAN, ConnEvent(attends) PROVE UNCHANGED <<tx, rx, head>>
  BY <1>5 DEF ConnEvent, queues
<1>6. ASSUME NEW s \in Side, RxNone(s) \/ RxCrcError(s) PROVE UNCHANGED <<tx, rx, head>>
  BY <1>6 DEF RxNone, RxCrcError, queues
<1>7. CASE UNCHANGED vars
  BY <1>7 DEF vars, queues
<1> QED
  BY <1>1, <1>3, <1>4, <1>5, <1>6, <1>7 DEF Next, Radio

(* The acknowledgment scheme behaves as a reliable link in both directions.   *)
THEOREM LinkRefinement == Spec => ImplementsLink
<1>1. Init => Link!Init
  BY LinkInit
<1>2. Inv /\ [Next]_vars => [Link!Next]_(Link!linkVars)
  BY LinkNext, DataAssumption
<1> QED
  BY <1>1, <1>2, Invariance, PTL DEF Spec, ImplementsLink, Link!Spec
=============================================================================
