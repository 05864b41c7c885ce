------------------------------- MODULE LinkArq -------------------------------
(***************************************************************************)
(* The acknowledgment scheme of a connection: the one-bit sequence numbers *)
(* sn and nesn, the "empty" flag and the transmit queue of the two         *)
(* controllers, over connection events in which packets are lost, arrive   *)
(* with a CRC error, find no receive buffer or fail their MIC.             *)
(*                                                                         *)
(* Both sides run the same code with a different role (struct lll_conn).   *)
(* Nothing else touches this state while a packet is on air except the     *)
(* ULL, which appends to the transmit queue (Enqueue).  An element of the  *)
(* queue is what one packet carries: a PDU or a fragment of one.           *)
(***************************************************************************)
EXTENDS Naturals, Sequences

CONSTANTS
  Data,       \* what a non-empty packet may carry
  Empty,      \* the payload of the empty PDU
  MaxPdus     \* bound: elements queued by each side

ASSUME DataAssumption == Empty \notin Data /\ MaxPdus \in Nat

Central == "central"
Peripheral == "peripheral"
Side == {Central, Peripheral}
Peer(s) == IF s = Central THEN Peripheral ELSE Central

NoSide == "none"
NoPacket == [sn |-> 2, nesn |-> 2, md |-> FALSE, pdu |-> Empty]

VARIABLES
  sn, nesn,      \* per side: one-bit sequence number, next expected one
  empty,         \* per side: the packet to be acknowledged is an empty PDU
  md,            \* per side: more-data bit of the packet last prepared
  crc_expire,    \* per side: countdown of CRC errors in the event
  tx,            \* per side: everything ever put into memq_tx
  head,          \* per side: how much of it has been acknowledged and released
  rx,            \* per side: everything delivered to the ULL
  air,           \* the packet on air
  turn,          \* the side whose reception of it comes next, NoSide between events
  listening,     \* the peripheral's radio is open in this event
  up             \* no side has seen a MIC failure

queues == <<tx, head, rx>>
numbers == <<sn, nesn>>
radio == <<air, turn, listening>>
vars == <<numbers, empty, md, crc_expire, queues, radio, up>>

Flip(bit) == 1 - bit

Init ==
  /\ sn = [s \in Side |-> 0] /\ nesn = [s \in Side |-> 0]
  /\ empty = [s \in Side |-> FALSE] /\ md = [s \in Side |-> FALSE]
  /\ crc_expire = [s \in Side |-> 0]
  /\ tx = [s \in Side |-> <<>>] /\ head = [s \in Side |-> 0] /\ rx = [s \in Side |-> <<>>]
  /\ air = NoPacket /\ turn = NoSide /\ listening = FALSE /\ up = TRUE

-----------------------------------------------------------------------------
(* The packet s prepares (lll_conn_pdu_tx_prep) when its empty flag is e    *)
(* and h elements of its queue have been released.                          *)

\* Faulty variant: an unacknowledged empty PDU is not repeated.
SendsEmptyIfIdle(s, e, h) == h = Len(tx[s])

SendsEmpty(s, e, h) == e \/ h = Len(tx[s])

Payload(s, e, h) == IF SendsEmpty(s, e, h) THEN Empty ELSE tx[s][h + 1]

MoreData(s, e, h) == IF SendsEmpty(s, e, h) THEN h < Len(tx[s]) ELSE h + 1 < Len(tx[s])

-----------------------------------------------------------------------------
(* What a valid packet p changes at s (isr_rx_pdu).                         *)

Acks(s, p) == p.nesn # sn[s]

\* Faulty variant: a field wider than the bit sent on air.
SnAfterWide(s, p) == IF Acks(s, p) THEN sn[s] + 1 ELSE sn[s]

SnAfter(s, p) == IF Acks(s, p) THEN Flip(sn[s]) ELSE sn[s]

\* Faulty variant: the flag survives the acknowledgment.
EmptyKept(s, p) == empty[s]

EmptyAfter(s, p) == empty[s] /\ ~Acks(s, p)

\* Faulty variant: the acknowledgment of an empty PDU releases the next node.
HeadAfterEmpty(s, p) == IF Acks(s, p) /\ head[s] < Len(tx[s]) THEN head[s] + 1 ELSE head[s]

HeadAfter(s, p) ==
  IF Acks(s, p) /\ ~empty[s] /\ head[s] < Len(tx[s]) THEN head[s] + 1 ELSE head[s]

\* In order, and a receive buffer is free.
Accepts(s, p, room) == p.sn = nesn[s] /\ room

\* Faulty variant: a packet that finds no buffer is acknowledged all the same.
NesnAfterAnyRoom(s, p, room) == IF p.sn = nesn[s] THEN Flip(nesn[s]) ELSE nesn[s]

NesnAfter(s, p, room) == IF Accepts(s, p, room) THEN Flip(nesn[s]) ELSE nesn[s]

\* Faulty variant: a repeated packet is delivered again.
RxAfterAnySn(s, p, room) == IF room /\ p.pdu # Empty THEN Append(rx[s], p.pdu) ELSE rx[s]

RxAfter(s, p, room) ==
  IF Accepts(s, p, room) /\ p.pdu # Empty THEN Append(rx[s], p.pdu) ELSE rx[s]

\* The central ends the event early when its last packet has been acknowledged
\* and neither side announced more.
AckEndsEvent(s, p) == s = Central /\ Acks(s, p) /\ ~p.md /\ ~md[s]

-----------------------------------------------------------------------------
\* s answers with its empty flag at e, h elements released and the sequence
\* numbers n and x.  A central that is done prepares the packet, does not send
\* it and restores the flag; a peripheral that is done sends and then closes.
Reply(s, e, h, n, x, done) ==
  /\ md' = [md EXCEPT ![s] = MoreData(s, e, h)]
  /\ IF s = Central /\ done
     THEN /\ empty' = [empty EXCEPT ![s] = e]
          /\ air' = NoPacket /\ turn' = NoSide /\ listening' = FALSE
     ELSE /\ empty' = [empty EXCEPT ![s] = SendsEmpty(s, e, h)]
          /\ air' = [sn |-> n, nesn |-> x, md |-> MoreData(s, e, h), pdu |-> Payload(s, e, h)]
          /\ turn' = Peer(s)
          /\ listening' = (listening /\ ~(s = Peripheral /\ done))

\* The ULL moves a PDU to the LLL's transmit queue (ull_conn_tx_lll_enqueue).
Enqueue(s, d) ==
  /\ up /\ Len(tx[s]) < MaxPdus
  /\ tx' = [tx EXCEPT ![s] = Append(@, d)]
  /\ UNCHANGED <<numbers, empty, md, crc_expire, head, rx, radio, up>>

\* prepare_cb of both roles at an anchor point; attends is FALSE when the
\* peripheral skips the event or its prepare is aborted.
ConnEvent(attends) ==
  /\ up /\ turn = NoSide
  /\ air' = [sn |-> sn[Central], nesn |-> nesn[Central],
             md |-> MoreData(Central, empty[Central], head[Central]),
             pdu |-> Payload(Central, empty[Central], head[Central])]
  /\ md' = [md EXCEPT ![Central] = MoreData(Central, empty[Central], head[Central])]
  /\ empty' = [empty EXCEPT
       ![Central] = SendsEmpty(Central, @, head[Central]),
       ![Peripheral] = IF attends THEN SendsEmpty(Peripheral, @, head[Peripheral]) ELSE @]
  /\ crc_expire' = [s \in Side |-> IF s = Central \/ attends THEN 0 ELSE crc_expire[s]]
  /\ turn' = Peripheral /\ listening' = attends
  /\ UNCHANGED <<numbers, queues, up>>

Receiving(s) == up /\ turn = s /\ air # NoPacket /\ (s = Peripheral => listening)

\* Nothing heard: that side's event is over.  The central then waits in vain.
RxNone(s) ==
  /\ up /\ turn = s
  /\ turn' = (IF s = Peripheral THEN Central ELSE NoSide)
  /\ air' = NoPacket /\ listening' = FALSE
  /\ UNCHANGED <<numbers, empty, md, crc_expire, queues, up>>

RxCrcError(s) ==
  /\ Receiving(s)
  /\ crc_expire' = [crc_expire EXCEPT ![s] = (IF @ = 0 THEN 2 ELSE @) - 1]
  /\ Reply(s, empty[s], head[s], sn[s], nesn[s], crc_expire'[s] = 0)
  /\ UNCHANGED <<numbers, queues, up>>

\* isr_rx_pdu, as far as the acknowledgment goes.
TakeAck(s, p) ==
  /\ sn' = [sn EXCEPT ![s] = SnAfter(s, p)]
  /\ head' = [head EXCEPT ![s] = HeadAfter(s, p)]

\* A valid packet arrives at s; room: ull_pdu_rx_alloc_peek(3) finds a buffer.
RxPdu(s, room) ==
  /\ Receiving(s)
  /\ LET e == EmptyAfter(s, air)
         h == HeadAfter(s, air)
         quiet == ~air.md /\ ~MoreData(s, e, h) /\ SendsEmpty(s, e, h) IN
       /\ TakeAck(s, air)
       /\ nesn' = [nesn EXCEPT ![s] = NesnAfter(s, air, room)]
       /\ rx' = [rx EXCEPT ![s] = RxAfter(s, air, room)]
       /\ crc_expire' = [crc_expire EXCEPT ![s] = 0]
       /\ Reply(s, e, h, SnAfter(s, air), NesnAfter(s, air, room), AckEndsEvent(s, air) \/ quiet)
  /\ UNCHANGED <<tx, up>>

\* A packet whose MIC is wrong: its acknowledgment counts, its sequence number
\* is taken, it is not delivered, nothing is sent and the connection ends.
RxMicFailure(s) ==
  /\ Receiving(s)
  /\ air.pdu # Empty /\ Accepts(s, air, TRUE)
  /\ TakeAck(s, air)
  /\ empty' = [empty EXCEPT ![s] = EmptyAfter(s, air)]
  /\ nesn' = [nesn EXCEPT ![s] = NesnAfter(s, air, TRUE)]
  /\ up' = FALSE /\ air' = NoPacket /\ turn' = NoSide /\ listening' = FALSE
  /\ UNCHANGED <<md, crc_expire, tx, rx>>

Radio ==
  \/ \E attends \in BOOLEAN : ConnEvent(attends)
  \/ \E s \in Side : RxNone(s) \/ RxCrcError(s) \/ RxMicFailure(s)
  \/ \E s \in Side, room \in BOOLEAN : RxPdu(s, room)

Next == Radio \/ \E s \in Side, d \in Data : Enqueue(s, d)

Spec == Init /\ [][Next]_vars

\* The radio goes on, and a link that is not broken for good lets the
\* peripheral attend, and lets either side receive into a free buffer, again
\* and again; a link that does not is closed by the supervision timeout.
Fairness ==
  /\ WF_vars(Radio)
  /\ SF_vars(ConnEvent(TRUE))
  /\ \A s \in Side : SF_vars(RxPdu(s, TRUE))

FairSpec == Spec /\ Fairness

-----------------------------------------------------------------------------
(* Properties. *)

Packet == [sn : 0 .. 1, nesn : 0 .. 1, md : BOOLEAN, pdu : Data \union {Empty}]

\* Every variable keeps its type; in particular no more is released than queued.
TypeOK ==
  /\ sn \in [Side -> 0 .. 1] /\ nesn \in [Side -> 0 .. 1]
  /\ empty \in [Side -> BOOLEAN] /\ md \in [Side -> BOOLEAN]
  /\ crc_expire \in [Side -> 0 .. 2]
  /\ tx \in [Side -> Seq(Data)] /\ rx \in [Side -> Seq(Data)]
  /\ head \in [Side -> Nat] /\ \A s \in Side : head[s] <= Len(tx[s])
  /\ air \in Packet \union {NoPacket}
  /\ turn \in Side \union {NoSide}
  /\ listening \in BOOLEAN /\ up \in BOOLEAN

\* What a side delivers to its ULL is what the other queued, without loss,
\* repetition or change of order, over lost packets, CRC errors and full
\* receive pools (isr_rx_pdu, lll_conn_pdu_tx_prep).
InOrderOnce ==
  \A s \in Side :
    /\ Len(rx[Peer(s)]) <= Len(tx[s])
    /\ \A i \in 1 .. Len(rx[Peer(s)]) : rx[Peer(s)][i] = tx[s][i]

\* A node is released towards the Host as acknowledged (tx_release) only when
\* the peer has delivered it, and at most one delivered node is unreported.
ReleasedWereDelivered ==
  \A s \in Side : head[s] <= Len(rx[Peer(s)]) /\ Len(rx[Peer(s)]) <= head[s] + 1

\* The sequence bits say whether the packet s last prepared has arrived; the
\* flag says whether it was an empty one.  The inductive core of the above.
InStep(s) ==
  IF nesn[Peer(s)] = sn[s]
  THEN Len(rx[Peer(s)]) = head[s]
  ELSE IF empty[s] THEN Len(rx[Peer(s)]) = head[s]
  ELSE Len(rx[Peer(s)]) = head[s] + 1 /\ head[s] < Len(tx[s])

\* The packet on air carries its sender's current state.
AirMatches ==
  turn \in Side /\ air # NoPacket =>
    LET s == Peer(turn) IN
      /\ air.sn = sn[s] /\ air.nesn = nesn[s]
      /\ air.pdu = Empty <=> empty[s]
      /\ air.pdu # Empty => head[s] < Len(tx[s]) /\ air.pdu = tx[s][head[s] + 1]

InStepWhileUp == up => AirMatches /\ \A s \in Side : InStep(s)

\* The connection behaves as a reliable link in both directions.
Link == INSTANCE ReliableLink WITH sent <- tx, received <- rx, confirmed <- head
ImplementsLink == Link!Spec

\* Whatever is queued, MaxPdus each way in all, is delivered, unless a MIC failure
\* ends the connection: no exchange of empty PDUs, retries and closed events starves it.
EventuallyDelivered == []<>(~up \/ \A s \in Side : Len(rx[Peer(s)]) = Len(tx[s]))
=============================================================================
