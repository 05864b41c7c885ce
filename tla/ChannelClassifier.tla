-------------------------- MODULE ChannelClassifier --------------------------
(***************************************************************************)
(* The adaptive channel classification that this controller adds to the    *)
(* central role: the packet counters kept by the radio interrupts, the     *)
(* periodic classification in lll_conn_isr_tx, and the channel map update  *)
(* it requests from the upper link layer.  One connection slot (struct     *)
(* ll_conn) is modelled over successive connections: the pool hands the    *)
(* same memory out again after a disconnection, to a central connection or *)
(* to a peripheral one (the Peripheral... actions), whose packets the same *)
(* interrupts count.                                                       *)
(*                                                                         *)
(* Three contexts interleave: the ULL_HIGH ticker callback (TickerCb), the *)
(* LLL prepare or its cancellation (LllPrepare, LllPrepareAborted) and the *)
(* radio interrupts (Isr...).                                              *)
(***************************************************************************)
EXTENDS LocalChmu, FiniteSets, FiniteSetsExt

CONSTANTS
  Channel,          \* the data channels, 37 in the code
  HostMaps,         \* channel maps the Host may set
  TrainingEvents,   \* INITIAL_TRAINING_EVENTS, 2000 in the code
  LoggingEvents,    \* LOGGING_EVENTS, 1000 in the code
  BadRatePct,       \* a channel is bad above this failure rate, 10 in the code
  NumCtx,           \* local procedure contexts in the pool
  MaxLazy,          \* bound: connection events skipped before a prepare
  MaxTx             \* bound: packets prepared for transmission, all channels

ASSUME ChannelAssumption == IsFiniteSet(Channel) /\ Cardinality(Channel) >= 2
ASSUME HostMapsAssumption ==
  /\ HostMaps \subseteq SUBSET Channel
  /\ Channel \in HostMaps
  /\ \A m \in HostMaps : \E a, b \in m : a # b
ASSUME EventsAssumption ==
  /\ {TrainingEvents, LoggingEvents} \subseteq Counter \ {0}
  /\ {BadRatePct, NumCtx, MaxLazy, MaxTx} \subseteq Nat
  /\ BadRatePct < 100

VARIABLES
  \* struct lll_conn
  connected,                \* the slot holds an established central connection
  event_counter,
  latency_prepare,
  channel_update_counter,
  data_chan_map,
  currentDataChannel,
  currtxPacketCount,        \* summed over the channels: nothing reads it per channel
  currsuccessPacketCount, currfailPacketCount,
  prevsuccessPacketCount, prevfailPacketCount,
  updatedChannelMap,
  \* radio event in progress
  phase,                    \* "idle", "tx" (lll_conn_isr_tx is next), "rx" (lll_conn_isr_rx is next)
  crc_expire,
  encrypted,                \* enc_rx: received packets carry a MIC
  \* ULL
  prepare,                  \* lazy count of the prepare in the LLL pipeline, or NoPrepare
  procs,                    \* pend_proc_list: channel map update procedures, head first
  map,                      \* host channel map (ull_chan.c)
  \* history
  acked,                    \* channels with an acknowledgment since the last classification
  failed,                   \* channels with a failure since the last classification
  failedHere,               \* ... of those, the ones that failed in this connection
  exchanged,                \* this connection has had an acknowledgment
  periphAcks,               \* acknowledgments the slot's peripheral connection has had, or NoPeripheral
  elapsed                   \* events since the last classification or the set-up

counters == <<currsuccessPacketCount, currfailPacketCount>>
snapshots == <<prevsuccessPacketCount, prevfailPacketCount>>
link == <<connected, encrypted, exchanged, periphAcks>>
history == <<acked, failed, failedHere>>
decision == <<channel_update_counter, updatedChannelMap>>
llcp == <<procs, map>>
clock == <<event_counter, latency_prepare, elapsed>>
vars == <<link, clock, decision, data_chan_map, currentDataChannel, currtxPacketCount,
          counters, snapshots, phase, crc_expire, prepare, llcp, history>>

NoPrepare == -1
NoPeripheral == -1
EncryptionAcks == 2            \* of LL_ENC_RSP and of LL_START_ENC_REQ; bound on periphAcks

MinOf(a, b) == IF a < b THEN a ELSE b
ElapsedCap == LoggingEvents    \* bound on elapsed: the properties compare it with LoggingEvents only

Total(count) == MapThenSumSet(LAMBDA c : count[c], Channel)

-----------------------------------------------------------------------------
(* The classification itself. *)

\* (double)(curr - prev) / curr * 100 > pct, with a rate of 0 when curr is 0.
RateAbove(curr, prev, pct) == curr > 0 /\ (curr - prev) * 100 > pct * curr

Good(c) == RateAbove(currsuccessPacketCount[c], prevsuccessPacketCount[c], 0)
Bad(c) == RateAbove(currfailPacketCount[c], prevfailPacketCount[c], BadRatePct)

GoodChannels == {c \in Channel : Good(c)}

\* Faulty variants: no fallback to every channel; only the good ones kept.
NewMapNoFallback == {c \in Channel : Good(c) \/ ~Bad(c)}
NewMapOnlyGood == IF Cardinality(GoodChannels) < 2 THEN Channel ELSE GoodChannels

\* new_chm: every channel when all are good or fewer than two are, otherwise
\* the channels that are good or at least not bad.
NewMap ==
  IF GoodChannels = Channel \/ Cardinality(GoodChannels) < 2
  THEN Channel
  ELSE {c \in Channel : Good(c) \/ ~Bad(c)}

Due == event_counter >= channel_update_counter

\* Faulty variants: a counter that does not wrap, a deadline not moved ahead.
NextUpdateNoWrap == event_counter + LoggingEvents
NextUpdateNow == event_counter

NextUpdate == Plus(event_counter, LoggingEvents)

-----------------------------------------------------------------------------
(* Channel map update procedures of the ULL. *)

\* ull_cp_chan_map_update: the pool may be empty because other procedures and
\* other connections hold its contexts, then nothing is queued.
ChanMapUpdate(m) ==
  \/ procs' = procs
  \/ Len(procs) < NumCtx /\ procs' = Append(procs, NewProc(m))

\* ull_cp_run at event ec.
RunProcs(ec, ready) ==
  /\ procs' = AfterRun(procs, ec, ready)
  /\ data_chan_map' = MapAfterRun(procs, ec, data_chan_map)

-----------------------------------------------------------------------------
Init ==
  /\ connected = FALSE /\ encrypted = FALSE /\ exchanged = FALSE
  /\ periphAcks = NoPeripheral
  /\ event_counter = 0 /\ latency_prepare = 0 /\ elapsed = 0
  /\ channel_update_counter = 0 /\ updatedChannelMap = {}
  /\ data_chan_map = Channel /\ currentDataChannel \in Channel
  /\ currtxPacketCount = 0
  /\ currsuccessPacketCount = [c \in Channel |-> 0]
  /\ currfailPacketCount = [c \in Channel |-> 0]
  /\ prevsuccessPacketCount = [c \in Channel |-> 0]
  /\ prevfailPacketCount = [c \in Channel |-> 0]
  /\ phase = "idle" /\ crc_expire = 0 /\ prepare = NoPrepare
  /\ procs = <<>> /\ map = Channel
  /\ acked = {} /\ failed = {} /\ failedHere = {}

\* ll_create_connection and ull_central_setup.  The packet counters, their
\* snapshots and currentDataChannel keep what the slot's last user left.
Setup ==
  /\ ~connected /\ periphAcks = NoPeripheral
  /\ connected' = TRUE /\ encrypted' = FALSE /\ exchanged' = FALSE
  /\ event_counter' = 0 /\ latency_prepare' = 0 /\ elapsed' = 0
  /\ data_chan_map' = map
  /\ channel_update_counter' = TrainingEvents
  /\ failedHere' = {}
  /\ UNCHANGED <<periphAcks, updatedChannelMap, currentDataChannel, currtxPacketCount, counters,
                 snapshots, phase, crc_expire, prepare, llcp, acked, failed>>

\* ll_chm_update: the Host's map becomes the default of new connections and is
\* requested on this one; a failure to request it is ignored.
HostChmUpdate(m) ==
  /\ map' = m
  /\ IF connected THEN ChanMapUpdate(m) ELSE UNCHANGED procs
  /\ UNCHANGED <<link, clock, decision, data_chan_map, currentDataChannel, currtxPacketCount,
                 counters, snapshots, phase, crc_expire, prepare, history>>

\* ull_central_ticker_cb: runs the control procedures, then hands a prepare
\* for this event, skipped events in lazy, to the LLL.
TickerCb(lazy, ready) ==
  /\ connected /\ prepare = NoPrepare
  /\ RunProcs(Plus(event_counter, latency_prepare + lazy), ready)
  /\ prepare' = lazy
  /\ UNCHANGED <<link, clock, decision, currentDataChannel, currtxPacketCount, counters,
                 snapshots, phase, crc_expire, map, history>>

\* Faulty variant: the first packet of an event is not counted.
CountTxReplies == currtxPacketCount' = currtxPacketCount + (IF phase = "idle" THEN 0 ELSE 1)

\* lll_conn_pdu_tx_prep, as far as the counters go.
CountTx == currtxPacketCount' = currtxPacketCount + 1

\* prepare_cb of lll_central.c, hopping to a channel c of the map.
LllPrepare(c) ==
  /\ prepare # NoPrepare /\ phase = "idle"
  /\ currtxPacketCount < MaxTx
  /\ c \in data_chan_map
  /\ LET latency_event == latency_prepare + prepare IN
       /\ event_counter' = Plus(event_counter, latency_event + 1)
       /\ elapsed' = MinOf(elapsed + latency_event + 1, ElapsedCap)
  /\ latency_prepare' = 0
  /\ currentDataChannel' = c
  /\ CountTx
  /\ crc_expire' = 0
  /\ phase' = "tx" /\ prepare' = NoPrepare
  /\ UNCHANGED <<link, decision, data_chan_map, counters, snapshots, llcp, history>>

\* lll_conn_abort_cb on a prepare still in the pipeline.
LllPrepareAborted ==
  /\ prepare # NoPrepare
  /\ latency_prepare + prepare + 1 <= MaxLazy
  /\ latency_prepare' = latency_prepare + prepare + 1
  /\ prepare' = NoPrepare
  /\ UNCHANGED <<link, event_counter, elapsed, decision, data_chan_map, currentDataChannel,
                 currtxPacketCount, counters, snapshots, phase, crc_expire, llcp, history>>

-----------------------------------------------------------------------------
(* The radio interrupts. *)

\* The "Check if channel update is required" block of lll_conn_isr_tx.
Classify ==
  /\ channel_update_counter' = NextUpdate
  /\ prevsuccessPacketCount' = currsuccessPacketCount
  /\ prevfailPacketCount' = currfailPacketCount
  /\ updatedChannelMap' = NewMap
  /\ IF NewMap # data_chan_map THEN ChanMapUpdate(NewMap) ELSE UNCHANGED procs
  /\ acked' = {} /\ failed' = {} /\ failedHere' = {} /\ elapsed' = 0

\* lll_conn_isr_tx: a packet has been sent, reception of the reply starts.
IsrTx ==
  /\ phase = "tx"
  /\ IF Due THEN Classify
            ELSE UNCHANGED <<decision, snapshots, procs, history, elapsed>>
  /\ phase' = "rx"
  /\ UNCHANGED <<link, event_counter, latency_prepare, data_chan_map, currentDataChannel,
                 currtxPacketCount, counters, crc_expire, prepare, map>>

\* The part of lll_conn_isr_rx every outcome shares.
IsrRx ==
  /\ phase = "rx"
  /\ UNCHANGED <<clock, decision, data_chan_map, currentDataChannel, snapshots, map>>

\* Ends the connection: ull_conn_done and conn_cleanup.
Close ==
  /\ connected' = FALSE /\ procs' = <<>> /\ prepare' = NoPrepare /\ phase' = "idle"

CountFailures(n) ==
  /\ currfailPacketCount' = [currfailPacketCount EXCEPT ![currentDataChannel] = @ + n]
  /\ IF n = 0 THEN UNCHANGED <<failed, failedHere>>
     ELSE /\ failed' = failed \union {currentDataChannel}
          /\ failedHere' = failedHere \union {currentDataChannel}

\* isr_rx_pdu on the acknowledgment bit; more is 1 when the PDU's MIC is wrong.
CountAck(ack, more) ==
  IF ack
  THEN /\ currsuccessPacketCount' = [currsuccessPacketCount EXCEPT ![currentDataChannel] = @ + 1]
       /\ acked' = acked \union {currentDataChannel}
       /\ exchanged' = TRUE
       /\ CountFailures(more)
  ELSE /\ CountFailures(1 + more)
       /\ UNCHANGED <<currsuccessPacketCount, acked, exchanged>>

\* The next packet is prepared even when done, where it is not sent.
PrepareNextTx(done) ==
  /\ currtxPacketCount < MaxTx
  /\ CountTx
  /\ phase' = IF done THEN "idle" ELSE "tx"

\* Nothing received: the event ends and no counter moves.
IsrRxNone ==
  /\ IsrRx
  /\ phase' = "idle"
  /\ UNCHANGED <<link, counters, currtxPacketCount, crc_expire, prepare, procs, history>>

\* CRC error: the second one in a row ends the event.
IsrRxCrcError ==
  /\ IsrRx
  /\ CountFailures(1)
  /\ crc_expire' = (IF crc_expire = 0 THEN 2 ELSE crc_expire) - 1
  /\ PrepareNextTx(crc_expire' = 0)
  /\ UNCHANGED <<link, currsuccessPacketCount, prepare, procs, acked>>

\* A valid PDU; done when neither side has more data.
IsrRxPdu(ack, done) ==
  /\ IsrRx
  /\ CountAck(ack, 0)
  /\ crc_expire' = 0
  /\ PrepareNextTx(done)
  /\ UNCHANGED <<connected, encrypted, periphAcks, prepare, procs>>

\* A PDU whose MIC is wrong: counted as a failure besides its acknowledgment
\* bit, no reply is prepared and the connection ends.
IsrRxMicFailure(ack) ==
  /\ IsrRx /\ encrypted
  /\ CountAck(ack, 1)
  /\ Close
  /\ UNCHANGED <<encrypted, periphAcks, currtxPacketCount, crc_expire>>

\* lll_conn_abort_cb on the event on air.
RadioAbort ==
  /\ phase \in {"tx", "rx"}
  /\ phase' = "idle"
  /\ UNCHANGED <<link, clock, decision, data_chan_map, currentDataChannel, currtxPacketCount,
                 counters, snapshots, crc_expire, prepare, llcp, history>>

-----------------------------------------------------------------------------
(* A peripheral connection in the same slot: lll_conn_isr_rx counts its      *)
(* failures, and lll_conn_pdu_tx_prep its packets, on whatever channel the   *)
(* last central event left.  Its acknowledgments move no packet counter.     *)

PeripheralRx(failures) ==
  /\ CountFailures(failures)
  /\ UNCHANGED <<connected, encrypted, exchanged, clock, decision, data_chan_map,
                 currentDataChannel, currsuccessPacketCount, snapshots, phase, crc_expire, prepare,
                 llcp, acked>>

\* A reply is prepared for a packet received, whatever it was.
PeripheralReply == currtxPacketCount < MaxTx /\ CountTx

\* The first packet of the central: nothing was sent that it could acknowledge.
PeripheralFirstPacket ==
  /\ ~connected /\ periphAcks = NoPeripheral
  /\ PeripheralRx(1) /\ PeripheralReply
  /\ periphAcks' = 0

\* A later one; one with a CRC error acknowledges nothing.
PeripheralPacket(ack) ==
  /\ periphAcks # NoPeripheral
  /\ PeripheralRx(IF ack THEN 0 ELSE 1) /\ PeripheralReply
  /\ periphAcks' = MinOf(periphAcks + (IF ack THEN 1 ELSE 0), EncryptionAcks)

\* A packet whose MIC is wrong counts as one more failure, no reply is prepared
\* and the connection ends.  The central encrypts once it has LL_START_ENC_REQ,
\* which is sent after LL_ENC_RSP is acknowledged, so that this packet or an
\* earlier one has acknowledged both.
PeripheralMicFailure(ack) ==
  /\ periphAcks + (IF ack THEN 1 ELSE 0) >= EncryptionAcks
  /\ PeripheralRx(IF ack THEN 1 ELSE 2)
  /\ periphAcks' = NoPeripheral
  /\ UNCHANGED currtxPacketCount

PeripheralDisconnect ==
  /\ periphAcks # NoPeripheral
  /\ periphAcks' = NoPeripheral
  /\ UNCHANGED <<connected, encrypted, exchanged, clock, decision, data_chan_map,
                 currentDataChannel, currtxPacketCount, counters, snapshots, phase, crc_expire,
                 prepare, llcp, history>>

-----------------------------------------------------------------------------
\* The encryption start procedure, which needs acknowledged packets.
StartEncryption ==
  /\ connected /\ exchanged /\ ~encrypted
  /\ encrypted' = TRUE
  /\ UNCHANGED <<connected, exchanged, periphAcks, clock, decision, data_chan_map,
                 currentDataChannel, currtxPacketCount, counters, snapshots, phase, crc_expire,
                 prepare, llcp, history>>

Disconnect ==
  /\ connected /\ phase = "idle"
  /\ Close
  /\ UNCHANGED <<encrypted, exchanged, periphAcks, clock, decision, data_chan_map,
                 currentDataChannel, currtxPacketCount, counters, snapshots, crc_expire, map,
                 history>>

Next ==
  \/ Setup
  \/ \E m \in HostMaps : HostChmUpdate(m)
  \/ \E lazy \in 0 .. MaxLazy, ready \in BOOLEAN : TickerCb(lazy, ready)
  \/ \E c \in Channel : LllPrepare(c)
  \/ LllPrepareAborted
  \/ IsrTx
  \/ IsrRxNone
  \/ IsrRxCrcError
  \/ \E ack, done \in BOOLEAN : IsrRxPdu(ack, done)
  \/ \E ack \in BOOLEAN : IsrRxMicFailure(ack)
  \/ RadioAbort
  \/ PeripheralFirstPacket
  \/ \E ack \in BOOLEAN : PeripheralPacket(ack)
  \/ \E ack \in BOOLEAN : PeripheralMicFailure(ack)
  \/ PeripheralDisconnect
  \/ StartEncryption
  \/ Disconnect

Spec == Init /\ [][Next]_vars

-----------------------------------------------------------------------------
(* Properties. *)

Proc == [chm : SUBSET Channel, state : {"WAIT_TX", "WAIT_INSTANT"}, instant : Counter]

\* Every variable keeps its type: the counters never leave their widths and
\* the queue of procedures never outgrows the pool (lll_conn.h, ull_llcp.c).
TypeOK ==
  /\ connected \in BOOLEAN /\ encrypted \in BOOLEAN /\ exchanged \in BOOLEAN
  /\ periphAcks \in NoPeripheral .. EncryptionAcks
  /\ event_counter \in Counter /\ channel_update_counter \in Counter
  /\ latency_prepare \in 0 .. MaxLazy /\ prepare \in -1 .. MaxLazy
  /\ elapsed \in 0 .. ElapsedCap /\ crc_expire \in 0 .. 2
  /\ data_chan_map \subseteq Channel /\ updatedChannelMap \subseteq Channel
  /\ map \subseteq Channel /\ currentDataChannel \in Channel
  /\ currtxPacketCount \in Nat
  /\ currsuccessPacketCount \in [Channel -> Nat] /\ currfailPacketCount \in [Channel -> Nat]
  /\ prevsuccessPacketCount \in [Channel -> Nat] /\ prevfailPacketCount \in [Channel -> Nat]
  /\ phase \in {"idle", "tx", "rx"}
  /\ procs \in Seq(Proc) /\ Len(procs) <= NumCtx
  /\ acked \subseteq Channel /\ failed \subseteq Channel /\ failedHere \subseteq failed

TwoChannels(m) == \E a, b \in m : a # b

\* Hopping always has two channels to choose from: the map in use, the Host's
\* map, the last decision and every map still queued, whatever was counted and
\* in whatever order decisions, Host updates and instants interleave.
EnoughChannels ==
  /\ TwoChannels(data_chan_map) /\ TwoChannels(map)
  /\ updatedChannelMap # {} => TwoChannels(updatedChannelMap)
  /\ \A i \in DOMAIN procs : TwoChannels(procs[i].chm)

Classified == elapsed' = 0 /\ phase = "tx" /\ phase' = "rx" /\ Due

\* A classification excludes a channel only on evidence: since the last one,
\* packets failed on it and none was acknowledged there (lll_conn.c 563-588).
ExclusionJustified ==
  [][Classified => \A c \in Channel \ updatedChannelMap' : c \in failed \ acked]_vars

\* Two classifications of a connection are LOGGING_EVENTS apart, unless the
\* deadline wrapped around the 16-bit counter (lll_conn.c 519, 531).
EarlyOnlyOnWrap ==
  [][Classified /\ elapsed < LoggingEvents => channel_update_counter < LoggingEvents]_vars

\* The packet loss ratio printed with each classification, failures counted
\* over packets prepared, is a ratio: at most 1 (lll_conn.c 613-621).
LossRatioAtMostOne == Total(currfailPacketCount) <= currtxPacketCount

\* What lll_conn.h 18 and the comment of lll_conn.c 530 say: classifications
\* are LOGGING_EVENTS events apart.  Refuted by the wrap of the counter.
ClassificationSpacing == [][Classified => elapsed >= LoggingEvents]_vars

\* What the comment of ull_central.c 971 says: a new connection starts with its
\* classification parameters initialised, so what it decides is its own
\* evidence.  Refuted: the counters of the slot's last user are kept.
DecisionFromOwnConnection ==
  [][Classified => \A c \in Channel \ updatedChannelMap' : c \in failedHere]_vars
=============================================================================
