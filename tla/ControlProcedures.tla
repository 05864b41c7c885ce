-------------------------- MODULE ControlProcedures --------------------------
(***************************************************************************)
(* The request machines of the link layer control protocol: each side of a *)
(* connection runs its own procedures one after the other (ull_llcp_local) *)
(* and answers those of its peer (ull_llcp_remote), and a procedure with   *)
(* an instant may collide with one of the peer's.  The procedures are PHY  *)
(* update, feature exchange, channel map update and termination.           *)
(*                                                                         *)
(* A side is a record, a handler a function on it.  A connection event is  *)
(* Begin (the ticker callbacks), packets delivered and acknowledged in any *)
(* number, and Done.  A queued PDU counts as handed to the LLL; data PDUs  *)
(* appear only as the reasons to pause them.  An instant is kept as the    *)
(* number of events that are left until it.                                *)
(***************************************************************************)
EXTENDS Integers, Sequences

CONSTANTS
  Phy, PHY_1M,    \* the PHYs, and the one of a connection made by legacy advertising
  InstantDelta,   \* PHY_UPDATE_INSTANT_DELTA and CHMU_INSTANT_DELTA, 6 in the code
  Requests,       \* [Side -> set of procedures its Host asks for]
  MaxRequests,    \* bound: [Side -> requests of its Host in a connection]
  PhyBuilt,       \* the possible [Side -> BOOLEAN]: is CONFIG_BT_CTLR_PHY set?
  NtfFree         \* the possible answers to "is a notification buffer free?"

Central == "central"
Peripheral == "peripheral"
Side == {Central, Peripheral}
Peer(s) == IF s = Central THEN Peripheral ELSE Central

None == "none"
Proc == {"PHY_UPDATE", "FEATURE_EXCHANGE", "CHAN_MAP_UPDATE", "TERMINATE"}

ASSUME ProcedureAssumption ==
  /\ PHY_1M \in Phy
  /\ InstantDelta \in Nat \ {0}
  /\ Requests \in [Side -> SUBSET Proc] /\ MaxRequests \in [Side -> Nat]
  /\ PhyBuilt \subseteq [Side -> BOOLEAN] /\ NtfFree \subseteq BOOLEAN /\ TRUE \in NtfFree

VARIABLES
  cp,         \* per side: struct ll_conn, as far as it is the protocol's
  stage,      \* "run" between events, "air" in one
  attending,  \* the sides that take part in this event
  requests,   \* per side: the Host's requests so far
  ended       \* why the connection has ended, or None

vars == <<cp, stage, attending, requests, ended>>

\* A PDU: its opcode, the PHYs it carries, the opcode it rejects or does not
\* know, and the events left until its instant.
Pdu(op, phys, about, left) == [op |-> op, phys |-> phys, about |-> about, left |-> left]
Plain(op) == Pdu(op, {}, None, 0)

\* struct proc_ctx.
NewCtx(proc, phys) ==
  [proc |-> proc, state |-> "IDLE", rx_opcode |-> None, tx_opcode |-> None,
   phys |-> phys, left |-> 0, ntf |-> FALSE]
NoCtx == NewCtx(None, {})

\* ull_llcp_init, and the PHYs of a new connection.
NewConn(s, built) ==
  [side |-> s, built |-> built, local |-> <<>>, remote |-> NoCtx,
   incompat |-> "NO_COLLISION", collision |-> FALSE, fex |-> FALSE,
   phy |-> PHY_1M, pref |-> Phy, paused |-> {}, out |-> <<>>, acked |-> None, reason |-> None]

NewConns == {[s \in Side |-> NewConn(s, built[s])] : built \in PhyBuilt}

Init ==
  /\ cp \in NewConns
  /\ stage = "run" /\ attending = {}
  /\ requests = [s \in Side |-> 0] /\ ended = None

-----------------------------------------------------------------------------
(* Helpers of both machines. *)

Tx(c, pdu) == [c EXCEPT !.out = Append(@, pdu)]
Reason(c, r) == [c EXCEPT !.reason = r]
Pause(c) == [c EXCEPT !.paused = @ \union {"PHY_UPDATE"}]
Resume(c) == [c EXCEPT !.paused = @ \ {"PHY_UPDATE"}]
Incompat(c, i) == [c EXCEPT !.incompat = i]

\* The head of pend_proc_list is the procedure that runs.
Local(c) == IF c.local = <<>> THEN NoCtx ELSE Head(c.local)
SetLocal(c, ctx) == [c EXCEPT !.local[1] = ctx]
LocalDone(c) == [c EXCEPT !.local = Tail(@)]
SetRemote(c, ctx) == [c EXCEPT !.remote = ctx]

\* rr_act_complete and rr_check_done.
\* Faulty variant: the collision flag is left set.
RemoteDoneKeepsCollision(c) == [c EXCEPT !.remote = NoCtx]
RemoteDone(c) == [c EXCEPT !.remote = NoCtx, !.collision = FALSE]

\* rr_set_collision.  Faulty variant: the local procedures are not held back.
SetCollisionNever(c, with_instant) == c
SetCollision(c, with_instant) == [c EXCEPT !.collision = with_instant]

\* llcp_lr_abort.  Faulty variant: the collision state is kept.
AbortKeepsIncompat(c) == [c EXCEPT !.local = <<>>]
Abort(c) == [c EXCEPT !.local = <<>>, !.incompat = "NO_COLLISION"]

\* pu_prep_update_ind: what is left of the request and is not in use already.
Chosen(c, phys) == phys \ {c.phy}
\* pu_apply_phy_update.
Apply(c, phys) == IF phys = {} THEN c ELSE [c EXCEPT !.phy = CHOOSE p \in phys : TRUE]

\* lp_pu_tx_ntf and lp_comm_ntf_complete_proxy; rp_pu_tx_ntf.
NotifyLocal(c, free) ==
  IF free THEN LocalDone(c) ELSE SetLocal(c, [Local(c) EXCEPT !.state = "WAIT_NTF"])
NotifyRemote(c, free) ==
  IF c.remote.ntf /\ ~free THEN SetRemote(c, [c.remote EXCEPT !.state = "WAIT_NTF"])
                           ELSE RemoteDone(c)

-----------------------------------------------------------------------------
(* RUN: the ticker callback of an event. *)

\* lp_pu_send_phy_req, lp_chmu_send_channel_map_update_ind, lp_comm_send_req.
SendPhyReq(c, ctx) ==
  Pause(Tx(SetLocal(Incompat([c EXCEPT !.pref = ctx.phys], "RESOLVABLE"),
                    [ctx EXCEPT !.state = "WAIT_TX_ACK_PHY_REQ", !.tx_opcode = "PHY_REQ"]),
           Pdu("PHY_REQ", ctx.phys, None, 0)))

SendChanMapInd(c, ctx) ==
  Tx(SetLocal(Incompat(c, "RESOLVABLE"),
              [ctx EXCEPT !.state = "WAIT_INSTANT", !.left = InstantDelta]),
     Pdu("CHAN_MAP_IND", {}, None, InstantDelta))

SendCommon(c, ctx) ==
  IF ctx.proc = "TERMINATE"
  THEN Tx(SetLocal(c, [ctx EXCEPT !.state = "WAIT_TX_ACK", !.tx_opcode = "TERMINATE_IND"]),
          Plain("TERMINATE_IND"))
  ELSE LET op == IF c.side = Central THEN "FEATURE_REQ" ELSE "PER_INIT_FEAT_XCHG" IN
         Tx(SetLocal(c, [ctx EXCEPT !.state = "WAIT_RX", !.tx_opcode = op,
                                    !.rx_opcode = "FEATURE_RSP"]),
            Plain(op))

SendRequest(c) ==
  LET ctx == Local(c) IN
    CASE ctx.proc = "PHY_UPDATE" /\ ~c.collision -> SendPhyReq(c, ctx)
      [] ctx.proc = "CHAN_MAP_UPDATE" /\ ~c.collision -> SendChanMapInd(c, ctx)
      [] ctx.proc \in {"FEATURE_EXCHANGE", "TERMINATE"} -> SendCommon(c, ctx)
      [] OTHER -> c

\* lp_pu_check_instant, lp_chmu_check_instant.
PhyInstant(c, ctx) ==
  SetLocal(Incompat(Apply(c, ctx.phys), "NO_COLLISION"),
           [ctx EXCEPT !.state = "WAIT_INSTANT_ON_AIR"])
ChanMapInstant(c) == LocalDone(Incompat(c, "NO_COLLISION"))

RunLocal(c, free) ==
  LET ctx == Local(c) IN
    CASE ctx.state = "IDLE" -> SendRequest(c)
      [] ctx.state = "WAIT_INSTANT" /\ ctx.left = 0 /\ ctx.proc = "PHY_UPDATE" ->
           PhyInstant(c, ctx)
      [] ctx.state = "WAIT_INSTANT" /\ ctx.left = 0 /\ ctx.proc = "CHAN_MAP_UPDATE" -> ChanMapInstant(c)
      [] ctx.state = "WAIT_NTF" -> NotifyLocal(c, free)
      [] OTHER -> c

\* rp_pu_send_phy_update_ind, if nothing is in the LLL's queue.
SendUpdateInd(c, left) ==
  LET phys == Chosen(c, c.remote.phys) IN
    IF c.out # <<>> \/ c.acked # None
    THEN SetRemote(c, [c.remote EXCEPT !.state = "WAIT_TX_PHY_UPDATE_IND"])
    ELSE Tx(SetRemote(c, [c.remote EXCEPT !.state = "WAIT_TX_ACK_PHY_UPDATE_IND", !.phys = phys,
                                          !.left = left, !.tx_opcode = "PHY_UPDATE_IND"]),
            Pdu("PHY_UPDATE_IND", phys, None, left))

RunRemote(c, free) ==
  LET ctx == c.remote IN
    CASE ctx.state = "WAIT_TX_PHY_UPDATE_IND" -> SendUpdateInd(c, InstantDelta)
      [] ctx.state = "WAIT_INSTANT" /\ ctx.left = 0 /\ ctx.proc = "PHY_UPDATE" ->
           SetRemote(Apply(c, ctx.phys), [ctx EXCEPT !.state = "WAIT_INSTANT_ON_AIR", !.ntf = TRUE])
      [] ctx.state = "WAIT_INSTANT" /\ ctx.left = 0 /\ ctx.proc = "CHAN_MAP_UPDATE" -> RemoteDone(c)
      [] ctx.state = "WAIT_NTF" -> NotifyRemote(c, free)
      [] ctx.state = "POSTPONE_TERMINATE" -> Reason(RemoteDone(c), "REMOTE_USER_TERM_CONN")
      [] OTHER -> c

\* ull_cp_run.
Run(c, free) == RunLocal(RunRemote(c, free), free)

-----------------------------------------------------------------------------
(* ull_cp_tx_ntf, after an event and before a received PDU is looked at. *)

TxNtf(c, free) ==
  LET l == IF Local(c).state = "WAIT_INSTANT_ON_AIR" THEN NotifyLocal(c, free) ELSE c IN
    IF l.remote.state = "WAIT_INSTANT_ON_AIR" THEN NotifyRemote(l, free) ELSE l

(* ull_cp_tx_ack: the peer has acknowledged the PDU with opcode c.acked. *)

TxAckLocal(c, op, free) ==
  LET ctx == Local(c) IN
    CASE ctx.state = "WAIT_TX_ACK_PHY_REQ" /\ op = "PHY_REQ" ->
           IF c.side = Central
           THEN SetLocal(c, [ctx EXCEPT !.state = "WAIT_RX_PHY_RSP", !.rx_opcode = "PHY_RSP"])
           ELSE Resume(SetLocal(c, [ctx EXCEPT !.state = "WAIT_RX_PHY_UPDATE_IND",
                                               !.rx_opcode = "PHY_UPDATE_IND"]))
      [] ctx.state = "WAIT_TX_ACK_PHY_UPDATE_IND" /\ op = "PHY_UPDATE_IND" ->
           Resume(IF ctx.phys # {} THEN SetLocal(c, [ctx EXCEPT !.state = "WAIT_INSTANT"])
                                   ELSE NotifyLocal(Incompat(c, "NO_COLLISION"), free))
      [] ctx.state = "WAIT_TX_ACK" /\ op = "TERMINATE_IND" ->
           Reason(LocalDone(c), "LOCALHOST_TERM_CONN")
      [] OTHER -> c

\* The central's indication: data goes on whether there is an instant or not.
\* Faulty variant: only if there is.
AckedUpdateIndPaused(c, ctx) ==
  IF ctx.phys # {} THEN Resume(SetRemote(c, [ctx EXCEPT !.state = "WAIT_INSTANT"]))
                   ELSE RemoteDone(c)
AckedUpdateInd(c, ctx) ==
  Resume(IF ctx.phys # {} THEN SetRemote(c, [ctx EXCEPT !.state = "WAIT_INSTANT"])
                          ELSE RemoteDone(c))

TxAckRemote(c, op) ==
  LET ctx == c.remote IN
    CASE ctx.state = "WAIT_TX_ACK_PHY_RSP" /\ op = "PHY_RSP" ->
           Resume(SetRemote(c, [ctx EXCEPT !.state = "WAIT_RX_PHY_UPDATE_IND"]))
      [] ctx.state = "WAIT_TX_ACK_PHY_UPDATE_IND" /\ op = "PHY_UPDATE_IND" ->
           AckedUpdateInd(c, ctx)
      [] OTHER -> c

TxAck(c, free) ==
  LET op == c.acked IN
    TxAckRemote(TxAckLocal([c EXCEPT !.acked = None], op, free), op)

-----------------------------------------------------------------------------
(* ull_cp_rx. *)

\* In the event a PDU is received the event counter is already the next one's.
RxInstantPassed(pdu) == pdu.left <= 1

NotAllowedLocal(c) == Reason(LocalDone(c), "LMP_PDU_NOT_ALLOWED")
NotAllowedRemote(c) == Reason(RemoteDone(c), "LMP_PDU_NOT_ALLOWED")

\* The end of a PHY update at its requester's side.  A central's data is left as
\* it is: paused, if an UNKNOWN_RSP has ended the procedure.
EndLocalPhy(c, free) ==
  LET d == NotifyLocal(Incompat(c, "NO_COLLISION"), free) IN
    IF c.side = Peripheral THEN Resume(d) ELSE d

\* llcp_lp_pu_rx.
RxLocalPhy(c, pdu, free) ==
  LET ctx == Local(c) IN
    CASE pdu.op = "PHY_RSP" ->
           IF ctx.state # "WAIT_RX_PHY_RSP" THEN c
           ELSE LET phys == Chosen(c, ctx.phys \intersect pdu.phys) IN
             Pause(Tx(SetLocal(Incompat(c, "RESERVED"),
                               [ctx EXCEPT !.state = "WAIT_TX_ACK_PHY_UPDATE_IND", !.phys = phys,
                                           !.left = InstantDelta + 1, !.rx_opcode = None,
                                           !.tx_opcode = "PHY_UPDATE_IND"]),
                      Pdu("PHY_UPDATE_IND", phys, None, InstantDelta + 1)))
      [] pdu.op = "PHY_UPDATE_IND" ->
           IF ctx.state # "WAIT_RX_PHY_UPDATE_IND" THEN c
           ELSE IF pdu.phys = {} THEN EndLocalPhy(c, free)
           ELSE IF RxInstantPassed(pdu) THEN Reason(EndLocalPhy(c, free), "INSTANT_PASSED")
           ELSE Resume(SetLocal(c, [ctx EXCEPT !.state = "WAIT_INSTANT", !.phys = pdu.phys,
                                               !.left = pdu.left]))
      [] pdu.op = "UNKNOWN_RSP" ->
           IF ctx.state \in {"WAIT_RX_PHY_RSP", "WAIT_RX_PHY_UPDATE_IND"}
           THEN EndLocalPhy(c, free) ELSE c
      [] pdu.op = "REJECT_EXT_IND" ->
           IF ctx.state = "WAIT_RX_PHY_UPDATE_IND" THEN EndLocalPhy(c, free) ELSE c
      [] OTHER -> NotAllowedLocal(c)

\* lp_comm_st_wait_rx and lp_comm_complete.
RxFeatureRsp(c, pdu, free) ==
  IF pdu.op \in {"FEATURE_RSP", "UNKNOWN_RSP"}
  THEN NotifyLocal([c EXCEPT !.fex = @ \/ pdu.op = "FEATURE_RSP"], free)
  ELSE NotAllowedLocal(c)

RxLocal(c, pdu, free) ==
  LET ctx == Local(c) IN
    CASE ctx.proc = "PHY_UPDATE" -> RxLocalPhy(c, pdu, free)
      [] ctx.proc = "FEATURE_EXCHANGE" ->
           IF ctx.state = "WAIT_RX" THEN RxFeatureRsp(c, pdu, free) ELSE c
      [] ctx.proc = "CHAN_MAP_UPDATE" -> NotAllowedLocal(c)
      [] OTHER -> c

\* llcp_rp_pu_rx.
RxRemotePhy(c, pdu) ==
  LET ctx == c.remote IN
    CASE pdu.op = "PHY_REQ" /\ ctx.state = "WAIT_RX_PHY_REQ" ->
           LET d == Pause(SetRemote(c, [ctx EXCEPT !.phys = pdu.phys \intersect c.pref])) IN
             IF c.side = Central THEN SendUpdateInd(d, InstantDelta + 1)
             ELSE Tx(SetRemote(d, [d.remote EXCEPT !.state = "WAIT_TX_ACK_PHY_RSP",
                                     !.tx_opcode = "PHY_RSP", !.rx_opcode = "PHY_UPDATE_IND"]),
                     Pdu("PHY_RSP", c.pref, None, 0))
      [] pdu.op = "PHY_UPDATE_IND" /\ ctx.state = "WAIT_RX_PHY_UPDATE_IND" ->
           IF pdu.phys = {} THEN RemoteDone(c)
           ELSE IF RxInstantPassed(pdu) THEN Reason(RemoteDone(c), "INSTANT_PASSED")
           ELSE SetRemote(c, [ctx EXCEPT !.state = "WAIT_INSTANT", !.phys = pdu.phys,
                                         !.left = pdu.left])
      [] pdu.op \in {"PHY_REQ", "PHY_UPDATE_IND"} -> c
      [] OTHER -> NotAllowedRemote(c)

\* llcp_rp_chmu_rx.
RxChanMapInd(c, pdu) ==
  CASE pdu.op # "CHAN_MAP_IND" -> NotAllowedRemote(c)
    [] pdu.op = "CHAN_MAP_IND" /\ c.remote.state # "WAIT_RX" -> c
    [] OTHER -> IF pdu.left = 0 THEN Reason(RemoteDone(c), "INSTANT_PASSED")
                ELSE SetRemote(c, [c.remote EXCEPT !.state = "WAIT_INSTANT", !.left = pdu.left])

\* rp_comm_send_rsp.
SendCommonRsp(c, ctx) ==
  IF ctx.proc = "FEATURE_EXCHANGE"
  THEN RemoteDone(Tx([c EXCEPT !.fex = TRUE], Plain("FEATURE_RSP")))
  ELSE LET d == [c EXCEPT !.paused = @ \union {"TERMINATE"}] IN
         IF c.side = Central THEN SetRemote(d, [ctx EXCEPT !.state = "POSTPONE_TERMINATE"])
         ELSE Reason(RemoteDone(d), "REMOTE_USER_TERM_CONN")

RxRemote(c, pdu) ==
  LET ctx == c.remote IN
    CASE ctx.proc = "PHY_UPDATE" -> RxRemotePhy(c, pdu)
      [] ctx.proc = "CHAN_MAP_UPDATE" -> RxChanMapInd(c, pdu)
      [] ctx.proc \in {"FEATURE_EXCHANGE", "TERMINATE"} /\ ctx.state = "WAIT_RX" ->
           SendCommonRsp(c, ctx)
      [] OTHER -> c

\* new_proc_lut: the procedure an opcode begins, None standing for PROC_UNKNOWN.
Begun(c, op) ==
  CASE op = "PHY_REQ" /\ c.built -> "PHY_UPDATE"
    [] op = "FEATURE_REQ" /\ c.side = Peripheral -> "FEATURE_EXCHANGE"
    [] op = "PER_INIT_FEAT_XCHG" /\ c.side = Central -> "FEATURE_EXCHANGE"
    [] op = "CHAN_MAP_IND" /\ c.side = Peripheral -> "CHAN_MAP_UPDATE"
    [] op = "TERMINATE_IND" -> "TERMINATE"
    [] OTHER -> None

\* proc_with_instant.
WithInstant(proc) == proc \in {"PHY_UPDATE", "CHAN_MAP_UPDATE"}

\* rr_tx of a rejection.  Faulty variant: never the extended one.
RejectIndAlways(c, op) == Plain("REJECT_IND")
Reject(c, op) == IF c.fex THEN Pdu("REJECT_EXT_IND", {}, op, 0) ELSE Plain("REJECT_IND")

\* rr_st_idle on PREPARE, and the reception of the PDU by the procedure it begins.
Prepare(c, proc, pdu) ==
  LET ctx == NewCtx(proc, {})
      Runs(d) == RxRemote(SetRemote(d, [ctx EXCEPT !.state = IF proc = "PHY_UPDATE"
                                                   THEN "WAIT_RX_PHY_REQ" ELSE "WAIT_RX"]), pdu)
  IN
    CASE proc = "TERMINATE" -> Runs(c)
      [] proc = None -> Tx(c, Pdu("UNKNOWN_RSP", {}, pdu.op, 0))
      [] WithInstant(proc) /\ c.incompat = "RESOLVABLE" /\ c.side = Peripheral -> Runs(c)
      [] WithInstant(proc) /\ c.incompat = "RESOLVABLE" /\ c.side = Central ->
           Tx(c, Reject(c, pdu.op))
      [] WithInstant(proc) /\ c.incompat = "RESERVED" ->
           Reason(SetRemote(c, ctx), IF Local(c).proc = proc THEN "LL_PROC_COLLISION"
                                                             ELSE "DIFF_TRANS_COLLISION")
      [] OTHER -> Runs(SetCollision(c, WithInstant(proc)))

\* llcp_rr_new: a termination flushes the peer's other procedures first.
New(c, pdu) ==
  LET proc == Begun(c, pdu.op) IN
    Prepare(IF proc = "TERMINATE" THEN RemoteDone(c) ELSE c, proc, pdu)

Expected(pdu, ctx) ==
  /\ ctx # NoCtx
  /\ \/ ctx.rx_opcode = pdu.op
     \/ pdu.op \in {"UNKNOWN_RSP", "REJECT_EXT_IND"} /\ pdu.about = ctx.tx_opcode

Rx(c, pdu, free) ==
  LET l == Local(c) # NoCtx
      r == c.remote # NoCtx
      expected_l == l /\ (Expected(pdu, Local(c)) \/ pdu.op = "REJECT_IND")
      expected_r == r /\ Expected(pdu, c.remote)
  IN
    CASE pdu.op = "TERMINATE_IND" \/ (~expected_l /\ ~r) -> New(c, pdu)
      [] OTHER ->
           CASE expected_l /\ expected_r -> Reason(c, "ASSERT")
             [] expected_l /\ ~expected_r -> RxLocal(c, pdu, free)
             [] ~expected_l /\ l /\ ~expected_r -> Reason(c, "LOCALHOST_TERM_CONN")
             [] OTHER -> RxRemote(c, pdu)

-----------------------------------------------------------------------------
(* The connection. *)

\* ull_cp_phy_update, ull_cp_chan_map_update, ull_cp_feature_exchange.
Request(s, proc, phys) ==
  /\ ended = None /\ requests[s] < MaxRequests[s]
  /\ proc \in Requests[s] \ {"TERMINATE"}
  /\ proc = "PHY_UPDATE" => cp[s].built
  /\ proc = "CHAN_MAP_UPDATE" => s = Central
  /\ requests' = [requests EXCEPT ![s] = @ + 1]
  /\ cp' = [cp EXCEPT ![s].local = Append(@, NewCtx(proc, phys))]
  /\ UNCHANGED <<stage, attending, ended>>

\* ull_cp_terminate: llcp_lr_abort, then the procedure.
Terminate(s) ==
  /\ ended = None /\ requests[s] < MaxRequests[s]
  /\ "TERMINATE" \in Requests[s]
  /\ requests' = [requests EXCEPT ![s] = MaxRequests[s]]
  /\ cp' = [cp EXCEPT ![s] = [Abort(@) EXCEPT !.local = <<NewCtx("TERMINATE", {})>>]]
  /\ UNCHANGED <<stage, attending, ended>>

\* One event nearer to every instant.
\* Faulty variant: instants that have come are counted on.
NearerBelowZero(ctx) == [ctx EXCEPT !.left = @ - 1]
Nearer(ctx) == [ctx EXCEPT !.left = IF @ = 0 THEN 0 ELSE @ - 1]
Elapse(c) ==
  [c EXCEPT !.local = [i \in DOMAIN @ |-> Nearer(@[i])], !.remote = Nearer(@),
            !.out = [i \in DOMAIN @ |-> Nearer(@[i])]]

\* An event a side skips counts for its instants.  Faulty variant: it does not.
SkipUncounted(c) == c
Skip(c) == Elapse(c)

\* The ticker callbacks of an event; a side may skip it.
Begin(sides, free) ==
  /\ ended = None /\ stage = "run" /\ stage' = "air"
  /\ attending' = sides
  /\ cp' = [s \in Side |-> IF s \in sides THEN Run(Elapse(cp[s]), free) ELSE Skip(cp[s])]
  /\ UNCHANGED <<requests, ended>>

\* The sides hear each other.
Heard == stage = "air" /\ attending = Side /\ cp[Central].phy = cp[Peripheral].phy

\* The PDU at the head of c's queue is received: its acknowledgment is on the way.
Received(c) == [c EXCEPT !.out = Tail(@), !.acked = Head(c.out).op]

\* s receives the next PDU of its peer.  It carries the acknowledgment of what
\* the peer has received, which s takes in first (rx_demux), and acknowledges
\* nothing before the peer has taken in the last acknowledgment.
Deliver(s, free) ==
  LET p == Peer(s) IN
    /\ ended = None /\ Heard
    /\ cp[p].out # <<>> /\ cp[p].acked = None
    /\ cp' = [cp EXCEPT ![s] = Rx(TxNtf(TxAck(@, free), free), Head(cp[p].out), free),
                        ![p] = Received(@)]
    /\ UNCHANGED <<stage, attending, requests, ended>>

\* s receives an acknowledgment with no PDU.
Acknowledge(s, free) ==
  /\ ended = None /\ Heard
  /\ cp[s].acked # None
  /\ cp' = [cp EXCEPT ![s] = TxAck(@, free)]
  /\ UNCHANGED <<stage, attending, requests, ended>>

\* ull_conn_done; the other side ends later, by its supervision timeout.
Done(free) ==
  LET after == [s \in Side |-> IF s \in attending THEN TxNtf(cp[s], free) ELSE cp[s]]
      over == {s \in attending : after[s].reason # None}
  IN
    /\ ended = None /\ stage = "air" /\ stage' = "run"
    /\ attending' = {}
    /\ cp' = after
    /\ IF over = {} THEN UNCHANGED ended ELSE \E s \in over : ended' = after[s].reason
    /\ UNCHANGED requests

\* The supervision timeout of sides that use different PHYs.
Timeout ==
  /\ ended = None /\ stage = "run"
  /\ cp[Central].phy # cp[Peripheral].phy
  /\ ended' = "CONN_TIMEOUT"
  /\ UNCHANGED <<cp, stage, attending, requests>>

\* The slot is used for another connection.
Reconnect ==
  /\ ended # None /\ ended' = None
  /\ cp' \in NewConns
  /\ requests' = [s \in Side |-> 0]
  /\ UNCHANGED <<stage, attending>>

Next ==
  \/ \E s \in Side, proc \in Proc : \E phys \in {{p} : p \in Phy} :
       Request(s, proc, IF proc = "PHY_UPDATE" THEN phys ELSE {})
  \/ \E s \in Side : Terminate(s)
  \/ \E sides \in SUBSET Side, free \in NtfFree : Begin(sides, free)
  \/ \E s \in Side, free \in NtfFree : Deliver(s, free) \/ Acknowledge(s, free)
  \/ \E free \in NtfFree : Done(free)
  \/ Timeout
  \/ Reconnect

Spec == Init /\ [][Next]_vars

\* Events go on; both sides attend again and again, packets get through again
\* and again, and notification buffers come back.
Fairness ==
  /\ SF_vars(Begin(Side, TRUE))
  /\ \A s \in Side : SF_vars(Deliver(s, TRUE) \/ Acknowledge(s, TRUE))
  /\ WF_vars(Done(TRUE)) /\ SF_vars(Timeout)

FairSpec == Spec /\ Fairness

-----------------------------------------------------------------------------
(* Properties. *)

Opcode == {"PHY_REQ", "PHY_RSP", "PHY_UPDATE_IND", "FEATURE_REQ", "PER_INIT_FEAT_XCHG",
           "FEATURE_RSP", "CHAN_MAP_IND", "TERMINATE_IND", "REJECT_IND", "REJECT_EXT_IND",
           "UNKNOWN_RSP"}
Reasons == {"LOCALHOST_TERM_CONN", "REMOTE_USER_TERM_CONN", "INSTANT_PASSED",
            "LMP_PDU_NOT_ALLOWED", "LL_PROC_COLLISION", "DIFF_TRANS_COLLISION",
            "CONN_TIMEOUT", "ASSERT", None}
Ctx == [proc : Proc \union {None},
        state : {"IDLE", "WAIT_TX_ACK_PHY_REQ", "WAIT_RX_PHY_RSP", "WAIT_TX_ACK_PHY_UPDATE_IND",
                 "WAIT_RX_PHY_UPDATE_IND", "WAIT_TX_PHY_UPDATE_IND", "WAIT_TX_ACK_PHY_RSP",
                 "WAIT_RX_PHY_REQ", "WAIT_INSTANT", "WAIT_INSTANT_ON_AIR", "WAIT_NTF", "WAIT_RX", "WAIT_TX_ACK",
                 "POSTPONE_TERMINATE"},
        rx_opcode : Opcode \union {None}, tx_opcode : Opcode \union {None},
        phys : SUBSET Phy, left : 0 .. InstantDelta + 1, ntf : BOOLEAN]
PduType == [op : Opcode, phys : SUBSET Phy, about : Opcode \union {None}, left : 0 .. InstantDelta + 1]
Conn == [side : Side, built : BOOLEAN, local : Seq(Ctx), remote : Ctx,
         incompat : {"NO_COLLISION", "RESOLVABLE", "RESERVED"}, collision : BOOLEAN,
         fex : BOOLEAN, phy : Phy, pref : SUBSET Phy, paused : SUBSET {"PHY_UPDATE", "TERMINATE"},
         out : Seq(PduType), acked : Opcode \union {None}, reason : Reasons]

\* Every variable keeps its type.
TypeOK ==
  /\ cp \in [Side -> Conn] /\ \A s \in Side : cp[s].side = s
  /\ stage \in {"run", "air"} /\ attending \subseteq Side
  /\ requests \in [Side -> Nat] /\ \A s \in Side : requests[s] <= MaxRequests[s]
  /\ ended \in Reasons

\* A Host has ended its side's procedures, or the connection is about to end.
Ending == \E s \in Side : cp[s].reason # None \/ Local(cp[s]).proc = "TERMINATE"

\* A PDU never fits a local and a remote procedure at once: the LL_ASSERT under
\* "This cannot happen" in ull_cp_rx is not reached.
NeverBothExpected == \A s \in Side : cp[s].reason # "ASSERT"

\* It is reached only if the Host of the peer has ended the peer's procedures in
\* a collision, the peripheral's Host has made another request in one, or a
\* finished procedure waits for a notification buffer and still expects its PDU.
BothExpectedOnlyIf ==
  \A s \in Side : cp[s].reason = "ASSERT" =>
    \/ Local(cp[Peer(s)]).proc = "TERMINATE" \/ (s = Peripheral /\ requests[s] > 1)
    \/ Local(cp[s]).state = "WAIT_NTF"

\* A side is in a collision state only while the local procedure that put it
\* there is at the head: rr_tx and rr_st_idle look at its context for the reason
\* to give, without asking whether there is one.
IncompatHasOwner ==
  \A s \in Side : cp[s].incompat # "NO_COLLISION" /\ cp[s].reason = None =>
    WithInstant(Local(cp[s]).proc) /\ Local(cp[s]).state # "IDLE"

\* Of two procedures that collide only one gets as far as an instant, unless a
\* Host has ended the other side's.
OneInstant ==
  (\E s \in Side : Local(cp[s]).state = "WAIT_INSTANT" /\ cp[s].remote.state = "WAIT_INSTANT")
    => Ending

\* The sides of an event use the same PHY, unless a Host has ended its
\* procedures, or the acknowledgment of an indication has not reached the central
\* by the instant, which the peripheral keeps while the central goes on as before.
PhysAgree ==
  stage = "air" /\ attending = Side /\ cp[Central].phy # cp[Peripheral].phy =>
    Ending \/ cp[Central].acked = "PHY_UPDATE_IND"

\* Data is paused for PHY update only while such a procedure is there to resume
\* it.  A peer without PHY update leaves a central's data paused for ever.
PausedForProcedure ==
  \A s \in Side : "PHY_UPDATE" \in cp[s].paused =>
    \/ cp[s].remote.proc = "PHY_UPDATE" \/ Local(cp[s]).proc = "PHY_UPDATE"
    \/ Ending \/ (s = Central /\ ~cp[Peripheral].built)

\* While no Host has ended its procedures a collision, or a request that comes
\* early, costs the connection in three cases.  The central, which does not know
\* the peripheral's features yet, rejects a request with REJECT_IND, which
\* llcp_lp_pu_rx takes for an error.  The peripheral makes another request while
\* the central's goes on: in a peripheral collision rr_st_idle does not hold the
\* local procedures back.  The request meets a procedure that has been carried
\* out and still waits for a notification buffer.
CollisionsSurvived ==
  [][\A s \in Side :
       /\ cp[s].reason = None
       /\ cp'[s].reason \in {"LMP_PDU_NOT_ALLOWED", "LL_PROC_COLLISION", "DIFF_TRANS_COLLISION"}
       => \/ \E t \in Side : Local(cp[t]).proc = "TERMINATE"
          \/ s = Peripheral /\ cp'[s].reason = "LMP_PDU_NOT_ALLOWED" /\ ~cp[s].fex
          \/ s = Central /\ cp'[s].reason = "LL_PROC_COLLISION" /\ requests[Peripheral] > 1
          \/ cp[s].remote.state \in {"WAIT_INSTANT_ON_AIR", "WAIT_NTF"}]_vars

\* The procedures of both sides, local and remote, come to an end, or the
\* connection does: no collision leaves a side waiting for ever.
Busy == \E s \in Side : cp[s].local # <<>> \/ cp[s].remote # NoCtx
ProceduresEnd == Busy ~> ~Busy \/ ended # None
=============================================================================
