----------------------- MODULE ControlProceduresProofs -----------------------
(***************************************************************************)
(* Proofs about ControlProcedures for any PHYs, any requests and any delay *)
(* of instants: the types, that a side in a collision state has the local  *)
(* procedure that put it there, that data paused for a PHY update has a    *)
(* procedure that will resume it, and that no side waits for two instants. *)
(*                                                                         *)
(* The handlers are functions on the record of a side, so the proofs are   *)
(* about functions: each keeps the record typed and owned, from the single *)
(* field updates up to ull_cp_run and ull_cp_rx.  The second half goes     *)
(* through them again for the pause: Goes says what a handler makes of the *)
(* side, Fine what it makes of the pause as well.                          *)
(***************************************************************************)
EXTENDS ControlProcedures, SequenceTheorems, TLAPS

\* Whoever is in a collision state has a local procedure with an instant, which
\* has sent its request and has not been carried out yet.
Owned(c) ==
  c.incompat # "NO_COLLISION" /\ c.reason = None =>
    /\ WithInstant(Local(c).proc)
    /\ Local(c).state \notin {"IDLE", "WAIT_INSTANT_ON_AIR", "WAIT_NTF"}

Good(c) == c \in Conn /\ Owned(c)

\* What a handler makes of a side.
Kept(c, d) == Good(d) /\ d.side = c.side

\* d has what Owned looks at from c.
Frame(c, d) ==
  d.side = c.side /\ d.local = c.local /\ d.incompat = c.incompat /\ d.reason = c.reason

\* A step that leaves alone what Owned looks at keeps the side.
LEMMA FrameKept ==
  ASSUME NEW c, Good(c), NEW d \in Conn, Frame(c, d)
  PROVE  Kept(c, d)
  BY DEF Good, Kept, Owned, Frame, Local

-----------------------------------------------------------------------------
(* The constants, contexts, PDUs and fields. *)

\* The delay of an instant is a count of events in range.
LEMMA Delta == InstantDelta \in Nat /\ InstantDelta \in 0 .. InstantDelta + 1
               /\ InstantDelta + 1 \in 0 .. InstantDelta + 1 /\ 0 \in 0 .. InstantDelta + 1
  BY ProcedureAssumption

\* A new procedure is a context; the context of none is idle.
LEMMA NewCtxTyped ==
  ASSUME NEW proc \in Proc \union {None}, NEW phys \in SUBSET Phy
  PROVE  NewCtx(proc, phys) \in Ctx /\ NoCtx \in Ctx
         /\ NoCtx.proc = None /\ NoCtx.state = "IDLE"
  BY Delta DEF NewCtx, NoCtx, Ctx, Opcode, None

\* A PDU of typed parts is typed.
LEMMA PduTyped ==
  ASSUME NEW op \in Opcode, NEW phys \in SUBSET Phy, NEW about \in Opcode \union {None},
         NEW left \in 0 .. InstantDelta + 1
  PROVE  Pdu(op, phys, about, left) \in PduType
  BY DEF Pdu, PduType

\* So is one that is only an opcode.
LEMMA PlainTyped ==
  ASSUME NEW op \in Opcode
  PROVE  Plain(op) \in PduType
  BY PduTyped, Delta DEF Plain

\* The types of the fields of a side.
LEMMA Fields ==
  ASSUME NEW c \in Conn
  PROVE  /\ c.side \in Side /\ c.built \in BOOLEAN /\ c.local \in Seq(Ctx) /\ c.remote \in Ctx
         /\ c.incompat \in {"NO_COLLISION", "RESOLVABLE", "RESERVED"} /\ c.collision \in BOOLEAN
         /\ c.fex \in BOOLEAN /\ c.phy \in Phy /\ c.pref \in SUBSET Phy
         /\ c.paused \in SUBSET {"PHY_UPDATE", "TERMINATE"} /\ c.out \in Seq(PduType)
         /\ c.acked \in Opcode \union {None} /\ c.reason \in Reasons
  BY DEF Conn

\* One lemma per field: updating it keeps the record typed and the others as they are.
LEMMA SetLocalField ==
  ASSUME NEW c \in Conn, NEW q \in Seq(Ctx)
  PROVE  LET d == [c EXCEPT !.local = q]
         IN  d \in Conn /\ d.local = q /\ d.side = c.side /\ d.incompat = c.incompat /\ d.reason = c.reason
  BY DEF Conn

\* The same of "remote".
LEMMA SetRemoteField ==
  ASSUME NEW c \in Conn, NEW x \in Ctx
  PROVE  LET d == [c EXCEPT !.remote = x] IN d \in Conn /\ Frame(c, d) /\ d.remote = x
  BY DEF Conn, Frame

\* The same of "incompat".
LEMMA SetIncompatField ==
  ASSUME NEW c \in Conn, NEW x \in {"NO_COLLISION", "RESOLVABLE", "RESERVED"}
  PROVE  LET d == [c EXCEPT !.incompat = x]
         IN  d \in Conn /\ d.incompat = x /\ d.side = c.side /\ d.local = c.local /\ d.reason = c.reason
  BY DEF Conn

\* The same of "reason".
LEMMA SetReasonField ==
  ASSUME NEW c \in Conn, NEW x \in Reasons
  PROVE  LET d == [c EXCEPT !.reason = x]
         IN  d \in Conn /\ d.reason = x /\ d.side = c.side /\ d.local = c.local /\ d.incompat = c.incompat
  BY DEF Conn

\* The same of "collision".
LEMMA SetCollisionField ==
  ASSUME NEW c \in Conn, NEW x \in BOOLEAN
  PROVE  LET d == [c EXCEPT !.collision = x] IN d \in Conn /\ Frame(c, d)
  BY DEF Conn, Frame

\* The same of "fex".
LEMMA SetFexField ==
  ASSUME NEW c \in Conn, NEW x \in BOOLEAN
  PROVE  LET d == [c EXCEPT !.fex = x] IN d \in Conn /\ Frame(c, d)
  BY DEF Conn, Frame

\* The same of "phy".
LEMMA SetPhyField ==
  ASSUME NEW c \in Conn, NEW x \in Phy
  PROVE  LET d == [c EXCEPT !.phy = x] IN d \in Conn /\ Frame(c, d)
  BY DEF Conn, Frame

\* The same of "pref".
LEMMA SetPrefField ==
  ASSUME NEW c \in Conn, NEW x \in SUBSET Phy
  PROVE  LET d == [c EXCEPT !.pref = x] IN d \in Conn /\ Frame(c, d)
  BY DEF Conn, Frame

\* The same of "paused".
LEMMA SetPausedField ==
  ASSUME NEW c \in Conn, NEW x \in SUBSET {"PHY_UPDATE", "TERMINATE"}
  PROVE  LET d == [c EXCEPT !.paused = x] IN d \in Conn /\ Frame(c, d) /\ d.remote = c.remote
  BY DEF Conn, Frame

\* The same of "out".
LEMMA SetOutField ==
  ASSUME NEW c \in Conn, NEW x \in Seq(PduType)
  PROVE  LET d == [c EXCEPT !.out = x] IN d \in Conn /\ Frame(c, d)
  BY DEF Conn, Frame

\* The same of "acked".
LEMMA SetAckedField ==
  ASSUME NEW c \in Conn, NEW x \in Opcode \union {None}
  PROVE  LET d == [c EXCEPT !.acked = x] IN d \in Conn /\ Frame(c, d)
  BY DEF Conn, Frame

-----------------------------------------------------------------------------
(* The primitives of the handlers. *)

\* What is kept twice is kept.
LEMMA KeptTwice ==
  ASSUME NEW c, NEW d, NEW e, Kept(c, d), Kept(d, e)
  PROVE  Kept(c, e)
  BY DEF Kept

\* A side keeps itself.
LEMMA KeptSelf ==
  ASSUME NEW c, Good(c)
  PROVE  Kept(c, c)
  BY DEF Kept

\* The local procedure is a context, and without one it is idle and none.
LEMMA LocalTyped ==
  ASSUME NEW c \in Conn
  PROVE  /\ Local(c) \in Ctx
         /\ Local(c).state # "IDLE" \/ Local(c).proc # None => c.local # <<>>
  <1>1. c.local \in Seq(Ctx)
    BY Fields
  <1>2. NoCtx \in Ctx /\ NoCtx.proc = None /\ NoCtx.state = "IDLE"
    BY NewCtxTyped
  <1>3. CASE c.local = <<>>
    BY <1>2, <1>3 DEF Local
  <1>4. CASE c.local # <<>>
    BY <1>1, <1>4, HeadTailProperties DEF Local
  <1>5. QED BY <1>3, <1>4

\* Replacing the local procedure replaces Local, and nothing else.
LEMMA SetLocalFrame ==
  ASSUME NEW c \in Conn, c.local # <<>>, NEW ctx \in Ctx
  PROVE  LET d == SetLocal(c, ctx)
         IN  d \in Conn /\ Local(d) = ctx /\ d.side = c.side
             /\ d.incompat = c.incompat /\ d.reason = c.reason
  <1> DEFINE q == [c.local EXCEPT ![1] = ctx]
  <1>1. c.local \in Seq(Ctx) /\ Len(c.local) \in Nat \ {0}
    BY Fields, EmptySeq
  <1>2. q \in Seq(Ctx) /\ Len(q) = Len(c.local) /\ q[1] = ctx
    BY <1>1, ExceptSeq
  <1>3. q # <<>> /\ Head(q) = ctx
    BY <1>1, <1>2, EmptySeq
  <1>4. SetLocal(c, ctx) = [c EXCEPT !.local = q]
    BY DEF SetLocal, Conn
  <1> HIDE DEF q
  <1> DEFINE d == [c EXCEPT !.local = q]
  <1>5. d \in Conn /\ d.local = q /\ d.side = c.side /\ d.incompat = c.incompat /\ d.reason = c.reason
    BY <1>2, SetLocalField
  <1>6. Local(d) = ctx
    BY <1>3, <1>5 DEF Local
  <1> HIDE DEF d
  <1>7. QED BY <1>4, <1>5, <1>6 DEF d

\* A side may take on any collision state together with a procedure that owns it.
LEMMA HoldKept ==
  ASSUME NEW c, Good(c), c.local # <<>>, NEW ctx \in Ctx,
         NEW i \in {"NO_COLLISION", "RESOLVABLE", "RESERVED"},
         i # "NO_COLLISION" /\ c.reason = None =>
           WithInstant(ctx.proc) /\ ctx.state \notin {"IDLE", "WAIT_INSTANT_ON_AIR", "WAIT_NTF"}
  PROVE  Kept(c, SetLocal(Incompat(c, i), ctx))
  <1> DEFINE d == Incompat(c, i)
  <1>1. d \in Conn /\ d.local = c.local /\ d.incompat = i /\ d.side = c.side /\ d.reason = c.reason
    BY SetIncompatField DEF Incompat, Good
  <1>2. QED BY <1>1, SetLocalFrame DEF Kept, Good, Owned

\* A step of a local procedure that still owns what it has owned.
LEMMA SetLocalKept ==
  ASSUME NEW c, Good(c), c.local # <<>>, NEW ctx \in Ctx,
         c.incompat # "NO_COLLISION" /\ c.reason = None =>
           WithInstant(ctx.proc) /\ ctx.state \notin {"IDLE", "WAIT_INSTANT_ON_AIR", "WAIT_NTF"}
  PROVE  Kept(c, SetLocal(c, ctx))
  BY SetLocalFrame DEF Kept, Good, Owned

\* The collision state is over, or the connection is.
Free(c) == c.incompat = "NO_COLLISION" \/ c.reason # None

\* A local procedure that owns nothing may end.
LEMMA LocalDoneKept ==
  ASSUME NEW c, Good(c), c.local # <<>>, Free(c)
  PROVE  Kept(c, LocalDone(c))
  <1>1. Tail(c.local) \in Seq(Ctx)
    BY Fields, HeadTailProperties DEF Good
  <1>2. QED BY <1>1, SetLocalField DEF LocalDone, Kept, Good, Owned, Free

\* Clearing the collision state keeps the side and leaves it free.
LEMMA ClearKept ==
  ASSUME NEW c, Good(c)
  PROVE  LET d == Incompat(c, "NO_COLLISION")
         IN  Kept(c, d) /\ Free(d) /\ d.local = c.local /\ Local(d) = Local(c)
  <1> DEFINE d == Incompat(c, "NO_COLLISION")
  <1>1. d \in Conn /\ d.incompat = "NO_COLLISION" /\ d.side = c.side /\ d.local = c.local
    BY SetIncompatField DEF Incompat, Good
  <1> HIDE DEF d
  <1>2. QED BY <1>1 DEF d, Kept, Good, Owned, Free, Local

\* A reason to end the connection excuses whatever the local procedure is.
LEMMA ReasonKept ==
  ASSUME NEW c \in Conn, NEW r \in Reasons, r # None
  PROVE  LET d == Reason(c, r) IN d \in Conn /\ Owned(d) /\ d.side = c.side
  BY SetReasonField DEF Reason, Owned

\* The same, of a side that is good.
LEMMA ReasonOfGood ==
  ASSUME NEW c, Good(c), NEW r \in Reasons, r # None
  PROVE  Kept(c, Reason(c, r))
  BY ReasonKept DEF Kept, Good

\* A local procedure may end with the connection.
LEMMA NotAllowedLocalKept ==
  ASSUME NEW c, Good(c), c.local # <<>>, NEW r \in Reasons, r # None
  PROVE  Kept(c, Reason(LocalDone(c), r))
  <1>1. Tail(c.local) \in Seq(Ctx)
    BY Fields, HeadTailProperties DEF Good
  <1>2. LocalDone(c) \in Conn /\ LocalDone(c).side = c.side
    BY <1>1, SetLocalField DEF LocalDone, Good
  <1>3. QED BY <1>2, ReasonKept DEF Kept, Good

\* Queueing a PDU, pausing and resuming data, and using a PHY.
LEMMA TxKept ==
  ASSUME NEW c, Good(c), NEW pdu \in PduType
  PROVE  Kept(c, Tx(c, pdu))
  <1>1. Append(c.out, pdu) \in Seq(PduType)
    BY Fields DEF Good
  <1>2. QED BY <1>1, SetOutField, FrameKept DEF Tx, Good

\* Pausing data keeps the side and its remote procedure.
LEMMA PauseKept ==
  ASSUME NEW c, Good(c)
  PROVE  Kept(c, Pause(c)) /\ Pause(c).remote = c.remote
  <1>1. c.paused \union {"PHY_UPDATE"} \in SUBSET {"PHY_UPDATE", "TERMINATE"}
    BY Fields DEF Good
  <1>2. QED BY <1>1, SetPausedField, FrameKept DEF Pause, Good

\* Resuming data keeps the side.
LEMMA ResumeKept ==
  ASSUME NEW c, Good(c)
  PROVE  Kept(c, Resume(c))
  <1>1. c.paused \ {"PHY_UPDATE"} \in SUBSET {"PHY_UPDATE", "TERMINATE"}
    BY Fields DEF Good
  <1>2. QED BY <1>1, SetPausedField, FrameKept DEF Resume, Good

\* Using the PHY that was agreed keeps the side (pu_apply_phy_update).
LEMMA ApplyKept ==
  ASSUME NEW c, Good(c), NEW phys \in SUBSET Phy
  PROVE  Kept(c, Apply(c, phys)) /\ Apply(c, phys).local = c.local
  <1>1. CASE phys = {}
    BY <1>1, KeptSelf DEF Apply
  <1>2. CASE phys # {}
    <2> DEFINE x == CHOOSE p \in phys : TRUE
               d == [c EXCEPT !.phy = x]
    <2>1. x \in Phy
      BY <1>2
    <2>2. Apply(c, phys) = d
      BY <1>2 DEF Apply
    <2> HIDE DEF x
    <2>3. d \in Conn /\ Frame(c, d)
      BY <2>1, SetPhyField DEF Good
    <2> HIDE DEF d
    <2>4. QED BY <2>2, <2>3, FrameKept DEF Frame
  <1>3. QED BY <1>1, <1>2

\* The remote procedure owns nothing: whatever becomes of it is kept.
LEMMA SetRemoteKept ==
  ASSUME NEW c, Good(c), NEW ctx \in Ctx
  PROVE  Kept(c, SetRemote(c, ctx)) /\ SetRemote(c, ctx).remote = ctx
  BY SetRemoteField, FrameKept DEF SetRemote, Good

\* So does the end of the remote procedure (rr_act_complete).
LEMMA RemoteDoneKept ==
  ASSUME NEW c, Good(c)
  PROVE  Kept(c, RemoteDone(c))
  <1> DEFINE d == [c EXCEPT !.remote = NoCtx]
  <1>1. d \in Conn /\ Frame(c, d)
    BY NewCtxTyped, SetRemoteField DEF Good
  <1>2. RemoteDone(c) = [d EXCEPT !.collision = FALSE]
    BY DEF RemoteDone, Good, Conn
  <1>3. RemoteDone(c) \in Conn /\ Frame(d, RemoteDone(c))
    BY <1>1, <1>2, SetCollisionField
  <1>4. QED BY <1>1, <1>3, FrameKept DEF Frame

\* The flag that holds local procedures back is nothing Owned looks at.
LEMMA SetCollisionKept ==
  ASSUME NEW c, Good(c), NEW b \in BOOLEAN
  PROVE  Kept(c, SetCollision(c, b))
  BY SetCollisionField, FrameKept DEF SetCollision, Good

-----------------------------------------------------------------------------
(* The handlers of RUN. *)

\* The set of PHYs a context carries is one of PHYs.
LEMMA CtxFields ==
  ASSUME NEW ctx \in Ctx
  PROVE  ctx.phys \in SUBSET Phy /\ ctx.proc \in Proc \union {None} /\ ctx.left \in 0 .. InstantDelta + 1
         /\ ctx.ntf \in BOOLEAN
  BY DEF Ctx

\* A side that owns a collision runs its local procedure, and no other is free.
LEMMA Owner ==
  ASSUME NEW c, Good(c)
  PROVE  /\ c.incompat # "NO_COLLISION" /\ c.reason = None => WithInstant(Local(c).proc)
         /\ ~WithInstant(Local(c).proc) => Free(c)
         /\ Local(c).state \in {"IDLE", "WAIT_INSTANT_ON_AIR", "WAIT_NTF"} => Free(c)
  BY DEF Good, Owned, Free

\* A local procedure that owns nothing may notify its Host and end, or wait.
LEMMA NotifyLocalKept ==
  ASSUME NEW c, Good(c), c.local # <<>>, Free(c), NEW free \in BOOLEAN
  PROVE  Kept(c, NotifyLocal(c, free))
  <1>1. [Local(c) EXCEPT !.state = "WAIT_NTF"] \in Ctx
    BY LocalTyped DEF Good, Ctx
  <1>2. QED BY <1>1, LocalDoneKept, SetLocalKept DEF NotifyLocal, Free

\* A remote procedure may do so at any time.
LEMMA NotifyRemoteKept ==
  ASSUME NEW c, Good(c), NEW free \in BOOLEAN
  PROVE  Kept(c, NotifyRemote(c, free))
  <1>1. [c.remote EXCEPT !.state = "WAIT_NTF"] \in Ctx
    BY Fields DEF Good, Ctx
  <1>2. QED BY <1>1, SetRemoteKept, RemoteDoneKept DEF NotifyRemote

\* The request for PHYs takes on a collision state with its procedure (lp_pu_send_phy_req).
LEMMA SendPhyReqKept ==
  ASSUME NEW c, Good(c), Local(c).proc = "PHY_UPDATE"
  PROVE  Kept(c, SendPhyReq(c, Local(c)))
  <1> DEFINE ctx == Local(c)
             new == [ctx EXCEPT !.state = "WAIT_TX_ACK_PHY_REQ", !.tx_opcode = "PHY_REQ"]
             a == [c EXCEPT !.pref = ctx.phys]
             b == SetLocal(Incompat(a, "RESOLVABLE"), new)
             d == Tx(b, Pdu("PHY_REQ", ctx.phys, None, 0))
  <1>1. c \in Conn /\ ctx \in Ctx /\ c.local # <<>>
    BY LocalTyped DEF Good, None
  <1>2. new \in Ctx /\ new.proc = "PHY_UPDATE" /\ new.state = "WAIT_TX_ACK_PHY_REQ"
    BY <1>1 DEF Ctx, Opcode
  <1>3. Kept(c, a) /\ a.local = c.local
    <2>1. ctx.phys \in SUBSET Phy
      BY <1>1, CtxFields
    <2> HIDE DEF ctx
    <2>2. a \in Conn /\ Frame(c, a)
      BY <1>1, <2>1, SetPrefField
    <2>3. QED BY <2>2, FrameKept DEF Frame
  <1>4. Pdu("PHY_REQ", ctx.phys, None, 0) \in PduType
    BY <1>1, CtxFields, PduTyped, Delta DEF Opcode
  <1> HIDE DEF new, a
  <1>5. Kept(a, b)
    BY <1>1, <1>2, <1>3, HoldKept DEF WithInstant, Kept
  <1> HIDE DEF b, ctx
  <1>6. Kept(b, d)
    BY <1>4, <1>5, TxKept DEF Kept
  <1> HIDE DEF d
  <1>7. Kept(d, Pause(d))
    BY <1>6, PauseKept DEF Kept
  <1>8. SendPhyReq(c, ctx) = Pause(d)
    BY DEF SendPhyReq, d, b, a, new
  <1>9. QED BY <1>3, <1>5, <1>6, <1>7, <1>8, KeptTwice DEF ctx

\* So does the channel map indication (lp_chmu_send_channel_map_update_ind).
LEMMA SendChanMapIndKept ==
  ASSUME NEW c, Good(c), Local(c).proc = "CHAN_MAP_UPDATE"
  PROVE  Kept(c, SendChanMapInd(c, Local(c)))
  <1> DEFINE ctx == Local(c)
             new == [ctx EXCEPT !.state = "WAIT_INSTANT", !.left = InstantDelta]
             b == SetLocal(Incompat(c, "RESOLVABLE"), new)
  <1>1. ctx \in Ctx /\ c.local # <<>>
    BY LocalTyped DEF Good, None
  <1>2. new \in Ctx /\ new.proc = "CHAN_MAP_UPDATE" /\ new.state = "WAIT_INSTANT"
    BY <1>1, Delta DEF Ctx
  <1>3. Pdu("CHAN_MAP_IND", {}, None, InstantDelta) \in PduType
    BY PduTyped, Delta DEF Opcode
  <1> HIDE DEF new
  <1>4. Kept(c, b)
    BY <1>1, <1>2, HoldKept DEF WithInstant
  <1>5. SendChanMapInd(c, ctx) = Tx(b, Pdu("CHAN_MAP_IND", {}, None, InstantDelta))
    BY DEF SendChanMapInd, new
  <1> HIDE DEF b
  <1>6. QED BY <1>3, <1>4, <1>5, TxKept, KeptTwice DEF Kept

\* The requests without an instant take on none, and are free (lp_comm_send_req).
LEMMA SendCommonKept ==
  ASSUME NEW c, Good(c), Local(c).proc \in {"FEATURE_EXCHANGE", "TERMINATE"}
  PROVE  Kept(c, SendCommon(c, Local(c)))
  <1> DEFINE ctx == Local(c)
  <1>1. ctx \in Ctx /\ c.local # <<>> /\ Free(c)
    BY LocalTyped, Owner DEF Good, None, WithInstant
  <1>2. ASSUME NEW op \in Opcode, NEW new \in Ctx
        PROVE  Kept(c, Tx(SetLocal(c, new), Plain(op)))
    <2>1. Kept(c, SetLocal(c, new))
      BY <1>1, SetLocalKept DEF Free
    <2>2. Plain(op) \in PduType
      BY PlainTyped
    <2>3. QED BY <2>1, <2>2, TxKept, KeptTwice DEF Kept
  <1>3. [ctx EXCEPT !.state = "WAIT_TX_ACK", !.tx_opcode = "TERMINATE_IND"] \in Ctx
    BY <1>1 DEF Ctx, Opcode
  <1>4. \A op \in Opcode :
          [ctx EXCEPT !.state = "WAIT_RX", !.tx_opcode = op, !.rx_opcode = "FEATURE_RSP"] \in Ctx
    BY <1>1 DEF Ctx, Opcode
  <1>5. {"TERMINATE_IND", "FEATURE_REQ", "PER_INIT_FEAT_XCHG"} \subseteq Opcode
    BY DEF Opcode
  <1> HIDE DEF ctx
  <1>6. CASE ctx.proc = "TERMINATE"
    BY <1>2, <1>3, <1>5, <1>6 DEF SendCommon, ctx
  <1>7. CASE ctx.proc # "TERMINATE"
    BY <1>2, <1>4, <1>5, <1>7 DEF SendCommon, ctx
  <1>8. QED BY <1>6, <1>7

\* Whatever the local procedure, its request keeps the side.
LEMMA SendRequestKept ==
  ASSUME NEW c, Good(c)
  PROVE  Kept(c, SendRequest(c))
  BY SendPhyReqKept, SendChanMapIndKept, SendCommonKept, KeptSelf DEF SendRequest

\* The instant of a PHY update ends the collision (lp_pu_check_instant).
LEMMA PhyInstantKept ==
  ASSUME NEW c, Good(c), c.local # <<>>
  PROVE  Kept(c, PhyInstant(c, Local(c)))
  <1> DEFINE ctx == Local(c)
             a == Apply(c, ctx.phys)
             new == [ctx EXCEPT !.state = "WAIT_INSTANT_ON_AIR"]
  <1>1. ctx \in Ctx /\ new \in Ctx
    BY LocalTyped DEF Good, Ctx
  <1>2. ctx.phys \in SUBSET Phy
    BY <1>1, CtxFields
  <1> HIDE DEF ctx, new
  <1>3. Kept(c, a) /\ a.local = c.local
    BY <1>2, ApplyKept
  <1> HIDE DEF a
  <1>4. Kept(a, SetLocal(Incompat(a, "NO_COLLISION"), new))
    BY <1>1, <1>3, HoldKept DEF Kept
  <1>5. PhyInstant(c, ctx) = SetLocal(Incompat(a, "NO_COLLISION"), new)
    BY DEF PhyInstant, a, new
  <1>6. QED BY <1>3, <1>4, <1>5, KeptTwice DEF ctx

\* So does that of a channel map update (lp_chmu_check_instant).
LEMMA ChanMapInstantKept ==
  ASSUME NEW c, Good(c), c.local # <<>>
  PROVE  Kept(c, ChanMapInstant(c))
  <1> DEFINE d == Incompat(c, "NO_COLLISION")
  <1>1. Kept(c, d) /\ Free(d) /\ d.local = c.local
    BY ClearKept
  <1>2. ChanMapInstant(c) = LocalDone(d)
    BY DEF ChanMapInstant
  <1> HIDE DEF d
  <1>3. QED BY <1>1, <1>2, LocalDoneKept, KeptTwice DEF Kept

\* RUN of the local machine keeps the side.
LEMMA RunLocalKept ==
  ASSUME NEW c, Good(c), NEW free \in BOOLEAN
  PROVE  Kept(c, RunLocal(c, free))
  <1>1. Local(c).state # "IDLE" => c.local # <<>>
    BY LocalTyped DEF Good
  <1>2. Local(c).state = "WAIT_NTF" => Free(c)
    BY Owner
  <1>3. QED BY <1>1, <1>2, SendRequestKept, PhyInstantKept, ChanMapInstantKept, NotifyLocalKept,
               KeptSelf DEF RunLocal

\* The central's indication, sent or postponed, changes only the remote procedure.
LEMMA SendUpdateIndKept ==
  ASSUME NEW c, Good(c), NEW left \in 0 .. InstantDelta + 1
  PROVE  Kept(c, SendUpdateInd(c, left))
  <1> DEFINE phys == Chosen(c, c.remote.phys)
             wait == [c.remote EXCEPT !.state = "WAIT_TX_PHY_UPDATE_IND"]
             sent == [c.remote EXCEPT !.state = "WAIT_TX_ACK_PHY_UPDATE_IND", !.phys = phys,
                                      !.left = left, !.tx_opcode = "PHY_UPDATE_IND"]
             pdu == Pdu("PHY_UPDATE_IND", phys, None, left)
  <1>1. c.remote \in Ctx
    BY Fields DEF Good
  <1>2. phys \in SUBSET Phy
    BY <1>1, CtxFields DEF Chosen
  <1> HIDE DEF phys
  <1>3. wait \in Ctx
    BY <1>1 DEF Ctx
  <1>4. sent \in Ctx
    BY <1>1, <1>2 DEF Ctx, Opcode
  <1>5. pdu \in PduType
    BY <1>2, PduTyped DEF Opcode
  <1>6. SendUpdateInd(c, left) \in {SetRemote(c, wait), Tx(SetRemote(c, sent), pdu)}
    BY DEF SendUpdateInd, phys
  <1> HIDE DEF wait, sent, pdu
  <1>7. Kept(c, SetRemote(c, wait)) /\ Kept(c, SetRemote(c, sent))
    BY <1>3, <1>4, SetRemoteKept
  <1>8. Kept(c, Tx(SetRemote(c, sent), pdu))
    BY <1>5, <1>7, TxKept, KeptTwice DEF Kept
  <1>9. QED BY <1>6, <1>7, <1>8

\* RUN of the remote machine keeps the side.
LEMMA RunRemoteKept ==
  ASSUME NEW c, Good(c), NEW free \in BOOLEAN
  PROVE  Kept(c, RunRemote(c, free))
  <1> DEFINE ctx == c.remote
             a == Apply(c, ctx.phys)
             new == [ctx EXCEPT !.state = "WAIT_INSTANT_ON_AIR", !.ntf = TRUE]
  <1>1. ctx \in Ctx /\ ctx.phys \in SUBSET Phy /\ new \in Ctx
    BY Fields, CtxFields DEF Good, Ctx
  <1>2. Kept(c, SetRemote(a, new))
    <2>1. Kept(c, a)
      BY <1>1, ApplyKept
    <2> HIDE DEF a, new
    <2>2. QED BY <1>1, <2>1, SetRemoteKept, KeptTwice DEF Kept
  <1>3. Kept(c, Reason(RemoteDone(c), "REMOTE_USER_TERM_CONN"))
    <2>1. "REMOTE_USER_TERM_CONN" \in Reasons /\ "REMOTE_USER_TERM_CONN" # None
      BY DEF Reasons, None
    <2>2. QED BY <2>1, RemoteDoneKept, ReasonOfGood, KeptTwice DEF Kept
  <1>4. Kept(c, SendUpdateInd(c, InstantDelta))
    BY Delta, SendUpdateIndKept
  <1>5. QED BY <1>2, <1>3, <1>4, RemoteDoneKept, NotifyRemoteKept, KeptSelf DEF RunRemote

\* ull_cp_run keeps the side.
LEMMA RunKept ==
  ASSUME NEW c, Good(c), NEW free \in BOOLEAN
  PROVE  Kept(c, Run(c, free))
  <1>1. Kept(c, RunRemote(c, free))
    BY RunRemoteKept
  <1>2. QED BY <1>1, RunLocalKept, KeptTwice DEF Run, Kept

-----------------------------------------------------------------------------
(* The handlers of the end of an event and of an acknowledgment. *)

\* ull_cp_tx_ntf keeps the side: a procedure whose instant is on air is free.
LEMMA TxNtfKept ==
  ASSUME NEW c, Good(c), NEW free \in BOOLEAN
  PROVE  Kept(c, TxNtf(c, free))
  <1> DEFINE l == IF Local(c).state = "WAIT_INSTANT_ON_AIR" THEN NotifyLocal(c, free) ELSE c
  <1>1. Kept(c, l)
    <2>1. CASE Local(c).state = "WAIT_INSTANT_ON_AIR"
      BY <2>1, LocalTyped, Owner, NotifyLocalKept DEF Good
    <2>2. QED BY <2>1, KeptSelf
  <1> HIDE DEF l
  <1>2. TxNtf(c, free) = IF l.remote.state = "WAIT_INSTANT_ON_AIR" THEN NotifyRemote(l, free) ELSE l
    BY DEF TxNtf, l
  <1>3. QED BY <1>1, <1>2, NotifyRemoteKept, KeptTwice DEF Kept

\* A step of a local procedure that has sent its request, whatever else it changes.
LEMMA StepKept ==
  ASSUME NEW c, Good(c), NEW ctx \in Ctx, c.local # <<>>,
         ctx.proc = Local(c).proc,
         ctx.state \notin {"IDLE", "WAIT_INSTANT_ON_AIR", "WAIT_NTF"}
  PROVE  Kept(c, SetLocal(c, ctx)) /\ Kept(c, Resume(SetLocal(c, ctx)))
  <1>1. Kept(c, SetLocal(c, ctx))
    BY SetLocalKept, Owner
  <1>2. QED BY <1>1, ResumeKept, KeptTwice DEF Kept

\* An acknowledgment for the local procedure keeps the side.
LEMMA TxAckLocalKept ==
  ASSUME NEW c, Good(c), NEW op, NEW free \in BOOLEAN
  PROVE  Kept(c, TxAckLocal(c, op, free))
  <1> DEFINE ctx == Local(c)
             rsp == [ctx EXCEPT !.state = "WAIT_RX_PHY_RSP", !.rx_opcode = "PHY_RSP"]
             ind == [ctx EXCEPT !.state = "WAIT_RX_PHY_UPDATE_IND", !.rx_opcode = "PHY_UPDATE_IND"]
             inst == [ctx EXCEPT !.state = "WAIT_INSTANT"]
             d == Incompat(c, "NO_COLLISION")
  <1>1. CASE ctx.state \notin {"WAIT_TX_ACK_PHY_REQ", "WAIT_TX_ACK_PHY_UPDATE_IND", "WAIT_TX_ACK"}
    <2>1. TxAckLocal(c, op, free) = c
      BY <1>1 DEF TxAckLocal
    <2>2. QED BY <2>1, KeptSelf
  <1>2. CASE ctx.state \in {"WAIT_TX_ACK_PHY_REQ", "WAIT_TX_ACK_PHY_UPDATE_IND", "WAIT_TX_ACK"}
    <2>1. ctx \in Ctx /\ c.local # <<>>
      BY <1>2, LocalTyped DEF Good
    <2>2. rsp \in Ctx /\ rsp.proc = ctx.proc /\ rsp.state = "WAIT_RX_PHY_RSP"
      BY <2>1 DEF Ctx, Opcode
    <2>3. ind \in Ctx /\ ind.proc = ctx.proc /\ ind.state = "WAIT_RX_PHY_UPDATE_IND"
      BY <2>1 DEF Ctx, Opcode
    <2>4. inst \in Ctx /\ inst.proc = ctx.proc /\ inst.state = "WAIT_INSTANT"
      BY <2>1 DEF Ctx
    <2> HIDE DEF rsp, ind, inst
    <2>5. Kept(c, SetLocal(c, rsp)) /\ Kept(c, Resume(SetLocal(c, ind)))
          /\ Kept(c, Resume(SetLocal(c, inst)))
      BY <2>1, <2>2, <2>3, <2>4, StepKept
    <2>6. Kept(c, Resume(NotifyLocal(d, free)))
      <3>1. Kept(c, d) /\ Free(d) /\ d.local = c.local
        BY ClearKept
      <3> HIDE DEF d
      <3>2. Kept(d, NotifyLocal(d, free))
        BY <2>1, <3>1, NotifyLocalKept DEF Kept
      <3>3. QED BY <3>1, <3>2, ResumeKept, KeptTwice DEF Kept
    <2>7. Kept(c, Reason(LocalDone(c), "LOCALHOST_TERM_CONN"))
      <3>1. "LOCALHOST_TERM_CONN" \in Reasons /\ "LOCALHOST_TERM_CONN" # None
        BY DEF Reasons, None
      <3>2. QED BY <2>1, <3>1, NotAllowedLocalKept
    <2>8. TxAckLocal(c, op, free) \in
            {c, SetLocal(c, rsp), Resume(SetLocal(c, ind)), Resume(SetLocal(c, inst)),
             Resume(NotifyLocal(d, free)), Reason(LocalDone(c), "LOCALHOST_TERM_CONN")}
      BY DEF TxAckLocal, rsp, ind, inst
    <2> HIDE DEF d
    <2>9. QED BY <2>5, <2>6, <2>7, <2>8, KeptSelf
  <1>3. QED BY <1>1, <1>2

\* So does one for the remote procedure.
LEMMA TxAckRemoteKept ==
  ASSUME NEW c, Good(c), NEW op
  PROVE  Kept(c, TxAckRemote(c, op))
  <1> DEFINE ctx == c.remote
             ind == [ctx EXCEPT !.state = "WAIT_RX_PHY_UPDATE_IND"]
             inst == [ctx EXCEPT !.state = "WAIT_INSTANT"]
  <1>1. ind \in Ctx /\ inst \in Ctx
    BY Fields DEF Good, Ctx
  <1>2. TxAckRemote(c, op) \in {c, Resume(SetRemote(c, ind)), Resume(SetRemote(c, inst)),
                                Resume(RemoteDone(c))}
    BY DEF TxAckRemote, AckedUpdateInd
  <1> HIDE DEF ind, inst
  <1>3. Kept(c, SetRemote(c, ind)) /\ Kept(c, SetRemote(c, inst)) /\ Kept(c, RemoteDone(c))
    BY <1>1, SetRemoteKept, RemoteDoneKept
  <1>4. QED BY <1>2, <1>3, ResumeKept, KeptSelf, KeptTwice DEF Kept

\* ull_cp_tx_ack keeps the side.
LEMMA TxAckKept ==
  ASSUME NEW c, Good(c), NEW free \in BOOLEAN
  PROVE  Kept(c, TxAck(c, free))
  <1> DEFINE a == [c EXCEPT !.acked = None]
             b == TxAckLocal(a, c.acked, free)
  <1>1. Kept(c, a)
    BY SetAckedField, FrameKept DEF Good
  <1> HIDE DEF a
  <1>2. Kept(a, b)
    BY <1>1, TxAckLocalKept DEF Kept
  <1> HIDE DEF b
  <1>3. Kept(b, TxAckRemote(b, c.acked))
    BY <1>2, TxAckRemoteKept DEF Kept
  <1>4. TxAck(c, free) = TxAckRemote(b, c.acked)
    BY DEF TxAck, a, b
  <1>5. QED BY <1>1, <1>2, <1>3, <1>4, KeptTwice

-----------------------------------------------------------------------------
(* The handlers of a received PDU. *)

\* The fields of a PDU.
LEMMA PduFields ==
  ASSUME NEW pdu \in PduType
  PROVE  pdu.op \in Opcode /\ pdu.phys \in SUBSET Phy /\ pdu.left \in 0 .. InstantDelta + 1
  BY DEF PduType

\* The reasons a handler gives are reasons.
LEMMA ReasonsGiven ==
  \A r \in {"LMP_PDU_NOT_ALLOWED", "INSTANT_PASSED", "REMOTE_USER_TERM_CONN", "LL_PROC_COLLISION",
            "DIFF_TRANS_COLLISION", "LOCALHOST_TERM_CONN", "ASSERT"} : r \in Reasons /\ r # None
  BY DEF Reasons, None

\* A PDU that is not allowed ends its procedure together with the connection.
LEMMA NotAllowedKept ==
  ASSUME NEW c, Good(c)
  PROVE  /\ c.local # <<>> => Kept(c, NotAllowedLocal(c))
         /\ Kept(c, NotAllowedRemote(c))
  <1>1. Kept(c, NotAllowedRemote(c))
    BY RemoteDoneKept, ReasonOfGood, ReasonsGiven, KeptTwice DEF NotAllowedRemote, Kept
  <1>2. QED BY <1>1, NotAllowedLocalKept, ReasonsGiven DEF NotAllowedLocal

\* The end of a PHY update at its requester ends the collision first.
LEMMA EndLocalPhyKept ==
  ASSUME NEW c, Good(c), c.local # <<>>, NEW free \in BOOLEAN
  PROVE  Kept(c, EndLocalPhy(c, free))
  <1> DEFINE a == Incompat(c, "NO_COLLISION")
             d == NotifyLocal(a, free)
  <1>1. Kept(c, a) /\ Free(a) /\ a.local = c.local
    BY ClearKept
  <1> HIDE DEF a
  <1>2. Kept(c, d)
    BY <1>1, NotifyLocalKept, KeptTwice DEF Kept
  <1> HIDE DEF d
  <1>3. EndLocalPhy(c, free) \in {d, Resume(d)}
    BY DEF EndLocalPhy, d, a
  <1>4. QED BY <1>2, <1>3, ResumeKept, KeptTwice DEF Kept

\* llcp_lp_pu_rx keeps the side.
LEMMA RxLocalPhyKept ==
  ASSUME NEW c, Good(c), Local(c).proc = "PHY_UPDATE", NEW pdu \in PduType, NEW free \in BOOLEAN
  PROVE  Kept(c, RxLocalPhy(c, pdu, free))
  <1> DEFINE ctx == Local(c)
             phys == Chosen(c, ctx.phys \intersect pdu.phys)
             sent == [ctx EXCEPT !.state = "WAIT_TX_ACK_PHY_UPDATE_IND", !.phys = phys,
                                 !.left = InstantDelta + 1, !.rx_opcode = None,
                                 !.tx_opcode = "PHY_UPDATE_IND"]
             ind == Pdu("PHY_UPDATE_IND", phys, None, InstantDelta + 1)
             inst == [ctx EXCEPT !.state = "WAIT_INSTANT", !.phys = pdu.phys, !.left = pdu.left]
             b == SetLocal(Incompat(c, "RESERVED"), sent)
             e == EndLocalPhy(c, free)
  <1>1. ctx \in Ctx /\ c.local # <<>>
    BY LocalTyped DEF Good, None
  <1>2. phys \in SUBSET Phy
    BY <1>1, CtxFields DEF Chosen
  <1> HIDE DEF phys
  <1>3. sent \in Ctx /\ sent.proc = "PHY_UPDATE" /\ sent.state = "WAIT_TX_ACK_PHY_UPDATE_IND"
    BY <1>1, <1>2, Delta DEF Ctx, Opcode
  <1>4. inst \in Ctx /\ inst.proc = ctx.proc /\ inst.state = "WAIT_INSTANT"
    BY <1>1, PduFields DEF Ctx
  <1>5. ind \in PduType
    BY <1>2, PduTyped, Delta DEF Opcode
  <1> HIDE DEF sent, inst, ind
  <1>6. Kept(c, Pause(Tx(b, ind)))
    <2>1. Kept(c, b)
      BY <1>1, <1>3, HoldKept DEF WithInstant
    <2> HIDE DEF b
    <2>2. Kept(c, Tx(b, ind))
      BY <1>5, <2>1, TxKept, KeptTwice DEF Kept
    <2>3. QED BY <2>2, PauseKept, KeptTwice DEF Kept
  <1>7. Kept(c, Resume(SetLocal(c, inst)))
    BY <1>1, <1>4, StepKept
  <1>8. Kept(c, e)
    BY <1>1, EndLocalPhyKept
  <1>9. Kept(c, Reason(e, "INSTANT_PASSED"))
    BY <1>8, ReasonOfGood, ReasonsGiven, KeptTwice DEF Kept
  <1>10. Kept(c, NotAllowedLocal(c))
    BY <1>1, NotAllowedKept
  <1>11. RxLocalPhy(c, pdu, free) \in
           {c, Pause(Tx(b, ind)), Resume(SetLocal(c, inst)), e, Reason(e, "INSTANT_PASSED"),
            NotAllowedLocal(c)}
    BY DEF RxLocalPhy, phys, sent, ind, inst
  <1> HIDE DEF b, e
  <1>12. QED BY <1>6, <1>7, <1>8, <1>9, <1>10, <1>11, KeptSelf

\* A feature exchange has taken on no collision, so it may end.
LEMMA RxFeatureRspKept ==
  ASSUME NEW c, Good(c), Local(c).proc = "FEATURE_EXCHANGE", NEW pdu \in PduType, NEW free \in BOOLEAN
  PROVE  Kept(c, RxFeatureRsp(c, pdu, free))
  <1> DEFINE a == [c EXCEPT !.fex = @ \/ pdu.op = "FEATURE_RSP"]
  <1>1. c.local # <<>> /\ Free(c)
    BY LocalTyped, Owner DEF Good, None, WithInstant
  <1>2. Kept(c, a) /\ Free(a) /\ a.local # <<>>
    <2>1. a \in Conn /\ Frame(c, a)
      BY DEF Good, Conn, Frame
    <2> HIDE DEF a
    <2>2. QED BY <1>1, <2>1, FrameKept DEF Frame, Free
  <1>3. RxFeatureRsp(c, pdu, free) \in {NotifyLocal(a, free), NotAllowedLocal(c)}
    BY DEF RxFeatureRsp
  <1> HIDE DEF a
  <1>4. QED BY <1>1, <1>2, <1>3, NotifyLocalKept, NotAllowedKept, KeptTwice DEF Kept

\* A PDU for the local procedure keeps the side.
LEMMA RxLocalKept ==
  ASSUME NEW c, Good(c), NEW pdu \in PduType, NEW free \in BOOLEAN
  PROVE  Kept(c, RxLocal(c, pdu, free))
  <1>1. Local(c).proc # None => c.local # <<>>
    BY LocalTyped DEF Good
  <1>2. Local(c).proc = "CHAN_MAP_UPDATE" => Kept(c, NotAllowedLocal(c))
    BY <1>1, NotAllowedKept DEF None
  <1>3. QED BY <1>2, RxLocalPhyKept, RxFeatureRspKept, KeptSelf DEF RxLocal

\* llcp_rp_pu_rx keeps the side.
LEMMA RxRemotePhyKept ==
  ASSUME NEW c, Good(c), NEW pdu \in PduType
  PROVE  Kept(c, RxRemotePhy(c, pdu))
  <1> DEFINE ctx == c.remote
             req == [ctx EXCEPT !.phys = pdu.phys \intersect c.pref]
             d == Pause(SetRemote(c, req))
             new == [d.remote EXCEPT !.state = "WAIT_TX_ACK_PHY_RSP", !.tx_opcode = "PHY_RSP",
                                     !.rx_opcode = "PHY_UPDATE_IND"]
             rsp == Pdu("PHY_RSP", c.pref, None, 0)
             inst == [ctx EXCEPT !.state = "WAIT_INSTANT", !.phys = pdu.phys, !.left = pdu.left]
  <1>1. ctx \in Ctx /\ c.pref \in SUBSET Phy
    BY Fields DEF Good
  <1>2. req \in Ctx /\ inst \in Ctx
    BY <1>1, PduFields DEF Ctx
  <1>3. rsp \in PduType
    BY <1>1, PduTyped, Delta DEF Opcode
  <1> HIDE DEF req, inst, rsp
  <1>4. Kept(c, d) /\ d.remote \in Ctx
    <2>1. Kept(c, SetRemote(c, req))
      BY <1>2, SetRemoteKept
    <2>2. Kept(c, d)
      BY <2>1, PauseKept, KeptTwice DEF Kept
    <2> HIDE DEF d
    <2>3. QED BY <2>2, Fields DEF Kept, Good
  <1> HIDE DEF d
  <1>5. new \in Ctx
    BY <1>4 DEF Ctx, Opcode
  <1> HIDE DEF new
  <1>6. Kept(c, Tx(SetRemote(d, new), rsp))
    <2>1. Kept(c, SetRemote(d, new))
      BY <1>4, <1>5, SetRemoteKept, KeptTwice DEF Kept
    <2>2. QED BY <1>3, <2>1, TxKept, KeptTwice DEF Kept
  <1>7. Kept(c, SendUpdateInd(d, InstantDelta + 1))
    BY <1>4, Delta, SendUpdateIndKept, KeptTwice DEF Kept
  <1>8. Kept(c, RemoteDone(c)) /\ Kept(c, SetRemote(c, inst))
    BY <1>2, RemoteDoneKept, SetRemoteKept
  <1>9. Kept(c, Reason(RemoteDone(c), "INSTANT_PASSED"))
    BY <1>8, ReasonOfGood, ReasonsGiven, KeptTwice DEF Kept
  <1>10. Kept(c, NotAllowedRemote(c))
    BY NotAllowedKept
  <1>11. RxRemotePhy(c, pdu) \in
           {SendUpdateInd(d, InstantDelta + 1), Tx(SetRemote(d, new), rsp), RemoteDone(c),
            Reason(RemoteDone(c), "INSTANT_PASSED"), SetRemote(c, inst), c, NotAllowedRemote(c)}
    BY DEF RxRemotePhy, d, req, new, rsp, inst
  <1>12. QED BY <1>6, <1>7, <1>8, <1>9, <1>10, <1>11, KeptSelf

\* llcp_rp_chmu_rx keeps the side.
LEMMA RxChanMapIndKept ==
  ASSUME NEW c, Good(c), NEW pdu \in PduType
  PROVE  Kept(c, RxChanMapInd(c, pdu))
  <1> DEFINE inst == [c.remote EXCEPT !.state = "WAIT_INSTANT", !.left = pdu.left]
  <1>1. inst \in Ctx
    BY Fields, PduFields DEF Good, Ctx
  <1> HIDE DEF inst
  <1>2. Kept(c, SetRemote(c, inst)) /\ Kept(c, RemoteDone(c)) /\ Kept(c, NotAllowedRemote(c))
    BY <1>1, SetRemoteKept, RemoteDoneKept, NotAllowedKept
  <1>3. Kept(c, Reason(RemoteDone(c), "INSTANT_PASSED"))
    BY <1>2, ReasonOfGood, ReasonsGiven, KeptTwice DEF Kept
  <1>4. RxChanMapInd(c, pdu) \in
          {c, NotAllowedRemote(c), Reason(RemoteDone(c), "INSTANT_PASSED"), SetRemote(c, inst)}
    BY DEF RxChanMapInd, inst
  <1>5. QED BY <1>2, <1>3, <1>4, KeptSelf

\* rp_comm_send_rsp keeps the side.
LEMMA SendCommonRspKept ==
  ASSUME NEW c, Good(c)
  PROVE  Kept(c, SendCommonRsp(c, c.remote))
  <1> DEFINE f == [c EXCEPT !.fex = TRUE]
             g == Tx(f, Plain("FEATURE_RSP"))
             d == [c EXCEPT !.paused = @ \union {"TERMINATE"}]
             new == [c.remote EXCEPT !.state = "POSTPONE_TERMINATE"]
  <1>1. Kept(c, f)
    BY SetFexField, FrameKept DEF Good
  <1> HIDE DEF f
  <1>2. Plain("FEATURE_RSP") \in PduType
    BY PlainTyped DEF Opcode
  <1>3. Kept(c, g)
    BY <1>1, <1>2, TxKept, KeptTwice DEF Kept
  <1> HIDE DEF g
  <1>4. Kept(c, RemoteDone(g))
    BY <1>3, RemoteDoneKept, KeptTwice DEF Kept
  <1>5. Kept(c, d)
    <2>1. c.paused \union {"TERMINATE"} \in SUBSET {"PHY_UPDATE", "TERMINATE"}
      BY Fields DEF Good
    <2>2. QED BY <2>1, SetPausedField, FrameKept DEF Good
  <1>6. new \in Ctx
    BY Fields DEF Good, Ctx
  <1> HIDE DEF d, new
  <1>7. Kept(c, SetRemote(d, new)) /\ Kept(c, RemoteDone(d))
    BY <1>5, <1>6, SetRemoteKept, RemoteDoneKept, KeptTwice DEF Kept
  <1>8. Kept(c, Reason(RemoteDone(d), "REMOTE_USER_TERM_CONN"))
    BY <1>7, ReasonOfGood, ReasonsGiven, KeptTwice DEF Kept
  <1>9. SendCommonRsp(c, c.remote) \in
          {RemoteDone(g), SetRemote(d, new), Reason(RemoteDone(d), "REMOTE_USER_TERM_CONN")}
    BY DEF SendCommonRsp, g, f, d, new
  <1>10. QED BY <1>4, <1>7, <1>8, <1>9

\* A PDU for the remote procedure keeps the side.
LEMMA RxRemoteKept ==
  ASSUME NEW c, Good(c), NEW pdu \in PduType
  PROVE  Kept(c, RxRemote(c, pdu))
  BY RxRemotePhyKept, RxChanMapIndKept, SendCommonRspKept, KeptSelf DEF RxRemote

\* A rejection is a PDU, extended or not.
LEMMA RejectTyped ==
  ASSUME NEW c, NEW op \in Opcode
  PROVE  Reject(c, op) \in PduType
  BY PduTyped, PlainTyped, Delta DEF Reject, Opcode

\* However a request of the peer is met, in a collision or not, the side is kept (rr_st_idle).
LEMMA PrepareKept ==
  ASSUME NEW c, Good(c), NEW pdu \in PduType, NEW proc \in Proc \union {None}
  PROVE  Kept(c, Prepare(c, proc, pdu))
  <1> DEFINE ctx == NewCtx(proc, {})
             new == [ctx EXCEPT !.state = IF proc = "PHY_UPDATE" THEN "WAIT_RX_PHY_REQ" ELSE "WAIT_RX"]
             s == SetCollision(c, WithInstant(proc))
             Runs(d) == RxRemote(SetRemote(d, new), pdu)
             unknown == Pdu("UNKNOWN_RSP", {}, pdu.op, 0)
             r == SetRemote(c, ctx)
  <1>1. ctx \in Ctx
    BY NewCtxTyped
  <1>2. new \in Ctx
    <2>1. (IF proc = "PHY_UPDATE" THEN "WAIT_RX_PHY_REQ" ELSE "WAIT_RX")
            \in {"WAIT_RX_PHY_REQ", "WAIT_RX"}
      OBVIOUS
    <2> HIDE DEF ctx
    <2>2. \A st \in {"WAIT_RX_PHY_REQ", "WAIT_RX"} : [ctx EXCEPT !.state = st] \in Ctx
      BY <1>1 DEF Ctx
    <2>3. QED BY <2>1, <2>2
  <1> HIDE DEF ctx, new
  <1>3. ASSUME NEW d, Kept(c, d)
        PROVE  Kept(c, Runs(d))
    <2>1. Kept(c, SetRemote(d, new))
      BY <1>2, <1>3, SetRemoteKept, KeptTwice DEF Kept
    <2>2. QED BY <2>1, RxRemoteKept, KeptTwice DEF Kept
  <1>4. Kept(c, Runs(c)) /\ Kept(c, Runs(s))
    <2>1. WithInstant(proc) \in BOOLEAN
      BY DEF WithInstant
    <2>2. Kept(c, s)
      BY <2>1, SetCollisionKept
    <2> HIDE DEF s, Runs
    <2>3. QED BY <1>3, <2>2, KeptSelf
  <1>5. unknown \in PduType /\ Reject(c, pdu.op) \in PduType
    BY PduFields, PduTyped, RejectTyped, Delta DEF Opcode
  <1> HIDE DEF unknown
  <1>6. Kept(c, Tx(c, unknown)) /\ Kept(c, Tx(c, Reject(c, pdu.op)))
    BY <1>5, TxKept
  <1>7. Kept(c, Reason(r, "LL_PROC_COLLISION")) /\ Kept(c, Reason(r, "DIFF_TRANS_COLLISION"))
    <2>1. Kept(c, r)
      BY <1>1, SetRemoteKept
    <2> HIDE DEF r
    <2>2. QED BY <2>1, ReasonOfGood, ReasonsGiven, KeptTwice DEF Kept
  <1>8. Prepare(c, proc, pdu) \in
          {Runs(c), Runs(s), Tx(c, unknown), Tx(c, Reject(c, pdu.op)),
           Reason(r, "LL_PROC_COLLISION"), Reason(r, "DIFF_TRANS_COLLISION")}
    <2> HIDE DEF Runs, s, r
    <2>1. Prepare(c, proc, pdu) =
            CASE proc = "TERMINATE" -> Runs(c)
              [] proc = None -> Tx(c, unknown)
              [] WithInstant(proc) /\ c.incompat = "RESOLVABLE" /\ c.side = Peripheral -> Runs(c)
              [] WithInstant(proc) /\ c.incompat = "RESOLVABLE" /\ c.side = Central ->
                   Tx(c, Reject(c, pdu.op))
              [] WithInstant(proc) /\ c.incompat = "RESERVED" ->
                   Reason(r, IF Local(c).proc = proc THEN "LL_PROC_COLLISION"
                                                     ELSE "DIFF_TRANS_COLLISION")
              [] OTHER -> Runs(s)
      BY Zenon DEF Prepare, Runs, s, r, unknown, new, ctx
    <2>2. QED BY <2>1
  <1> HIDE DEF Runs, s, r
  <1>9. QED BY <1>4, <1>6, <1>7, <1>8

\* An opcode begins a procedure or none.
LEMMA BegunTyped ==
  ASSUME NEW c, NEW op
  PROVE  Begun(c, op) \in Proc \union {None}
  BY DEF Begun, Proc

\* llcp_rr_new keeps the side.
LEMMA NewKept ==
  ASSUME NEW c, Good(c), NEW pdu \in PduType
  PROVE  Kept(c, New(c, pdu))
  <1> DEFINE proc == Begun(c, pdu.op)
             a == IF proc = "TERMINATE" THEN RemoteDone(c) ELSE c
  <1>1. proc \in Proc \union {None}
    BY BegunTyped
  <1>2. Kept(c, a)
    BY RemoteDoneKept, KeptSelf
  <1>3. New(c, pdu) = Prepare(a, proc, pdu)
    BY DEF New
  <1> HIDE DEF proc, a
  <1>4. QED BY <1>1, <1>2, <1>3, PrepareKept, KeptTwice DEF Kept

\* ull_cp_rx keeps the side.
LEMMA RxKept ==
  ASSUME NEW c, Good(c), NEW pdu \in PduType, NEW free \in BOOLEAN
  PROVE  Kept(c, Rx(c, pdu, free))
  <1>1. Rx(c, pdu, free) \in {New(c, pdu), Reason(c, "ASSERT"), RxLocal(c, pdu, free),
                              Reason(c, "LOCALHOST_TERM_CONN"), RxRemote(c, pdu)}
    BY DEF Rx
  <1>2. Kept(c, Reason(c, "ASSERT")) /\ Kept(c, Reason(c, "LOCALHOST_TERM_CONN"))
    BY ReasonOfGood, ReasonsGiven
  <1>3. QED BY <1>1, <1>2, NewKept, RxLocalKept, RxRemoteKept

-----------------------------------------------------------------------------
(* The steps of the connection. *)

\* An event nearer: every count stays in range, and nothing else changes.
LEMMA NearerTyped ==
  /\ \A ctx \in Ctx : Nearer(ctx) \in Ctx /\ Nearer(ctx).proc = ctx.proc /\ Nearer(ctx).state = ctx.state
  /\ \A pdu \in PduType : Nearer(pdu) \in PduType
  <1>1. \A n \in 0 .. InstantDelta + 1 : (IF n = 0 THEN 0 ELSE n - 1) \in 0 .. InstantDelta + 1
    BY Delta
  <1>2. ASSUME NEW ctx \in Ctx
        PROVE  Nearer(ctx) \in Ctx /\ Nearer(ctx).proc = ctx.proc /\ Nearer(ctx).state = ctx.state
    <2> DEFINE n == IF ctx.left = 0 THEN 0 ELSE ctx.left - 1
    <2>1. n \in 0 .. InstantDelta + 1
      BY <1>1, CtxFields
    <2>2. Nearer(ctx) = [ctx EXCEPT !.left = n]
      BY DEF Nearer
    <2> HIDE DEF n
    <2>3. QED BY <2>1, <2>2 DEF Ctx
  <1>3. ASSUME NEW pdu \in PduType
        PROVE  Nearer(pdu) \in PduType
    <2> DEFINE n == IF pdu.left = 0 THEN 0 ELSE pdu.left - 1
    <2>1. n \in 0 .. InstantDelta + 1
      BY <1>1, PduFields
    <2>2. Nearer(pdu) = [pdu EXCEPT !.left = n]
      BY DEF Nearer
    <2> HIDE DEF n
    <2>3. QED BY <2>1, <2>2 DEF PduType
  <1>4. QED BY <1>2, <1>3

\* An event that passes keeps the side.
LEMMA ElapseKept ==
  ASSUME NEW c, Good(c)
  PROVE  Kept(c, Elapse(c))
  <1> DEFINE l == [i \in DOMAIN c.local |-> Nearer(c.local[i])]
             o == [i \in DOMAIN c.out |-> Nearer(c.out[i])]
             a == [c EXCEPT !.local = l]
             b == [a EXCEPT !.remote = Nearer(c.remote)]
             d == [b EXCEPT !.out = o]
  <1>1. c \in Conn /\ c.local \in Seq(Ctx) /\ c.out \in Seq(PduType) /\ c.remote \in Ctx
    BY Fields DEF Good
  <1>2. l \in Seq(Ctx) /\ Len(l) = Len(c.local)
        /\ \A i \in 1 .. Len(c.local) : l[i] = Nearer(c.local[i])
    BY <1>1, NearerTyped
  <1>3. o \in Seq(PduType)
    BY <1>1, NearerTyped
  <1> HIDE DEF l, o
  <1>4. a \in Conn /\ a.local = l /\ a.side = c.side /\ a.incompat = c.incompat /\ a.reason = c.reason
    BY <1>1, <1>2, SetLocalField
  <1>5. Local(a).proc = Local(c).proc /\ Local(a).state = Local(c).state
    <2>1. CASE c.local = <<>>
      <3>1. Len(l) = 0
        BY <1>2, <2>1, EmptySeq
      <3>2. l = <<>>
        BY <1>2, <3>1, EmptySeq
      <3>3. QED BY <1>4, <2>1, <3>2 DEF Local
    <2>2. CASE c.local # <<>>
      <3>1. Len(c.local) \in Nat \ {0}
        BY <1>1, <2>2, EmptySeq
      <3>2. l # <<>> /\ Head(l) = Nearer(Head(c.local)) /\ Head(c.local) \in Ctx
        BY <1>1, <1>2, <3>1, EmptySeq
      <3>3. Local(a) = Nearer(Local(c)) /\ Local(c) \in Ctx
        BY <1>4, <2>2, <3>2 DEF Local
      <3>4. QED BY <3>3, NearerTyped
    <2>3. QED BY <2>1, <2>2
  <1> HIDE DEF a
  <1>6. Kept(c, a)
    BY <1>4, <1>5 DEF Kept, Good, Owned
  <1>7. b \in Conn /\ Frame(a, b)
    BY <1>1, <1>4, NearerTyped, SetRemoteField
  <1> HIDE DEF b
  <1>8. d \in Conn /\ Frame(b, d)
    BY <1>3, <1>7, SetOutField
  <1>9. Kept(c, d)
    BY <1>6, <1>7, <1>8, FrameKept, KeptTwice DEF Kept
  <1>10. Elapse(c) = d
    BY <1>1 DEF Elapse, d, b, a, l, o, Conn
  <1>11. QED BY <1>9, <1>10

-----------------------------------------------------------------------------
(* The invariant and the theorems. *)

\* The inductive invariant: the types, and that collisions are owned.
IInv == TypeOK /\ \A s \in Side : Owned(cp[s])

\* The invariant, said of the sides.
LEMMA SidesGood ==
  ASSUME IInv
  PROVE  cp \in [Side -> Conn] /\ \A s \in Side : Good(cp[s]) /\ cp[s].side = s
  BY DEF IInv, TypeOK, Good

\* It is enough that every side is kept, and the rest typed.
LEMMA SidesKept ==
  ASSUME IInv, DOMAIN cp' = Side, cp' = [s \in Side |-> cp'[s]],
         \A s \in Side : Kept(cp[s], cp'[s])
  PROVE  cp' \in [Side -> Conn] /\ (\A s \in Side : cp'[s].side = s) /\ \A s \in Side : Owned(cp'[s])
  BY SidesGood DEF Kept, Good

\* A new connection is typed, and in no collision.
LEMMA NewConnsGood ==
  ASSUME NEW new \in NewConns
  PROVE  new \in [Side -> Conn] /\ \A s \in Side : new[s].side = s /\ Owned(new[s])
  <1>1. PICK built \in PhyBuilt : new = [s \in Side |-> NewConn(s, built[s])]
    BY DEF NewConns
  <1>2. \A s \in Side : built[s] \in BOOLEAN
    BY ProcedureAssumption
  <1>3. ASSUME NEW s \in Side, NEW b \in BOOLEAN
        PROVE  NewConn(s, b) \in Conn /\ NewConn(s, b).side = s /\ Owned(NewConn(s, b))
    <2>1. NoCtx \in Ctx /\ <<>> \in Seq(Ctx) /\ <<>> \in Seq(PduType) /\ PHY_1M \in Phy
      BY NewCtxTyped, EmptySeq, ProcedureAssumption
    <2>2. NewConn(s, b) \in Conn
      BY <2>1 DEF NewConn, Conn, Reasons, None
    <2>3. QED BY <2>2 DEF NewConn, Owned
  <1>4. QED BY <1>1, <1>2, <1>3

\* The invariant holds of a new connection.
LEMMA InitGood == Init => IInv
  <1>1. SUFFICES ASSUME Init PROVE IInv
    OBVIOUS
  <1>2. cp \in [Side -> Conn] /\ \A s \in Side : cp[s].side = s /\ Owned(cp[s])
    BY <1>1, NewConnsGood DEF Init
  <1>3. \A s \in Side : 0 <= MaxRequests[s]
    BY ProcedureAssumption
  <1>4. QED BY <1>1, <1>2, <1>3 DEF Init, IInv, TypeOK, Reasons, None

\* A request waits behind the others, or is the local procedure of a side in no collision.
LEMMA RequestGood ==
  ASSUME IInv, NEW s \in Side, NEW proc \in Proc, NEW phys \in SUBSET Phy, Request(s, proc, phys)
  PROVE  IInv'
  <1> DEFINE c == cp[s]
             q == Append(c.local, NewCtx(proc, phys))
             d == [c EXCEPT !.local = q]
  <1>1. Good(c) /\ c \in Conn /\ c.local \in Seq(Ctx) /\ NewCtx(proc, phys) \in Ctx
    BY SidesGood, Fields, NewCtxTyped DEF Good
  <1>2. q \in Seq(Ctx) /\ q # <<>> /\ (c.local # <<>> => Head(q) = Head(c.local))
    <2> DEFINE new == NewCtx(proc, phys)
    <2> HIDE DEF new, c
    <2>1. q \in Seq(Ctx) /\ Len(q) = Len(c.local) + 1 /\ Len(c.local) \in Nat
          /\ \A i \in 1 .. Len(c.local) : q[i] = c.local[i]
      BY <1>1 DEF new
    <2>2. q # <<>>
      BY <2>1, EmptySeq
    <2>3. ASSUME c.local # <<>> PROVE Head(q) = Head(c.local)
      <3>1. Len(c.local) \in Nat \ {0}
        BY <1>1, <2>3, EmptySeq
      <3> HIDE DEF q
      <3>2. q[1] = c.local[1]
        BY <2>1, <3>1
      <3>3. QED BY <1>1, <2>1, <2>2, <2>3, <3>2
    <2>4. QED BY <2>1, <2>2, <2>3
  <1> HIDE DEF q
  <1>3. d \in Conn /\ d.local = q /\ d.side = c.side /\ d.incompat = c.incompat /\ d.reason = c.reason
    BY <1>1, <1>2, SetLocalField
  <1> HIDE DEF d
  <1>4. Kept(c, d)
    <2>1. CASE c.local = <<>>
      <3>1. Local(c).state = "IDLE"
        BY <2>1, NewCtxTyped DEF Local
      <3>2. Free(c)
        BY <1>1, <3>1, Owner
      <3>3. QED BY <1>3, <3>2 DEF Free, Kept, Good, Owned
    <2>2. CASE c.local # <<>>
      BY <1>1, <1>2, <1>3, <2>2 DEF Local, Kept, Good, Owned
    <2>3. QED BY <2>1, <2>2
  <1>5. cp' = [cp EXCEPT ![s] = d]
    BY <1>1, SidesGood DEF Request, d, q
  <1> HIDE DEF c
  <1>6. cp' \in [Side -> Conn] /\ (\A t \in Side : cp'[t].side = t) /\ \A t \in Side : Owned(cp'[t])
    BY <1>4, <1>5, SidesGood DEF Kept, Good, c
  <1>7. requests' \in [Side -> Nat] /\ \A t \in Side : requests'[t] <= MaxRequests[t]
    <2>1. requests \in [Side -> Nat] /\ \A t \in Side : requests[t] <= MaxRequests[t]
      BY DEF IInv, TypeOK
    <2>2. MaxRequests \in [Side -> Nat]
      BY ProcedureAssumption
    <2>3. requests' = [requests EXCEPT ![s] = requests[s] + 1] /\ requests[s] < MaxRequests[s]
      BY DEF Request
    <2>4. QED BY <2>1, <2>2, <2>3
  <1>8. QED BY <1>6, <1>7 DEF Request, IInv, TypeOK

\* A termination clears the collision with the procedures.
LEMMA TerminateGood ==
  ASSUME IInv, NEW s \in Side, Terminate(s)
  PROVE  IInv'
  <1> DEFINE c == cp[s]
             q == <<NewCtx("TERMINATE", {})>>
             a == [c EXCEPT !.incompat = "NO_COLLISION"]
             d == [a EXCEPT !.local = q]
  <1>1. Good(c) /\ c \in Conn
    BY SidesGood DEF Good
  <1>2. q \in Seq(Ctx)
    <2>1. NewCtx("TERMINATE", {}) \in Ctx
      BY NewCtxTyped DEF Proc
    <2>2. QED BY <2>1
  <1> HIDE DEF q
  <1>3. a \in Conn /\ a.incompat = "NO_COLLISION" /\ a.side = c.side
    BY <1>1, SetIncompatField
  <1>4. [Abort(c) EXCEPT !.local = q] = d
    BY <1>1 DEF Abort, Conn
  <1> HIDE DEF a
  <1>5. d \in Conn /\ d.incompat = "NO_COLLISION" /\ d.side = c.side
    BY <1>2, <1>3, SetLocalField
  <1> HIDE DEF d
  <1>6. cp' = [cp EXCEPT ![s] = d]
    BY <1>4, SidesGood DEF Terminate, q
  <1>7. Kept(c, d)
    BY <1>5 DEF Kept, Good, Owned
  <1> HIDE DEF c
  <1>8. cp' \in [Side -> Conn] /\ (\A t \in Side : cp'[t].side = t) /\ \A t \in Side : Owned(cp'[t])
    BY <1>6, <1>7, SidesGood DEF Kept, Good, c
  <1>9. requests' \in [Side -> Nat] /\ \A t \in Side : requests'[t] <= MaxRequests[t]
    <2>1. requests \in [Side -> Nat] /\ \A t \in Side : requests[t] <= MaxRequests[t]
      BY DEF IInv, TypeOK
    <2>2. MaxRequests \in [Side -> Nat]
      BY ProcedureAssumption
    <2>3. requests' = [requests EXCEPT ![s] = MaxRequests[s]] /\ requests[s] < MaxRequests[s]
      BY DEF Terminate
    <2>4. QED BY <2>1, <2>2, <2>3
  <1>10. QED BY <1>8, <1>9 DEF Terminate, IInv, TypeOK

\* The ticker callbacks keep the invariant.
LEMMA BeginGood ==
  ASSUME IInv, NEW sides \in SUBSET Side, NEW free \in NtfFree, Begin(sides, free)
  PROVE  IInv'
  <1>1. free \in BOOLEAN
    BY ProcedureAssumption
  <1>2. ASSUME NEW s \in Side
        PROVE  Kept(cp[s], Run(Elapse(cp[s]), free)) /\ Kept(cp[s], Skip(cp[s]))
    <2>1. Kept(cp[s], Elapse(cp[s]))
      BY SidesGood, ElapseKept
    <2>2. Kept(cp[s], Run(Elapse(cp[s]), free))
      BY <1>1, <2>1, RunKept, KeptTwice DEF Kept
    <2>3. QED BY <2>1, <2>2 DEF Skip
  <1>3. cp' = [s \in Side |-> IF s \in sides THEN Run(Elapse(cp[s]), free) ELSE Skip(cp[s])]
    BY DEF Begin
  <1>4. DOMAIN cp' = Side /\ cp' = [s \in Side |-> cp'[s]] /\ \A s \in Side : Kept(cp[s], cp'[s])
    BY <1>2, <1>3
  <1>5. QED BY <1>4, SidesKept DEF Begin, IInv, TypeOK

\* A PDU delivered keeps it: the two sides change in one step.
LEMMA DeliverGood ==
  ASSUME IInv, NEW s \in Side, NEW free \in NtfFree, Deliver(s, free)
  PROVE  IInv'
  <1> DEFINE p == Peer(s)
             h == Head(cp[p].out)
             d == Rx(TxNtf(TxAck(cp[s], free), free), h, free)
             a == [cp[p] EXCEPT !.out = Tail(@)]
             e == Received(cp[p])
  <1>1. p \in Side /\ p # s /\ \A t \in Side : t = s \/ t = p
    BY DEF Peer, Side, Central, Peripheral
  <1>2. free \in BOOLEAN
    BY ProcedureAssumption
  <1>3. h \in PduType /\ Tail(cp[p].out) \in Seq(PduType)
    <2>1. cp[p].out \in Seq(PduType) /\ cp[p].out # <<>>
      BY <1>1, SidesGood, Fields DEF Good, Deliver
    <2>2. QED BY <2>1, HeadTailProperties
  <1> HIDE DEF h
  <1>4. Kept(cp[s], d)
    <2>1. Kept(cp[s], TxAck(cp[s], free))
      BY <1>2, SidesGood, TxAckKept
    <2>2. Kept(cp[s], TxNtf(TxAck(cp[s], free), free))
      BY <1>2, <2>1, TxNtfKept, KeptTwice DEF Kept
    <2>3. QED BY <1>2, <1>3, <2>2, RxKept, KeptTwice DEF Kept
  <1>5. Kept(cp[p], e)
    <2> DEFINE b == [a EXCEPT !.acked = h.op]
    <2>1. Good(cp[p]) /\ cp[p] \in Conn
      BY <1>1, SidesGood DEF Good
    <2>2. a \in Conn /\ Frame(cp[p], a)
      BY <1>3, <2>1, SetOutField
    <2>3. Kept(cp[p], a)
      BY <2>1, <2>2, FrameKept
    <2>4. e = b
      BY <2>1 DEF Conn, Received, h
    <2> HIDE DEF a
    <2>5. b \in Conn /\ Frame(a, b)
      BY <1>3, <2>2, SetAckedField, PduFields
    <2> HIDE DEF b
    <2>6. QED BY <2>3, <2>4, <2>5, FrameKept, KeptTwice DEF Kept
  <1> HIDE DEF d, e
  <1>6. cp' = [cp EXCEPT ![s] = d, ![p] = e]
    BY <1>1 DEF Deliver, d, e, h
  <1> HIDE DEF p
  <1>7. cp' = [t \in Side |-> IF t = s THEN d ELSE e]
    BY <1>1, <1>6, SidesGood
  <1>8. DOMAIN cp' = Side /\ cp' = [t \in Side |-> cp'[t]] /\ \A t \in Side : Kept(cp[t], cp'[t])
    BY <1>1, <1>4, <1>5, <1>7
  <1>9. QED BY <1>8, SidesKept DEF Deliver, IInv, TypeOK

\* An acknowledgment without a PDU keeps it.
LEMMA AcknowledgeGood ==
  ASSUME IInv, NEW s \in Side, NEW free \in NtfFree, Acknowledge(s, free)
  PROVE  IInv'
  <1> DEFINE d == TxAck(cp[s], free)
  <1>1. free \in BOOLEAN
    BY ProcedureAssumption
  <1>2. Kept(cp[s], d)
    BY <1>1, SidesGood, TxAckKept
  <1>3. cp' = [cp EXCEPT ![s] = d]
    BY DEF Acknowledge
  <1> HIDE DEF d
  <1>4. DOMAIN cp' = Side /\ cp' = [t \in Side |-> cp'[t]] /\ \A t \in Side : Kept(cp[t], cp'[t])
    BY <1>2, <1>3, SidesGood, KeptSelf
  <1>5. QED BY <1>4, SidesKept DEF Acknowledge, IInv, TypeOK

\* The end of an event keeps it, whether or not the connection ends.
LEMMA DoneGood ==
  ASSUME IInv, NEW free \in NtfFree, Done(free)
  PROVE  IInv'
  <1> DEFINE after == [s \in Side |-> IF s \in attending THEN TxNtf(cp[s], free) ELSE cp[s]]
  <1>1. free \in BOOLEAN
    BY ProcedureAssumption
  <1>2. \A s \in Side : Kept(cp[s], after[s])
    BY <1>1, SidesGood, TxNtfKept, KeptSelf
  <1>3. \A s \in Side : after[s].reason \in Reasons
    <2> HIDE DEF after
    <2>1. QED BY <1>2, Fields DEF Kept, Good
  <1>4. cp' = after
    BY DEF Done
  <1>5. ended' \in Reasons
    <2>1. ended \in Reasons /\ attending \subseteq Side
      BY DEF IInv, TypeOK
    <2>2. ended' = ended \/ \E s \in attending : ended' = after[s].reason
      BY DEF Done
    <2> HIDE DEF after
    <2>3. QED BY <1>3, <2>1, <2>2
  <1>6. DOMAIN cp' = Side /\ cp' = [t \in Side |-> cp'[t]] /\ \A t \in Side : Kept(cp[t], cp'[t])
    BY <1>2, <1>4
  <1> HIDE DEF after
  <1>7. QED BY <1>5, <1>6, SidesKept DEF Done, IInv, TypeOK

\* A new connection in the slot keeps it.
LEMMA ReconnectGood ==
  ASSUME IInv, Reconnect
  PROVE  IInv'
  <1>1. cp' \in [Side -> Conn] /\ \A s \in Side : cp'[s].side = s /\ Owned(cp'[s])
    BY NewConnsGood DEF Reconnect
  <1>2. \A s \in Side : 0 <= MaxRequests[s]
    BY ProcedureAssumption
  <1>3. QED BY <1>1, <1>2 DEF Reconnect, IInv, TypeOK, Reasons, None

\* Every step keeps it.
LEMMA NextGood == IInv /\ [Next]_vars => IInv'
  <1> SUFFICES ASSUME IInv, [Next]_vars
               PROVE  IInv'
    OBVIOUS
  <1>1. ASSUME NEW s \in Side, NEW proc \in Proc, NEW phys \in {{p} : p \in Phy},
               Request(s, proc, IF proc = "PHY_UPDATE" THEN phys ELSE {})
        PROVE  IInv'
    BY <1>1, RequestGood
  <1>2. ASSUME NEW s \in Side, Terminate(s)
        PROVE  IInv'
    BY <1>2, TerminateGood
  <1>3. ASSUME NEW sides \in SUBSET Side, NEW free \in NtfFree, Begin(sides, free)
        PROVE  IInv'
    BY <1>3, BeginGood
  <1>4. ASSUME NEW s \in Side, NEW free \in NtfFree, Deliver(s, free) \/ Acknowledge(s, free)
        PROVE  IInv'
    BY <1>4, DeliverGood, AcknowledgeGood
  <1>5. ASSUME NEW free \in NtfFree, Done(free)
        PROVE  IInv'
    BY <1>5, DoneGood
  <1>6. CASE Timeout
    BY <1>6 DEF Timeout, IInv, TypeOK, Reasons
  <1>7. CASE Reconnect
    BY <1>7, ReconnectGood
  <1>8. CASE UNCHANGED vars
    BY <1>8 DEF vars, IInv, TypeOK
  <1>9. QED BY <1>1, <1>2, <1>3, <1>4, <1>5, <1>6, <1>7, <1>8 DEF Next

\* Every variable of the request machines keeps its type, whatever the order of
\* requests, packets, losses and skipped events (ull_cp_run, _tx_ack, _rx).
THEOREM ProceduresTyped == Spec => []TypeOK
  <1>1. IInv => TypeOK
    BY DEF IInv
  <1>2. QED BY <1>1, InitGood, NextGood, PTL DEF Spec

\* A side is in a collision state only while the local procedure that put it
\* there is at the head of its queue: the context rr_tx and rr_st_idle look at
\* for the reason to give is there.
THEOREM CollisionsHaveOwners == Spec => []IncompatHasOwner
  <1>1. IInv => IncompatHasOwner
    BY DEF IInv, Owned, IncompatHasOwner
  <1>2. QED BY <1>1, InitGood, NextGood, PTL DEF Spec
-----------------------------------------------------------------------------
(* Data paused for PHY update. *)

\* The side's Host has ended its procedures, or its connection is about to end.
Ends(c) == c.reason # None \/ Local(c).proc = "TERMINATE"

\* What a local procedure waits for tells what it has sent.
Shape(ctx) ==
  /\ ctx.state \in {"WAIT_TX_ACK_PHY_REQ", "WAIT_RX_PHY_RSP"} => ctx.tx_opcode = "PHY_REQ"
  /\ ctx.state = "WAIT_RX_PHY_RSP" => ctx.rx_opcode = "PHY_RSP"
  /\ ctx.proc = "TERMINATE" => ctx.state \in {"IDLE", "WAIT_TX_ACK"}

\* A side sends a termination only with its end ahead, and knows requests for
\* PHYs if it is built with them.
Harmless(c, pdu) ==
  /\ pdu.op = "TERMINATE_IND" => Ends(c)
  /\ pdu.op = "UNKNOWN_RSP" /\ c.built => pdu.about # "PHY_REQ"

Steady(c) ==
  /\ c \in Conn
  /\ \A i \in 1 .. Len(c.local) : Shape(c.local[i])
  /\ \A i \in 1 .. Len(c.out) : Harmless(c, c.out[i])

\* The procedures that will resume the data: the remote and the local one, until
\* they have sent what they are to send.
RemotePauses(c) ==
  /\ c.remote.proc = "PHY_UPDATE"
  /\ c.remote.state \in {"WAIT_RX_PHY_REQ", "WAIT_TX_PHY_UPDATE_IND",
                         "WAIT_TX_ACK_PHY_UPDATE_IND", "WAIT_TX_ACK_PHY_RSP"}
LocalPauses(c) ==
  /\ Local(c).proc = "PHY_UPDATE"
  /\ Local(c).state \in {"WAIT_TX_ACK_PHY_REQ", "WAIT_RX_PHY_RSP", "WAIT_TX_ACK_PHY_UPDATE_IND"}

\* Paused data will be resumed, unless the side is excused.
Held(c, excuse) == "PHY_UPDATE" \in c.paused => RemotePauses(c) \/ LocalPauses(c) \/ Ends(c) \/ excuse

\* What a handler makes of a steady side, and of the pause.
Goes(c, d) == Steady(d) /\ d.side = c.side /\ d.built = c.built /\ (Ends(c) => Ends(d))
Fine(c, d, excuse) == Goes(c, d) /\ (Held(c, excuse) => Held(d, excuse))

\* Two steps make one.
LEMMA FineTwice ==
  ASSUME NEW c, NEW d, NEW e, NEW excuse \in BOOLEAN, Fine(c, d, excuse), Fine(d, e, excuse)
  PROVE  Fine(c, e, excuse)
  BY DEF Fine, Goes

\* The same without the pause.
LEMMA GoesTwice ==
  ASSUME NEW c, NEW d, NEW e, Goes(c, d), Goes(d, e)
  PROVE  Goes(c, e)
  BY DEF Goes

\* A step that is none.
LEMMA FineSelf ==
  ASSUME NEW c, Steady(c), NEW excuse \in BOOLEAN
  PROVE  Fine(c, c, excuse)
  BY DEF Fine, Goes

\* The pause is as good as before if whoever was to end it still is, and nothing
\* has paused the data.
LEMMA HeldStill ==
  ASSUME NEW c, NEW d, NEW excuse \in BOOLEAN, Goes(c, d),
         "PHY_UPDATE" \in d.paused => "PHY_UPDATE" \in c.paused,
         RemotePauses(c) => RemotePauses(d) \/ Ends(d) \/ excuse,
         LocalPauses(c) => LocalPauses(d) \/ Ends(d) \/ excuse
  PROVE  Fine(c, d, excuse)
  BY DEF Fine, Goes, Held

\* The end of the connection, and resuming the data, make up for everything.
LEMMA FineAnyway ==
  ASSUME NEW c, NEW d, NEW excuse \in BOOLEAN, Goes(c, d),
         d.reason # None \/ "PHY_UPDATE" \notin d.paused \/ excuse
  PROVE  Fine(c, d, excuse)
  BY DEF Fine, Held, Ends

\* What the primitives change, and leave alone.
Base(c, d) == d.side = c.side /\ d.built = c.built
Alike(c, d) ==
  /\ Base(c, d) /\ d.local = c.local /\ d.remote = c.remote /\ d.paused = c.paused
  /\ d.out = c.out /\ d.reason = c.reason

\* Fields that neither Steady nor Held looks at.
LEMMA OtherFields ==
  ASSUME NEW c \in Conn
  PROVE  /\ \A x \in {"NO_COLLISION", "RESOLVABLE", "RESERVED"} :
              Incompat(c, x) \in Conn /\ Alike(c, Incompat(c, x))
         /\ \A x \in BOOLEAN : SetCollision(c, x) \in Conn /\ Alike(c, SetCollision(c, x))
         /\ \A x \in BOOLEAN : [c EXCEPT !.fex = x] \in Conn /\ Alike(c, [c EXCEPT !.fex = x])
         /\ \A x \in Phy : [c EXCEPT !.phy = x] \in Conn /\ Alike(c, [c EXCEPT !.phy = x])
         /\ \A x \in SUBSET Phy : [c EXCEPT !.pref = x] \in Conn /\ Alike(c, [c EXCEPT !.pref = x])
         /\ \A x \in Opcode \union {None} :
              [c EXCEPT !.acked = x] \in Conn /\ Alike(c, [c EXCEPT !.acked = x])
  <1>1. \A x \in {"NO_COLLISION", "RESOLVABLE", "RESERVED"} :
          Incompat(c, x) \in Conn /\ Alike(c, Incompat(c, x))
    BY DEF Incompat, Conn, Alike, Base
  <1>2. \A x \in BOOLEAN : SetCollision(c, x) \in Conn /\ Alike(c, SetCollision(c, x))
    BY DEF SetCollision, Conn, Alike, Base
  <1>3. \A x \in BOOLEAN : [c EXCEPT !.fex = x] \in Conn /\ Alike(c, [c EXCEPT !.fex = x])
    BY DEF Conn, Alike, Base
  <1>4. \A x \in Phy : [c EXCEPT !.phy = x] \in Conn /\ Alike(c, [c EXCEPT !.phy = x])
    BY DEF Conn, Alike, Base
  <1>5. \A x \in SUBSET Phy : [c EXCEPT !.pref = x] \in Conn /\ Alike(c, [c EXCEPT !.pref = x])
    BY DEF Conn, Alike, Base
  <1>6. \A x \in Opcode \union {None} :
          [c EXCEPT !.acked = x] \in Conn /\ Alike(c, [c EXCEPT !.acked = x])
    BY DEF Conn, Alike, Base
  <1>7. QED BY <1>1, <1>2, <1>3, <1>4, <1>5, <1>6

\* A step that changes only those is fine.
LEMMA AlikeFine ==
  ASSUME NEW c, Steady(c), NEW d \in Conn, Alike(c, d), NEW excuse \in BOOLEAN
  PROVE  Fine(c, d, excuse)
  <1>1. Local(d) = Local(c)
    BY DEF Alike, Local
  <1>2. QED BY <1>1 DEF Steady, Harmless, Alike, Base, Fine, Goes, Held, Ends, RemotePauses, LocalPauses

\* Queueing a PDU.
LEMMA TxFine ==
  ASSUME NEW c, Steady(c), NEW pdu \in PduType, Harmless(c, pdu), NEW excuse \in BOOLEAN
  PROVE  LET d == Tx(c, pdu)
         IN  Fine(c, d, excuse) /\ d.local = c.local /\ d.remote = c.remote /\ d.paused = c.paused
             /\ d.reason = c.reason
  <1> DEFINE q == Append(c.out, pdu)
             d == [c EXCEPT !.out = q]
  <1>1. c \in Conn /\ c.out \in Seq(PduType)
    BY Fields DEF Steady
  <1>2. /\ q \in Seq(PduType) /\ Len(q) = Len(c.out) + 1 /\ Len(c.out) \in Nat
        /\ \A i \in 1 .. Len(c.out) : q[i] = c.out[i]
        /\ q[Len(c.out) + 1] = pdu
    BY <1>1
  <1> HIDE DEF q
  <1>3. d \in Conn /\ d.out = q /\ Base(c, d) /\ d.local = c.local /\ d.remote = c.remote
        /\ d.paused = c.paused /\ d.reason = c.reason
    BY <1>1, <1>2 DEF Conn, Base
  <1>4. Tx(c, pdu) = d
    BY DEF Tx, q
  <1> HIDE DEF d
  <1>5. Ends(d) <=> Ends(c)
    BY <1>3 DEF Ends, Local
  <1>6. \A i \in 1 .. Len(q) : Harmless(c, q[i])
    <2> SUFFICES ASSUME NEW i \in 1 .. Len(q) PROVE Harmless(c, q[i])
      OBVIOUS
    <2>1. i \in 1 .. Len(c.out) \/ i = Len(c.out) + 1
      BY <1>2
    <2>2. QED BY <1>2, <2>1 DEF Steady
  <1>7. Goes(c, d)
    <2>1. \A i \in 1 .. Len(q) : Harmless(d, q[i])
      BY <1>3, <1>5, <1>6 DEF Harmless, Base
    <2>2. QED BY <1>3, <1>5, <2>1 DEF Goes, Steady, Base
  <1>8. (RemotePauses(c) <=> RemotePauses(d)) /\ (LocalPauses(c) <=> LocalPauses(d))
    BY <1>3 DEF RemotePauses, LocalPauses, Local
  <1>9. Fine(c, d, excuse)
    BY <1>3, <1>7, <1>8, HeldStill
  <1>10. QED BY <1>3, <1>4, <1>9

\* A reason to end the connection.
LEMMA ReasonFine ==
  ASSUME NEW c, Steady(c), NEW r \in Reasons, r # None, NEW excuse \in BOOLEAN
  PROVE  Fine(c, Reason(c, r), excuse)
  <1> DEFINE d == Reason(c, r)
  <1>1. d \in Conn /\ d.reason = r /\ Base(c, d) /\ d.local = c.local /\ d.out = c.out
    BY DEF Steady, Reason, Conn, Base
  <1> HIDE DEF d
  <1>2. Ends(d)
    BY <1>1 DEF Ends
  <1>3. Goes(c, d)
    BY <1>1, <1>2 DEF Goes, Steady, Harmless, Base
  <1>4. QED BY <1>1, <1>3, FineAnyway DEF d

\* The pause itself changes nothing else.
LEMMA PausedParts ==
  ASSUME NEW c, Steady(c), NEW x \in SUBSET {"PHY_UPDATE", "TERMINATE"}
  PROVE  LET d == [c EXCEPT !.paused = x]
         IN  Goes(c, d) /\ d.paused = x /\ d.local = c.local /\ d.remote = c.remote /\ d.out = c.out
             /\ d.acked = c.acked /\ d.reason = c.reason /\ Local(d) = Local(c)
             /\ (RemotePauses(c) <=> RemotePauses(d)) /\ (LocalPauses(c) <=> LocalPauses(d))
  <1> DEFINE d == [c EXCEPT !.paused = x]
  <1>1. d \in Conn /\ d.paused = x /\ Base(c, d) /\ d.local = c.local /\ d.remote = c.remote
        /\ d.out = c.out /\ d.acked = c.acked /\ d.reason = c.reason
    BY DEF Steady, Conn, Base
  <1> HIDE DEF d
  <1>2. Local(d) = Local(c)
    BY <1>1 DEF Local
  <1>3. Goes(c, d)
    BY <1>1, <1>2 DEF Goes, Steady, Harmless, Base, Ends
  <1>4. QED BY <1>1, <1>2, <1>3 DEF d, RemotePauses, LocalPauses

\* Pausing the data of a procedure that will resume it.
LEMMA PauseFine ==
  ASSUME NEW c, Steady(c), NEW excuse \in BOOLEAN,
         RemotePauses(c) \/ LocalPauses(c) \/ Ends(c)
  PROVE  Fine(c, Pause(c), excuse) /\ Pause(c).remote = c.remote /\ Pause(c).reason = c.reason
  <1> DEFINE x == c.paused \union {"PHY_UPDATE"}
             d == [c EXCEPT !.paused = x]
  <1>1. x \in SUBSET {"PHY_UPDATE", "TERMINATE"}
    BY Fields DEF Steady
  <1>2. Pause(c) = d
    BY DEF Pause
  <1> HIDE DEF x
  <1>3. Goes(c, d) /\ d.remote = c.remote /\ d.reason = c.reason /\ Local(d) = Local(c)
        /\ (RemotePauses(c) <=> RemotePauses(d)) /\ (LocalPauses(c) <=> LocalPauses(d))
    BY <1>1, PausedParts
  <1> HIDE DEF d
  <1>4. QED BY <1>2, <1>3 DEF Fine, Held, Goes, Ends

\* Resuming it, after anything.
LEMMA ResumeFine ==
  ASSUME NEW c, NEW d, Goes(c, d), NEW excuse \in BOOLEAN
  PROVE  Fine(c, Resume(d), excuse)
  <1> DEFINE x == d.paused \ {"PHY_UPDATE"}
             e == [d EXCEPT !.paused = x]
  <1>1. Steady(d)
    BY DEF Goes
  <1>2. x \in SUBSET {"PHY_UPDATE", "TERMINATE"} /\ "PHY_UPDATE" \notin x
    BY <1>1, Fields DEF Steady
  <1>3. Resume(d) = e
    BY DEF Resume
  <1> HIDE DEF x
  <1>4. Goes(d, e) /\ e.paused = x
    BY <1>1, <1>2, PausedParts
  <1> HIDE DEF e
  <1>5. Goes(c, e)
    BY <1>4, GoesTwice
  <1>6. QED BY <1>2, <1>3, <1>4, <1>5, FineAnyway

\* The local procedure is shaped, also if it is none.
LEMMA LocalShape ==
  ASSUME NEW c, Steady(c)
  PROVE  /\ Local(c) \in Ctx /\ Shape(Local(c))
         /\ Local(c).state # "IDLE" \/ Local(c).proc # None => c.local # <<>>
  <1>1. c \in Conn /\ c.local \in Seq(Ctx)
    BY Fields DEF Steady
  <1>2. CASE c.local = <<>>
    BY <1>2, NewCtxTyped DEF Local, Shape, None
  <1>3. CASE c.local # <<>>
    <2>1. Len(c.local) \in Nat \ {0} /\ Head(c.local) = c.local[1]
      BY <1>1, <1>3, EmptySeq
    <2>2. Shape(c.local[1])
      BY <2>1 DEF Steady
    <2>3. Local(c) = c.local[1]
      BY <1>3, <2>1 DEF Local
    <2>4. QED BY <1>1, <1>3, <2>2, <2>3, LocalTyped
  <1>4. QED BY <1>1, <1>2, <1>3, LocalTyped

\* A step of the local procedure.
LEMMA SetLocalGoes ==
  ASSUME NEW c, Steady(c), c.local # <<>>, NEW ctx \in Ctx, Shape(ctx), ctx.proc = Local(c).proc
  PROVE  LET d == SetLocal(c, ctx)
         IN  Goes(c, d) /\ Local(d) = ctx /\ d.local # <<>> /\ d.remote = c.remote
             /\ d.paused = c.paused /\ d.out = c.out /\ d.reason = c.reason
  <1> DEFINE q == [c.local EXCEPT ![1] = ctx]
             d == [c EXCEPT !.local = q]
  <1>1. c \in Conn /\ c.local \in Seq(Ctx) /\ Len(c.local) \in Nat \ {0}
    BY Fields, EmptySeq DEF Steady
  <1>2. q \in Seq(Ctx) /\ Len(q) = Len(c.local) /\ q[1] = ctx
        /\ \A i \in 1 .. Len(c.local) : q[i] = IF i = 1 THEN ctx ELSE c.local[i]
    BY <1>1, ExceptSeq
  <1>3. q # <<>> /\ Head(q) = ctx
    BY <1>1, <1>2, EmptySeq
  <1>4. SetLocal(c, ctx) = d
    BY <1>1 DEF SetLocal, Conn
  <1> HIDE DEF q
  <1>5. d \in Conn /\ d.local = q /\ Base(c, d) /\ d.remote = c.remote /\ d.paused = c.paused
        /\ d.out = c.out /\ d.reason = c.reason
    BY <1>1, <1>2 DEF Conn, Base
  <1> HIDE DEF d
  <1>6. Local(d) = ctx
    BY <1>3, <1>5 DEF Local
  <1>7. Ends(c) <=> Ends(d)
    BY <1>5, <1>6 DEF Ends
  <1>8. \A i \in 1 .. Len(q) : Shape(q[i])
    BY <1>1, <1>2 DEF Steady
  <1>9. Goes(c, d)
    BY <1>5, <1>7, <1>8 DEF Goes, Steady, Harmless, Base
  <1>10. QED BY <1>3, <1>4, <1>5, <1>6, <1>9

\* Such a step is fine if the data is left to whoever had to resume it.
LEMMA SetLocalFine ==
  ASSUME NEW c, Steady(c), c.local # <<>>, NEW ctx \in Ctx, Shape(ctx), ctx.proc = Local(c).proc,
         NEW excuse \in BOOLEAN,
         LocalPauses(c) => ctx.state \in {"WAIT_RX_PHY_RSP", "WAIT_TX_ACK_PHY_UPDATE_IND"}
  PROVE  Fine(c, SetLocal(c, ctx), excuse)
  <1> DEFINE d == SetLocal(c, ctx)
  <1>1. Goes(c, d) /\ Local(d) = ctx /\ d.remote = c.remote /\ d.paused = c.paused
    BY SetLocalGoes
  <1> HIDE DEF d
  <1>2. LocalPauses(c) => LocalPauses(d)
    BY <1>1 DEF LocalPauses
  <1>3. RemotePauses(c) => RemotePauses(d)
    BY <1>1 DEF RemotePauses
  <1>4. QED BY <1>1, <1>2, <1>3, HeldStill DEF d

\* What is left of the local procedures when the first has ended.
LEMMA LocalDoneParts ==
  ASSUME NEW c, Steady(c), c.local # <<>>
  PROVE  LET d == LocalDone(c)
         IN  /\ d \in Conn /\ Base(c, d) /\ d.remote = c.remote /\ d.paused = c.paused
             /\ d.out = c.out /\ d.reason = c.reason
             /\ \A i \in 1 .. Len(d.local) : Shape(d.local[i])
  <1> DEFINE q == Tail(c.local)
             d == [c EXCEPT !.local = q]
  <1>1. c \in Conn /\ c.local \in Seq(Ctx)
    BY Fields DEF Steady
  <1>2. q \in Seq(Ctx) /\ Len(q) = Len(c.local) - 1 /\ Len(c.local) \in Nat
        /\ \A i \in 1 .. Len(q) : q[i] = c.local[i + 1]
    BY <1>1, HeadTailProperties
  <1> HIDE DEF q
  <1>3. d \in Conn /\ d.local = q /\ Base(c, d) /\ d.remote = c.remote /\ d.paused = c.paused
        /\ d.out = c.out /\ d.reason = c.reason
    BY <1>1, <1>2 DEF Conn, Base
  <1>4. LocalDone(c) = d
    BY DEF LocalDone, q
  <1> HIDE DEF d
  <1>5. \A i \in 1 .. Len(q) : Shape(q[i])
    <2> SUFFICES ASSUME NEW i \in 1 .. Len(q) PROVE Shape(q[i])
      OBVIOUS
    <2>1. i + 1 \in 1 .. Len(c.local)
      BY <1>2
    <2>2. QED BY <1>2, <2>1 DEF Steady
  <1>6. QED BY <1>3, <1>4, <1>5

\* A procedure that is no termination may end; with its end goes its pause.
LEMMA LocalDoneGoes ==
  ASSUME NEW c, Steady(c), c.local # <<>>, Local(c).proc # "TERMINATE"
  PROVE  /\ Goes(c, LocalDone(c))
         /\ \A excuse \in BOOLEAN : ~LocalPauses(c) \/ excuse => Fine(c, LocalDone(c), excuse)
  <1> DEFINE d == LocalDone(c)
  <1>1. /\ d \in Conn /\ Base(c, d) /\ d.remote = c.remote /\ d.paused = c.paused
        /\ d.out = c.out /\ d.reason = c.reason
        /\ \A i \in 1 .. Len(d.local) : Shape(d.local[i])
    BY LocalDoneParts
  <1> HIDE DEF d
  <1>2. Ends(c) => Ends(d)
    BY <1>1 DEF Ends
  <1>3. Goes(c, d)
    BY <1>1, <1>2 DEF Goes, Steady, Harmless, Base
  <1>4. RemotePauses(c) <=> RemotePauses(d)
    BY <1>1 DEF RemotePauses
  <1>5. ASSUME NEW excuse \in BOOLEAN, ~LocalPauses(c) \/ excuse
        PROVE  Fine(c, d, excuse)
    BY <1>1, <1>3, <1>4, <1>5, HeldStill
  <1>6. QED BY <1>3, <1>5 DEF d

\* Any may end with the connection.
LEMMA DoneReasonFine ==
  ASSUME NEW c, Steady(c), c.local # <<>>, NEW r \in Reasons, r # None, NEW excuse \in BOOLEAN
  PROVE  Fine(c, Reason(LocalDone(c), r), excuse)
  <1> DEFINE d == LocalDone(c)
             e == Reason(d, r)
  <1>1. /\ d \in Conn /\ Base(c, d) /\ d.out = c.out
        /\ \A i \in 1 .. Len(d.local) : Shape(d.local[i])
    BY LocalDoneParts
  <1> HIDE DEF d
  <1>2. e \in Conn /\ e.reason = r /\ Base(d, e) /\ e.local = d.local /\ e.out = d.out
    BY <1>1 DEF Reason, Conn, Base
  <1> HIDE DEF e
  <1>3. Ends(e)
    BY <1>2 DEF Ends
  <1>4. Goes(c, e)
    BY <1>1, <1>2, <1>3 DEF Goes, Steady, Harmless, Base
  <1>5. QED BY <1>2, <1>4, FineAnyway DEF e, d

\* A step of the remote procedure.
LEMMA SetRemoteFine ==
  ASSUME NEW c, Steady(c), NEW ctx \in Ctx, NEW excuse \in BOOLEAN
  PROVE  LET d == SetRemote(c, ctx)
         IN  /\ Goes(c, d) /\ d.remote = ctx /\ d.out = c.out /\ d.acked = c.acked
             /\ d.phy = c.phy /\ d.side = c.side
             /\ (RemotePauses(c) => RemotePauses(d) \/ excuse) => Fine(c, d, excuse)
  <1> DEFINE d == SetRemote(c, ctx)
  <1>1. d \in Conn /\ Base(c, d) /\ d.remote = ctx /\ d.local = c.local /\ d.paused = c.paused
        /\ d.out = c.out /\ d.acked = c.acked /\ d.phy = c.phy /\ d.reason = c.reason
    BY DEF SetRemote, Steady, Conn, Base
  <1> HIDE DEF d
  <1>2. Local(d) = Local(c)
    BY <1>1 DEF Local
  <1>3. Goes(c, d)
    BY <1>1, <1>2 DEF Goes, Steady, Harmless, Base, Ends
  <1>4. LocalPauses(c) <=> LocalPauses(d)
    BY <1>2 DEF LocalPauses
  <1>5. ASSUME RemotePauses(c) => RemotePauses(d) \/ excuse PROVE Fine(c, d, excuse)
    BY <1>1, <1>3, <1>4, <1>5, HeldStill
  <1>6. QED BY <1>1, <1>3, <1>5 DEF d, Base

\* The end of the remote procedure.
LEMMA RemoteDoneFine ==
  ASSUME NEW c, Steady(c), NEW excuse \in BOOLEAN
  PROVE  /\ Goes(c, RemoteDone(c)) /\ RemoteDone(c).remote = NoCtx
         /\ ~RemotePauses(c) \/ excuse => Fine(c, RemoteDone(c), excuse)
  <1> DEFINE a == SetRemote(c, NoCtx)
             d == SetCollision(a, FALSE)
  <1>1. Goes(c, a) /\ a.remote = NoCtx
        /\ ((RemotePauses(c) => RemotePauses(a) \/ excuse) => Fine(c, a, excuse))
    BY SetRemoteFine, NewCtxTyped, {} \in SUBSET Phy
  <1>2. RemoteDone(c) = d
    BY DEF RemoteDone, SetRemote, SetCollision, Steady, Conn
  <1> HIDE DEF a
  <1>3. d \in Conn /\ Alike(a, d)
    BY <1>1, OtherFields DEF Goes, Steady
  <1> HIDE DEF d
  <1>4. Fine(a, d, excuse) /\ d.remote = NoCtx
    BY <1>1, <1>3, AlikeFine DEF Goes, Alike
  <1>5. QED BY <1>1, <1>2, <1>4, FineTwice, GoesTwice DEF Fine

\* Notifying the Host of a local procedure that is no termination, or waiting to.
LEMMA NotifyLocalFine ==
  ASSUME NEW c, Steady(c), c.local # <<>>, Local(c).proc # "TERMINATE", NEW free \in BOOLEAN
  PROVE  /\ Goes(c, NotifyLocal(c, free))
         /\ \A excuse \in BOOLEAN : ~LocalPauses(c) \/ excuse => Fine(c, NotifyLocal(c, free), excuse)
  <1> DEFINE ctx == [Local(c) EXCEPT !.state = "WAIT_NTF"]
  <1>1. Local(c) \in Ctx /\ Shape(Local(c))
    BY LocalShape
  <1>2. ctx \in Ctx /\ ctx.proc = Local(c).proc /\ Shape(ctx)
    BY <1>1 DEF Ctx, Shape
  <1>3. NotifyLocal(c, free) \in {LocalDone(c), SetLocal(c, ctx)}
    BY DEF NotifyLocal
  <1> HIDE DEF ctx
  <1>4. Goes(c, SetLocal(c, ctx)) /\ Goes(c, LocalDone(c))
    BY <1>2, SetLocalGoes, LocalDoneGoes
  <1>5. ASSUME NEW excuse \in BOOLEAN, ~LocalPauses(c) \/ excuse
        PROVE  Fine(c, SetLocal(c, ctx), excuse) /\ Fine(c, LocalDone(c), excuse)
    <2>1. Fine(c, LocalDone(c), excuse)
      BY <1>5, LocalDoneGoes
    <2> DEFINE d == SetLocal(c, ctx)
    <2>2. Goes(c, d) /\ d.remote = c.remote /\ d.paused = c.paused
      BY <1>2, SetLocalGoes
    <2> HIDE DEF d
    <2>3. RemotePauses(c) => RemotePauses(d)
      BY <2>2 DEF RemotePauses
    <2>4. Fine(c, d, excuse)
      BY <1>5, <2>2, <2>3, HeldStill
    <2>5. QED BY <2>1, <2>4 DEF d
  <1>6. QED BY <1>3, <1>4, <1>5

\* The same of the remote procedure, once it does not hold the pause.
LEMMA NotifyRemoteFine ==
  ASSUME NEW c, Steady(c), NEW free \in BOOLEAN, ~RemotePauses(c), NEW excuse \in BOOLEAN
  PROVE  Fine(c, NotifyRemote(c, free), excuse)
  <1> DEFINE ctx == [c.remote EXCEPT !.state = "WAIT_NTF"]
  <1>1. ctx \in Ctx
    BY Fields DEF Steady, Ctx
  <1>2. NotifyRemote(c, free) \in {SetRemote(c, ctx), RemoteDone(c)}
    BY DEF NotifyRemote
  <1> HIDE DEF ctx
  <1>3. QED BY <1>1, <1>2, SetRemoteFine, RemoteDoneFine

\* The collision state does not matter here.
LEMMA IncompatFine ==
  ASSUME NEW c, Steady(c), NEW x \in {"NO_COLLISION", "RESOLVABLE", "RESERVED"}
  PROVE  LET d == Incompat(c, x)
         IN  /\ \A excuse \in BOOLEAN : Fine(c, d, excuse)
             /\ Goes(c, d) /\ d.local = c.local /\ d.remote = c.remote /\ d.paused = c.paused
             /\ d.out = c.out /\ Local(d) = Local(c)
             /\ (LocalPauses(c) <=> LocalPauses(d)) /\ (RemotePauses(c) <=> RemotePauses(d))
  <1> DEFINE d == Incompat(c, x)
  <1>1. d \in Conn /\ Alike(c, d)
    BY OtherFields DEF Steady
  <1> HIDE DEF d
  <1>2. \A excuse \in BOOLEAN : Fine(c, d, excuse)
    BY <1>1, AlikeFine
  <1>3. Goes(c, d)
    BY <1>2 DEF Fine
  <1>4. Local(d) = Local(c)
    BY <1>1 DEF Alike, Local
  <1>5. QED BY <1>1, <1>2, <1>3, <1>4 DEF d, Alike, LocalPauses, RemotePauses

\* Nor does the PHY in use.
LEMMA ApplyFine ==
  ASSUME NEW c, Steady(c), NEW phys \in SUBSET Phy
  PROVE  LET d == Apply(c, phys)
         IN  /\ \A excuse \in BOOLEAN : Fine(c, d, excuse)
             /\ Goes(c, d) /\ d.local = c.local /\ d.remote = c.remote /\ Local(d) = Local(c)
  <1>1. CASE phys = {}
    BY <1>1, FineSelf DEF Apply, Fine
  <1>2. CASE phys # {}
    <2> DEFINE x == CHOOSE p \in phys : TRUE
               d == [c EXCEPT !.phy = x]
    <2>1. x \in Phy
      BY <1>2
    <2>2. Apply(c, phys) = d
      BY <1>2 DEF Apply
    <2> HIDE DEF x
    <2>3. d \in Conn /\ Alike(c, d)
      BY <2>1, OtherFields DEF Steady
    <2> HIDE DEF d
    <2>4. \A excuse \in BOOLEAN : Fine(c, d, excuse)
      BY <2>3, AlikeFine
    <2>5. QED BY <2>2, <2>3, <2>4 DEF Alike, Local, Fine
  <1>3. QED BY <1>1, <1>2

\* The request for PHYs pauses the data, and will resume it.
LEMMA SendPhyReqFine ==
  ASSUME NEW c, Steady(c), Local(c).proc = "PHY_UPDATE", Local(c).state = "IDLE",
         NEW excuse \in BOOLEAN
  PROVE  Fine(c, SendPhyReq(c, Local(c)), excuse)
  <1> DEFINE ctx == Local(c)
             new == [ctx EXCEPT !.state = "WAIT_TX_ACK_PHY_REQ", !.tx_opcode = "PHY_REQ"]
             a == [c EXCEPT !.pref = ctx.phys]
             i == Incompat(a, "RESOLVABLE")
             b == SetLocal(i, new)
             pdu == Pdu("PHY_REQ", ctx.phys, None, 0)
             d == Tx(b, pdu)
  <1>1. c \in Conn /\ ctx \in Ctx /\ c.local # <<>> /\ ctx.phys \in SUBSET Phy
        /\ ctx.proc = "PHY_UPDATE" /\ ctx.state = "IDLE"
    BY LocalShape, CtxFields DEF Steady, None
  <1>2. new \in Ctx /\ new.proc = "PHY_UPDATE" /\ new.state = "WAIT_TX_ACK_PHY_REQ" /\ Shape(new)
    BY <1>1 DEF Ctx, Opcode, Shape
  <1>3. pdu \in PduType /\ pdu.op = "PHY_REQ"
    <2>1. "PHY_REQ" \in Opcode
      BY DEF Opcode
    <2> HIDE DEF ctx
    <2>2. pdu \in PduType
      BY <1>1, <2>1, PduTyped, Delta
    <2>3. QED BY <2>2 DEF Pdu
  <1>4. ~LocalPauses(c)
    BY <1>1 DEF LocalPauses
  <1>5. a \in Conn /\ Alike(c, a)
    <2> HIDE DEF ctx
    <2>1. QED BY <1>1, OtherFields
  <1>6. SendPhyReq(c, ctx) = Pause(d)
    BY DEF SendPhyReq, d, b, i, a, new
  <1> HIDE DEF new, a, pdu
  <1>7. Fine(c, a, excuse) /\ a.local = c.local /\ Local(a) = ctx
    BY <1>5, AlikeFine DEF Alike, Local
  <1>8. Fine(a, i, excuse) /\ i.local = c.local /\ Local(i) = ctx /\ ~LocalPauses(i)
    <2>1. Fine(a, i, excuse) /\ i.local = a.local /\ Local(i) = Local(a)
      BY <1>7, IncompatFine DEF Fine, Goes
    <2> HIDE DEF i
    <2>2. QED BY <1>4, <1>7, <2>1 DEF LocalPauses, ctx
  <1> HIDE DEF ctx, i
  <1>9. Fine(i, b, excuse) /\ Local(b) = new
    <2>1. Steady(i) /\ i.local # <<>> /\ new.proc = Local(i).proc
      BY <1>1, <1>2, <1>8 DEF Fine, Goes
    <2>2. QED BY <1>2, <1>8, <2>1, SetLocalFine, SetLocalGoes
  <1> HIDE DEF b
  <1>10. Fine(b, d, excuse) /\ d.local = b.local
    <2>1. Steady(b) /\ Harmless(b, pdu)
      BY <1>3, <1>9 DEF Fine, Goes, Harmless
    <2>2. QED BY <1>3, <2>1, TxFine
  <1> HIDE DEF d
  <1>11. Fine(d, Pause(d), excuse)
    <2>1. LocalPauses(d)
      BY <1>2, <1>9, <1>10 DEF LocalPauses, Local
    <2>2. Steady(d)
      BY <1>10 DEF Fine, Goes
    <2>3. QED BY <2>1, <2>2, PauseFine
  <1>12. Fine(c, Pause(d), excuse)
    BY <1>7, <1>8, <1>9, <1>10, <1>11, FineTwice
  <1>13. QED BY <1>6, <1>12 DEF ctx

\* The other requests pause nothing.
LEMMA SendOtherFine ==
  ASSUME NEW c, Steady(c), Local(c).proc # "PHY_UPDATE", NEW new \in Ctx, c.local # <<>>,
         Shape(new), new.proc = Local(c).proc, NEW pdu \in PduType,
         pdu.op # "UNKNOWN_RSP", pdu.op = "TERMINATE_IND" => new.proc = "TERMINATE",
         NEW excuse \in BOOLEAN
  PROVE  Fine(c, Tx(SetLocal(c, new), pdu), excuse)
  <1> DEFINE b == SetLocal(c, new)
  <1>1. ~LocalPauses(c)
    BY DEF LocalPauses
  <1>2. Fine(c, b, excuse) /\ Local(b) = new
    BY <1>1, SetLocalFine, SetLocalGoes
  <1> HIDE DEF b
  <1>3. Steady(b) /\ Harmless(b, pdu)
    BY <1>2 DEF Fine, Goes, Harmless, Ends
  <1>4. Fine(b, Tx(b, pdu), excuse)
    BY <1>3, TxFine
  <1>5. QED BY <1>2, <1>4, FineTwice DEF b

\* Whatever the local procedure, its request is fine.
LEMMA SendRequestFine ==
  ASSUME NEW c, Steady(c), Local(c).state = "IDLE", NEW excuse \in BOOLEAN
  PROVE  Fine(c, SendRequest(c), excuse)
  <1> DEFINE ctx == Local(c)
             map == [ctx EXCEPT !.state = "WAIT_INSTANT", !.left = InstantDelta]
             ind == Pdu("CHAN_MAP_IND", {}, None, InstantDelta)
             term == [ctx EXCEPT !.state = "WAIT_TX_ACK", !.tx_opcode = "TERMINATE_IND"]
             req(op) == [ctx EXCEPT !.state = "WAIT_RX", !.tx_opcode = op, !.rx_opcode = "FEATURE_RSP"]
             i == Incompat(c, "RESOLVABLE")
  <1>1. ctx \in Ctx /\ (ctx.proc # None => c.local # <<>>)
    BY LocalShape
  <1>2. map \in Ctx /\ map.proc = ctx.proc /\ (ctx.proc # "TERMINATE" => Shape(map))
    BY <1>1, Delta DEF Ctx, Shape
  <1>3. term \in Ctx /\ term.proc = ctx.proc /\ Shape(term)
    BY <1>1 DEF Ctx, Opcode, Shape
  <1>4. ASSUME NEW op \in {"FEATURE_REQ", "PER_INIT_FEAT_XCHG"}
        PROVE  req(op) \in Ctx /\ req(op).proc = ctx.proc /\ (ctx.proc # "TERMINATE" => Shape(req(op)))
    BY <1>1 DEF Ctx, Opcode, Shape
  <1>5. ind \in PduType /\ ind.op = "CHAN_MAP_IND"
    <2>1. "CHAN_MAP_IND" \in Opcode /\ {} \in SUBSET Phy
      BY DEF Opcode
    <2>2. ind \in PduType
      BY <2>1, PduTyped, Delta
    <2>3. QED BY <2>2 DEF Pdu
  <1>6. \A op \in {"TERMINATE_IND", "FEATURE_REQ", "PER_INIT_FEAT_XCHG"} :
          Plain(op) \in PduType /\ Plain(op).op = op
    BY PlainTyped DEF Opcode, Plain, Pdu
  <1>7. SendChanMapInd(c, ctx) = Tx(SetLocal(i, map), ind)
    BY DEF SendChanMapInd
  <1>8. SendCommon(c, ctx) = IF ctx.proc = "TERMINATE" THEN Tx(SetLocal(c, term), Plain("TERMINATE_IND"))
                             ELSE LET op == IF c.side = Central THEN "FEATURE_REQ"
                                                                ELSE "PER_INIT_FEAT_XCHG"
                                  IN  Tx(SetLocal(c, req(op)), Plain(op))
    BY DEF SendCommon
  <1> HIDE DEF map, ind, term, req
  <1>9. CASE ctx.proc = "CHAN_MAP_UPDATE"
    <2>1. Fine(c, i, excuse) /\ Steady(i) /\ i.local = c.local /\ Local(i) = ctx
      BY IncompatFine DEF Goes
    <2> HIDE DEF i, ctx
    <2>2. Fine(i, Tx(SetLocal(i, map), ind), excuse)
      BY <1>1, <1>2, <1>5, <1>9, <2>1, SendOtherFine DEF None
    <2>3. Fine(c, SendChanMapInd(c, ctx), excuse)
      BY <1>7, <2>1, <2>2, FineTwice
    <2>4. QED BY <1>9, <2>3, FineSelf DEF SendRequest, ctx
  <1>10. CASE ctx.proc = "TERMINATE"
    <2> HIDE DEF ctx
    <2>1. Fine(c, Tx(SetLocal(c, term), Plain("TERMINATE_IND")), excuse)
      BY <1>1, <1>3, <1>6, <1>10, SendOtherFine DEF None, ctx
    <2>2. QED BY <1>8, <1>10, <2>1 DEF SendRequest, ctx
  <1>11. CASE ctx.proc = "FEATURE_EXCHANGE"
    <2> DEFINE op == IF c.side = Central THEN "FEATURE_REQ" ELSE "PER_INIT_FEAT_XCHG"
    <2>1. op \in {"FEATURE_REQ", "PER_INIT_FEAT_XCHG"}
      OBVIOUS
    <2>2. SendCommon(c, ctx) = Tx(SetLocal(c, req(op)), Plain(op))
      BY <1>8, <1>11
    <2> HIDE DEF op, ctx
    <2>3. Fine(c, Tx(SetLocal(c, req(op)), Plain(op)), excuse)
      BY <1>1, <1>4, <1>6, <1>11, <2>1, SendOtherFine DEF None, ctx
    <2>4. QED BY <1>11, <2>2, <2>3 DEF SendRequest, ctx
  <1>12. CASE ctx.proc = "PHY_UPDATE"
    BY <1>12, SendPhyReqFine, FineSelf DEF SendRequest
  <1>13. CASE ctx.proc = None
    BY <1>13, FineSelf DEF SendRequest, None
  <1>14. QED BY <1>1, <1>9, <1>10, <1>11, <1>12, <1>13, CtxFields DEF Proc


\* Whatever was done before, ending the connection makes it fine.
LEMMA GoesReasonFine ==
  ASSUME NEW c, NEW d, Goes(c, d), NEW r \in Reasons, r # None, NEW excuse \in BOOLEAN
  PROVE  Fine(c, Reason(d, r), excuse)
  <1> DEFINE e == Reason(d, r)
  <1>1. Steady(d)
    BY DEF Goes
  <1>2. Goes(d, e)
    BY <1>1, ReasonFine DEF Fine
  <1>3. e.reason = r
    BY <1>1 DEF Steady, Reason, Conn
  <1> HIDE DEF e
  <1>4. Goes(c, e)
    BY <1>2, GoesTwice
  <1>5. QED BY <1>3, <1>4, FineAnyway DEF e

\* At its instant a PHY update has long resumed the data.
LEMMA PhyInstantFine ==
  ASSUME NEW c, Steady(c), Local(c).proc = "PHY_UPDATE", Local(c).state = "WAIT_INSTANT",
         NEW excuse \in BOOLEAN
  PROVE  Fine(c, PhyInstant(c, Local(c)), excuse)
  <1> DEFINE ctx == Local(c)
             a == Apply(c, ctx.phys)
             i == Incompat(a, "NO_COLLISION")
             new == [ctx EXCEPT !.state = "WAIT_INSTANT_ON_AIR"]
  <1>1. ctx \in Ctx /\ ctx.phys \in SUBSET Phy /\ c.local # <<>>
    BY LocalShape, CtxFields
  <1>2. new \in Ctx /\ new.proc = ctx.proc /\ Shape(new)
    BY <1>1 DEF Ctx, Shape
  <1>3. PhyInstant(c, ctx) = SetLocal(i, new)
    BY DEF PhyInstant
  <1> HIDE DEF new
  <1>4. ctx.state = "WAIT_INSTANT" /\ ctx = Local(c)
    OBVIOUS
  <1> HIDE DEF ctx
  <1>5. Fine(c, a, excuse) /\ Steady(a) /\ a.local = c.local /\ Local(a) = ctx
    BY <1>1, <1>4, ApplyFine DEF Goes
  <1> HIDE DEF a
  <1>6. Fine(a, i, excuse) /\ Steady(i) /\ i.local = c.local /\ Local(i) = ctx
    BY <1>5, IncompatFine DEF Goes
  <1> HIDE DEF i
  <1>7. ~LocalPauses(i)
    BY <1>4, <1>6 DEF LocalPauses
  <1>8. Fine(i, SetLocal(i, new), excuse)
    BY <1>1, <1>2, <1>6, <1>7, SetLocalFine
  <1>9. QED BY <1>3, <1>4, <1>5, <1>6, <1>8, FineTwice

\* A channel map update has never paused it.
LEMMA ChanMapInstantFine ==
  ASSUME NEW c, Steady(c), Local(c).proc = "CHAN_MAP_UPDATE", NEW excuse \in BOOLEAN
  PROVE  Fine(c, ChanMapInstant(c), excuse)
  <1> DEFINE i == Incompat(c, "NO_COLLISION")
  <1>1. c.local # <<>>
    BY LocalShape DEF None
  <1>2. Fine(c, i, excuse) /\ Steady(i) /\ i.local = c.local /\ Local(i) = Local(c)
    BY IncompatFine DEF Goes
  <1>3. ChanMapInstant(c) = LocalDone(i)
    BY DEF ChanMapInstant
  <1> HIDE DEF i
  <1>4. ~LocalPauses(i)
    BY <1>2 DEF LocalPauses
  <1>5. Fine(i, LocalDone(i), excuse)
    BY <1>1, <1>2, <1>4, LocalDoneGoes
  <1>6. QED BY <1>2, <1>3, <1>5, FineTwice

\* RUN of the local machine leaves no data paused.
LEMMA RunLocalFine ==
  ASSUME NEW c, Steady(c), NEW free \in BOOLEAN, NEW excuse \in BOOLEAN
  PROVE  Fine(c, RunLocal(c, free), excuse)
  <1>1. CASE Local(c).state = "WAIT_NTF"
    <2>1. c.local # <<>> /\ Local(c).proc # "TERMINATE" /\ ~LocalPauses(c)
      BY <1>1, LocalShape DEF Shape, LocalPauses
    <2>2. Fine(c, NotifyLocal(c, free), excuse)
      BY <2>1, NotifyLocalFine
    <2>3. RunLocal(c, free) = NotifyLocal(c, free)
      BY <1>1 DEF RunLocal
    <2>4. QED BY <2>2, <2>3
  <1>2. CASE Local(c).state # "WAIT_NTF"
    <2>1. Local(c).state = "IDLE" => Fine(c, SendRequest(c), excuse)
      BY SendRequestFine
    <2>2. Local(c).state = "WAIT_INSTANT" /\ Local(c).proc = "PHY_UPDATE" =>
            Fine(c, PhyInstant(c, Local(c)), excuse)
      BY PhyInstantFine
    <2>3. Local(c).proc = "CHAN_MAP_UPDATE" => Fine(c, ChanMapInstant(c), excuse)
      BY ChanMapInstantFine
    <2>4. QED BY <1>2, <2>1, <2>2, <2>3, FineSelf DEF RunLocal
  <1>3. QED BY <1>1, <1>2

\* The central's indication, sent or postponed, will resume the data when it is
\* acknowledged.
LEMMA SendUpdateIndFine ==
  ASSUME NEW c, Steady(c), NEW left \in 0 .. InstantDelta + 1, NEW excuse \in BOOLEAN
  PROVE  Fine(c, SendUpdateInd(c, left), excuse)
  <1> DEFINE phys == Chosen(c, c.remote.phys)
             wait == [c.remote EXCEPT !.state = "WAIT_TX_PHY_UPDATE_IND"]
             sent == [c.remote EXCEPT !.state = "WAIT_TX_ACK_PHY_UPDATE_IND", !.phys = phys,
                                      !.left = left, !.tx_opcode = "PHY_UPDATE_IND"]
             pdu == Pdu("PHY_UPDATE_IND", phys, None, left)
             b == SetRemote(c, sent)
  <1>1. c.remote \in Ctx
    BY Fields DEF Steady
  <1>2. phys \in SUBSET Phy
    BY <1>1, CtxFields DEF Chosen
  <1> HIDE DEF phys
  <1>3. wait \in Ctx /\ wait.proc = c.remote.proc /\ wait.state = "WAIT_TX_PHY_UPDATE_IND"
    BY <1>1 DEF Ctx
  <1>4. sent \in Ctx /\ sent.proc = c.remote.proc /\ sent.state = "WAIT_TX_ACK_PHY_UPDATE_IND"
    BY <1>1, <1>2 DEF Ctx, Opcode
  <1>5. pdu \in PduType /\ pdu.op = "PHY_UPDATE_IND"
    <2>1. "PHY_UPDATE_IND" \in Opcode
      BY DEF Opcode
    <2>2. pdu \in PduType
      BY <1>2, <2>1, PduTyped
    <2>3. QED BY <2>2 DEF Pdu
  <1>6. SendUpdateInd(c, left) \in {SetRemote(c, wait), Tx(b, pdu)}
    BY DEF SendUpdateInd, phys
  <1> HIDE DEF wait, sent, pdu
  <1>7. ASSUME NEW ctx \in {wait, sent}
        PROVE  Fine(c, SetRemote(c, ctx), excuse)
    <2> DEFINE d == SetRemote(c, ctx)
    <2>1. ctx \in Ctx
      BY <1>3, <1>4
    <2>2. d.remote = ctx /\ ((RemotePauses(c) => RemotePauses(d) \/ excuse) => Fine(c, d, excuse))
      BY <2>1, SetRemoteFine
    <2> HIDE DEF d
    <2>3. RemotePauses(c) => RemotePauses(d)
      BY <1>3, <1>4, <2>2 DEF RemotePauses
    <2>4. QED BY <2>2, <2>3 DEF d
  <1>8. Fine(c, b, excuse)
    BY <1>7
  <1> HIDE DEF b
  <1>9. Steady(b) /\ Harmless(b, pdu)
    BY <1>5, <1>8 DEF Fine, Goes, Harmless
  <1>10. Fine(c, Tx(b, pdu), excuse)
    BY <1>5, <1>8, <1>9, TxFine, FineTwice
  <1>11. QED BY <1>6, <1>7, <1>10

\* RUN of the remote machine leaves no data paused.
LEMMA RunRemoteFine ==
  ASSUME NEW c, Steady(c), NEW free \in BOOLEAN, NEW excuse \in BOOLEAN
  PROVE  Fine(c, RunRemote(c, free), excuse)
  <1> DEFINE ctx == c.remote
             a == Apply(c, ctx.phys)
             new == [ctx EXCEPT !.state = "WAIT_INSTANT_ON_AIR", !.ntf = TRUE]
  <1>1. ctx \in Ctx /\ ctx.phys \in SUBSET Phy /\ new \in Ctx
    <2>1. ctx \in Ctx /\ ctx.phys \in SUBSET Phy
      BY Fields, CtxFields DEF Steady
    <2>2. QED BY <2>1 DEF Ctx
  <1>2. ctx.state = "WAIT_INSTANT" => Fine(c, SetRemote(a, new), excuse)
    <2>1. SUFFICES ASSUME c.remote.state = "WAIT_INSTANT" PROVE Fine(c, SetRemote(a, new), excuse)
      OBVIOUS
    <2>2. Fine(c, a, excuse) /\ Steady(a) /\ a.remote = c.remote
      BY <1>1, ApplyFine DEF Goes
    <2> HIDE DEF a, new
    <2>3. ~RemotePauses(a)
      BY <2>1, <2>2 DEF RemotePauses
    <2>4. Fine(a, SetRemote(a, new), excuse)
      BY <1>1, <2>2, <2>3, SetRemoteFine
    <2>5. QED BY <2>2, <2>4, FineTwice
  <1>3. ctx.state = "WAIT_INSTANT" => Fine(c, RemoteDone(c), excuse)
    BY RemoteDoneFine DEF RemotePauses
  <1>4. ctx.state = "WAIT_NTF" => Fine(c, NotifyRemote(c, free), excuse)
    BY NotifyRemoteFine DEF RemotePauses
  <1>5. Fine(c, Reason(RemoteDone(c), "REMOTE_USER_TERM_CONN"), excuse)
    BY RemoteDoneFine, GoesReasonFine, ReasonsGiven
  <1>6. Fine(c, SendUpdateInd(c, InstantDelta), excuse)
    BY Delta, SendUpdateIndFine
  <1>7. Fine(c, c, excuse)
    BY FineSelf
  <1> HIDE DEF a
  <1>8. QED BY <1>2, <1>3, <1>4, <1>5, <1>6, <1>7 DEF RunRemote, a

\* ull_cp_run leaves no data paused.
LEMMA RunFine ==
  ASSUME NEW c, Steady(c), NEW free \in BOOLEAN, NEW excuse \in BOOLEAN
  PROVE  Fine(c, Run(c, free), excuse)
  <1> DEFINE d == RunRemote(c, free)
  <1>1. Fine(c, d, excuse) /\ Steady(d)
    BY RunRemoteFine DEF Fine, Goes
  <1>2. Run(c, free) = RunLocal(d, free)
    BY DEF Run
  <1> HIDE DEF d
  <1>3. Fine(d, RunLocal(d, free), excuse)
    BY <1>1, RunLocalFine
  <1>4. QED BY <1>1, <1>2, <1>3, FineTwice

\* Nor does ull_cp_tx_ntf.
LEMMA TxNtfFine ==
  ASSUME NEW c, Steady(c), NEW free \in BOOLEAN, NEW excuse \in BOOLEAN
  PROVE  Fine(c, TxNtf(c, free), excuse)
  <1> DEFINE l == IF Local(c).state = "WAIT_INSTANT_ON_AIR" THEN NotifyLocal(c, free) ELSE c
  <1>1. Fine(c, l, excuse)
    <2>1. CASE Local(c).state = "WAIT_INSTANT_ON_AIR"
      <3>1. c.local # <<>> /\ Local(c).proc # "TERMINATE" /\ ~LocalPauses(c)
        BY <2>1, LocalShape DEF Shape, LocalPauses
      <3>2. QED BY <2>1, <3>1, NotifyLocalFine
    <2>2. QED BY <2>1, FineSelf
  <1> HIDE DEF l
  <1>2. TxNtf(c, free) = IF l.remote.state = "WAIT_INSTANT_ON_AIR" THEN NotifyRemote(l, free) ELSE l
    BY DEF TxNtf, l
  <1>3. l.remote.state = "WAIT_INSTANT_ON_AIR" => Fine(l, NotifyRemote(l, free), excuse)
    BY <1>1, NotifyRemoteFine DEF RemotePauses, Fine, Goes
  <1>4. QED BY <1>1, <1>2, <1>3, FineTwice

\* An acknowledgment of the local procedure's PDU: the peripheral's request and
\* the indication resume the data, the central's request waits for its answer.
LEMMA TxAckLocalFine ==
  ASSUME NEW c, Steady(c), NEW op, NEW free \in BOOLEAN, NEW excuse \in BOOLEAN
  PROVE  Fine(c, TxAckLocal(c, op, free), excuse)
  <1> DEFINE ctx == Local(c)
             rsp == [ctx EXCEPT !.state = "WAIT_RX_PHY_RSP", !.rx_opcode = "PHY_RSP"]
             ind == [ctx EXCEPT !.state = "WAIT_RX_PHY_UPDATE_IND", !.rx_opcode = "PHY_UPDATE_IND"]
             inst == [ctx EXCEPT !.state = "WAIT_INSTANT"]
             i == Incompat(c, "NO_COLLISION")
  <1>1. CASE ctx.state \notin {"WAIT_TX_ACK_PHY_REQ", "WAIT_TX_ACK_PHY_UPDATE_IND", "WAIT_TX_ACK"}
    <2>1. TxAckLocal(c, op, free) = c
      BY <1>1 DEF TxAckLocal
    <2>2. QED BY <2>1, FineSelf
  <1>2. CASE ctx.state = "WAIT_TX_ACK_PHY_REQ"
    <2>1. ctx \in Ctx /\ c.local # <<>> /\ Shape(ctx)
      BY <1>2, LocalShape
    <2>2. rsp \in Ctx /\ rsp.proc = ctx.proc /\ rsp.state = "WAIT_RX_PHY_RSP" /\ Shape(rsp)
      BY <1>2, <2>1 DEF Ctx, Opcode, Shape
    <2>3. ind \in Ctx /\ ind.proc = ctx.proc /\ Shape(ind)
      BY <1>2, <2>1 DEF Ctx, Opcode, Shape
    <2>4. TxAckLocal(c, op, free) \in {c, SetLocal(c, rsp), Resume(SetLocal(c, ind))}
      BY <1>2 DEF TxAckLocal
    <2> HIDE DEF rsp, ind
    <2>5. Fine(c, SetLocal(c, rsp), excuse)
      BY <2>1, <2>2, SetLocalFine
    <2>6. Goes(c, SetLocal(c, ind))
      BY <2>1, <2>3, SetLocalGoes
    <2>7. Fine(c, Resume(SetLocal(c, ind)), excuse)
      BY <2>6, ResumeFine
    <2>8. QED BY <2>4, <2>5, <2>7, FineSelf
  <1>3. CASE ctx.state = "WAIT_TX_ACK_PHY_UPDATE_IND"
    <2>1. ctx \in Ctx /\ c.local # <<>> /\ Shape(ctx) /\ ctx.proc # "TERMINATE"
      BY <1>3, LocalShape DEF Shape
    <2>2. inst \in Ctx /\ inst.proc = ctx.proc /\ Shape(inst)
      BY <2>1 DEF Ctx, Shape
    <2>3. TxAckLocal(c, op, free) \in {c, Resume(SetLocal(c, inst)), Resume(NotifyLocal(i, free))}
      BY <1>3 DEF TxAckLocal
    <2> HIDE DEF inst
    <2>4. Goes(c, SetLocal(c, inst))
      BY <2>1, <2>2, SetLocalGoes
    <2>5. Goes(c, i) /\ i.local = c.local /\ Local(i) = ctx
      BY IncompatFine
    <2> HIDE DEF i
    <2>6. Goes(i, NotifyLocal(i, free))
      BY <2>1, <2>5, NotifyLocalFine DEF Goes
    <2>7. Goes(c, NotifyLocal(i, free))
      BY <2>5, <2>6, GoesTwice
    <2>8. Fine(c, Resume(SetLocal(c, inst)), excuse) /\ Fine(c, Resume(NotifyLocal(i, free)), excuse)
      BY <2>4, <2>7, ResumeFine
    <2>9. QED BY <2>3, <2>8, FineSelf
  <1>4. CASE ctx.state = "WAIT_TX_ACK"
    <2>1. TxAckLocal(c, op, free) \in {c, Reason(LocalDone(c), "LOCALHOST_TERM_CONN")}
      BY <1>4 DEF TxAckLocal
    <2>2. c.local # <<>>
      BY <1>4, LocalShape
    <2>3. QED BY <2>1, <2>2, DoneReasonFine, FineSelf, ReasonsGiven
  <1>5. QED BY <1>1, <1>2, <1>3, <1>4

\* One of the remote procedure's resumes the data in every case.
LEMMA TxAckRemoteFine ==
  ASSUME NEW c, Steady(c), NEW op, NEW excuse \in BOOLEAN
  PROVE  Fine(c, TxAckRemote(c, op), excuse)
  <1> DEFINE ctx == c.remote
             ind == [ctx EXCEPT !.state = "WAIT_RX_PHY_UPDATE_IND"]
             inst == [ctx EXCEPT !.state = "WAIT_INSTANT"]
  <1>1. ind \in Ctx /\ inst \in Ctx
    <2>1. ctx \in Ctx
      BY Fields DEF Steady
    <2>2. QED BY <2>1 DEF Ctx
  <1>2. TxAckRemote(c, op) \in {c, Resume(SetRemote(c, ind)), Resume(SetRemote(c, inst)),
                                Resume(RemoteDone(c))}
    BY DEF TxAckRemote, AckedUpdateInd
  <1> HIDE DEF ind, inst
  <1>3. Goes(c, SetRemote(c, ind)) /\ Goes(c, SetRemote(c, inst)) /\ Goes(c, RemoteDone(c))
    BY <1>1, SetRemoteFine, RemoteDoneFine
  <1>4. QED BY <1>2, <1>3, ResumeFine, FineSelf

\* ull_cp_tx_ack leaves no data paused.
LEMMA TxAckFine ==
  ASSUME NEW c, Steady(c), NEW free \in BOOLEAN, NEW excuse \in BOOLEAN
  PROVE  Fine(c, TxAck(c, free), excuse)
  <1> DEFINE a == [c EXCEPT !.acked = None]
             b == TxAckLocal(a, c.acked, free)
  <1>1. a \in Conn /\ Alike(c, a)
    BY OtherFields DEF Steady
  <1> HIDE DEF a
  <1>2. Fine(c, a, excuse) /\ Steady(a)
    BY <1>1, AlikeFine DEF Fine, Goes
  <1>3. Fine(a, b, excuse) /\ Steady(b)
    BY <1>2, TxAckLocalFine DEF Fine, Goes
  <1> HIDE DEF b
  <1>4. Fine(b, TxAckRemote(b, c.acked), excuse)
    BY <1>3, TxAckRemoteFine
  <1>5. TxAck(c, free) = TxAckRemote(b, c.acked)
    BY DEF TxAck, a, b
  <1>6. QED BY <1>2, <1>3, <1>4, <1>5, FineTwice

\* The end of a PHY update at its requester: the peripheral resumes the data, the
\* central relies on having done so, or is excused.
LEMMA EndLocalPhyFine ==
  ASSUME NEW c, Steady(c), Local(c).proc = "PHY_UPDATE", NEW free \in BOOLEAN, NEW excuse \in BOOLEAN
  PROVE  /\ Goes(c, EndLocalPhy(c, free))
         /\ ~LocalPauses(c) \/ c.side = Peripheral \/ excuse => Fine(c, EndLocalPhy(c, free), excuse)
  <1> DEFINE i == Incompat(c, "NO_COLLISION")
             d == NotifyLocal(i, free)
  <1>1. c.local # <<>>
    BY LocalShape DEF None
  <1>2. /\ Goes(c, i) /\ Steady(i) /\ i.local = c.local /\ Local(i) = Local(c) /\ Fine(c, i, excuse)
        /\ (LocalPauses(c) <=> LocalPauses(i)) /\ i.side = c.side
    BY IncompatFine DEF Goes
  <1>3. EndLocalPhy(c, free) = IF c.side = Peripheral THEN Resume(d) ELSE d
    BY DEF EndLocalPhy
  <1> HIDE DEF i
  <1>4. Goes(i, d) /\ (~LocalPauses(i) \/ excuse => Fine(i, d, excuse))
    BY <1>1, <1>2, NotifyLocalFine
  <1>5. Goes(c, d)
    BY <1>2, <1>4, GoesTwice
  <1> HIDE DEF d
  <1>6. Fine(c, Resume(d), excuse)
    BY <1>5, ResumeFine
  <1>7. ~LocalPauses(c) \/ excuse => Fine(c, d, excuse)
    BY <1>2, <1>4, FineTwice
  <1>8. QED BY <1>3, <1>5, <1>6, <1>7 DEF Fine

\* llcp_lp_pu_rx leaves no data paused, but for a central whose peer does not know
\* the request.
LEMMA RxLocalPhyFine ==
  ASSUME NEW c, Steady(c), Local(c).proc = "PHY_UPDATE", NEW pdu \in PduType, NEW free \in BOOLEAN,
         NEW excuse \in BOOLEAN,
         pdu.op = "UNKNOWN_RSP" /\ Local(c).state = "WAIT_RX_PHY_RSP" /\ c.side = Central => excuse
  PROVE  Fine(c, RxLocalPhy(c, pdu, free), excuse)
  <1> DEFINE ctx == Local(c)
             phys == Chosen(c, ctx.phys \intersect pdu.phys)
             sent == [ctx EXCEPT !.state = "WAIT_TX_ACK_PHY_UPDATE_IND", !.phys = phys,
                                 !.left = InstantDelta + 1, !.rx_opcode = None,
                                 !.tx_opcode = "PHY_UPDATE_IND"]
             ind == Pdu("PHY_UPDATE_IND", phys, None, InstantDelta + 1)
             inst == [ctx EXCEPT !.state = "WAIT_INSTANT", !.phys = pdu.phys, !.left = pdu.left]
             i == Incompat(c, "RESERVED")
             b == SetLocal(i, sent)
             d == Tx(b, ind)
             e == EndLocalPhy(c, free)
  <1>1. ctx \in Ctx /\ c.local # <<>> /\ ctx.proc = "PHY_UPDATE" /\ c.side \in Side
    BY LocalShape, Fields DEF Steady, None
  <1>2. phys \in SUBSET Phy
    BY <1>1, CtxFields DEF Chosen
  <1> HIDE DEF phys
  <1>3. sent \in Ctx /\ sent.proc = "PHY_UPDATE" /\ sent.state = "WAIT_TX_ACK_PHY_UPDATE_IND"
        /\ Shape(sent)
    BY <1>1, <1>2, Delta DEF Ctx, Opcode, Shape
  <1>4. inst \in Ctx /\ inst.proc = ctx.proc /\ Shape(inst)
    BY <1>1, PduFields DEF Ctx, Shape
  <1>5. ind \in PduType /\ ind.op = "PHY_UPDATE_IND"
    <2>1. "PHY_UPDATE_IND" \in Opcode
      BY DEF Opcode
    <2>2. ind \in PduType
      BY <1>2, <2>1, PduTyped, Delta
    <2>3. QED BY <2>2 DEF Pdu
  <1>6. RxLocalPhy(c, pdu, free) =
          CASE pdu.op = "PHY_RSP" -> IF ctx.state # "WAIT_RX_PHY_RSP" THEN c ELSE Pause(d)
            [] pdu.op = "PHY_UPDATE_IND" ->
                 IF ctx.state # "WAIT_RX_PHY_UPDATE_IND" THEN c
                 ELSE IF pdu.phys = {} THEN e
                 ELSE IF RxInstantPassed(pdu) THEN Reason(e, "INSTANT_PASSED")
                 ELSE Resume(SetLocal(c, inst))
            [] pdu.op = "UNKNOWN_RSP" ->
                 IF ctx.state \in {"WAIT_RX_PHY_RSP", "WAIT_RX_PHY_UPDATE_IND"} THEN e ELSE c
            [] pdu.op = "REJECT_EXT_IND" -> IF ctx.state = "WAIT_RX_PHY_UPDATE_IND" THEN e ELSE c
            [] OTHER -> NotAllowedLocal(c)
    BY Zenon DEF RxLocalPhy, phys, sent, ind, inst
  <1> HIDE DEF sent, inst, ind
  <1>7. Fine(c, Pause(d), excuse)
    <2>1. Fine(c, i, excuse) /\ Steady(i) /\ i.local = c.local /\ Local(i) = ctx
      BY IncompatFine DEF Goes
    <2> HIDE DEF i, ctx
    <2>2. Fine(i, b, excuse) /\ Steady(b) /\ Local(b) = sent
      BY <1>1, <1>3, <2>1, SetLocalFine, SetLocalGoes DEF Goes
    <2> HIDE DEF b
    <2>3. Harmless(b, ind)
      BY <1>5 DEF Harmless
    <2>4. Fine(b, d, excuse) /\ d.local = b.local
      BY <1>5, <2>2, <2>3, TxFine
    <2> HIDE DEF d
    <2>5. Steady(d) /\ LocalPauses(d)
      BY <1>3, <2>2, <2>4 DEF Fine, Goes, LocalPauses, Local
    <2>6. Fine(d, Pause(d), excuse)
      BY <2>5, PauseFine
    <2>7. QED BY <2>1, <2>2, <2>4, <2>6, FineTwice
  <1> HIDE DEF b, d
  <1>8. Fine(c, Resume(SetLocal(c, inst)), excuse)
    <2>1. Goes(c, SetLocal(c, inst))
      BY <1>1, <1>4, SetLocalGoes
    <2>2. QED BY <2>1, ResumeFine
  <1>9. Goes(c, e) /\ (~LocalPauses(c) \/ c.side = Peripheral \/ excuse => Fine(c, e, excuse))
    BY EndLocalPhyFine
  <1> HIDE DEF e
  <1>10. Fine(c, Reason(e, "INSTANT_PASSED"), excuse)
    BY <1>9, GoesReasonFine, ReasonsGiven
  <1>11. ctx.state = "WAIT_RX_PHY_UPDATE_IND" => Fine(c, e, excuse)
    BY <1>9 DEF LocalPauses
  <1>12. pdu.op = "UNKNOWN_RSP" /\ ctx.state = "WAIT_RX_PHY_RSP" => Fine(c, e, excuse)
    BY <1>1, <1>9 DEF Side
  <1>13. Fine(c, NotAllowedLocal(c), excuse)
    BY <1>1, DoneReasonFine, ReasonsGiven DEF NotAllowedLocal
  <1>14. Fine(c, c, excuse)
    BY FineSelf
  <1> HIDE DEF ctx
  <1>15. QED BY <1>6, <1>7, <1>8, <1>10, <1>11, <1>12, <1>13, <1>14

\* A feature exchange has paused nothing.
LEMMA RxFeatureRspFine ==
  ASSUME NEW c, Steady(c), Local(c).proc = "FEATURE_EXCHANGE", NEW pdu \in PduType,
         NEW free \in BOOLEAN, NEW excuse \in BOOLEAN
  PROVE  Fine(c, RxFeatureRsp(c, pdu, free), excuse)
  <1> DEFINE x == c.fex \/ pdu.op = "FEATURE_RSP"
             a == [c EXCEPT !.fex = x]
  <1>1. c.local # <<>> /\ c \in Conn
    BY LocalShape DEF Steady, None
  <1>2. x \in BOOLEAN
    BY <1>1, Fields
  <1>3. RxFeatureRsp(c, pdu, free) \in {NotifyLocal(a, free), NotAllowedLocal(c)}
    BY DEF RxFeatureRsp
  <1> HIDE DEF x
  <1>4. a \in Conn /\ Alike(c, a)
    BY <1>1, <1>2, OtherFields
  <1> HIDE DEF a
  <1>5. Fine(c, a, excuse) /\ Steady(a) /\ a.local = c.local /\ Local(a) = Local(c)
    BY <1>4, AlikeFine DEF Fine, Goes, Alike, Local
  <1>6. ~LocalPauses(a) /\ Local(a).proc # "TERMINATE"
    BY <1>5 DEF LocalPauses
  <1>7. Fine(a, NotifyLocal(a, free), excuse)
    BY <1>1, <1>5, <1>6, NotifyLocalFine
  <1>8. Fine(c, NotAllowedLocal(c), excuse)
    BY <1>1, DoneReasonFine, ReasonsGiven DEF NotAllowedLocal
  <1>9. QED BY <1>3, <1>5, <1>7, <1>8, FineTwice

\* A PDU for the local procedure leaves no data paused.
LEMMA RxLocalFine ==
  ASSUME NEW c, Steady(c), NEW pdu \in PduType, NEW free \in BOOLEAN, NEW excuse \in BOOLEAN,
         pdu.op = "UNKNOWN_RSP" /\ Local(c).state = "WAIT_RX_PHY_RSP" /\ c.side = Central => excuse
  PROVE  Fine(c, RxLocal(c, pdu, free), excuse)
  <1>1. Local(c).proc = "PHY_UPDATE" => Fine(c, RxLocalPhy(c, pdu, free), excuse)
    BY RxLocalPhyFine
  <1>2. Local(c).proc = "FEATURE_EXCHANGE" => Fine(c, RxFeatureRsp(c, pdu, free), excuse)
    BY RxFeatureRspFine
  <1>3. Local(c).proc = "CHAN_MAP_UPDATE" => Fine(c, NotAllowedLocal(c), excuse)
    BY LocalShape, DoneReasonFine, ReasonsGiven DEF NotAllowedLocal, None
  <1>4. Fine(c, c, excuse)
    BY FineSelf
  <1>5. QED BY <1>1, <1>2, <1>3, <1>4 DEF RxLocal

\* llcp_rp_pu_rx leaves no data paused: a request pauses it until the answer is
\* acknowledged, and the indication finds it resumed.
LEMMA RxRemotePhyFine ==
  ASSUME NEW c, Steady(c), c.remote.proc = "PHY_UPDATE", NEW pdu \in PduType, NEW excuse \in BOOLEAN
  PROVE  Fine(c, RxRemotePhy(c, pdu), excuse)
  <1> DEFINE ctx == c.remote
             req == [ctx EXCEPT !.phys = pdu.phys \intersect c.pref]
             b == SetRemote(c, req)
             d == Pause(b)
             new == [d.remote EXCEPT !.state = "WAIT_TX_ACK_PHY_RSP", !.tx_opcode = "PHY_RSP",
                                     !.rx_opcode = "PHY_UPDATE_IND"]
             n == SetRemote(d, new)
             rsp == Pdu("PHY_RSP", c.pref, None, 0)
             inst == [ctx EXCEPT !.state = "WAIT_INSTANT", !.phys = pdu.phys, !.left = pdu.left]
  <1>1. ctx \in Ctx /\ c.pref \in SUBSET Phy /\ ctx.proc = "PHY_UPDATE"
    BY Fields DEF Steady
  <1>2. req \in Ctx /\ req.proc = ctx.proc /\ req.state = ctx.state /\ inst \in Ctx
    BY <1>1, PduFields DEF Ctx
  <1>3. rsp \in PduType /\ rsp.op = "PHY_RSP"
    <2>1. "PHY_RSP" \in Opcode
      BY DEF Opcode
    <2>2. rsp \in PduType
      BY <1>1, <2>1, PduTyped, Delta
    <2>3. QED BY <2>2 DEF Pdu
  <1>4. RxRemotePhy(c, pdu) =
          CASE pdu.op = "PHY_REQ" /\ ctx.state = "WAIT_RX_PHY_REQ" ->
                 IF c.side = Central THEN SendUpdateInd(d, InstantDelta + 1) ELSE Tx(n, rsp)
            [] pdu.op = "PHY_UPDATE_IND" /\ ctx.state = "WAIT_RX_PHY_UPDATE_IND" ->
                 IF pdu.phys = {} THEN RemoteDone(c)
                 ELSE IF RxInstantPassed(pdu) THEN Reason(RemoteDone(c), "INSTANT_PASSED")
                 ELSE SetRemote(c, inst)
            [] pdu.op \in {"PHY_REQ", "PHY_UPDATE_IND"} -> c
            [] OTHER -> NotAllowedRemote(c)
    BY Zenon DEF RxRemotePhy, d, req, new, rsp, inst
  <1> HIDE DEF req, inst, rsp
  <1>5. CASE ctx.state = "WAIT_RX_PHY_REQ"
    <2>1. b.remote = req /\ ((RemotePauses(c) => RemotePauses(b) \/ excuse) => Fine(c, b, excuse))
      BY <1>2, SetRemoteFine
    <2> HIDE DEF b
    <2>2. RemotePauses(b)
      BY <1>1, <1>2, <1>5, <2>1 DEF RemotePauses
    <2>3. Fine(c, b, excuse) /\ Steady(b)
      BY <2>1, <2>2 DEF Fine, Goes
    <2>4. Fine(b, d, excuse) /\ d.remote = req /\ Steady(d)
      BY <2>1, <2>2, <2>3, PauseFine DEF Fine, Goes
    <2> HIDE DEF d
    <2>5. new \in Ctx /\ new.proc = "PHY_UPDATE" /\ new.state = "WAIT_TX_ACK_PHY_RSP"
      <3>1. req \in Ctx
        BY <1>2
      <3>2. QED BY <1>1, <1>2, <2>4, <3>1 DEF Ctx, Opcode
    <2> HIDE DEF new
    <2>6. n.remote = new /\ ((RemotePauses(d) => RemotePauses(n) \/ excuse) => Fine(d, n, excuse))
      BY <2>4, <2>5, SetRemoteFine
    <2> HIDE DEF n
    <2>7. Fine(d, n, excuse) /\ Steady(n)
      BY <2>5, <2>6 DEF RemotePauses, Fine, Goes
    <2>8. Fine(n, Tx(n, rsp), excuse)
      BY <1>3, <2>7, TxFine DEF Harmless
    <2>9. Fine(d, SendUpdateInd(d, InstantDelta + 1), excuse)
      BY <2>4, Delta, SendUpdateIndFine
    <2>10. Fine(c, SendUpdateInd(d, InstantDelta + 1), excuse) /\ Fine(c, Tx(n, rsp), excuse)
      BY <2>3, <2>4, <2>7, <2>8, <2>9, FineTwice
    <2>11. Fine(c, c, excuse) /\ Fine(c, NotAllowedRemote(c), excuse)
      BY FineSelf, RemoteDoneFine, GoesReasonFine, ReasonsGiven DEF NotAllowedRemote
    <2>12. QED BY <1>4, <1>5, <2>10, <2>11
  <1>6. CASE ctx.state # "WAIT_RX_PHY_REQ"
    <2>1. Fine(c, c, excuse) /\ Fine(c, NotAllowedRemote(c), excuse)
          /\ Fine(c, Reason(RemoteDone(c), "INSTANT_PASSED"), excuse)
      BY FineSelf, RemoteDoneFine, GoesReasonFine, ReasonsGiven DEF NotAllowedRemote
    <2>2. ctx.state = "WAIT_RX_PHY_UPDATE_IND" =>
            Fine(c, RemoteDone(c), excuse) /\ Fine(c, SetRemote(c, inst), excuse)
      BY <1>2, RemoteDoneFine, SetRemoteFine DEF RemotePauses
    <2> HIDE DEF d, n
    <2>3. QED BY <1>4, <1>6, <2>1, <2>2
  <1>7. QED BY <1>5, <1>6

\* A channel map update of the peer has paused nothing.
LEMMA RxChanMapIndFine ==
  ASSUME NEW c, Steady(c), c.remote.proc = "CHAN_MAP_UPDATE", NEW pdu \in PduType, NEW excuse \in BOOLEAN
  PROVE  Fine(c, RxChanMapInd(c, pdu), excuse)
  <1> DEFINE inst == [c.remote EXCEPT !.state = "WAIT_INSTANT", !.left = pdu.left]
  <1>1. inst \in Ctx
    <2>1. c.remote \in Ctx
      BY Fields DEF Steady
    <2>2. QED BY <2>1, PduFields DEF Ctx
  <1>2. RxChanMapInd(c, pdu) \in
          {c, NotAllowedRemote(c), Reason(RemoteDone(c), "INSTANT_PASSED"), SetRemote(c, inst)}
    BY DEF RxChanMapInd, inst
  <1> HIDE DEF inst
  <1>3. Fine(c, SetRemote(c, inst), excuse)
    BY <1>1, SetRemoteFine DEF RemotePauses
  <1>4. Fine(c, NotAllowedRemote(c), excuse) /\ Fine(c, Reason(RemoteDone(c), "INSTANT_PASSED"), excuse)
    BY RemoteDoneFine, GoesReasonFine, ReasonsGiven DEF NotAllowedRemote
  <1>5. QED BY <1>2, <1>3, <1>4, FineSelf

\* Nor have the peer's feature exchange and termination (rp_comm_send_rsp).
LEMMA SendCommonRspFine ==
  ASSUME NEW c, Steady(c), c.remote.proc \in {"FEATURE_EXCHANGE", "TERMINATE"}, NEW excuse \in BOOLEAN
  PROVE  Fine(c, SendCommonRsp(c, c.remote), excuse)
  <1> DEFINE f == [c EXCEPT !.fex = TRUE]
             g == Tx(f, Plain("FEATURE_RSP"))
             x == c.paused \union {"TERMINATE"}
             d == [c EXCEPT !.paused = x]
             new == [c.remote EXCEPT !.state = "POSTPONE_TERMINATE"]
  <1>1. ~RemotePauses(c) /\ c \in Conn
    BY DEF RemotePauses, Steady
  <1>2. SendCommonRsp(c, c.remote) \in
          {RemoteDone(g), SetRemote(d, new), Reason(RemoteDone(d), "REMOTE_USER_TERM_CONN")}
    BY DEF SendCommonRsp, g, f, d, new
  <1>3. Fine(c, RemoteDone(g), excuse)
    <2>1. f \in Conn /\ Alike(c, f)
      BY <1>1, OtherFields
    <2> HIDE DEF f
    <2>2. Fine(c, f, excuse) /\ Steady(f) /\ f.remote = c.remote
      BY <2>1, AlikeFine DEF Fine, Goes, Alike
    <2>3. Plain("FEATURE_RSP") \in PduType /\ Plain("FEATURE_RSP").op = "FEATURE_RSP"
      BY PlainTyped DEF Opcode, Plain, Pdu
    <2>4. Fine(f, g, excuse) /\ g.remote = c.remote
      BY <2>2, <2>3, TxFine DEF Harmless
    <2> HIDE DEF g
    <2>5. ~RemotePauses(g) /\ Steady(g)
      BY <2>4 DEF RemotePauses, Fine, Goes
    <2>6. Fine(g, RemoteDone(g), excuse)
      BY <2>5, RemoteDoneFine
    <2>7. QED BY <2>2, <2>4, <2>6, FineTwice
  <1>4. Fine(c, d, excuse) /\ Steady(d) /\ ~RemotePauses(d) /\ Goes(c, d)
    <2>1. x \in SUBSET {"PHY_UPDATE", "TERMINATE"} /\ ("PHY_UPDATE" \in x => "PHY_UPDATE" \in c.paused)
      BY <1>1, Fields
    <2> HIDE DEF x
    <2>2. Goes(c, d) /\ d.paused = x /\ (RemotePauses(c) <=> RemotePauses(d))
          /\ (LocalPauses(c) <=> LocalPauses(d))
      BY <2>1, PausedParts
    <2> HIDE DEF d
    <2>3. Fine(c, d, excuse)
      BY <2>1, <2>2, HeldStill
    <2>4. QED BY <1>1, <2>2, <2>3 DEF Goes
  <1> HIDE DEF d
  <1>5. Fine(c, SetRemote(d, new), excuse)
    <2>1. c.remote \in Ctx
      BY <1>1, Fields
    <2>2. new \in Ctx
      BY <2>1 DEF Ctx
    <2> HIDE DEF new
    <2>3. Fine(d, SetRemote(d, new), excuse)
      BY <1>4, <2>2, SetRemoteFine
    <2>4. QED BY <1>4, <2>3, FineTwice
  <1>6. Fine(c, Reason(RemoteDone(d), "REMOTE_USER_TERM_CONN"), excuse)
    <2>1. Goes(c, RemoteDone(d))
      BY <1>4, RemoteDoneFine, GoesTwice
    <2>2. QED BY <2>1, GoesReasonFine, ReasonsGiven
  <1> HIDE DEF g, new
  <1>7. QED BY <1>2, <1>3, <1>5, <1>6

\* A PDU for the remote procedure leaves no data paused.
LEMMA RxRemoteFine ==
  ASSUME NEW c, Steady(c), NEW pdu \in PduType, NEW excuse \in BOOLEAN
  PROVE  Fine(c, RxRemote(c, pdu), excuse)
  <1>1. c.remote.proc = "PHY_UPDATE" => Fine(c, RxRemotePhy(c, pdu), excuse)
    BY RxRemotePhyFine
  <1>2. c.remote.proc = "CHAN_MAP_UPDATE" => Fine(c, RxChanMapInd(c, pdu), excuse)
    BY RxChanMapIndFine
  <1>3. c.remote.proc \in {"FEATURE_EXCHANGE", "TERMINATE"} => Fine(c, SendCommonRsp(c, c.remote), excuse)
    BY SendCommonRspFine
  <1>4. Fine(c, c, excuse)
    BY FineSelf
  <1>5. QED BY <1>1, <1>2, <1>3, <1>4 DEF RxRemote

\* However a request of the peer is met, no data is left paused, if the procedure
\* it takes the place of does not hold the pause (rr_st_idle).
LEMMA PrepareFine ==
  ASSUME NEW c, Steady(c), NEW pdu \in PduType, NEW proc \in Proc \union {None},
         NEW excuse \in BOOLEAN, ~RemotePauses(c) \/ excuse,
         proc = None /\ c.built => pdu.op # "PHY_REQ"
  PROVE  Fine(c, Prepare(c, proc, pdu), excuse)
  <1> DEFINE ctx == NewCtx(proc, {})
             new == [ctx EXCEPT !.state = IF proc = "PHY_UPDATE" THEN "WAIT_RX_PHY_REQ" ELSE "WAIT_RX"]
             s == SetCollision(c, WithInstant(proc))
             Runs(d) == RxRemote(SetRemote(d, new), pdu)
             unknown == Pdu("UNKNOWN_RSP", {}, pdu.op, 0)
             r == SetRemote(c, ctx)
  <1>1. ctx \in Ctx
    BY NewCtxTyped
  <1>2. new \in Ctx
    <2>1. (IF proc = "PHY_UPDATE" THEN "WAIT_RX_PHY_REQ" ELSE "WAIT_RX")
            \in {"WAIT_RX_PHY_REQ", "WAIT_RX"}
      OBVIOUS
    <2> HIDE DEF ctx
    <2>2. \A st \in {"WAIT_RX_PHY_REQ", "WAIT_RX"} : [ctx EXCEPT !.state = st] \in Ctx
      BY <1>1 DEF Ctx
    <2>3. QED BY <2>1, <2>2
  <1>3. Prepare(c, proc, pdu) =
            CASE proc = "TERMINATE" -> Runs(c)
              [] proc = None -> Tx(c, unknown)
              [] WithInstant(proc) /\ c.incompat = "RESOLVABLE" /\ c.side = Peripheral -> Runs(c)
              [] WithInstant(proc) /\ c.incompat = "RESOLVABLE" /\ c.side = Central ->
                   Tx(c, Reject(c, pdu.op))
              [] WithInstant(proc) /\ c.incompat = "RESERVED" ->
                   Reason(r, IF Local(c).proc = proc THEN "LL_PROC_COLLISION"
                                                     ELSE "DIFF_TRANS_COLLISION")
              [] OTHER -> Runs(s)
    <2> HIDE DEF Runs, s, r
    <2>1. QED BY Zenon DEF Prepare, Runs, s, r, unknown, new, ctx
  <1> HIDE DEF ctx, new
  <1>4. ASSUME NEW d, Fine(c, d, excuse), ~RemotePauses(d) \/ excuse
        PROVE  Fine(c, Runs(d), excuse)
    <2> DEFINE e == SetRemote(d, new)
    <2>1. Steady(d)
      BY <1>4 DEF Fine, Goes
    <2>2. Fine(d, e, excuse)
      BY <1>2, <1>4, <2>1, SetRemoteFine
    <2> HIDE DEF e
    <2>3. Fine(e, RxRemote(e, pdu), excuse)
      BY <2>2, RxRemoteFine DEF Fine, Goes
    <2>4. Fine(c, RxRemote(e, pdu), excuse)
      BY <1>4, <2>2, <2>3, FineTwice
    <2>5. QED BY <2>4 DEF e
  <1>5. Fine(c, Runs(c), excuse) /\ Fine(c, Runs(s), excuse)
    <2>1. WithInstant(proc) \in BOOLEAN
      BY DEF WithInstant
    <2>2. s \in Conn /\ Alike(c, s)
      BY <2>1, OtherFields DEF Steady
    <2> HIDE DEF s, Runs
    <2>3. Fine(c, s, excuse) /\ (RemotePauses(c) <=> RemotePauses(s))
      BY <2>2, AlikeFine DEF Alike, RemotePauses
    <2>4. Fine(c, c, excuse)
      BY FineSelf
    <2>5. QED BY <1>4, <2>3, <2>4
  <1>6. unknown \in PduType /\ unknown.op = "UNKNOWN_RSP" /\ unknown.about = pdu.op
    <2>1. "UNKNOWN_RSP" \in Opcode
      BY DEF Opcode
    <2>2. unknown \in PduType
      BY <2>1, PduFields, PduTyped, Delta
    <2>3. QED BY <2>2 DEF Pdu
  <1> HIDE DEF unknown
  <1>7. proc = None => Fine(c, Tx(c, unknown), excuse)
    BY <1>6, TxFine DEF Harmless
  <1>8. Fine(c, Tx(c, Reject(c, pdu.op)), excuse)
    <2>1. Reject(c, pdu.op) \in PduType
      BY PduFields, RejectTyped
    <2>2. Reject(c, pdu.op).op \in {"REJECT_IND", "REJECT_EXT_IND"}
      BY DEF Reject, Plain, Pdu
    <2>3. Harmless(c, Reject(c, pdu.op))
      BY <2>2 DEF Harmless
    <2>4. QED BY <2>1, <2>3, TxFine
  <1>9. Fine(c, Reason(r, "LL_PROC_COLLISION"), excuse) /\ Fine(c, Reason(r, "DIFF_TRANS_COLLISION"), excuse)
    <2>1. Goes(c, r)
      BY <1>1, SetRemoteFine
    <2> HIDE DEF r
    <2>2. QED BY <2>1, GoesReasonFine, ReasonsGiven
  <1> HIDE DEF Runs, s, r
  <1>10. proc # None => Prepare(c, proc, pdu) \in
           {Runs(c), Runs(s), Tx(c, Reject(c, pdu.op)),
            Reason(r, "LL_PROC_COLLISION"), Reason(r, "DIFF_TRANS_COLLISION")}
    BY <1>3
  <1>11. proc = None => Prepare(c, proc, pdu) = Tx(c, unknown)
    BY <1>3 DEF None, WithInstant
  <1>12. QED BY <1>5, <1>7, <1>8, <1>9, <1>10, <1>11

\* llcp_rr_new: a termination may take the place of a procedure that holds the
\* pause, but the peer that sends one is about to end.
LEMMA NewFine ==
  ASSUME NEW c, Steady(c), NEW pdu \in PduType, NEW excuse \in BOOLEAN,
         c.remote = NoCtx \/ pdu.op = "TERMINATE_IND", pdu.op = "TERMINATE_IND" => excuse
  PROVE  Fine(c, New(c, pdu), excuse)
  <1> DEFINE proc == Begun(c, pdu.op)
             a == IF proc = "TERMINATE" THEN RemoteDone(c) ELSE c
  <1>1. proc \in Proc \union {None} /\ (proc = "TERMINATE" => pdu.op = "TERMINATE_IND")
        /\ (proc = None /\ c.built => pdu.op # "PHY_REQ")
    BY BegunTyped DEF Begun, None
  <1>2. Fine(c, a, excuse)
    BY <1>1, RemoteDoneFine, FineSelf
  <1>3. ~RemotePauses(a) \/ excuse
    BY <1>1, NewCtxTyped DEF RemotePauses, None
  <1>4. New(c, pdu) = Prepare(a, proc, pdu)
    BY DEF New
  <1> HIDE DEF proc, a
  <1>5. Steady(a) /\ a.built = c.built
    BY <1>2 DEF Fine, Goes
  <1>6. Fine(a, Prepare(a, proc, pdu), excuse)
    BY <1>1, <1>3, <1>5, PrepareFine
  <1>7. QED BY <1>2, <1>4, <1>6, FineTwice

\* ull_cp_rx leaves no data paused, but for what its peer is the excuse of.
LEMMA RxFine ==
  ASSUME NEW c, Steady(c), NEW pdu \in PduType, NEW free \in BOOLEAN, NEW excuse \in BOOLEAN,
         pdu.op = "TERMINATE_IND" => excuse,
         pdu.op = "UNKNOWN_RSP" /\ pdu.about = "PHY_REQ" /\ c.side = Central => excuse
  PROVE  Fine(c, Rx(c, pdu, free), excuse)
  <1> DEFINE l == Local(c) # NoCtx
             r == c.remote # NoCtx
             el == l /\ (Expected(pdu, Local(c)) \/ pdu.op = "REJECT_IND")
             er == r /\ Expected(pdu, c.remote)
  <1>1. Rx(c, pdu, free) =
          CASE pdu.op = "TERMINATE_IND" \/ (~el /\ ~r) -> New(c, pdu)
            [] OTHER -> CASE el /\ er -> Reason(c, "ASSERT")
                          [] el /\ ~er -> RxLocal(c, pdu, free)
                          [] ~el /\ l /\ ~er -> Reason(c, "LOCALHOST_TERM_CONN")
                          [] OTHER -> RxRemote(c, pdu)
    BY Zenon DEF Rx
  <1>2. pdu.op = "TERMINATE_IND" \/ ~r => Fine(c, New(c, pdu), excuse)
    BY NewFine
  <1>3. el => Fine(c, RxLocal(c, pdu, free), excuse)
    <2>1. SUFFICES ASSUME el PROVE Fine(c, RxLocal(c, pdu, free), excuse)
      OBVIOUS
    <2>2. ASSUME pdu.op = "UNKNOWN_RSP", Local(c).state = "WAIT_RX_PHY_RSP", c.side = Central
          PROVE  excuse
      <3>1. Local(c).tx_opcode = "PHY_REQ" /\ Local(c).rx_opcode = "PHY_RSP"
        BY <2>2, LocalShape DEF Shape
      <3>2. pdu.about = "PHY_REQ"
        BY <2>1, <2>2, <3>1 DEF Expected
      <3>3. QED BY <2>2, <3>2
    <2>3. QED BY <2>2, RxLocalFine
  <1>4. Fine(c, RxRemote(c, pdu), excuse) /\ Fine(c, Reason(c, "ASSERT"), excuse)
        /\ Fine(c, Reason(c, "LOCALHOST_TERM_CONN"), excuse)
    BY RxRemoteFine, ReasonFine, ReasonsGiven
  <1> HIDE DEF l, r, el, er
  <1>5. QED BY <1>1, <1>2, <1>3, <1>4

\* An event nearer keeps what the procedures and the PDUs are.
LEMMA ElapseFine ==
  ASSUME NEW c, Steady(c), NEW excuse \in BOOLEAN
  PROVE  Fine(c, Elapse(c), excuse)
  <1> DEFINE l == [i \in DOMAIN c.local |-> Nearer(c.local[i])]
             o == [i \in DOMAIN c.out |-> Nearer(c.out[i])]
             m == Nearer(c.remote)
             d == [c EXCEPT !.local = l, !.remote = m, !.out = o]
  <1>1. c \in Conn /\ c.local \in Seq(Ctx) /\ c.out \in Seq(PduType) /\ c.remote \in Ctx
    BY Fields DEF Steady
  <1>2. ASSUME NEW ctx \in Ctx
        PROVE  /\ Nearer(ctx) \in Ctx /\ Nearer(ctx).proc = ctx.proc /\ Nearer(ctx).state = ctx.state
               /\ Nearer(ctx).tx_opcode = ctx.tx_opcode /\ Nearer(ctx).rx_opcode = ctx.rx_opcode
    <2> DEFINE n == IF ctx.left = 0 THEN 0 ELSE ctx.left - 1
    <2>1. Nearer(ctx) = [ctx EXCEPT !.left = n]
      BY DEF Nearer
    <2> HIDE DEF n
    <2>2. QED BY <2>1, NearerTyped DEF Ctx
  <1>3. ASSUME NEW pdu \in PduType
        PROVE  Nearer(pdu) \in PduType /\ Nearer(pdu).op = pdu.op /\ Nearer(pdu).about = pdu.about
    <2> DEFINE n == IF pdu.left = 0 THEN 0 ELSE pdu.left - 1
    <2>1. Nearer(pdu) = [pdu EXCEPT !.left = n]
      BY DEF Nearer
    <2> HIDE DEF n
    <2>2. QED BY <2>1, NearerTyped DEF PduType
  <1>4. l \in Seq(Ctx) /\ Len(l) = Len(c.local)
        /\ \A i \in 1 .. Len(c.local) : l[i] = Nearer(c.local[i])
    BY <1>1, <1>2
  <1>5. o \in Seq(PduType) /\ Len(o) = Len(c.out)
        /\ \A i \in 1 .. Len(c.out) : o[i] = Nearer(c.out[i])
    BY <1>1, <1>3
  <1>6. m \in Ctx /\ m.proc = c.remote.proc /\ m.state = c.remote.state
    BY <1>1, <1>2
  <1>7. Elapse(c) = d
    BY <1>1 DEF Elapse, Conn
  <1> HIDE DEF l, o, m
  <1>8. d \in Conn /\ Base(c, d) /\ d.local = l /\ d.out = o /\ d.remote = m /\ d.paused = c.paused
        /\ d.reason = c.reason
    BY <1>1, <1>4, <1>5, <1>6 DEF Conn, Base
  <1> HIDE DEF d
  <1>9. Local(d).proc = Local(c).proc /\ Local(d).state = Local(c).state
    <2>1. CASE c.local = <<>>
      <3>1. Len(l) = 0
        BY <1>4, <2>1, EmptySeq
      <3>2. l = <<>>
        BY <1>4, <3>1, EmptySeq
      <3>3. QED BY <1>8, <2>1, <3>2 DEF Local
    <2>2. CASE c.local # <<>>
      <3>1. Len(c.local) \in Nat \ {0}
        BY <1>1, <2>2, EmptySeq
      <3>2. l # <<>> /\ Head(l) = Nearer(Head(c.local)) /\ Head(c.local) \in Ctx
        BY <1>1, <1>4, <3>1, EmptySeq
      <3>3. Local(d) = Nearer(Local(c)) /\ Local(c) \in Ctx
        BY <1>8, <2>2, <3>2 DEF Local
      <3>4. QED BY <1>2, <3>3
    <2>3. QED BY <2>1, <2>2
  <1>10. Goes(c, d)
    <2>1. Ends(c) <=> Ends(d)
      BY <1>8, <1>9 DEF Ends
    <2>2. \A i \in 1 .. Len(l) : Shape(l[i])
      <3>1. ASSUME NEW i \in 1 .. Len(c.local) PROVE Shape(l[i])
        <4>1. c.local[i] \in Ctx /\ Shape(c.local[i]) /\ l[i] = Nearer(c.local[i])
          BY <1>1, <1>4 DEF Steady
        <4>2. QED BY <1>2, <4>1 DEF Shape
      <3>2. QED BY <1>4, <3>1
    <2>3. \A i \in 1 .. Len(o) : Harmless(d, o[i])
      <3>1. ASSUME NEW i \in 1 .. Len(c.out) PROVE Harmless(d, o[i])
        <4>1. c.out[i] \in PduType /\ Harmless(c, c.out[i]) /\ o[i] = Nearer(c.out[i])
          BY <1>1, <1>5 DEF Steady
        <4>2. o[i].op = c.out[i].op /\ o[i].about = c.out[i].about
          BY <1>3, <4>1
        <4>3. QED BY <1>8, <2>1, <4>1, <4>2 DEF Harmless, Base
      <3>2. QED BY <1>5, <3>1
    <2>4. QED BY <1>8, <2>1, <2>2, <2>3 DEF Goes, Steady, Base
  <1>11. (RemotePauses(c) <=> RemotePauses(d)) /\ (LocalPauses(c) <=> LocalPauses(d))
    BY <1>6, <1>8, <1>9 DEF RemotePauses, LocalPauses
  <1>12. Fine(c, d, excuse)
    BY <1>8, <1>10, <1>11, HeldStill
  <1>13. QED BY <1>7, <1>12

\* A PDU received leaves the queue of its sender.
LEMMA ReceivedFine ==
  ASSUME NEW c, Steady(c), c.out # <<>>, NEW excuse \in BOOLEAN
  PROVE  Fine(c, Received(c), excuse) /\ Head(c.out) \in PduType /\ Harmless(c, Head(c.out))
  <1> DEFINE q == Tail(c.out)
             h == Head(c.out)
             a == [c EXCEPT !.out = q]
             b == [a EXCEPT !.acked = h.op]
  <1>1. c \in Conn /\ c.out \in Seq(PduType)
    BY Fields DEF Steady
  <1>2. q \in Seq(PduType) /\ Len(q) = Len(c.out) - 1 /\ Len(c.out) \in Nat \ {0}
        /\ (\A i \in 1 .. Len(q) : q[i] = c.out[i + 1]) /\ h = c.out[1] /\ h \in PduType
    BY <1>1, HeadTailProperties, EmptySeq
  <1>3. 1 \in 1 .. Len(c.out)
    BY <1>2
  <1>4. Harmless(c, h)
    BY <1>2, <1>3 DEF Steady
  <1>5. Received(c) = b
    BY <1>1 DEF Received, Conn
  <1> HIDE DEF q, h
  <1>6. a \in Conn /\ Base(c, a) /\ a.out = q /\ a.local = c.local /\ a.remote = c.remote
        /\ a.paused = c.paused /\ a.reason = c.reason
    BY <1>1, <1>2 DEF Conn, Base
  <1> HIDE DEF a
  <1>7. Fine(c, a, excuse)
    <2>1. Local(a) = Local(c)
      BY <1>6 DEF Local
    <2>2. \A i \in 1 .. Len(q) : Harmless(c, q[i])
      <3>1. ASSUME NEW i \in 1 .. Len(q) PROVE Harmless(c, q[i])
        <4>1. i + 1 \in 1 .. Len(c.out)
          BY <1>2
        <4>2. QED BY <1>2, <4>1 DEF Steady
      <3>2. QED BY <3>1
    <2>3. Ends(c) <=> Ends(a)
      BY <1>6, <2>1 DEF Ends
    <2>4. \A i \in 1 .. Len(q) : Harmless(a, q[i])
      BY <1>6, <2>2, <2>3 DEF Harmless, Base
    <2>5. Goes(c, a)
      BY <1>6, <2>3, <2>4 DEF Goes, Steady, Base
    <2>6. (RemotePauses(c) <=> RemotePauses(a)) /\ (LocalPauses(c) <=> LocalPauses(a))
      BY <1>6, <2>1 DEF RemotePauses, LocalPauses
    <2>7. QED BY <1>6, <2>5, <2>6, HeldStill
  <1>8. b \in Conn /\ Alike(a, b)
    BY <1>2, <1>6, OtherFields, PduFields
  <1> HIDE DEF b
  <1>9. Fine(a, b, excuse)
    BY <1>7, <1>8, AlikeFine DEF Fine, Goes
  <1>10. Fine(c, b, excuse)
    BY <1>7, <1>9, FineTwice
  <1>11. QED BY <1>2, <1>4, <1>5, <1>10 DEF h

\* A request of the Host waits, and has sent nothing.
LEMMA AppendFine ==
  ASSUME NEW c, Steady(c), NEW ctx \in Ctx, ctx.state = "IDLE", NEW excuse \in BOOLEAN
  PROVE  Fine(c, [c EXCEPT !.local = Append(c.local, ctx)], excuse)
  <1> DEFINE q == Append(c.local, ctx)
             d == [c EXCEPT !.local = q]
  <1>1. c \in Conn /\ c.local \in Seq(Ctx) /\ Len(c.local) \in Nat
    BY Fields, EmptySeq DEF Steady
  <1>2. q \in Seq(Ctx) /\ Len(q) = Len(c.local) + 1 /\ q[Len(c.local) + 1] = ctx
        /\ \A i \in 1 .. Len(c.local) : q[i] = c.local[i]
    BY <1>1
  <1> HIDE DEF q
  <1>3. d \in Conn /\ Base(c, d) /\ d.local = q /\ d.remote = c.remote /\ d.out = c.out
        /\ d.paused = c.paused /\ d.reason = c.reason
    BY <1>1, <1>2 DEF Conn, Base
  <1> HIDE DEF d
  <1>4. \A i \in 1 .. Len(q) : Shape(q[i])
    <2> SUFFICES ASSUME NEW i \in 1 .. Len(q) PROVE Shape(q[i])
      OBVIOUS
    <2>1. i \in 1 .. Len(c.local) \/ i = Len(c.local) + 1
      BY <1>1, <1>2
    <2>2. Shape(ctx)
      BY DEF Shape
    <2>3. QED BY <1>2, <2>1, <2>2 DEF Steady
  <1>5. ASSUME c.local # <<>> PROVE Fine(c, d, excuse)
    <2>1. Len(c.local) \in Nat \ {0} /\ Head(c.local) = c.local[1]
      BY <1>1, <1>5, EmptySeq
    <2>2. q # <<>> /\ Head(q) = q[1] /\ q[1] = c.local[1]
      BY <1>2, <2>1, EmptySeq
    <2>3. Local(d) = Local(c)
      BY <1>3, <1>5, <2>1, <2>2 DEF Local
    <2>4. Goes(c, d)
      BY <1>3, <1>4, <2>3 DEF Goes, Steady, Harmless, Base, Ends
    <2>5. (RemotePauses(c) <=> RemotePauses(d)) /\ (LocalPauses(c) <=> LocalPauses(d))
      BY <1>3, <2>3 DEF RemotePauses, LocalPauses
    <2>6. QED BY <1>3, <2>4, <2>5, HeldStill
  <1>6. ASSUME c.local = <<>> PROVE Fine(c, d, excuse)
    <2>1. Local(c).state = "IDLE" /\ Local(c).proc # "TERMINATE"
      BY <1>6, NewCtxTyped DEF Local, None
    <2>2. Ends(c) => Ends(d)
      BY <1>3, <2>1 DEF Ends
    <2>3. Goes(c, d)
      BY <1>3, <1>4, <2>2 DEF Goes, Steady, Harmless, Base
    <2>4. ~LocalPauses(c) /\ (RemotePauses(c) <=> RemotePauses(d))
      BY <1>3, <2>1 DEF RemotePauses, LocalPauses
    <2>5. QED BY <1>3, <2>3, <2>4, HeldStill
  <1>7. QED BY <1>5, <1>6 DEF d, q

\* The Host's termination is the end ahead.
LEMMA TerminateFine ==
  ASSUME NEW c, Steady(c), NEW excuse \in BOOLEAN
  PROVE  Fine(c, [Abort(c) EXCEPT !.local = <<NewCtx("TERMINATE", {})>>], excuse)
  <1> DEFINE ctx == NewCtx("TERMINATE", {})
             q == <<ctx>>
             a == [c EXCEPT !.incompat = "NO_COLLISION"]
             d == [a EXCEPT !.local = q]
  <1>1. c \in Conn
    BY DEF Steady
  <1>2. ctx \in Ctx /\ ctx.proc = "TERMINATE" /\ Shape(ctx)
    <2>1. "TERMINATE" \in Proc \union {None} /\ {} \in SUBSET Phy
      BY DEF Proc
    <2>2. ctx \in Ctx
      BY <2>1, NewCtxTyped
    <2>3. QED BY <2>2 DEF NewCtx, Shape
  <1> HIDE DEF ctx
  <1>3. q \in Seq(Ctx) /\ Len(q) = 1 /\ q[1] = ctx /\ q # <<>> /\ Head(q) = ctx
    BY <1>2
  <1> HIDE DEF q
  <1>4. [Abort(c) EXCEPT !.local = q] = d
    BY <1>1 DEF Abort, Conn
  <1>5. a \in Conn /\ Base(c, a) /\ a.out = c.out
    BY <1>1 DEF Conn, Base
  <1> HIDE DEF a
  <1>6. d \in Conn /\ Base(c, d) /\ d.local = q /\ d.out = c.out
    BY <1>3, <1>5 DEF Conn, Base
  <1> HIDE DEF d
  <1>7. Ends(d)
    BY <1>2, <1>3, <1>6 DEF Ends, Local
  <1>8. \A i \in 1 .. Len(q) : Shape(q[i])
    BY <1>2, <1>3
  <1>9. Goes(c, d)
    BY <1>6, <1>7, <1>8 DEF Goes, Steady, Harmless, Base
  <1>10. Fine(c, d, excuse)
    BY <1>7, <1>9 DEF Fine, Held
  <1>11. QED BY <1>4, <1>10 DEF q, ctx

-----------------------------------------------------------------------------
(* The invariant of the pause. *)

\* What excuses a side whose data stays paused: its peer ends, or it is the
\* central of a peripheral without PHY update.
Exempt(s) == Ends(cp[Peer(s)]) \/ (s = Central /\ ~cp[Peripheral].built)

\* The inductive invariant: the sides are steady, and a pause is held.
PInv == IInv /\ \A s \in Side : Steady(cp[s]) /\ Held(cp[s], Exempt(s))

\* An excuse lasts, so it is enough that every side's step is fine.
LEMMA SidesFine ==
  ASSUME PInv, \A s \in Side : Fine(cp[s], cp'[s], Exempt(s))
  PROVE  \A s \in Side : Steady(cp'[s]) /\ Held(cp'[s], Exempt(s)')
  <1> SUFFICES ASSUME NEW s \in Side PROVE Steady(cp'[s]) /\ Held(cp'[s], Exempt(s)')
    OBVIOUS
  <1>1. Peer(s) \in Side /\ Peripheral \in Side
    BY DEF Peer, Side
  <1>2. Goes(cp[s], cp'[s]) /\ Goes(cp[Peer(s)], cp'[Peer(s)]) /\ Goes(cp[Peripheral], cp'[Peripheral])
    BY <1>1 DEF Fine
  <1>3. Held(cp'[s], Exempt(s))
    BY DEF PInv, Fine
  <1>4. Exempt(s) => Exempt(s)'
    BY <1>2 DEF Exempt, Goes
  <1>5. QED BY <1>2, <1>3, <1>4 DEF Goes, Held

\* An excuse is a truth value.
LEMMA ExemptBoolean ==
  \A s \in Side : Exempt(s) \in BOOLEAN
  BY DEF Exempt

\* A new connection has paused nothing.
LEMMA NewConnsFine ==
  ASSUME NEW new \in NewConns, NEW s \in Side
  PROVE  Steady(new[s]) /\ \A excuse \in BOOLEAN : Held(new[s], excuse)
  <1>1. PICK built \in PhyBuilt : new = [t \in Side |-> NewConn(t, built[t])]
    BY DEF NewConns
  <1>2. new[s] = NewConn(s, built[s]) /\ new[s] \in Conn
    BY <1>1, NewConnsGood
  <1>3. new[s].local = <<>> /\ new[s].out = <<>> /\ new[s].paused = {}
    BY <1>2 DEF NewConn
  <1>4. QED BY <1>2, <1>3, EmptySeq DEF Steady, Held

\* The steps of one side, the other's staying as it is.
LEMMA OneSideFine ==
  ASSUME PInv, NEW s \in Side, NEW d, cp' = [cp EXCEPT ![s] = d], Fine(cp[s], d, Exempt(s))
  PROVE  \A t \in Side : Fine(cp[t], cp'[t], Exempt(t))
  <1> SUFFICES ASSUME NEW t \in Side PROVE Fine(cp[t], cp'[t], Exempt(t))
    OBVIOUS
  <1>1. cp \in [Side -> Conn]
    BY DEF PInv, IInv, TypeOK
  <1>2. CASE t = s
    BY <1>1, <1>2
  <1>3. CASE t # s
    <2>1. cp'[t] = cp[t]
      BY <1>1, <1>3
    <2>2. QED BY <2>1, ExemptBoolean, FineSelf DEF PInv
  <1>4. QED BY <1>2, <1>3

\* A Host's request.
LEMMA RequestFine ==
  ASSUME PInv, NEW s \in Side, NEW proc \in Proc, NEW phys \in SUBSET Phy, Request(s, proc, phys)
  PROVE  \A t \in Side : Fine(cp[t], cp'[t], Exempt(t))
  <1> DEFINE ctx == NewCtx(proc, phys)
             d == [cp[s] EXCEPT !.local = Append(cp[s].local, ctx)]
  <1>1. ctx \in Ctx
    BY NewCtxTyped
  <1>2. ctx.state = "IDLE"
    BY DEF NewCtx
  <1>3. cp' = [cp EXCEPT ![s] = d]
    BY DEF Request
  <1> HIDE DEF ctx
  <1>4. Fine(cp[s], d, Exempt(s))
    BY <1>1, <1>2, ExemptBoolean, AppendFine DEF PInv
  <1> HIDE DEF d
  <1>5. QED BY <1>3, <1>4, OneSideFine

\* The ticker callbacks.
LEMMA BeginFine ==
  ASSUME PInv, NEW sides \in SUBSET Side, NEW free \in NtfFree, Begin(sides, free)
  PROVE  \A s \in Side : Fine(cp[s], cp'[s], Exempt(s))
  <1> SUFFICES ASSUME NEW s \in Side PROVE Fine(cp[s], cp'[s], Exempt(s))
    OBVIOUS
  <1> DEFINE c == cp[s]
             e == Elapse(c)
  <1>1. free \in BOOLEAN /\ Exempt(s) \in BOOLEAN
    BY ProcedureAssumption, ExemptBoolean
  <1>2. cp'[s] = IF s \in sides THEN Run(e, free) ELSE e
    BY DEF Begin, Skip
  <1>3. Fine(c, e, Exempt(s))
    BY <1>1, ElapseFine DEF PInv
  <1> HIDE DEF e
  <1>4. Fine(e, Run(e, free), Exempt(s))
    BY <1>1, <1>3, RunFine DEF Fine, Goes
  <1>5. Fine(c, Run(e, free), Exempt(s))
    BY <1>1, <1>3, <1>4, FineTwice
  <1>6. QED BY <1>2, <1>3, <1>5

\* A PDU delivered: it tells its receiver of its sender's end, or of a request
\* the sender does not know, only if that is so.
LEMMA DeliverFine ==
  ASSUME PInv, NEW s \in Side, NEW free \in NtfFree, Deliver(s, free)
  PROVE  \A t \in Side : Fine(cp[t], cp'[t], Exempt(t))
  <1> DEFINE p == Peer(s)
             h == Head(cp[p].out)
             a == TxAck(cp[s], free)
             b == TxNtf(a, free)
             d == Rx(b, h, free)
             e == Received(cp[p])
  <1>1. p \in Side /\ p # s /\ (\A t \in Side : t = s \/ t = p) /\ (s = Central => p = Peripheral)
    BY DEF Peer, Side, Central, Peripheral
  <1>2. free \in BOOLEAN /\ Exempt(s) \in BOOLEAN /\ Exempt(p) \in BOOLEAN
    BY <1>1, ProcedureAssumption, ExemptBoolean
  <1>3. Exempt(s) <=> Ends(cp[p]) \/ (s = Central /\ ~cp[Peripheral].built)
    BY DEF Exempt
  <1>4. cp[s].side = s /\ Steady(cp[s]) /\ Steady(cp[p]) /\ cp \in [Side -> Conn]
    BY <1>1 DEF PInv, IInv, TypeOK
  <1>5. cp' = [cp EXCEPT ![s] = d, ![p] = e]
    BY <1>1 DEF Deliver
  <1>6. cp[p].out # <<>>
    BY DEF Deliver
  <1> HIDE DEF p, h
  <1>7. Fine(cp[p], e, Exempt(p)) /\ h \in PduType /\ Harmless(cp[p], h)
    BY <1>2, <1>4, <1>6, ReceivedFine DEF h
  <1> HIDE DEF e
  <1>8. Fine(cp[s], a, Exempt(s))
    BY <1>2, <1>4, TxAckFine
  <1> HIDE DEF a
  <1>9. Fine(a, b, Exempt(s))
    BY <1>2, <1>8, TxNtfFine DEF Fine, Goes
  <1> HIDE DEF b
  <1>10. Steady(b) /\ b.side = s
    BY <1>4, <1>8, <1>9 DEF Fine, Goes
  <1>11. (h.op = "TERMINATE_IND" => Exempt(s))
         /\ (h.op = "UNKNOWN_RSP" /\ h.about = "PHY_REQ" /\ b.side = Central => Exempt(s))
    BY <1>1, <1>3, <1>7, <1>10 DEF Harmless
  <1>12. Fine(b, d, Exempt(s))
    BY <1>2, <1>7, <1>10, <1>11, RxFine
  <1> HIDE DEF d
  <1>13. Fine(cp[s], d, Exempt(s))
    BY <1>2, <1>8, <1>9, <1>12, FineTwice
  <1>14. cp'[s] = d /\ cp'[p] = e
    BY <1>1, <1>4, <1>5
  <1>15. QED BY <1>1, <1>7, <1>13, <1>14

\* The end of an event.
LEMMA DoneFine ==
  ASSUME PInv, NEW free \in NtfFree, Done(free)
  PROVE  \A s \in Side : Fine(cp[s], cp'[s], Exempt(s))
  <1> SUFFICES ASSUME NEW s \in Side PROVE Fine(cp[s], cp'[s], Exempt(s))
    OBVIOUS
  <1>1. free \in BOOLEAN /\ Exempt(s) \in BOOLEAN
    BY ProcedureAssumption, ExemptBoolean
  <1>2. cp'[s] \in {TxNtf(cp[s], free), cp[s]}
    BY DEF Done
  <1>3. QED BY <1>1, <1>2, TxNtfFine, FineSelf DEF PInv

\* Every step keeps the invariant.
LEMMA NextFine == PInv /\ [Next]_vars => PInv'
  <1> SUFFICES ASSUME PInv, [Next]_vars
               PROVE  PInv'
    OBVIOUS
  <1>1. IInv'
    BY NextGood DEF PInv
  <1>2. ASSUME \A s \in Side : Fine(cp[s], cp'[s], Exempt(s))
        PROVE  PInv'
    BY <1>1, <1>2, SidesFine DEF PInv
  <1>3. ASSUME NEW s \in Side, NEW proc \in Proc, NEW phys \in {{p} : p \in Phy},
               Request(s, proc, IF proc = "PHY_UPDATE" THEN phys ELSE {})
        PROVE  PInv'
    BY <1>2, <1>3, RequestFine
  <1>4. ASSUME NEW s \in Side, Terminate(s)
        PROVE  PInv'
    <2> DEFINE d == [Abort(cp[s]) EXCEPT !.local = <<NewCtx("TERMINATE", {})>>]
    <2>1. cp' = [cp EXCEPT ![s] = d]
      BY <1>4 DEF Terminate
    <2>2. Fine(cp[s], d, Exempt(s))
      BY ExemptBoolean, TerminateFine DEF PInv
    <2> HIDE DEF d
    <2>3. QED BY <1>2, <2>1, <2>2, OneSideFine
  <1>5. ASSUME NEW sides \in SUBSET Side, NEW free \in NtfFree, Begin(sides, free)
        PROVE  PInv'
    BY <1>2, <1>5, BeginFine
  <1>6. ASSUME NEW s \in Side, NEW free \in NtfFree, Deliver(s, free)
        PROVE  PInv'
    BY <1>2, <1>6, DeliverFine
  <1>7. ASSUME NEW s \in Side, NEW free \in NtfFree, Acknowledge(s, free)
        PROVE  PInv'
    <2> DEFINE d == TxAck(cp[s], free)
    <2>1. cp' = [cp EXCEPT ![s] = d]
      BY <1>7 DEF Acknowledge
    <2>2. Fine(cp[s], d, Exempt(s))
      BY ExemptBoolean, ProcedureAssumption, TxAckFine DEF PInv
    <2> HIDE DEF d
    <2>3. QED BY <1>2, <2>1, <2>2, OneSideFine
  <1>8. ASSUME NEW free \in NtfFree, Done(free)
        PROVE  PInv'
    BY <1>2, <1>8, DoneFine
  <1>9. CASE cp' = cp
    <2>1. \A s \in Side : Fine(cp[s], cp'[s], Exempt(s))
      BY <1>9, ExemptBoolean, FineSelf DEF PInv
    <2>2. QED BY <1>2, <2>1
  <1>10. CASE Reconnect
    <2>1. cp' \in NewConns
      BY <1>10 DEF Reconnect
    <2>2. \A s \in Side : Exempt(s)' \in BOOLEAN
      BY DEF Exempt
    <2>3. \A s \in Side : Steady(cp'[s]) /\ Held(cp'[s], Exempt(s)')
      BY <2>1, <2>2, NewConnsFine
    <2>4. QED BY <1>1, <2>3 DEF PInv
  <1>11. QED
    BY <1>3, <1>4, <1>5, <1>6, <1>7, <1>8, <1>9, <1>10 DEF Next, Timeout, vars

\* Data is paused for PHY update only while a procedure of its side will resume
\* it, a side ends, or the central's peer has no PHY update: no answer, rejection,
\* collision, skipped event or lack of a notification buffer leaves a connection
\* without data (ull_tx_q_pause_data and _resume_data around lp_pu and rp_pu).
THEOREM PauseHasProcedure == Spec => []PausedForProcedure
  <1>1. Init => PInv
    <2> SUFFICES ASSUME Init PROVE PInv
      OBVIOUS
    <2>1. IInv /\ cp \in NewConns
      BY InitGood DEF Init
    <2>2. QED BY <2>1, ExemptBoolean, NewConnsFine DEF PInv
  <1>2. PInv => PausedForProcedure
    <2> SUFFICES ASSUME PInv, NEW s \in Side, "PHY_UPDATE" \in cp[s].paused
                 PROVE  \/ cp[s].remote.proc = "PHY_UPDATE" \/ Local(cp[s]).proc = "PHY_UPDATE"
                        \/ Ending \/ (s = Central /\ ~cp[Peripheral].built)
      BY DEF PausedForProcedure
    <2>1. RemotePauses(cp[s]) \/ LocalPauses(cp[s]) \/ Ends(cp[s]) \/ Exempt(s)
      BY DEF PInv, Held
    <2>2. Peer(s) \in Side
      BY DEF Peer, Side
    <2>3. Ends(cp[s]) \/ Ends(cp[Peer(s)]) => Ending
      BY <2>2 DEF Ends, Ending
    <2>4. QED BY <2>1, <2>3 DEF RemotePauses, LocalPauses, Exempt
  <1>3. QED BY <1>1, <1>2, NextFine, PTL DEF Spec

-----------------------------------------------------------------------------
(***************************************************************************)
(* Of two procedures that collide only one gets as far as an instant.      *)
(*                                                                         *)
(* The central rules itself: a remote procedure with an instant and a      *)
(* local one that is under way exclude each other (Legal).  The peripheral *)
(* is ruled by the central: what it waits for was sent by the one          *)
(* procedure of the central that waits for the same instant (Timed), and   *)
(* the central sends no other indication before (Keeps).                   *)
(***************************************************************************)

ACK == "WAIT_TX_ACK_PHY_UPDATE_IND"

\* A procedure with an instant that is under way and not carried out yet.
Active(ctx) ==
  WithInstant(ctx.proc) /\ ctx.state \notin {"IDLE", "WAIT_INSTANT_ON_AIR", "WAIT_NTF"}

\* The states that only a PHY update has, or only a procedure with an instant.
Stands(ctx) ==
  /\ ctx.state \in {"WAIT_TX_ACK_PHY_REQ", "WAIT_RX_PHY_RSP", ACK, "WAIT_RX_PHY_UPDATE_IND",
                    "WAIT_TX_PHY_UPDATE_IND", "WAIT_TX_ACK_PHY_RSP", "WAIT_RX_PHY_REQ"} =>
       ctx.proc = "PHY_UPDATE"
  /\ ctx.state = "WAIT_INSTANT" => WithInstant(ctx.proc)

\* Only the first local procedure has begun, and channel map updates are the central's.
Rested(c) ==
  /\ \A i \in 2 .. Len(c.local) : c.local[i].state = "IDLE"
  /\ c.side = Peripheral => \A i \in 1 .. Len(c.local) : c.local[i].proc # "CHAN_MAP_UPDATE"

\* The states a side can be in; the central holds its local procedures back while
\* it answers a procedure with an instant, and rejects one while it runs its own.
CentralLegal(l, r, incompat, collision) ==
  /\ l.state # "WAIT_RX_PHY_UPDATE_IND"
  /\ r.state \notin {"WAIT_TX_ACK_PHY_RSP", "WAIT_RX_PHY_UPDATE_IND"}
  /\ r.proc # "CHAN_MAP_UPDATE"
  /\ Active(l) => incompat # "NO_COLLISION"
  /\ WithInstant(r.proc) => collision /\ ~Active(l)
PeripheralLegal(l, r) ==
  l.state \notin {"WAIT_RX_PHY_RSP", ACK} /\ r.state \notin {"WAIT_TX_PHY_UPDATE_IND", ACK}
Legal(c) ==
  /\ Rested(c) /\ Stands(Local(c)) /\ Stands(c.remote)
  /\ c.side = Central => CentralLegal(Local(c), c.remote, c.incompat, c.collision)
  /\ c.side = Peripheral => PeripheralLegal(Local(c), c.remote)

\* A PDU that makes its receiver wait for an instant, or for what would be one.
Token(pdu) == pdu.op = "PHY_UPDATE_IND" \/ (pdu.op = "CHAN_MAP_IND" /\ pdu.left > 0)
NoToken(out) == \A i \in 1 .. Len(out) : ~Token(out[i])

\* It was sent by a procedure that waits for the same instant, and there is only one.
Announced(l, r, pdu) ==
  IF pdu.op = "CHAN_MAP_IND"
  THEN l.proc = "CHAN_MAP_UPDATE" /\ l.state = "WAIT_INSTANT" /\ l.left = pdu.left
  ELSE \/ l.state = ACK /\ l.phys = pdu.phys /\ l.left = pdu.left
       \/ r.state = ACK /\ r.phys = pdu.phys /\ r.left = pdu.left
Carried(out, l, r) ==
  /\ \A i \in 1 .. Len(out) : Token(out[i]) => Announced(l, r, out[i])
  /\ \A i, j \in 1 .. Len(out) : Token(out[i]) /\ Token(out[j]) => i = j

\* A PHY update is not acknowledged while its indication is queued.
Wired(c) ==
  /\ Carried(c.out, Local(c), c.remote)
  /\ c.acked = "PHY_UPDATE_IND" => NoToken(c.out) /\ (Local(c).state = ACK \/ c.remote.state = ACK)

Lined(c) == Legal(c) /\ (c.side = Central => Wired(c))

\* The central waits for an instant n events ahead that it has announced.
PhyTimed(ctx, n) ==
  ctx.proc = "PHY_UPDATE" /\ ctx.state \in {ACK, "WAIT_INSTANT"} /\ ctx.phys # {} /\ ctx.left = n
Timed(l, r, n) ==
  \/ l.proc = "CHAN_MAP_UPDATE" /\ l.state = "WAIT_INSTANT" /\ l.left = n
  \/ PhyTimed(l, n) \/ PhyTimed(r, n)

\* What a handler makes of a side: the central goes on waiting for an instant it
\* has announced, and announces no other; the peripheral waits for no new one.
Keeps(c, d) ==
  \A n \in Nat \ {0} :
    NoToken(c.out) /\ Timed(Local(c), c.remote, n) => NoToken(d.out) /\ Timed(Local(d), d.remote, n)
Slot(x, y) == y.state = "WAIT_INSTANT" => x.state = "WAIT_INSTANT" /\ y.left = x.left
Quiet(c, d) == Slot(Local(c), Local(d)) /\ Slot(c.remote, d.remote)
Moves(c, d) ==
  /\ Lined(d) /\ d.side = c.side
  /\ c.side = Central => Keeps(c, d)
  /\ c.side = Peripheral => Quiet(c, d)

\* The same unless the side ends.
Sure(c, d) == Ends(d) \/ Moves(c, d)

-----------------------------------------------------------------------------
(* Steps on the whole, and the queue of PDUs. *)

\* A step that is none.
LEMMA MovesSelf ==
  ASSUME NEW c, Lined(c)
  PROVE  Moves(c, c)
  BY DEF Moves, Keeps, Quiet, Slot

\* Two steps make one.
LEMMA MovesTwice ==
  ASSUME NEW c, NEW d, NEW e, Moves(c, d), Moves(d, e)
  PROVE  Moves(c, e)
  BY DEF Moves, Keeps, Quiet, Slot

\* The same if a side may end in either, as ends last.
LEMMA SureTwice ==
  ASSUME NEW c, NEW d, NEW e, Sure(c, d), Goes(d, e), Moves(c, d) => Sure(d, e)
  PROVE  Sure(c, e)
  BY MovesTwice DEF Sure, Goes

\* A queue without such a PDU is carried by any procedures.
LEMMA CarryNone ==
  ASSUME NEW out, NoToken(out), NEW l, NEW r
  PROVE  Carried(out, l, r)
  BY DEF NoToken, Carried

\* One that is carried stays so if the procedures that announce stay as they are.
LEMMA CarrySame ==
  ASSUME NEW out, NEW l, NEW r, NEW m, NEW s, Carried(out, l, r),
         l.state \in {ACK, "WAIT_INSTANT"} => m = l, r.state = ACK => s = r
  PROVE  Carried(out, m, s)
  BY DEF Carried, Announced, ACK

\* Without a procedure that announces there is none.
LEMMA CarryNobody ==
  ASSUME NEW out, NEW l, NEW r, Carried(out, l, r), r.state # ACK,
         l.state \notin {ACK, "WAIT_INSTANT"}
  PROVE  NoToken(out)
  BY DEF Carried, Announced, NoToken, ACK

\* A channel map update that waits for its instant no longer announces anything
\* once the instant has come, nor does a PHY update.
LEMMA CarryPast ==
  ASSUME NEW out, NEW l, NEW r, Carried(out, l, r), r.state # ACK, l.state = "WAIT_INSTANT",
         l.left = 0 \/ l.proc # "CHAN_MAP_UPDATE"
  PROVE  NoToken(out)
  BY DEF Carried, Announced, NoToken, Token, ACK

\* Another PDU in the queue.
LEMMA CarryMore ==
  ASSUME NEW out \in Seq(PduType), NEW pdu \in PduType, NEW l, NEW r
  PROVE  /\ ~Token(pdu) /\ Carried(out, l, r) => Carried(Append(out, pdu), l, r)
         /\ ~Token(pdu) /\ NoToken(out) => NoToken(Append(out, pdu))
         /\ NoToken(out) /\ Announced(l, r, pdu) => Carried(Append(out, pdu), l, r)
  <1> DEFINE q == Append(out, pdu)
  <1>1. /\ Len(q) = Len(out) + 1 /\ Len(out) \in Nat
        /\ \A i \in 1 .. Len(out) : q[i] = out[i]
        /\ q[Len(out) + 1] = pdu
    OBVIOUS
  <1> HIDE DEF q
  <1>2. \A i \in 1 .. Len(q) : i \in 1 .. Len(out) \/ i = Len(out) + 1
    BY <1>1
  <1>3. ~Token(pdu) /\ Carried(out, l, r) => Carried(q, l, r)
    BY <1>1, <1>2 DEF Carried
  <1>4. ~Token(pdu) /\ NoToken(out) => NoToken(q)
    BY <1>1, <1>2 DEF NoToken
  <1>5. NoToken(out) /\ Announced(l, r, pdu) => Carried(q, l, r)
    BY <1>1, <1>2 DEF Carried, NoToken
  <1>6. QED BY <1>3, <1>4, <1>5 DEF q

-----------------------------------------------------------------------------
(* The primitives, by what they leave alone of what Lined looks at. *)

\* All but the local procedures; all but the remote one and the collision flag.
Beside(c, d) ==
  /\ d \in Conn /\ d.side = c.side /\ d.reason = c.reason /\ d.remote = c.remote
  /\ d.incompat = c.incompat /\ d.collision = c.collision /\ d.out = c.out /\ d.acked = c.acked
Same(c, d) == Beside(c, d) /\ d.local = c.local
Across(c, d) ==
  /\ d \in Conn /\ d.side = c.side /\ d.reason = c.reason /\ d.local = c.local
  /\ d.incompat = c.incompat /\ d.out = c.out /\ d.acked = c.acked

\* The local procedures matter by the first of them, and by Rested.
LEMMA LocalSame ==
  ASSUME NEW c, NEW d, d.local = c.local, d.side = c.side
  PROVE  Local(d) = Local(c) /\ (Rested(c) => Rested(d)) /\ (d.reason = c.reason => (Ends(c) <=> Ends(d)))
  BY DEF Local, Rested, Ends

\* Fields that Lined does not look at.
LEMMA SameFields ==
  ASSUME NEW c \in Conn
  PROVE  /\ Same(c, Pause(c)) /\ Same(c, Resume(c))
         /\ \A phys \in SUBSET Phy : Same(c, Apply(c, phys)) /\ Same(c, [c EXCEPT !.pref = phys])
         /\ \A x \in BOOLEAN : Same(c, [c EXCEPT !.fex = x])
         /\ Same(c, [c EXCEPT !.paused = @ \union {"TERMINATE"}])
  <1> USE DEF Same, Beside
  <1>1. \A x \in SUBSET {"PHY_UPDATE", "TERMINATE"} : Same(c, [c EXCEPT !.paused = x])
    BY DEF Conn
  <1>2. c.paused \union {"PHY_UPDATE"} \in SUBSET {"PHY_UPDATE", "TERMINATE"}
        /\ c.paused \ {"PHY_UPDATE"} \in SUBSET {"PHY_UPDATE", "TERMINATE"}
        /\ c.paused \union {"TERMINATE"} \in SUBSET {"PHY_UPDATE", "TERMINATE"}
    BY Fields
  <1>3. Same(c, Pause(c)) /\ Same(c, Resume(c)) /\ Same(c, [c EXCEPT !.paused = @ \union {"TERMINATE"}])
    BY <1>1, <1>2 DEF Pause, Resume
  <1>4. \A x \in Phy : Same(c, [c EXCEPT !.phy = x])
    BY DEF Conn
  <1>5. ASSUME NEW phys \in SUBSET Phy PROVE Same(c, Apply(c, phys))
    <2>1. CASE phys = {}
      BY <2>1 DEF Apply
    <2>2. CASE phys # {}
      <3> DEFINE x == CHOOSE p \in phys : TRUE
      <3>1. x \in Phy
        BY <2>2
      <3>2. Apply(c, phys) = [c EXCEPT !.phy = x]
        BY <2>2 DEF Apply
      <3> HIDE DEF x
      <3>3. QED BY <1>4, <3>1, <3>2
    <2>3. QED BY <2>1, <2>2
  <1>6. \A phys \in SUBSET Phy : Same(c, [c EXCEPT !.pref = phys])
    BY DEF Conn
  <1>7. \A x \in BOOLEAN : Same(c, [c EXCEPT !.fex = x])
    BY DEF Conn
  <1> QED BY <1>3, <1>5, <1>6, <1>7

\* A step on those moves nothing.
LEMMA SameMoves ==
  ASSUME NEW c, Lined(c), NEW d, Same(c, d)
  PROVE  Moves(c, d)
  <1>1. Local(d) = Local(c) /\ (Rested(c) => Rested(d))
    BY LocalSame DEF Same, Beside
  <1>2. QED BY <1>1 DEF Same, Beside, Lined, Legal, Wired, Moves, Keeps, Quiet, Slot

\* The fields it does look at.
LEMMA OneField ==
  ASSUME NEW c \in Conn
  PROVE  /\ \A x \in Ctx : Across(c, SetRemote(c, x)) /\ SetRemote(c, x).remote = x
                           /\ SetRemote(c, x).collision = c.collision
         /\ Across(c, RemoteDone(c)) /\ RemoteDone(c).remote = NoCtx /\ ~RemoteDone(c).collision
         /\ \A x \in BOOLEAN : Across(c, SetCollision(c, x)) /\ SetCollision(c, x).collision = x
                               /\ SetCollision(c, x).remote = c.remote
  <1>1. \A x \in Ctx : Across(c, SetRemote(c, x)) /\ SetRemote(c, x).remote = x
                       /\ SetRemote(c, x).collision = c.collision
    BY DEF SetRemote, Across, Conn
  <1>2. NoCtx \in Ctx
    BY NewCtxTyped, {} \in SUBSET Phy, None \in Proc \union {None}
  <1>3. Across(c, RemoteDone(c)) /\ RemoteDone(c).remote = NoCtx /\ ~RemoteDone(c).collision
    BY <1>2 DEF RemoteDone, Across, Conn
  <1>4. \A x \in BOOLEAN : Across(c, SetCollision(c, x)) /\ SetCollision(c, x).collision = x
                           /\ SetCollision(c, x).remote = c.remote
    BY DEF SetCollision, Across, Conn
  <1>5. QED BY <1>1, <1>3, <1>4

\* The collision state.
LEMMA IncompatParts ==
  ASSUME NEW c \in Conn, NEW x \in {"NO_COLLISION", "RESOLVABLE", "RESERVED"}
  PROVE  LET d == Incompat(c, x)
         IN  d \in Conn /\ d.side = c.side /\ d.reason = c.reason /\ d.local = c.local
             /\ d.remote = c.remote /\ d.incompat = x /\ d.collision = c.collision
             /\ d.out = c.out /\ d.acked = c.acked
  BY DEF Incompat, Conn

\* The queue of PDUs.
LEMMA TxParts ==
  ASSUME NEW c \in Conn, NEW pdu \in PduType
  PROVE  LET d == Tx(c, pdu)
         IN  d \in Conn /\ d.side = c.side /\ d.reason = c.reason /\ d.local = c.local
             /\ d.remote = c.remote /\ d.incompat = c.incompat /\ d.collision = c.collision
             /\ d.out = Append(c.out, pdu) /\ d.acked = c.acked
  <1> DEFINE q == Append(c.out, pdu)
  <1>1. q \in Seq(PduType)
    BY Fields
  <1>2. Tx(c, pdu) = [c EXCEPT !.out = q]
    BY DEF Tx
  <1> HIDE DEF q
  <1>3. LET d == [c EXCEPT !.out = q]
        IN  d \in Conn /\ d.side = c.side /\ d.reason = c.reason /\ d.local = c.local
            /\ d.remote = c.remote /\ d.incompat = c.incompat /\ d.collision = c.collision
            /\ d.out = q /\ d.acked = c.acked
    BY <1>1 DEF Conn
  <1>4. QED BY <1>2, <1>3 DEF q

\* The acknowledgment.
LEMMA AckedParts ==
  ASSUME NEW c \in Conn, NEW x \in Opcode \union {None}
  PROVE  LET d == [c EXCEPT !.acked = x]
         IN  d \in Conn /\ d.side = c.side /\ d.reason = c.reason /\ d.local = c.local
             /\ d.remote = c.remote /\ d.incompat = c.incompat /\ d.collision = c.collision
             /\ d.out = c.out /\ d.acked = x
  BY DEF Conn

\* A reason to end the connection ends it.
LEMMA ReasonEnds ==
  ASSUME NEW c \in Conn, NEW r \in Reasons, r # None
  PROVE  Ends(Reason(c, r))
  BY DEF Reason, Ends, Conn

\* A step of the local procedure.
LEMMA SetLocalParts ==
  ASSUME NEW c \in Conn, Rested(c), c.local # <<>>, NEW ctx \in Ctx, ctx.proc = Local(c).proc
  PROVE  LET d == SetLocal(c, ctx)
         IN  Beside(c, d) /\ Local(d) = ctx /\ Rested(d) /\ d.local # <<>>
  <1> DEFINE q == [c.local EXCEPT ![1] = ctx]
             d == [c EXCEPT !.local = q]
  <1>1. c.local \in Seq(Ctx) /\ Len(c.local) \in Nat \ {0} /\ Head(c.local) = c.local[1]
    BY Fields, EmptySeq
  <1>2. q \in Seq(Ctx) /\ Len(q) = Len(c.local) /\ q[1] = ctx
        /\ \A i \in 1 .. Len(c.local) : q[i] = IF i = 1 THEN ctx ELSE c.local[i]
    BY <1>1, ExceptSeq
  <1>3. q # <<>> /\ Head(q) = ctx
    BY <1>1, <1>2, EmptySeq
  <1>4. SetLocal(c, ctx) = d
    BY DEF SetLocal, Conn
  <1> HIDE DEF q
  <1>5. d \in Conn /\ d.local = q /\ Beside(c, d)
    BY <1>2 DEF Conn, Beside
  <1> HIDE DEF d
  <1>6. Local(d) = ctx
    BY <1>3, <1>5 DEF Local
  <1>7. Rested(d)
    <2>1. ctx.proc = c.local[1].proc /\ 1 \in 1 .. Len(c.local)
      BY <1>1 DEF Local
    <2>2. \A i \in 1 .. Len(q) : q[i].proc = c.local[i].proc
      BY <1>2, <2>1
    <2>3. \A i \in 2 .. Len(q) : q[i] = c.local[i]
      BY <1>2
    <2>4. QED BY <1>2, <1>5, <2>2, <2>3 DEF Rested, Beside
  <1>8. QED BY <1>3, <1>4, <1>5, <1>6, <1>7

\* The next of the local procedures has not begun.
LEMMA LocalDoneRests ==
  ASSUME NEW c \in Conn, Rested(c), c.local # <<>>
  PROVE  LET d == LocalDone(c)
         IN  Beside(c, d) /\ Local(d).state = "IDLE" /\ Rested(d)
  <1> DEFINE q == Tail(c.local)
             d == [c EXCEPT !.local = q]
  <1>1. c.local \in Seq(Ctx)
    BY Fields
  <1>2. q \in Seq(Ctx) /\ Len(q) = Len(c.local) - 1 /\ Len(c.local) \in Nat
        /\ \A i \in 1 .. Len(q) : q[i] = c.local[i + 1]
    BY <1>1, HeadTailProperties
  <1> HIDE DEF q
  <1>3. d.local = q /\ Beside(c, d)
    BY <1>2 DEF Conn, Beside
  <1>4. LocalDone(c) = d
    BY DEF LocalDone, q
  <1> HIDE DEF d
  <1>5. \A i \in 1 .. Len(q) : q[i].state = "IDLE" /\ i + 1 \in 1 .. Len(c.local)
    BY <1>2 DEF Rested
  <1>6. Rested(d)
    <2>1. \A i \in 1 .. Len(q) : q[i].state = "IDLE"
          /\ (c.side = Peripheral => q[i].proc # "CHAN_MAP_UPDATE")
      BY <1>2, <1>5 DEF Rested
    <2>2. QED BY <1>2, <1>3, <2>1 DEF Rested, Beside
  <1>7. Local(d).state = "IDLE"
    <2>1. CASE q = <<>>
      BY <1>3, <2>1, NewCtxTyped, {} \in SUBSET Phy, None \in Proc \union {None} DEF Local
    <2>2. CASE q # <<>>
      <3>1. Len(q) \in Nat \ {0} /\ Head(q) = q[1]
        BY <1>2, <2>2, EmptySeq
      <3>2. QED BY <1>3, <1>5, <2>2, <3>1 DEF Local
    <2>3. QED BY <2>1, <2>2
  <1>8. QED BY <1>3, <1>4, <1>6, <1>7

-----------------------------------------------------------------------------
(* Kinds of steps.  Each is told by the fields of the side before and after. *)

\* A procedure that waits for no instant, and has announced none.
Loose(ctx) == ctx.state \notin {ACK, "WAIT_INSTANT"}

\* Who is under way excludes the others at the central.
LEMMA CentralRules ==
  ASSUME NEW c, Lined(c), c.side = Central
  PROVE  /\ ~Loose(Local(c)) => Loose(c.remote)
         /\ Loose(Local(c)) /\ Loose(c.remote) =>
              /\ NoToken(c.out) /\ c.acked # "PHY_UPDATE_IND"
              /\ \A n : ~Timed(Local(c), c.remote, n)
  <1>1. Legal(c) /\ Wired(c)
    BY DEF Lined
  <1>2. ~Loose(Local(c)) => Active(Local(c))
    BY <1>1 DEF Legal, Stands, Loose, Active, WithInstant, ACK
  <1>3. ~Loose(c.remote) => WithInstant(c.remote.proc)
    BY <1>1 DEF Legal, Stands, Loose, WithInstant
  <1>4. ~Loose(Local(c)) => Loose(c.remote)
    BY <1>1, <1>2, <1>3 DEF Legal, CentralLegal
  <1>5. Loose(Local(c)) /\ Loose(c.remote) => NoToken(c.out)
    BY <1>1, CarryNobody DEF Wired, Loose
  <1>6. Loose(Local(c)) /\ Loose(c.remote) => c.acked # "PHY_UPDATE_IND"
    BY <1>1 DEF Wired, Loose
  <1>7. Loose(Local(c)) /\ Loose(c.remote) => \A n : ~Timed(Local(c), c.remote, n)
    BY DEF Timed, PhyTimed, Loose
  <1>8. QED BY <1>4, <1>5, <1>6, <1>7

\* Nothing is announced, waited for or acknowledged: procedures that are loose
\* change, or stay as they are, and a PDU that is no indication may be queued.
LEMMA LooseMoves ==
  ASSUME NEW c \in Conn, Lined(c), NEW d, Legal(d), d.side = c.side,
         Local(d) = Local(c) \/ (Loose(Local(c)) /\ Loose(Local(d))),
         d.remote = c.remote \/ (Loose(c.remote) /\ Loose(d.remote)),
         d.out = c.out \/ \E pdu \in PduType : ~Token(pdu) /\ d.out = Append(c.out, pdu),
         d.acked = c.acked \/ d.acked = None
  PROVE  Moves(c, d)
  <1>1. CASE c.side = Peripheral
    <2>1. Quiet(c, d)
      BY DEF Quiet, Slot, Loose
    <2>2. QED BY <1>1, <2>1 DEF Moves, Lined, Central, Peripheral
  <1>2. CASE c.side = Central
    <2>1. Carried(c.out, Local(c), c.remote) /\ c.out \in Seq(PduType) /\ Wired(c)
      BY <1>2, Fields DEF Lined, Wired
    <2>2. Carried(c.out, Local(d), d.remote)
      BY <2>1, CarrySame DEF Loose
    <2>3. Carried(d.out, Local(d), d.remote) /\ (NoToken(c.out) => NoToken(d.out))
      BY <2>1, <2>2, CarryMore
    <2>4. Wired(d)
      <3>1. ASSUME d.acked = "PHY_UPDATE_IND"
            PROVE  NoToken(d.out) /\ (Local(d).state = ACK \/ d.remote.state = ACK)
        <4>1. c.acked = "PHY_UPDATE_IND"
          BY <3>1 DEF None
        <4>2. NoToken(c.out) /\ (Local(c).state = ACK \/ c.remote.state = ACK)
          BY <2>1, <4>1 DEF Wired
        <4>3. QED BY <2>3, <4>2 DEF Loose
      <3>2. QED BY <2>3, <3>1 DEF Wired
    <2>5. Keeps(c, d)
      <3>1. ASSUME NEW n \in Nat \ {0}, Timed(Local(c), c.remote, n)
            PROVE  Timed(Local(d), d.remote, n)
        BY <3>1 DEF Timed, PhyTimed, Loose
      <3>2. QED BY <2>3, <3>1 DEF Keeps
    <2>6. QED BY <1>2, <2>4, <2>5 DEF Moves, Lined, Central, Peripheral
  <1>3. c.side \in {Central, Peripheral}
    BY Fields DEF Side
  <1>4. QED BY <1>1, <1>2, <1>3

\* Nothing is queued, and what a procedure waits for is over or acknowledged.
LEMMA OverMoves ==
  ASSUME NEW c \in Conn, Lined(c), NEW d, Legal(d), d.side = c.side, d.out = c.out,
         c.side = Central =>
           /\ NoToken(c.out) /\ d.acked # "PHY_UPDATE_IND"
           /\ \A n \in Nat \ {0} : Timed(Local(c), c.remote, n) => Timed(Local(d), d.remote, n),
         c.side = Peripheral => Quiet(c, d)
  PROVE  Moves(c, d)
  <1>1. CASE c.side = Peripheral
    BY <1>1 DEF Moves, Lined, Central, Peripheral
  <1>2. CASE c.side = Central
    <2>1. Wired(d)
      BY <1>2, CarryNone DEF Wired
    <2>2. QED BY <1>2, <2>1 DEF Moves, Lined, Keeps, Central, Peripheral
  <1>3. c.side \in {Central, Peripheral}
    BY Fields DEF Side
  <1>4. QED BY <1>1, <1>2, <1>3

\* An indication is queued by a central none of whose procedures has announced one.
LEMMA SendMoves ==
  ASSUME NEW c \in Conn, Lined(c), c.side = Central, Loose(Local(c)), Loose(c.remote),
         NEW d, Legal(d), d.side = Central, NEW pdu \in PduType, d.out = Append(c.out, pdu),
         Announced(Local(d), d.remote, pdu), d.acked = c.acked
  PROVE  Moves(c, d)
  <1>1. NoToken(c.out) /\ c.acked # "PHY_UPDATE_IND" /\ c.out \in Seq(PduType)
        /\ \A n : ~Timed(Local(c), c.remote, n)
    BY CentralRules, Fields
  <1>2. Carried(d.out, Local(d), d.remote)
    BY <1>1, CarryMore
  <1>3. QED BY <1>1, <1>2 DEF Moves, Lined, Wired, Keeps, Central, Peripheral

-----------------------------------------------------------------------------
(* RUN. *)

\* A local procedure that is at rest excludes nothing.
LEMMA RestLegal ==
  ASSUME NEW c, Legal(c), NEW d, Rested(d), d.side = c.side,
         Local(d).state \in {"IDLE", "WAIT_INSTANT_ON_AIR", "WAIT_NTF"},
         d.remote = c.remote, d.collision = c.collision
  PROVE  Legal(d)
  BY DEF Legal, CentralLegal, PeripheralLegal, Stands, Active, ACK

\* So is the local procedure's Host notified, or its notification waits.
LEMMA NotifyLocalParts ==
  ASSUME NEW c \in Conn, Rested(c), c.local # <<>>, NEW free \in BOOLEAN
  PROVE  LET d == NotifyLocal(c, free)
         IN  Beside(c, d) /\ Rested(d) /\ Local(d).state \in {"IDLE", "WAIT_NTF"}
  <1> DEFINE ctx == [Local(c) EXCEPT !.state = "WAIT_NTF"]
  <1>1. Local(c) \in Ctx
    BY LocalTyped
  <1>2. ctx \in Ctx /\ ctx.proc = Local(c).proc /\ ctx.state = "WAIT_NTF"
    BY <1>1 DEF Ctx
  <1>3. NotifyLocal(c, free) \in {LocalDone(c), SetLocal(c, ctx)}
    BY DEF NotifyLocal
  <1> HIDE DEF ctx
  <1>4. LET d == SetLocal(c, ctx) IN Beside(c, d) /\ Local(d) = ctx /\ Rested(d)
    BY <1>2, SetLocalParts
  <1>5. LET d == LocalDone(c) IN Beside(c, d) /\ Local(d).state = "IDLE" /\ Rested(d)
    BY LocalDoneRests
  <1>6. QED BY <1>2, <1>3, <1>4, <1>5

\* Notifying the Host moves nothing.
LEMMA NotifyLocalMoves ==
  ASSUME NEW c \in Conn, Lined(c), c.local # <<>>, Loose(Local(c)), NEW free \in BOOLEAN
  PROVE  Moves(c, NotifyLocal(c, free))
  <1> DEFINE d == NotifyLocal(c, free)
  <1>1. Legal(c)
    BY DEF Lined
  <1>2. Beside(c, d) /\ Rested(d) /\ Local(d).state \in {"IDLE", "WAIT_NTF"}
    BY <1>1, NotifyLocalParts DEF Legal
  <1> HIDE DEF d
  <1>3. Legal(d)
    BY <1>1, <1>2, RestLegal DEF Beside
  <1>4. Loose(Local(d))
    BY <1>2 DEF Loose, ACK
  <1>5. QED BY <1>2, <1>3, <1>4, LooseMoves DEF Beside, d

\* A local procedure begins by a request that is no indication.
LEMMA RequestMoves ==
  ASSUME NEW c \in Conn, Lined(c), Local(c).state = "IDLE", c.local # <<>>,
         NEW i \in {"NO_COLLISION", "RESOLVABLE", "RESERVED"}, NEW new \in Ctx, new.proc = Local(c).proc,
         Loose(new), new.state \in {"WAIT_TX_ACK_PHY_REQ", "WAIT_TX_ACK", "WAIT_RX"}, Stands(new),
         Active(new) => i # "NO_COLLISION" /\ ~c.collision,
         NEW pdu \in PduType, ~Token(pdu)
  PROVE  Moves(c, Tx(SetLocal(Incompat(c, i), new), pdu))
  <1> DEFINE a == Incompat(c, i)
             b == SetLocal(a, new)
             d == Tx(b, pdu)
  <1>1. Legal(c)
    BY DEF Lined
  <1>2. a \in Conn /\ a.side = c.side /\ a.reason = c.reason /\ a.local = c.local /\ a.remote = c.remote
        /\ a.incompat = i /\ a.collision = c.collision /\ a.out = c.out /\ a.acked = c.acked
    BY IncompatParts
  <1> HIDE DEF a
  <1>3. Local(a) = Local(c) /\ Rested(a)
    BY <1>1, <1>2, LocalSame DEF Legal
  <1>4. Beside(a, b) /\ Local(b) = new /\ Rested(b)
    BY <1>2, <1>3, SetLocalParts
  <1> HIDE DEF b
  <1>5. d \in Conn /\ d.side = b.side /\ d.reason = b.reason /\ d.local = b.local /\ d.remote = b.remote
        /\ d.incompat = b.incompat /\ d.collision = b.collision /\ d.out = Append(b.out, pdu)
        /\ d.acked = b.acked
    BY <1>4, TxParts DEF Beside
  <1> HIDE DEF d
  <1>6. Local(d) = new /\ Rested(d)
    BY <1>4, <1>5, LocalSame
  <1>7. Loose(Local(c))
    BY DEF Loose, ACK
  <1>8. d.side = c.side /\ d.remote = c.remote /\ d.incompat = i /\ d.collision = c.collision
        /\ d.out = Append(c.out, pdu) /\ d.acked = c.acked
    BY <1>2, <1>4, <1>5 DEF Beside
  <1>9. Legal(d)
    BY <1>1, <1>6, <1>8 DEF Legal, CentralLegal, PeripheralLegal, ACK
  <1>10. Moves(c, d)
    BY <1>6, <1>7, <1>8, <1>9, LooseMoves
  <1>11. QED BY <1>10 DEF d, b, a

\* The request for PHYs.
LEMMA SendPhyReqMoves ==
  ASSUME NEW c \in Conn, Lined(c), Local(c).state = "IDLE", Local(c).proc = "PHY_UPDATE", ~c.collision
  PROVE  Moves(c, SendPhyReq(c, Local(c)))
  <1> DEFINE ctx == Local(c)
             new == [ctx EXCEPT !.state = "WAIT_TX_ACK_PHY_REQ", !.tx_opcode = "PHY_REQ"]
             p == [c EXCEPT !.pref = ctx.phys]
             pdu == Pdu("PHY_REQ", ctx.phys, None, 0)
             d == Tx(SetLocal(Incompat(p, "RESOLVABLE"), new), pdu)
  <1>1. ctx \in Ctx /\ c.local # <<>> /\ ctx.phys \in SUBSET Phy
    BY LocalTyped, CtxFields DEF None
  <1>2. new \in Ctx /\ new.proc = ctx.proc /\ new.state = "WAIT_TX_ACK_PHY_REQ"
    BY <1>1 DEF Ctx, Opcode
  <1>3. pdu \in PduType /\ pdu.op = "PHY_REQ"
    <2>1. "PHY_REQ" \in Opcode
      BY DEF Opcode
    <2> HIDE DEF ctx
    <2>2. pdu \in PduType
      BY <1>1, <2>1, PduTyped, Delta
    <2>3. QED BY <2>2 DEF Pdu
  <1>4. Same(c, p)
    <2> HIDE DEF ctx
    <2>1. QED BY <1>1, SameFields
  <1>5. SendPhyReq(c, ctx) = Pause(d)
    BY DEF SendPhyReq, d, p, new
  <1> HIDE DEF new, pdu, p
  <1>6. Moves(c, p)
    BY <1>4, SameMoves
  <1>7. Local(p) = ctx /\ p \in Conn /\ p.collision = c.collision /\ p.local = c.local /\ Lined(p)
    BY <1>4, <1>6, LocalSame DEF Same, Beside, Moves
  <1>8. Loose(new) /\ Stands(new) /\ ~Token(pdu)
    BY <1>2, <1>3 DEF Loose, Stands, Token, ACK
  <1>9. Moves(p, d)
    BY <1>1, <1>2, <1>3, <1>7, <1>8, RequestMoves
  <1>10. d \in Conn /\ Lined(d)
    <2> DEFINE i == Incompat(p, "RESOLVABLE")
               b == SetLocal(i, new)
    <2>1. i \in Conn /\ i.local = p.local /\ i.side = p.side
      BY <1>7, IncompatParts
    <2> HIDE DEF i
    <2>2. Rested(i) /\ Local(i) = ctx
      BY <1>7, <2>1, LocalSame DEF Lined, Legal
    <2>3. b \in Conn
      BY <1>1, <1>2, <1>7, <2>1, <2>2, SetLocalParts DEF Beside
    <2> HIDE DEF b
    <2>4. Tx(b, pdu) \in Conn
      BY <1>3, <2>3, TxParts
    <2>5. QED BY <1>9, <2>4 DEF Moves, b, i
  <1> HIDE DEF d
  <1>11. Moves(d, Pause(d))
    BY <1>10, SameFields, SameMoves
  <1>12. Moves(c, Pause(d))
    BY <1>6, <1>9, <1>11, MovesTwice
  <1>13. QED BY <1>5, <1>12

\* The channel map update is announced by the local procedure that waits for it.
LEMMA SendChanMapMoves ==
  ASSUME NEW c \in Conn, Lined(c), Local(c).state = "IDLE", Local(c).proc = "CHAN_MAP_UPDATE", ~c.collision
  PROVE  Moves(c, SendChanMapInd(c, Local(c)))
  <1> DEFINE ctx == Local(c)
             new == [ctx EXCEPT !.state = "WAIT_INSTANT", !.left = InstantDelta]
             pdu == Pdu("CHAN_MAP_IND", {}, None, InstantDelta)
             a == Incompat(c, "RESOLVABLE")
             b == SetLocal(a, new)
             d == Tx(b, pdu)
  <1>1. ctx \in Ctx /\ c.local # <<>> /\ Legal(c)
    BY LocalTyped DEF None, Lined
  <1>2. new \in Ctx /\ new.proc = ctx.proc /\ new.state = "WAIT_INSTANT" /\ new.left = InstantDelta
    BY <1>1, Delta DEF Ctx
  <1>3. pdu \in PduType /\ pdu.op = "CHAN_MAP_IND" /\ pdu.left = InstantDelta
    <2>1. "CHAN_MAP_IND" \in Opcode /\ {} \in SUBSET Phy
      BY DEF Opcode
    <2>2. pdu \in PduType
      BY <2>1, PduTyped, Delta
    <2>3. QED BY <2>2 DEF Pdu
  <1>4. c.side = Central
    <2>1. c.side \in {Central, Peripheral} /\ c.local \in Seq(Ctx)
      BY Fields DEF Side
    <2>2. 1 \in 1 .. Len(c.local) /\ Local(c) = c.local[1]
      BY <1>1, <2>1, EmptySeq DEF Local
    <2>3. QED BY <1>1, <2>1, <2>2 DEF Legal, Rested
  <1>5. SendChanMapInd(c, ctx) = d
    BY DEF SendChanMapInd
  <1> HIDE DEF new, pdu
  <1>6. a \in Conn /\ a.side = c.side /\ a.local = c.local /\ a.remote = c.remote
        /\ a.incompat = "RESOLVABLE" /\ a.collision = c.collision /\ a.out = c.out /\ a.acked = c.acked
    BY IncompatParts
  <1> HIDE DEF a
  <1>7. Local(a) = ctx /\ Rested(a)
    BY <1>1, <1>6, LocalSame DEF Legal
  <1>8. Beside(a, b) /\ Local(b) = new /\ Rested(b)
    BY <1>1, <1>2, <1>6, <1>7, SetLocalParts
  <1> HIDE DEF b
  <1>9. d \in Conn /\ d.side = b.side /\ d.local = b.local /\ d.remote = b.remote
        /\ d.incompat = b.incompat /\ d.collision = b.collision /\ d.out = Append(b.out, pdu)
        /\ d.acked = b.acked
    BY <1>3, <1>8, TxParts DEF Beside
  <1> HIDE DEF d
  <1>10. Local(d) = new /\ Rested(d)
    BY <1>8, <1>9, LocalSame
  <1>11. d.side = Central /\ d.remote = c.remote /\ d.incompat = "RESOLVABLE"
         /\ d.collision = c.collision /\ d.out = Append(c.out, pdu) /\ d.acked = c.acked
    BY <1>4, <1>6, <1>8, <1>9 DEF Beside
  <1>12. ~WithInstant(c.remote.proc) /\ Loose(c.remote) /\ Loose(Local(c))
    BY <1>1, <1>4 DEF Legal, CentralLegal, Stands, WithInstant, Loose, ACK
  <1>13. Legal(d)
    <2>1. Stands(new)
      BY <1>2 DEF Stands, WithInstant, ACK
    <2>2. QED BY <1>1, <1>2, <1>4, <1>10, <1>11, <1>12, <2>1
              DEF Legal, CentralLegal, Central, Peripheral
  <1>14. Announced(Local(d), d.remote, pdu)
    BY <1>2, <1>3, <1>10 DEF Announced
  <1>15. Moves(c, d)
    BY <1>3, <1>4, <1>11, <1>12, <1>13, <1>14, SendMoves
  <1>16. QED BY <1>5, <1>15

\* The collision state a side is in, set again.
LEMMA IncompatSelf ==
  ASSUME NEW c \in Conn
  PROVE  Incompat(c, c.incompat) = c /\ c.incompat \in {"NO_COLLISION", "RESOLVABLE", "RESERVED"}
  BY DEF Incompat, Conn

\* Whatever the local procedure, its request moves nothing, or is announced.
LEMMA SendRequestMoves ==
  ASSUME NEW c \in Conn, Lined(c), Local(c).state = "IDLE"
  PROVE  Moves(c, SendRequest(c))
  <1> DEFINE ctx == Local(c)
             term == [ctx EXCEPT !.state = "WAIT_TX_ACK", !.tx_opcode = "TERMINATE_IND"]
             req(op) == [ctx EXCEPT !.state = "WAIT_RX", !.tx_opcode = op, !.rx_opcode = "FEATURE_RSP"]
  <1>1. ctx \in Ctx /\ (ctx.proc # None => c.local # <<>>)
    BY LocalTyped
  <1>2. term \in Ctx /\ term.proc = ctx.proc /\ term.state = "WAIT_TX_ACK"
    BY <1>1 DEF Ctx, Opcode
  <1>3. ASSUME NEW op \in {"FEATURE_REQ", "PER_INIT_FEAT_XCHG"}
        PROVE  req(op) \in Ctx /\ req(op).proc = ctx.proc /\ req(op).state = "WAIT_RX"
    BY <1>1 DEF Ctx, Opcode
  <1>4. \A op \in {"TERMINATE_IND", "FEATURE_REQ", "PER_INIT_FEAT_XCHG"} :
          Plain(op) \in PduType /\ Plain(op).op = op
    BY PlainTyped DEF Opcode, Plain, Pdu
  <1>5. SendCommon(c, ctx) = IF ctx.proc = "TERMINATE" THEN Tx(SetLocal(c, term), Plain("TERMINATE_IND"))
                             ELSE LET op == IF c.side = Central THEN "FEATURE_REQ"
                                                                ELSE "PER_INIT_FEAT_XCHG"
                                  IN  Tx(SetLocal(c, req(op)), Plain(op))
    BY DEF SendCommon
  <1> HIDE DEF term, req
  <1>6. ASSUME NEW new \in Ctx, new.proc = ctx.proc, ~WithInstant(ctx.proc), c.local # <<>>,
               new.state \in {"WAIT_TX_ACK", "WAIT_RX"},
               NEW op \in {"TERMINATE_IND", "FEATURE_REQ", "PER_INIT_FEAT_XCHG"}
        PROVE  Moves(c, Tx(SetLocal(c, new), Plain(op)))
    <2>1. Loose(new) /\ Stands(new) /\ ~Active(new) /\ ~Token(Plain(op)) /\ Plain(op) \in PduType
      BY <1>4, <1>6 DEF Loose, Stands, Active, Token, ACK
    <2>2. Moves(c, Tx(SetLocal(Incompat(c, c.incompat), new), Plain(op)))
      BY <1>6, <2>1, IncompatSelf, RequestMoves
    <2>3. QED BY <2>2, IncompatSelf
  <1>7. CASE ctx.proc = "TERMINATE"
    <2>1. SendRequest(c) = Tx(SetLocal(c, term), Plain("TERMINATE_IND"))
      BY <1>5, <1>7 DEF SendRequest
    <2> HIDE DEF ctx
    <2>2. QED BY <1>1, <1>2, <1>6, <1>7, <2>1 DEF WithInstant, None
  <1>8. CASE ctx.proc = "FEATURE_EXCHANGE"
    <2> DEFINE op == IF c.side = Central THEN "FEATURE_REQ" ELSE "PER_INIT_FEAT_XCHG"
    <2>1. op \in {"FEATURE_REQ", "PER_INIT_FEAT_XCHG"}
      OBVIOUS
    <2>2. SendRequest(c) = Tx(SetLocal(c, req(op)), Plain(op))
      BY <1>5, <1>8 DEF SendRequest
    <2> HIDE DEF op, ctx
    <2>3. QED BY <1>1, <1>3, <1>6, <1>8, <2>1, <2>2 DEF WithInstant, None
  <1>9. CASE ctx.proc \in {"PHY_UPDATE", "CHAN_MAP_UPDATE"}
    BY <1>9, SendPhyReqMoves, SendChanMapMoves, MovesSelf DEF SendRequest
  <1>10. CASE ctx.proc = None
    BY <1>10, MovesSelf DEF SendRequest, None
  <1>11. QED BY <1>1, <1>7, <1>8, <1>9, <1>10, CtxFields DEF Proc

\* At its instant the local procedure ceases to wait for it.
LEMMA InstantMoves ==
  ASSUME NEW c \in Conn, Lined(c), Local(c).state = "WAIT_INSTANT", Local(c).left = 0,
         NEW d, Rested(d), d.side = c.side, d.remote = c.remote, d.collision = c.collision,
         d.out = c.out, d.acked = c.acked,
         Local(d).state \in {"IDLE", "WAIT_INSTANT_ON_AIR", "WAIT_NTF"}
  PROVE  Moves(c, d)
  <1>1. Legal(c) /\ Legal(d)
    BY RestLegal DEF Lined
  <1>2. ASSUME c.side = Central
        PROVE  /\ NoToken(c.out) /\ d.acked # "PHY_UPDATE_IND"
               /\ \A n \in Nat \ {0} : ~Timed(Local(c), c.remote, n)
    <2>1. Loose(c.remote) /\ Wired(c)
      BY <1>2, CentralRules DEF Lined, Loose
    <2>2. NoToken(c.out)
      BY <2>1, CarryPast DEF Wired, Loose
    <2>3. d.acked # "PHY_UPDATE_IND"
      BY <2>1 DEF Wired, Loose, ACK
    <2>4. \A n \in Nat \ {0} : ~Timed(Local(c), c.remote, n)
      BY <2>1 DEF Timed, PhyTimed, Loose
    <2>5. QED BY <2>2, <2>3, <2>4
  <1>3. Quiet(c, d)
    BY DEF Quiet, Slot
  <1>4. QED BY <1>1, <1>2, <1>3, OverMoves

\* That of a PHY update.
LEMMA PhyInstantMoves ==
  ASSUME NEW c \in Conn, Lined(c), Local(c).state = "WAIT_INSTANT", Local(c).left = 0
  PROVE  LET d == PhyInstant(c, Local(c)) IN Moves(c, d) /\ Local(d).state # "WAIT_INSTANT"
  <1> DEFINE ctx == Local(c)
             a == Apply(c, ctx.phys)
             i == Incompat(a, "NO_COLLISION")
             new == [ctx EXCEPT !.state = "WAIT_INSTANT_ON_AIR"]
             d == SetLocal(i, new)
  <1>1. ctx \in Ctx /\ ctx.phys \in SUBSET Phy /\ c.local # <<>> /\ Rested(c)
    BY LocalTyped, CtxFields DEF Lined, Legal
  <1>2. new \in Ctx /\ new.proc = ctx.proc /\ new.state = "WAIT_INSTANT_ON_AIR"
    BY <1>1 DEF Ctx
  <1>3. PhyInstant(c, ctx) = d
    BY DEF PhyInstant
  <1> HIDE DEF new
  <1>4. Same(c, a)
    <2> HIDE DEF ctx
    <2>1. QED BY <1>1, SameFields
  <1> HIDE DEF a
  <1>5. i \in Conn /\ i.side = c.side /\ i.local = c.local /\ i.remote = c.remote
        /\ i.collision = c.collision /\ i.out = c.out /\ i.acked = c.acked
    BY <1>4, IncompatParts DEF Same, Beside
  <1> HIDE DEF i
  <1>6. Local(i) = ctx /\ Rested(i)
    BY <1>1, <1>5, LocalSame
  <1>7. Beside(i, d) /\ Local(d) = new /\ Rested(d)
    BY <1>1, <1>2, <1>5, <1>6, SetLocalParts
  <1> HIDE DEF d
  <1>8. Moves(c, d)
    BY <1>2, <1>5, <1>7, InstantMoves DEF Beside
  <1>9. QED BY <1>2, <1>3, <1>7, <1>8

\* That of a channel map update.
LEMMA ChanMapInstantMoves ==
  ASSUME NEW c \in Conn, Lined(c), Local(c).state = "WAIT_INSTANT", Local(c).left = 0
  PROVE  LET d == ChanMapInstant(c) IN Moves(c, d) /\ Local(d).state # "WAIT_INSTANT"
  <1> DEFINE i == Incompat(c, "NO_COLLISION")
             d == LocalDone(i)
  <1>1. c.local # <<>> /\ Rested(c)
    BY LocalTyped DEF Lined, Legal
  <1>2. ChanMapInstant(c) = d
    BY DEF ChanMapInstant
  <1>3. i \in Conn /\ i.side = c.side /\ i.local = c.local /\ i.remote = c.remote
        /\ i.collision = c.collision /\ i.out = c.out /\ i.acked = c.acked
    BY IncompatParts
  <1> HIDE DEF i
  <1>4. Beside(i, d) /\ Local(d).state = "IDLE" /\ Rested(d)
    BY <1>1, <1>3, LocalSame, LocalDoneRests
  <1> HIDE DEF d
  <1>5. Moves(c, d)
    BY <1>3, <1>4, InstantMoves DEF Beside
  <1>6. QED BY <1>2, <1>4, <1>5

\* RUN of the local machine leaves no instant that has come waiting.
LEMMA RunLocalMoves ==
  ASSUME NEW c \in Conn, Lined(c), NEW free \in BOOLEAN
  PROVE  LET d == RunLocal(c, free)
         IN  /\ Moves(c, d)
             /\ c.side = Peripheral /\ Local(d).state = "WAIT_INSTANT" => Local(d).left # 0
  <1> DEFINE ctx == Local(c)
             d == RunLocal(c, free)
  <1>1. CASE ctx.state = "WAIT_INSTANT" /\ ctx.left = 0
    <2>1. ctx.proc \in {"PHY_UPDATE", "CHAN_MAP_UPDATE"}
      BY <1>1 DEF Lined, Legal, Stands, WithInstant
    <2>2. d = IF ctx.proc = "PHY_UPDATE" THEN PhyInstant(c, ctx) ELSE ChanMapInstant(c)
      BY <1>1, <2>1 DEF RunLocal
    <2> HIDE DEF d
    <2>3. QED BY <1>1, <2>2, PhyInstantMoves, ChanMapInstantMoves DEF d
  <1>2. CASE ~(ctx.state = "WAIT_INSTANT" /\ ctx.left = 0)
    <2>1. Moves(c, d)
      <3>1. CASE ctx.state = "IDLE"
        <4>1. d = SendRequest(c)
          BY <3>1 DEF RunLocal
        <4>2. QED BY <3>1, <4>1, SendRequestMoves
      <3>2. CASE ctx.state = "WAIT_NTF"
        <4>1. d = NotifyLocal(c, free)
          BY <3>2 DEF RunLocal
        <4>2. c.local # <<>> /\ Loose(Local(c))
          BY <3>2, LocalTyped DEF Loose, ACK
        <4>3. QED BY <4>1, <4>2, NotifyLocalMoves
      <3>3. CASE ctx.state \notin {"IDLE", "WAIT_NTF"}
        <4>1. d = c
          BY <1>2, <3>3 DEF RunLocal
        <4>2. QED BY <4>1, MovesSelf
      <3>4. QED BY <3>1, <3>2, <3>3
    <2> HIDE DEF d
    <2>2. c.side = Peripheral /\ Local(d).state = "WAIT_INSTANT" => Local(d).left # 0
      BY <1>2, <2>1 DEF Moves, Quiet, Slot
    <2>3. QED BY <2>1, <2>2 DEF d
  <1>3. QED BY <1>1, <1>2

\* The remote procedure goes on, or ends, within its side's rules.
LEMMA RemoteLegal ==
  ASSUME NEW c, Legal(c), NEW d, d.side = c.side, d.local = c.local, d.incompat = c.incompat,
         Stands(d.remote),
         c.side = Central =>
           /\ d.remote.state \notin {"WAIT_TX_ACK_PHY_RSP", "WAIT_RX_PHY_UPDATE_IND"}
           /\ d.remote.proc # "CHAN_MAP_UPDATE"
           /\ WithInstant(d.remote.proc) => d.collision /\ ~Active(Local(c)),
         c.side = Peripheral => d.remote.state \notin {"WAIT_TX_PHY_UPDATE_IND", ACK}
  PROVE  Legal(d)
  <1>1. Local(d) = Local(c) /\ (Rested(c) => Rested(d))
    BY LocalSame
  <1>2. QED BY <1>1 DEF Legal, CentralLegal, PeripheralLegal

\* Without a remote procedure there is nothing to rule.
LEMMA NoCtxStands == Stands(NoCtx) /\ Loose(NoCtx) /\ ~WithInstant(NoCtx.proc) /\ NoCtx.state = "IDLE"
                     /\ NoCtx.proc = None
  BY NewCtxTyped, {} \in SUBSET Phy, None \in Proc \union {None} DEF Stands, Loose, WithInstant, ACK, None

\* A remote procedure that waits for no instant goes on to wait for none, or ends.
LEMMA RemoteLooseMoves ==
  ASSUME NEW c \in Conn, Lined(c), Loose(c.remote), NEW d, Across(c, d),
         Loose(d.remote), Stands(d.remote),
         d.remote.proc = None \/ (d.remote.proc = c.remote.proc /\ d.collision = c.collision),
         c.side = Central => d.remote.state \notin {"WAIT_TX_ACK_PHY_RSP", "WAIT_RX_PHY_UPDATE_IND"},
         c.side = Peripheral => d.remote.state # "WAIT_TX_PHY_UPDATE_IND"
  PROVE  Moves(c, d)
  <1>1. Legal(c) /\ Local(d) = Local(c)
    BY LocalSame DEF Lined, Across
  <1>2. d.remote.state # ACK
    BY DEF Loose
  <1>3. Legal(d)
    BY <1>1, <1>2, RemoteLegal DEF Across, Legal, CentralLegal, WithInstant, None
  <1>4. QED BY <1>1, <1>3, LooseMoves DEF Across

\* Notifying the Host of one moves nothing.
LEMMA NotifyRemoteMoves ==
  ASSUME NEW c \in Conn, Lined(c), Loose(c.remote), NEW free \in BOOLEAN
  PROVE  Moves(c, NotifyRemote(c, free))
  <1> DEFINE ctx == [c.remote EXCEPT !.state = "WAIT_NTF"]
  <1>1. c.remote \in Ctx
    BY Fields
  <1>2. ctx \in Ctx /\ ctx.state = "WAIT_NTF" /\ ctx.proc = c.remote.proc
    BY <1>1 DEF Ctx
  <1>3. NotifyRemote(c, free) \in {SetRemote(c, ctx), RemoteDone(c)}
    BY DEF NotifyRemote
  <1> HIDE DEF ctx
  <1>4. Moves(c, SetRemote(c, ctx))
    <2> DEFINE d == SetRemote(c, ctx)
    <2>1. Across(c, d) /\ d.remote = ctx /\ d.collision = c.collision
      BY <1>2, OneField
    <2> HIDE DEF d
    <2>2. Loose(ctx) /\ Stands(ctx)
      BY <1>2 DEF Loose, Stands, ACK
    <2>3. Moves(c, d)
      BY <1>2, <2>1, <2>2, RemoteLooseMoves
    <2>4. QED BY <2>3 DEF d
  <1>5. Moves(c, RemoteDone(c))
    <2> DEFINE d == RemoteDone(c)
    <2>1. Across(c, d) /\ d.remote = NoCtx
      BY OneField
    <2> HIDE DEF d
    <2>2. Moves(c, d)
      BY <2>1, NoCtxStands, RemoteLooseMoves
    <2>3. QED BY <2>2 DEF d
  <1>6. QED BY <1>3, <1>4, <1>5

\* The central's indication is announced by the remote procedure, or postponed.
LEMMA SendUpdateIndMoves ==
  ASSUME NEW c \in Conn, Lined(c), c.side = Central, c.remote.proc = "PHY_UPDATE", Loose(c.remote),
         NEW left \in 0 .. InstantDelta + 1
  PROVE  Moves(c, SendUpdateInd(c, left))
  <1> DEFINE phys == Chosen(c, c.remote.phys)
             wait == [c.remote EXCEPT !.state = "WAIT_TX_PHY_UPDATE_IND"]
             sent == [c.remote EXCEPT !.state = "WAIT_TX_ACK_PHY_UPDATE_IND", !.phys = phys,
                                      !.left = left, !.tx_opcode = "PHY_UPDATE_IND"]
             pdu == Pdu("PHY_UPDATE_IND", phys, None, left)
             b == SetRemote(c, sent)
             d == Tx(b, pdu)
  <1>1. c.remote \in Ctx /\ Legal(c)
    BY Fields DEF Lined
  <1>2. phys \in SUBSET Phy
    BY <1>1, CtxFields DEF Chosen
  <1> HIDE DEF phys
  <1>3. wait \in Ctx /\ wait.proc = "PHY_UPDATE" /\ wait.state = "WAIT_TX_PHY_UPDATE_IND"
    BY <1>1 DEF Ctx
  <1>4. sent \in Ctx /\ sent.proc = "PHY_UPDATE" /\ sent.state = ACK /\ sent.phys = phys
        /\ sent.left = left
    BY <1>1, <1>2 DEF Ctx, Opcode, ACK
  <1>5. pdu \in PduType /\ pdu.op = "PHY_UPDATE_IND" /\ pdu.phys = phys /\ pdu.left = left
    <2>1. "PHY_UPDATE_IND" \in Opcode
      BY DEF Opcode
    <2>2. pdu \in PduType
      BY <1>2, <2>1, PduTyped
    <2>3. QED BY <2>2 DEF Pdu
  <1>6. SendUpdateInd(c, left) \in {SetRemote(c, wait), d}
    BY DEF SendUpdateInd, phys
  <1> HIDE DEF wait, sent, pdu
  <1>7. Moves(c, SetRemote(c, wait))
    <2> DEFINE w == SetRemote(c, wait)
    <2>1. Across(c, w) /\ w.remote = wait /\ w.collision = c.collision
      BY <1>3, OneField
    <2> HIDE DEF w
    <2>2. Loose(wait) /\ Stands(wait)
      BY <1>3 DEF Loose, Stands, ACK
    <2>3. Moves(c, w)
      BY <1>3, <2>1, <2>2, RemoteLooseMoves DEF Central, Peripheral
    <2>4. QED BY <2>3 DEF w
  <1>8. Across(c, b) /\ b.remote = sent /\ b.collision = c.collision
    BY <1>4, OneField
  <1> HIDE DEF b
  <1>9. d.side = c.side /\ d.local = c.local /\ d.remote = sent /\ d.incompat = c.incompat
        /\ d.collision = c.collision /\ d.out = Append(c.out, pdu) /\ d.acked = c.acked
    BY <1>5, <1>8, TxParts DEF Across
  <1> HIDE DEF d
  <1>10. c.collision /\ ~Active(Local(c))
    BY <1>1 DEF Legal, CentralLegal, WithInstant
  <1>11. Loose(Local(c))
    BY <1>1, <1>10 DEF Legal, Stands, Active, Loose, WithInstant, ACK
  <1>12. Legal(d)
    BY <1>1, <1>4, <1>9, <1>10, RemoteLegal DEF Stands, WithInstant, ACK, Central, Peripheral
  <1>13. Announced(Local(d), d.remote, pdu)
    BY <1>4, <1>5, <1>9 DEF Announced
  <1>14. Moves(c, d)
    BY <1>5, <1>9, <1>11, <1>12, <1>13, SendMoves
  <1>15. QED BY <1>6, <1>7, <1>14

\* At its instant the remote procedure ceases to wait for it.
LEMMA RemoteInstantMoves ==
  ASSUME NEW c \in Conn, Lined(c), c.remote.state = "WAIT_INSTANT", c.remote.left = 0,
         NEW d, Across(c, d), d.remote.state \in {"IDLE", "WAIT_INSTANT_ON_AIR"},
         d.remote.proc = None \/ (d.remote.proc = c.remote.proc /\ d.collision = c.collision)
  PROVE  Moves(c, d)
  <1>1. Legal(c) /\ Local(d) = Local(c) /\ d.side = c.side /\ d.out = c.out /\ d.acked = c.acked
    BY LocalSame DEF Lined, Across
  <1>2. Legal(d)
    BY <1>1, RemoteLegal DEF Across, Legal, CentralLegal, Stands, WithInstant, None, ACK
  <1>3. ASSUME c.side = Central
        PROVE  /\ NoToken(c.out) /\ d.acked # "PHY_UPDATE_IND"
               /\ \A n \in Nat \ {0} : ~Timed(Local(c), c.remote, n)
    <2>1. Loose(Local(c)) /\ Wired(c)
      BY <1>3, CentralRules DEF Lined, Loose
    <2>2. NoToken(c.out)
      BY <2>1, CarryNobody DEF Wired, Loose, ACK
    <2>3. d.acked # "PHY_UPDATE_IND"
      BY <1>1, <2>1 DEF Wired, Loose, ACK
    <2>4. \A n \in Nat \ {0} : ~Timed(Local(c), c.remote, n)
      BY <2>1 DEF Timed, PhyTimed, Loose
    <2>5. QED BY <2>2, <2>3, <2>4
  <1>4. Quiet(c, d)
    BY <1>1 DEF Quiet, Slot
  <1>5. QED BY <1>1, <1>2, <1>3, <1>4, OverMoves

\* RUN of the remote machine leaves no instant that has come waiting.
LEMMA RunRemoteMoves ==
  ASSUME NEW c \in Conn, Lined(c), NEW free \in BOOLEAN
  PROVE  LET d == RunRemote(c, free)
         IN  \/ Ends(d)
             \/ /\ Moves(c, d)
                /\ c.side = Peripheral /\ d.remote.state = "WAIT_INSTANT" => d.remote.left # 0
  <1> DEFINE ctx == c.remote
             a == Apply(c, ctx.phys)
             new == [ctx EXCEPT !.state = "WAIT_INSTANT_ON_AIR", !.ntf = TRUE]
             d == RunRemote(c, free)
  <1>1. ctx \in Ctx /\ ctx.phys \in SUBSET Phy
    BY Fields, CtxFields
  <1>2. new \in Ctx /\ new.proc = ctx.proc /\ new.state = "WAIT_INSTANT_ON_AIR"
    BY <1>1 DEF Ctx
  <1> HIDE DEF new
  <1>3. CASE ctx.state = "WAIT_INSTANT" /\ ctx.left = 0
    <2>1. ctx.proc \in {"PHY_UPDATE", "CHAN_MAP_UPDATE"}
      BY <1>3 DEF Lined, Legal, Stands, WithInstant
    <2>2. d = IF ctx.proc = "PHY_UPDATE" THEN SetRemote(a, new) ELSE RemoteDone(c)
      BY <1>3, <2>1 DEF RunRemote, new
    <2> HIDE DEF d
    <2>3. Moves(c, SetRemote(a, new)) /\ SetRemote(a, new).remote = new
      <3> DEFINE b == SetRemote(a, new)
      <3>1. Same(c, a)
        <4> HIDE DEF ctx
        <4>1. QED BY <1>1, SameFields
      <3> HIDE DEF a
      <3>2. Across(a, b) /\ b.remote = new /\ b.collision = a.collision
        BY <1>2, <3>1, OneField DEF Same, Beside
      <3> HIDE DEF b
      <3>3. Across(c, b) /\ b.collision = c.collision
        BY <3>1, <3>2 DEF Same, Beside, Across
      <3>4. Moves(c, b)
        BY <1>2, <1>3, <3>2, <3>3, RemoteInstantMoves
      <3>5. QED BY <3>2, <3>4 DEF b
    <2>4. Moves(c, RemoteDone(c)) /\ RemoteDone(c).remote = NoCtx
      <3> DEFINE b == RemoteDone(c)
      <3>1. Across(c, b) /\ b.remote = NoCtx
        BY OneField
      <3> HIDE DEF b
      <3>2. Moves(c, b)
        BY <1>3, <3>1, NoCtxStands, RemoteInstantMoves
      <3>3. QED BY <3>1, <3>2 DEF b
    <2> HIDE DEF a
    <2>5. QED BY <1>2, <2>2, <2>3, <2>4, NoCtxStands DEF d
  <1>4. CASE ~(ctx.state = "WAIT_INSTANT" /\ ctx.left = 0)
    <2>1. Sure(c, d)
      <3>1. CASE ctx.state = "WAIT_TX_PHY_UPDATE_IND"
        <4>1. d = SendUpdateInd(c, InstantDelta)
          BY <3>1 DEF RunRemote
        <4>2. c.side = Central /\ ctx.proc = "PHY_UPDATE" /\ Loose(ctx)
          BY <3>1, Fields DEF Lined, Legal, PeripheralLegal, Stands, Loose, ACK, Side
        <4>3. QED BY <4>1, <4>2, Delta, SendUpdateIndMoves DEF Sure
      <3>2. CASE ctx.state = "WAIT_NTF"
        <4>1. d = NotifyRemote(c, free)
          BY <3>2 DEF RunRemote
        <4>2. Loose(ctx)
          BY <3>2 DEF Loose, ACK
        <4>3. QED BY <4>1, <4>2, NotifyRemoteMoves DEF Sure
      <3>3. CASE ctx.state = "POSTPONE_TERMINATE"
        <4>1. d = Reason(RemoteDone(c), "REMOTE_USER_TERM_CONN")
          BY <3>3 DEF RunRemote
        <4>2. RemoteDone(c) \in Conn
          BY OneField DEF Across
        <4>3. QED BY <4>1, <4>2, ReasonEnds, ReasonsGiven DEF Sure
      <3>4. CASE ctx.state \notin {"WAIT_TX_PHY_UPDATE_IND", "WAIT_NTF", "POSTPONE_TERMINATE"}
        <4>1. d = c
          BY <1>4, <3>4 DEF RunRemote
        <4>2. QED BY <4>1, MovesSelf DEF Sure
      <3>5. QED BY <3>1, <3>2, <3>3, <3>4
    <2> HIDE DEF d
    <2>2. Moves(c, d) /\ c.side = Peripheral /\ d.remote.state = "WAIT_INSTANT" => d.remote.left # 0
      BY <1>4 DEF Moves, Quiet, Slot
    <2>3. QED BY <2>1, <2>2 DEF d, Sure
  <1>5. QED BY <1>3, <1>4

\* An instant is waited for only if it is still to come.
Ahead(c) ==
  /\ Local(c).state = "WAIT_INSTANT" => Local(c).left # 0
  /\ c.remote.state = "WAIT_INSTANT" => c.remote.left # 0

\* ull_cp_run moves nothing, and at the peripheral leaves no instant that has come
\* waiting.
LEMMA RunMoves ==
  ASSUME NEW c, Steady(c), Lined(c), NEW free \in BOOLEAN
  PROVE  LET d == Run(c, free) IN Ends(d) \/ (Moves(c, d) /\ (c.side = Peripheral => Ahead(d)))
  <1> DEFINE b == RunRemote(c, free)
             d == RunLocal(b, free)
  <1>1. c \in Conn /\ Goes(c, b) /\ Goes(b, d)
    <2>1. c \in Conn /\ Goes(c, b)
      BY RunRemoteFine DEF Steady, Fine
    <2> HIDE DEF b
    <2>2. Goes(b, d)
      BY <2>1, RunLocalFine DEF Goes, Fine
    <2>3. QED BY <2>1, <2>2
  <1>2. Ends(b) \/ (Moves(c, b) /\ (c.side = Peripheral /\ b.remote.state = "WAIT_INSTANT" => b.remote.left # 0))
    BY <1>1, RunRemoteMoves
  <1>3. Run(c, free) = d
    BY DEF Run
  <1> HIDE DEF b
  <1>4. CASE Ends(b)
    BY <1>1, <1>3, <1>4 DEF Goes
  <1>5. CASE ~Ends(b)
    <2>1. Lined(b) /\ b \in Conn /\ b.side = c.side
      BY <1>1, <1>2, <1>5 DEF Moves, Goes, Steady
    <2>2. Moves(b, d) /\ (b.side = Peripheral /\ Local(d).state = "WAIT_INSTANT" => Local(d).left # 0)
      BY <2>1, RunLocalMoves
    <2> HIDE DEF d
    <2>3. Moves(c, d)
      BY <1>2, <1>5, <2>2, MovesTwice
    <2>4. c.side = Peripheral => Ahead(d)
      BY <1>2, <1>5, <2>1, <2>2 DEF Ahead, Moves, Quiet, Slot
    <2>5. QED BY <1>3, <2>3, <2>4
  <1>6. QED BY <1>4, <1>5

-----------------------------------------------------------------------------
(* Notifications after an event, and acknowledgments. *)

\* ull_cp_tx_ntf moves nothing.
LEMMA TxNtfMoves ==
  ASSUME NEW c \in Conn, Lined(c), NEW free \in BOOLEAN
  PROVE  Moves(c, TxNtf(c, free))
  <1> DEFINE l == IF Local(c).state = "WAIT_INSTANT_ON_AIR" THEN NotifyLocal(c, free) ELSE c
  <1>1. Moves(c, l) /\ l \in Conn
    <2>1. CASE Local(c).state = "WAIT_INSTANT_ON_AIR"
      <3>1. c.local # <<>> /\ Loose(Local(c)) /\ Rested(c)
        BY <2>1, LocalTyped DEF Loose, ACK, Lined, Legal
      <3>2. Moves(c, NotifyLocal(c, free)) /\ NotifyLocal(c, free) \in Conn
        BY <3>1, NotifyLocalMoves, NotifyLocalParts DEF Beside
      <3>3. QED BY <2>1, <3>2
    <2>2. QED BY <2>1, MovesSelf
  <1> HIDE DEF l
  <1>2. TxNtf(c, free) = IF l.remote.state = "WAIT_INSTANT_ON_AIR" THEN NotifyRemote(l, free) ELSE l
    BY DEF TxNtf, l
  <1>3. l.remote.state = "WAIT_INSTANT_ON_AIR" => Moves(l, NotifyRemote(l, free))
    BY <1>1, NotifyRemoteMoves DEF Loose, ACK, Moves
  <1>4. QED BY <1>1, <1>2, <1>3, MovesTwice

\* The local procedure's PDU is acknowledged: the central goes on waiting for the
\* instant of its indication, which is queued no longer.
LEMMA TxAckLocalMoves ==
  ASSUME NEW c \in Conn, Lined(c), c.acked = None, NEW op, NEW free \in BOOLEAN,
         c.side = Central /\ op = "PHY_UPDATE_IND" => NoToken(c.out)
  PROVE  LET d == TxAckLocal(c, op, free) IN Ends(d) \/ (Moves(c, d) /\ d.out = c.out /\ d.acked = None)
  <1> DEFINE ctx == Local(c)
             rsp == [ctx EXCEPT !.state = "WAIT_RX_PHY_RSP", !.rx_opcode = "PHY_RSP"]
             ind == [ctx EXCEPT !.state = "WAIT_RX_PHY_UPDATE_IND", !.rx_opcode = "PHY_UPDATE_IND"]
             inst == [ctx EXCEPT !.state = "WAIT_INSTANT"]
             i == Incompat(c, "NO_COLLISION")
             n == NotifyLocal(i, free)
  <1>1. ctx \in Ctx /\ (ctx.state # "IDLE" => c.local # <<>>) /\ Rested(c) /\ Legal(c)
        /\ c.side \in {Central, Peripheral}
    BY LocalTyped, Fields DEF Lined, Legal, Side
  <1>2. TxAckLocal(c, op, free) =
          CASE ctx.state = "WAIT_TX_ACK_PHY_REQ" /\ op = "PHY_REQ" ->
                 IF c.side = Central THEN SetLocal(c, rsp) ELSE Resume(SetLocal(c, ind))
            [] ctx.state = "WAIT_TX_ACK_PHY_UPDATE_IND" /\ op = "PHY_UPDATE_IND" ->
                 Resume(IF ctx.phys # {} THEN SetLocal(c, inst) ELSE n)
            [] ctx.state = "WAIT_TX_ACK" /\ op = "TERMINATE_IND" ->
                 Reason(LocalDone(c), "LOCALHOST_TERM_CONN")
            [] OTHER -> c
    BY Zenon DEF TxAckLocal, rsp, ind, inst, n, i
  <1>3. /\ rsp \in Ctx /\ rsp.proc = ctx.proc /\ rsp.state = "WAIT_RX_PHY_RSP"
        /\ ind \in Ctx /\ ind.proc = ctx.proc /\ ind.state = "WAIT_RX_PHY_UPDATE_IND"
        /\ inst \in Ctx /\ inst.proc = ctx.proc /\ inst.state = "WAIT_INSTANT"
        /\ inst.phys = ctx.phys /\ inst.left = ctx.left
    BY <1>1 DEF Ctx, Opcode
  <1> HIDE DEF rsp, ind, inst, n
  <1>4. ASSUME NEW b, Moves(c, b) /\ b.out = c.out /\ b.acked = None /\ b \in Conn
        PROVE  Moves(c, Resume(b)) /\ Resume(b).out = c.out /\ Resume(b).acked = None
    <2>1. Same(b, Resume(b)) /\ Moves(b, Resume(b))
      BY <1>4, SameFields, SameMoves DEF Moves
    <2>2. QED BY <1>4, <2>1, MovesTwice DEF Same, Beside
  <1>5. CASE ctx.state = "WAIT_TX_ACK_PHY_REQ" /\ op = "PHY_REQ"
    <2> DEFINE new == IF c.side = Central THEN rsp ELSE ind
               d == SetLocal(c, new)
    <2>1. Active(ctx) /\ Loose(ctx)
      BY <1>1, <1>5 DEF Legal, Stands, Active, Loose, WithInstant, ACK
    <2>2. new \in Ctx /\ new.proc = ctx.proc /\ Loose(new) /\ Stands(new) /\ Active(new)
          /\ new.state = (IF c.side = Central THEN "WAIT_RX_PHY_RSP" ELSE "WAIT_RX_PHY_UPDATE_IND")
      BY <1>1, <1>3, <1>5, <2>1 DEF Legal, Stands, Active, Loose, WithInstant, ACK
    <2> HIDE DEF new
    <2>3. Beside(c, d) /\ Local(d) = new /\ Rested(d)
      BY <1>1, <1>5, <2>2, SetLocalParts
    <2> HIDE DEF d
    <2>4. Legal(d)
      BY <1>1, <2>1, <2>2, <2>3 DEF Legal, CentralLegal, PeripheralLegal, Beside, Central, Peripheral, ACK
    <2> HIDE DEF ctx
    <2>5. Moves(c, d) /\ d.out = c.out /\ d.acked = None /\ d \in Conn
      BY <2>1, <2>2, <2>3, <2>4, LooseMoves DEF Beside, ctx
    <2>6. TxAckLocal(c, op, free) = IF c.side = Central THEN d ELSE Resume(d)
      BY <1>2, <1>5 DEF d, new
    <2>7. QED BY <1>4, <2>5, <2>6
  <1>6. CASE ctx.state = "WAIT_TX_ACK_PHY_UPDATE_IND" /\ op = "PHY_UPDATE_IND"
    <2> DEFINE s == SetLocal(c, inst)
    <2>1. c.side = Central /\ NoToken(c.out) /\ Loose(c.remote) /\ ctx.proc = "PHY_UPDATE"
      BY <1>1, <1>6, CentralRules DEF Legal, PeripheralLegal, Stands, Loose, ACK
    <2>2. CASE ctx.phys # {}
      <3>1. Beside(c, s) /\ Local(s) = inst /\ Rested(s)
        BY <1>1, <1>3, <1>6, SetLocalParts
      <3> HIDE DEF s
      <3>2. Legal(s)
        <4>1. Stands(inst) /\ Active(inst) /\ Active(ctx)
          BY <1>3, <1>6, <2>1 DEF Stands, Active, WithInstant, ACK
        <4>2. QED BY <1>1, <1>3, <2>1, <3>1, <4>1 DEF Legal, CentralLegal, Beside, Central, Peripheral
      <3>3. \A m \in Nat \ {0} : Timed(Local(c), c.remote, m) => Timed(Local(s), s.remote, m)
        BY <1>3, <1>6, <2>1, <3>1 DEF Timed, PhyTimed, Beside, ACK
      <3>4. Moves(c, s) /\ s.out = c.out /\ s.acked = None /\ s \in Conn
        BY <2>1, <3>1, <3>2, <3>3, OverMoves DEF Beside, None, Central, Peripheral
      <3>5. TxAckLocal(c, op, free) = Resume(s)
        BY <1>2, <1>6, <2>2 DEF s
      <3>6. QED BY <1>4, <3>4, <3>5
    <2>3. CASE ctx.phys = {}
      <3>1. i \in Conn /\ i.side = c.side /\ i.local = c.local /\ i.remote = c.remote
            /\ i.collision = c.collision /\ i.out = c.out /\ i.acked = c.acked
        BY IncompatParts
      <3> HIDE DEF i
      <3>2. Beside(i, n) /\ Rested(n) /\ Local(n).state \in {"IDLE", "WAIT_NTF"}
        BY <1>1, <1>6, <3>1, LocalSame, NotifyLocalParts DEF n
      <3>3. Legal(n)
        BY <1>1, <3>1, <3>2, RestLegal DEF Beside
      <3>4. \A m \in Nat \ {0} : ~Timed(Local(c), c.remote, m)
        BY <1>6, <2>1, <2>3 DEF Timed, PhyTimed, Loose
      <3>5. Moves(c, n) /\ n.out = c.out /\ n.acked = None /\ n \in Conn
        BY <2>1, <3>1, <3>2, <3>3, <3>4, OverMoves DEF Beside, None, Central, Peripheral
      <3>6. TxAckLocal(c, op, free) = Resume(n)
        BY <1>2, <1>6, <2>3
      <3>7. QED BY <1>4, <3>5, <3>6
    <2>4. QED BY <2>2, <2>3
  <1>7. CASE ctx.state = "WAIT_TX_ACK" /\ op = "TERMINATE_IND"
    <2>1. TxAckLocal(c, op, free) = Reason(LocalDone(c), "LOCALHOST_TERM_CONN")
      BY <1>2, <1>7
    <2>2. LocalDone(c) \in Conn
      BY <1>1, <1>7, LocalDoneRests DEF Beside
    <2>3. QED BY <2>1, <2>2, ReasonEnds, ReasonsGiven
  <1>8. CASE /\ ~(ctx.state = "WAIT_TX_ACK_PHY_REQ" /\ op = "PHY_REQ")
             /\ ~(ctx.state = "WAIT_TX_ACK_PHY_UPDATE_IND" /\ op = "PHY_UPDATE_IND")
             /\ ~(ctx.state = "WAIT_TX_ACK" /\ op = "TERMINATE_IND")
    BY <1>2, <1>8, MovesSelf
  <1>9. QED BY <1>5, <1>6, <1>7, <1>8

\* The remote procedure's, in the same way.
LEMMA TxAckRemoteMoves ==
  ASSUME NEW c \in Conn, Lined(c), c.acked = None, NEW op,
         c.side = Central /\ op = "PHY_UPDATE_IND" => NoToken(c.out)
  PROVE  Moves(c, TxAckRemote(c, op))
  <1> DEFINE ctx == c.remote
             ind == [ctx EXCEPT !.state = "WAIT_RX_PHY_UPDATE_IND"]
             inst == [ctx EXCEPT !.state = "WAIT_INSTANT"]
  <1>1. ctx \in Ctx /\ Legal(c) /\ c.side \in {Central, Peripheral}
    BY Fields DEF Lined, Side
  <1>2. TxAckRemote(c, op) =
          CASE ctx.state = "WAIT_TX_ACK_PHY_RSP" /\ op = "PHY_RSP" -> Resume(SetRemote(c, ind))
            [] ctx.state = "WAIT_TX_ACK_PHY_UPDATE_IND" /\ op = "PHY_UPDATE_IND" ->
                 Resume(IF ctx.phys # {} THEN SetRemote(c, inst) ELSE RemoteDone(c))
            [] OTHER -> c
    BY Zenon DEF TxAckRemote, AckedUpdateInd, ind, inst
  <1>3. /\ ind \in Ctx /\ ind.proc = ctx.proc /\ ind.state = "WAIT_RX_PHY_UPDATE_IND"
        /\ inst \in Ctx /\ inst.proc = ctx.proc /\ inst.state = "WAIT_INSTANT"
        /\ inst.phys = ctx.phys /\ inst.left = ctx.left
    BY <1>1 DEF Ctx
  <1> HIDE DEF ind, inst
  <1>4. ASSUME NEW b \in Conn, Moves(c, b)
        PROVE  Moves(c, Resume(b))
    <2>1. Moves(b, Resume(b))
      BY <1>4, SameFields, SameMoves DEF Moves
    <2>2. QED BY <1>4, <2>1, MovesTwice
  <1>5. CASE ctx.state = "WAIT_TX_ACK_PHY_RSP" /\ op = "PHY_RSP"
    <2> DEFINE d == SetRemote(c, ind)
    <2>1. Across(c, d) /\ d.remote = ind /\ d.collision = c.collision
      BY <1>3, OneField
    <2> HIDE DEF d
    <2>2. c.side # Central /\ Loose(ctx) /\ Loose(ind) /\ Stands(ind)
      BY <1>1, <1>3, <1>5 DEF Legal, CentralLegal, Stands, Loose, ACK
    <2>3. Moves(c, d) /\ d \in Conn
      BY <1>3, <2>1, <2>2, RemoteLooseMoves DEF Across
    <2>4. QED BY <1>2, <1>4, <1>5, <2>3 DEF d
  <1>6. CASE ctx.state = "WAIT_TX_ACK_PHY_UPDATE_IND" /\ op = "PHY_UPDATE_IND"
    <2> DEFINE new == IF ctx.phys # {} THEN inst ELSE NoCtx
               d == IF ctx.phys # {} THEN SetRemote(c, inst) ELSE RemoteDone(c)
    <2>1. c.side = Central /\ NoToken(c.out) /\ Loose(Local(c)) /\ ctx.proc = "PHY_UPDATE"
          /\ c.collision /\ ~Active(Local(c))
      BY <1>1, <1>6, CentralRules
         DEF Legal, PeripheralLegal, CentralLegal, Stands, Loose, WithInstant, ACK
    <2>2. Across(c, d) /\ d.remote = new /\ (ctx.phys # {} => d.collision = c.collision)
      BY <1>3, OneField
    <2> HIDE DEF d
    <2>3. new.state \in {"WAIT_INSTANT", "IDLE"} /\ Stands(new) /\ new.proc # "CHAN_MAP_UPDATE"
          /\ (WithInstant(new.proc) => ctx.phys # {})
      BY <1>3, <2>1, NoCtxStands DEF Stands, WithInstant, ACK, None
    <2>4. ctx.phys # {} => new = inst
      OBVIOUS
    <2> HIDE DEF new
    <2>5. Legal(d)
      BY <1>1, <2>1, <2>2, <2>3, RemoteLegal DEF Across, Central, Peripheral
    <2>6. Local(d) = Local(c)
      BY <2>2 DEF Across, Local
    <2>7. \A m \in Nat \ {0} : Timed(Local(c), c.remote, m) => Timed(Local(d), d.remote, m)
      BY <1>3, <2>1, <2>2, <2>4, <2>6 DEF Timed, PhyTimed, Loose
    <2>8. Moves(c, d) /\ d \in Conn
      BY <2>1, <2>2, <2>5, <2>7, OverMoves DEF Across, None, Central, Peripheral
    <2>9. QED BY <1>2, <1>4, <1>6, <2>8 DEF d
  <1>7. CASE /\ ~(ctx.state = "WAIT_TX_ACK_PHY_RSP" /\ op = "PHY_RSP")
             /\ ~(ctx.state = "WAIT_TX_ACK_PHY_UPDATE_IND" /\ op = "PHY_UPDATE_IND")
    BY <1>2, <1>7, MovesSelf
  <1>8. QED BY <1>5, <1>6, <1>7

\* ull_cp_tx_ack moves nothing.
LEMMA TxAckMoves ==
  ASSUME NEW c, Steady(c), Lined(c), NEW free \in BOOLEAN
  PROVE  Sure(c, TxAck(c, free))
  <1> DEFINE op == c.acked
             a == [c EXCEPT !.acked = None]
             b == TxAckLocal(a, op, free)
             d == TxAckRemote(b, op)
  <1>1. c \in Conn /\ Legal(c)
    BY DEF Steady, Lined
  <1>2. a \in Conn /\ a.side = c.side /\ a.reason = c.reason /\ a.local = c.local /\ a.remote = c.remote
        /\ a.incompat = c.incompat /\ a.collision = c.collision /\ a.out = c.out /\ a.acked = None
    BY <1>1, AckedParts
  <1>3. Steady(a)
    <2>1. Alike(c, a) /\ a \in Conn
      BY <1>1, OtherFields
    <2> HIDE DEF a
    <2>2. QED BY <2>1, AlikeFine DEF Fine, Goes
  <1>4. TxAck(c, free) = d
    BY DEF TxAck
  <1>5. c.side = Central /\ op = "PHY_UPDATE_IND" => NoToken(c.out)
    BY DEF Lined, Wired
  <1> HIDE DEF a, op
  <1>6. Moves(c, a)
    <2>1. Local(a) = Local(c) /\ Rested(a)
      BY <1>1, <1>2, LocalSame DEF Legal
    <2>2. Legal(a)
      BY <1>1, <1>2, <2>1 DEF Legal
    <2>3. QED BY <1>1, <1>2, <2>1, <2>2, LooseMoves
  <1>7. Ends(b) \/ (Moves(a, b) /\ b.out = a.out /\ b.acked = None)
    BY <1>2, <1>5, <1>6, TxAckLocalMoves DEF Moves
  <1>8. Goes(a, b)
    BY <1>3, TxAckLocalFine DEF Fine
  <1> HIDE DEF b
  <1>9. Goes(b, d)
    BY <1>8, TxAckRemoteFine DEF Fine, Goes
  <1>10. CASE Ends(b)
    BY <1>4, <1>9, <1>10 DEF Goes, Sure
  <1>11. CASE ~Ends(b)
    <2>1. Moves(c, b) /\ b \in Conn /\ Lined(b) /\ b.acked = None /\ b.out = c.out /\ b.side = c.side
      BY <1>2, <1>6, <1>7, <1>8, <1>11, MovesTwice DEF Goes, Steady, Moves
    <2>2. Moves(b, d)
      BY <1>5, <2>1, TxAckRemoteMoves
    <2>3. QED BY <1>4, <2>1, <2>2, MovesTwice DEF Sure
  <1>12. QED BY <1>10, <1>11

-----------------------------------------------------------------------------
(* A received PDU. *)

\* The peripheral takes an indication: one of its procedures waits for its instant.
Takes(c, d, pdu) ==
  /\ c.side = Peripheral /\ d.side = c.side /\ Lined(d)
  /\ Token(pdu) /\ pdu.left # 0 /\ (pdu.op = "PHY_UPDATE_IND" => pdu.phys # {})
  /\ \/ Local(d).state = "WAIT_INSTANT" /\ Local(d).left = pdu.left /\ Slot(c.remote, d.remote)
     \/ d.remote.state = "WAIT_INSTANT" /\ d.remote.left = pdu.left /\ Slot(Local(c), Local(d))
Hears(c, d, pdu) == Ends(d) \/ Moves(c, d) \/ Takes(c, d, pdu)

\* A step before a PDU is heard.
LEMMA MovesHears ==
  ASSUME NEW c, NEW d, NEW e, NEW pdu, Moves(c, d), Hears(d, e, pdu)
  PROVE  Hears(c, e, pdu)
  <1>1. Moves(d, e) => Moves(c, e)
    BY MovesTwice
  <1>2. Takes(d, e, pdu) => Takes(c, e, pdu)
    BY DEF Takes, Moves, Quiet, Slot
  <1>3. QED BY <1>1, <1>2 DEF Hears

\* Queuing a PDU that is no indication moves nothing.
LEMMA TxMoves ==
  ASSUME NEW c \in Conn, Lined(c), NEW pdu \in PduType, ~Token(pdu)
  PROVE  Moves(c, Tx(c, pdu)) /\ Tx(c, pdu) \in Conn
  <1> DEFINE d == Tx(c, pdu)
  <1>1. d \in Conn /\ d.side = c.side /\ d.reason = c.reason /\ d.local = c.local
        /\ d.remote = c.remote /\ d.incompat = c.incompat /\ d.collision = c.collision
        /\ d.out = Append(c.out, pdu) /\ d.acked = c.acked
    BY TxParts
  <1> HIDE DEF d
  <1>2. Local(d) = Local(c) /\ Legal(c) /\ Rested(d)
    BY <1>1, LocalSame DEF Lined, Legal
  <1>3. Legal(d)
    BY <1>1, <1>2 DEF Legal
  <1>4. Moves(c, d)
    BY <1>1, <1>2, <1>3, LooseMoves
  <1>5. QED BY <1>1, <1>4 DEF d

\* A local PHY update ends before it has an instant.
LEMMA EndLocalPhyMoves ==
  ASSUME NEW c \in Conn, Lined(c), c.local # <<>>, Loose(Local(c)), NEW free \in BOOLEAN
  PROVE  Moves(c, EndLocalPhy(c, free)) /\ EndLocalPhy(c, free) \in Conn
  <1> DEFINE i == Incompat(c, "NO_COLLISION")
             n == NotifyLocal(i, free)
  <1>1. i \in Conn /\ i.side = c.side /\ i.local = c.local /\ i.remote = c.remote
        /\ i.collision = c.collision /\ i.out = c.out /\ i.acked = c.acked
    BY IncompatParts
  <1>2. EndLocalPhy(c, free) = IF c.side = Peripheral THEN Resume(n) ELSE n
    BY DEF EndLocalPhy
  <1> HIDE DEF i
  <1>3. Legal(c)
    BY DEF Lined
  <1>4. Beside(i, n) /\ Rested(n) /\ Local(n).state \in {"IDLE", "WAIT_NTF"}
    BY <1>1, <1>3, LocalSame, NotifyLocalParts DEF Legal
  <1> HIDE DEF n
  <1>5. Legal(n)
    BY <1>1, <1>3, <1>4, RestLegal DEF Beside
  <1>6. Loose(Local(n))
    BY <1>4 DEF Loose, ACK
  <1>7. Moves(c, n) /\ n \in Conn
    BY <1>1, <1>4, <1>5, <1>6, LooseMoves DEF Beside
  <1>8. Moves(n, Resume(n)) /\ Resume(n) \in Conn
    <2>1. Lined(n) /\ Same(n, Resume(n))
      BY <1>7, SameFields DEF Moves
    <2>2. Resume(n) \in Conn
      BY <2>1 DEF Same, Beside
    <2>3. QED BY <2>1, <2>2, SameMoves
  <1>9. QED BY <1>2, <1>7, <1>8, MovesTwice

\* llcp_lp_pu_rx: the central announces the instant it has chosen, the peripheral
\* takes the one it is told.
LEMMA RxLocalPhyHears ==
  ASSUME NEW c \in Conn, Lined(c), Local(c).proc = "PHY_UPDATE", NEW pdu \in PduType,
         NEW free \in BOOLEAN
  PROVE  Hears(c, RxLocalPhy(c, pdu, free), pdu)
  <1> DEFINE ctx == Local(c)
             phys == Chosen(c, ctx.phys \intersect pdu.phys)
             sent == [ctx EXCEPT !.state = "WAIT_TX_ACK_PHY_UPDATE_IND", !.phys = phys,
                                 !.left = InstantDelta + 1, !.rx_opcode = None,
                                 !.tx_opcode = "PHY_UPDATE_IND"]
             ind == Pdu("PHY_UPDATE_IND", phys, None, InstantDelta + 1)
             inst == [ctx EXCEPT !.state = "WAIT_INSTANT", !.phys = pdu.phys, !.left = pdu.left]
             i == Incompat(c, "RESERVED")
             b == SetLocal(i, sent)
             d == Tx(b, ind)
             e == EndLocalPhy(c, free)
  <1>1. ctx \in Ctx /\ c.local # <<>> /\ ctx.proc = "PHY_UPDATE" /\ c.side \in {Central, Peripheral}
        /\ Legal(c) /\ Rested(c)
    BY LocalTyped, Fields DEF None, Lined, Legal, Side
  <1>2. phys \in SUBSET Phy
    BY <1>1, CtxFields DEF Chosen
  <1> HIDE DEF phys
  <1>3. sent \in Ctx /\ sent.proc = "PHY_UPDATE" /\ sent.state = ACK /\ sent.phys = phys
        /\ sent.left = InstantDelta + 1
    BY <1>1, <1>2, Delta DEF Ctx, Opcode, ACK
  <1>4. inst \in Ctx /\ inst.proc = "PHY_UPDATE" /\ inst.state = "WAIT_INSTANT" /\ inst.left = pdu.left
    BY <1>1, PduFields DEF Ctx
  <1>5. ind \in PduType /\ ind.op = "PHY_UPDATE_IND" /\ ind.phys = phys /\ ind.left = InstantDelta + 1
    <2>1. "PHY_UPDATE_IND" \in Opcode
      BY DEF Opcode
    <2>2. ind \in PduType
      BY <1>2, <2>1, PduTyped, Delta
    <2>3. QED BY <2>2 DEF Pdu
  <1>6. RxLocalPhy(c, pdu, free) =
          CASE pdu.op = "PHY_RSP" -> IF ctx.state # "WAIT_RX_PHY_RSP" THEN c ELSE Pause(d)
            [] pdu.op = "PHY_UPDATE_IND" ->
                 IF ctx.state # "WAIT_RX_PHY_UPDATE_IND" THEN c
                 ELSE IF pdu.phys = {} THEN e
                 ELSE IF RxInstantPassed(pdu) THEN Reason(e, "INSTANT_PASSED")
                 ELSE Resume(SetLocal(c, inst))
            [] pdu.op = "UNKNOWN_RSP" ->
                 IF ctx.state \in {"WAIT_RX_PHY_RSP", "WAIT_RX_PHY_UPDATE_IND"} THEN e ELSE c
            [] pdu.op = "REJECT_EXT_IND" -> IF ctx.state = "WAIT_RX_PHY_UPDATE_IND" THEN e ELSE c
            [] OTHER -> NotAllowedLocal(c)
    BY Zenon DEF RxLocalPhy, phys, sent, ind, inst
  <1> HIDE DEF sent, inst, ind
  <1>7. ctx.state = "WAIT_RX_PHY_RSP" => Moves(c, Pause(d))
    <2>1. SUFFICES ASSUME ctx.state = "WAIT_RX_PHY_RSP" PROVE Moves(c, Pause(d))
      OBVIOUS
    <2>2. c.side = Central /\ Active(ctx) /\ Loose(ctx)
      BY <1>1, <2>1 DEF Legal, PeripheralLegal, Active, Loose, WithInstant, ACK
    <2>3. ~WithInstant(c.remote.proc) /\ Loose(c.remote)
      BY <1>1, <2>2 DEF Legal, CentralLegal, Stands, Loose, WithInstant, ACK
    <2>4. i \in Conn /\ i.side = c.side /\ i.local = c.local /\ i.remote = c.remote
          /\ i.incompat = "RESERVED" /\ i.collision = c.collision /\ i.out = c.out /\ i.acked = c.acked
      BY IncompatParts
    <2> HIDE DEF i
    <2>5. Local(i) = ctx /\ Rested(i)
      BY <1>1, <2>4, LocalSame
    <2>6. Beside(i, b) /\ Local(b) = sent /\ Rested(b)
      BY <1>1, <1>3, <2>4, <2>5, SetLocalParts
    <2> HIDE DEF b
    <2>7. d \in Conn /\ d.side = b.side /\ d.local = b.local /\ d.remote = b.remote
          /\ d.incompat = b.incompat /\ d.collision = b.collision /\ d.out = Append(b.out, ind)
          /\ d.acked = b.acked
      BY <1>5, <2>6, TxParts DEF Beside
    <2> HIDE DEF d
    <2>8. Local(d) = sent /\ Rested(d)
      BY <2>6, <2>7, LocalSame
    <2>9. d.side = Central /\ d.remote = c.remote /\ d.incompat = "RESERVED"
          /\ d.collision = c.collision /\ d.out = Append(c.out, ind) /\ d.acked = c.acked
      BY <2>2, <2>4, <2>6, <2>7 DEF Beside
    <2>10. Stands(sent)
      BY <1>3 DEF Stands, ACK
    <2>11. Legal(d)
      BY <1>1, <1>3, <2>2, <2>3, <2>8, <2>9, <2>10 DEF Legal, CentralLegal, Central, Peripheral, ACK
    <2>12. Announced(Local(d), d.remote, ind)
      BY <1>3, <1>5, <2>8 DEF Announced
    <2>13. Moves(c, d)
      BY <1>5, <2>2, <2>3, <2>9, <2>11, <2>12, SendMoves
    <2>14. Moves(d, Pause(d))
      BY <2>7, <2>13, SameFields, SameMoves DEF Moves
    <2>15. QED BY <2>13, <2>14, MovesTwice
  <1> HIDE DEF d
  <1>8. ctx.state \in {"WAIT_RX_PHY_RSP", "WAIT_RX_PHY_UPDATE_IND"} => Moves(c, e) /\ e \in Conn
    BY <1>1, EndLocalPhyMoves DEF Loose, ACK
  <1> HIDE DEF e
  <1>9. e \in Conn => Ends(Reason(e, "INSTANT_PASSED"))
    BY ReasonEnds, ReasonsGiven
  <1>10. ctx.state = "WAIT_RX_PHY_UPDATE_IND" /\ pdu.op = "PHY_UPDATE_IND" /\ pdu.phys # {}
           /\ ~RxInstantPassed(pdu) => Takes(c, Resume(SetLocal(c, inst)), pdu)
    <2>1. SUFFICES ASSUME ctx.state = "WAIT_RX_PHY_UPDATE_IND", pdu.op = "PHY_UPDATE_IND",
                          pdu.phys # {}, ~RxInstantPassed(pdu)
                   PROVE  Takes(c, Resume(SetLocal(c, inst)), pdu)
      OBVIOUS
    <2> DEFINE s == SetLocal(c, inst)
               r == Resume(s)
    <2>2. Beside(c, s) /\ Local(s) = inst /\ Rested(s)
      BY <1>1, <1>4, SetLocalParts
    <2> HIDE DEF s
    <2>3. Same(s, r)
      BY <2>2, SameFields DEF Beside
    <2> HIDE DEF r
    <2>4. Local(r) = inst /\ Rested(r) /\ r.side = c.side /\ r.remote = c.remote
      BY <2>2, <2>3, LocalSame DEF Same, Beside
    <2>5. c.side = Peripheral
      BY <1>1, <2>1 DEF Legal, CentralLegal
    <2>6. Lined(r)
      <3>1. Stands(inst) /\ inst.state \notin {"WAIT_RX_PHY_RSP", ACK}
        BY <1>4 DEF Stands, WithInstant, ACK
      <3>2. QED BY <1>1, <2>4, <2>5, <3>1 DEF Lined, Legal, PeripheralLegal, Central, Peripheral
    <2>7. pdu.left # 0
      BY <2>1 DEF RxInstantPassed
    <2>8. Takes(c, r, pdu)
      BY <1>4, <2>1, <2>4, <2>5, <2>6, <2>7 DEF Takes, Token, Slot
    <2>9. QED BY <2>8 DEF r, s
  <1>11. Ends(NotAllowedLocal(c))
    <2>1. LocalDone(c) \in Conn
      BY <1>1, LocalDoneRests DEF Beside
    <2>2. QED BY <2>1, ReasonEnds, ReasonsGiven DEF NotAllowedLocal
  <1>12. Moves(c, c)
    BY MovesSelf
  <1> HIDE DEF ctx
  <1>13. QED BY <1>6, <1>7, <1>8, <1>9, <1>10, <1>11, <1>12 DEF Hears

\* The answer to a feature request moves nothing.
LEMMA RxFeatureRspMoves ==
  ASSUME NEW c \in Conn, Lined(c), Local(c).state = "WAIT_RX", NEW pdu \in PduType, NEW free \in BOOLEAN
  PROVE  Sure(c, RxFeatureRsp(c, pdu, free))
  <1> DEFINE x == c.fex \/ pdu.op = "FEATURE_RSP"
             a == [c EXCEPT !.fex = x]
  <1>1. c.local # <<>> /\ Rested(c)
    BY LocalTyped DEF Lined, Legal
  <1>2. x \in BOOLEAN
    BY Fields
  <1>3. RxFeatureRsp(c, pdu, free) \in {NotifyLocal(a, free), NotAllowedLocal(c)}
    BY DEF RxFeatureRsp
  <1> HIDE DEF x
  <1>4. Same(c, a)
    BY <1>2, SameFields
  <1> HIDE DEF a
  <1>5. Moves(c, a) /\ a \in Conn /\ a.local = c.local /\ Local(a) = Local(c) /\ Lined(a)
    BY <1>4, SameMoves, LocalSame DEF Same, Beside, Moves
  <1>6. Moves(a, NotifyLocal(a, free))
    BY <1>1, <1>5, NotifyLocalMoves DEF Loose, ACK
  <1>7. Ends(NotAllowedLocal(c))
    <2>1. LocalDone(c) \in Conn
      BY <1>1, LocalDoneRests DEF Beside
    <2>2. QED BY <2>1, ReasonEnds, ReasonsGiven DEF NotAllowedLocal
  <1>8. QED BY <1>3, <1>5, <1>6, <1>7, MovesTwice DEF Sure

\* A PDU for the local procedure.
LEMMA RxLocalHears ==
  ASSUME NEW c \in Conn, Lined(c), NEW pdu \in PduType, NEW free \in BOOLEAN
  PROVE  Hears(c, RxLocal(c, pdu, free), pdu)
  <1>1. Local(c).proc = "PHY_UPDATE" => Hears(c, RxLocalPhy(c, pdu, free), pdu)
    BY RxLocalPhyHears
  <1>2. Local(c).state = "WAIT_RX" => Sure(c, RxFeatureRsp(c, pdu, free))
    BY RxFeatureRspMoves
  <1>3. Local(c).proc = "CHAN_MAP_UPDATE" => Ends(NotAllowedLocal(c))
    <2>1. SUFFICES ASSUME Local(c).proc = "CHAN_MAP_UPDATE" PROVE Ends(NotAllowedLocal(c))
      OBVIOUS
    <2>2. c.local # <<>> /\ Rested(c)
      BY <2>1, LocalTyped DEF Lined, Legal, None
    <2>3. LocalDone(c) \in Conn
      BY <2>2, LocalDoneRests DEF Beside
    <2>4. QED BY <2>3, ReasonEnds, ReasonsGiven DEF NotAllowedLocal
  <1>4. Moves(c, c)
    BY MovesSelf
  <1>5. QED BY <1>1, <1>2, <1>3, <1>4 DEF RxLocal, Hears, Sure

\* The peer's procedure of the peripheral takes the indication it waits for.
LEMMA RemoteTakes ==
  ASSUME NEW c \in Conn, Lined(c), c.side = Peripheral, NEW inst \in Ctx, WithInstant(inst.proc),
         inst.state = "WAIT_INSTANT", NEW pdu, inst.left = pdu.left, pdu.left # 0, Token(pdu),
         pdu.op = "PHY_UPDATE_IND" => pdu.phys # {}
  PROVE  Takes(c, SetRemote(c, inst), pdu)
  <1> DEFINE d == SetRemote(c, inst)
  <1>1. Across(c, d) /\ d.remote = inst
    BY OneField
  <1> HIDE DEF d
  <1>2. Local(d) = Local(c) /\ Stands(inst)
    BY <1>1, LocalSame DEF Across, Stands, ACK
  <1>3. Legal(d)
    BY <1>1, <1>2, RemoteLegal DEF Lined, Across, Central, Peripheral, ACK
  <1>4. Takes(c, d, pdu)
    BY <1>1, <1>2, <1>3 DEF Takes, Lined, Across, Slot, Central, Peripheral
  <1>5. QED BY <1>4 DEF d

\* An end of the peer's procedure with a reason is the side's; without one it
\* moves nothing, if the procedure waits for no instant.
LEMMA RemoteDoneMoves ==
  ASSUME NEW c \in Conn, Lined(c)
  PROVE  /\ Loose(c.remote) => Moves(c, RemoteDone(c))
         /\ RemoteDone(c) \in Conn /\ RemoteDone(c).remote = NoCtx
         /\ \A r \in {"LMP_PDU_NOT_ALLOWED", "INSTANT_PASSED", "REMOTE_USER_TERM_CONN"} :
              Ends(Reason(RemoteDone(c), r))
  <1> DEFINE d == RemoteDone(c)
  <1>1. Across(c, d) /\ d.remote = NoCtx
    BY OneField
  <1> HIDE DEF d
  <1>2. Loose(c.remote) => Moves(c, d)
    BY <1>1, NoCtxStands, RemoteLooseMoves
  <1>3. d \in Conn
    BY <1>1 DEF Across
  <1>4. QED BY <1>1, <1>2, <1>3, ReasonEnds, ReasonsGiven DEF d

\* llcp_rp_pu_rx: the central announces the instant it chooses, the peripheral
\* answers, and takes the instant it is told.
LEMMA RxRemotePhyHears ==
  ASSUME NEW c \in Conn, Lined(c), c.remote.proc = "PHY_UPDATE", NEW pdu \in PduType
  PROVE  Hears(c, RxRemotePhy(c, pdu), pdu)
  <1> DEFINE ctx == c.remote
             req == [ctx EXCEPT !.phys = pdu.phys \intersect c.pref]
             b == SetRemote(c, req)
             d == Pause(b)
             new == [d.remote EXCEPT !.state = "WAIT_TX_ACK_PHY_RSP", !.tx_opcode = "PHY_RSP",
                                     !.rx_opcode = "PHY_UPDATE_IND"]
             n == SetRemote(d, new)
             rsp == Pdu("PHY_RSP", c.pref, None, 0)
             inst == [ctx EXCEPT !.state = "WAIT_INSTANT", !.phys = pdu.phys, !.left = pdu.left]
  <1>1. ctx \in Ctx /\ c.pref \in SUBSET Phy /\ ctx.proc = "PHY_UPDATE" /\ c.side \in {Central, Peripheral}
        /\ Legal(c)
    BY Fields DEF Lined, Side
  <1>2. req \in Ctx /\ req.proc = ctx.proc /\ req.state = ctx.state
        /\ inst \in Ctx /\ inst.proc = ctx.proc /\ inst.state = "WAIT_INSTANT" /\ inst.left = pdu.left
    BY <1>1, PduFields DEF Ctx
  <1>3. rsp \in PduType /\ rsp.op = "PHY_RSP"
    <2>1. "PHY_RSP" \in Opcode
      BY DEF Opcode
    <2>2. rsp \in PduType
      BY <1>1, <2>1, PduTyped, Delta
    <2>3. QED BY <2>2 DEF Pdu
  <1>4. RxRemotePhy(c, pdu) =
          CASE pdu.op = "PHY_REQ" /\ ctx.state = "WAIT_RX_PHY_REQ" ->
                 IF c.side = Central THEN SendUpdateInd(d, InstantDelta + 1) ELSE Tx(n, rsp)
            [] pdu.op = "PHY_UPDATE_IND" /\ ctx.state = "WAIT_RX_PHY_UPDATE_IND" ->
                 IF pdu.phys = {} THEN RemoteDone(c)
                 ELSE IF RxInstantPassed(pdu) THEN Reason(RemoteDone(c), "INSTANT_PASSED")
                 ELSE SetRemote(c, inst)
            [] pdu.op \in {"PHY_REQ", "PHY_UPDATE_IND"} -> c
            [] OTHER -> NotAllowedRemote(c)
    BY Zenon DEF RxRemotePhy, d, req, new, rsp, inst
  <1> HIDE DEF req, inst, rsp
  <1>5. ctx.state = "WAIT_RX_PHY_REQ" =>
          IF c.side = Central THEN Moves(c, SendUpdateInd(d, InstantDelta + 1)) ELSE Moves(c, Tx(n, rsp))
    <2>1. SUFFICES ASSUME ctx.state = "WAIT_RX_PHY_REQ"
                   PROVE  IF c.side = Central THEN Moves(c, SendUpdateInd(d, InstantDelta + 1))
                                              ELSE Moves(c, Tx(n, rsp))
      OBVIOUS
    <2>2. Across(c, b) /\ b.remote = req /\ b.collision = c.collision
      BY <1>2, OneField
    <2> HIDE DEF b
    <2>3. Loose(ctx) /\ Loose(req) /\ Stands(req)
      BY <1>1, <1>2, <2>1 DEF Loose, Stands, ACK
    <2>4. Moves(c, b) /\ b \in Conn /\ b.side = c.side
      BY <1>2, <2>1, <2>2, <2>3, RemoteLooseMoves DEF Across
    <2>5. Same(b, d)
      BY <2>4, SameFields
    <2> HIDE DEF d
    <2>6. Moves(b, d) /\ d \in Conn /\ d.remote = req /\ d.side = c.side
      BY <2>2, <2>4, <2>5, SameMoves DEF Moves, Same, Beside
    <2>7. Moves(c, d) /\ Lined(d)
      BY <2>4, <2>6, MovesTwice DEF Moves
    <2>8. CASE c.side = Central
      <3>1. Moves(d, SendUpdateInd(d, InstantDelta + 1))
        BY <1>1, <1>2, <2>3, <2>6, <2>7, <2>8, Delta, SendUpdateIndMoves
      <3>2. QED BY <2>7, <2>8, <3>1, MovesTwice
    <2>9. CASE c.side = Peripheral
      <3>1. new \in Ctx /\ new.proc = "PHY_UPDATE" /\ new.state = "WAIT_TX_ACK_PHY_RSP"
        <4>1. req \in Ctx /\ req.proc = "PHY_UPDATE" /\ d.remote = req
          BY <1>1, <1>2, <2>6
        <4>2. ASSUME NEW x \in Ctx
              PROVE  LET y == [x EXCEPT !.state = "WAIT_TX_ACK_PHY_RSP", !.tx_opcode = "PHY_RSP",
                                        !.rx_opcode = "PHY_UPDATE_IND"]
                     IN  y \in Ctx /\ y.proc = x.proc /\ y.state = "WAIT_TX_ACK_PHY_RSP"
          BY DEF Ctx, Opcode
        <4>3. QED BY <4>1, <4>2
      <3> HIDE DEF new
      <3>2. Across(d, n) /\ n.remote = new /\ n.collision = d.collision
        BY <2>6, <3>1, OneField
      <3> HIDE DEF n
      <3>3. Loose(new) /\ Stands(new)
        BY <3>1 DEF Loose, Stands, ACK
      <3>4. d.remote.proc = new.proc
        BY <1>1, <1>2, <2>6, <3>1
      <3>5. Moves(d, n) /\ n \in Conn
        BY <2>3, <2>6, <2>7, <2>9, <3>1, <3>2, <3>3, <3>4, RemoteLooseMoves DEF Across, Central, Peripheral
      <3>6. Moves(n, Tx(n, rsp))
        BY <1>3, <3>5, TxMoves DEF Moves, Token
      <3>7. QED BY <2>7, <2>9, <3>5, <3>6, MovesTwice DEF Central, Peripheral
    <2>10. QED BY <1>1, <2>8, <2>9
  <1> HIDE DEF d, n
  <1>6. ctx.state = "WAIT_RX_PHY_UPDATE_IND" =>
          c.side = Peripheral /\ Moves(c, RemoteDone(c))
    BY <1>1, RemoteDoneMoves DEF Legal, CentralLegal, Loose, ACK
  <1>7. ctx.state = "WAIT_RX_PHY_UPDATE_IND" /\ pdu.op = "PHY_UPDATE_IND" /\ pdu.phys # {}
          /\ ~RxInstantPassed(pdu) => Takes(c, SetRemote(c, inst), pdu)
    <2>1. SUFFICES ASSUME ctx.state = "WAIT_RX_PHY_UPDATE_IND", pdu.op = "PHY_UPDATE_IND",
                          pdu.phys # {}, ~RxInstantPassed(pdu)
                   PROVE  Takes(c, SetRemote(c, inst), pdu)
      OBVIOUS
    <2>2. pdu.left # 0 /\ Token(pdu) /\ c.side = Peripheral
      BY <1>6, <2>1 DEF RxInstantPassed, Token
    <2>3. WithInstant(inst.proc)
      BY <1>1, <1>2 DEF WithInstant
    <2>4. QED BY <1>2, <2>1, <2>2, <2>3, RemoteTakes
  <1>8. Ends(NotAllowedRemote(c)) /\ Ends(Reason(RemoteDone(c), "INSTANT_PASSED")) /\ Moves(c, c)
    BY RemoteDoneMoves, MovesSelf DEF NotAllowedRemote
  <1> HIDE DEF ctx
  <1>9. QED BY <1>4, <1>5, <1>6, <1>7, <1>8 DEF Hears

\* llcp_rp_chmu_rx.
LEMMA RxChanMapIndHears ==
  ASSUME NEW c \in Conn, Lined(c), c.remote.proc = "CHAN_MAP_UPDATE", NEW pdu \in PduType
  PROVE  Hears(c, RxChanMapInd(c, pdu), pdu)
  <1> DEFINE inst == [c.remote EXCEPT !.state = "WAIT_INSTANT", !.left = pdu.left]
  <1>1. inst \in Ctx /\ inst.proc = "CHAN_MAP_UPDATE" /\ inst.state = "WAIT_INSTANT" /\ inst.left = pdu.left
    <2>1. c.remote \in Ctx
      BY Fields
    <2>2. QED BY <2>1, PduFields DEF Ctx
  <1>2. RxChanMapInd(c, pdu) \in {c, NotAllowedRemote(c), Reason(RemoteDone(c), "INSTANT_PASSED")}
        \/ (RxChanMapInd(c, pdu) = SetRemote(c, inst) /\ pdu.op = "CHAN_MAP_IND" /\ pdu.left # 0)
    BY DEF RxChanMapInd, inst
  <1> HIDE DEF inst
  <1>3. c.side = Peripheral
    <2>1. c.side \in {Central, Peripheral}
      BY Fields DEF Side
    <2>2. QED BY <2>1 DEF Lined, Legal, CentralLegal
  <1>4. pdu.op = "CHAN_MAP_IND" /\ pdu.left # 0 => Takes(c, SetRemote(c, inst), pdu)
    <2>1. SUFFICES ASSUME pdu.op = "CHAN_MAP_IND", pdu.left # 0 PROVE Takes(c, SetRemote(c, inst), pdu)
      OBVIOUS
    <2>2. pdu.left \in 0 .. InstantDelta + 1
      BY PduFields
    <2>3. Token(pdu)
      BY <2>1, <2>2, Delta DEF Token
    <2>4. WithInstant(inst.proc)
      BY <1>1 DEF WithInstant
    <2>5. QED BY <1>1, <1>3, <2>1, <2>3, <2>4, RemoteTakes
  <1>5. Ends(NotAllowedRemote(c)) /\ Ends(Reason(RemoteDone(c), "INSTANT_PASSED")) /\ Moves(c, c)
    BY RemoteDoneMoves, MovesSelf DEF NotAllowedRemote
  <1>6. QED BY <1>2, <1>4, <1>5 DEF Hears

\* rp_comm_send_rsp: neither procedure has an instant.
LEMMA SendCommonRspMoves ==
  ASSUME NEW c \in Conn, Lined(c), c.remote.state = "WAIT_RX"
  PROVE  Sure(c, SendCommonRsp(c, c.remote))
  <1> DEFINE f == [c EXCEPT !.fex = TRUE]
             g == Tx(f, Plain("FEATURE_RSP"))
             d == [c EXCEPT !.paused = @ \union {"TERMINATE"}]
             new == [c.remote EXCEPT !.state = "POSTPONE_TERMINATE"]
  <1>1. SendCommonRsp(c, c.remote) \in
          {RemoteDone(g), SetRemote(d, new), Reason(RemoteDone(d), "REMOTE_USER_TERM_CONN")}
    BY DEF SendCommonRsp, g, f, d, new
  <1>2. Same(c, f) /\ Same(c, d)
    BY SameFields
  <1> HIDE DEF f, d
  <1>3. /\ Moves(c, f) /\ f \in Conn /\ f.remote = c.remote
        /\ Moves(c, d) /\ d \in Conn /\ d.remote = c.remote /\ d.side = c.side
    BY <1>2, SameMoves DEF Same, Beside
  <1>4. Loose(c.remote)
    BY DEF Loose, ACK
  <1>5. Moves(c, RemoteDone(g))
    <2>1. Plain("FEATURE_RSP") \in PduType /\ Plain("FEATURE_RSP").op = "FEATURE_RSP"
      BY PlainTyped DEF Opcode, Plain, Pdu
    <2>2. Moves(f, g) /\ g \in Conn /\ g.remote = c.remote
      <3> DEFINE rsp == Plain("FEATURE_RSP")
      <3>1. rsp \in PduType /\ ~Token(rsp)
        BY <2>1 DEF Token
      <3> HIDE DEF rsp
      <3>2. Moves(f, Tx(f, rsp)) /\ Tx(f, rsp) \in Conn /\ Tx(f, rsp).remote = f.remote
        BY <1>3, <3>1, TxMoves, TxParts DEF Moves
      <3>3. QED BY <1>3, <3>2 DEF rsp
    <2> HIDE DEF g
    <2>3. Moves(g, RemoteDone(g))
      BY <1>4, <2>2, RemoteDoneMoves DEF Moves
    <2>4. QED BY <1>3, <2>2, <2>3, MovesTwice
  <1> HIDE DEF g
  <1>6. Moves(c, SetRemote(d, new))
    <2> DEFINE e == SetRemote(d, new)
    <2>1. c.remote \in Ctx
      BY Fields
    <2>2. new \in Ctx /\ new.state = "POSTPONE_TERMINATE" /\ new.proc = c.remote.proc
      BY <2>1 DEF Ctx
    <2> HIDE DEF new
    <2>3. Across(d, e) /\ e.remote = new /\ e.collision = d.collision
      BY <1>3, <2>2, OneField
    <2> HIDE DEF e
    <2>4. Loose(new) /\ Stands(new)
      BY <2>2 DEF Loose, Stands, ACK
    <2>5. Moves(d, e)
      BY <1>3, <1>4, <2>2, <2>3, <2>4, RemoteLooseMoves DEF Moves
    <2>6. QED BY <1>3, <2>5, MovesTwice DEF e
  <1> HIDE DEF new
  <1>7. Ends(Reason(RemoteDone(d), "REMOTE_USER_TERM_CONN"))
    BY <1>3, RemoteDoneMoves DEF Moves
  <1>8. QED BY <1>1, <1>5, <1>6, <1>7 DEF Sure

\* A PDU for the remote procedure.
LEMMA RxRemoteHears ==
  ASSUME NEW c \in Conn, Lined(c), NEW pdu \in PduType
  PROVE  Hears(c, RxRemote(c, pdu), pdu)
  <1>1. c.remote.proc = "PHY_UPDATE" => Hears(c, RxRemotePhy(c, pdu), pdu)
    BY RxRemotePhyHears
  <1>2. c.remote.proc = "CHAN_MAP_UPDATE" => Hears(c, RxChanMapInd(c, pdu), pdu)
    BY RxChanMapIndHears
  <1>3. c.remote.state = "WAIT_RX" => Hears(c, SendCommonRsp(c, c.remote), pdu)
    BY SendCommonRspMoves DEF Sure, Hears
  <1>4. Hears(c, c, pdu)
    BY MovesSelf DEF Hears
  <1>5. QED BY <1>1, <1>2, <1>3, <1>4 DEF RxRemote

\* The peer begins a procedure; of those with an instant the central takes one
\* only if its own local procedure is not under way (rr_st_idle).
LEMMA BeginsMoves ==
  ASSUME NEW c \in Conn, Lined(c), c.remote = NoCtx, NEW d, Across(c, d), d.remote.proc # "TERMINATE",
         d.remote.state = IF d.remote.proc = "PHY_UPDATE" THEN "WAIT_RX_PHY_REQ" ELSE "WAIT_RX",
         c.side = Central =>
           /\ d.remote.proc # "CHAN_MAP_UPDATE"
           /\ WithInstant(d.remote.proc) => d.collision /\ c.incompat = "NO_COLLISION"
  PROVE  Moves(c, d)
  <1>1. Loose(d.remote) /\ Stands(d.remote)
    BY DEF Loose, Stands, ACK
  <1>2. Loose(c.remote) /\ Legal(c) /\ Local(d) = Local(c)
    BY NoCtxStands, LocalSame DEF Lined, Across
  <1>3. c.side = Central /\ c.incompat = "NO_COLLISION" => ~Active(Local(c))
    BY <1>2 DEF Legal, CentralLegal
  <1>4. d.remote.state \notin {"WAIT_TX_ACK_PHY_RSP", "WAIT_RX_PHY_UPDATE_IND", "WAIT_TX_PHY_UPDATE_IND", ACK}
    BY DEF ACK
  <1>5. Legal(d)
    BY <1>1, <1>2, <1>3, <1>4, RemoteLegal DEF Across
  <1>6. QED BY <1>1, <1>2, <1>5, LooseMoves DEF Across

\* However a request of the peer is met, in a collision or not (rr_st_idle).
LEMMA PrepareHears ==
  ASSUME NEW c \in Conn, Lined(c), c.remote = NoCtx, NEW pdu \in PduType,
         NEW proc \in Proc \union {None}, proc # "TERMINATE",
         c.side = Central => proc # "CHAN_MAP_UPDATE"
  PROVE  Hears(c, Prepare(c, proc, pdu), pdu)
  <1> DEFINE ctx == NewCtx(proc, {})
             new == [ctx EXCEPT !.state = IF proc = "PHY_UPDATE" THEN "WAIT_RX_PHY_REQ" ELSE "WAIT_RX"]
             s == SetCollision(c, WithInstant(proc))
             Runs(d) == RxRemote(SetRemote(d, new), pdu)
             unknown == Pdu("UNKNOWN_RSP", {}, pdu.op, 0)
             r == SetRemote(c, ctx)
  <1>1. ctx \in Ctx
    BY NewCtxTyped
  <1>2. new \in Ctx /\ new.proc = proc
        /\ new.state = IF proc = "PHY_UPDATE" THEN "WAIT_RX_PHY_REQ" ELSE "WAIT_RX"
    <2> DEFINE st == IF proc = "PHY_UPDATE" THEN "WAIT_RX_PHY_REQ" ELSE "WAIT_RX"
    <2>1. st \in {"WAIT_RX_PHY_REQ", "WAIT_RX"} /\ ctx.proc = proc
      BY DEF NewCtx
    <2> HIDE DEF ctx, st
    <2>2. [ctx EXCEPT !.state = st] \in Ctx /\ [ctx EXCEPT !.state = st].proc = ctx.proc
          /\ [ctx EXCEPT !.state = st].state = st
      BY <1>1, <2>1 DEF Ctx
    <2>3. QED BY <2>1, <2>2 DEF st
  <1>3. Prepare(c, proc, pdu) =
            CASE proc = "TERMINATE" -> Runs(c)
              [] proc = None -> Tx(c, unknown)
              [] WithInstant(proc) /\ c.incompat = "RESOLVABLE" /\ c.side = Peripheral -> Runs(c)
              [] WithInstant(proc) /\ c.incompat = "RESOLVABLE" /\ c.side = Central ->
                   Tx(c, Reject(c, pdu.op))
              [] WithInstant(proc) /\ c.incompat = "RESERVED" ->
                   Reason(r, IF Local(c).proc = proc THEN "LL_PROC_COLLISION"
                                                     ELSE "DIFF_TRANS_COLLISION")
              [] OTHER -> Runs(s)
    <2> HIDE DEF Runs, s, r
    <2>1. QED BY Zenon DEF Prepare, Runs, s, r, unknown, new, ctx
  <1> HIDE DEF ctx, new
  <1>4. ASSUME NEW d, Across(c, d), d.remote = new,
               c.side = Central /\ WithInstant(proc) => d.collision /\ c.incompat = "NO_COLLISION"
        PROVE  Hears(c, RxRemote(d, pdu), pdu)
    <2>1. Moves(c, d) /\ d \in Conn
      BY <1>2, <1>4, BeginsMoves DEF Across
    <2>2. Hears(d, RxRemote(d, pdu), pdu)
      BY <2>1, RxRemoteHears DEF Moves
    <2>3. QED BY <2>1, <2>2, MovesHears
  <1>5. c.side = Peripheral => Hears(c, Runs(c), pdu)
    <2> DEFINE d == SetRemote(c, new)
    <2>1. Across(c, d) /\ d.remote = new
      BY <1>2, OneField
    <2> HIDE DEF d
    <2>2. c.side = Peripheral => Hears(c, RxRemote(d, pdu), pdu)
      BY <1>4, <2>1 DEF Central, Peripheral
    <2>3. QED BY <2>2 DEF d
  <1>6. (WithInstant(proc) => c.incompat = "NO_COLLISION") => Hears(c, Runs(s), pdu)
    <2> DEFINE x == WithInstant(proc)
               d == SetRemote(s, new)
    <2>1. x \in BOOLEAN
      BY DEF WithInstant
    <2>2. Across(c, s) /\ (s.collision <=> x)
      BY <2>1, OneField
    <2> HIDE DEF x, s
    <2>3. Across(s, d) /\ d.remote = new /\ d.collision = s.collision
      BY <1>2, <2>2, OneField DEF Across
    <2> HIDE DEF d
    <2>4. Across(c, d)
      BY <2>2, <2>3 DEF Across
    <2>5. (x => c.incompat = "NO_COLLISION") => Hears(c, RxRemote(d, pdu), pdu)
      BY <1>4, <2>2, <2>3, <2>4 DEF x
    <2>6. QED BY <2>5 DEF d, x
  <1>7. Moves(c, Tx(c, unknown))
    <2>1. "UNKNOWN_RSP" \in Opcode
      BY DEF Opcode
    <2>2. unknown \in PduType
      BY <2>1, PduFields, PduTyped, Delta
    <2>3. unknown.op = "UNKNOWN_RSP"
      BY <2>2 DEF Pdu
    <2> HIDE DEF unknown
    <2>4. QED BY <2>2, <2>3, TxMoves DEF Token
  <1>8. Moves(c, Tx(c, Reject(c, pdu.op)))
    <2>1. Reject(c, pdu.op) \in PduType
      BY PduFields, RejectTyped
    <2>2. Reject(c, pdu.op).op \in {"REJECT_IND", "REJECT_EXT_IND"}
      BY DEF Reject, Plain, Pdu
    <2>3. QED BY <2>1, <2>2, TxMoves DEF Token
  <1>9. Ends(Reason(r, "LL_PROC_COLLISION")) /\ Ends(Reason(r, "DIFF_TRANS_COLLISION"))
    <2>1. r \in Conn
      BY <1>1, OneField DEF Across
    <2> HIDE DEF r
    <2>2. QED BY <2>1, ReasonEnds, ReasonsGiven
  <1>10. c.side \in {Central, Peripheral} /\ c.incompat \in {"NO_COLLISION", "RESOLVABLE", "RESERVED"}
    BY Fields DEF Side
  <1> HIDE DEF Runs, s, r, unknown
  <1>11. QED BY <1>3, <1>5, <1>6, <1>7, <1>8, <1>9, <1>10 DEF Hears

\* llcp_rr_new, of a PDU that is no termination.
LEMMA NewHears ==
  ASSUME NEW c \in Conn, Lined(c), c.remote = NoCtx, NEW pdu \in PduType, pdu.op # "TERMINATE_IND"
  PROVE  Hears(c, New(c, pdu), pdu)
  <1> DEFINE proc == Begun(c, pdu.op)
  <1>1. proc \in Proc \union {None}
    BY BegunTyped
  <1>2. proc # "TERMINATE" /\ (c.side = Central => proc # "CHAN_MAP_UPDATE")
    BY DEF Begun, None, Central, Peripheral
  <1>3. New(c, pdu) = Prepare(c, proc, pdu)
    BY <1>2 DEF New
  <1> HIDE DEF proc
  <1>4. QED BY <1>1, <1>2, <1>3, PrepareHears

\* ull_cp_rx.
LEMMA RxHears ==
  ASSUME NEW c \in Conn, Lined(c), NEW pdu \in PduType, NEW free \in BOOLEAN,
         pdu.op # "TERMINATE_IND"
  PROVE  Hears(c, Rx(c, pdu, free), pdu)
  <1> DEFINE l == Local(c) # NoCtx
             r == c.remote # NoCtx
             el == l /\ (Expected(pdu, Local(c)) \/ pdu.op = "REJECT_IND")
             er == r /\ Expected(pdu, c.remote)
  <1>1. Rx(c, pdu, free) =
          CASE pdu.op = "TERMINATE_IND" \/ (~el /\ ~r) -> New(c, pdu)
            [] OTHER -> CASE el /\ er -> Reason(c, "ASSERT")
                          [] el /\ ~er -> RxLocal(c, pdu, free)
                          [] ~el /\ l /\ ~er -> Reason(c, "LOCALHOST_TERM_CONN")
                          [] OTHER -> RxRemote(c, pdu)
    BY Zenon DEF Rx
  <1>2. ~r => Hears(c, New(c, pdu), pdu)
    BY NewHears
  <1>3. Hears(c, RxLocal(c, pdu, free), pdu) /\ Hears(c, RxRemote(c, pdu), pdu)
    BY RxLocalHears, RxRemoteHears
  <1>4. Hears(c, Reason(c, "ASSERT"), pdu) /\ Hears(c, Reason(c, "LOCALHOST_TERM_CONN"), pdu)
    BY ReasonEnds, ReasonsGiven DEF Hears
  <1> HIDE DEF l, r, el, er
  <1>5. QED BY <1>1, <1>2, <1>3, <1>4

-----------------------------------------------------------------------------
(* An event nearer, a PDU received, a request of the Host. *)

\* A count of events, one event later.
Less(n) == IF n = 0 THEN 0 ELSE n - 1

\* What is nearer of a procedure or a PDU is its instant only.
LEMMA NearerParts ==
  /\ \A ctx \in Ctx : /\ Nearer(ctx) \in Ctx /\ Nearer(ctx).proc = ctx.proc /\ Nearer(ctx).state = ctx.state
                      /\ Nearer(ctx).phys = ctx.phys /\ Nearer(ctx).left = Less(ctx.left)
  /\ \A pdu \in PduType : /\ Nearer(pdu) \in PduType /\ Nearer(pdu).op = pdu.op
                          /\ Nearer(pdu).phys = pdu.phys /\ Nearer(pdu).left = Less(pdu.left)
  <1>1. ASSUME NEW ctx \in Ctx
        PROVE  /\ Nearer(ctx) \in Ctx /\ Nearer(ctx).proc = ctx.proc /\ Nearer(ctx).state = ctx.state
               /\ Nearer(ctx).phys = ctx.phys /\ Nearer(ctx).left = Less(ctx.left)
    <2> DEFINE n == Less(ctx.left)
    <2>1. Nearer(ctx) = [ctx EXCEPT !.left = n]
      BY DEF Nearer, Less
    <2> HIDE DEF n
    <2>2. Nearer(ctx).phys = ctx.phys /\ Nearer(ctx).left = n
      BY <2>1 DEF Ctx
    <2>3. QED BY <2>2, NearerTyped DEF n
  <1>2. ASSUME NEW pdu \in PduType
        PROVE  /\ Nearer(pdu) \in PduType /\ Nearer(pdu).op = pdu.op
               /\ Nearer(pdu).phys = pdu.phys /\ Nearer(pdu).left = Less(pdu.left)
    <2> DEFINE n == Less(pdu.left)
    <2>1. Nearer(pdu) = [pdu EXCEPT !.left = n]
      BY DEF Nearer, Less
    <2> HIDE DEF n
    <2>2. Nearer(pdu).op = pdu.op /\ Nearer(pdu).phys = pdu.phys /\ Nearer(pdu).left = n
      BY <2>1 DEF PduType
    <2>3. QED BY <2>2, NearerTyped DEF n
  <1>3. QED BY <1>1, <1>2

\* The fields of a side after an event.
LEMMA ElapseParts ==
  ASSUME NEW c \in Conn
  PROVE  LET d == Elapse(c)
         IN  /\ d \in Conn /\ d.side = c.side /\ d.incompat = c.incompat /\ d.collision = c.collision
             /\ d.acked = c.acked /\ d.remote = Nearer(c.remote) /\ Local(d) = Nearer(Local(c))
             /\ Len(d.local) = Len(c.local) /\ \A i \in 1 .. Len(c.local) : d.local[i] = Nearer(c.local[i])
             /\ Len(d.out) = Len(c.out) /\ \A i \in 1 .. Len(c.out) : d.out[i] = Nearer(c.out[i])
  <1> DEFINE l == [i \in DOMAIN c.local |-> Nearer(c.local[i])]
             o == [i \in DOMAIN c.out |-> Nearer(c.out[i])]
             m == Nearer(c.remote)
             d == [c EXCEPT !.local = l, !.remote = m, !.out = o]
  <1>1. c.local \in Seq(Ctx) /\ c.out \in Seq(PduType) /\ c.remote \in Ctx
    BY Fields
  <1>2. l \in Seq(Ctx) /\ Len(l) = Len(c.local)
        /\ \A i \in 1 .. Len(c.local) : l[i] = Nearer(c.local[i])
    BY <1>1, NearerTyped
  <1>3. o \in Seq(PduType) /\ Len(o) = Len(c.out)
        /\ \A i \in 1 .. Len(c.out) : o[i] = Nearer(c.out[i])
    BY <1>1, NearerTyped
  <1>4. m \in Ctx
    BY <1>1, NearerTyped
  <1>5. Elapse(c) = d
    BY DEF Elapse, Conn
  <1> HIDE DEF l, o, m
  <1>6. d \in Conn /\ d.side = c.side /\ d.incompat = c.incompat /\ d.collision = c.collision
        /\ d.acked = c.acked /\ d.remote = m /\ d.local = l /\ d.out = o
    BY <1>2, <1>3, <1>4 DEF Conn
  <1> HIDE DEF d
  <1>7. Local(d) = Nearer(Local(c))
    <2>1. CASE c.local = <<>>
      <3>1. Len(l) = 0
        BY <1>2, <2>1, EmptySeq
      <3>2. l = <<>>
        BY <1>2, <3>1, EmptySeq
      <3>3. Nearer(NoCtx) = NoCtx
        BY DEF Nearer, NoCtx, NewCtx
      <3>4. QED BY <1>6, <2>1, <3>2, <3>3 DEF Local
    <2>2. CASE c.local # <<>>
      <3>1. Len(c.local) \in Nat \ {0}
        BY <1>1, <2>2, EmptySeq
      <3>2. l # <<>> /\ Head(l) = Nearer(Head(c.local))
        BY <1>1, <1>2, <3>1, EmptySeq
      <3>3. QED BY <1>6, <2>2, <3>2 DEF Local
    <2>3. QED BY <2>1, <2>2
  <1>8. QED BY <1>2, <1>3, <1>5, <1>6, <1>7 DEF m

\* An event takes every count the same way, so it parts nothing.
LEMMA ElapseLined ==
  ASSUME NEW c \in Conn, Lined(c)
  PROVE  LET d == Elapse(c)
         IN  /\ d \in Conn /\ Lined(d) /\ d.side = c.side
             /\ NoToken(c.out) => NoToken(d.out)
             /\ \A n \in Nat : Timed(Local(c), c.remote, n) => Timed(Local(d), d.remote, Less(n))
  <1> DEFINE d == Elapse(c)
             l == Local(c)
             r == c.remote
             m == Local(d)
             s == d.remote
  <1>1. /\ d \in Conn /\ d.side = c.side /\ d.incompat = c.incompat /\ d.collision = c.collision
        /\ d.acked = c.acked /\ s = Nearer(r) /\ m = Nearer(l)
        /\ Len(d.local) = Len(c.local) /\ (\A i \in 1 .. Len(c.local) : d.local[i] = Nearer(c.local[i]))
        /\ Len(d.out) = Len(c.out) /\ \A i \in 1 .. Len(c.out) : d.out[i] = Nearer(c.out[i])
    BY ElapseParts
  <1>2. c.local \in Seq(Ctx) /\ c.out \in Seq(PduType) /\ r \in Ctx /\ l \in Ctx /\ Legal(c)
    BY Fields, LocalTyped DEF Lined
  <1> HIDE DEF d, l, r, m, s
  <1>3. /\ s.proc = r.proc /\ s.state = r.state /\ s.phys = r.phys /\ s.left = Less(r.left)
        /\ m.proc = l.proc /\ m.state = l.state /\ m.phys = l.phys /\ m.left = Less(l.left)
    BY <1>1, <1>2, NearerParts
  <1>4. \A i \in 1 .. Len(c.local) : d.local[i].state = c.local[i].state /\ d.local[i].proc = c.local[i].proc
    BY <1>1, <1>2, NearerParts
  <1>5. \A i \in 1 .. Len(c.out) : d.out[i].op = c.out[i].op /\ d.out[i].phys = c.out[i].phys
                                   /\ d.out[i].left = Less(c.out[i].left) /\ c.out[i].left \in Nat
    <2> SUFFICES ASSUME NEW i \in 1 .. Len(c.out)
                 PROVE  d.out[i].op = c.out[i].op /\ d.out[i].phys = c.out[i].phys
                        /\ d.out[i].left = Less(c.out[i].left) /\ c.out[i].left \in Nat
      OBVIOUS
    <2>1. c.out[i] \in PduType
      BY <1>2
    <2>2. QED BY <1>1, <2>1, NearerParts, PduFields, Delta
  <1>6. Rested(d)
    <2>1. Rested(c) /\ Len(c.local) \in Nat
      BY <1>2 DEF Legal
    <2>2. QED BY <1>1, <1>4, <2>1 DEF Rested
  <1>7. Legal(d)
    <2>1. Stands(m) /\ Stands(s)
      BY <1>2, <1>3 DEF Legal, Stands, l, r
    <2>2. c.side = Central => CentralLegal(m, s, d.incompat, d.collision)
      BY <1>1, <1>2, <1>3 DEF Legal, CentralLegal, Active, l, r
    <2>3. c.side = Peripheral => PeripheralLegal(m, s)
      BY <1>2, <1>3 DEF Legal, PeripheralLegal, l, r
    <2>4. QED BY <1>1, <1>6, <2>1, <2>2, <2>3 DEF Legal, m, s
  <1>8. \A i \in 1 .. Len(c.out) : Token(d.out[i]) => Token(c.out[i])
    BY <1>5 DEF Token, Less
  <1>9. NoToken(c.out) => NoToken(d.out)
    BY <1>1, <1>8 DEF NoToken
  <1>10. Carried(c.out, l, r) => Carried(d.out, m, s)
    <2>1. \A i \in 1 .. Len(c.out) : Announced(l, r, c.out[i]) => Announced(m, s, d.out[i])
      BY <1>3, <1>5 DEF Announced
    <2>2. QED BY <1>1, <1>8, <2>1 DEF Carried
  <1>11. Lined(d)
    BY <1>1, <1>3, <1>7, <1>9, <1>10 DEF Lined, Wired, l, r, m, s
  <1>12. \A n \in Nat : Timed(l, r, n) => Timed(m, s, Less(n))
    BY <1>3 DEF Timed, PhyTimed
  <1>13. QED BY <1>1, <1>9, <1>11, <1>12 DEF d, l, r, m, s

\* A PDU received leaves the queue of its sender; of an indication the central is
\* left waiting for the instant, with no other in the queue.
LEMMA ReceivedMoves ==
  ASSUME NEW c \in Conn, Lined(c), c.out # <<>>, c.acked = None
  PROVE  LET d == Received(c)
             h == Head(c.out)
         IN  /\ Moves(c, d) /\ h \in PduType
             /\ c.side = Central /\ Token(h) =>
                  /\ NoToken(d.out)
                  /\ (h.op = "PHY_UPDATE_IND" => h.phys # {}) => Timed(Local(d), d.remote, h.left)
  <1> DEFINE q == Tail(c.out)
             h == Head(c.out)
             op == h.op
             d == [c EXCEPT !.out = q, !.acked = op]
  <1>1. c.out \in Seq(PduType)
    BY Fields
  <1>2. q \in Seq(PduType) /\ Len(q) = Len(c.out) - 1 /\ Len(c.out) \in Nat \ {0}
        /\ (\A i \in 1 .. Len(q) : q[i] = c.out[i + 1]) /\ h = c.out[1] /\ h \in PduType
    BY <1>1, HeadTailProperties, EmptySeq
  <1>3. Received(c) = d
    BY DEF Received
  <1>4. op \in Opcode /\ op = h.op
    BY <1>2, PduFields
  <1> HIDE DEF q, h, op
  <1>5. d \in Conn /\ d.side = c.side /\ d.local = c.local /\ d.remote = c.remote /\ d.incompat = c.incompat
        /\ d.collision = c.collision /\ d.out = q /\ d.acked = op
    BY <1>2, <1>4 DEF Conn
  <1> HIDE DEF d
  <1>6. Local(d) = Local(c) /\ Legal(c) /\ Rested(d)
    BY <1>5, LocalSame DEF Lined, Legal
  <1>7. Legal(d)
    BY <1>5, <1>6 DEF Legal
  <1>8. 1 \in 1 .. Len(c.out) /\ \A i \in 1 .. Len(q) : i + 1 \in 1 .. Len(c.out) /\ i + 1 # 1
    BY <1>2
  <1>9. NoToken(c.out) => NoToken(q)
    BY <1>2, <1>8 DEF NoToken
  <1>10. ASSUME c.side = Central
         PROVE  /\ Wired(d)
                /\ Token(h) =>
                     /\ NoToken(q)
                     /\ (h.op = "PHY_UPDATE_IND" => h.phys # {}) => Timed(Local(d), d.remote, h.left)
    <2>1. Carried(c.out, Local(c), c.remote)
      BY <1>10 DEF Lined, Wired
    <2>2. Token(h) => NoToken(q) /\ Announced(Local(c), c.remote, h)
      <3>1. SUFFICES ASSUME Token(h) PROVE NoToken(q) /\ Announced(Local(c), c.remote, h)
        OBVIOUS
      <3>2. \A i \in 1 .. Len(q) : ~Token(q[i])
        BY <1>2, <1>8, <2>1, <3>1 DEF Carried
      <3>3. QED BY <1>2, <1>8, <2>1, <3>1, <3>2 DEF Carried, NoToken
    <2>3. Carried(q, Local(c), c.remote)
      <3>1. \A i \in 1 .. Len(q) : Token(q[i]) => Announced(Local(c), c.remote, q[i])
        BY <1>2, <1>8, <2>1 DEF Carried
      <3>2. ASSUME NEW i \in 1 .. Len(q), NEW j \in 1 .. Len(q), Token(q[i]), Token(q[j])
            PROVE  i = j
        <4>1. i + 1 = j + 1
          BY <1>2, <1>8, <2>1, <3>2 DEF Carried
        <4>2. QED BY <4>1
      <3>3. QED BY <3>1, <3>2 DEF Carried
    <2>4. h.op = "PHY_UPDATE_IND" => NoToken(q) /\ (Local(c).state = ACK \/ c.remote.state = ACK)
      BY <2>2 DEF Announced, Token
    <2>5. Wired(d)
      BY <1>4, <1>5, <1>6, <2>3, <2>4 DEF Wired
    <2>6. Token(h) /\ (h.op = "PHY_UPDATE_IND" => h.phys # {}) => Timed(Local(c), c.remote, h.left)
      <3>1. SUFFICES ASSUME Token(h), h.op = "PHY_UPDATE_IND" => h.phys # {}
                     PROVE  Timed(Local(c), c.remote, h.left)
        OBVIOUS
      <3>2. Announced(Local(c), c.remote, h) /\ Stands(Local(c)) /\ Stands(c.remote)
        BY <1>6, <2>2, <3>1 DEF Legal
      <3>3. CASE h.op = "CHAN_MAP_IND"
        BY <3>2, <3>3 DEF Announced, Timed
      <3>4. CASE h.op = "PHY_UPDATE_IND"
        BY <3>1, <3>2, <3>4 DEF Announced, Timed, PhyTimed, Stands, ACK
      <3>5. QED BY <3>1, <3>3, <3>4 DEF Token
    <2>7. QED BY <1>5, <1>6, <2>2, <2>5, <2>6
  <1>11. Moves(c, d)
    <2>1. Lined(d)
      BY <1>5, <1>7, <1>10 DEF Lined
    <2>2. Keeps(c, d) /\ Quiet(c, d)
      BY <1>5, <1>6, <1>9 DEF Keeps, Quiet, Slot
    <2>3. QED BY <1>5, <2>1, <2>2 DEF Moves
  <1>12. QED BY <1>2, <1>3, <1>5, <1>10, <1>11 DEF h

\* A request of the Host waits behind the others, or is the local procedure that
\* has not begun.
LEMMA AppendMoves ==
  ASSUME NEW c \in Conn, Lined(c), NEW ctx \in Ctx, ctx.state = "IDLE",
         c.side = Peripheral => ctx.proc # "CHAN_MAP_UPDATE"
  PROVE  Moves(c, [c EXCEPT !.local = Append(c.local, ctx)])
  <1> DEFINE q == Append(c.local, ctx)
             d == [c EXCEPT !.local = q]
  <1>1. c.local \in Seq(Ctx) /\ Len(c.local) \in Nat /\ Legal(c)
    BY Fields, EmptySeq DEF Lined
  <1>2. q \in Seq(Ctx) /\ Len(q) = Len(c.local) + 1 /\ q[Len(c.local) + 1] = ctx
        /\ \A i \in 1 .. Len(c.local) : q[i] = c.local[i]
    BY <1>1
  <1> HIDE DEF q
  <1>3. d \in Conn /\ d.local = q /\ d.side = c.side /\ d.remote = c.remote /\ d.out = c.out
        /\ d.incompat = c.incompat /\ d.collision = c.collision /\ d.acked = c.acked
    BY <1>2 DEF Conn
  <1> HIDE DEF d
  <1>4. Rested(d)
    <2>1. \A i \in 1 .. Len(q) : i \in 1 .. Len(c.local) \/ i = Len(c.local) + 1
      BY <1>1, <1>2
    <2>2. \A i \in 2 .. Len(q) : i \in 2 .. Len(c.local) \/ i = Len(c.local) + 1
      BY <1>1, <1>2
    <2>3. \A i \in 2 .. Len(c.local) : q[i] = c.local[i] /\ c.local[i].state = "IDLE"
      BY <1>1, <1>2 DEF Legal, Rested
    <2>4. \A i \in 2 .. Len(q) : q[i].state = "IDLE"
      BY <1>2, <2>2, <2>3
    <2>5. c.side = Peripheral => \A i \in 1 .. Len(q) : q[i].proc # "CHAN_MAP_UPDATE"
      BY <1>1, <1>2, <2>1 DEF Legal, Rested
    <2>6. QED BY <1>3, <2>4, <2>5 DEF Rested
  <1>5. CASE c.local # <<>>
    <2>1. Len(c.local) \in Nat \ {0} /\ Head(c.local) = c.local[1]
      BY <1>1, <1>5, EmptySeq
    <2>2. q # <<>> /\ Head(q) = q[1] /\ q[1] = c.local[1]
      BY <1>2, <2>1, EmptySeq
    <2>3. Local(d) = Local(c)
      BY <1>3, <1>5, <2>1, <2>2 DEF Local
    <2>4. Legal(d)
      BY <1>1, <1>3, <1>4, <2>3 DEF Legal
    <2>5. Moves(c, d)
      BY <1>3, <2>3, <2>4, LooseMoves
    <2>6. QED BY <2>5 DEF d, q
  <1>6. CASE c.local = <<>>
    <2>1. Local(c).state = "IDLE"
      BY <1>6, NoCtxStands DEF Local
    <2>2. Len(c.local) = 0 /\ q # <<>> /\ Head(q) = q[1]
      BY <1>2, <1>6, EmptySeq
    <2>3. Local(d) = ctx
      BY <1>2, <1>3, <2>2 DEF Local
    <2>4. Legal(d)
      BY <1>1, <1>3, <1>4, <2>3, RestLegal
    <2>5. Loose(Local(c)) /\ Loose(Local(d))
      BY <2>1, <2>3 DEF Loose, ACK
    <2>6. Moves(c, d)
      BY <1>3, <2>4, <2>5, LooseMoves
    <2>7. QED BY <2>6 DEF d, q
  <1>7. QED BY <1>5, <1>6

\* A new connection has nothing under way.
LEMMA NewConnsLined ==
  ASSUME NEW new \in NewConns, NEW s \in Side
  PROVE  Lined(new[s]) /\ Local(new[s]).state = "IDLE" /\ new[s].remote.state = "IDLE"
  <1>1. PICK built \in PhyBuilt : new = [t \in Side |-> NewConn(t, built[t])]
    BY DEF NewConns
  <1>2. new[s] = NewConn(s, built[s]) /\ new[s] \in Conn
    BY <1>1, NewConnsGood
  <1>3. new[s].local = <<>> /\ new[s].out = <<>> /\ new[s].remote = NoCtx /\ new[s].acked = None
    BY <1>2 DEF NewConn
  <1>4. Local(new[s]) = NoCtx /\ Len(new[s].local) = 0 /\ Len(new[s].out) = 0
    BY <1>3, EmptySeq DEF Local
  <1>5. Rested(new[s]) /\ NoToken(new[s].out)
    BY <1>4 DEF Rested, NoToken
  <1>6. Legal(new[s])
    BY <1>3, <1>4, <1>5, NoCtxStands DEF Legal, CentralLegal, PeripheralLegal, Active, ACK, None
  <1>7. Wired(new[s])
    BY <1>3, <1>5, CarryNone DEF Wired, None
  <1>8. QED BY <1>3, <1>4, <1>6, <1>7, NoCtxStands DEF Lined

-----------------------------------------------------------------------------
(* Both sides. *)

\* The peripheral waits for one instant at most; if it is still to come the central
\* waits for the same one, and if the peripheral takes part in the event it is.
Waits(ctx) == ctx.state = "WAIT_INSTANT"
Follows(c, ctx) ==
  Waits(ctx) /\ ctx.left # 0 => NoToken(c.out) /\ Timed(Local(c), c.remote, ctx.left)
Bound(c, p, on) ==
  /\ ~(Waits(Local(p)) /\ Waits(p.remote))
  /\ Follows(c, Local(p)) /\ Follows(c, p.remote)
  /\ on => Ahead(p)

\* The count of a context is one of events.
LEMMA Counts ==
  ASSUME NEW p \in Conn
  PROVE  Local(p).left \in Nat /\ p.remote.left \in Nat
  <1>1. Local(p) \in Ctx /\ p.remote \in Ctx
    BY LocalTyped, Fields
  <1>2. Local(p).left \in 0 .. InstantDelta + 1 /\ p.remote.left \in 0 .. InstantDelta + 1
    BY <1>1, CtxFields
  <1>3. QED BY <1>2, Delta

\* What the handlers make of both sides.
LEMMA BoundMoves ==
  ASSUME NEW c, NEW d, c.side = Central, Moves(c, d), NEW p \in Conn, NEW q, p.side = Peripheral,
         Moves(p, q), NEW on, Bound(c, p, on), NEW now, now => on
  PROVE  Bound(d, q, now)
  <1>1. Quiet(p, q) /\ Keeps(c, d)
    BY DEF Moves
  <1>2. \A n \in Nat \ {0} :
          NoToken(c.out) /\ Timed(Local(c), c.remote, n) => NoToken(d.out) /\ Timed(Local(d), d.remote, n)
    BY <1>1 DEF Keeps
  <1>3. Local(p).left \in Nat /\ p.remote.left \in Nat
    BY Counts
  <1>4. Follows(d, Local(q))
    BY <1>1, <1>2, <1>3 DEF Bound, Quiet, Slot, Follows, Waits
  <1>5. Follows(d, q.remote)
    BY <1>1, <1>2, <1>3 DEF Bound, Quiet, Slot, Follows, Waits
  <1>6. now => Ahead(q)
    BY <1>1 DEF Bound, Quiet, Slot, Ahead
  <1>7. QED BY <1>1, <1>4, <1>5, <1>6 DEF Bound, Quiet, Slot, Waits

\* What an event makes of both sides.
LEMMA BoundElapse ==
  ASSUME NEW c \in Conn, Lined(c), NEW p \in Conn, NEW on, Bound(c, p, on)
  PROVE  Bound(Elapse(c), Elapse(p), FALSE)
  <1> DEFINE d == Elapse(c)
             q == Elapse(p)
  <1>1. /\ NoToken(c.out) => NoToken(d.out)
        /\ \A n \in Nat : Timed(Local(c), c.remote, n) => Timed(Local(d), d.remote, Less(n))
    BY ElapseLined
  <1>2. Local(q) = Nearer(Local(p)) /\ q.remote = Nearer(p.remote)
    BY ElapseParts
  <1> HIDE DEF d, q
  <1>3. Local(p) \in Ctx /\ p.remote \in Ctx /\ Local(p).left \in Nat /\ p.remote.left \in Nat
    BY LocalTyped, Fields, Counts
  <1>4. /\ Local(q).state = Local(p).state /\ Local(q).left = Less(Local(p).left)
        /\ q.remote.state = p.remote.state /\ q.remote.left = Less(p.remote.left)
    BY <1>2, <1>3, NearerParts
  <1>5. Less(0) = 0
    BY DEF Less
  <1>6. Follows(d, Local(q)) /\ Follows(d, q.remote)
    BY <1>1, <1>3, <1>4, <1>5 DEF Bound, Follows, Waits
  <1>7. QED BY <1>4, <1>6 DEF Bound, Waits, d, q

\* The peripheral takes an indication of the central: it has waited for no instant,
\* and now both wait for the one indicated.
LEMMA BoundTakes ==
  ASSUME NEW c \in Conn, Lined(c), c.side = Central, c.out # <<>>, c.acked = None,
         NEW p \in Conn, p.side = Peripheral, NEW a, Moves(p, a), NEW q, Takes(a, q, Head(c.out)),
         Bound(c, p, TRUE)
  PROVE  Bound(Received(c), q, TRUE)
  <1> DEFINE h == Head(c.out)
             d == Received(c)
  <1>1. /\ h \in PduType
        /\ Token(h) =>
             /\ NoToken(d.out)
             /\ (h.op = "PHY_UPDATE_IND" => h.phys # {}) => Timed(Local(d), d.remote, h.left)
    BY ReceivedMoves
  <1>2. Token(h) /\ h.left # 0 /\ (h.op = "PHY_UPDATE_IND" => h.phys # {})
    BY DEF Takes
  <1>3. ~NoToken(c.out)
    <2>1. c.out \in Seq(PduType) /\ Len(c.out) \in Nat \ {0}
      BY Fields, EmptySeq
    <2>2. h = c.out[1] /\ 1 \in 1 .. Len(c.out)
      BY <2>1
    <2>3. QED BY <1>2, <2>2 DEF NoToken
  <1> HIDE DEF h, d
  <1>4. ~Waits(Local(p)) /\ ~Waits(p.remote)
    BY <1>3 DEF Bound, Ahead, Follows, Waits
  <1>5. ~Waits(Local(a)) /\ ~Waits(a.remote)
    BY <1>4 DEF Moves, Quiet, Slot, Waits
  <1>6. NoToken(d.out) /\ Timed(Local(d), d.remote, h.left)
    BY <1>1, <1>2
  <1>7. \/ Local(q).state = "WAIT_INSTANT" /\ Local(q).left = h.left /\ ~Waits(q.remote)
        \/ q.remote.state = "WAIT_INSTANT" /\ q.remote.left = h.left /\ ~Waits(Local(q))
    BY <1>5 DEF Takes, Slot, Waits, h
  <1>8. Bound(d, q, TRUE)
    BY <1>2, <1>6, <1>7 DEF Bound, Follows, Waits, Ahead
  <1>9. QED BY <1>8 DEF d

-----------------------------------------------------------------------------
(* The invariant. *)

\* While no side ends, both sides are in order, by themselves and together.
Settled ==
  /\ Lined(cp[Central]) /\ Lined(cp[Peripheral])
  /\ Bound(cp[Central], cp[Peripheral], stage = "air" /\ Peripheral \in attending)
OInv == PInv /\ (Ending \/ Settled)

\* The invariant, said of the sides.
LEMMA SidesSettled ==
  ASSUME PInv
  PROVE  /\ cp \in [Side -> Conn] /\ cp[Central].side = Central /\ cp[Peripheral].side = Peripheral
         /\ Central \in Side /\ Peripheral \in Side /\ Central # Peripheral
         /\ Steady(cp[Central]) /\ Steady(cp[Peripheral])
         /\ cp[Central] \in Conn /\ cp[Peripheral] \in Conn
  BY DEF PInv, IInv, TypeOK, Side, Central, Peripheral

\* Ending, said of the sides: an end lasts.
LEMMA EndingSides ==
  /\ Ending <=> Ends(cp[Central]) \/ Ends(cp[Peripheral])
  /\ Ending' <=> Ends(cp'[Central]) \/ Ends(cp'[Peripheral])
  BY DEF Ending, Ends, Side

\* If a side has ended, it stays so.
LEMMA EndingLasts ==
  ASSUME Ending, \A s \in Side : Fine(cp[s], cp'[s], Exempt(s))
  PROVE  Ending'
  <1>1. Goes(cp[Central], cp'[Central]) /\ Goes(cp[Peripheral], cp'[Peripheral])
    BY DEF Fine, Side
  <1>2. QED BY <1>1, EndingSides DEF Goes

\* It is enough that each side ends or moves nothing.
LEMMA SureSettled ==
  ASSUME PInv, Settled, Sure(cp[Central], cp'[Central]), Sure(cp[Peripheral], cp'[Peripheral]),
         stage' = "air" /\ Peripheral \in attending' => stage = "air" /\ Peripheral \in attending
  PROVE  Ending' \/ Settled'
  <1>1. SUFFICES ASSUME ~Ending' PROVE Settled'
    OBVIOUS
  <1>2. Moves(cp[Central], cp'[Central]) /\ Moves(cp[Peripheral], cp'[Peripheral])
    BY <1>1, EndingSides DEF Sure
  <1>3. Lined(cp'[Central]) /\ Lined(cp'[Peripheral])
    BY <1>2 DEF Moves
  <1>4. Bound(cp'[Central], cp'[Peripheral], stage' = "air" /\ Peripheral \in attending')
    BY <1>2, SidesSettled, BoundMoves DEF Settled
  <1>5. QED BY <1>3, <1>4 DEF Settled

\* The steps of one side.
LEMMA OneSideSettled ==
  ASSUME PInv, Settled, NEW s \in Side, NEW d, cp' = [cp EXCEPT ![s] = d], Sure(cp[s], d),
         UNCHANGED <<stage, attending>>
  PROVE  Ending' \/ Settled'
  <1>1. ASSUME NEW t \in Side PROVE Sure(cp[t], cp'[t])
    <2>1. CASE t = s
      BY <2>1, SidesSettled
    <2>2. CASE t # s
      <3>1. cp'[t] = cp[t]
        BY <2>2, SidesSettled
      <3>2. Lined(cp[t])
        BY DEF Settled, Side
      <3>3. QED BY <3>1, <3>2, MovesSelf DEF Sure
    <2>3. QED BY <2>1, <2>2
  <1>2. QED BY <1>1, SureSettled, SidesSettled

\* A Host's request.
LEMMA RequestSettled ==
  ASSUME PInv, Settled, NEW s \in Side, NEW proc \in Proc, NEW phys \in SUBSET Phy, Request(s, proc, phys)
  PROVE  Ending' \/ Settled'
  <1> DEFINE ctx == NewCtx(proc, phys)
             d == [cp[s] EXCEPT !.local = Append(cp[s].local, ctx)]
  <1>1. ctx \in Ctx
    BY NewCtxTyped
  <1>2. ctx.state = "IDLE" /\ ctx.proc = proc
    BY DEF NewCtx
  <1>3. cp' = [cp EXCEPT ![s] = d]
    BY DEF Request
  <1>4. (s = Peripheral => proc # "CHAN_MAP_UPDATE") /\ UNCHANGED <<stage, attending>>
    BY DEF Request, Central, Peripheral
  <1> HIDE DEF ctx
  <1>5. cp[s] \in Conn /\ cp[s].side = s /\ Lined(cp[s])
    BY SidesSettled DEF Settled, Side
  <1>6. Moves(cp[s], d)
    BY <1>1, <1>2, <1>4, <1>5, AppendMoves
  <1> HIDE DEF d
  <1>7. QED BY <1>3, <1>4, <1>6, OneSideSettled DEF Sure

\* A Host's termination ends its side.
LEMMA TerminateEnds ==
  ASSUME PInv, NEW s \in Side, Terminate(s)
  PROVE  Ending'
  <1> DEFINE ctx == NewCtx("TERMINATE", {})
             q == <<ctx>>
             a == [cp[s] EXCEPT !.incompat = "NO_COLLISION"]
             d == [a EXCEPT !.local = q]
  <1>1. cp \in [Side -> Conn] /\ cp[s] \in Conn
    BY SidesSettled
  <1>2. ctx.proc = "TERMINATE"
    BY DEF NewCtx
  <1> HIDE DEF ctx
  <1>3. q # <<>> /\ Head(q) = ctx
    OBVIOUS
  <1> HIDE DEF q
  <1>4. [Abort(cp[s]) EXCEPT !.local = q] = d
    BY <1>1 DEF Abort, Conn
  <1>5. cp' = [cp EXCEPT ![s] = d]
    BY <1>4 DEF Terminate, q, ctx
  <1>6. d.local = q
    BY <1>1 DEF Conn
  <1> HIDE DEF d
  <1>7. Local(d).proc = "TERMINATE"
    BY <1>2, <1>3, <1>6 DEF Local
  <1>8. Ends(cp'[s])
    BY <1>1, <1>5, <1>7 DEF Ends
  <1>9. QED BY <1>8, EndingSides DEF Side

\* The ticker callbacks.
LEMMA BeginSettled ==
  ASSUME PInv, Settled, NEW sides \in SUBSET Side, NEW free \in NtfFree, Begin(sides, free)
  PROVE  Ending' \/ Settled'
  <1> DEFINE after(s) == IF s \in sides THEN Run(Elapse(cp[s]), free) ELSE Elapse(cp[s])
  <1>1. free \in BOOLEAN
    BY ProcedureAssumption
  <1>2. cp'[Central] = after(Central) /\ cp'[Peripheral] = after(Peripheral)
        /\ stage' = "air" /\ attending' = sides
    BY DEF Begin, Skip, Side
  <1>3. ASSUME NEW s \in Side
        PROVE  /\ Elapse(cp[s]) \in Conn /\ Elapse(cp[s]).side = s /\ Lined(Elapse(cp[s]))
               /\ \/ Ends(after(s))
                  \/ /\ Moves(Elapse(cp[s]), after(s))
                     /\ s = Peripheral /\ s \in sides => Ahead(after(s))
    <2> DEFINE e == Elapse(cp[s])
    <2>1. cp[s] \in Conn /\ cp[s].side = s /\ Lined(cp[s]) /\ Steady(cp[s])
      BY SidesSettled DEF Settled, Side
    <2>2. e \in Conn /\ Lined(e) /\ e.side = s
      BY <2>1, ElapseLined
    <2>3. Steady(e)
      BY <2>1, ElapseFine, TRUE \in BOOLEAN DEF Fine, Goes
    <2> HIDE DEF e
    <2>4. Ends(Run(e, free)) \/ (Moves(e, Run(e, free)) /\ (s = Peripheral => Ahead(Run(e, free))))
      BY <1>1, <2>2, <2>3, RunMoves
    <2>5. Moves(e, e)
      BY <2>2, MovesSelf
    <2>6. QED BY <2>2, <2>4, <2>5 DEF e
  <1> HIDE DEF after
  <1>4. SUFFICES ASSUME ~Ending' PROVE Settled'
    OBVIOUS
  <1>5. /\ Moves(Elapse(cp[Central]), cp'[Central]) /\ Moves(Elapse(cp[Peripheral]), cp'[Peripheral])
        /\ Peripheral \in sides => Ahead(cp'[Peripheral])
    BY <1>2, <1>3, <1>4, EndingSides, SidesSettled
  <1>6. Bound(Elapse(cp[Central]), Elapse(cp[Peripheral]), FALSE)
    BY SidesSettled, BoundElapse DEF Settled
  <1>7. Bound(cp'[Central], cp'[Peripheral], FALSE)
    BY <1>3, <1>5, <1>6, SidesSettled, BoundMoves
  <1>8. Bound(cp'[Central], cp'[Peripheral], stage' = "air" /\ Peripheral \in attending')
    BY <1>2, <1>5, <1>7 DEF Bound
  <1>9. Lined(cp'[Central]) /\ Lined(cp'[Peripheral])
    BY <1>5 DEF Moves
  <1>10. QED BY <1>8, <1>9 DEF Settled

\* A PDU delivered.  A termination is delivered only if its sender ends; an
\* indication finds the peripheral waiting for no instant.
LEMMA DeliverSettled ==
  ASSUME PInv, Settled, ~Ending, NEW s \in Side, NEW free \in NtfFree, Deliver(s, free)
  PROVE  Ending' \/ Settled'
  <1> DEFINE p == Peer(s)
             h == Head(cp[p].out)
             a == TxAck(cp[s], free)
             b == TxNtf(a, free)
             d == Rx(b, h, free)
             e == Received(cp[p])
  <1>1. p \in Side /\ p # s /\ s \in {Central, Peripheral} /\ (\A t \in Side : t = s \/ t = p)
    BY DEF Peer, Side, Central, Peripheral
  <1>2. free \in BOOLEAN
    BY ProcedureAssumption
  <1>3. /\ cp \in [Side -> Conn] /\ cp[s] \in Conn /\ cp[s].side = s /\ Steady(cp[s]) /\ Lined(cp[s])
        /\ cp[p] \in Conn /\ cp[p].side = p /\ Steady(cp[p]) /\ Lined(cp[p])
    BY <1>1, SidesSettled DEF Settled, Side
  <1>4. cp' = [cp EXCEPT ![s] = d, ![p] = e]
    BY <1>1 DEF Deliver
  <1>5. cp[p].out # <<>> /\ cp[p].acked = None /\ stage = "air" /\ attending = Side
        /\ UNCHANGED <<stage, attending>>
    BY DEF Deliver, Heard
  <1> HIDE DEF p
  <1>6. Moves(cp[p], e) /\ h \in PduType
    BY <1>3, <1>5, ReceivedMoves
  <1>7. h.op # "TERMINATE_IND"
    <2>1. Harmless(cp[p], h)
      BY <1>3, <1>5, ReceivedFine, TRUE \in BOOLEAN
    <2>2. ~Ends(cp[p])
      BY <1>1, EndingSides DEF Side
    <2>3. QED BY <2>1, <2>2 DEF Harmless
  <1> HIDE DEF e, h
  <1>8. Sure(cp[s], a) /\ Goes(cp[s], a)
    BY <1>2, <1>3, TxAckMoves, TxAckFine, TRUE \in BOOLEAN DEF Fine
  <1> HIDE DEF a
  <1>9. Goes(a, b) /\ (Moves(cp[s], a) => Moves(a, b))
    <2>1. Goes(a, b)
      BY <1>2, <1>8, TxNtfFine, TRUE \in BOOLEAN DEF Fine, Goes
    <2>2. Moves(cp[s], a) => Moves(a, b)
      BY <1>2, <1>8, TxNtfMoves DEF Goes, Steady, Moves
    <2>3. QED BY <2>1, <2>2
  <1> HIDE DEF b
  <1>10. Ends(b) => Ends(d)
    BY <1>2, <1>6, <1>8, <1>9, RxFine, TRUE \in BOOLEAN DEF Fine, Goes
  <1>11. Moves(cp[s], a) => Moves(cp[s], b) /\ Hears(b, d, h)
    <2>1. SUFFICES ASSUME Moves(cp[s], a) PROVE Moves(cp[s], b) /\ Hears(b, d, h)
      OBVIOUS
    <2>2. Moves(cp[s], b)
      BY <1>9, <2>1, MovesTwice
    <2>3. b \in Conn /\ Lined(b)
      BY <1>9, <2>2 DEF Goes, Steady, Moves
    <2>4. QED BY <1>2, <1>6, <1>7, <2>2, <2>3, RxHears
  <1>12. cp'[s] = d /\ cp'[p] = e
    BY <1>1, <1>3, <1>4
  <1> HIDE DEF d
  <1>13. CASE Ends(d)
    <2>1. Ends(cp'[s])
      BY <1>12, <1>13
    <2>2. QED BY <2>1, EndingSides DEF Side
  <1>14. CASE Moves(cp[s], a) /\ Moves(b, d)
    <2>1. Moves(cp[s], d)
      BY <1>11, <1>14, MovesTwice
    <2>2. \A t \in Side : Sure(cp[t], cp'[t])
      BY <1>1, <1>6, <1>12, <2>1 DEF Sure
    <2>3. QED BY <1>5, <2>2, SidesSettled, SureSettled
  <1>15. CASE Moves(cp[s], a) /\ Takes(b, d, h)
    <2>1. s = Peripheral /\ p = Central
      <3>1. b.side = cp[s].side
        BY <1>11, <1>15 DEF Moves
      <3>2. s = Peripheral
        BY <1>3, <1>15, <3>1 DEF Takes
      <3>3. QED BY <3>2 DEF p, Peer, Central, Peripheral
    <2>2. Bound(cp[Central], cp[Peripheral], TRUE)
      BY <1>5, SidesSettled DEF Settled
    <2>3. Bound(e, d, TRUE)
      BY <1>3, <1>5, <1>11, <1>15, <2>1, <2>2, BoundTakes DEF e, h
    <2>4. Lined(e) /\ Lined(d)
      BY <1>6, <1>15 DEF Moves, Takes
    <2>5. stage' = "air" /\ Peripheral \in attending'
      BY <1>5, SidesSettled
    <2>6. QED BY <1>12, <2>1, <2>3, <2>4, <2>5 DEF Settled
  <1>16. Ends(a) => Ends(d)
    BY <1>9, <1>10 DEF Goes
  <1>17. QED BY <1>8, <1>11, <1>13, <1>14, <1>15, <1>16 DEF Sure, Hears

\* The end of an event.
LEMMA DoneSettled ==
  ASSUME PInv, Settled, NEW free \in NtfFree, Done(free)
  PROVE  Ending' \/ Settled'
  <1>1. free \in BOOLEAN
    BY ProcedureAssumption
  <1>2. ASSUME NEW s \in Side PROVE Sure(cp[s], cp'[s])
    <2>1. cp'[s] \in {TxNtf(cp[s], free), cp[s]}
      BY DEF Done
    <2>2. cp[s] \in Conn /\ Lined(cp[s])
      BY SidesSettled DEF Settled, Side
    <2>3. QED BY <1>1, <2>1, <2>2, TxNtfMoves, MovesSelf DEF Sure
  <1>3. attending' = {}
    BY DEF Done
  <1>4. QED BY <1>2, <1>3, SidesSettled, SureSettled

\* Every step keeps the invariant.
LEMMA NextSettled == OInv /\ [Next]_vars => OInv'
  <1> SUFFICES ASSUME OInv, [Next]_vars PROVE OInv'
    OBVIOUS
  <1>1. PInv /\ PInv'
    BY NextFine DEF OInv
  <1>2. SUFFICES Ending' \/ Settled'
    BY <1>1 DEF OInv
  <1>3. ASSUME Ending => Ending', Settled /\ ~Ending => Ending' \/ Settled' PROVE Ending' \/ Settled'
    BY <1>3 DEF OInv
  <1>4. ASSUME NEW s \in Side, NEW proc \in Proc, NEW phys \in {{p} : p \in Phy},
               Request(s, proc, IF proc = "PHY_UPDATE" THEN phys ELSE {})
        PROVE  Ending' \/ Settled'
    <2> DEFINE x == IF proc = "PHY_UPDATE" THEN phys ELSE {}
    <2>1. x \in SUBSET Phy
      OBVIOUS
    <2>2. Request(s, proc, x)
      BY <1>4
    <2> HIDE DEF x
    <2>3. QED BY <1>1, <1>3, <2>1, <2>2, RequestSettled, RequestFine, EndingLasts
  <1>5. ASSUME NEW s \in Side, Terminate(s) PROVE Ending' \/ Settled'
    BY <1>1, <1>5, TerminateEnds
  <1>6. ASSUME NEW sides \in SUBSET Side, NEW free \in NtfFree, Begin(sides, free)
        PROVE  Ending' \/ Settled'
    BY <1>1, <1>3, <1>6, BeginSettled, BeginFine, EndingLasts
  <1>7. ASSUME NEW s \in Side, NEW free \in NtfFree, Deliver(s, free)
        PROVE  Ending' \/ Settled'
    BY <1>1, <1>3, <1>7, DeliverSettled, DeliverFine, EndingLasts
  <1>8. ASSUME NEW s \in Side, NEW free \in NtfFree, Acknowledge(s, free)
        PROVE  Ending' \/ Settled'
    <2> DEFINE d == TxAck(cp[s], free)
    <2>1. cp' = [cp EXCEPT ![s] = d] /\ UNCHANGED <<stage, attending>>
      BY <1>8 DEF Acknowledge
    <2>2. Fine(cp[s], d, Exempt(s)) /\ Steady(cp[s])
      BY <1>1, ExemptBoolean, ProcedureAssumption, TxAckFine DEF PInv
    <2>3. Settled => Sure(cp[s], d)
      BY <2>2, ProcedureAssumption, TxAckMoves DEF Settled, Side
    <2> HIDE DEF d
    <2>4. Ending => Ending'
      BY <1>1, <2>1, <2>2, OneSideFine, EndingLasts
    <2>5. QED BY <1>1, <1>3, <2>1, <2>3, <2>4, OneSideSettled
  <1>9. ASSUME NEW free \in NtfFree, Done(free) PROVE Ending' \/ Settled'
    BY <1>1, <1>3, <1>9, DoneSettled, DoneFine, EndingLasts
  <1>10. CASE cp' = cp /\ UNCHANGED <<stage, attending>>
    BY <1>10 DEF OInv, Settled, Ending
  <1>11. CASE Reconnect
    <2>1. cp' \in NewConns
      BY <1>11 DEF Reconnect
    <2>2. Central \in Side /\ Peripheral \in Side
      BY DEF Side
    <2>3. QED BY <2>1, <2>2, NewConnsLined DEF Settled, Bound, Follows, Waits, Ahead
  <1>12. QED
    BY <1>4, <1>5, <1>6, <1>7, <1>8, <1>9, <1>10, <1>11 DEF Next, Timeout, vars

\* Of two procedures that collide only one gets as far as an instant: no side waits
\* for two at once, while neither Host has ended its side, however requests cross,
\* PDUs and acknowledgments are delayed and events skipped (rr_st_idle, rr_tx and
\* the collision state of ull_llcp_remote and ull_llcp_local).
THEOREM OneInstantOnly == Spec => []OneInstant
  <1>1. Init => OInv
    <2> SUFFICES ASSUME Init PROVE OInv
      OBVIOUS
    <2>1. IInv /\ cp \in NewConns
      BY InitGood DEF Init
    <2>2. PInv
      BY <2>1, ExemptBoolean, NewConnsFine DEF PInv
    <2>3. Central \in Side /\ Peripheral \in Side
      BY DEF Side
    <2>4. Settled
      BY <2>1, <2>3, NewConnsLined DEF Settled, Bound, Follows, Waits, Ahead
    <2>5. QED BY <2>2, <2>4 DEF OInv
  <1>2. OInv => OneInstant
    <2> SUFFICES ASSUME OInv, ~Ending, NEW s \in Side,
                        Local(cp[s]).state = "WAIT_INSTANT", cp[s].remote.state = "WAIT_INSTANT"
                 PROVE  FALSE
      BY DEF OneInstant
    <2>1. PInv /\ Settled
      BY DEF OInv
    <2>2. CASE s = Peripheral
      BY <2>1, <2>2 DEF Settled, Bound, Waits
    <2>3. CASE s = Central
      BY <2>1, <2>3, SidesSettled DEF Settled, Lined, Legal, CentralLegal, Stands, Active
    <2>4. QED BY <2>2, <2>3 DEF Side
  <1>3. QED BY <1>1, <1>2, NextSettled, PTL DEF Spec
=============================================================================
