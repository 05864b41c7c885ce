--------------------------- MODULE ChannelMapUpdate ---------------------------
(***************************************************************************)
(* The channel map update procedure between a central and a peripheral:    *)
(* the central queues an indication that names an instant, and both take   *)
(* the new map into use in the ticker callback of the event that reaches   *)
(* it.  Each side skips anchor points (ticker conflicts, peripheral        *)
(* latency) and has prepares aborted in the pipeline, so each counts       *)
(* events on its own: event_counter in the LLL, latency_prepare for        *)
(* aborted prepares, lazy for skipped ones.                                *)
(*                                                                         *)
(* An anchor point is three stages: the central's ticker callback and      *)
(* prepare, the peripheral's, and the packets of the event.                *)
(***************************************************************************)
EXTENDS LocalChmu

CONSTANTS
  Map,              \* channel maps
  NumCtx,           \* bound: procedures queued at the central
  TxBufs,           \* control tx buffers, each holds an indication until received
  CentralSkip,      \* bound: anchor points in a row the central does not attend
  PeripheralSkip,   \* bound: the same of the peripheral, at least its latency
  MaxStall          \* bound: events an indication waits before the supervision timeout

ASSUME SkipAssumption ==
  /\ {NumCtx, TxBufs, CentralSkip, PeripheralSkip, MaxStall} \subseteq Nat
  /\ InstantDelta + CentralSkip + PeripheralSkip + MaxStall < HalfRange

Central == "central"
Peripheral == "peripheral"
Side == {Central, Peripheral}
MaxSkip(s) == IF s = Central THEN CentralSkip ELSE PeripheralSkip

NoInd == [chm |-> "none"]

VARIABLES
  anchor,             \* the number of the current anchor point
  stage,              \* "central", "peripheral", "event"
  event_counter,      \* per side: lll->event_counter, the next event to prepare
  latency_prepare,    \* per side: anchor points lost to aborted prepares
  lazy,               \* per side: anchor points skipped since the last callback
  prep_lazy,          \* the peripheral's conn->llcp.prep.lazy
  attending,          \* per side: has prepared this event
  data_chan_map,      \* per side: the map in use
  procs,              \* the central's procedures
  inds,               \* indications queued and not received yet
  rr,                 \* the peripheral's procedure waiting for its instant, or NoInd
  stalled,            \* events since the peripheral last took an indication
  reason              \* reason_final: why the connection has ended

counting == <<event_counter, latency_prepare, lazy>>
vars == <<anchor, stage, counting, prep_lazy, attending, data_chan_map,
          procs, inds, rr, stalled, reason>>

Init ==
  /\ anchor = 0 /\ stage = "central"
  /\ event_counter = [s \in Side |-> 0] /\ latency_prepare = [s \in Side |-> 0]
  /\ lazy = [s \in Side |-> 0] /\ prep_lazy = 0
  /\ attending = [s \in Side |-> FALSE]
  /\ \E m \in Map : data_chan_map = [s \in Side |-> m]
  /\ procs = <<>> /\ inds = <<>> /\ rr = NoInd
  /\ stalled = 0 /\ reason = "none"

Open == reason = "none"

\* ull_conn_event_counter, with l events skipped before the last callback.
\* Faulty variant: aborted prepares are forgotten.
EventCounterNoAborts(s, l) == Plus(event_counter[s], l)

EventCounter(s, l) == Plus(event_counter[s], latency_prepare[s] + l)

\* A ticker callback that did not come; a prepare that was aborted in the
\* pipeline (lll_conn_abort_cb); a prepare that ran (prepare_cb).
Skip(s) ==
  /\ latency_prepare[s] + lazy[s] < MaxSkip(s)
  /\ lazy' = [lazy EXCEPT ![s] = @ + 1]
  /\ attending' = [attending EXCEPT ![s] = FALSE]
  /\ UNCHANGED <<event_counter, latency_prepare>>

\* Faulty variant: only the aborted event is added, not the skipped ones before.
AbortOne(s) ==
  /\ latency_prepare[s] + lazy[s] < MaxSkip(s)
  /\ latency_prepare' = [latency_prepare EXCEPT ![s] = @ + 1]
  /\ lazy' = [lazy EXCEPT ![s] = 0]
  /\ attending' = [attending EXCEPT ![s] = FALSE]
  /\ UNCHANGED event_counter

Abort(s) ==
  /\ latency_prepare[s] + lazy[s] < MaxSkip(s)
  /\ latency_prepare' = [latency_prepare EXCEPT ![s] = @ + lazy[s] + 1]
  /\ lazy' = [lazy EXCEPT ![s] = 0]
  /\ attending' = [attending EXCEPT ![s] = FALSE]
  /\ UNCHANGED event_counter

Prepare(s) ==
  /\ event_counter' = [event_counter EXCEPT ![s] = Plus(@, latency_prepare[s] + lazy[s] + 1)]
  /\ latency_prepare' = [latency_prepare EXCEPT ![s] = 0]
  /\ lazy' = [lazy EXCEPT ![s] = 0]
  /\ attending' = [attending EXCEPT ![s] = TRUE]

-----------------------------------------------------------------------------
\* ull_cp_chan_map_update, by the Host or by the channel classification.
Request(m) ==
  /\ Open /\ Len(procs) < NumCtx
  /\ procs' = Append(procs, NewProc(m))
  /\ UNCHANGED <<anchor, stage, counting, prep_lazy, attending, data_chan_map,
                 inds, rr, stalled, reason>>

\* ull_cp_run in the central's callback.
CentralRun(ready) ==
  LET ec == EventCounter(Central, lazy[Central])
      sends == Sends(procs, ready) IN
    /\ sends => Len(inds) < TxBufs
    /\ procs' = AfterRun(procs, ec, ready)
    /\ data_chan_map' = [data_chan_map EXCEPT ![Central] = MapAfterRun(procs, ec, @)]
    /\ inds' = IF sends THEN Append(inds, [chm |-> Head(procs).chm, instant |-> Plus(ec, InstantDelta)])
                        ELSE inds

CentralSkips ==
  /\ Open /\ stage = "central" /\ stage' = "peripheral"
  /\ Skip(Central)
  /\ UNCHANGED <<anchor, prep_lazy, data_chan_map, procs, inds, rr, stalled, reason>>

\* ull_central_ticker_cb, then the prepare runs or is aborted.
CentralCallback(ready, aborted) ==
  /\ Open /\ stage = "central" /\ stage' = "peripheral"
  /\ CentralRun(ready)
  /\ IF aborted THEN Abort(Central) ELSE Prepare(Central)
  /\ UNCHANGED <<anchor, prep_lazy, rr, stalled, reason>>

\* Faulty variant: an instant is only obeyed when hit exactly.
InstantCameExactly == rr # NoInd /\ rr.instant = EventCounter(Peripheral, lazy[Peripheral])

\* rp_chmu_check_instant in the peripheral's callback.
InstantCame == rr # NoInd /\ InstantReachedOrPassed(rr.instant, EventCounter(Peripheral, lazy[Peripheral]))

PeripheralSkips ==
  /\ Open /\ stage = "peripheral" /\ stage' = "event"
  /\ Skip(Peripheral)
  /\ UNCHANGED <<anchor, prep_lazy, data_chan_map, procs, inds, rr, stalled, reason>>

\* ull_periph_ticker_cb, then the prepare runs or is aborted.
PeripheralCallback(aborted) ==
  /\ Open /\ stage = "peripheral" /\ stage' = "event"
  /\ prep_lazy' = lazy[Peripheral]
  /\ IF InstantCame
     THEN data_chan_map' = [data_chan_map EXCEPT ![Peripheral] = rr.chm] /\ rr' = NoInd
     ELSE UNCHANGED <<data_chan_map, rr>>
  /\ IF aborted THEN Abort(Peripheral) ELSE Prepare(Peripheral)
  /\ UNCHANGED <<anchor, procs, inds, stalled, reason>>

\* rp_chmu_st_wait_rx_channel_map_update_ind: the indication is received in an
\* event both attend.  The prepare has moved event_counter to the next event,
\* and prep.lazy still holds what was skipped before this one.  While waiting
\* for an instant the peripheral ignores another indication.
Takes(ind) == InstantNotPassed(ind.instant, EventCounter(Peripheral, prep_lazy))

RxInd ==
  /\ Open /\ stage = "event"
  /\ \A s \in Side : attending[s]
  /\ inds # <<>>
  /\ CASE rr # NoInd -> UNCHANGED <<rr, reason>>
       [] rr = NoInd /\ Takes(Head(inds)) -> rr' = Head(inds) /\ UNCHANGED reason
       [] rr = NoInd /\ ~Takes(Head(inds)) -> reason' = "INSTANT_PASSED" /\ UNCHANGED rr
  /\ inds' = Tail(inds)
  /\ stalled' = 0
  /\ UNCHANGED <<anchor, stage, counting, prep_lazy, attending, data_chan_map, procs>>

\* The event is over; what was not received is repeated in a later one.
NextAnchor ==
  /\ Open /\ stage = "event" /\ stalled < MaxStall
  /\ anchor' = Plus(anchor, 1) /\ stage' = "central"
  /\ stalled' = (IF inds = <<>> THEN 0 ELSE stalled + 1)
  /\ UNCHANGED <<counting, prep_lazy, attending, data_chan_map, procs, inds, rr, reason>>

SupervisionTimeout ==
  /\ Open /\ stage = "event" /\ stalled = MaxStall
  /\ reason' = "CONN_TIMEOUT"
  /\ UNCHANGED <<anchor, stage, counting, prep_lazy, attending, data_chan_map,
                 procs, inds, rr, stalled>>

\* A new connection starts from event 0 with the map of its CONNECT_IND.
Reconnect ==
  /\ ~Open
  /\ anchor' = 0 /\ stage' = "central"
  /\ event_counter' = [s \in Side |-> 0] /\ latency_prepare' = [s \in Side |-> 0]
  /\ lazy' = [s \in Side |-> 0] /\ prep_lazy' = 0
  /\ attending' = [s \in Side |-> FALSE]
  /\ \E m \in Map : data_chan_map' = [s \in Side |-> m]
  /\ procs' = <<>> /\ inds' = <<>> /\ rr' = NoInd
  /\ stalled' = 0 /\ reason' = "none"

CentralStage == CentralSkips \/ \E ready, aborted \in BOOLEAN : CentralCallback(ready, aborted)

PeripheralStage == PeripheralSkips \/ \E aborted \in BOOLEAN : PeripheralCallback(aborted)

Next ==
  \/ \E m \in Map : Request(m)
  \/ CentralStage
  \/ PeripheralStage
  \/ RxInd
  \/ NextAnchor
  \/ SupervisionTimeout
  \/ Reconnect

Spec == Init /\ [][Next]_vars

\* Time and the tickers go on, and the head of the central's procedures is let
\* through again and again.
Fairness ==
  /\ WF_vars(CentralStage) /\ WF_vars(PeripheralStage)
  /\ WF_vars(NextAnchor) /\ WF_vars(SupervisionTimeout)
  /\ SF_vars(CentralCallback(TRUE, FALSE))

FairSpec == Spec /\ Fairness

-----------------------------------------------------------------------------
(* Properties. *)

Ind == [chm : Map, instant : Counter]
Proc == [chm : Map, state : {"WAIT_TX", "WAIT_INSTANT"}, instant : Counter]

\* Every variable keeps its type.
TypeOK ==
  /\ anchor \in Counter /\ stage \in {"central", "peripheral", "event"}
  /\ event_counter \in [Side -> Counter]
  /\ \A s \in Side : latency_prepare[s] + lazy[s] <= MaxSkip(s)
  /\ latency_prepare \in [Side -> Nat] /\ lazy \in [Side -> Nat] /\ prep_lazy \in Nat
  /\ attending \in [Side -> BOOLEAN]
  /\ data_chan_map \in [Side -> Map]
  /\ procs \in Seq(Proc) /\ Len(procs) <= NumCtx
  /\ inds \in Seq(Ind) /\ Len(inds) <= TxBufs
  /\ rr \in Ind \union {NoInd}
  /\ stalled \in 0 .. MaxStall
  /\ reason \in {"none", "INSTANT_PASSED", "CONN_TIMEOUT"}

\* Has side s handled the current anchor point?
Handled(s) == stage = "event" \/ (s = Central /\ stage = "peripheral")

\* Both sides' event counters stay with the anchor points, whatever each side
\* skips and aborts: the shared numbering of events the instants rely on.
CountersTrackAnchors ==
  \A s \in Side :
    Plus(event_counter[s], latency_prepare[s] + lazy[s])
      = Plus(anchor, IF Handled(s) THEN 1 ELSE 0)

\* In an event both attend, they hop over the same map, unless an indication
\* whose instant has come is still on its way to the peripheral.
HopsAgree ==
  Open /\ stage = "event" /\ (\A s \in Side : attending[s])
  /\ data_chan_map[Central] # data_chan_map[Peripheral]
    => \E i \in DOMAIN inds : InstantReachedOrPassed(inds[i].instant, anchor)

\* An indication never finds the peripheral still busy with the last one: it
\* would be ignored (rp_chmu_st_wait_instant), or close the connection if a
\* local procedure is active too (ull_llcp.c 1699-1707).
PeripheralFree ==
  Open /\ stage = "event" /\ attending[Peripheral] /\ inds # <<>> => rr = NoInd

\* A requested map is taken into use by the central, or the connection ends.
RequestsTakeEffect ==
  \A m \in Map : (\E i \in DOMAIN procs : procs[i].chm = m) ~> data_chan_map[Central] = m \/ ~Open

\* Maps that differ become equal again, or the connection ends.
AgreementReturns ==
  data_chan_map[Central] # data_chan_map[Peripheral]
    ~> data_chan_map[Central] = data_chan_map[Peripheral] \/ ~Open

\* What the comment of ull_llcp_internal.h 332-336 says: an indication whose
\* instant is still ahead of the event it is received in is obeyed.  Refuted:
\* prep.lazy is added to an event counter that already includes it.
ClosedOnlyIfInstantPassed ==
  [][reason' = "INSTANT_PASSED" /\ Open => InstantReachedOrPassed(Head(inds).instant, anchor)]_vars
=============================================================================
