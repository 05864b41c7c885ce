-------------------------- MODULE PreparePipeline --------------------------
(***************************************************************************)
(* Who gets the radio.  The ULL hands the LLL a prepare for every event of *)
(* every role (lll_prepare); the LLL starts it, or keeps it in a pipeline  *)
(* while another event is on air and starts a ticker that makes the other  *)
(* give way (preempt).  An event that gives way is over, or goes back into *)
(* the pipeline to be resumed.  Every prepare ends in one done event, on   *)
(* which the ULL drops its reference to the role; a role is disabled once  *)
(* no reference is left (ull_disable, conn_disable).                       *)
(*                                                                         *)
(* LLL runs above the ULL and each of its functions is one step, computed  *)
(* by operators on the record lll.  The ticker's worker, its job and the   *)
(* demultiplexer run in the ULL, one at a time, and are cut where LLL may  *)
(* come between; the thread is cut where either may.                       *)
(***************************************************************************)
EXTENDS Integers, Sequences, FiniteSets, SequencesExt

CONSTANTS Connections, Advertisers, Scanners   \* the roles, by kind

Roles == Connections \cup Advertisers \cup Scanners

None == "none"

ASSUME RolesAssumption ==
  /\ IsFiniteSet(Roles) /\ None \notin Roles
  /\ Connections \cap Advertisers = {}
  /\ Scanners \cap (Connections \cup Advertisers) = {}

PipelineMax == 7             \* EVENT_PIPELINE_MAX
Slots == PipelineMax + 1     \* of the ring: one stays free
DoneMax == 4                 \* EVENT_DONE_MAX
OpsMax == 3                  \* TICKER_USER_LLL_OPS, one stays free
NoSlot == Slots

VARIABLES
  lll,       \* what LLL reads and writes, see Idle
  node,      \* the preempt ticker: at, the prepare it is for
  ull,       \* what the ULL is in the middle of, and its parameter
  ref, cb,   \* per role: prepare references, disabled_cb is set
  role,      \* per role: on, closing (a connection), off
  thread     \* the thread that disables a role

vars == <<lll, node, ull, ref, cb, role, thread>>

(***************************************************************************)
(* The record lll.  prep is the pipeline, an element is of role r, waits   *)
(* to be started or resumed, may have been aborted, and came at a time.    *)
(* A pointer to an element is its slot in the ring, counted from the head  *)
(* the step began with; h counts what the step has dequeued.  starts and   *)
(* stops are preempt_start_req - _ack and preempt_stop_req - _ack, runs is *)
(* preempt_req - preempt_ack, at is ticks_at_preempt.  due says that       *)
(* something quick was left undone before time last passed, self that a    *)
(* prepare put back was cancelled for its own sake, and fault names the    *)
(* first LL_ASSERT that failed.                                            *)
(***************************************************************************)
NoEvent == [active |-> FALSE, r |-> None, ending |-> FALSE]
Idle == [h |-> 0, prep |-> <<>>, curr |-> NoEvent, starts |-> 0, stops |-> 0,
         runs |-> 0, at |-> 0, ops |-> <<>>, done |-> <<>>, due |-> FALSE,
         self |-> FALSE, fault |-> None]
NodeIdle == [at |-> "idle", slot |-> NoSlot]
UllIdle == [at |-> "idle", slot |-> NoSlot]
ThreadIdle == [at |-> "run", r |-> None, sem |-> FALSE]

Count(x, s) == Cardinality({i \in DOMAIN s : s[i] = x})

Init ==
  /\ lll = Idle /\ node = NodeIdle /\ ull = UllIdle
  /\ ref = [r \in Roles |-> 0] /\ cb = [r \in Roles |-> FALSE]
  /\ role = [r \in Roles |-> "off"] /\ thread = ThreadIdle

(***************************************************************************)
(* LLL's functions.                                                        *)
(***************************************************************************)
\* LL_ASSERT: the first that fails names the fault, and the system stops.
Check(L, ok, name) == IF ok \/ L.fault # None THEN L ELSE [L EXCEPT !.fault = name]

Ready(e) == ~e.aborted /\ ~e.resume
SlotOf(L, i) == (L.h + i - 1) % Slots
At(L, slot) == L.prep[((slot - L.h) % Slots) + 1]

\* ull_prepare_dequeue_iter: the first ready prepare at or behind position i.
NextReady(L, i) == LET waiting == {j \in i .. Len(L.prep) : Ready(L.prep[j])}
                   IN IF waiting = {} THEN NoSlot
                      ELSE SlotOf(L, CHOOSE j \in waiting : \A k \in waiting : j <= k)
Position(L, slot) == ((slot - L.h) % Slots) + 1

Enqueue(L, e) ==
  IF Len(L.prep) = PipelineMax THEN Check(L, FALSE, "pipeline full")
  ELSE [L EXCEPT !.prep = Append(@, e)]
Pop(L) == IF L.prep = <<>> THEN L ELSE [L EXCEPT !.prep = Tail(@), !.h = @ + 1]

\* ticker_start of TICKER_ID_LLL_PREEMPT, for the prepare in a slot.
StartTimeout(L, slot, time) ==
  Check([L EXCEPT !.starts = @ + 1, !.at = time,
                  !.ops = Append(@, [op |-> "start", slot |-> slot, seen |-> FALSE])],
        Len(L.ops) < OpsMax, "ticker operations")
StopTimeout(L) ==
  IF L.stops > 0 \/ L.runs = 0 THEN L
  ELSE Check([L EXCEPT !.stops = @ + 1,
                       !.ops = Append(@, [op |-> "stop", slot |-> NoSlot, seen |-> FALSE])],
             Len(L.ops) < OpsMax, "ticker operations")

\* is_aborted = 1 for the element at position i, whose time no longer counts.
Mark(L, i) ==
  LET e == [L.prep[i] EXCEPT !.aborted = TRUE, !.at = 0]
  IN [L EXCEPT !.prep = [@ EXCEPT ![i] = e]]

\* preempt_ticker_start.  A timeout that is requested or runs is left alone, unless
\* the new prepare came before the one it is for: then that one gives way.  Only a
\* prepare put back by ull_prepare_dequeue comes before another, and the one it
\* finds first is itself.  The model ends there, without lll_done for it.
PreemptStart(L, first, prev, next) ==
  IF L.starts = 0 /\ L.runs = 0 THEN StartTimeout(L, first, At(L, first).at)
  ELSE IF prev = NoSlot \/ At(L, next).at >= L.at THEN L
  ELSE LET alone == Mark([L EXCEPT !.self = TRUE], Position(L, prev))
       IN StartTimeout(StopTimeout(alone), next, At(L, next).at)

\* lll_prepare_resolve: start e, found in a slot if it was in the pipeline, or keep it.
Resolve(L, e, slot) ==
  LET p == NextReady(L, 1)
  IN IF L.curr.active \/ (p # NoSlot /\ e.resume)
     THEN LET kept == Enqueue(L, e)
              new == SlotOf(kept, Len(kept.prep))
          IN IF e.resume \/ kept.fault # None THEN kept
             ELSE PreemptStart(kept, IF p = NoSlot THEN new ELSE p, p, new)
     ELSE LET begun == [Check(L, p \in {NoSlot, slot}, "another is ready")
                          EXCEPT !.curr = [active |-> TRUE, r |-> e.r, ending |-> FALSE]]
              next == IF p = NoSlot THEN NoSlot ELSE NextReady(begun, Position(L, p) + 1)
          IN IF next = NoSlot THEN begun ELSE PreemptStart(begun, next, NoSlot, next)

\* ull_prepare_dequeue on a record of what is left and of the first two resumed
\* roles met: one turn of its loop, and the loop, which meets each element of the
\* pipeline twice at most.
Walk(L, one, two, over) ==
  [lll |-> L, one |-> one, two |-> two, over |-> over \/ L.prep = <<>> \/ L.fault # None]

\* Mutant: an aborted element at the head ends the traversal.
TurnStopsAtAborted(w) ==
  IF w.over THEN w
  ELSE LET e == Head(w.lll.prep)
       IN Walk(Pop(IF e.aborted THEN w.lll ELSE Resolve(w.lll, e, SlotOf(w.lll, 1))), None, None, TRUE)

Turn(w) ==
  IF w.over THEN w
  ELSE LET L == w.lll
           e == Head(L.prep)
           rest == Pop(IF e.aborted THEN L ELSE Resolve(L, e, SlotOf(L, 1)))
           resumed == ~e.aborted /\ e.resume
           one == IF resumed /\ w.one = None THEN e.r ELSE w.one
           two == IF resumed /\ w.one # None /\ w.two = None THEN e.r ELSE w.two
           next == Head(rest.prep)
       IN Walk(rest, one, two, \/ Ready(e)
                               \/ /\ rest.prep # <<>>
                                  /\ resumed /\ next.resume /\ next.r \in {one, two})
Dequeue(L) ==
  LET turns[n \in 0 .. 2 * Slots] ==
        IF n = 0 THEN Walk(L, None, None, FALSE) ELSE Turn(turns[n - 1])
  IN turns[2 * Slots].lll

\* lll_done, after the current event has been reset if it is the one.
Done(L, r) ==
  LET rest == Dequeue(L)
  IN IF Len(rest.done) = DoneMax THEN Check(rest, FALSE, "done full")
     ELSE [rest EXCEPT !.done = Append(@, r)]

\* is_aborted = 1 and abort_cb of the prepare in a slot, which calls lll_done.
Cancel(L, slot) ==
  LET i == Position(L, slot) IN Done(Mark(L, i), L.prep[i].r)

\* Cancel all prepares of a role, looking again from the head after each.  A turn
\* with none left changes nothing.
Mine(L, r) == {i \in DOMAIN L.prep : ~L.prep[i].aborted /\ L.prep[i].r = r}
CancelFirst(L, r) ==
  IF Mine(L, r) = {} \/ L.fault # None \/ L.self THEN L
  ELSE Cancel(L, SlotOf(L, CHOOSE i \in Mine(L, r) : \A j \in Mine(L, r) : i <= j))
CancelAll(L, r) ==
  LET left[n \in 0 .. Slots] == IF n = 0 THEN L ELSE CancelFirst(left[n - 1], r)
  IN left[Slots]

AbortCurrent(L) == [L EXCEPT !.curr = [@ EXCEPT !.ending = TRUE]]

\* Mutant: the parameter of the event on air is kept.
ResumeEnqueueKeepsParam(L) ==
  Enqueue(L, [r |-> L.curr.r, aborted |-> FALSE, resume |-> TRUE, at |-> 0])

\* resume_enqueue: no done event will tell of the event on air.
ResumeEnqueue(L) ==
  Enqueue([L EXCEPT !.curr = [@ EXCEPT !.r = None]],
          [r |-> L.curr.r, aborted |-> FALSE, resume |-> TRUE, at |-> 0])

\* What is_abort_cb of the current event may answer to the next one's.
Answers(curr, next) ==
  IF curr \notin Scanners THEN {"cancel"}
  ELSE {"continue"} \cup (IF next = curr THEN {} ELSE {"again"})

\* Mutant: a timeout that finds another prepare first in the queue is not restarted.
PreemptIgnoresOther(L, slot, answer) ==
  LET next == NextReady(L, 1)
  IN IF ~L.curr.active \/ L.curr.r = None \/ next = NoSlot \/ next # slot THEN L
     ELSE IF answer = "continue" THEN Cancel(L, next)
     ELSE IF answer = "again" THEN ResumeEnqueue(CancelAll(AbortCurrent(L), L.curr.r))
     ELSE AbortCurrent(L)

\* preempt, for the prepare in a slot.
Preempt(L, slot, answer) ==
  LET next == NextReady(L, 1)
  IN IF ~L.curr.active \/ L.curr.r = None \/ next = NoSlot THEN L
     ELSE IF next # slot THEN PreemptStart(L, next, NoSlot, next)
     ELSE IF answer = "continue" THEN Cancel(L, next)
     ELSE IF answer = "again" THEN ResumeEnqueue(CancelAll(AbortCurrent(L), L.curr.r))
     ELSE AbortCurrent(L)

\* lll_disable of a role.
LllDisable(L, r) ==
  CancelAll(IF r = L.curr.r THEN AbortCurrent(L) ELSE L, r)

(***************************************************************************)
(* What a step leaves: h = 0, slots counted from the new head, and times   *)
(* replaced by their ranks.  A prepare that comes has a time above any     *)
(* rank.  A pointer to an element that has left keeps its slot only while  *)
(* the pipeline occupies it: the ring is long enough that it does not come *)
(* round before the pointer is used.                                       *)
(***************************************************************************)
Now == PipelineMax + 2

IsCompared(L, u) == L.starts > 0 \/ L.runs > 0 \/ u.at = "starting"
Times(L, u) ==
  ({L.prep[i].at : i \in DOMAIN L.prep} \cup (IF IsCompared(L, u) THEN {L.at} ELSE {})) \ {0}
Rank(times, t) == Cardinality({x \in times : x <= t})

FromHead(L, slot, isUsed) ==
  LET i == (slot - L.h) % Slots IN IF isUsed /\ i < Len(L.prep) THEN i ELSE NoSlot

SettledPrep(L, times) == [i \in DOMAIN L.prep |-> [L.prep[i] EXCEPT !.at = Rank(times, @)]]
SettledOps(L) ==
  [i \in DOMAIN L.ops |-> [L.ops[i] EXCEPT !.slot = FromHead(L, @, L.ops[i].op = "start")]]

Settled(L, u) ==
  LET times == Times(L, u)
  IN [L EXCEPT !.h = 0, !.due = @ /\ (L.done # <<>> \/ L.curr.ending),
               !.at = IF IsCompared(L, u) THEN Rank(times, @) ELSE 0,
               !.prep = SettledPrep(L, times), !.ops = SettledOps(L)]
Settle(L, n, u) ==
  /\ lll' = Settled(L, u)
  /\ node' = [n EXCEPT !.slot = FromHead(L, @, n.at # "idle")]
  /\ ull' = [u EXCEPT !.slot = FromHead(L, @, u.at = "expired")]

\* The model ends where an assertion fails, or where a prepare is cancelled for its
\* own sake; in the latter case the ticker still serves what was asked of it.
NoFault == lll.fault = None
Running == NoFault /\ ~lll.self

\* Timeouts, intervals and events last longer than the ULL takes to see a done
\* event and the radio to stop: what is left undone is not left a second time.
Later == [lll EXCEPT !.due = @ \/ lll.done # <<>> \/ lll.curr.ending]

\* The radio interrupt that ends the event on air, by itself or after its abort.
EventOver ==
  /\ Running /\ lll.curr.active
  /\ \/ lll.curr.ending /\ Settle(Done([lll EXCEPT !.curr = NoEvent], lll.curr.r), node, ull)
     \/ /\ ~lll.curr.ending /\ ~lll.due
        /\ Settle(Done([Later EXCEPT !.curr = NoEvent], lll.curr.r), node, ull)
  /\ UNCHANGED <<ref, cb, role, thread>>

(***************************************************************************)
(* The ULL.                                                                *)
(***************************************************************************)
\* An interval is longer than a preempt timeout: the last prepare has been dealt with.
InTime(r) == \A i \in DOMAIN lll.prep : Ready(lll.prep[i]) => lll.prep[i].r # r

\* A ticker callback of a role, and lll_prepare in the LLL.
Prepare(r) ==
  /\ Running /\ ull.at = "idle" /\ role[r] = "on" /\ InTime(r) /\ ~lll.due
  /\ ref' = [ref EXCEPT ![r] = @ + 1]
  /\ Settle(Resolve(Later, [r |-> r, aborted |-> FALSE, resume |-> FALSE, at |-> Now], NoSlot),
            node, ull)
  /\ UNCHANGED <<cb, role, thread>>

CanExpire == Running /\ ull.at = "idle" /\ node.at = "running" /\ ~lll.due

\* preempt_ticker_cb up to its mayfly_enqueue.
Expire ==
  /\ CanExpire
  /\ Settle(Check([Later EXCEPT !.runs = @ - 1], lll.runs > 0, "expired unasked"),
            [node EXCEPT !.at = "expired"], [at |-> "expired", slot |-> node.slot])
  /\ UNCHANGED <<ref, cb, role, thread>>

\* The mayfly: preempt, in the LLL.
PreemptCb ==
  /\ Running /\ ull.at = "expired"
  /\ \E answer \in {"continue", "again", "cancel"} :
       /\ LET next == NextReady(lll, 1)
          IN lll.curr.r # None /\ next # NoSlot
               => answer \in Answers(lll.curr.r, At(lll, next).r)
       /\ Settle(Preempt(lll, ull.slot, answer), node, UllIdle)
  /\ UNCHANGED <<ref, cb, role, thread>>

\* ticker_job manages the next stop operation, unless the node's expiry is not
\* through the bottom half; its callback is cut at preempt_stop_ack.
Unseen(op) == {i \in DOMAIN lll.ops : ~lll.ops[i].seen /\ lll.ops[i].op = op}
FirstStop == CHOOSE i \in Unseen("stop") : \A j \in Unseen("stop") : i <= j
SeenBefore(ops, k) == [i \in DOMAIN ops |-> [ops[i] EXCEPT !.seen = @ \/ i < k]]

JobStop ==
  /\ NoFault /\ ull.at \in {"idle", "managing"} /\ Unseen("stop") # {} /\ node.at # "expired"
  /\ Settle([lll EXCEPT !.ops = RemoveAt(SeenBefore(@, FirstStop), FirstStop), !.stops = @ - 1],
            NodeIdle, [UllIdle EXCEPT !.at = "stopping"])
  /\ UNCHANGED <<ref, cb, role, thread>>

\* Mutant: ticker_stop_op_cb leaves preempt_req.
StopOpCbKeepsRuns ==
  /\ NoFault /\ ull.at = "stopping"
  /\ Settle(lll, node, [UllIdle EXCEPT !.at = "managing"])
  /\ UNCHANGED <<ref, cb, role, thread>>

StopOpCb ==
  /\ NoFault /\ ull.at = "stopping"
  /\ Settle([lll EXCEPT !.runs = 0], node, [UllIdle EXCEPT !.at = "managing"])
  /\ UNCHANGED <<ref, cb, role, thread>>

\* The rest of the job's first pass, and the bottom half.
JobRest ==
  /\ NoFault /\ ull.at \in {"idle", "managing"}
  /\ Unseen("stop") # {} => node.at = "expired"
  /\ ull.at = "managing" \/ lll.ops # <<>> \/ node.at = "expired"
  /\ LET ops == SeenBefore(lll.ops, IF Unseen("stop") = {} THEN Len(lll.ops) + 1 ELSE FirstStop)
     IN Settle([lll EXCEPT !.ops = ops], IF node.at = "expired" THEN NodeIdle ELSE node,
               [UllIdle EXCEPT !.at = IF ops # <<>> /\ Head(ops).seen THEN "inserting" ELSE "idle"])
  /\ UNCHANGED <<ref, cb, role, thread>>

\* The job inserts the node; the callback of the start is cut at preempt_start_ack.
JobStart ==
  /\ NoFault /\ ull.at = "inserting"
  /\ LET op == Head(lll.ops)
     IN Settle(Check([lll EXCEPT !.ops = Tail(@), !.starts = @ - 1], node.at = "idle", "start failed"),
               [at |-> "running", slot |-> op.slot],
               [UllIdle EXCEPT !.at = "starting"])
  /\ UNCHANGED <<ref, cb, role, thread>>

StartOpCb ==
  /\ NoFault /\ ull.at = "starting"
  /\ Settle(Check([lll EXCEPT !.runs = @ + 1], lll.runs = 0, "runs already"), node,
            [UllIdle EXCEPT !.at = IF lll.ops # <<>> /\ Head(lll.ops).seen
                                   THEN "inserting" ELSE "idle"])
  /\ UNCHANGED <<ref, cb, role, thread>>

CanDemux == Running /\ ull.at = "idle" /\ lll.done # <<>>

\* Mutant: the done event is handled and stays in the queue.
DemuxKeepsDone ==
  /\ CanDemux
  /\ LET r == Head(lll.done)
     IN ref' = IF r = None THEN ref ELSE [ref EXCEPT ![r] = @ - 1]
  /\ UNCHANGED <<lll, node, ull, cb, role, thread>>

\* Mutant: any done event calls disabled_cb.
DemuxAnyDone ==
  /\ CanDemux
  /\ LET r == Head(lll.done)
         isLast == r # None /\ cb[r]
     IN /\ Settle(Check([lll EXCEPT !.done = Tail(@)], r # None => ref[r] > 0, "no reference"),
                  node, ull)
        /\ ref' = IF r = None THEN ref ELSE [ref EXCEPT ![r] = @ - 1]
        /\ role' = IF isLast /\ role[r] = "closing" THEN [role EXCEPT ![r] = "off"] ELSE role
        /\ thread' = [thread EXCEPT !.sem = @ \/ (isLast /\ thread.r = r)]
  /\ UNCHANGED cb

\* rx_demux_event_done.
Demux ==
  /\ CanDemux
  /\ LET r == Head(lll.done)
         isLast == r # None /\ ref[r] = 1 /\ cb[r]
     IN /\ Settle(Check([lll EXCEPT !.done = Tail(@)], r # None => ref[r] > 0, "no reference"),
                  node, ull)
        /\ ref' = IF r = None THEN ref ELSE [ref EXCEPT ![r] = @ - 1]
        /\ role' = IF isLast /\ role[r] = "closing" THEN [role EXCEPT ![r] = "off"] ELSE role
        /\ thread' = [thread EXCEPT !.sem = @ \/ (isLast /\ thread.r = r)]
  /\ UNCHANGED cb

\* conn_disable, and tx_lll_flush at once if there is nothing to wait for.
ConnDisable(r) ==
  /\ Running /\ ull.at = "idle" /\ r \in Connections /\ role[r] = "on" /\ ~lll.due
  /\ IF ref[r] = 0
     THEN /\ role' = [role EXCEPT ![r] = "off"]
          /\ UNCHANGED <<lll, node, ull, cb>>
     ELSE /\ role' = [role EXCEPT ![r] = "closing"] /\ cb' = [cb EXCEPT ![r] = TRUE]
          /\ Settle(LllDisable(Check(Later, ~cb[r], "disabled twice"), r), node, ull)
  /\ UNCHANGED <<ref, thread>>

\* A role is set up, its header cleared by ull_hdr_init, and its ticker started.
Start(r) ==
  /\ Running /\ ull.at = "idle" /\ role[r] = "off" /\ thread.r # r
  /\ role' = [role EXCEPT ![r] = "on"] /\ cb' = [cb EXCEPT ![r] = FALSE]
  /\ ref' = [ref EXCEPT ![r] = 0]
  /\ UNCHANGED <<lll, node, ull, thread>>

(***************************************************************************)
(* A thread disables an advertiser or scanner: ull_ticker_stop_with_mark   *)
(* and ull_disable, cut where the ULL may come between.                    *)
(***************************************************************************)
ThreadRuns ==
  Running /\ ull.at = "idle" /\ lll.done = <<>> /\ lll.ops = <<>> /\ node.at # "expired"

TickerStop(r) ==
  /\ ThreadRuns /\ thread.at = "run" /\ r \notin Connections /\ role[r] = "on"
  /\ role' = [role EXCEPT ![r] = "off"]
  /\ thread' = [at |-> "stopped", r |-> r, sem |-> FALSE]
  /\ UNCHANGED <<lll, node, ull, ref, cb>>

NoReference == ref[thread.r] = 0

FirstCheck ==
  /\ ThreadRuns /\ thread.at = "stopped"
  /\ thread' = IF NoReference THEN ThreadIdle ELSE [thread EXCEPT !.at = "checked"]
  /\ UNCHANGED <<lll, node, ull, ref, cb, role>>

SetDisabledCb ==
  /\ ThreadRuns /\ thread.at = "checked"
  /\ cb' = [cb EXCEPT ![thread.r] = TRUE]
  /\ thread' = [thread EXCEPT !.at = "set"]
  /\ UNCHANGED <<lll, node, ull, ref, role>>

\* Mutant: the reference count is not looked at again.
SecondCheckSkipped ==
  /\ ThreadRuns /\ thread.at = "set"
  /\ thread' = [thread EXCEPT !.at = "waits"]
  /\ Settle(LllDisable(lll, thread.r), node, ull)
  /\ UNCHANGED <<ref, cb, role>>

SecondCheck ==
  /\ ThreadRuns /\ thread.at = "set"
  /\ IF NoReference THEN thread' = ThreadIdle /\ UNCHANGED <<lll, node, ull>>
     ELSE /\ thread' = [thread EXCEPT !.at = "waits"]
          /\ Settle(LllDisable(lll, thread.r), node, ull)
  /\ UNCHANGED <<ref, cb, role>>

SemTake ==
  /\ ThreadRuns /\ thread.at = "waits" /\ thread.sem
  /\ thread' = ThreadIdle
  /\ UNCHANGED <<lll, node, ull, ref, cb, role>>

Lll == EventOver \/ PreemptCb
Job == JobStop \/ StopOpCb \/ JobRest \/ JobStart \/ StartOpCb
Thread == FirstCheck \/ SetDisabledCb \/ SecondCheck \/ SemTake

CanEnd == /\ Running /\ lll.curr.active
          /\ lll.curr.ending \/ (~lll.due /\ lll.curr.r \notin Scanners)
CanGoOn == /\ NoFault
           /\ ull.at # "idle" \/ lll.ops # <<>> \/ node.at = "expired"

Next ==
  \/ Lll \/ Job \/ Expire \/ Demux
  \/ \E r \in Roles : Prepare(r) \/ ConnDisable(r) \/ Start(r) \/ TickerStop(r)
  \/ Thread

Spec == Init /\ [][Next]_vars

(***************************************************************************)
(* Events end, a scanner's only when they give way; interrupts are served  *)
(* and timeouts expire.  Strong fairness, written with the guards of the   *)
(* actions for ENABLED.                                                    *)
(***************************************************************************)
Fairness ==
  /\ []<>CanEnd => []<><<EventOver>>_vars
  /\ []<>CanExpire => []<><<Expire>>_vars
  /\ []<>CanGoOn => []<><<PreemptCb \/ Job>>_vars
  /\ []<>CanDemux => []<><<Demux>>_vars

FairSpec == Spec /\ Fairness

(***************************************************************************)
(* Properties.                                                             *)
(***************************************************************************)
Element == [r : Roles, aborted : BOOLEAN, resume : BOOLEAN, at : 0 .. Now]
Operation == [op : {"start", "stop"}, slot : 0 .. NoSlot, seen : BOOLEAN]

\* The shape of the state; the pipeline, the operations and the done events fit.
TypeOK ==
  /\ lll.prep \in Seq(Element) /\ Len(lll.prep) <= PipelineMax
  /\ lll.ops \in Seq(Operation) /\ Len(lll.ops) <= OpsMax
  /\ lll.done \in Seq(Roles \cup {None}) /\ Len(lll.done) <= DoneMax
  /\ lll.curr \in [active : BOOLEAN, r : Roles \cup {None}, ending : BOOLEAN]
  /\ lll.h = 0 /\ {lll.starts, lll.stops, lll.runs} \subseteq 0 .. OpsMax /\ lll.at \in 0 .. Now
  /\ {lll.due, lll.self} \subseteq BOOLEAN
  /\ node \in [at : {"idle", "running", "expired"}, slot : 0 .. NoSlot]
  /\ ull \in [at : {"idle", "expired", "managing", "stopping", "inserting", "starting"},
              slot : 0 .. NoSlot]
  /\ ref \in [Roles -> Nat] /\ cb \in [Roles -> BOOLEAN]
  /\ role \in [Roles -> {"on", "closing", "off"}]
  /\ thread \in [at : {"run", "stopped", "checked", "set", "waits"},
                 r : Roles \cup {None}, sem : BOOLEAN]

\* Of all the assertions of the pipeline, the preempt ticker, the done events and
\* the references, only that of ticker_start_op_cb can fail: a timeout requested
\* between preempt_start_ack++ and preempt_req++ is requested twice.
OtherAssertionsHold == lll.fault \in {None, "start failed"}

\* Unless a prepare was cancelled for its own sake when it went back into the
\* pipeline, a role's references are its prepares that wait, its event on air
\* and its done events: each prepare ends in one done event, whatever is aborted,
\* resumed or put back.
References == ~lll.self /\ OtherAssertionsHold =>
  \A r \in Roles :
    ref[r] = Cardinality(Mine(lll, r))
             + (IF lll.curr.r = r THEN 1 ELSE 0) + Count(r, lll.done)

\* Once a role is off and no thread is at it, nothing in LLL is left that would
\* run its event: what ull_disable and conn_disable are for.
DisabledIsGone == ~lll.self /\ OtherAssertionsHold =>
  \A r \in Roles : role[r] = "off" /\ thread.r # r =>
    /\ ref[r] = 0 /\ lll.curr.r # r
    /\ \A i \in DOMAIN lll.prep : lll.prep[i].r = r => lll.prep[i].aborted

\* While the radio is idle no prepare and no resume waits, for nothing would start it;
\* and once the ULL has seen all done events, no one waits for another.
SilenceOwesNothing == ~lll.self /\ ~lll.curr.active /\ OtherAssertionsHold =>
  /\ \A i \in DOMAIN lll.prep : lll.prep[i].aborted
  /\ lll.done = <<>> => /\ \A r \in Roles : role[r] # "closing"
                        /\ thread.at = "waits" => thread.sem

\* While a prepare waits behind an event that is not giving way, a preempt timeout
\* is requested, runs, or is being dealt with, however often it was stopped,
\* replaced or found to be for a prepare that is gone.
WaitingHasTimeout == OtherAssertionsHold =>
  (/\ lll.curr.active /\ lll.curr.r # None /\ ~lll.curr.ending
  /\ NextReady(lll, 1) # NoSlot
  => lll.starts > 0 \/ lll.runs > 0 \/ ull.at \in {"starting", "expired"})

\* A thread that waits for a role is given its semaphore, by the role's last done
\* event.  Scanners excepted: the preempt callback, between the abort of lll_disable
\* and the radio's interrupt, puts a scanner back into the pipeline, and nothing
\* stops it again.
DisableReturns ==
  thread.at = "waits" ~> \/ thread.at # "waits" \/ thread.sem
                        \/ thread.r \in Scanners \/ ~Running
=============================================================================
