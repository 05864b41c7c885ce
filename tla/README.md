# Verification of the BLE controller with lightweight channel classification

The repository holds Zephyr's Bluetooth LE controller, extended with an adaptive
channel classification: a central counts the packets that succeed and fail on
each data channel and, every `LOGGING_EVENTS` connection events, asks its peer
to stop using the bad ones. This directory models that classification and what
it rests on, checks the models with TLC and proves theorems about them with
TLAPS. Paths below are relative to `nRFTesting/controller/ll_sw/` unless they
name another directory.

Contents: 1 the system, 2 the modules, 3 the runs, 4 fairness, 5 the proofs,
6 what the runs refute and what else was seen, 7 what is not modelled, 8 what
could follow.

## 1. The system

### 1.1 Parts

| Part | State it keeps | Operations | What makes it correct |
| --- | --- | --- | --- |
| Adaptive classification (`nordic/lll/lll_conn.c`, `lll_conn.h`, `nordic/lll/lll_central.c`, `ull_central.c`) | per channel: packets sent, acknowledged, failed, and snapshots of the last two; the deadline `channel_update_counter`; `currentDataChannel` | count in `lll_conn_isr_rx`/`isr_rx_pdu`/`lll_conn_pdu_tx_prep`; classify in `lll_conn_isr_tx`; request through `lll_afh_conn_isr` | always two channels to hop over; a channel is given up only on evidence, and evidence of this connection; one classification per period |
| Acknowledgment scheme (`nordic/lll/lll_conn.c`, `lll_central.c`, `lll_peripheral.c`) | `sn`, `nesn`, `empty`, `crc_expire`, `memq_tx` | prepare, send, receive with every outcome, enqueue | every PDU arrives once and in order; a node is released only after it arrived; nothing is stuck |
| Channel map update procedure (`ull_llcp_chmu.c`, `ull_llcp_local.c`, `ull_llcp_internal.h`) | procedure state, instant, the map of each side | queue, send the indication, receive it, reach the instant | both sides use the same map in each event they share; an update ends |
| Event counting (`ull_conn_event_counter`, the prepares, `lll_conn_abort_cb`) | `event_counter`, `latency_prepare`, `lazy`, `prep.lazy` | callback, skipped callback, prepare, abort | both sides number the events alike, whatever each skips |
| Host channel map (`ull_chan.c`) | one map | `ll_chm_update`, `ull_chan_map_get` | never torn, never empty |
| LLCP request machines (`ull_llcp_local.c`, `ull_llcp_remote.c`, `ull_llcp.c`) | a list of procedures, a state, pauses, collision flags | enqueue, run, receive, acknowledge, time out | one procedure at a time, collisions end, no procedure is lost or waits for ever |
| Other procedures (`ull_llcp_conn_upd.c`, `_phy.c`, `_enc.c`, ...) | their own state machines | as above | as above |
| Connection life cycle (`ull_conn.c`, `ull_central.c`, `ull_peripheral.c`) | slots, handles, `reason_final`, supervision timer, reference counts | set up, ticker callback, done, clean up | a slot is reused only when nobody refers to it |
| Transmit path (`ull_tx_queue.c`, `ull_conn.c`) | control and data queues, pause count, buffer pools | enqueue, pause, resume, move to the LLL | order of control and data, no data during a pause |
| Channel selection (`lll_chan.c`) | none | CSA#1, CSA#2 | uses only channels of the map |
| Prepare pipeline (`nordic/lll/lll.c`, `ull.c`) | a queue of prepares, the event on air, the preempt ticker's request counters, done events, references | prepare, resolve, preempt, resume, abort, done, disable | each prepare ends in one done event; a waiting one has a timeout; a disabled role leaves nothing behind |
| Mayfly (`../util/mayfly.c`, `nordic/hal/nrf5/mayfly.c`) | queues of deferred calls, two counters per call, enable and disable requests | enqueue, run, enable | no call is lost or linked twice; a context is masked only for who locked it |
| memq, mfifo, double buffers, pools (`../util/`) | rings and lists | put, get | single producer, single consumer without locks |
| Ticker (`../ticker/ticker.c`) | a list of timed nodes, a ring of operations per user | start, stop, update, expire; the job | expires in order, counts what it skipped, carries out operations in order |
| Advertising, scanning, periodic and isochronous roles | - | - | unchanged by the classification |
| HCI (`../hci/`), radio and crypto hardware layer, RV32M1 port (`openisa/`), test application, MATLAB simulations | - | - | see section 7 |

`nRFTesting/testingApp/controller` is a copy of `nRFTesting/controller`; the
maps name the first.

### 1.2 How the parts interact

- Contexts. The radio interrupt (LLL) runs `prepare_cb`, `lll_conn_isr_tx` and
  `lll_conn_isr_rx`; the ticker callbacks and control procedures run in ULL_HIGH;
  the Host's calls in a thread. A higher one may interrupt a lower one anywhere.
- The ULL hands a *prepare* to the LLL for each event, with the number of
  callbacks skipped before it (`lazy`). The LLL runs it, defers it or aborts it;
  an aborted one leaves its events in `latency_prepare`.
- The classification runs **in the radio interrupt** and calls into the ULL
  (`lll_afh_conn_isr` -> `ull_cp_chan_map_update`), where it queues a procedure. The ULL's
  next callback runs the queue, sends the indication and, at the instant, changes
  `data_chan_map`, from which the next prepare picks the channel.
- The acknowledgment scheme carries the indication; its acknowledgment bits are
  the evidence the classification counts.
- The memory of a connection (`struct ll_conn`) goes back to a pool and is handed
  out again, for either role.

### 1.3 What is hard about it

Interleaving of three contexts; packets lost in either direction; events skipped
or aborted on one side only; 16-bit counters that wrap and are compared both
modulo 2^16 (the instants) and as plain numbers (the deadline); state of a slot
that survives its connection; several decisions queued behind each other. Each
is a line of `hazards` in `PROJECT.json`, with the properties that cover it or
the reason that none does yet.

## 2. The modules

| Module | Models | Extends / uses |
| --- | --- | --- |
| `Instant` | 16-bit event counters and the three instant comparisons of `ull_llcp_internal.h` | - |
| `LocalChmu` | the central's queue of channel map update procedures and a RUN event on its head | `Instant` |
| `ChannelClassifier` | the classification, the counters, the update it requests, the reuse of the slot | `LocalChmu` |
| `ReliableLink` | abstract: what a connection promises the layer above | - |
| `LinkArq` | the acknowledgment scheme of both sides | implements `ReliableLink` |
| `ChannelMapUpdate` | both sides of the procedure, their event counting, the wait for the indication | `LocalChmu` |
| `ChannelSelection` | algorithms #1 and #2 of `lll_chan.c` as operators | - |
| `ChannelHops` | the two composed: every prepare that runs picks the channel of its event | `ChannelMapUpdate`, `ChannelSelection`; implements `ChannelMapUpdate` |
| `ControlProcedures` | the local and remote request machines of both sides, with PHY update, feature exchange, channel map update and termination | - |
| `Mayfly` | deferred calls between contexts, and the lock built from masking one | - |
| `PreparePipeline` | who gets the radio: pipeline, preempt ticker, done events, references, disabling | - |
| `MC...` | constants and symmetry sets for TLC; `MCChannelMapUpdate` also holds the sample data of `lll_chan_sel_2_ut` as an `ASSUME` | |
| `LinkArqProofs`, `ChannelClassifierProofs`, `ChannelMapUpdateProofs`, `ChannelHopsProofs`, `ControlProceduresProofs`, `MayflyProofs`, `PreparePipelineProofs`, `SumProofs` | lemmas, theorems and proofs | |

Variables and actions keep the names of the C fields and functions wherever
there is one; `map` in `PROJECT.json` names the lines of each definition. An
operator introduced by "Faulty variant" or "Mutant" is not part of the model: it is the
same definition with a plausible mistake in it, and putting it in place of the right one
makes a run fail.

### 2.1 ChannelClassifier

One slot over successive connections. `Setup` ... `Disconnect` are a central
connection. `PeripheralFirstPacket` ... `PeripheralDisconnect` are a peripheral connection in the
same slot, which counts on whatever channel the last central event left
(`nordic/lll/lll_conn.c` 1126-1128): one action per packet received, since each makes the radio interrupt
count its failure and prepare, and count, a reply (316). Only a packet whose MIC is wrong counts one or two failures, prepares
nothing and ends the connection (`PeripheralMicFailure`, lines 264-280).
A central event is `TickerCb` (ULL: run the procedures, hand out a prepare), `LllPrepare` or `LllPrepareAborted`, then alternately `IsrTx` (a packet was sent;
classify if due) and one `IsrRx...` per outcome of the reception. `RadioAbort` ends an
event on air. Between any two of them the Host may set its map
(`HostChmUpdate`) and the ULL may run. Details kept because they decide something:

- the next packet is prepared, and counted as sent, even by a central that is
  done and does not send it; a MIC error counts a second failure on top of a
  missing acknowledgment, in either role. `LossRatioAtMostOne` holds because every reception but a MIC error
  comes with a packet of its own, and because an encrypted connection has had packets acknowledged, which
  counted without a failure: one for a central (`exchanged`), two for a peripheral (`EncryptionAcks`), whose
  `LL_START_ENC_REQ` goes out only once `LL_ENC_RSP` is acknowledged (`ull_llcp_enc.c` 834-862). With one
  instead of two the property fails: a peripheral only answers, so no packet of its own is set against the
  reception that fails. That the peer keeps to this order - encrypts only after `LL_START_ENC_REQ`, acknowledges only what was sent - is an assumption.
- `ull_cp_chan_map_update` may fail (`ChanMapUpdate`, first disjunct): the pool is shared. The
  deadline and the snapshots have moved by then and the decision is dropped.
- rates are compared by cross-multiplication, which is what the `double`
  division and comparison in lines 563 to 573 of `lll_conn.c` come to for counts of
  this size; a rate over 0 packets is 0, as in the code.
- `currtxPacketCount` is one number: no decision reads it per channel.

`acked`, `failed`, `failedHere`, `exchanged`, `periphAcks` and `elapsed` are history: the first
three and `elapsed` exist only for the properties, `exchanged` and `periphAcks` (which stops counting at 2) guard what
needs encryption.

### 2.2 LinkArq

Both sides in one module, indexed by side, since they run the same functions. A
connection event is `ConnEvent` (both prepare; the peripheral may not attend) and
then receptions in turn until one side is done or hears nothing. `Reply` is the
end of `lll_conn_isr_rx`: compute `done`, prepare the next packet, and, for a central that
is done, restore `empty`. `tx`, `head` and `rx` are kept whole (not as queues of what
is left) so that they can be compared; `head` is the acknowledged part. A
fragment of a long PDU is an element of `tx`, as each is sent and acknowledged alone.

### 2.3 ChannelMapUpdate

An anchor point has three stages: the central's callback and prepare, the
peripheral's, the packets. `CentralSkips`/`PeripheralSkips` are callbacks that did not come
(ticker conflicts, latency); an aborted prepare is the parameter `aborted`. Delivery
is a queue `inds`: that it is lossless, ordered and without duplicates
is what `LinkArq` establishes (`InOrderOnce`), that it may be late is `NextAnchor` with a
non-empty queue. `CentralCallback` with `ready = FALSE` stands for whatever holds the procedure
back (an active remote procedure, a pause, no buffer). The central is the same `LocalChmu` that
`ChannelClassifier` uses; here requests come from anyone (`Request`).

### 2.4 ChannelSelection and ChannelHops

`ChannelSelection` has no state: `Unmapped`/`Sel1` are `lll_chan_sel_1`, `PrnE`/`Sel2` are `chan_prn_e` and
`lll_chan_sel_2`, words are numbers below 65536 and bits are taken out with division. The run `chmu`
evaluates them for 37 channels against the sample data in `lll_chan.c` 350-377. The isochronous variants are not built.

`ChannelHops` gives each side its `data_chan_use` and lets the prepares of `ChannelMapUpdate` move it: `Selects` is
the selection in `prepare_cb` of either role, which counts `latency_prepare + lazy` events besides its
own. The hop increment, the algorithm and the access address's identifier come with the connection.

### 2.5 ControlProcedures

A side is a record of what `struct ll_conn` keeps for the protocol, a handler is a function
on it, and an action applies the handlers a context runs without a break: `Begin` the ticker
callbacks (`ull_cp_run`, remote before local), `Deliver` a received PDU with the acknowledgment it carries
(`ull_cp_tx_ack`, `ull_cp_tx_ntf`, `ull_cp_rx`), `Acknowledge` one without a PDU, `Done` the end of the event
(`ull_conn_done`). The Hosts act by `Request` and `Terminate`. `Rx` is the choice among local, remote and new
procedures of `ull_cp_rx`; `Prepare` is the collision table of `rr_st_idle`. An instant
is the number of events left until it. What it leaves out:

- data PDUs (they appear as the reasons to pause them), a queued PDU counts as handed to the LLL;
- the quota of control buffers: with the default configuration the procedures here never wait for one;
- pausing of local procedures (encryption and CIS only), constant tone extensions, length changes after a PHY
  change (lengths are 27 by default), the states of the request machines that follow from the rest;
- the procedure response timer: it is not an action, so nothing the runs show depends on it;
- the stale `prep.lazy` in the event counter of a reception (`ull_conn.c` 7928-7940, in `ChannelMapUpdate`): it only makes instants
  look passed more readily, so that more connections end; a property here that holds of a live connection is none the weaker.

Both directions use one PHY. Delivery is that of `LinkArq`: in order, once, one PDU
and its acknowledgment at a time. An event whose packets are all lost is `Begin` and `Done`.

### 2.6 Mayfly

`Chain` is `mayfly_enqueue` called from the same or a higher context, in one step; a thread's
enqueue is cut at each access (`ThreadState` ... `ThreadPend`) since it may be interrupted anywhere. `Start` ...
`Leave` are one round of `mayfly_run` for ULL_HIGH, cut between every two looks at shared state,
above all in `dequeue()`: `Release`, `Recheck` and `Reinsert` are the window in which a higher context
may pend the same mayfly again. `Lock`, `AskDisable`, `Access`, `AskEnable` and `Unmask` are the lock that `llcp_lr_enqueue` takes.
The two counters `req` and `ack` of a mayfly are modulo 4, which keeps the differences the code tests.

### 2.7 PreparePipeline

LLL runs above all the rest, so each of its functions is one step, computed by operators on the
record `lll`: `Resolve` (`lll_prepare_resolve`), `Done` (`lll_done` with the traversal `Dequeue`), `PreemptStart`, `Preempt`,
`CancelAll`, `LllDisable`. The two loops are functions of the number of their turns:
`Dequeue` takes sixteen `Turn`s, of which the rest change nothing once the loop is over (each of the seven elements is met
twice at most), and `CancelAll` eight `CancelFirst`s. The proofs show that both are enough.
The ULL is cut where LLL may come between: the ticker's expiry from its mayfly (`Expire`, `PreemptCb`), the two
halves of `ticker_stop_op_cb` and `ticker_start_op_cb` from the job around them (`JobStop`, `StopOpCb`, `JobRest`,
`JobStart`, `StartOpCb`). The thread of `ull_disable` is cut where either may come between.

- A pointer to a pipeline element is its place in the ring, so a pointer that outlives its
  element names whatever is there now, as in the code.
- Times are reduced to their order: `Settle` replaces them by ranks. All roles have the same preempt offset.
- `due` and `InTime` are the timing assumptions: a done event is seen and an abort takes effect before
  another timeout or interval passes, and an interval is longer than a preempt timeout.
- A connection and an advertiser always give way; a continuous scanner may refuse, or go back
  to be resumed (`Answers`). A directed advertiser of high duty would behave like the scanner.
- Every `LL_ASSERT` on the way is a `Check`; the first that fails is recorded in `fault` and ends the model.
- Configuration as built: no low-latency variants, `EVENT_PIPELINE_MAX` 7, `EVENT_DONE_MAX` 4, four places for
  operations of which three are usable. The call of LLL to itself by mayfly is a plain call there.

### 2.8 Abstractions, and why they are harmless

- A channel map is a set of channels. In `ChannelClassifier` the channel of an event is any
  channel of the map, so its results hold for both selection algorithms.
- Time is counted in events; the supervision timeout of `ChannelMapUpdate` is `MaxStall` events without
  progress of the indication. An indication waits for no other reason than
  that events fail, so a real timeout is at most this late.
- In `LocalChmu` other procedures ahead in the list are `ready = FALSE`; `ControlProcedures` has them.
- `HostMapsAssumption`: the Host's maps have at least two channels, as the HCI
  specification requires of the Host. `hci.c` does not check it.
- `ull_conn_chan_map_set` writes a map and its channel count one after the other; it is
  called from the ULL's ticker callback before the prepare of the event is handed out, so no prepare reads
  between the two, and both are one variable here.

## 3. The runs

| Run | Instance | What it shows |
| --- | --- | --- |
| `classifier` | 3 channels, counter of 8 values, training 3, period 2, 50 %, `NumCtx` 1, `MaxLazy` 1, `MaxTx` 4; 1.4M states | `TypeOK`, `EnoughChannels`, `LossRatioAtMostOne`, `ExclusionJustified`, `EarlyOnlyOnWrap` |
| `link_arq` | 2 payloads, 2 PDUs a side; 382k states | `TypeOK`, `InOrderOnce`, `ReleasedWereDelivered`, `InStepWhileUp`, `EventuallyDelivered`, and that `LinkArq` implements `ReliableLink` |
| `chmu` | 5 channels, maps of 4 and of 2, counter of 20 values, instant 2 ahead, 2 procedures, 1 buffer, 1 and 2 skips, stall 2; 364k states | `TypeOK`, `CountersTrackAnchors`, `HopsAgree`, `PeripheralFree`, `SidesMeet`, `RequestsTakeEffect`, `AgreementReturns` |
| `control_procedures` | 2 PHYs, instant 2 ahead, two requests of each Host from all procedures, a peripheral with and without PHY update, notification buffers there or not; 1.1M states | `TypeOK`, `BothExpectedOnlyIf`, `IncompatHasOwner`, `OneInstant`, `PhysAgree`, `PausedForProcedure`, `CollisionsSurvived` |
| `control_procedures_fair` | instant 1 ahead, two requests of the central and one of the peripheral, notification buffers there; 79k states | `ProceduresEnd` |
| `mayfly` | 5 mayflies: one of LLL, two of ULL_HIGH (one of them the ticker's), one of ULL_LOW, one of a thread; 3 calls of LLL, 2 of the thread; 428k states | `TypeOK`, `IdleOwesNothing`, `LinkedOnce`, `MaskedForHolder`, `EveryCallRuns` |
| `prepare_pipeline` | a connection, an advertiser, a scanner; 465k states | `TypeOK`, `OtherAssertionsHold`, `References`, `DisabledIsGone`, `SilenceOwesNothing`, `WaitingHasTimeout`, `DisableReturns` |
| `classification_spacing`, `own_evidence`, `instant_passed`, `one_context_inside`, `never_both_expected` | as above or smaller | each refutes one property, see section 6 |

Why the bounds are enough:

- `MaxTx` 4 packets suffice for one of three channels to be good, another bad and the third
  neither, which is where the branches of `NewMap` differ. The packet
  counters of the code are wide enough (64 bits) not to wrap.
- A counter of 8 values wraps at most once in a connection of `classifier`, as each of the 4 prepares advances it by 3 at
  most. An early classification needs no more: a deadline that has wrapped (period 2, from 6 or 7) ahead of the counter.
- In `LinkArq` every bit of the scheme takes both values with 2 PDUs a side. The safety properties and the
  refinement are proved for every number of them.
- In `chmu` the range (9 values ahead) exceeds instant + skips + stall = 7, the
  condition `SkipAssumption` states; with it the comparison cannot flip. The code's
  numbers are far inside: 6 + skipped events + a supervision timeout of at most
  32 s in intervals of 7.5 ms, below 32767. The counter's size is a multiple of the number of
  channels only to keep the accumulator from multiplying the states; `SidesMeet` is proved without it.
- Two procedures let a second update start while the indication of the first is still on its way to an instant.
- With two requests a side, one may be queued behind, or follow, a colliding one; a third adds no
  other place for a request to be in. The peripheral's second request is what `never_both_expected` needs.
- `MaxHits` 1: one call of LLL within a release of a mayfly. With two, see section 6.
- Three roles are the least with which a prepare waits behind another while a third is on
  air. Each kind once suffices for every answer of `is_abort_cb`; the pipeline (7) and the done queue (4) are not scaled down.

Deadlock is checked except in `link_arq` (a connection closed by a MIC failure stops for
good), `mayfly` and `one_context_inside` (the calls are bounded) and `prepare_pipeline` (the model ends at a failed
assertion). Symmetry is used in the classifier's runs only: channels, as far as the Host's maps are symmetric.
Those runs check no liveness.

## 4. Fairness

`LinkArq!Fairness`: the radio keeps running (weakly fair: the ticker goes on and
every reception ends, with a timeout if nothing else); the peripheral attends
again and again and each side receives a valid packet into a free buffer again
and again (strongly fair). The latter is not a promise of the code but the meaning of
"the link is not broken": where it fails for good, the supervision timeout
closes the connection, and the property is about the rest.

`ChannelMapUpdate!Fairness`: callbacks and anchor points go on (weakly fair, they are driven
by the ticker); the central's callback finds its procedure ready and its
prepare runs again and again (strongly fair: what holds it back are procedures that end and
buffers that come back, or their timeouts). No fairness of the reception is assumed: an
indication that never arrives ends the connection, which the properties allow.

`ControlProcedures!Fairness`: both sides attend an event with a notification buffer free, and each side hears
the next PDU or acknowledgment, again and again (strongly fair, the working link as above); events end (weakly fair);
the supervision timeout ends a connection whose sides use different PHYs (strongly fair, since the
sides of such a connection may also be brought together by a late instant).

`Mayfly!Fairness`: an interrupt that is pended and enabled is served and returns, and a thread goes on
with what it began (weakly fair: nothing else keeps a processor from them). No call is assumed to be made.

`PreparePipeline!Fairness`: an event on air ends, by itself unless it is a scanner's and by the radio's interrupt
once aborted; the preempt timeout expires; the ULL's job and the demultiplexer are run. They are
strongly fair because a higher context may come first any number of times; the formula is written with
the guards of the actions so that it can be read without `ENABLED`. Threads and intervals are under no fairness.

## 5. The proofs

Proved for every value of the constants that satisfies the named assumptions:

| Module | Theorem | Establishes |
| --- | --- | --- |
| `LinkArqProofs` | `TypeCorrect`, `DeliveredInOrderOnce`, `ReleaseIsJustified`, `SidesInStep` | the invariants of run `link_arq` |
| | `LinkRefinement` | `Spec => Link!Spec` |
| `ChannelClassifierProofs` | `TypeCorrect`, `AlwaysEnoughChannels` | the same invariants, for any finite set of two channels or more |
| | `LossRatioIsOne` | the invariant `LossRatioAtMostOne` |
| | `ExclusionsJustified`, `EarlyMeansWrapped` | the action properties |
| `SumProofs` | `LeastNatural`, `SumGrows` (lemmas) | library lemmas the proofs rest on, no results about the program: a set of naturals has a least member; the recursive sum over a finite set grows with one of its terms |
| `ChannelMapUpdateProofs` | `DistLater`, `ReachedDist` (lemmas) | arithmetic of instants for every even counter size |
| | `TypeCorrect`, `CountersTrack`, `SidesHopAlike`, `NeverBusy` | the invariants of run `chmu` |
| `ChannelHopsProofs` | `RemapUsed`, `Sel1Used`, `Sel2Used` | both algorithms select a channel of the map |
| | `PrnIsWord` | algorithm #2 draws a 16-bit word for every event |
| | `HopsRefine` | `HopSpec => Spec`, so that the above holds of the composition |
| | `SidesAlwaysMeet` | the invariant `SidesMeet` |
| `ControlProceduresProofs` | `ProceduresTyped`, `CollisionsHaveOwners` | `TypeOK` and `IncompatHasOwner` of run `control_procedures`, for any PHYs, requests and delay of instants |
| | `PauseHasProcedure` | the invariant `PausedForProcedure` |
| | `OneInstantOnly` | the invariant `OneInstant` |
| `MayflyProofs` | `TypeCorrect`, `MaskedOnlyForHolder`, `LinkedAtMostOnce` | three invariants of run `mayfly`, for any mayflies, owners and bounds |
| | `NothingOwedWhenIdle` | `IdleOwesNothing`, for any of them with `MaxHits <= 1` |
| `PreparePipelineProofs` | `TypeCorrect`, `ReferencesHold`, `DisabledIsGoneHolds`, `SilenceOwesNothingHolds`, `WaitingHasTimeoutHolds` | invariants of run `prepare_pipeline`, for any finite sets of connections, advertisers and scanners |
| | `OnlyCapacities` | of the assertions the model knows, only the one of section 6 and those on the room in the pipeline and among the done events can fail |

Assumptions: `DataAssumption`; `ChannelAssumption`, `HostMapsAssumption`,
`EventsAssumption`; `CounterModAssumption`, `InstantDeltaAssumption`, `SkipAssumption`; `NumChannelsAssumption`,
`HopsAssumption`; `ProcedureAssumption`; `MayflyAssumption`, `NoneAssumption`; `RolesAssumption`. The runs
evaluate them on their instances.

**LinkArq.** Ordered delivery is not inductive: a repeated packet could bring
anything. The invariant adds `InStep` - for each direction, whether the receiver's
`nesn` equals the sender's `sn` tells whether the packet last prepared has been
delivered, and `empty` whether it was worth delivering - and `AirMatches`, that the packet on
air is what its sender would send now. The second is why nothing but appending may
happen to the queue in between. One step per action; `RxPdu` splits on the two
bits. The refinement follows from the same invariant: a reception is an
`Exchange`, which may bring data, confirm data, both or neither.

**ChannelClassifier.** `ExclusionJustified` needs `Evidence`: a counter differs from its snapshot
exactly on the channels the history names. `EarlyOnlyOnWrap` needs `Deadline`: a deadline that has
not wrapped (it is at least `LoggingEvents`) is at least the remaining part of the period
ahead. `EnoughChannels` is inductive together with the types: the case to watch is a map
queued long before it is used. `LossRatioAtMostOne` compares a sum over the channels with one counter. `Backed` gives the sum a
reserve: besides a packet for every failure there is the one whose reply is awaited, and those that were acknowledged
before the connection could be encrypted (`PeripheralReserve` for a peripheral); a failure counted twice, or a reply counted before its packet, would use it up.
`Total` is `MapThenSumSet`, a recursive function on the subsets of the channels. That such a function exists
(`SumsExistUpTo`) and does not depend on the order in which `CHOOSE` takes the channels (`SumGrows`) is proved by a least
counterexample in the size of the set, since the induction theorems cannot be used.

**ChannelMapUpdate.** `CountersTrackAnchors` is inductive with the types: each side's
`event_counter + latency_prepare + lazy` grows by one per anchor point, modulo the
counter's size, whichever way the point is handled. `HopsAgree` needs the invariant `Inv`, in terms of
the signed distance `Dist` of an instant from the current anchor point:

- `OneWaits`: only the head of the queue waits for an instant, and by no more than
  the events the central has skipped;
- `Sent`: an indication in flight is as old as the stall at most, and one still
  ahead of its instant is the last and belongs to the waiting procedure;
- `Taken`: the same of what the peripheral has taken, which has no other behind it;
- `Announced`: a procedure whose instant is ahead is in flight or has been taken;
- `SameMap`: the maps the two sides *ought* to use now are equal, unless an indication in flight
  is late.

That no distance exceeds half the range follows from `SkipAssumption`, and makes the modulo
comparisons exact (`ReachedDist`, `NotPassedDist`). When both sides attend, nothing is overdue on
either, so the maps they ought to use are those they use. The stale `prep_lazy` of section 6
makes the peripheral stricter, never laxer (`TakesAhead`), so agreement survives it.

**ChannelHops.** That remapping stays in the map comes down to: a finite set of naturals has a member of each
rank below its size (`RankExists`). Induction is replaced by a least counterexample, and the existence of a
least natural number by the well-foundedness of strict inclusion among finite sets (`LeastNatural`).
`PrnIsWord` adds the bits one at a time (`SumGrows`).

The accumulator of algorithm #1 is no function of the anchor point, which wraps at another modulus.
The invariant `InPhase` compares the sides: `Ahead`, the accumulator once the events its side still has to count are
counted, is equal on both, or one hop apart while only the central has handled the anchor point. In an event both
attend nothing is left to count. Algorithm #2 follows from `CountersTrackAnchors`.

**ControlProcedures.** `IncompatHasOwner` is not inductive: a procedure could end, at its instant or with its
notification, while the collision state it has taken on is still set. `Owned` adds that such a procedure is in none of
the states in which it may end: the collision state is cleared before `WAIT_INSTANT_ON_AIR` and `WAIT_NTF` are entered.
Because handlers are functions on the record of a side, the proof is one lemma `Kept(c, H(c))` for each handler `H`, from
the updates of single fields up to `ull_cp_run`, `ull_cp_tx_ack` and `ull_cp_rx`, and one per action.

`PausedForProcedure` goes through the handlers a second time, with `Fine(c, H(c), excuse)`. A procedure of PHY update is
not enough: it must be in a state that still leads to `Resume` (`RemotePauses`, `LocalPauses`; both are left through
`Resume`, or with the connection). The central's `WAIT_RX_PHY_RSP` can be left without, by `UNKNOWN_RSP`, so the
invariant follows that PDU back to its sender: what a procedure waits for tells what it has sent (`Shape`), and a
queued `UNKNOWN_RSP` about `PHY_REQ` was sent by a side built without PHY update (`Harmless`). So with a termination,
which flushes a remote procedure that holds the pause: its sender is about to end. `Exempt`, the excuse of a side, is about
its peer and lasts, which is why each side's step can be taken by itself (`SidesFine`).

`OneInstant` is about one side and not inductive on either. The central rules itself: `Legal` says that a remote procedure
with an instant and a local one that is under way exclude each other, which is what its two flags of a collision are for. The
peripheral has no such rule and starts to wait for whatever indication reaches it. It is right because of the central:
an indication in its queue was sent by the one procedure that waits for the same instant (`Carried`), and none other is sent
before that instant (`Keeps`). So `Bound` relates the sides: an instant still to come for which the
peripheral waits is one for which the central waits (`Follows`), with no other indication queued; and in an event the peripheral attends
it has left no instant behind (`Ahead`), so that an indication heard then finds nobody waiting. `Bound` is
kept while the two count down together, at different points of the event. Each handler is shown to be a step
`Moves` (`Sure`, if it may end the connection), or `Takes` where an indication is heard; one lemma for each, as above. The
whole, `OInv`, holds until a Host ends its side, which is the exemption `OneInstant` states. The proof rests on
`PInv`, the invariant of `PausedForProcedure`, for what the procedures and PDUs of a side can be.

**Mayfly.** `MaskedForHolder` needs `MaskInv`, which follows a request to disable from the thread through the
flags into the frame of `mayfly_run` that will serve it; `LinkedOnce` needs `LinkInv`, what each context may conclude from
the two counters of a mayfly, although a higher one may have called since it read them.
`IdleOwesNothing` needs `OweInv`, what keeps a call from being lost: a mayfly that is owed is ready, or its caller is about to
make it so (`OwedReady`); one that is not idle is in a queue or on its way there (`NotLost`); a filled queue will be
looked at (`Wakes`); and `Window` says what the values read by `dequeue()` mean with no call of LLL since and with one. The
hypothesis `MaxHits <= 1` is what the two looks of `dequeue()` rely on: with two calls in between the conclusion is
false (section 6).

**PreparePipeline.** `References` is inductive only with what makes LLL find each prepare it owes, and the proof is mostly
about the operators on `lll`. `Inv` has four parts: `Typed`; `Ticking`, which ties the operations queued for the preempt
ticker to the three counters and to the node, so that a prepare that waits behind an event always has a timeout;
`Queued` - of two resumes of a role the earlier is aborted (`OneResume`), and while no event is on air every element
is aborted; and `RoleInv` with `ref[r] = Owed(lll, r)`, the prepares, the event on air and the done events of a role.
Each operator has a lemma that says what it makes of `lll` (`ResolveParts`, `TurnParts`, `DoneParts`, `CancelParts`,
`PreemptParts`, `DisableParts`, ...), and one per action puts them together.

- The traversal of `ull_prepare_dequeue` neither loses nor doubles an element (`TurnKeeps`: a resume put back at the end is
  counted once) and goes far enough: it ends only where the radio is taken or all that is left is aborted
  (`TurnReaches`). This is where `OneResume` is needed, as the loop stops at the second resume it has met before.
- `Settle`, which ranks times anew and moves the ring to place 0, changes nothing the invariant looks at (`SettledParts`, `SettledInv`).
- A failed start says nothing about the rest of the state, so `Inv` looks through it (`Sound`).
- The parts hold as long as nothing has been asserted and `self` (section 6) is false, as the run's invariants state.

Only model-checked:

- liveness (`EventuallyDelivered`, `RequestsTakeEffect`, `AgreementReturns`, `ProceduresEnd`, `EveryCallRuns`, `DisableReturns`),
  out of the prover's reach;
- `PhysAgree`, `BothExpectedOnlyIf` and `CollisionsSurvived`, which relate both sides of `ControlProcedures` to the PDUs in flight;
- `OtherAssertionsHold`: that the pipeline and the done queue have room depends on the number of roles,
  and is not true for every one. The other assertions it is about are `OnlyCapacities`.

## 6. What the runs refute, and what else was seen

1. `classification_spacing`. The deadline is stored as a 16-bit sum and compared with `>=`
   (`nordic/lll/lll_conn.c` 519, 531). Once the sum wraps, every packet sent classifies, until the counter
   wraps too: for up to 1000 events in 65536, with rates over a handful of packets each.
   `EarlyOnlyOnWrap` shows that nothing else brings a classification early.
2. `own_evidence`. `ull_central.c` 971 announces the initialisation of the
   parameters, but the packet counters, snapshots and current channel of the slot's previous user stay.
3. `instant_passed`. `ull_conn_event_counter` (`ull_conn.c` 7928) adds `prep.lazy` of the last callback also when it
   is called for a received PDU, after the prepare has added it. A peripheral
   that skipped events sees the counter too far ahead and closes the connection for
   an instant that has not come.
4. `one_context_inside`. The enable request of an unlock stays unanswered if nothing was masked then, so the next
   lock of a thread meets it and ULL_HIGH runs inside the locked section (`../util/mayfly.c` 253-272,
   `ull_llcp_local.c` 90-134).
5. `never_both_expected`. Two PHY requests of the peripheral's Host and one of the central's suffice to reach
   `LL_ASSERT(0)` under "This cannot happen" (`ull_llcp.c` 1733-1734). `BothExpectedOnlyIf` names the other ways there: a
   Host's termination in a collision, a finished procedure that waits for a notification buffer.

Properties that hold only with an exemption, each of which is behaviour worth knowing:

- `CollisionsSurvived`. A collision costs the connection (a) if the central rejects the peripheral's request before the
  feature exchange, with `REJECT_IND` (`ull_llcp_remote.c` 449-454), which `llcp_lp_pu_rx` takes for an error
  (`ull_llcp_phy.c` 864); (b) if the peripheral makes a second request in the collision; (c) if a request meets a
  procedure that waits for a notification buffer. The comments at `ull_llcp_remote.c` 598-601 and 611 expect otherwise.
- `PausedForProcedure`. An `UNKNOWN_RSP` to the central's PHY request ends the procedure without resuming the data
  (`ull_llcp_phy.c` 586-596; the peripheral's branch, 730-739, does resume).
- `ProceduresEnd` is checked with notification buffers there: without, a procedure in its last state swallows
  the peer's request, and only the response timeout of that side ends the wait.
- `PhysAgree`. A central that has not heard the acknowledgment of its indication by the instant stays on the old PHY, while the
  peripheral, which has the indication, changes. An indication not heard in time does not part them. A Host
  that terminates aborts its half of a PHY update. A termination's reason may be replaced by that of a late PDU.
- `IdleOwesNothing` fails with `MaxHits` 2: pended twice within one release, a mayfly is idle again by the second look of
  `dequeue()` and its call is lost (`../util/mayfly.c` 125-170). Two interrupts would have to end in these few instructions.
- `OtherAssertionsHold` exempts one assertion. `ticker_start_op_cb` (`nordic/lll/lll.c` 807-817) increments
  `preempt_start_ack` before `preempt_req`. A radio interrupt between the two asks for the timeout again, and the second
  start fails `LL_ASSERT(status == TICKER_STATUS_SUCCESS)`: the model reaches it with two prepares that wait behind an
  event.
- `References`, `DisabledIsGone` and `SilenceOwesNothing` stop at `self`: `ull_prepare_dequeue` (`ull.c` 2049-2120) puts a
  prepare that must still wait back at the end while its old element is at the head, `lll_prepare_resolve` takes the
  old element for an earlier prepare, and `preempt_ticker_start` may cancel it for its own copy. Two done events then stand for one
  reference, or an element of another role is dropped. The model goes no further: what `lll_done` does within
  the `lll_done` of such a prepare is left out.
- `DisableReturns` excepts scanners. If the preempt callback comes between the abort of `lll_disable` and the radio's
  interrupt, `is_abort_cb` still answers "resume", the scanner goes back into the pipeline with its parameter cleared, no
  done event tells of it ("done is generated", `nordic/lll/lll.c` 267), and the thread waits for ever (`ull.c` 1944).

Seen while reading, without a run: `lll_afh_conn_isr` (`ull_central.c` 1264-1269) prints
`BT_HCI_ERR_SUCCESS` where the request failed and always returns 0. The comment at `ull_llcp_local.c` 125-126
says the list is used from thread and mayfly context, but `nordic/lll/lll_conn.c` 607 enqueues from the radio
interrupt, which the lock does not exclude. A decision of the classification replaces
the Host's map rather than intersecting with it. `updatedChannelMap` is written and never
read. `hMyAlgo.m` of the simulations keeps the good channels that are not bad, the controller those
that are good *or* not bad.

## 7. What is not modelled

`components` in `PROJECT.json` lists every part with its status. The map covers the C code that the
classification changes, rests on or can be broken by; that is a small share of the repository's lines, and could
not be a large one:

- half of the lines are the second copy of the controller under `testingApp/`;
- `openisa/` (RV32M1), the legacy control procedures in `ull_conn.c` (about lines 2820 to 7856, replaced by `ull_llcp*.c`),
  extended and periodic advertising, synchronisation and the isochronous roles are not compiled with `prj.conf`;
- `hci.c` encodes commands and events; `radio.c` and `crypto.c` access registers: there is no protocol in them beyond what appears as
  outcomes and inputs here;
- the test application drives a Host stack that is not in the repository, the MATLAB studies are numerical.

Within the modelled parts: encryption, connection update, version exchange and ping (see the component
"Other control procedures"); the response timer; the order of control and data PDUs in `ull_tx_queue.c`; slot arithmetic and the order of
nodes in `ticker.c`; the pointer operations of `memq`, `mem`, `mfifo` and `dbuf`; packets and windows of legacy advertising and scanning.
Hazards that no property covers carry a note in `PROJECT.json`.

Not claimed of what is modelled: that the classification improves anything (a matter of radio
conditions), the times at which things happen, and behaviour when the list race of section 6 strikes: the
models take each enqueue as one step.

## 8. What could follow

1. The list of local procedures and the context pool with their reads and writes as steps, used from ULL and the radio
   interrupt, as an implementation of a queue and a set.
2. Encryption in `ControlProcedures`, with the pauses of procedures and data it brings; the response timer with it.
3. `TxQueue`: control and data queues with nested pauses, refining a pair of queues and composing with `LinkArq`.
4. The several nodes of the ticker: list order, `lazy` counts and collisions, whose outcomes are the skipped callbacks of
   `ChannelMapUpdate`.
5. `PhysAgree` as a theorem: besides `OInv` it needs that an indication finds the peripheral waiting for it or ends the
   connection, so a relation of each request to its answer in flight.
6. `OtherAssertionsHold` as a theorem for as many roles as the capacities are meant for: a bound on the elements a role can
   have in the pipeline, aborted ones included.
