------------------------------ MODULE LocalChmu ------------------------------
(***************************************************************************)
(* The central's queue of channel map update procedures (pend_proc_list    *)
(* restricted to PROC_CHAN_MAP_UPDATE) and what a RUN event does to its    *)
(* head: ull_llcp_chmu.c and the part of ull_llcp_local.c around it.       *)
(***************************************************************************)
EXTENDS Instant, Sequences

CONSTANT InstantDelta    \* CHMU_INSTANT_DELTA, 6 in the code

ASSUME InstantDeltaAssumption == InstantDelta \in Counter \ {0}

\* A procedure waiting for its turn, or to send its indication; LP_CHMU_STATE_IDLE
\* behaves as LP_CHMU_STATE_WAIT_TX_CHAN_MAP_IND.
NewProc(m) == [chm |-> m, state |-> "WAIT_TX", instant |-> 0]

\* The indication goes out at event ec, when ready: nothing else is ahead or
\* colliding, local procedures are not paused and a tx buffer is free.
Sends(queue, ready) == queue # <<>> /\ Head(queue).state = "WAIT_TX" /\ ready

\* The head's instant has come: its map is taken into use and it is removed.
Completes(queue, ec) ==
  /\ queue # <<>> /\ Head(queue).state = "WAIT_INSTANT"
  /\ InstantReachedOrPassed(Head(queue).instant, ec)

\* Faulty variant: completing a procedure empties the whole queue.
AfterRunFlushes(queue, ec, ready) ==
  IF Sends(queue, ready)
  THEN [queue EXCEPT ![1] = [@ EXCEPT !.state = "WAIT_INSTANT",
                                      !.instant = Plus(ec, InstantDelta)]]
  ELSE IF Completes(queue, ec) THEN <<>> ELSE queue

AfterRun(queue, ec, ready) ==
  IF Sends(queue, ready)
  THEN [queue EXCEPT ![1] = [@ EXCEPT !.state = "WAIT_INSTANT",
                                      !.instant = Plus(ec, InstantDelta)]]
  ELSE IF Completes(queue, ec) THEN Tail(queue) ELSE queue

\* Faulty variant: the procedure completes without ull_conn_chan_map_set.
MapAfterRunKept(queue, ec, m) == m

MapAfterRun(queue, ec, m) == IF Completes(queue, ec) THEN Head(queue).chm ELSE m
=============================================================================
