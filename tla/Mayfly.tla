------------------------------- MODULE Mayfly -------------------------------
(***************************************************************************)
(* Deferred calls between the execution contexts of the controller: the    *)
(* queues through which the radio interrupt (LLL), the ULL itself and the  *)
(* threads ask for a function to run in ULL_HIGH (mayfly_enqueue,          *)
(* mayfly_run), and the masking of ULL_HIGH by a thread (mayfly_enable)    *)
(* that protects the list of pending procedures (shared_data_access_lock). *)
(*                                                                         *)
(* LLL preempts ULL_HIGH, which preempts the thread; ULL_LOW shares the    *)
(* interrupt of ULL_HIGH and runs after it.  What LLL does is one action,  *)
(* what ULL_HIGH does is cut where LLL may come between, what the thread   *)
(* does is cut where either may.  A mayfly belongs to one calling context, *)
(* as the static objects of the code do; a queue (memq) is a sequence.     *)
(***************************************************************************)
EXTENDS Integers, Sequences

CONSTANTS
  Mfy,        \* the mayflies whose callee is ULL_HIGH
  Owner,      \* the context that enqueues each
  Trigger,    \* the one the RTC compare event enqueues (ticker_worker)
  MaxCalls,   \* bound: calls each context makes
  MaxHits     \* bound: calls of LLL within one release of a mayfly

\* The contexts, by mayfly caller id (MAYFLY_CALL_ID_*).
LLL == 0
ULL_HIGH == 1
ULL_LOW == 2
THREAD == 3
Caller == {LLL, ULL_HIGH, ULL_LOW, THREAD}

ASSUME MayflyAssumption ==
  /\ Owner \in [Mfy -> Caller] /\ Trigger \in Mfy /\ Owner[Trigger] = ULL_HIGH
  /\ MaxCalls \in [Caller -> Nat] /\ MaxHits \in Nat

None == "none"
ASSUME NoneAssumption == None \notin Mfy

VARIABLES
  req, ack,      \* per mayfly: the two counters, modulo 4
  queue,         \* per caller: the mayflies queued by it
  mfp,           \* ULL_HIGH has something to look at
  pending,       \* its interrupt is pended
  enabled,       \* its interrupt is enabled
  compare,       \* the RTC compare event is set
  asked,         \* [disable, enable]: the thread's requests not yet acknowledged
  ull,           \* the frame of mayfly_run: where it is, and its local variables
  thread,        \* the thread: where it is, and its local variables
  owed,          \* per mayfly: called, and its function not begun since
  calls, hits    \* bounded: calls per context, calls of LLL during a release

mayflies == <<req, ack, queue, owed>>
irq == <<mfp, pending, compare>>
vars == <<mayflies, irq, enabled, asked, ull, thread, calls, hits>>

UllRest == [at |-> "out", caller |-> LLL, m |-> None, ran |-> FALSE,
            req |-> 0, ack |-> 0, disable |-> FALSE, enable |-> FALSE]
ThreadRest == [at |-> "run", m |-> None, ack |-> 0, key |-> FALSE, then |-> "run"]

Init ==
  /\ req = [m \in Mfy |-> 0] /\ ack = [m \in Mfy |-> 0]
  /\ queue = [c \in Caller |-> <<>>]
  /\ mfp = FALSE /\ pending = FALSE /\ enabled = TRUE /\ compare = FALSE
  /\ asked = [disable |-> FALSE, enable |-> FALSE]
  /\ ull = UllRest /\ thread = ThreadRest
  /\ owed = [m \in Mfy |-> FALSE]
  /\ calls = [c \in Caller |-> 0] /\ hits = 0

-----------------------------------------------------------------------------
(* mayfly_enqueue.  The state of a mayfly is (_req - _ack) & 3: 0 when      *)
(* idle, 1 when ready, else run and not released yet.                       *)

Idle == 0
Ready == 1
State(m) == (req[m] - ack[m]) % 4

Pend == mfp' = TRUE /\ pending' = TRUE
Call(m) ==
  /\ calls[Owner[m]] < MaxCalls[Owner[m]]
  /\ calls' = [calls EXCEPT ![Owner[m]] = @ + 1]

\* Mutant: the counter of a call is not reduced modulo 4.
ChainNoWrap(m) ==
  /\ owed' = [owed EXCEPT ![m] = TRUE]
  /\ IF State(m) = Ready THEN UNCHANGED <<req, queue, mfp, pending>>
     ELSE /\ req' = [req EXCEPT ![m] = ack[m] + 1]
          /\ queue' = IF State(m) = Idle
                      THEN [queue EXCEPT ![Owner[m]] = Append(@, m)] ELSE queue
          /\ Pend
  /\ UNCHANGED ack

\* The body of a chained call that nobody interrupts.
Chain(m) ==
  /\ owed' = [owed EXCEPT ![m] = TRUE]
  /\ IF State(m) = Ready THEN UNCHANGED <<req, queue, mfp, pending>>
     ELSE /\ req' = [req EXCEPT ![m] = (ack[m] + 1) % 4]
          /\ queue' = IF State(m) = Idle
                      THEN [queue EXCEPT ![Owner[m]] = Append(@, m)] ELSE queue
          /\ Pend
  /\ UNCHANGED ack

\* mayfly_run reads _req and replaces _ack in two steps of its release.
Releasing(m) == ull.m = m /\ ull.at \in {"release", "recheck"}

LllCall(m) ==
  /\ Owner[m] = LLL /\ Call(m) /\ Chain(m)
  /\ Releasing(m) => hits < MaxHits
  /\ hits' = IF Releasing(m) THEN hits + 1 ELSE hits
  /\ UNCHANGED <<enabled, compare, asked, ull, thread>>

\* ULL_HIGH calls itself from a function it runs (rx_demux_yield).
UllCall(m) ==
  /\ Owner[m] = ULL_HIGH /\ m # Trigger
  /\ ull.at = "call" /\ Call(m) /\ Chain(m)
  /\ UNCHANGED <<enabled, compare, asked, ull, thread, hits>>

\* The callee has the priority of the caller: the function is called at once,
\* unless the interrupt they share is masked or the caller asks to chain.
LowCall(m, chain) ==
  /\ Owner[m] = ULL_LOW
  /\ ull.at = "low" /\ Call(m)
  /\ IF chain \/ ~enabled THEN Chain(m)
     ELSE /\ req' = IF State(m) = Idle THEN req
                    ELSE [req EXCEPT ![m] = (ack[m] + 2) % 4]
          /\ owed' = [owed EXCEPT ![m] = FALSE]
          /\ UNCHANGED <<ack, queue, mfp, pending>>
  /\ UNCHANGED <<enabled, compare, asked, ull, thread, hits>>

-----------------------------------------------------------------------------
(* The thread: mayfly_enqueue, and the lock of the pending procedures.      *)

ThreadRuns == ull.at = "out" /\ ~(pending /\ enabled)
Goto(from, to) == ThreadRuns /\ thread.at = from /\ thread' = [thread EXCEPT !.at = to]

ThreadCall(m) ==
  /\ Owner[m] = THREAD /\ Call(m)
  /\ ThreadRuns /\ thread.at = "run"
  /\ thread' = [thread EXCEPT !.at = "state", !.m = m, !.ack = ack[m], !.then = "run"]
  /\ owed' = [owed EXCEPT ![m] = TRUE]
  /\ UNCHANGED <<req, ack, queue, irq, enabled, asked, ull, hits>>

\* With the shadow of _ack it took, the thread tells the state of its mayfly.
ThreadState ==
  /\ ThreadRuns /\ thread.at = "state"
  /\ LET m == thread.m  state == (req[m] - thread.ack) % 4 IN
       /\ thread' = [thread EXCEPT !.at = IF state = Ready THEN "run"
                                          ELSE IF state = Idle THEN "link" ELSE "flag"]
       /\ req' = IF state = Ready THEN req
                 ELSE [req EXCEPT ![m] = (thread.ack + 1) % 4]
  /\ UNCHANGED <<ack, queue, owed, irq, enabled, asked, ull, calls, hits>>

ThreadLink ==
  /\ Goto("link", "flag")
  /\ queue' = [queue EXCEPT ![THREAD] = Append(@, thread.m)]
  /\ UNCHANGED <<req, ack, owed, irq, enabled, asked, ull, calls, hits>>

ThreadFlag ==
  /\ Goto("flag", "pend")
  /\ mfp' = TRUE
  /\ UNCHANGED <<mayflies, pending, compare, enabled, asked, ull, calls, hits>>

ThreadPend ==
  /\ Goto("pend", thread.then)
  /\ pending' = TRUE
  /\ UNCHANGED <<mayflies, mfp, compare, enabled, asked, ull, calls, hits>>

\* shared_data_access_lock: remember whether ULL_HIGH was enabled, then
\* mayfly_enable(.., 0), which masks nothing itself: mayfly_run does.
Lock ==
  /\ ThreadRuns /\ thread.at = "run"
  /\ calls[THREAD] < MaxCalls[THREAD] /\ calls' = [calls EXCEPT ![THREAD] = @ + 1]
  /\ thread' = [thread EXCEPT !.at = "ask", !.key = enabled, !.then = "inside"]
  /\ UNCHANGED <<mayflies, irq, enabled, asked, ull, hits>>

AskDisable ==
  /\ Goto("ask", IF asked.disable THEN "inside" ELSE "flag")
  /\ asked' = [asked EXCEPT !.disable = TRUE]
  /\ UNCHANGED <<mayflies, irq, enabled, ull, calls, hits>>

\* The access to the list that the lock is for (llcp_lr_enqueue).
Access ==
  /\ Goto("inside", "access")
  /\ UNCHANGED <<mayflies, irq, enabled, asked, ull, calls, hits>>

\* shared_data_access_unlock: mayfly_enable(.., 1) if the key says so.
AskEnable ==
  /\ Goto("access", IF thread.key THEN "unmask" ELSE "run")
  /\ asked' = IF thread.key THEN [asked EXCEPT !.enable = TRUE] ELSE asked
  /\ UNCHANGED <<mayflies, irq, enabled, ull, calls, hits>>

Unmask ==
  /\ Goto("unmask", "run")
  /\ enabled' = TRUE
  /\ UNCHANGED <<mayflies, irq, asked, ull, calls, hits>>

Thread ==
  \/ \E m \in Mfy : ThreadCall(m)
  \/ ThreadState \/ ThreadLink \/ ThreadFlag \/ ThreadPend
  \/ Lock \/ AskDisable \/ Access \/ AskEnable \/ Unmask

-----------------------------------------------------------------------------
(* The interrupt of ULL_HIGH (rtc0_nrf5_isr) and mayfly_run.                *)

Compare ==
  /\ ~compare /\ calls[ULL_HIGH] < MaxCalls[ULL_HIGH]
  /\ calls' = [calls EXCEPT ![ULL_HIGH] = @ + 1]
  /\ compare' = TRUE /\ pending' = TRUE
  /\ UNCHANGED <<mayflies, mfp, enabled, asked, ull, thread, hits>>

\* Entry: the compare event enqueues the ticker's worker (ticker_trigger).
Enter ==
  /\ ull.at = "out" /\ pending /\ enabled
  /\ ull' = [ull EXCEPT !.at = "start"]
  /\ compare' = FALSE
  /\ IF ~compare THEN pending' = FALSE /\ UNCHANGED <<mayflies, mfp>>
     ELSE /\ owed' = [owed EXCEPT ![Trigger] = TRUE]
          /\ pending' = (State(Trigger) # Ready)
          /\ mfp' = (mfp \/ State(Trigger) # Ready)
          /\ req' = IF State(Trigger) = Ready THEN req
                    ELSE [req EXCEPT ![Trigger] = (ack[Trigger] + 1) % 4]
          /\ queue' = IF State(Trigger) = Idle
                      THEN [queue EXCEPT ![ULL_HIGH] = Append(@, Trigger)] ELSE queue
          /\ UNCHANGED ack
  /\ UNCHANGED <<enabled, asked, thread, calls, hits>>

Start ==
  /\ ull.at = "start"
  /\ mfp' = FALSE
  /\ ull' = IF mfp THEN [ull EXCEPT !.at = "peek", !.caller = THREAD,
                                    !.disable = FALSE, !.enable = FALSE]
            ELSE [ull EXCEPT !.at = "low"]
  /\ UNCHANGED <<mayflies, pending, compare, enabled, asked, thread, calls, hits>>

\* The head of the caller's queue: its function begins if it is ready.
Run ==
  /\ ull.at = "peek" /\ queue[ull.caller] # <<>>
  /\ LET m == Head(queue[ull.caller]) IN
       /\ ull' = [ull EXCEPT !.m = m, !.ran = (State(m) = Ready),
                             !.at = IF State(m) = Ready THEN "call" ELSE "dequeue"]
       /\ ack' = IF State(m) = Ready THEN [ack EXCEPT ![m] = (@ + 3) % 4] ELSE ack
       /\ owed' = IF State(m) = Ready THEN [owed EXCEPT ![m] = FALSE] ELSE owed
  /\ UNCHANGED <<req, queue, irq, enabled, asked, thread, calls, hits>>

Return ==
  /\ ull.at = "call"
  /\ ull' = [ull EXCEPT !.at = "dequeue"]
  /\ UNCHANGED <<mayflies, irq, enabled, asked, thread, calls, hits>>

\* dequeue(): the first look at _req decides whether the mayfly stays queued.
Look ==
  /\ ull.at = "dequeue"
  /\ ull' = [ull EXCEPT !.req = req[ull.m],
                        !.at = IF State(ull.m) = Ready THEN "next" ELSE "release"]
  /\ hits' = 0
  /\ UNCHANGED <<mayflies, irq, enabled, asked, thread, calls>>

Release ==
  /\ ull.at = "release"
  /\ queue' = [queue EXCEPT ![ull.caller] = Tail(@)]
  /\ ack' = [ack EXCEPT ![ull.m] = ull.req]
  /\ ull' = [ull EXCEPT !.ack = ack[ull.m], !.at = "recheck"]
  /\ UNCHANGED <<req, owed, irq, enabled, asked, thread, calls, hits>>

\* The second look: pended again by LLL since the first, it goes back in queue.
\* Mutants: no second look, and one that takes a mayfly that has run for a called one.
NeverRePended == FALSE
RePendedIfNotIdle == (req[ull.m] - ull.ack) % 4 # Idle
RePended == (req[ull.m] - ull.ack) % 4 = Ready
Recheck ==
  /\ ull.at = "recheck"
  /\ ack' = IF RePended THEN [ack EXCEPT ![ull.m] = ull.ack] ELSE ack
  /\ ull' = [ull EXCEPT !.at = IF RePended THEN "reinsert" ELSE "next"]
  /\ UNCHANGED <<req, queue, owed, irq, enabled, asked, thread, calls, hits>>

Reinsert ==
  /\ ull.at = "reinsert"
  /\ queue' = [queue EXCEPT ![ULL_HIGH] = Append(@, ull.m)]
  /\ ull' = [ull EXCEPT !.at = "next"]
  /\ UNCHANGED <<req, ack, owed, irq, enabled, asked, thread, calls, hits>>

\* After a function has run, mayfly_run returns and pends itself unless
\* nothing is left to look at (CONFIG_BT_MAYFLY_YIELD_AFTER_CALL).
Yields == ull.ran /\ (ull.caller # LLL \/ queue[ull.caller] # <<>>)
\* Mutant: mayfly_run returns without pending itself.
NextMayflyForgets ==
  /\ ull.at = "next"
  /\ ull' = [ull EXCEPT !.at = IF Yields THEN "low" ELSE "peek", !.m = None]
  /\ UNCHANGED <<mayflies, irq, enabled, asked, thread, calls, hits>>

NextMayfly ==
  /\ ull.at = "next"
  /\ ull' = [ull EXCEPT !.at = IF Yields THEN "low" ELSE "peek", !.m = None]
  /\ mfp' = (mfp \/ Yields) /\ pending' = (pending \/ Yields)
  /\ UNCHANGED <<mayflies, compare, enabled, asked, thread, calls, hits>>

\* Mutant: the requests are seen and not acknowledged.
NextCallerKeepsAsking ==
  /\ ull.at = "peek" /\ queue[ull.caller] = <<>>
  /\ LET disable == ull.disable \/ (ull.caller = THREAD /\ asked.disable)
         enable == ull.enable
     IN
       /\ ull' = [ull EXCEPT !.disable = disable, !.enable = enable,
                             !.caller = IF @ = LLL THEN LLL ELSE @ - 1,
                             !.at = IF ull.caller = LLL THEN "low" ELSE "peek"]
       /\ enabled' = (enabled /\ ~(ull.caller = LLL /\ disable /\ ~enable))
  /\ UNCHANGED <<asked, mayflies, irq, thread, calls, hits>>

\* An empty queue: the requests of its caller are acknowledged, and the next
\* caller's turn comes; after the last, ULL_HIGH masks itself if so asked.
NextCaller ==
  /\ ull.at = "peek" /\ queue[ull.caller] = <<>>
  /\ LET disable == ull.disable \/ (ull.caller = THREAD /\ asked.disable)
         enable == ull.enable \/ (ull.caller = THREAD /\ asked.enable)
     IN
       /\ ull' = [ull EXCEPT !.disable = disable, !.enable = enable,
                             !.caller = IF @ = LLL THEN LLL ELSE @ - 1,
                             !.at = IF ull.caller = LLL THEN "low" ELSE "peek"]
       /\ enabled' = (enabled /\ ~(ull.caller = LLL /\ disable /\ ~enable))
  /\ asked' = IF ull.caller = THREAD THEN [disable |-> FALSE, enable |-> FALSE] ELSE asked
  /\ UNCHANGED <<mayflies, irq, thread, calls, hits>>

\* What the interrupt does for ULL_LOW is LowCall; then it returns.
Leave ==
  /\ ull.at = "low"
  /\ ull' = UllRest
  /\ UNCHANGED <<mayflies, irq, enabled, asked, thread, calls, hits>>

Ull ==
  \/ Enter \/ Start \/ Run \/ Return \/ Look \/ Release \/ Recheck \/ Reinsert
  \/ NextMayfly \/ NextCaller \/ Leave

Calls ==
  \/ Compare
  \/ \E m \in Mfy : LllCall(m) \/ UllCall(m)
  \/ \E m \in Mfy, chain \in BOOLEAN : LowCall(m, chain)

Next == Ull \/ Thread \/ Calls

Spec == Init /\ [][Next]_vars

\* An interrupt that is pended and enabled is served and returns, and a thread
\* goes on with what it began once no interrupt holds it; calls come as they may.
ThreadGoesOn ==
  ThreadState \/ ThreadLink \/ ThreadFlag \/ ThreadPend \/ AskDisable \/ Access \/ AskEnable \/ Unmask
Fairness == WF_vars(Ull) /\ WF_vars(ThreadGoesOn)

FairSpec == Spec /\ Fairness

-----------------------------------------------------------------------------
(* Properties. *)

Frame ==
  [at : {"out", "start", "peek", "call", "dequeue", "release", "recheck",
         "reinsert", "next", "low"},
   caller : Caller, m : Mfy \union {None}, ran : BOOLEAN,
   req : 0 .. 3, ack : 0 .. 3, disable : BOOLEAN, enable : BOOLEAN]

ThreadFrame ==
  [at : {"run", "state", "link", "flag", "pend", "ask", "inside", "access", "unmask"},
   m : Mfy \union {None}, ack : 0 .. 3, key : BOOLEAN, then : {"run", "inside"}]

\* Every variable keeps its type.
TypeOK ==
  /\ req \in [Mfy -> 0 .. 3] /\ ack \in [Mfy -> 0 .. 3]
  /\ queue \in [Caller -> Seq(Mfy)]
  /\ mfp \in BOOLEAN /\ pending \in BOOLEAN /\ enabled \in BOOLEAN /\ compare \in BOOLEAN
  /\ asked \in [disable : BOOLEAN, enable : BOOLEAN]
  /\ ull \in Frame /\ thread \in ThreadFrame
  /\ owed \in [Mfy -> BOOLEAN]
  /\ calls \in [Caller -> Nat] /\ \A c \in Caller : calls[c] <= MaxCalls[c]
  /\ hits \in 0 .. MaxHits

\* When no context is at work and no interrupt is waiting, every function that
\* was called has begun since: no call is lost between the two looks at _req of
\* dequeue(), in the yield of mayfly_run, or behind a flag cleared too early.
IdleOwesNothing ==
  ull.at = "out" /\ thread.at = "run" /\ ~pending => \A m \in Mfy : ~owed[m]

\* A mayfly is linked into the queues at most once, whichever context re-pends
\* it while it is being released: its one link is never enqueued twice.
LinkedOnce ==
  \A m \in Mfy : \A c, d \in Caller : \A i \in 1 .. Len(queue[c]), j \in 1 .. Len(queue[d]) :
    queue[c][i] = m /\ queue[d][j] = m => c = d /\ i = j

\* ULL_HIGH stays masked only on behalf of a thread that will unmask it: a
\* request to disable is never served after the section it was made for.
MaskedForHolder ==
  ~enabled => \/ thread.at \in {"inside", "access", "unmask"} /\ thread.key
              \/ thread.at \in {"flag", "pend"} /\ thread.then = "inside" /\ thread.key

\* Every called function begins, whoever called it: the rounds of mayfly_run
\* reach each queue, and what is masked is unmasked.
EveryCallRuns == \A m \in Mfy : owed[m] ~> ~owed[m]

\* ull_llcp_local.c says of the list of pending procedures "make sure only a
\* single context have access at a time": no function of ULL_HIGH runs while the
\* thread is at the list it locked.
OneContextInside == thread.at = "access" => ull.at \notin {"call", "low"}
=============================================================================
