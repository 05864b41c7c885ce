---------------------------- MODULE MayflyProofs ----------------------------
(***************************************************************************)
(* Proofs about Mayfly for every set of mayflies, every owner of each and  *)
(* every bound on the calls: the types, that ULL_HIGH is masked only for a *)
(* thread that will unmask it, that a mayfly is linked at most once and,   *)
(* for one call of LLL within a release, that no call is lost.             *)
(*                                                                         *)
(* Two strengthenings carry the first three. MaskInv follows a request to  *)
(* disable from the thread through the flags to the frame of mayfly_run    *)
(* that will serve it. LinkInv says what each context may conclude from    *)
(* the two counters of a mayfly: a linked one is never idle, the one a     *)
(* thread owns is ready while linked, and the values dequeue() has read    *)
(* still mean what they meant although LLL may have called since. A third, *)
(* OweInv, carries that no call is lost: a mayfly that is owed is ready    *)
(* and linked or on its way there, and whatever is linked will be looked   *)
(* at.                                                                     *)
(***************************************************************************)
EXTENDS Mayfly, SequenceTheorems, TLAPS

\* Where mayfly_run has taken a mayfly up, and where it is still in its queue.
Holding == {"call", "dequeue", "release"}
AtWork == Holding \union {"recheck", "reinsert", "next"}

\* The frame of mayfly_run: what it works at is a mayfly, and the head of a queue
\* until it is taken off.
FrameOK ==
  /\ ull.at \in AtWork => ull.m \in Mfy
  /\ ull.at \notin AtWork => ull.m = None
  /\ ull.at \in Holding => queue[ull.caller] # <<>> /\ Head(queue[ull.caller]) = ull.m

\* The thread calls mayflies it owns.
ThreadOK ==
  thread.at \in {"state", "link"} => thread.m \in Mfy /\ Owner[thread.m] = THREAD

Typed == TypeOK /\ FrameOK /\ ThreadOK

\* A remainder modulo 4 is a value of the counters.
LEMMA Mod4 == ASSUME NEW x \in Int PROVE x % 4 \in 0 .. 3
  OBVIOUS

\* An append to one queue keeps every queue a queue of mayflies and the head of
\* every queue that has one: what mayfly_run looks at stays where it is.
LEMMA AppendFacts ==
  ASSUME NEW q \in [Caller -> Seq(Mfy)], NEW c \in Caller, NEW m \in Mfy,
         NEW p, p = [q EXCEPT ![c] = Append(@, m)]
  PROVE  /\ p \in [Caller -> Seq(Mfy)]
         /\ \A d \in Caller : q[d] # <<>> => p[d] # <<>> /\ Head(p[d]) = Head(q[d])
<1>1. q[c] \in Seq(Mfy)
  OBVIOUS
<1>2. Append(q[c], m) \in Seq(Mfy) /\ Append(q[c], m) # <<>>
  BY <1>1, AppendProperties
<1>3. q[c] # <<>> => Head(Append(q[c], m)) = Head(q[c])
  BY <1>1, HeadTailAppend
<1> QED
  BY <1>1, <1>2, <1>3

\* A call is counted within its bound.
LEMMA CallTyped ==
  ASSUME MayflyAssumption, TypeOK, NEW m \in Mfy, Call(m)
  PROVE  calls' \in [Caller -> Nat] /\ \A c \in Caller : calls'[c] <= MaxCalls[c]
<1>1. Owner[m] \in Caller /\ calls \in [Caller -> Nat] /\ MaxCalls \in [Caller -> Nat]
      /\ \A c \in Caller : calls[c] <= MaxCalls[c]
  BY DEF MayflyAssumption, TypeOK
<1> QED
  BY <1>1 DEF Call

\* A chained call keeps the types of what mayfly_enqueue writes and the heads of
\* the queues.
LEMMA ChainTyped ==
  ASSUME MayflyAssumption, TypeOK, NEW m \in Mfy, Chain(m)
  PROVE  /\ req' \in [Mfy -> 0 .. 3] /\ ack' \in [Mfy -> 0 .. 3]
         /\ queue' \in [Caller -> Seq(Mfy)] /\ owed' \in [Mfy -> BOOLEAN]
         /\ mfp' \in BOOLEAN /\ pending' \in BOOLEAN
         /\ \A d \in Caller : queue[d] # <<>> => queue'[d] # <<>> /\ Head(queue'[d]) = Head(queue[d])
<1>1. /\ Owner[m] \in Caller /\ req \in [Mfy -> 0 .. 3] /\ ack \in [Mfy -> 0 .. 3]
      /\ queue \in [Caller -> Seq(Mfy)] /\ owed \in [Mfy -> BOOLEAN]
      /\ mfp \in BOOLEAN /\ pending \in BOOLEAN
  BY DEF MayflyAssumption, TypeOK
<1>2. (ack[m] + 1) % 4 \in 0 .. 3
  <2>1. ack[m] \in 0 .. 3
    BY <1>1
  <2>2. ack[m] + 1 \in Int
    BY <2>1
  <2> QED
    BY <2>2, Mod4
<1>3. queue' = queue \/ queue' = [queue EXCEPT ![Owner[m]] = Append(@, m)]
  BY DEF Chain
<1>4. /\ queue' \in [Caller -> Seq(Mfy)]
      /\ \A d \in Caller : queue[d] # <<>> => queue'[d] # <<>> /\ Head(queue'[d]) = Head(queue[d])
  <2>1. CASE queue' = queue
    BY <1>1, <2>1
  <2>2. CASE queue' = [queue EXCEPT ![Owner[m]] = Append(@, m)]
    BY <1>1, <2>2, AppendFacts
  <2> QED
    BY <1>3, <2>1, <2>2
<1>5. req' \in [Mfy -> 0 .. 3] /\ ack' = ack
  BY <1>1, <1>2 DEF Chain
<1>6. owed' \in [Mfy -> BOOLEAN]
  BY <1>1, Zenon DEF Chain
<1>7. mfp' \in BOOLEAN /\ pending' \in BOOLEAN
  BY <1>1 DEF Chain, Pend
<1> QED
  BY <1>1, <1>4, <1>5, <1>6, <1>7


\* A call of LLL keeps the types, whatever mayfly_run is at.
LEMMA LllCallTyped ==
  ASSUME MayflyAssumption, Typed, NEW m \in Mfy, LllCall(m)
  PROVE  Typed'
<1>0. TypeOK /\ FrameOK /\ ThreadOK /\ Call(m) /\ Chain(m) /\ UNCHANGED <<enabled, compare, asked, ull, thread>>
  BY DEF LllCall, Typed
<1>1. hits' \in 0 .. MaxHits
  <2>1. MaxHits \in Nat /\ hits \in 0 .. MaxHits
    BY DEF Typed, TypeOK, MayflyAssumption
  <2> QED
    BY <2>1 DEF LllCall
<1>2. /\ req' \in [Mfy -> 0 .. 3] /\ ack' \in [Mfy -> 0 .. 3]
      /\ queue' \in [Caller -> Seq(Mfy)] /\ owed' \in [Mfy -> BOOLEAN]
      /\ mfp' \in BOOLEAN /\ pending' \in BOOLEAN
      /\ \A d \in Caller : queue[d] # <<>> => queue'[d] # <<>> /\ Head(queue'[d]) = Head(queue[d])
  BY <1>0, ChainTyped
<1>3. calls' \in [Caller -> Nat] /\ \A c \in Caller : calls'[c] <= MaxCalls[c]
  BY <1>0, CallTyped
<1>4. TypeOK'
  BY <1>0, <1>1, <1>2, <1>3, Zenon DEF TypeOK
<1>5. ull.caller \in Caller
  BY <1>0 DEF TypeOK, Frame
<1>6. FrameOK' /\ ThreadOK'
  BY <1>0, <1>2, <1>5 DEF FrameOK, ThreadOK
<1> QED
  BY <1>4, <1>6 DEF Typed

\* A call that ULL_HIGH makes from its own function keeps the types.
LEMMA UllCallTyped ==
  ASSUME MayflyAssumption, Typed, NEW m \in Mfy, UllCall(m)
  PROVE  Typed'
<1>0. TypeOK /\ FrameOK /\ ThreadOK /\ Call(m) /\ Chain(m) /\ UNCHANGED <<enabled, compare, asked, ull, thread, hits>>
  BY DEF UllCall, Typed
<1>2. /\ req' \in [Mfy -> 0 .. 3] /\ ack' \in [Mfy -> 0 .. 3]
      /\ queue' \in [Caller -> Seq(Mfy)] /\ owed' \in [Mfy -> BOOLEAN]
      /\ mfp' \in BOOLEAN /\ pending' \in BOOLEAN
      /\ \A d \in Caller : queue[d] # <<>> => queue'[d] # <<>> /\ Head(queue'[d]) = Head(queue[d])
  BY <1>0, ChainTyped
<1>3. calls' \in [Caller -> Nat] /\ \A c \in Caller : calls'[c] <= MaxCalls[c]
  BY <1>0, CallTyped
<1>4. TypeOK'
  BY <1>0, <1>2, <1>3, Zenon DEF TypeOK
<1>5. ull.caller \in Caller
  BY <1>0 DEF TypeOK, Frame
<1>6. FrameOK' /\ ThreadOK'
  BY <1>0, <1>2, <1>5 DEF FrameOK, ThreadOK
<1> QED
  BY <1>4, <1>6 DEF Typed

\* A call of ULL_LOW, run at once or chained, keeps the types.
LEMMA LowCallTyped ==
  ASSUME MayflyAssumption, Typed, NEW m \in Mfy, NEW chain \in BOOLEAN, LowCall(m, chain)
  PROVE  Typed'
<1>0. TypeOK /\ FrameOK /\ ThreadOK /\ Call(m) /\ UNCHANGED <<enabled, compare, asked, ull, thread, hits>> /\ ull.at = "low"
  BY DEF LowCall, Typed
<1>2. /\ req' \in [Mfy -> 0 .. 3] /\ ack' \in [Mfy -> 0 .. 3]
      /\ queue' \in [Caller -> Seq(Mfy)] /\ owed' \in [Mfy -> BOOLEAN]
      /\ mfp' \in BOOLEAN /\ pending' \in BOOLEAN
  <2>1. CASE chain \/ ~enabled
    BY <1>0, <2>1, ChainTyped DEF LowCall
  <2>2. CASE ~(chain \/ ~enabled)
    <3>1. ack[m] \in 0 .. 3 /\ req \in [Mfy -> 0 .. 3] /\ owed \in [Mfy -> BOOLEAN]
      BY <1>0 DEF TypeOK
    <3>2. (ack[m] + 2) % 4 \in 0 .. 3
      BY <3>1, Mod4
    <3>3. req' \in [Mfy -> 0 .. 3]
      BY <2>2, <3>1, <3>2 DEF LowCall
    <3>4. owed' \in [Mfy -> BOOLEAN]
      BY <2>2, <3>1, Zenon DEF LowCall
    <3>5. UNCHANGED <<ack, queue, mfp, pending>>
      BY <2>2 DEF LowCall
    <3> QED
      BY <1>0, <3>3, <3>4, <3>5 DEF TypeOK
  <2> QED
    BY <2>1, <2>2
<1>3. calls' \in [Caller -> Nat] /\ \A c \in Caller : calls'[c] <= MaxCalls[c]
  BY <1>0, CallTyped
<1>4. TypeOK'
  BY <1>0, <1>2, <1>3, Zenon DEF TypeOK
<1>6. FrameOK' /\ ThreadOK'
  BY <1>0 DEF FrameOK, ThreadOK, AtWork, Holding
<1> QED
  BY <1>4, <1>6 DEF Typed

\* The steps of the thread, its calls and its lock, keep the types.
LEMMA ThreadTyped ==
  ASSUME MayflyAssumption, Typed, Thread
  PROVE  Typed'
<1>0. TypeOK /\ FrameOK /\ ThreadOK /\ UNCHANGED <<ack, ull, hits, compare>>
  BY DEF Typed, Thread, ThreadCall, ThreadState, ThreadLink, ThreadFlag, ThreadPend, Lock,
         AskDisable, Access, AskEnable, Unmask, mayflies, irq
<1>1. ull.at = "out"
  BY DEF Thread, ThreadCall, ThreadState, ThreadLink, ThreadFlag, ThreadPend, Lock,
         AskDisable, Access, AskEnable, Unmask, Goto, ThreadRuns
<1>2. FrameOK'
  BY <1>0, <1>1 DEF FrameOK, AtWork, Holding
<1>3. thread \in ThreadFrame /\ ull \in Frame /\ asked \in [disable : BOOLEAN, enable : BOOLEAN]
  BY <1>0 DEF TypeOK
<1>4. ASSUME NEW m \in Mfy, ThreadCall(m) PROVE TypeOK' /\ ThreadOK'
  <2>1. calls' \in [Caller -> Nat] /\ \A c \in Caller : calls'[c] <= MaxCalls[c]
    BY <1>0, <1>4, CallTyped DEF ThreadCall
  <2>2. thread' \in ThreadFrame
    <3>1. ack[m] \in 0 .. 3
      BY <1>0 DEF TypeOK
    <3> QED
      BY <1>3, <1>4, <3>1 DEF ThreadCall, ThreadFrame
  <2>3. owed' \in [Mfy -> BOOLEAN]
    <3>1. owed \in [Mfy -> BOOLEAN] /\ owed' = [owed EXCEPT ![m] = TRUE]
      BY <1>0, <1>4 DEF TypeOK, ThreadCall
    <3> QED
      BY <3>1, Zenon
  <2>4. UNCHANGED <<req, ack, queue, mfp, pending, compare, enabled, asked, ull, hits>>
    BY <1>4 DEF ThreadCall, irq
  <2>5. TypeOK'
    BY <1>0, <2>1, <2>2, <2>3, <2>4, Zenon DEF TypeOK
  <2>6. ThreadOK'
    BY <1>3, <1>4 DEF ThreadCall, ThreadOK, ThreadFrame
  <2> QED
    BY <2>5, <2>6
<1>5. CASE ThreadState
  <2>1. thread.m \in Mfy /\ thread.ack \in 0 .. 3
    BY <1>0, <1>3, <1>5 DEF ThreadState, ThreadOK, ThreadFrame
  <2>2. (thread.ack + 1) % 4 \in 0 .. 3
    BY <2>1, Mod4
  <2>3. req' \in [Mfy -> 0 .. 3]
    <3>1. req \in [Mfy -> 0 .. 3]
      BY <1>0 DEF TypeOK
    <3>2. req' = req \/ req' = [req EXCEPT ![thread.m] = (thread.ack + 1) % 4]
      BY <1>5 DEF ThreadState
    <3> QED
      BY <2>2, <3>1, <3>2
  <2>4. \E a \in {"run", "link", "flag"} : thread' = [thread EXCEPT !.at = a]
    BY <1>5, Zenon DEF ThreadState
  <2>5. thread' \in ThreadFrame /\ ThreadOK'
    BY <1>3, <1>0, <2>1, <2>4, <1>5 DEF ThreadFrame, ThreadOK, ThreadState
  <2>6. UNCHANGED <<ack, queue, owed, mfp, pending, compare, enabled, asked, ull, calls, hits>>
    BY <1>5 DEF ThreadState, irq
  <2> QED
    BY <1>0, <2>3, <2>5, <2>6, <1>2, Zenon DEF TypeOK, Typed
<1>6. CASE ThreadLink
  <2>1. thread.m \in Mfy /\ queue \in [Caller -> Seq(Mfy)] /\ THREAD \in Caller
    BY <1>0, <1>6 DEF ThreadLink, ThreadOK, Goto, TypeOK, Caller
  <2>2. queue' \in [Caller -> Seq(Mfy)]
    BY <1>6, <2>1, AppendFacts DEF ThreadLink
  <2>3. thread' \in ThreadFrame /\ ThreadOK'
    BY <1>3, <1>6 DEF ThreadLink, Goto, ThreadFrame, ThreadOK
  <2>4. UNCHANGED <<req, ack, owed, mfp, pending, compare, enabled, asked, ull, calls, hits>>
    BY <1>6 DEF ThreadLink, irq
  <2> QED
    BY <1>0, <2>2, <2>3, <2>4, <1>2, Zenon DEF TypeOK, Typed
<1>7. CASE ThreadFlag \/ ThreadPend
  <2>1. thread' \in ThreadFrame /\ ThreadOK'
    BY <1>3, <1>7 DEF ThreadFlag, ThreadPend, Goto, ThreadFrame, ThreadOK
  <2>2. UNCHANGED <<req, ack, queue, owed, compare, enabled, asked, ull, calls, hits>>
        /\ mfp' \in BOOLEAN /\ pending' \in BOOLEAN
    BY <1>0, <1>7 DEF ThreadFlag, ThreadPend, mayflies, TypeOK
  <2> QED
    BY <1>0, <2>1, <2>2, <1>2, Zenon DEF TypeOK, Typed
<1>8. CASE Lock
  <2>1. thread' \in ThreadFrame /\ ThreadOK'
    <3>1. enabled \in BOOLEAN
      BY <1>0 DEF TypeOK
    <3> QED
      BY <1>3, <1>8, <3>1 DEF Lock, ThreadFrame, ThreadOK
  <2>2. calls' \in [Caller -> Nat] /\ \A c \in Caller : calls'[c] <= MaxCalls[c]
    <3>1. calls \in [Caller -> Nat] /\ MaxCalls \in [Caller -> Nat] /\ THREAD \in Caller
          /\ \A c \in Caller : calls[c] <= MaxCalls[c]
      BY <1>0 DEF TypeOK, MayflyAssumption, Caller
    <3> QED
      BY <1>8, <3>1 DEF Lock
  <2>3. UNCHANGED <<req, ack, queue, owed, mfp, pending, compare, enabled, asked, ull, hits>>
    BY <1>8 DEF Lock, mayflies, irq
  <2> QED
    BY <1>0, <2>1, <2>2, <2>3, <1>2, Zenon DEF TypeOK, Typed
<1>9. CASE AskDisable \/ Access \/ AskEnable \/ Unmask
  <2>1. thread' \in ThreadFrame /\ ThreadOK'
    BY <1>3, <1>9 DEF AskDisable, Access, AskEnable, Unmask, Goto, ThreadFrame, ThreadOK
  <2>2. asked' \in [disable : BOOLEAN, enable : BOOLEAN] /\ enabled' \in BOOLEAN
    BY <1>0, <1>3, <1>9 DEF AskDisable, Access, AskEnable, Unmask, TypeOK
  <2>3. UNCHANGED <<req, ack, queue, owed, mfp, pending, compare, ull, calls, hits>>
    BY <1>9 DEF AskDisable, Access, AskEnable, Unmask, mayflies, irq
  <2> QED
    BY <1>0, <2>1, <2>2, <2>3, <1>2, Zenon DEF TypeOK, Typed
<1> QED
  BY <1>2, <1>4, <1>5, <1>6, <1>7, <1>8, <1>9 DEF Thread, Typed

\* The RTC compare event keeps the types.
LEMMA CompareTyped ==
  ASSUME MayflyAssumption, Typed, Compare
  PROVE  Typed'
<1>0. TypeOK /\ FrameOK /\ ThreadOK
      /\ UNCHANGED <<req, ack, queue, owed, mfp, enabled, asked, ull, thread, hits>>
      /\ compare' = TRUE /\ pending' = TRUE
  BY DEF Compare, Typed, mayflies
<1>1. calls' \in [Caller -> Nat] /\ \A c \in Caller : calls'[c] <= MaxCalls[c]
  <2>1. calls \in [Caller -> Nat] /\ MaxCalls \in [Caller -> Nat] /\ ULL_HIGH \in Caller
        /\ \A c \in Caller : calls[c] <= MaxCalls[c]
    BY <1>0 DEF TypeOK, MayflyAssumption, Caller
  <2> QED
    BY <2>1 DEF Compare
<1>2. TypeOK'
  BY <1>0, <1>1, Zenon DEF TypeOK
<1> QED
  BY <1>0, <1>2 DEF Typed, FrameOK, ThreadOK

\* Entering the interrupt, with the ticker's call or without, keeps the types.
LEMMA EnterTyped ==
  ASSUME MayflyAssumption, Typed, Enter
  PROVE  Typed'
<1>0. TypeOK /\ FrameOK /\ ThreadOK /\ UNCHANGED <<enabled, asked, thread, calls, hits>>
      /\ compare' = FALSE /\ ull.at = "out" /\ ull' = [ull EXCEPT !.at = "start"]
      /\ ull \in Frame /\ Trigger \in Mfy /\ ULL_HIGH \in Caller
  BY DEF Enter, Typed, TypeOK, MayflyAssumption, Caller
<1>1. FrameOK' /\ ThreadOK' /\ ull' \in Frame
  BY <1>0 DEF FrameOK, ThreadOK, Frame, AtWork, Holding
<1>2. req \in [Mfy -> 0 .. 3] /\ ack \in [Mfy -> 0 .. 3] /\ queue \in [Caller -> Seq(Mfy)]
      /\ mfp \in BOOLEAN /\ pending \in BOOLEAN /\ owed \in [Mfy -> BOOLEAN]
  BY <1>0 DEF TypeOK
<1>3. /\ req' \in [Mfy -> 0 .. 3] /\ ack' = ack /\ queue' \in [Caller -> Seq(Mfy)]
      /\ mfp' \in BOOLEAN /\ pending' \in BOOLEAN /\ owed' \in [Mfy -> BOOLEAN]
  <2>1. CASE ~compare
    BY <1>2, <2>1 DEF Enter, mayflies
  <2>2. CASE compare
    <3>1. (ack[Trigger] + 1) % 4 \in 0 .. 3
      <4>1. ack[Trigger] \in 0 .. 3
        BY <1>0, <1>2
      <4> QED
        BY <4>1, Mod4
    <3>2. req' \in [Mfy -> 0 .. 3]
      <4>1. req' = req \/ req' = [req EXCEPT ![Trigger] = (ack[Trigger] + 1) % 4]
        BY <2>2 DEF Enter
      <4> QED
        BY <1>2, <3>1, <4>1
    <3>3. queue' \in [Caller -> Seq(Mfy)]
      <4>1. queue' = queue \/ queue' = [queue EXCEPT ![ULL_HIGH] = Append(@, Trigger)]
        BY <2>2 DEF Enter
      <4>2. CASE queue' = [queue EXCEPT ![ULL_HIGH] = Append(@, Trigger)]
        BY <1>0, <1>2, <4>2, AppendFacts
      <4> QED
        BY <1>2, <4>1, <4>2
    <3>4. owed' \in [Mfy -> BOOLEAN]
      <4>1. owed' = [owed EXCEPT ![Trigger] = TRUE]
        BY <2>2 DEF Enter
      <4> QED
        BY <1>2, <4>1, Zenon
    <3> QED
      BY <1>2, <2>2, <3>2, <3>3, <3>4 DEF Enter
  <2> QED
    BY <2>1, <2>2
<1>4. TypeOK'
  BY <1>0, <1>1, <1>2, <1>3, Zenon DEF TypeOK
<1> QED
  BY <1>1, <1>4 DEF Typed

\* Taking up the head of a queue keeps the types: there is a head, and it is a
\* mayfly.
LEMMA RunTyped ==
  ASSUME MayflyAssumption, Typed, Run
  PROVE  Typed'
<1> DEFINE m == Head(queue[ull.caller])
<1>0. TypeOK /\ FrameOK /\ ThreadOK
      /\ UNCHANGED <<req, queue, mfp, pending, compare, enabled, asked, thread, calls, hits>>
      /\ queue[ull.caller] # <<>> /\ ull \in Frame /\ ull.caller \in Caller
  BY DEF Run, Typed, TypeOK, irq, Frame
<1>1. m \in Mfy
  <2>1. queue[ull.caller] \in Seq(Mfy)
    BY <1>0 DEF TypeOK
  <2> QED
    BY <1>0, <2>1, HeadTailProperties
<1>2. /\ ull' = [ull EXCEPT !.m = m, !.ran = (State(m) = Ready),
                            !.at = IF State(m) = Ready THEN "call" ELSE "dequeue"]
      /\ ack' = (IF State(m) = Ready THEN [ack EXCEPT ![m] = (@ + 3) % 4] ELSE ack)
      /\ owed' = (IF State(m) = Ready THEN [owed EXCEPT ![m] = FALSE] ELSE owed)
  BY DEF Run
<1> HIDE DEF m
<1>3. ull' \in Frame /\ ull'.m = m /\ ull'.at \in {"call", "dequeue"} /\ ull'.caller = ull.caller
  BY <1>0, <1>1, <1>2 DEF Frame
<1>4. ack' \in [Mfy -> 0 .. 3]
  <2>1. ack[m] \in 0 .. 3 /\ ack \in [Mfy -> 0 .. 3]
    BY <1>0, <1>1 DEF TypeOK
  <2>2. (ack[m] + 3) % 4 \in 0 .. 3
    BY <2>1, Mod4
  <2> QED
    BY <1>2, <2>1, <2>2
<1>5. owed' \in [Mfy -> BOOLEAN]
  <2>1. owed \in [Mfy -> BOOLEAN] /\ (owed' = owed \/ owed' = [owed EXCEPT ![m] = FALSE])
    BY <1>0, <1>2 DEF TypeOK
  <2> QED
    BY <2>1, Zenon
<1>6. TypeOK'
  BY <1>0, <1>3, <1>4, <1>5, Zenon DEF TypeOK
<1>7. FrameOK' /\ ThreadOK'
  BY <1>0, <1>1, <1>3 DEF FrameOK, ThreadOK, AtWork, Holding, m
<1> QED
  BY <1>6, <1>7 DEF Typed

\* The three steps of dequeue() that write keep the types.
LEMMA ReleaseTyped ==
  ASSUME MayflyAssumption, Typed, Release \/ Recheck \/ Reinsert
  PROVE  Typed'
<1>0. TypeOK /\ FrameOK /\ ThreadOK /\ ull \in Frame /\ ull.caller \in Caller /\ ull.m \in Mfy
      /\ UNCHANGED <<req, owed, mfp, pending, compare, enabled, asked, thread, calls, hits>>
      /\ ull.req \in 0 .. 3 /\ ull.ack \in 0 .. 3 /\ ULL_HIGH \in Caller
      /\ ack \in [Mfy -> 0 .. 3] /\ queue \in [Caller -> Seq(Mfy)]
  BY DEF Release, Recheck, Reinsert, Typed, TypeOK, FrameOK, AtWork, Holding, irq, Frame, Caller
<1>1. ull' \in Frame /\ ull'.m = ull.m /\ ull'.at \in {"recheck", "reinsert", "next"}
  <2>1. ack[ull.m] \in 0 .. 3
    BY <1>0
  <2> QED
    BY <1>0, <2>1 DEF Release, Recheck, Reinsert, Frame
<1>2. ack' \in [Mfy -> 0 .. 3]
  BY <1>0 DEF Release, Recheck, Reinsert
<1>3. queue' \in [Caller -> Seq(Mfy)]
  <2>1. CASE Release
    <3>1. queue[ull.caller] \in Seq(Mfy) /\ queue[ull.caller] # <<>>
      BY <1>0, <2>1 DEF Release, FrameOK, Holding
    <3>2. Tail(queue[ull.caller]) \in Seq(Mfy)
      BY <3>1, HeadTailProperties
    <3> QED
      BY <1>0, <2>1, <3>2 DEF Release
  <2>2. CASE Recheck
    BY <1>0, <2>2 DEF Recheck
  <2>3. CASE Reinsert
    BY <1>0, <2>3, AppendFacts DEF Reinsert
  <2> QED
    BY <2>1, <2>2, <2>3
<1>4. TypeOK'
  BY <1>0, <1>1, <1>2, <1>3, Zenon DEF TypeOK
<1>5. FrameOK' /\ ThreadOK'
  BY <1>0, <1>1 DEF FrameOK, ThreadOK, AtWork, Holding
<1> QED
  BY <1>4, <1>5 DEF Typed

\* The steps of mayfly_run that touch no queue keep the types.
LEMMA QuietTyped ==
  ASSUME MayflyAssumption, Typed, Start \/ Return \/ Look \/ NextMayfly \/ NextCaller \/ Leave
  PROVE  Typed'
<1>0. TypeOK /\ FrameOK /\ ThreadOK /\ ull \in Frame /\ ull.caller \in Caller
      /\ UNCHANGED <<req, ack, queue, owed, compare, thread, calls>>
  BY DEF Start, Return, Look, NextMayfly, NextCaller, Leave, Typed, TypeOK, mayflies, irq, Frame
<1>1. ull' \in Frame /\ FrameOK'
  <2>1. CASE Start
    BY <1>0, <2>1 DEF Start, Frame, FrameOK, AtWork, Holding, Caller, THREAD
  <2>2. CASE Return
    BY <1>0, <2>2 DEF Return, Frame, FrameOK, AtWork, Holding
  <2>3. CASE Look
    <3>1. ull.m \in Mfy
      BY <1>0, <2>3 DEF Look, FrameOK, AtWork, Holding
    <3>2. req[ull.m] \in 0 .. 3
      BY <1>0, <3>1 DEF TypeOK
    <3> QED
      BY <1>0, <2>3, <3>2 DEF Look, Frame, FrameOK, AtWork, Holding
  <2>4. CASE NextMayfly
    BY <1>0, <2>4 DEF NextMayfly, Frame, FrameOK, AtWork, Holding
  <2>5. CASE NextCaller
    <3>1. asked.disable \in BOOLEAN /\ asked.enable \in BOOLEAN
      BY <1>0 DEF TypeOK
    <3>2. (IF ull.caller = LLL THEN LLL ELSE ull.caller - 1) \in Caller
      BY <1>0 DEF Caller, LLL, ULL_HIGH, ULL_LOW, THREAD
    <3> QED
      BY <1>0, <2>5, <3>1, <3>2 DEF NextCaller, Frame, FrameOK, AtWork, Holding
  <2>6. CASE Leave
    BY <1>0, <2>6 DEF Leave, UllRest, Frame, FrameOK, AtWork, Holding, Caller, LLL
  <2> QED
    BY <2>1, <2>2, <2>3, <2>4, <2>5, <2>6
<1>2. /\ mfp' \in BOOLEAN /\ pending' \in BOOLEAN /\ enabled' \in BOOLEAN
      /\ asked' \in [disable : BOOLEAN, enable : BOOLEAN] /\ hits' \in 0 .. MaxHits
  <2>1. mfp \in BOOLEAN /\ pending \in BOOLEAN /\ enabled \in BOOLEAN
        /\ asked \in [disable : BOOLEAN, enable : BOOLEAN]
        /\ hits \in 0 .. MaxHits /\ MaxHits \in Nat
    BY <1>0 DEF TypeOK, MayflyAssumption
  <2>2. mfp' \in BOOLEAN /\ pending' \in BOOLEAN
    BY <2>1 DEF Start, Return, Look, NextMayfly, NextCaller, Leave, irq
  <2>3. enabled' \in BOOLEAN
    BY <2>1 DEF Start, Return, Look, NextMayfly, NextCaller, Leave
  <2>4. asked' \in [disable : BOOLEAN, enable : BOOLEAN]
    <3>1. CASE NextCaller
      <4>1. asked' = asked \/ asked' = [disable |-> FALSE, enable |-> FALSE]
        BY <3>1 DEF NextCaller
      <4>2. [disable |-> FALSE, enable |-> FALSE] \in [disable : BOOLEAN, enable : BOOLEAN]
        OBVIOUS
      <4> QED
        BY <2>1, <4>1, <4>2, Zenon
    <3>2. CASE ~NextCaller
      <4>1. asked' = asked
        BY <3>2 DEF Start, Return, Look, NextMayfly, Leave
      <4> QED
        BY <2>1, <4>1, Zenon
    <3> QED
      BY <3>1, <3>2
  <2>5. hits' \in 0 .. MaxHits
    BY <2>1 DEF Start, Return, Look, NextMayfly, NextCaller, Leave
  <2> QED
    BY <2>2, <2>3, <2>4, <2>5
<1>3. TypeOK'
  BY <1>0, <1>1, <1>2, Zenon DEF TypeOK
<1> QED
  BY <1>0, <1>1, <1>3 DEF Typed, ThreadOK

\* The initial state is typed.
LEMMA InitTyped == MayflyAssumption /\ Init => Typed
<1> SUFFICES ASSUME MayflyAssumption, Init PROVE Typed
  OBVIOUS
<1>1. ull \in Frame /\ ull.at = "out" /\ ull.m = None /\ thread \in ThreadFrame /\ thread.at = "run"
  BY DEF Init, UllRest, ThreadRest, Frame, ThreadFrame, Caller, LLL
<1>2. queue \in [Caller -> Seq(Mfy)]
  BY EmptySeq DEF Init
<1>3. req \in [Mfy -> 0 .. 3] /\ ack \in [Mfy -> 0 .. 3] /\ hits \in 0 .. MaxHits
      /\ calls \in [Caller -> Nat] /\ \A c \in Caller : calls[c] <= MaxCalls[c]
  BY DEF Init, MayflyAssumption
<1>4. owed \in [Mfy -> BOOLEAN]
  BY Zenon DEF Init
<1>5. TypeOK
  BY <1>1, <1>2, <1>3, <1>4 DEF Init, TypeOK
<1> QED
  BY <1>1, <1>5 DEF Typed, FrameOK, ThreadOK, AtWork, Holding

\* Every step keeps the types, the frame of mayfly_run and the thread's locals.
LEMMA NextTyped == MayflyAssumption /\ Typed /\ [Next]_vars => Typed'
<1> SUFFICES ASSUME MayflyAssumption, Typed, [Next]_vars PROVE Typed'
  OBVIOUS
<1>1. CASE Ull
  BY <1>1, EnterTyped, RunTyped, ReleaseTyped, QuietTyped DEF Ull
<1>2. CASE Thread
  BY <1>2, ThreadTyped
<1>3. CASE Calls
  BY <1>3, CompareTyped, LllCallTyped, UllCallTyped, LowCallTyped DEF Calls
<1>4. CASE UNCHANGED vars
  BY <1>4 DEF vars, mayflies, irq, Typed, TypeOK, FrameOK, ThreadOK
<1> QED
  BY <1>1, <1>2, <1>3, <1>4 DEF Next

-----------------------------------------------------------------------------
(* The mask. *)

\* A thread that has asked ULL_HIGH to be masked and has not unmasked it yet,
\* and will.
Holds ==
  \/ thread.at \in {"inside", "access", "unmask"} /\ thread.key
  \/ thread.at \in {"flag", "pend"} /\ thread.then = "inside" /\ thread.key

\* The key of whoever takes the lock says that ULL_HIGH was enabled, and every
\* request to disable that no request to enable has met is the holder's.
MaskInv ==
  /\ ~enabled => Holds
  /\ asked.disable /\ ~asked.enable => Holds
  /\ ull.disable /\ ~ull.enable => Holds
  /\ ull.at = "out" => ~ull.disable
  /\ thread.at = "ask" => thread.key
  /\ thread.at = "unmask" => ~asked.disable \/ asked.enable
  /\ thread.at \in {"ask", "inside", "access", "unmask"} => thread.then = "inside"
  /\ thread.then = "inside" /\ thread.at # "run" => thread.key

\* Initially ULL_HIGH is not masked and nobody has asked for it.
LEMMA InitMask == Init => MaskInv
  BY DEF Init, MaskInv, UllRest, ThreadRest

\* The lock and the unlock of the thread keep MaskInv: it asks for the mask only
\* with a key that obliges it to unmask.
LEMMA ThreadMask ==
  ASSUME Typed, MaskInv, Thread
  PROVE  MaskInv'
<1>1. UNCHANGED ull /\ ull.at = "out" /\ thread \in ThreadFrame /\ enabled \in BOOLEAN
      /\ asked \in [disable : BOOLEAN, enable : BOOLEAN]
  BY DEF Typed, TypeOK, Thread, ThreadCall, ThreadState, ThreadLink, ThreadFlag, ThreadPend, Lock,
         AskDisable, Access, AskEnable, Unmask, Goto, ThreadRuns
<1>2. ASSUME NEW m \in Mfy, ThreadCall(m) PROVE MaskInv'
  BY <1>1, <1>2 DEF ThreadCall, MaskInv, Holds, ThreadFrame
<1>3. CASE ThreadState
  <2>1. \E a \in {"run", "link", "flag"} : thread' = [thread EXCEPT !.at = a]
    BY <1>3, Zenon DEF ThreadState
  <2>2. UNCHANGED <<enabled, asked>> /\ thread.at = "state"
    BY <1>3 DEF ThreadState
  <2> QED
    BY <1>1, <2>1, <2>2 DEF MaskInv, Holds, ThreadFrame
<1>4. CASE ThreadLink \/ ThreadFlag \/ ThreadPend \/ Access
  BY <1>1, <1>4 DEF ThreadLink, ThreadFlag, ThreadPend, Access, Goto, MaskInv, Holds, ThreadFrame
<1>5. CASE Lock
  BY <1>1, <1>5 DEF Lock, MaskInv, Holds, ThreadFrame
<1>6. CASE AskDisable
  BY <1>1, <1>6 DEF AskDisable, Goto, MaskInv, Holds, ThreadFrame
<1>7. CASE AskEnable
  BY <1>1, <1>7 DEF AskEnable, Goto, MaskInv, Holds, ThreadFrame
<1>8. CASE Unmask
  BY <1>1, <1>8 DEF Unmask, Goto, MaskInv, Holds, ThreadFrame
<1> QED
  BY <1>2, <1>3, <1>4, <1>5, <1>6, <1>7, <1>8 DEF Thread

\* mayfly_run keeps MaskInv: it masks at the end of a round only on a request
\* that the holder made and has not taken back.
LEMMA UllMask ==
  ASSUME Typed, MaskInv, Ull
  PROVE  MaskInv'
<1>1. UNCHANGED thread /\ ull \in Frame /\ enabled \in BOOLEAN
      /\ asked \in [disable : BOOLEAN, enable : BOOLEAN]
  BY DEF Typed, TypeOK, Ull, Enter, Start, Run, Return, Look, Release, Recheck, Reinsert,
         NextMayfly, NextCaller, Leave
<1>2. Holds' = Holds
  BY <1>1 DEF Holds
<1>3. CASE Enter \/ Start \/ Run \/ Return \/ Look \/ Release \/ Recheck \/ Reinsert \/ NextMayfly \/ Leave
  <2>1. UNCHANGED <<enabled, asked>>
    BY <1>3 DEF Enter, Start, Run, Return, Look, Release, Recheck, Reinsert, NextMayfly, Leave
  <2>2. /\ ull'.disable => ull'.disable = ull.disable /\ ull'.enable = ull.enable
        /\ ull'.at = "out" => ~ull'.disable
    <3>1. CASE Enter
      BY <1>1, <3>1 DEF Enter, Frame
    <3>2. CASE Start
      BY <1>1, <3>2 DEF Start, Frame
    <3>3. CASE Run
      <4>1. /\ ull'.at \in {"call", "dequeue"}
            /\ ull'.disable = ull.disable /\ ull'.enable = ull.enable
        BY <1>1, <3>3 DEF Run, Frame
      <4> QED
        BY <4>1
    <3>4. CASE Return \/ Look \/ Release \/ Reinsert
      BY <1>1, <3>4 DEF Return, Look, Release, Reinsert, Frame
    <3>5. CASE Recheck
      BY <1>1, <3>5 DEF Recheck, Frame
    <3>6. CASE NextMayfly
      BY <1>1, <3>6 DEF NextMayfly, Frame
    <3>7. CASE Leave
      BY <1>1, <3>7 DEF Leave, UllRest
    <3> QED
      BY <1>3, <3>1, <3>2, <3>3, <3>4, <3>5, <3>6, <3>7
  <2> QED
    BY <1>1, <1>2, <2>1, <2>2 DEF MaskInv
<1>4. CASE NextCaller
  BY <1>1, <1>2, <1>4 DEF NextCaller, MaskInv, Frame
<1> QED
  BY <1>3, <1>4 DEF Ull

\* Every step keeps MaskInv.
LEMMA NextMask == Typed /\ MaskInv /\ [Next]_vars => MaskInv'
<1> SUFFICES ASSUME Typed, MaskInv, [Next]_vars PROVE MaskInv'
  OBVIOUS
<1>1. CASE Calls \/ UNCHANGED vars
  <2>1. UNCHANGED <<enabled, asked, ull, thread>>
    BY <1>1 DEF Calls, Compare, LllCall, UllCall, LowCall, vars
  <2> QED
    BY <2>1 DEF MaskInv, Holds
<1> QED
  BY <1>1, ThreadMask, UllMask DEF Next

-----------------------------------------------------------------------------
(* Links. *)

\* Some queue of q has the mayfly; no two links of q are of the same mayfly.
Linked(q, m) == \E c \in Caller : \E i \in 1 .. Len(q[c]) : q[c][i] = m

Once(q) ==
  \A m \in Mfy : \A c, d \in Caller : \A i \in 1 .. Len(q[c]), j \in 1 .. Len(q[d]) :
    q[c][i] = m /\ q[d][j] = m => c = d /\ i = j

\* Appending a mayfly that no queue has keeps every link single.
LEMMA AppendOnce ==
  ASSUME NEW q \in [Caller -> Seq(Mfy)], NEW c \in Caller, NEW m \in Mfy,
         Once(q), ~Linked(q, m)
  PROVE  /\ Once([q EXCEPT ![c] = Append(@, m)])
         /\ \A n \in Mfy : Linked([q EXCEPT ![c] = Append(@, m)], n) <=> Linked(q, n) \/ n = m
<1> DEFINE p == [q EXCEPT ![c] = Append(@, m)]
<1>1. q[c] \in Seq(Mfy) /\ \A d \in Caller : q[d] \in Seq(Mfy) /\ Len(q[d]) \in Nat
  BY LenProperties
<1>2. /\ Len(p[c]) = Len(q[c]) + 1
      /\ \A i \in 1 .. Len(q[c]) : p[c][i] = q[c][i]
      /\ p[c][Len(q[c]) + 1] = m
  <2>1. p[c] = Append(q[c], m)
    OBVIOUS
  <2> QED
    BY <1>1, <2>1, AppendProperties
<1>3. \A d \in Caller \ {c} : p[d] = q[d]
  OBVIOUS
<1>4. \A d \in Caller : \A i \in 1 .. Len(p[d]) :
        \/ i \in 1 .. Len(q[d]) /\ p[d][i] = q[d][i]
        \/ d = c /\ i = Len(q[c]) + 1 /\ p[d][i] = m
  BY <1>1, <1>2, <1>3
<1>5. \A d \in Caller : \A i \in 1 .. Len(q[d]) : q[d][i] # m
  BY DEF Linked
<1>6. Once(p)
  BY <1>4, <1>5 DEF Once
<1>7. ASSUME NEW n \in Mfy PROVE Linked(p, n) <=> Linked(q, n) \/ n = m
  <2>1. Linked(p, n) => Linked(q, n) \/ n = m
    BY <1>4 DEF Linked
  <2>2. Linked(q, n) => Linked(p, n)
    <3>1. \A d \in Caller : \A i \in 1 .. Len(q[d]) : i \in 1 .. Len(p[d]) /\ p[d][i] = q[d][i]
      BY <1>1, <1>2, <1>3
    <3> QED
      BY <3>1 DEF Linked
  <2>3. Linked(p, m)
    <3>1. Len(q[c]) + 1 \in 1 .. Len(p[c])
      BY <1>1, <1>2
    <3> QED
      BY <1>2, <3>1 DEF Linked
  <2> QED
    BY <2>1, <2>2, <2>3
<1> QED
  BY <1>6, <1>7

\* The head of a queue is linked.
LEMMA HeadLinked ==
  ASSUME NEW q \in [Caller -> Seq(Mfy)], NEW c \in Caller, q[c] # <<>>
  PROVE  Linked(q, Head(q[c]))
<1>1. q[c] \in Seq(Mfy) /\ Len(q[c]) \in Nat /\ Len(q[c]) # 0
  BY LenProperties, EmptySeq
<1>2. 1 \in 1 .. Len(q[c]) /\ q[c][1] = Head(q[c])
  BY <1>1, HeadTailProperties
<1> QED
  BY <1>2 DEF Linked

\* Taking the head of a queue off unlinks it and leaves the others linked.
LEMMA TailOnce ==
  ASSUME NEW q \in [Caller -> Seq(Mfy)], NEW c \in Caller, q[c] # <<>>, Once(q)
  PROVE  /\ Once([q EXCEPT ![c] = Tail(@)])
         /\ Linked(q, Head(q[c])) /\ ~Linked([q EXCEPT ![c] = Tail(@)], Head(q[c]))
         /\ \A n \in Mfy : Linked([q EXCEPT ![c] = Tail(@)], n) => Linked(q, n)
<1> DEFINE p == [q EXCEPT ![c] = Tail(@)]
<1>1. q[c] \in Seq(Mfy) /\ \A d \in Caller : q[d] \in Seq(Mfy) /\ Len(q[d]) \in Nat
  BY LenProperties
<1>2. /\ Len(p[c]) = Len(q[c]) - 1 /\ Len(q[c]) >= 1
      /\ \A i \in 1 .. Len(p[c]) : p[c][i] = q[c][i + 1]
      /\ q[c][1] = Head(q[c]) /\ Head(q[c]) \in Mfy
  <2>1. p[c] = Tail(q[c])
    OBVIOUS
  <2>2. Len(q[c]) # 0
    BY <1>1, EmptySeq
  <2> QED
    BY <1>1, <2>1, <2>2, HeadTailProperties
<1>3. \A d \in Caller \ {c} : p[d] = q[d]
  OBVIOUS
<1>4. \A d \in Caller : \A i \in 1 .. Len(p[d]) :
        \/ d = c /\ i + 1 \in 2 .. Len(q[c]) /\ p[d][i] = q[c][i + 1]
        \/ d # c /\ i \in 1 .. Len(q[d]) /\ p[d][i] = q[d][i]
  BY <1>1, <1>2, <1>3
<1>5. 1 \in 1 .. Len(q[c])
  BY <1>1, <1>2
<1>6. Once(p)
  <2> SUFFICES ASSUME NEW m \in Mfy, NEW d \in Caller, NEW e \in Caller,
                      NEW i \in 1 .. Len(p[d]), NEW j \in 1 .. Len(p[e]),
                      p[d][i] = m, p[e][j] = m
               PROVE  d = e /\ i = j
    BY DEF Once
  <2>1. i \in Nat /\ j \in Nat
    BY <1>1, <1>2, <1>3
  <2> QED
    BY <1>1, <1>4, <2>1 DEF Once
<1>7. ~Linked(p, Head(q[c]))
  BY <1>1, <1>2, <1>4, <1>5 DEF Once, Linked
<1>8. Linked(q, Head(q[c]))
  BY <1>2, <1>5 DEF Linked
<1>9. \A n \in Mfy : Linked(p, n) => Linked(q, n)
  BY <1>1, <1>4 DEF Linked
<1> QED
  BY <1>6, <1>7, <1>8, <1>9

\* What each context may rely on when it links a mayfly or takes it off.
LinkInv ==
  /\ Once(queue)
  /\ \A m \in Mfy : Linked(queue, m) => State(m) # Idle
  /\ \A m \in Mfy : Owner[m] = THREAD /\ Linked(queue, m) /\ ~(ull.m = m /\ ull.at \in Holding)
       => State(m) = Ready
  /\ thread.at = "state" => \/ (req[thread.m] - thread.ack) % 4 = Ready
                            \/ thread.ack = ack[thread.m] /\ ull.m # thread.m
  /\ thread.at = "link" => ~Linked(queue, thread.m) /\ State(thread.m) = Ready /\ ull.m # thread.m
  /\ ull.at = "release" => ull.req # ack[ull.m]
  /\ ull.at = "recheck" => /\ ull.req # ull.ack /\ ack[ull.m] = ull.req
                           /\ RePended => ~Linked(queue, ull.m)
  /\ ull.at = "reinsert" => ~Linked(queue, ull.m) /\ State(ull.m) = Ready

\* The two counters, modulo 4.
LEMMA Counters ==
  ASSUME NEW r \in 0 .. 3, NEW a \in 0 .. 3
  PROVE  /\ (((a + 1) % 4) - a) % 4 = 1
         /\ (((a + 2) % 4) - a) % 4 = 2
         /\ (r - a) % 4 = 1 => (r - ((a + 3) % 4)) % 4 = 2
         /\ (r - a) % 4 = 0 <=> r = a
         /\ (((r + 1) % 4) - a) % 4 = 1 <=> r = a
<1>1. r \in {0, 1, 2, 3} /\ a \in {0, 1, 2, 3}
  OBVIOUS
<1> QED
  BY <1>1

\* The part of Chain that concerns links.
Chains(m) ==
  /\ ack' = ack
  /\ State(m) = Ready => req' = req /\ queue' = queue
  /\ State(m) # Ready => /\ req' = [req EXCEPT ![m] = (ack[m] + 1) % 4]
                         /\ State(m) # Idle => queue' = queue
                         /\ State(m) = Idle => queue' = [queue EXCEPT ![Owner[m]] = Append(@, m)]

\* A chained call of LLL or of ULL keeps LinkInv: it links only an idle mayfly,
\* and an idle one is linked nowhere.
LEMMA ChainLinks ==
  ASSUME MayflyAssumption, Typed, LinkInv, NEW m \in Mfy, Chains(m), Owner[m] # THREAD,
         UNCHANGED thread, ull'.m = ull.m, ull'.req = ull.req, ull'.ack = ull.ack,
         ull'.at = ull.at \/ (ull.at = "out" /\ ull'.at = "start")
  PROVE  LinkInv'
<1>1. /\ req \in [Mfy -> 0 .. 3] /\ ack \in [Mfy -> 0 .. 3] /\ queue \in [Caller -> Seq(Mfy)]
      /\ Owner[m] \in Caller /\ ull \in Frame
  BY DEF Typed, TypeOK, MayflyAssumption
<1>2. /\ Once(queue')
      /\ \A n \in Mfy : Linked(queue', n) => Linked(queue, n) \/ (n = m /\ State(m) # Ready)
  <2>1. CASE queue' = queue
    BY <2>1 DEF LinkInv
  <2>2. CASE queue' = [queue EXCEPT ![Owner[m]] = Append(@, m)] /\ State(m) = Idle
    <3>1. ~Linked(queue, m) /\ Once(queue) /\ State(m) # Ready
      BY <2>2 DEF LinkInv, Idle, Ready
    <3>2. Once(queue') /\ \A n \in Mfy : Linked(queue', n) <=> Linked(queue, n) \/ n = m
      BY <1>1, <2>2, <3>1, AppendOnce
    <3> QED
      BY <3>1, <3>2
  <2> QED
    BY <2>1, <2>2 DEF Chains
<1>3. /\ \A n \in Mfy \ {m} : req'[n] = req[n] /\ State(n)' = State(n)
      /\ State(m)' = Ready
  <2>1. ack[m] \in 0 .. 3 /\ req[m] \in 0 .. 3
    BY <1>1
  <2>2. (((ack[m] + 1) % 4) - ack[m]) % 4 = 1
    BY <2>1, Counters
  <2> QED
    BY <1>1, <2>2 DEF Chains, State, Ready
<1>4. \A n \in Mfy : Linked(queue', n) => State(n)' # Idle
  BY <1>2, <1>3 DEF LinkInv, Ready, Idle
<1>5. \A n \in Mfy : Owner[n] = THREAD /\ Linked(queue', n) /\ ~(ull'.m = n /\ ull'.at \in Holding)
        => State(n)' = Ready
  BY <1>2, <1>3 DEF LinkInv, Holding
<1>6. thread.at \in {"state", "link"} => thread.m \in Mfy \ {m}
  BY DEF Typed, ThreadOK
<1>7. thread'.at = "state" => \/ (req'[thread'.m] - thread'.ack) % 4 = Ready
                              \/ thread'.ack = ack'[thread'.m] /\ ull'.m # thread'.m
  BY <1>3, <1>6 DEF LinkInv, Chains
<1>8. thread'.at = "link" => ~Linked(queue', thread'.m) /\ State(thread.m)' = Ready /\ ull'.m # thread'.m
  BY <1>2, <1>3, <1>6 DEF LinkInv, State, Ready
<1>9. ull'.at = "release" => ull'.req # ack'[ull'.m]
  BY DEF LinkInv, Chains
<1>10. ASSUME ull'.at = "recheck"
       PROVE  /\ ull'.req # ull'.ack /\ ack'[ull'.m] = ull'.req
              /\ RePended' => ~Linked(queue', ull'.m)
  <2>1. ull.at = "recheck" /\ ull.m \in Mfy /\ ull.req \in 0 .. 3 /\ ull.ack \in 0 .. 3
    BY <1>1, <1>10 DEF Typed, FrameOK, AtWork, Frame
  <2>2. ull.req # ull.ack /\ ack[ull.m] = ull.req /\ (RePended => ~Linked(queue, ull.m))
    BY <2>1 DEF LinkInv
  <2>3. CASE m # ull.m \/ State(m) = Ready
    BY <1>2, <1>3, <2>1, <2>2, <2>3 DEF RePended, Chains
  <2>4. CASE m = ull.m /\ State(m) # Ready
    <3>1. req'[ull.m] = (ull.req + 1) % 4
      BY <1>1, <2>1, <2>2, <2>4 DEF Chains
    <3>2. (((ull.req + 1) % 4) - ull.ack) % 4 # 1
      BY <2>1, <2>2, Counters
    <3> QED
      BY <2>2, <3>1, <3>2 DEF RePended, Ready, Chains
  <2> QED
    BY <2>3, <2>4
<1>11. ull'.at = "reinsert" => ~Linked(queue', ull'.m) /\ State(ull.m)' = Ready
  <2>1. ull'.at = "reinsert" => ull.m \in Mfy /\ ~Linked(queue, ull.m) /\ State(ull.m) = Ready
    BY DEF LinkInv, Typed, FrameOK, AtWork
  <2>2. ull'.at = "reinsert" => ~Linked(queue', ull.m)
    BY <1>2, <2>1
  <2> QED
    BY <1>3, <2>1, <2>2 DEF State
<1> QED
  BY <1>2, <1>4, <1>5, <1>7, <1>8, <1>9, <1>10, <1>11 DEF LinkInv

\* Every call that is not a thread's keeps LinkInv, between the two looks of
\* dequeue() too.
LEMMA CallsLinks ==
  ASSUME MayflyAssumption, Typed, LinkInv, Calls
  PROVE  LinkInv'
<1>1. CASE Compare
  <2>1. UNCHANGED <<req, ack, queue, ull, thread>>
    BY <1>1 DEF Compare, mayflies
  <2> QED
    BY <2>1 DEF LinkInv, State, RePended
<1>2. ASSUME NEW m \in Mfy, LllCall(m) \/ UllCall(m) PROVE LinkInv'
  <2>1. Owner[m] # THREAD /\ UNCHANGED <<ull, thread>> /\ Chain(m)
    BY <1>2 DEF LllCall, UllCall, LLL, ULL_HIGH, THREAD
  <2>2. Chains(m)
    BY <2>1 DEF Chain, Chains
  <2> QED
    BY <2>1, <2>2, ChainLinks
<1>3. ASSUME NEW m \in Mfy, NEW chain \in BOOLEAN, LowCall(m, chain) PROVE LinkInv'
  <2>1. Owner[m] # THREAD /\ UNCHANGED <<ull, thread>> /\ ull.at = "low"
    BY <1>3 DEF LowCall, ULL_LOW, THREAD
  <2>2. CASE chain \/ ~enabled
    <3>1. Chains(m)
      BY <1>3, <2>2 DEF LowCall, Chain, Chains
    <3> QED
      BY <2>1, <3>1, ChainLinks
  <2>3. CASE ~(chain \/ ~enabled)
    <3>1. /\ UNCHANGED <<ack, queue>>
          /\ req' = (IF State(m) = Idle THEN req ELSE [req EXCEPT ![m] = (ack[m] + 2) % 4])
      BY <1>3, <2>3 DEF LowCall
    <3>2. /\ \A n \in Mfy \ {m} : req'[n] = req[n] /\ State(n)' = State(n)
          /\ State(m) # Idle => State(m)' # Idle
      <4>1. ack[m] \in 0 .. 3 /\ req[m] \in 0 .. 3 /\ req \in [Mfy -> 0 .. 3]
        BY DEF Typed, TypeOK
      <4>2. (((ack[m] + 2) % 4) - ack[m]) % 4 = 2
        BY <4>1, Counters
      <4> QED
        BY <3>1, <4>1, <4>2 DEF State, Idle
    <3>3. thread.at \in {"state", "link"} => thread.m \in Mfy \ {m}
      BY <2>1 DEF Typed, ThreadOK
    <3>4. State(m) = Idle => ~Linked(queue, m)
      BY DEF LinkInv
    <3>5. \A n \in Mfy : Linked(queue, n) => State(n)' # Idle
      BY <3>2, <3>4 DEF LinkInv
    <3>6. \A n \in Mfy : Owner[n] = THREAD /\ Linked(queue, n) /\ ~(ull.m = n /\ ull.at \in Holding)
            => State(n)' = Ready
      BY <2>1, <3>2 DEF LinkInv
    <3> QED
      BY <2>1, <3>1, <3>2, <3>3, <3>5, <3>6 DEF LinkInv, State
  <2> QED
    BY <2>2, <2>3
<1> QED
  BY <1>1, <1>2, <1>3 DEF Calls

\* The thread's call keeps LinkInv: the shadow of _ack it took is still right
\* when it uses it, since mayfly_run may only have released its mayfly before.
LEMMA ThreadLinks ==
  ASSUME MayflyAssumption, NoneAssumption, Typed, LinkInv, Thread
  PROVE  LinkInv'
<1>1. UNCHANGED <<ull, ack>> /\ ull.at = "out" /\ ull.m = None /\ thread \in ThreadFrame
      /\ req \in [Mfy -> 0 .. 3] /\ ack \in [Mfy -> 0 .. 3] /\ queue \in [Caller -> Seq(Mfy)]
  BY DEF Typed, TypeOK, FrameOK, AtWork, Holding, Thread, ThreadCall, ThreadState, ThreadLink,
         ThreadFlag, ThreadPend, Lock, AskDisable, Access, AskEnable, Unmask, Goto, ThreadRuns,
         mayflies
<1>2. ASSUME NEW m \in Mfy, ThreadCall(m) PROVE LinkInv'
  <2>1. UNCHANGED <<req, ack, queue>> /\ thread'.at = "state" /\ thread'.m = m /\ thread'.ack = ack[m]
    BY <1>1, <1>2 DEF ThreadCall, ThreadFrame
  <2>2. ull.m # m
    BY <1>1 DEF NoneAssumption
  <2> QED
    BY <1>1, <2>1, <2>2 DEF LinkInv, State
<1>3. CASE ThreadState
  <2>0. PICK m \in Mfy : m = thread.m
    BY <1>3 DEF ThreadState, Typed, ThreadOK
  <2> DEFINE state == (req[m] - thread.ack) % 4
  <2>1. thread.m = m /\ Owner[m] = THREAD /\ thread.at = "state" /\ UNCHANGED queue /\ ull.m # m
    BY <1>1, <1>3, <2>0 DEF ThreadState, Typed, ThreadOK, NoneAssumption
  <2>2. thread' = [thread EXCEPT !.at = IF state = Ready THEN "run"
                                          ELSE IF state = Idle THEN "link" ELSE "flag"]
        /\ req' = IF state = Ready THEN req ELSE [req EXCEPT ![m] = (thread.ack + 1) % 4]
    BY <1>3, <2>1 DEF ThreadState
  <2>3. CASE state = Ready
    <3>1. req' = req /\ thread'.at = "run"
      BY <1>1, <2>2, <2>3 DEF ThreadFrame
    <3> QED
      BY <1>1, <2>1, <3>1 DEF LinkInv, State
  <2>4. CASE state # Ready
    <3>1. thread.ack = ack[m] /\ state = State(m)
      BY <2>1, <2>4 DEF LinkInv, State
    <3>2. /\ \A n \in Mfy \ {m} : State(n)' = State(n)
          /\ State(m)' = Ready
      <4>1. ack[m] \in 0 .. 3 /\ req[m] \in 0 .. 3
        BY <1>1, <2>1
      <4>2. (((ack[m] + 1) % 4) - ack[m]) % 4 = 1
        BY <4>1, Counters
      <4> QED
        BY <1>1, <2>1, <2>2, <2>4, <3>1, <4>2 DEF State, Ready
    <3>3. thread'.at \in {"link", "flag"} /\ thread'.m = m /\ (thread'.at = "link" => State(m) = Idle)
      BY <1>1, <2>1, <2>2, <2>4, <3>1 DEF ThreadFrame
    <3>4. thread'.at = "link" => ~Linked(queue, m)
      BY <2>1, <3>3 DEF LinkInv
    <3>5. (\A n \in Mfy : Linked(queue, n) => State(n)' # Idle)
      BY <3>2 DEF LinkInv, Ready, Idle
    <3>6. \A n \in Mfy : Owner[n] = THREAD /\ Linked(queue, n) => State(n)' = Ready
      BY <1>1, <3>2 DEF LinkInv, Holding
    <3>7. thread'.at = "link" => State(m)' = Ready
      BY <1>1, <2>1, <3>2 DEF State
    <3> HIDE DEF state
    <3> QED
      BY <1>1, <2>1, <3>3, <3>4, <3>5, <3>6, <3>7 DEF LinkInv, State
  <2> QED
    BY <2>3, <2>4
<1>4. CASE ThreadLink
  <2>0. PICK m \in Mfy : m = thread.m
    BY <1>4 DEF ThreadLink, Goto, Typed, ThreadOK
  <2>1. thread.m = m /\ thread.at = "link" /\ thread'.at = "flag" /\ THREAD \in Caller
        /\ UNCHANGED req /\ queue' = [queue EXCEPT ![THREAD] = Append(@, m)]
    BY <1>1, <1>4, <2>0 DEF ThreadLink, Goto, ThreadFrame, Caller
  <2>2. ~Linked(queue, m) /\ State(m) = Ready /\ Once(queue)
    BY <2>1 DEF LinkInv
  <2>3. Once(queue') /\ \A n \in Mfy : Linked(queue', n) <=> Linked(queue, n) \/ n = m
    BY <1>1, <2>1, <2>2, AppendOnce
  <2>4. \A n \in Mfy : State(n)' = State(n)
    BY <1>1, <2>1 DEF State
  <2>5. \A n \in Mfy : Linked(queue', n) => State(n)' # Idle
    BY <2>2, <2>3, <2>4 DEF LinkInv, Ready, Idle
  <2>6. \A n \in Mfy : Owner[n] = THREAD /\ Linked(queue', n) => State(n)' = Ready
    BY <1>1, <2>2, <2>3, <2>4 DEF LinkInv, Holding
  <2> QED
    BY <1>1, <2>1, <2>3, <2>5, <2>6 DEF LinkInv
<1>5. CASE ThreadFlag \/ ThreadPend \/ Lock \/ AskDisable \/ Access \/ AskEnable \/ Unmask
  <2>1. UNCHANGED <<req, queue>>
    BY <1>5 DEF ThreadFlag, ThreadPend, Lock, AskDisable, Access, AskEnable, Unmask, mayflies
  <2>2. thread'.at \notin {"state", "link"}
    BY <1>1, <1>5 DEF ThreadFlag, ThreadPend, Lock, AskDisable, Access, AskEnable, Unmask, Goto,
                      ThreadFrame
  <2> QED
    BY <1>1, <2>1, <2>2 DEF LinkInv, State
<1> QED
  BY <1>2, <1>3, <1>4, <1>5 DEF Thread

\* The ticker's call on entry to the interrupt keeps LinkInv.
LEMMA EnterLinks ==
  ASSUME MayflyAssumption, Typed, LinkInv, Enter
  PROVE  LinkInv'
<1>1. /\ ull.at = "out" /\ ull \in Frame /\ UNCHANGED thread
      /\ ull' = [ull EXCEPT !.at = "start"] /\ Trigger \in Mfy
      /\ Owner[Trigger] = ULL_HIGH /\ Owner[Trigger] # THREAD
  BY DEF Enter, Typed, TypeOK, MayflyAssumption, ULL_HIGH, THREAD
<1>2. /\ ull'.at = "start" /\ ull'.m = ull.m /\ ull'.req = ull.req /\ ull'.ack = ull.ack
  BY <1>1 DEF Frame
<1>3. CASE ~compare
  <2>1. UNCHANGED <<req, ack, queue>>
    BY <1>3 DEF Enter, mayflies
  <2> QED
    BY <1>1, <1>2, <2>1 DEF LinkInv, State, Holding
<1>4. CASE compare
  <2>0. /\ req' = (IF State(Trigger) = Ready THEN req
                     ELSE [req EXCEPT ![Trigger] = (ack[Trigger] + 1) % 4])
        /\ queue' = (IF State(Trigger) = Idle
                       THEN [queue EXCEPT ![ULL_HIGH] = Append(@, Trigger)] ELSE queue)
        /\ ack' = ack
    BY <1>4 DEF Enter
  <2>1. Chains(Trigger)
    <3>1. CASE State(Trigger) = Ready
      BY <2>0, <3>1 DEF Chains, Ready, Idle
    <3>2. CASE State(Trigger) # Ready
      BY <1>1, <2>0, <3>2 DEF Chains
    <3> QED
      BY <3>1, <3>2
  <2> QED
    BY <1>1, <1>2, <2>1, ChainLinks
<1> QED
  BY <1>3, <1>4

\* Beginning a function keeps LinkInv: the mayfly goes from ready to run, and
\* stays linked.
LEMMA RunLinks ==
  ASSUME MayflyAssumption, Typed, LinkInv, Run
  PROVE  LinkInv'
<1>0. PICK m \in Mfy : m = Head(queue[ull.caller])
  <2>1. queue[ull.caller] \in Seq(Mfy) /\ queue[ull.caller] # <<>>
    BY DEF Run, Typed, TypeOK, Frame
  <2> QED
    BY <2>1, HeadTailProperties
<1>1. /\ ull \in Frame /\ ull.at = "peek" /\ UNCHANGED <<thread, req, queue>>
      /\ ull' = [ull EXCEPT !.m = m, !.ran = (State(m) = Ready),
                            !.at = IF State(m) = Ready THEN "call" ELSE "dequeue"]
      /\ ack' = (IF State(m) = Ready THEN [ack EXCEPT ![m] = (@ + 3) % 4] ELSE ack)
  BY <1>0 DEF Run, Typed, TypeOK
<1>2. ull'.m = m /\ ull'.at \in {"call", "dequeue"}
  BY <1>1 DEF Frame
<1>3. Linked(queue, m)
  <2>1. queue \in [Caller -> Seq(Mfy)] /\ ull.caller \in Caller /\ queue[ull.caller] # <<>>
    BY <1>1 DEF Run, Typed, TypeOK, Frame
  <2> QED
    BY <1>0, <2>1, HeadLinked
<1>4. /\ \A n \in Mfy \ {m} : ack'[n] = ack[n] /\ State(n)' = State(n)
      /\ State(m)' # Idle
  <2>1. ack[m] \in 0 .. 3 /\ req[m] \in 0 .. 3 /\ ack \in [Mfy -> 0 .. 3]
    BY DEF Typed, TypeOK
  <2>2. (req[m] - ack[m]) % 4 = 1 => (req[m] - ((ack[m] + 3) % 4)) % 4 = 2
    BY <2>1, Counters
  <2>3. State(m) # Idle
    BY <1>3 DEF LinkInv
  <2> QED
    BY <1>1, <2>1, <2>2, <2>3 DEF State, Ready, Idle
<1>5. \A n \in Mfy : Linked(queue, n) => State(n)' # Idle
  BY <1>4 DEF LinkInv
<1>6. \A n \in Mfy : Owner[n] = THREAD /\ Linked(queue, n) /\ n # m => State(n)' = Ready
  BY <1>1, <1>4 DEF LinkInv, Holding
<1>7. thread.at = "state" => \/ (req[thread.m] - thread.ack) % 4 = Ready
                             \/ thread.ack = ack'[thread.m] /\ m # thread.m
  <2> SUFFICES ASSUME thread.at = "state", (req[thread.m] - thread.ack) % 4 # Ready
               PROVE  thread.ack = ack'[thread.m] /\ m # thread.m
    OBVIOUS
  <2>1. thread.m \in Mfy /\ Owner[thread.m] = THREAD /\ thread.ack = ack[thread.m]
    BY DEF LinkInv, Typed, ThreadOK
  <2>2. m # thread.m
    <3> SUFFICES ASSUME m = thread.m PROVE FALSE
      OBVIOUS
    <3>1. State(m) = Ready
      BY <1>1, <1>3, <2>1 DEF LinkInv, Holding
    <3> QED
      BY <2>1, <3>1 DEF State
  <2> QED
    BY <1>4, <2>1, <2>2
<1>8. thread.at = "link" => ~Linked(queue, thread.m) /\ State(thread.m)' = Ready /\ m # thread.m
  <2> SUFFICES ASSUME thread.at = "link"
               PROVE  ~Linked(queue, thread.m) /\ State(thread.m)' = Ready /\ m # thread.m
    OBVIOUS
  <2>1. thread.m \in Mfy /\ ~Linked(queue, thread.m) /\ State(thread.m) = Ready
    BY DEF LinkInv, Typed, ThreadOK
  <2>2. m # thread.m
    BY <1>3, <2>1
  <2> QED
    BY <1>1, <1>4, <2>1, <2>2 DEF State
<1>9. Once(queue)
  BY DEF LinkInv
<1> QED
  BY <1>1, <1>2, <1>5, <1>6, <1>7, <1>8, <1>9 DEF LinkInv, Holding, State

\* The first look of dequeue() keeps LinkInv: a linked mayfly is not idle, so
\* what it read of _req differs from _ack.
LEMMA LookLinks ==
  ASSUME MayflyAssumption, Typed, LinkInv, Look
  PROVE  LinkInv'
<1>1. /\ ull \in Frame /\ ull.at = "dequeue" /\ UNCHANGED <<thread, req, ack, queue>> /\ ull.m \in Mfy
      /\ ull' = [ull EXCEPT !.req = req[ull.m], !.at = IF State(ull.m) = Ready THEN "next" ELSE "release"]
  BY DEF Look, Typed, TypeOK, FrameOK, AtWork, Holding, mayflies
<1>2. ull'.m = ull.m /\ ull'.req = req[ull.m]
      /\ ull'.at = (IF State(ull.m) = Ready THEN "next" ELSE "release")
  BY <1>1 DEF Frame
<1>3. Linked(queue, ull.m)
  <2>1. queue \in [Caller -> Seq(Mfy)] /\ ull.caller \in Caller
        /\ queue[ull.caller] # <<>> /\ Head(queue[ull.caller]) = ull.m
    BY <1>1 DEF Typed, TypeOK, Frame, FrameOK, Holding
  <2> QED
    BY <2>1, HeadLinked
<1>4. req[ull.m] # ack[ull.m]
  <2>1. req[ull.m] \in 0 .. 3 /\ ack[ull.m] \in 0 .. 3 /\ State(ull.m) # Idle
    BY <1>1, <1>3 DEF LinkInv, Typed, TypeOK
  <2> QED
    BY <2>1, Counters DEF State, Idle
<1>5. \A n \in Mfy : Owner[n] = THREAD /\ Linked(queue, n) /\ ~(ull'.m = n /\ ull'.at \in Holding)
        => State(n) = Ready
  BY <1>1, <1>2 DEF LinkInv, Holding
<1> QED
  BY <1>1, <1>2, <1>4, <1>5 DEF LinkInv, State

\* Taking the head off and writing _ack keeps LinkInv: the mayfly is idle and no
\* longer linked.
LEMMA ReleaseLinks ==
  ASSUME MayflyAssumption, Typed, LinkInv, Release
  PROVE  LinkInv'
<1>0. PICK m \in Mfy : m = ull.m
  BY DEF Release, Typed, FrameOK, AtWork, Holding
<1>1. /\ ull \in Frame /\ ull.at = "release" /\ UNCHANGED <<thread, req>> /\ ull.caller \in Caller
      /\ queue \in [Caller -> Seq(Mfy)] /\ queue[ull.caller] # <<>> /\ m = Head(queue[ull.caller])
      /\ queue' = [queue EXCEPT ![ull.caller] = Tail(@)]
      /\ ack' = [ack EXCEPT ![m] = ull.req] /\ ack \in [Mfy -> 0 .. 3]
      /\ ull' = [ull EXCEPT !.ack = ack[m], !.at = "recheck"]
  BY <1>0 DEF Release, Typed, TypeOK, FrameOK, Holding, Frame
<1>2. ull'.m = m /\ ull'.req = ull.req /\ ull'.ack = ack[m] /\ ull'.at = "recheck" /\ ack'[m] = ull.req
  BY <1>0, <1>1 DEF Frame
<1>3. /\ Once(queue') /\ Linked(queue, m) /\ ~Linked(queue', m)
      /\ \A n \in Mfy : Linked(queue', n) => Linked(queue, n)
  <2>1. Once(queue)
    BY DEF LinkInv
  <2>2. /\ Once([queue EXCEPT ![ull.caller] = Tail(@)])
        /\ Linked(queue, m) /\ ~Linked([queue EXCEPT ![ull.caller] = Tail(@)], m)
        /\ \A n \in Mfy : Linked([queue EXCEPT ![ull.caller] = Tail(@)], n) => Linked(queue, n)
    BY <1>1, <2>1, TailOnce
  <2> QED
    BY <1>1, <2>2
<1>4. \A n \in Mfy \ {m} : ack'[n] = ack[n] /\ State(n)' = State(n)
  BY <1>1 DEF State
<1>5. \A n \in Mfy : Linked(queue', n) => State(n)' # Idle
  BY <1>3, <1>4 DEF LinkInv
<1>6. \A n \in Mfy : Owner[n] = THREAD /\ Linked(queue', n) => State(n)' = Ready
  BY <1>0, <1>3, <1>4 DEF LinkInv
<1>7. thread.at = "state" => \/ (req[thread.m] - thread.ack) % 4 = Ready
                             \/ thread.ack = ack'[thread.m] /\ m # thread.m
  BY <1>0, <1>4 DEF LinkInv, Typed, ThreadOK
<1>8. thread.at = "link" => ~Linked(queue', thread.m) /\ State(thread.m)' = Ready /\ m # thread.m
  <2> SUFFICES ASSUME thread.at = "link"
               PROVE  ~Linked(queue', thread.m) /\ State(thread.m)' = Ready /\ m # thread.m
    OBVIOUS
  <2>1. thread.m \in Mfy \ {m} /\ ~Linked(queue, thread.m) /\ State(thread.m) = Ready
    BY <1>0 DEF LinkInv, Typed, ThreadOK
  <2> QED
    BY <1>1, <1>3, <1>4, <2>1 DEF State
<1>9. ull.req # ack[m]
  BY <1>0, <1>1 DEF LinkInv
<1> QED
  BY <1>1, <1>2, <1>3, <1>5, <1>6, <1>7, <1>8, <1>9 DEF LinkInv, State

\* The second look keeps LinkInv: when it sees a call the mayfly is linked
\* nowhere yet.
LEMMA RecheckLinks ==
  ASSUME MayflyAssumption, Typed, LinkInv, Recheck
  PROVE  LinkInv'
<1>0. PICK m \in Mfy : m = ull.m
  BY DEF Recheck, Typed, FrameOK, AtWork
<1>1. /\ ull \in Frame /\ ull.at = "recheck" /\ UNCHANGED <<thread, req, queue>> /\ ack \in [Mfy -> 0 .. 3]
      /\ ack' = (IF RePended THEN [ack EXCEPT ![m] = ull.ack] ELSE ack)
      /\ ull' = [ull EXCEPT !.at = IF RePended THEN "reinsert" ELSE "next"]
  BY <1>0 DEF Recheck, Typed, TypeOK
<1>2. ull'.m = m /\ ull'.at = (IF RePended THEN "reinsert" ELSE "next")
  BY <1>0, <1>1 DEF Frame
<1>3. CASE ~RePended
  <2>1. ack' = ack /\ ull'.at = "next" /\ ull'.m = ull.m
    BY <1>0, <1>1, <1>2, <1>3
  <2> QED
    BY <1>1, <2>1 DEF LinkInv, State, Holding
<1>4. CASE RePended
  <2>1. ~Linked(queue, m)
    BY <1>0, <1>1, <1>4 DEF LinkInv
  <2>2. /\ \A n \in Mfy \ {m} : ack'[n] = ack[n] /\ State(n)' = State(n)
        /\ State(m)' = Ready
    BY <1>0, <1>1, <1>4 DEF State, RePended
  <2>3. \A n \in Mfy : Linked(queue, n) => State(n)' # Idle
    BY <2>1, <2>2 DEF LinkInv
  <2>4. \A n \in Mfy : Owner[n] = THREAD /\ Linked(queue, n) => State(n)' = Ready
    BY <1>0, <2>1, <2>2 DEF LinkInv
  <2>5. thread.at = "state" => \/ (req[thread.m] - thread.ack) % 4 = Ready
                               \/ thread.ack = ack'[thread.m] /\ m # thread.m
    BY <1>0, <2>2 DEF LinkInv, Typed, ThreadOK
  <2>6. thread.at = "link" => ~Linked(queue, thread.m) /\ State(thread.m)' = Ready /\ m # thread.m
    <3> SUFFICES ASSUME thread.at = "link"
                 PROVE  ~Linked(queue, thread.m) /\ State(thread.m)' = Ready /\ m # thread.m
      OBVIOUS
    <3>1. thread.m \in Mfy \ {m} /\ ~Linked(queue, thread.m) /\ State(thread.m) = Ready
      BY <1>0 DEF LinkInv, Typed, ThreadOK
    <3> QED
      BY <1>1, <2>2, <3>1 DEF State
  <2>7. ull'.at = "reinsert" /\ Once(queue)
    BY <1>2, <1>4 DEF LinkInv
  <2>8. State(ull.m)' = Ready
    BY <1>2, <2>2 DEF State
  <2> QED
    BY <1>1, <1>2, <2>1, <2>3, <2>4, <2>5, <2>6, <2>7, <2>8 DEF LinkInv, State
<1> QED
  BY <1>3, <1>4

\* Putting the re-pended mayfly back keeps LinkInv: it is linked once.
LEMMA ReinsertLinks ==
  ASSUME MayflyAssumption, Typed, LinkInv, Reinsert
  PROVE  LinkInv'
<1>0. PICK m \in Mfy : m = ull.m
  BY DEF Reinsert, Typed, FrameOK, AtWork
<1>1. /\ ull \in Frame /\ ull.at = "reinsert" /\ UNCHANGED <<thread, req, ack>>
      /\ queue \in [Caller -> Seq(Mfy)] /\ ULL_HIGH \in Caller
      /\ queue' = [queue EXCEPT ![ULL_HIGH] = Append(@, m)]
      /\ ull' = [ull EXCEPT !.at = "next"]
  BY <1>0 DEF Reinsert, Typed, TypeOK, Caller
<1>2. ull'.m = m /\ ull'.at = "next"
  BY <1>0, <1>1 DEF Frame
<1>3. Once(queue) /\ ~Linked(queue, m) /\ State(m) = Ready
  BY <1>0, <1>1 DEF LinkInv
<1>4. Once(queue') /\ \A n \in Mfy : Linked(queue', n) <=> Linked(queue, n) \/ n = m
  BY <1>1, <1>3, AppendOnce
<1>5. \A n \in Mfy : State(n)' = State(n)
  BY <1>1 DEF State
<1>6. \A n \in Mfy : Linked(queue', n) => State(n)' # Idle
  BY <1>3, <1>4, <1>5 DEF LinkInv, Ready, Idle
<1>7. \A n \in Mfy : Owner[n] = THREAD /\ Linked(queue', n) => State(n)' = Ready
  BY <1>0, <1>1, <1>3, <1>4, <1>5 DEF LinkInv, Holding
<1>8. thread.at = "link" => ~Linked(queue', thread.m) /\ State(thread.m)' = Ready /\ m # thread.m
  <2> SUFFICES ASSUME thread.at = "link"
               PROVE  ~Linked(queue', thread.m) /\ State(thread.m)' = Ready /\ m # thread.m
    OBVIOUS
  <2>1. thread.m \in Mfy \ {m} /\ ~Linked(queue, thread.m) /\ State(thread.m) = Ready
    BY <1>0 DEF LinkInv, Typed, ThreadOK
  <2> QED
    BY <1>1, <1>4, <2>1 DEF State
<1>9. thread.at = "state" => \/ (req[thread.m] - thread.ack) % 4 = Ready
                             \/ thread.ack = ack[thread.m] /\ m # thread.m
  BY <1>0 DEF LinkInv
<1> QED
  BY <1>1, <1>2, <1>4, <1>6, <1>7, <1>8, <1>9 DEF LinkInv, State

\* The steps of mayfly_run that touch neither counters nor queues keep LinkInv.
LEMMA QuietLinks ==
  ASSUME MayflyAssumption, NoneAssumption, Typed, LinkInv, Start \/ Return \/ NextMayfly \/ NextCaller \/ Leave
  PROVE  LinkInv'
<1>1. UNCHANGED <<thread, req, ack, queue>> /\ ull \in Frame
  BY DEF Start, Return, NextMayfly, NextCaller, Leave, mayflies, Typed, TypeOK
<1>2. CASE Return
  <2>1. ull.at = "call" /\ ull'.at = "dequeue" /\ ull'.m = ull.m
    BY <1>1, <1>2 DEF Return, Frame
  <2> QED
    BY <1>1, <2>1 DEF LinkInv, State, Holding
<1>3. CASE Start \/ NextMayfly \/ NextCaller \/ Leave
  <2>1. ull.at \notin Holding /\ ull'.at \in {"out", "start", "peek", "low"} /\ ull'.m = None
    <3>1. CASE Start
      BY <1>1, <3>1 DEF Start, Frame, Holding, AtWork, Typed, FrameOK
    <3>2. CASE NextMayfly
      BY <1>1, <3>2 DEF NextMayfly, Frame, Holding
    <3>3. CASE NextCaller
      BY <1>1, <3>3 DEF NextCaller, Frame, Holding, AtWork, Typed, FrameOK
    <3>4. CASE Leave
      BY <1>1, <3>4 DEF Leave, UllRest, Holding
    <3> QED
      BY <1>3, <3>1, <3>2, <3>3, <3>4
  <2>2. thread.at \in {"state", "link"} => thread.m # None
    BY DEF Typed, ThreadOK, NoneAssumption
  <2> QED
    BY <1>1, <2>1, <2>2 DEF LinkInv, State
<1> QED
  BY <1>2, <1>3

\* Every step keeps LinkInv.
LEMMA NextLinks ==
  MayflyAssumption /\ NoneAssumption /\ Typed /\ LinkInv /\ [Next]_vars => LinkInv'
<1> SUFFICES ASSUME MayflyAssumption, NoneAssumption, Typed, LinkInv, [Next]_vars PROVE LinkInv'
  OBVIOUS
<1>1. CASE Ull
  BY <1>1, EnterLinks, RunLinks, LookLinks, ReleaseLinks, RecheckLinks, ReinsertLinks, QuietLinks DEF Ull
<1>2. CASE Thread
  BY <1>2, ThreadLinks
<1>3. CASE Calls
  BY <1>3, CallsLinks
<1>4. CASE UNCHANGED vars
  BY <1>4 DEF vars, mayflies, irq, LinkInv, State, RePended
<1> QED
  BY <1>1, <1>2, <1>3, <1>4 DEF Next

\* Initially nothing is linked.
LEMMA InitLinks == MayflyAssumption /\ Init => LinkInv
<1> SUFFICES ASSUME MayflyAssumption, Init PROVE LinkInv
  OBVIOUS
<1>1. \A c \in Caller : queue[c] = <<>> /\ Len(queue[c]) = 0
  BY EmptySeq DEF Init
<1>2. Once(queue) /\ \A m \in Mfy : ~Linked(queue, m)
  BY <1>1 DEF Once, Linked
<1>3. ull.at = "out" /\ thread.at = "run"
  BY DEF Init, UllRest, ThreadRest
<1> QED
  BY <1>2, <1>3 DEF LinkInv

-----------------------------------------------------------------------------
\* The inductive invariant.
Inv == Typed /\ MaskInv /\ LinkInv

\* The inductive invariant holds in every reachable state of the calls, the
\* lock and mayfly_run.
THEOREM Invariance == Spec => []Inv
<1> USE MayflyAssumption, NoneAssumption
<1>1. Init => Inv
  BY InitTyped, InitMask, InitLinks DEF Inv
<1>2. Inv /\ [Next]_vars => Inv'
  BY NextTyped, NextMask, NextLinks DEF Inv
<1> QED
  BY <1>1, <1>2, PTL DEF Spec

\* Every variable keeps its type: mayfly_run never takes the head of an empty
\* queue, and the counters stay within their two bits.
THEOREM TypeCorrect == Spec => []TypeOK
<1>1. Inv => TypeOK
  BY DEF Inv, Typed
<1> QED
  BY <1>1, Invariance, PTL

\* ULL_HIGH is masked only while a thread holds the lock of the pending
\* procedures and will unmask it: a request to disable that arrives late, after
\* the unlock, masks nothing (mayfly_enable, mayfly_run).
THEOREM MaskedOnlyForHolder == Spec => []MaskedForHolder
<1>1. Inv => MaskedForHolder
  BY DEF Inv, MaskInv, Holds, MaskedForHolder
<1> QED
  BY <1>1, Invariance, PTL

\* No mayfly is linked into the queues twice, whoever re-pends it while
\* mayfly_run releases it: mayfly_enqueue and dequeue() never link a link that
\* is in use.
THEOREM LinkedAtMostOnce == Spec => []LinkedOnce
<1>1. Inv => LinkedOnce
  BY DEF Inv, LinkInv, Once, LinkedOnce
<1> QED
  BY <1>1, Invariance, PTL

-----------------------------------------------------------------------------
(* Calls that are owed. *)

\* ULL_HIGH is asked to look at its queues and its interrupt is pended.
Woken == mfp /\ pending

\* A mayfly that is not idle is in a queue, or is about to be put into one.
NotLost ==
  \A m \in Mfy : State(m) # Idle =>
    \/ Linked(queue, m)
    \/ thread.at = "link" /\ thread.m = m
    \/ ull.m = m /\ ull.at \in {"recheck", "reinsert"}

\* A mayfly that was called is ready, unless its caller has not written _req yet
\* or LLL called while dequeue() is between its looks.
OwedReady ==
  \A m \in Mfy : owed[m] =>
    \/ State(m) = Ready
    \/ thread.at = "state" /\ thread.m = m
    \/ ull.m = m /\ ull.at \in {"release", "recheck"} /\ hits = 1

\* While its call has not been served, the thread's shadow of _ack is _ack.
OwedShadow == thread.at = "state" /\ owed[thread.m] => thread.ack = ack[thread.m]

\* What dequeue() has read means, with no call of LLL since and with one.
Window ==
  /\ ull.at \in {"release", "recheck"} =>
       \/ hits = 0 /\ req[ull.m] = ull.req /\ ~owed[ull.m]
       \/ hits = 1 /\ Owner[ull.m] = LLL
  /\ ull.at = "release" /\ hits = 0 => State(ull.m) # Ready
  /\ ull.at = "release" /\ hits = 1 => req[ull.m] = (ack[ull.m] + 1) % 4 /\ Woken
  /\ ull.at = "recheck" /\ hits = 0 => ~RePended
  /\ ull.at = "recheck" /\ hits = 1 =>
       IF RePended THEN Woken ELSE State(ull.m) = Ready /\ Linked(queue, ull.m)
  /\ ull.at = "reinsert" => Woken

\* Mayfly_run will look at caller c's queue: it is woken, or on its way there, or
\* the thread is about to wake it.
Looks(c) ==
  \/ Woken
  \/ ull.at = "start" /\ mfp
  \/ thread.at = "flag"
  \/ thread.at = "pend" /\ mfp
  \/ ull.at \in {"peek"} \union AtWork /\ c <= ull.caller
Wakes == \A c \in Caller : queue[c] # <<>> => Looks(c)

OweInv == NotLost /\ OwedReady /\ OwedShadow /\ Window /\ Wakes

\* Taking the head of a queue off leaves every other mayfly linked and no queue
\* filled.
LEMMA TailKeeps ==
  ASSUME NEW q \in [Caller -> Seq(Mfy)], NEW c \in Caller, q[c] # <<>>
  PROVE  /\ \A n \in Mfy : Linked(q, n) /\ n # Head(q[c]) => Linked([q EXCEPT ![c] = Tail(@)], n)
         /\ \A d \in Caller : [q EXCEPT ![c] = Tail(@)][d] # <<>> => q[d] # <<>>
<1> DEFINE p == [q EXCEPT ![c] = Tail(@)]
<1>1. q[c] \in Seq(Mfy) /\ \A d \in Caller : q[d] \in Seq(Mfy) /\ Len(q[d]) \in Nat
  BY LenProperties
<1>2. /\ Len(p[c]) = Len(q[c]) - 1 /\ Len(q[c]) >= 1
      /\ \A i \in 1 .. Len(p[c]) : p[c][i] = q[c][i + 1]
      /\ q[c][1] = Head(q[c])
  <2>1. p[c] = Tail(q[c])
    OBVIOUS
  <2>2. Len(q[c]) # 0
    BY <1>1, EmptySeq
  <2> QED
    BY <1>1, <2>1, <2>2, HeadTailProperties
<1>3. \A d \in Caller \ {c} : p[d] = q[d]
  OBVIOUS
<1>4. ASSUME NEW n \in Mfy, Linked(q, n), n # Head(q[c]) PROVE Linked(p, n)
  <2>1. PICK d \in Caller : \E i \in 1 .. Len(q[d]) : q[d][i] = n
    BY <1>4 DEF Linked
  <2>2. PICK i \in 1 .. Len(q[d]) : q[d][i] = n
    BY <2>1
  <2>3. CASE d = c
    <3>1. i # 1 /\ i - 1 \in 1 .. Len(p[c]) /\ p[c][i - 1] = n
      BY <1>1, <1>2, <1>4, <2>2, <2>3
    <3> QED
      BY <3>1 DEF Linked
  <2>4. CASE d # c
    BY <1>3, <2>2, <2>4 DEF Linked
  <2> QED
    BY <2>3, <2>4
<1> QED
  BY <1>3, <1>4

\* A linked mayfly is in a queue that is not empty.
LEMMA LinkedFills ==
  ASSUME NEW q \in [Caller -> Seq(Mfy)], NEW m \in Mfy, Linked(q, m)
  PROVE  \E c \in Caller : q[c] # <<>>
<1>1. PICK c \in Caller : \E i \in 1 .. Len(q[c]) : q[c][i] = m
  BY DEF Linked
<1>2. q[c] # <<>>
  BY <1>1, EmptySeq
<1> QED
  BY <1>2

\* Putting a mayfly into a queue keeps what is linked, links it, and fills only
\* that queue.
LEMMA AppendKeeps ==
  ASSUME NEW q \in [Caller -> Seq(Mfy)], NEW c \in Caller, NEW m \in Mfy
  PROVE  /\ \A n \in Mfy : Linked(q, n) => Linked([q EXCEPT ![c] = Append(@, m)], n)
         /\ Linked([q EXCEPT ![c] = Append(@, m)], m)
         /\ \A d \in Caller : [q EXCEPT ![c] = Append(@, m)][d] # <<>> => d = c \/ q[d] # <<>>
<1> DEFINE p == [q EXCEPT ![c] = Append(@, m)]
<1>1. q[c] \in Seq(Mfy) /\ \A d \in Caller : q[d] \in Seq(Mfy) /\ Len(q[d]) \in Nat
  BY LenProperties
<1>2. /\ Len(p[c]) = Len(q[c]) + 1
      /\ \A i \in 1 .. Len(q[c]) : p[c][i] = q[c][i]
      /\ p[c][Len(q[c]) + 1] = m
  <2>1. p[c] = Append(q[c], m)
    OBVIOUS
  <2> QED
    BY <1>1, <2>1, AppendProperties
<1>3. \A d \in Caller \ {c} : p[d] = q[d]
  OBVIOUS
<1>4. \A d \in Caller : \A i \in 1 .. Len(q[d]) : i \in 1 .. Len(p[d]) /\ p[d][i] = q[d][i]
  BY <1>1, <1>2, <1>3
<1>5. \A n \in Mfy : Linked(q, n) => Linked(p, n)
  BY <1>4 DEF Linked
<1>6. Linked(p, m)
  <2>1. Len(q[c]) + 1 \in 1 .. Len(p[c])
    BY <1>1, <1>2
  <2> QED
    BY <1>2, <2>1 DEF Linked
<1> QED
  BY <1>3, <1>5, <1>6

\* What a call that is chained does to the counters, the queues and what is owed.
LEMMA ChainOwes ==
  ASSUME MayflyAssumption, Typed, NEW m \in Mfy, Chains(m), owed' = [owed EXCEPT ![m] = TRUE]
  PROVE  /\ \A n \in Mfy \ {m} : req'[n] = req[n] /\ State(n)' = State(n) /\ owed'[n] = owed[n]
         /\ State(m)' = Ready
         /\ \A n \in Mfy : Linked(queue, n) => Linked(queue', n)
         /\ State(m) = Idle => Linked(queue', m)
         /\ State(m) # Ready => req'[m] = (ack[m] + 1) % 4
         /\ \A c \in Caller : queue'[c] # <<>> => State(m) # Ready \/ queue[c] # <<>>
<1>1. /\ req \in [Mfy -> 0 .. 3] /\ ack \in [Mfy -> 0 .. 3] /\ queue \in [Caller -> Seq(Mfy)]
      /\ Owner[m] \in Caller /\ owed \in [Mfy -> BOOLEAN]
  BY DEF Typed, TypeOK, MayflyAssumption
<1>2. ack[m] \in 0 .. 3 /\ req[m] \in 0 .. 3
  BY <1>1
<1>3. (((ack[m] + 1) % 4) - ack[m]) % 4 = 1
  BY <1>2, Counters
<1>4. \A n \in Mfy \ {m} : req'[n] = req[n] /\ State(n)' = State(n)
  BY <1>1 DEF Chains, State
<1>5. State(m)' = Ready /\ (State(m) # Ready => req'[m] = (ack[m] + 1) % 4)
  BY <1>1, <1>3 DEF Chains, State, Ready
<1>6. /\ \A n \in Mfy : Linked(queue, n) => Linked(queue', n)
      /\ State(m) = Idle => Linked(queue', m)
      /\ \A c \in Caller : queue'[c] # <<>> => State(m) # Ready \/ queue[c] # <<>>
  <2>1. CASE State(m) = Idle
    <3>1. queue' = [queue EXCEPT ![Owner[m]] = Append(@, m)] /\ State(m) # Ready
      BY <2>1 DEF Chains, Idle, Ready
    <3>2. /\ \A n \in Mfy : Linked(queue, n) => Linked(queue', n)
          /\ Linked(queue', m)
          /\ \A c \in Caller : queue'[c] # <<>> => c = Owner[m] \/ queue[c] # <<>>
      BY <1>1, <3>1, AppendKeeps
    <3> QED
      BY <3>1, <3>2
  <2>2. CASE State(m) # Idle
    BY <2>2 DEF Chains
  <2> QED
    BY <2>1, <2>2
<1>7. \A n \in Mfy \ {m} : owed'[n] = owed[n]
  BY <1>1
<1> QED
  BY <1>4, <1>5, <1>6, <1>7

\* A chained call, of any context but the thread, keeps what is owed: it makes the
\* mayfly ready and wakes ULL_HIGH, or finds it ready already.  Between the two
\* looks of dequeue() it moves _req on from what the first one read.
LEMMA ChainPays ==
  ASSUME MayflyAssumption, Typed, LinkInv, OweInv, NEW m \in Mfy, Chain(m), Owner[m] # THREAD,
         UNCHANGED <<ull, thread>>,
         \/ ~Releasing(m) /\ hits' = hits
         \/ Releasing(m) /\ hits = 0 /\ hits' = 1 /\ Owner[m] = LLL
  PROVE  OweInv'
<1>1. /\ Chains(m) /\ owed' = [owed EXCEPT ![m] = TRUE] /\ ack' = ack
      /\ State(m) # Ready => Woken'
      /\ (Woken => Woken') /\ (mfp => mfp')
  <2>1. Chains(m) /\ owed' = [owed EXCEPT ![m] = TRUE] /\ ack' = ack
    BY DEF Chain, Chains
  <2>2. State(m) # Ready => mfp' /\ pending'
    BY DEF Chain, Pend
  <2>3. State(m) = Ready => mfp' = mfp /\ pending' = pending
    BY DEF Chain
  <2> QED
    BY <2>1, <2>2, <2>3 DEF Woken
<1>2. /\ \A n \in Mfy \ {m} : req'[n] = req[n] /\ State(n)' = State(n) /\ owed'[n] = owed[n]
      /\ State(m)' = Ready
      /\ \A n \in Mfy : Linked(queue, n) => Linked(queue', n)
      /\ State(m) = Idle => Linked(queue', m)
      /\ State(m) # Ready => req'[m] = (ack[m] + 1) % 4
      /\ \A c \in Caller : queue'[c] # <<>> => State(m) # Ready \/ queue[c] # <<>>
  BY <1>1, ChainOwes
<1>3. NotLost'
  <2> SUFFICES ASSUME NEW n \in Mfy, State(n)' # Idle
               PROVE  \/ Linked(queue', n)
                      \/ thread'.at = "link" /\ thread'.m = n
                      \/ ull'.m = n /\ ull'.at \in {"recheck", "reinsert"}
    BY DEF NotLost
  <2>1. State(n) # Idle \/ (n = m /\ State(m) = Idle)
    BY <1>2
  <2>2. CASE State(n) # Idle
    BY <1>2, <2>2 DEF OweInv, NotLost
  <2> QED
    BY <1>2, <2>1, <2>2
<1>4. OwedReady'
  <2> SUFFICES ASSUME NEW n \in Mfy, owed'[n], n # m
               PROVE  \/ State(n)' = Ready
                      \/ thread'.at = "state" /\ thread'.m = n
                      \/ ull'.m = n /\ ull'.at \in {"release", "recheck"} /\ hits' = 1
    BY <1>2 DEF OwedReady
  <2>1. owed[n] /\ State(n)' = State(n)
    BY <1>2
  <2>2. ull.m = n /\ ull.at \in {"release", "recheck"} /\ hits = 1 => hits' = 1
    BY DEF Releasing
  <2> QED
    BY <2>1, <2>2 DEF OweInv, OwedReady
<1>5. OwedShadow'
  <2> SUFFICES ASSUME thread.at = "state", owed'[thread.m] PROVE thread.ack = ack[thread.m]
    BY <1>1 DEF OwedShadow
  <2>1. thread.m \in Mfy \ {m}
    BY DEF Typed, ThreadOK
  <2> QED
    BY <1>2, <2>1 DEF OweInv, OwedShadow
<1>6. Wakes'
  <2> SUFFICES ASSUME NEW c \in Caller, queue'[c] # <<>> PROVE Looks(c)'
    BY DEF Wakes
  <2>1. CASE State(m) # Ready
    BY <1>1, <2>1 DEF Looks, Woken
  <2>2. CASE queue[c] # <<>>
    BY <1>1, <2>2 DEF OweInv, Wakes, Looks, Woken
  <2> QED
    BY <1>2, <2>1, <2>2
<1>7. Window'
  <2>1. CASE ~Releasing(m) /\ hits' = hits
    <3>1. CASE ull.at \in {"release", "recheck"}
      <4>1. ull.m \in Mfy \ {m}
        BY <2>1, <3>1 DEF Typed, FrameOK, AtWork, Holding, Releasing
      <4>2. req'[ull.m] = req[ull.m] /\ State(ull.m)' = State(ull.m) /\ owed'[ull.m] = owed[ull.m]
            /\ (Linked(queue, ull.m) => Linked(queue', ull.m))
        BY <1>2, <4>1
      <4>3. RePended' = RePended /\ State(ull.m)' = (State(ull.m))'
        BY <4>2 DEF RePended
      <4>4. Window /\ ull.at # "reinsert" /\ ull'= ull /\ hits' = hits
        BY <2>1, <3>1 DEF OweInv
      <4> QED
        BY <1>1, <4>2, <4>3, <4>4 DEF Window, State
    <3>2. CASE ull.at \notin {"release", "recheck"}
      BY <1>1, <3>2 DEF OweInv, Window
    <3> QED
      BY <3>1, <3>2
  <2>2. CASE Releasing(m) /\ hits = 0 /\ hits' = 1 /\ Owner[m] = LLL
    <3>1. ull.m = m /\ ull.at \in {"release", "recheck"} /\ req[m] = ull.req /\ UNCHANGED ull
      BY <2>2 DEF OweInv, Window, Releasing
    <3>2. CASE ull.at = "release"
      <4>1. State(m) # Ready
        BY <2>2, <3>1, <3>2 DEF OweInv, Window
      <4>2. req'[m] = (ack'[m] + 1) % 4 /\ Woken'
        BY <1>1, <1>2, <4>1
      <4> QED
        BY <2>2, <3>1, <3>2, <4>2 DEF Window
    <3>3. CASE ull.at = "recheck"
      <4>1. ack[m] = ull.req /\ ull.req # ull.ack /\ ull.req \in 0 .. 3 /\ ull.ack \in 0 .. 3
        BY <3>1, <3>3 DEF LinkInv, Typed, TypeOK, Frame
      <4>2. State(m) = 0
        BY <3>1, <4>1 DEF State
      <4>3. req'[m] = (ull.req + 1) % 4 /\ Linked(queue', m) /\ State(m)' = Ready
        BY <1>2, <4>1, <4>2 DEF Idle, Ready
      <4>4. (((ull.req + 1) % 4) - ull.ack) % 4 # 1
        BY <4>1, Counters
      <4>5. ~RePended'
        BY <3>1, <4>3, <4>4 DEF RePended, Ready
      <4>6. State(ull.m)' = Ready /\ Linked(queue', ull'.m)
        BY <3>1, <4>3 DEF State
      <4> QED
        BY <2>2, <3>1, <3>3, <4>5, <4>6 DEF Window, State
    <3> QED
      BY <3>1, <3>2, <3>3
  <2> QED
    BY <2>1, <2>2
<1> QED
  BY <1>3, <1>4, <1>5, <1>6, <1>7 DEF OweInv

\* A step that leaves counters, queues and debts alone keeps what they mean, when
\* neither the thread nor mayfly_run is, before or after it, where that depends
\* on them.
LEMMA QuietPays ==
  ASSUME NotLost, OwedReady, OwedShadow, UNCHANGED mayflies,
         \/ UNCHANGED thread
         \/ thread.at \notin {"state", "link"} /\ thread'.at \notin {"state", "link"},
         ull.at \notin {"release", "recheck", "reinsert"},
         ull'.at \notin {"release", "recheck", "reinsert"}
  PROVE  NotLost' /\ OwedReady' /\ OwedShadow' /\ Window'
<1>1. UNCHANGED <<req, ack, queue, owed>>
  BY DEF mayflies
<1>2. NotLost'
  BY <1>1 DEF NotLost, State
<1>3. OwedReady'
  BY <1>1 DEF OwedReady, State
<1>4. OwedShadow'
  BY <1>1 DEF OwedShadow
<1>5. Window'
  BY DEF Window
<1> QED
  BY <1>2, <1>3, <1>4, <1>5

\* Every call but the thread's keeps what is owed; LLL calls at most once while a
\* mayfly is released.
LEMMA CallsPay ==
  ASSUME MayflyAssumption, MaxHits <= 1, Typed, LinkInv, OweInv, Calls
  PROVE  OweInv'
<1>1. CASE Compare
  <2>1. UNCHANGED <<req, ack, queue, owed, ull, thread, hits, mfp>> /\ pending'
    BY <1>1 DEF Compare, mayflies
  <2> QED
    BY <2>1 DEF OweInv, NotLost, OwedReady, OwedShadow, Window, Wakes, Looks, Woken, State, RePended
<1>2. ASSUME NEW m \in Mfy, LllCall(m) PROVE OweInv'
  <2>1. Owner[m] = LLL /\ Owner[m] # THREAD /\ UNCHANGED <<ull, thread>> /\ Chain(m)
    BY <1>2 DEF LllCall, LLL, THREAD
  <2>2. hits \in 0 .. MaxHits /\ MaxHits \in Nat
    BY DEF Typed, TypeOK, MayflyAssumption
  <2>3. \/ ~Releasing(m) /\ hits' = hits
        \/ Releasing(m) /\ hits = 0 /\ hits' = 1 /\ Owner[m] = LLL
    BY <1>2, <2>1, <2>2 DEF LllCall
  <2> QED
    BY <2>1, <2>3, ChainPays
<1>3. ASSUME NEW m \in Mfy, UllCall(m) PROVE OweInv'
  <2>1. Owner[m] # THREAD /\ UNCHANGED <<ull, thread, hits>> /\ Chain(m) /\ ~Releasing(m)
    BY <1>3 DEF UllCall, ULL_HIGH, THREAD, Releasing
  <2> QED
    BY <2>1, ChainPays
<1>4. ASSUME NEW m \in Mfy, NEW chain \in BOOLEAN, LowCall(m, chain) PROVE OweInv'
  <2>1. Owner[m] # THREAD /\ UNCHANGED <<ull, thread, hits>> /\ ull.at = "low" /\ ~Releasing(m)
    BY <1>4 DEF LowCall, ULL_LOW, THREAD, Releasing
  <2>2. CASE chain \/ ~enabled
    <3>1. Chain(m)
      BY <1>4, <2>2 DEF LowCall
    <3> QED
      BY <2>1, <3>1, ChainPays
  <2>3. CASE ~(chain \/ ~enabled)
    <3>1. /\ UNCHANGED <<ack, queue, mfp, pending>>
          /\ req' = (IF State(m) = Idle THEN req ELSE [req EXCEPT ![m] = (ack[m] + 2) % 4])
          /\ owed' = [owed EXCEPT ![m] = FALSE]
          /\ req \in [Mfy -> 0 .. 3] /\ owed \in [Mfy -> BOOLEAN]
      BY <1>4, <2>3 DEF LowCall, Typed, TypeOK
    <3>2. /\ \A n \in Mfy \ {m} : State(n)' = State(n) /\ owed'[n] = owed[n]
          /\ ~owed'[m] /\ (State(m) = Idle => State(m)' = Idle)
      BY <3>1 DEF State
    <3>3. NotLost'
      BY <2>1, <3>1, <3>2 DEF OweInv, NotLost
    <3>4. OwedReady'
      BY <2>1, <3>1, <3>2 DEF OweInv, OwedReady
    <3>5. OwedShadow'
      <4>1. thread.at = "state" => thread.m \in Mfy \ {m}
        BY <2>1 DEF Typed, ThreadOK
      <4> QED
        BY <2>1, <3>1, <3>2, <4>1 DEF OweInv, OwedShadow
    <3>6. Window' /\ Wakes'
      BY <2>1, <3>1 DEF OweInv, Window, Wakes, Looks, Woken
    <3> QED
      BY <3>3, <3>4, <3>5, <3>6 DEF OweInv
  <2> QED
    BY <2>2, <2>3
<1> QED
  BY <1>1, <1>2, <1>3, <1>4 DEF Calls

\* Entering the interrupt keeps what is owed: its flag is down, and mayfly_run is
\* about to look.
LEMMA EnterPays ==
  ASSUME MayflyAssumption, Typed, LinkInv, OweInv, Enter
  PROVE  OweInv'
<1>1. /\ ull.at = "out" /\ ull'.at = "start" /\ ull'.m = ull.m /\ UNCHANGED <<thread, hits>>
      /\ Trigger \in Mfy /\ Owner[Trigger] # THREAD
  BY DEF Enter, Typed, TypeOK, Frame, MayflyAssumption, ULL_HIGH, THREAD
<1>2. CASE ~compare
  <2>1. UNCHANGED mayflies /\ UNCHANGED mfp
    BY <1>2 DEF Enter
  <2>2. NotLost' /\ OwedReady' /\ OwedShadow' /\ Window'
    BY <1>1, <2>1, QuietPays DEF OweInv
  <2>3. Wakes'
    BY <1>1, <2>1 DEF OweInv, Wakes, Looks, Woken, AtWork, Holding, mayflies
  <2> QED
    BY <2>2, <2>3 DEF OweInv
<1>3. CASE compare
  <2>1. /\ req' = (IF State(Trigger) = Ready THEN req
                     ELSE [req EXCEPT ![Trigger] = (ack[Trigger] + 1) % 4])
        /\ queue' = (IF State(Trigger) = Idle
                       THEN [queue EXCEPT ![ULL_HIGH] = Append(@, Trigger)] ELSE queue)
        /\ ack' = ack /\ mfp' = (mfp \/ State(Trigger) # Ready)
        /\ owed' = [owed EXCEPT ![Trigger] = TRUE]
        /\ Owner[Trigger] = ULL_HIGH
    BY <1>3 DEF Enter, MayflyAssumption
  <2>2. Chains(Trigger)
    BY <2>1 DEF Chains, Ready, Idle
  <2>3. /\ \A n \in Mfy \ {Trigger} : State(n)' = State(n) /\ owed'[n] = owed[n]
        /\ State(Trigger)' = Ready
        /\ \A n \in Mfy : Linked(queue, n) => Linked(queue', n)
        /\ State(Trigger) = Idle => Linked(queue', Trigger)
        /\ \A c \in Caller : queue'[c] # <<>> => State(Trigger) # Ready \/ queue[c] # <<>>
    BY <1>1, <2>1, <2>2, ChainOwes
  <2>4. NotLost'
    <3> SUFFICES ASSUME NEW n \in Mfy, State(n)' # Idle
                 PROVE  Linked(queue', n) \/ (thread.at = "link" /\ thread.m = n)
      BY <1>1 DEF NotLost
    <3>1. State(n) # Idle \/ (n = Trigger /\ State(Trigger) = Idle)
      BY <2>3
    <3> QED
      BY <1>1, <2>3, <3>1 DEF OweInv, NotLost
  <2>5. OwedReady'
    <3> SUFFICES ASSUME NEW n \in Mfy, owed'[n], n # Trigger
                 PROVE  State(n)' = Ready \/ (thread.at = "state" /\ thread.m = n)
      BY <1>1, <2>3 DEF OwedReady
    <3> QED
      BY <1>1, <2>3 DEF OweInv, OwedReady
  <2>6. OwedShadow'
    <3>1. thread.at = "state" => thread.m \in Mfy \ {Trigger}
      BY <1>1 DEF Typed, ThreadOK
    <3> QED
      BY <1>1, <2>1, <2>3, <3>1 DEF OweInv, OwedShadow
  <2>7. Window'
    BY <1>1 DEF Window
  <2>8. Wakes'
    <3> SUFFICES ASSUME NEW c \in Caller, queue'[c] # <<>> PROVE Looks(c)'
      BY DEF Wakes
    <3>1. CASE State(Trigger) # Ready
      BY <1>1, <2>1, <3>1 DEF Looks
    <3>2. CASE queue[c] # <<>>
      <4>1. mfp \/ thread.at = "flag"
        BY <1>1, <3>2 DEF OweInv, Wakes, Looks, Woken, AtWork, Holding
      <4> QED
        BY <1>1, <2>1, <4>1 DEF Looks
    <3> QED
      BY <2>3, <3>1, <3>2
  <2> QED
    BY <2>4, <2>5, <2>6, <2>7, <2>8 DEF OweInv
<1> QED
  BY <1>2, <1>3

\* The steps of the thread keep what is owed: it writes _req from a shadow of
\* _ack that is still right, links its mayfly, and only then wakes ULL_HIGH.
LEMMA ThreadPays ==
  ASSUME MayflyAssumption, NoneAssumption, Typed, LinkInv, OweInv, Thread
  PROVE  OweInv'
<1>1. /\ ull.at = "out" /\ UNCHANGED <<ull, ack, hits>> /\ ull.m = None /\ thread \in ThreadFrame
      /\ req \in [Mfy -> 0 .. 3] /\ ack \in [Mfy -> 0 .. 3] /\ queue \in [Caller -> Seq(Mfy)]
      /\ owed \in [Mfy -> BOOLEAN] /\ mfp \in BOOLEAN /\ pending \in BOOLEAN
  BY DEF Typed, TypeOK, FrameOK, AtWork, Holding, Thread, ThreadCall, ThreadState, ThreadLink,
         ThreadFlag, ThreadPend, Lock, AskDisable, Access, AskEnable, Unmask, Goto, ThreadRuns,
         mayflies
<1>2. Window'
  BY <1>1 DEF Window
<1>3. \A c \in Caller : queue[c] # <<>> => Woken \/ thread.at = "flag" \/ (thread.at = "pend" /\ mfp)
  BY <1>1 DEF OweInv, Wakes, Looks, AtWork, Holding
<1>4. ASSUME NEW m \in Mfy, ThreadCall(m) PROVE OweInv'
  <2>1. /\ thread.at = "run" /\ thread'.at = "state" /\ thread'.m = m /\ thread'.ack = ack[m]
        /\ UNCHANGED <<req, queue, mfp, pending>> /\ owed' = [owed EXCEPT ![m] = TRUE]
    BY <1>1, <1>4 DEF ThreadCall, ThreadFrame, irq
  <2>2. NotLost'
    BY <1>1, <2>1 DEF OweInv, NotLost, State
  <2>3. OwedReady'
    BY <1>1, <2>1 DEF OweInv, OwedReady, State
  <2>4. OwedShadow' /\ Wakes'
    BY <1>1, <1>3, <2>1 DEF OwedShadow, Wakes, Looks, Woken
  <2> QED
    BY <1>2, <2>2, <2>3, <2>4 DEF OweInv
<1>5. CASE ThreadState
  <2>0. PICK m \in Mfy : m = thread.m
    BY <1>5 DEF ThreadState, Typed, ThreadOK
  <2> DEFINE state == (req[m] - thread.ack) % 4
  <2>1. thread.m = m /\ thread.at = "state" /\ UNCHANGED <<queue, owed, mfp, pending>> /\ ull.m # m
    BY <1>1, <1>5, <2>0 DEF ThreadState, NoneAssumption, irq
  <2>2. thread' = [thread EXCEPT !.at = IF state = Ready THEN "run"
                                          ELSE IF state = Idle THEN "link" ELSE "flag"]
        /\ req' = IF state = Ready THEN req ELSE [req EXCEPT ![m] = (thread.ack + 1) % 4]
    BY <1>5, <2>1 DEF ThreadState
  <2>3. thread'.m = m /\ thread'.at \in {"run", "link", "flag"} /\ (state = Idle => thread'.at = "link")
    BY <1>1, <2>1, <2>2 DEF ThreadFrame, Idle, Ready
  <2>4. OwedShadow'
    BY <2>3 DEF OwedShadow
  <2>5. Wakes'
    BY <1>1, <1>3, <2>1 DEF Wakes, Looks, Woken
  <2>6. NotLost' /\ OwedReady'
    <3>1. CASE state = Ready
      <4>1. req' = req
        BY <2>2, <3>1
      <4>2. owed[m] => State(m) = Ready
        BY <2>1, <3>1 DEF OweInv, OwedShadow, State
      <4>3. NotLost'
        BY <1>1, <2>1, <2>3, <4>1 DEF OweInv, NotLost, State
      <4>4. OwedReady'
        BY <1>1, <2>1, <2>3, <4>1, <4>2 DEF OweInv, OwedReady, State
      <4> QED
        BY <4>3, <4>4
    <3>2. CASE state # Ready
      <4>1. thread.ack = ack[m] /\ state = State(m)
        BY <2>1, <3>2 DEF LinkInv, State
      <4>2. /\ \A n \in Mfy \ {m} : State(n)' = State(n)
            /\ State(m)' = Ready
        <5>1. ack[m] \in 0 .. 3 /\ req[m] \in 0 .. 3
          BY <1>1, <2>1
        <5>2. (((ack[m] + 1) % 4) - ack[m]) % 4 = 1
          BY <5>1, Counters
        <5> QED
          BY <1>1, <2>1, <2>2, <3>2, <4>1, <5>2 DEF State, Ready
      <4>3. State(m) = Idle \/ Linked(queue, m)
        BY <1>1, <2>1 DEF OweInv, NotLost
      <4> HIDE DEF state
      <4>4. NotLost'
        BY <1>1, <2>1, <2>3, <4>1, <4>2, <4>3 DEF OweInv, NotLost
      <4>5. OwedReady'
        BY <1>1, <2>1, <4>2 DEF OweInv, OwedReady
      <4> QED
        BY <4>4, <4>5
    <3> QED
      BY <3>1, <3>2
  <2> QED
    BY <1>2, <2>4, <2>5, <2>6 DEF OweInv
<1>6. CASE ThreadLink
  <2>0. PICK m \in Mfy : m = thread.m
    BY <1>6 DEF ThreadLink, Goto, Typed, ThreadOK
  <2>1. thread.m = m /\ thread.at = "link" /\ thread'.at = "flag" /\ THREAD \in Caller
        /\ UNCHANGED <<req, owed>> /\ queue' = [queue EXCEPT ![THREAD] = Append(@, m)]
    BY <1>1, <1>6, <2>0 DEF ThreadLink, Goto, ThreadFrame, Caller
  <2>2. (\A n \in Mfy : Linked(queue, n) => Linked(queue', n)) /\ Linked(queue', m)
    BY <1>1, <2>1, AppendKeeps
  <2>3. NotLost'
    BY <1>1, <2>1, <2>2 DEF OweInv, NotLost, State
  <2>4. OwedReady'
    BY <1>1, <2>1 DEF OweInv, OwedReady, State
  <2>5. OwedShadow' /\ Wakes'
    BY <2>1 DEF OwedShadow, Wakes, Looks
  <2> QED
    BY <1>2, <2>3, <2>4, <2>5 DEF OweInv
<1>7. CASE ThreadFlag \/ ThreadPend \/ Lock \/ AskDisable \/ Access \/ AskEnable \/ Unmask
  <2>1. UNCHANGED mayflies /\ thread.at \notin {"state", "link"} /\ thread'.at \notin {"state", "link"}
    BY <1>1, <1>7 DEF ThreadFlag, ThreadPend, Lock, AskDisable, Access, AskEnable, Unmask, Goto,
                      ThreadFrame
  <2>2. NotLost' /\ OwedReady' /\ OwedShadow'
    BY <1>1, <2>1, QuietPays DEF OweInv
  <2>3. Wakes'
    <3>1. queue' = queue
      BY <2>1 DEF mayflies
    <3>2. CASE ThreadFlag
      BY <1>1, <3>2 DEF ThreadFlag, Goto, ThreadFrame, Wakes, Looks
    <3>3. CASE ThreadPend
      BY <1>1, <1>3, <3>1, <3>3 DEF ThreadPend, Goto, Wakes, Looks, Woken
    <3>4. CASE Lock \/ AskDisable \/ Access \/ AskEnable \/ Unmask
      <4>1. UNCHANGED <<mfp, pending>> /\ thread.at \notin {"flag", "pend"}
        BY <3>4 DEF Lock, AskDisable, Access, AskEnable, Unmask, Goto, irq
      <4> QED
        BY <1>3, <3>1, <4>1 DEF Wakes, Looks, Woken
    <3> QED
      BY <1>7, <3>2, <3>3, <3>4
  <2> QED
    BY <1>2, <2>2, <2>3 DEF OweInv
<1> QED
  BY <1>4, <1>5, <1>6, <1>7 DEF Thread

\* Beginning a function pays what is owed of it; the mayfly stays linked.
LEMMA RunPays ==
  ASSUME MayflyAssumption, Typed, LinkInv, OweInv, Run
  PROVE  OweInv'
<1>0. PICK m \in Mfy : m = Head(queue[ull.caller])
  <2>1. queue[ull.caller] \in Seq(Mfy) /\ queue[ull.caller] # <<>>
    BY DEF Run, Typed, TypeOK, Frame
  <2> QED
    BY <2>1, HeadTailProperties
<1>1. /\ ull \in Frame /\ ull.at = "peek" /\ UNCHANGED <<thread, req, queue, mfp, pending>>
      /\ ull' = [ull EXCEPT !.m = m, !.ran = (State(m) = Ready),
                            !.at = IF State(m) = Ready THEN "call" ELSE "dequeue"]
      /\ ack' = (IF State(m) = Ready THEN [ack EXCEPT ![m] = (@ + 3) % 4] ELSE ack)
      /\ owed' = (IF State(m) = Ready THEN [owed EXCEPT ![m] = FALSE] ELSE owed)
      /\ ack \in [Mfy -> 0 .. 3] /\ owed \in [Mfy -> BOOLEAN]
  BY <1>0 DEF Run, Typed, TypeOK, irq
<1>2. ull'.at \in {"call", "dequeue"} /\ ull'.caller = ull.caller
  BY <1>1 DEF Frame
<1>3. Linked(queue, m)
  <2>1. queue \in [Caller -> Seq(Mfy)] /\ ull.caller \in Caller /\ queue[ull.caller] # <<>>
    BY <1>1 DEF Run, Typed, TypeOK, Frame
  <2> QED
    BY <1>0, <2>1, HeadLinked
<1>4. /\ \A n \in Mfy \ {m} : State(n)' = State(n) /\ ack'[n] = ack[n] /\ owed'[n] = owed[n]
      /\ State(m) = Ready => ~owed'[m]
      /\ State(m) # Ready => ack' = ack /\ owed' = owed
  BY <1>1 DEF State
<1>5. NotLost'
  BY <1>1, <1>3, <1>4 DEF OweInv, NotLost
<1>6. OwedReady'
  <2> SUFFICES ASSUME NEW n \in Mfy, owed'[n]
               PROVE  State(n)' = Ready \/ (thread.at = "state" /\ thread.m = n)
    BY <1>1 DEF OwedReady
  <2>1. owed[n] /\ State(n)' = State(n)
    BY <1>1, <1>4 DEF State
  <2> QED
    BY <1>1, <2>1 DEF OweInv, OwedReady
<1>7. OwedShadow'
  <2> SUFFICES ASSUME thread.at = "state", owed'[thread.m] PROVE thread.ack = ack'[thread.m]
    BY <1>1 DEF OwedShadow
  <2>1. thread.m \in Mfy
    BY DEF Typed, ThreadOK
  <2>2. owed[thread.m] /\ ack'[thread.m] = ack[thread.m]
    BY <1>4, <2>1
  <2> QED
    BY <2>2 DEF OweInv, OwedShadow
<1>8. Window'
  BY <1>2 DEF Window
<1>9. Wakes'
  BY <1>1, <1>2 DEF OweInv, Wakes, Looks, Woken, AtWork, Holding
<1> QED
  BY <1>5, <1>6, <1>7, <1>8, <1>9 DEF OweInv

\* The first look of dequeue() keeps what is owed: it goes on to release only a
\* mayfly that nobody waits for.
LEMMA LookPays ==
  ASSUME MayflyAssumption, Typed, LinkInv, OweInv, Look
  PROVE  OweInv'
<1>1. /\ ull \in Frame /\ ull.at = "dequeue" /\ ull.m \in Mfy /\ hits' = 0
      /\ UNCHANGED <<thread, req, ack, queue, owed, mfp, pending>>
      /\ ull' = [ull EXCEPT !.req = req[ull.m], !.at = IF State(ull.m) = Ready THEN "next" ELSE "release"]
  BY DEF Look, Typed, TypeOK, FrameOK, AtWork, Holding, mayflies, irq
<1>2. ull'.m = ull.m /\ ull'.req = req[ull.m] /\ ull'.caller = ull.caller
      /\ ull'.at = (IF State(ull.m) = Ready THEN "next" ELSE "release")
  BY <1>1 DEF Frame
<1>3. NotLost'
  BY <1>1, <1>2 DEF OweInv, NotLost, State
<1>4. OwedReady'
  BY <1>1, <1>2 DEF OweInv, OwedReady, State
<1>5. OwedShadow'
  BY <1>1 DEF OweInv, OwedShadow
<1>6. Window'
  <2>1. CASE State(ull.m) = Ready
    BY <1>2, <2>1 DEF Window
  <2>2. CASE State(ull.m) # Ready
    <3>1. ~owed[ull.m]
      <4> SUFFICES ASSUME owed[ull.m] PROVE FALSE
        OBVIOUS
      <4>1. thread.at = "state" /\ thread.m = ull.m
        BY <1>1, <2>2 DEF OweInv, OwedReady
      <4>2. thread.ack = ack[ull.m]
        BY <4>1 DEF OweInv, OwedShadow
      <4>3. (req[ull.m] - thread.ack) % 4 = Ready
        BY <4>1 DEF LinkInv
      <4> QED
        BY <2>2, <4>2, <4>3 DEF State
    <3>2. State(ull.m)' # Ready /\ ull'.at = "release" /\ ull'.m = ull.m
      BY <1>1, <1>2, <2>2 DEF State
    <3> QED
      BY <1>1, <1>2, <3>1, <3>2 DEF Window, State
  <2> QED
    BY <2>1, <2>2
<1>7. Wakes'
  BY <1>1, <1>2 DEF OweInv, Wakes, Looks, Woken, AtWork, Holding
<1> QED
  BY <1>3, <1>4, <1>5, <1>6, <1>7 DEF OweInv

\* Taking the head off and writing _ack keeps what is owed: a call of LLL since
\* the first look makes the second one see a mayfly called again.
LEMMA ReleasePays ==
  ASSUME MayflyAssumption, Typed, LinkInv, OweInv, Release
  PROVE  OweInv'
<1>0. PICK m \in Mfy : m = ull.m
  BY DEF Release, Typed, FrameOK, AtWork, Holding
<1>1. /\ ull \in Frame /\ ull.at = "release" /\ UNCHANGED <<thread, req, owed, mfp, pending, hits>>
      /\ ull.caller \in Caller
      /\ queue \in [Caller -> Seq(Mfy)] /\ queue[ull.caller] # <<>> /\ m = Head(queue[ull.caller])
      /\ queue' = [queue EXCEPT ![ull.caller] = Tail(@)]
      /\ ack' = [ack EXCEPT ![m] = ull.req] /\ ack \in [Mfy -> 0 .. 3] /\ req[m] \in 0 .. 3
      /\ ull' = [ull EXCEPT !.ack = ack[m], !.at = "recheck"]
  BY <1>0 DEF Release, Typed, TypeOK, FrameOK, Holding, Frame, irq
<1>2. ull'.m = m /\ ull'.req = ull.req /\ ull'.ack = ack[m] /\ ull'.at = "recheck"
      /\ ull'.caller = ull.caller
  BY <1>0, <1>1 DEF Frame
<1>3. /\ \A n \in Mfy : Linked(queue, n) /\ n # m => Linked(queue', n)
      /\ \A d \in Caller : queue'[d] # <<>> => queue[d] # <<>>
  BY <1>1, TailKeeps
<1>4. \A n \in Mfy \ {m} : ack'[n] = ack[n] /\ State(n)' = State(n)
  BY <1>1 DEF State
<1>5. \/ hits = 0 /\ req[m] = ull.req /\ ~owed[m] /\ State(m) # Ready
      \/ hits = 1 /\ Owner[m] = LLL /\ req[m] = (ack[m] + 1) % 4 /\ Woken
  BY <1>0, <1>1 DEF OweInv, Window
<1>6. NotLost'
  BY <1>0, <1>1, <1>2, <1>3, <1>4 DEF OweInv, NotLost
<1>7. OwedReady'
  BY <1>0, <1>1, <1>2, <1>4, <1>5 DEF OweInv, OwedReady
<1>8. OwedShadow'
  <2> SUFFICES ASSUME thread.at = "state", owed[thread.m] PROVE thread.ack = ack'[thread.m]
    BY <1>1 DEF OwedShadow
  <2>1. thread.m \in Mfy /\ Owner[thread.m] = THREAD
    BY DEF Typed, ThreadOK
  <2>2. thread.m # m
    BY <1>5, <2>1 DEF LLL, THREAD
  <2> QED
    BY <1>4, <2>1, <2>2 DEF OweInv, OwedShadow
<1>9. Window'
  <2>1. CASE hits = 0 /\ req[m] = ull.req /\ ~owed[m] /\ State(m) # Ready
    <3>1. ~RePended'
      BY <1>1, <1>2, <2>1 DEF RePended, State
    <3> QED
      BY <1>1, <1>2, <2>1, <3>1 DEF Window
  <2>2. CASE hits = 1 /\ Owner[m] = LLL /\ req[m] = (ack[m] + 1) % 4 /\ Woken
    <3>1. ack[m] \in 0 .. 3 /\ (((ack[m] + 1) % 4) - ack[m]) % 4 = 1
      BY <1>1, Counters
    <3>2. RePended'
      BY <1>1, <1>2, <2>2, <3>1 DEF RePended, Ready
    <3> QED
      BY <1>1, <1>2, <2>2, <3>2 DEF Window, Woken
  <2> QED
    BY <1>5, <2>1, <2>2
<1>10. Wakes'
  BY <1>1, <1>2, <1>3 DEF OweInv, Wakes, Looks, Woken, AtWork, Holding
<1> QED
  BY <1>6, <1>7, <1>8, <1>9, <1>10 DEF OweInv

\* The second look keeps what is owed: a mayfly called again is ready and goes
\* back into a queue, or LLL has linked it itself.
LEMMA RecheckPays ==
  ASSUME MayflyAssumption, MaxHits <= 1, Typed, LinkInv, OweInv, Recheck
  PROVE  OweInv'
<1>0. PICK m \in Mfy : m = ull.m
  BY DEF Recheck, Typed, FrameOK, AtWork
<1>1. /\ ull \in Frame /\ ull.at = "recheck" /\ ack \in [Mfy -> 0 .. 3]
      /\ UNCHANGED <<thread, req, queue, owed, mfp, pending, hits>>
      /\ ack' = (IF RePended THEN [ack EXCEPT ![m] = ull.ack] ELSE ack)
      /\ ull' = [ull EXCEPT !.at = IF RePended THEN "reinsert" ELSE "next"]
  BY <1>0 DEF Recheck, Typed, TypeOK, irq
<1>2. ull'.m = m /\ ull'.at = (IF RePended THEN "reinsert" ELSE "next") /\ ull'.caller = ull.caller
  BY <1>0, <1>1 DEF Frame
<1>3. \/ hits = 0 /\ req[m] = ull.req /\ ~owed[m] /\ ~RePended
      \/ hits = 1 /\ Owner[m] = LLL /\ RePended /\ Woken
      \/ hits = 1 /\ Owner[m] = LLL /\ ~RePended /\ State(m) = Ready /\ Linked(queue, m)
  BY <1>0, <1>1 DEF OweInv, Window
<1>4. \A n \in Mfy \ {m} : ack'[n] = ack[n] /\ State(n)' = State(n)
  BY <1>1 DEF State
<1>5. RePended => State(m)' = Ready
  BY <1>0, <1>1 DEF RePended, State
<1>6. ~RePended => ack' = ack /\ State(m)' = State(m)
  BY <1>1 DEF State
<1>7. hits = 0 => State(m) = Idle
  <2>1. ack[m] = ull.req /\ ull.req \in 0 .. 3
    BY <1>0, <1>1 DEF LinkInv, Frame
  <2> QED
    BY <1>3, <2>1 DEF State, Idle
<1>8. NotLost'
  <2> SUFFICES ASSUME NEW n \in Mfy, State(n)' # Idle
               PROVE  \/ Linked(queue, n)
                      \/ thread.at = "link" /\ thread.m = n
                      \/ n = m /\ RePended
    BY <1>1, <1>2 DEF NotLost
  <2>1. CASE n = m
    BY <1>3, <1>6, <1>7, <2>1
  <2>2. CASE n # m
    BY <1>0, <1>4, <2>2 DEF OweInv, NotLost
  <2> QED
    BY <2>1, <2>2
<1>9. OwedReady'
  <2> SUFFICES ASSUME NEW n \in Mfy, owed[n]
               PROVE  State(n)' = Ready \/ (thread.at = "state" /\ thread.m = n)
    BY <1>1 DEF OwedReady
  <2>1. CASE n = m
    BY <1>3, <1>5, <1>6, <2>1
  <2>2. CASE n # m
    BY <1>0, <1>4, <2>2 DEF OweInv, OwedReady
  <2> QED
    BY <2>1, <2>2
<1>10. OwedShadow'
  <2> SUFFICES ASSUME thread.at = "state", owed[thread.m] PROVE thread.ack = ack'[thread.m]
    BY <1>1 DEF OwedShadow
  <2>1. thread.m \in Mfy /\ Owner[thread.m] = THREAD
    BY DEF Typed, ThreadOK
  <2>2. thread.m # m
    BY <1>3, <2>1 DEF LLL, THREAD
  <2> QED
    BY <1>4, <2>1, <2>2 DEF OweInv, OwedShadow
<1>11. Window'
  BY <1>1, <1>2, <1>3 DEF Window, Woken
<1>12. Wakes'
  BY <1>1, <1>2 DEF OweInv, Wakes, Looks, Woken, AtWork, Holding
<1> QED
  BY <1>8, <1>9, <1>10, <1>11, <1>12 DEF OweInv

\* Putting the re-pended mayfly back keeps what is owed: its queue may have been
\* passed already, but LLL has woken ULL_HIGH again.
LEMMA ReinsertPays ==
  ASSUME MayflyAssumption, Typed, LinkInv, OweInv, Reinsert
  PROVE  OweInv'
<1>0. PICK m \in Mfy : m = ull.m
  BY DEF Reinsert, Typed, FrameOK, AtWork
<1>1. /\ ull \in Frame /\ ull.at = "reinsert" /\ UNCHANGED <<thread, req, ack, owed, mfp, pending>>
      /\ queue \in [Caller -> Seq(Mfy)] /\ ULL_HIGH \in Caller
      /\ queue' = [queue EXCEPT ![ULL_HIGH] = Append(@, m)]
      /\ ull' = [ull EXCEPT !.at = "next"]
  BY <1>0 DEF Reinsert, Typed, TypeOK, Caller, irq
<1>2. ull'.at = "next"
  BY <1>1 DEF Frame
<1>3. (\A n \in Mfy : Linked(queue, n) => Linked(queue', n)) /\ Linked(queue', m)
  BY <1>1, AppendKeeps
<1>4. \A n \in Mfy : State(n)' = State(n)
  BY <1>1 DEF State
<1>5. NotLost'
  BY <1>0, <1>1, <1>3, <1>4 DEF OweInv, NotLost
<1>6. OwedReady'
  BY <1>1, <1>4 DEF OweInv, OwedReady
<1>7. OwedShadow' /\ Window'
  BY <1>1, <1>2 DEF OweInv, OwedShadow, Window
<1>8. Wakes'
  BY <1>1 DEF OweInv, Window, Wakes, Looks, Woken
<1> QED
  BY <1>5, <1>6, <1>7, <1>8 DEF OweInv

\* The other steps of mayfly_run keep what is owed: it starts at the queue of the
\* highest caller, passes only empty queues, and wakes itself when it yields.
LEMMA RoundPays ==
  ASSUME MayflyAssumption, Typed, OweInv, Start \/ Return \/ NextMayfly \/ NextCaller \/ Leave
  PROVE  OweInv'
<1>1. UNCHANGED <<thread, mayflies>> /\ ull \in Frame /\ ull.caller \in Caller /\ queue' = queue
  BY DEF Start, Return, NextMayfly, NextCaller, Leave, mayflies, Typed, TypeOK, Frame
<1>2. ull.at \notin {"release", "recheck", "reinsert"} /\ ull'.at \notin {"release", "recheck", "reinsert"}
  <2>1. CASE Start \/ Return
    BY <1>1, <2>1 DEF Start, Return, Frame
  <2>2. CASE NextMayfly
    BY <1>1, <2>2 DEF NextMayfly, Frame
  <2>3. CASE NextCaller
    BY <1>1, <2>3 DEF NextCaller, Frame
  <2>4. CASE Leave
    BY <2>4 DEF Leave, UllRest
  <2> QED
    BY <2>1, <2>2, <2>3, <2>4
<1>3. NotLost' /\ OwedReady' /\ OwedShadow' /\ Window'
  BY <1>1, <1>2, QuietPays DEF OweInv
<1>4. Wakes'
  <2> SUFFICES ASSUME NEW c \in Caller, queue[c] # <<>>, Looks(c) PROVE Looks(c)'
    BY <1>1 DEF OweInv, Wakes
  <2>1. CASE Start
    <3>1. CASE mfp
      <4>1. ull'.at = "peek" /\ ull'.caller = THREAD /\ c <= THREAD
        BY <1>1, <2>1, <3>1 DEF Start, Frame, Caller, LLL, ULL_HIGH, ULL_LOW, THREAD
      <4> QED
        BY <4>1 DEF Looks
    <3>2. CASE ~mfp
      BY <1>1, <2>1, <3>2 DEF Start, Looks, Woken, AtWork, Holding
    <3> QED
      BY <3>1, <3>2
  <2>2. CASE Return
    <3>1. UNCHANGED <<mfp, pending>> /\ ull.at = "call" /\ ull'.at = "dequeue" /\ ull'.caller = ull.caller
      BY <1>1, <2>2 DEF Return, Frame, irq
    <3> QED
      BY <1>1, <3>1 DEF Looks, Woken, AtWork, Holding
  <2>3. CASE NextMayfly
    <3>1. CASE Yields
      BY <2>3, <3>1 DEF NextMayfly, Looks, Woken
    <3>2. CASE ~Yields
      <4>1. mfp \in BOOLEAN /\ pending \in BOOLEAN
        BY DEF Typed, TypeOK
      <4>2. (mfp' <=> mfp) /\ (pending' <=> pending) /\ ull.at = "next"
            /\ ull'.at = "peek" /\ ull'.caller = ull.caller
        BY <1>1, <2>3, <3>2, <4>1 DEF NextMayfly, Frame
      <4> QED
        BY <1>1, <4>2 DEF Looks, Woken, AtWork, Holding
    <3> QED
      BY <3>1, <3>2
  <2>4. CASE NextCaller
    <3>1. UNCHANGED <<mfp, pending>> /\ ull.at = "peek" /\ c # ull.caller
      BY <2>4 DEF NextCaller, irq
    <3>2. CASE ull.caller = LLL
      <4>1. ~(c <= ull.caller)
        BY <3>1, <3>2 DEF Caller, LLL, ULL_HIGH, ULL_LOW, THREAD
      <4> QED
        BY <1>1, <3>1, <4>1 DEF Looks, Woken
    <3>3. CASE ull.caller # LLL
      <4>1. ull'.at = "peek" /\ ull'.caller = ull.caller - 1
        BY <1>1, <2>4, <3>3 DEF NextCaller, Frame
      <4>2. c <= ull.caller => c <= ull'.caller
        BY <1>1, <3>1, <4>1 DEF Caller, LLL, ULL_HIGH, ULL_LOW, THREAD
      <4> QED
        BY <1>1, <3>1, <4>1, <4>2 DEF Looks, Woken
    <3> QED
      BY <3>2, <3>3
  <2>5. CASE Leave
    <3>1. UNCHANGED <<mfp, pending>> /\ ull.at = "low"
      BY <2>5 DEF Leave, irq
    <3> QED
      BY <1>1, <3>1 DEF Looks, Woken, AtWork, Holding
  <2> QED
    BY <2>1, <2>2, <2>3, <2>4, <2>5
<1> QED
  BY <1>3, <1>4 DEF OweInv

\* Every step keeps what is owed.
LEMMA NextPays ==
  MayflyAssumption /\ NoneAssumption /\ MaxHits <= 1 /\ Typed /\ LinkInv /\ OweInv /\ [Next]_vars
    => OweInv'
<1> SUFFICES ASSUME MayflyAssumption, NoneAssumption, MaxHits <= 1, Typed, LinkInv, OweInv, [Next]_vars
             PROVE  OweInv'
  OBVIOUS
<1>1. CASE Ull
  BY <1>1, EnterPays, RunPays, LookPays, ReleasePays, RecheckPays, ReinsertPays, RoundPays DEF Ull
<1>2. CASE Thread
  BY <1>2, ThreadPays
<1>3. CASE Calls
  BY <1>3, CallsPay
<1>4. CASE UNCHANGED vars
  BY <1>4 DEF vars, mayflies, irq, OweInv, NotLost, OwedReady, OwedShadow, Window, Wakes, Looks,
              Woken, State, RePended
<1> QED
  BY <1>1, <1>2, <1>3, <1>4 DEF Next

\* Initially nothing is called and every queue is empty.
LEMMA InitPays == Init => OweInv
<1> SUFFICES ASSUME Init PROVE OweInv
  OBVIOUS
<1>1. \A m \in Mfy : State(m) = Idle /\ ~owed[m]
  <2>1. \A m \in Mfy : req[m] = 0 /\ ack[m] = 0
    BY DEF Init
  <2>2. \A m \in Mfy : ~owed[m]
    <3>1. owed = [m \in Mfy |-> FALSE]
      BY DEF Init
    <3> QED
      BY <3>1, Zenon
  <2> QED
    <3>1. (0 - 0) % 4 = 0
      OBVIOUS
    <3> QED
      BY <2>1, <2>2, <3>1 DEF State, Idle
<1>2. ull.at = "out" /\ thread.at = "run" /\ \A c \in Caller : queue[c] = <<>>
  BY DEF Init, UllRest, ThreadRest
<1> QED
  BY <1>1, <1>2 DEF OweInv, NotLost, OwedReady, OwedShadow, Window, Wakes

\* No call is lost: once mayfly_run has returned, no interrupt of ULL_HIGH is
\* pended and the thread is done, every function that was called has begun
\* (mayfly_enqueue, dequeue and the yield of mayfly_run).  It needs what dequeue()
\* relies on, that LLL calls a mayfly at most once between its two looks at it.
THEOREM NothingOwedWhenIdle == MaxHits <= 1 => (Spec => []IdleOwesNothing)
<1> SUFFICES ASSUME MaxHits <= 1 PROVE Spec => []IdleOwesNothing
  OBVIOUS
<1> USE MayflyAssumption, NoneAssumption
<1>1. Init => OweInv
  BY InitPays
<1>2. Inv /\ OweInv /\ [Next]_vars => OweInv'
  BY NextPays DEF Inv
<1>3. Inv /\ OweInv => IdleOwesNothing
  <2> SUFFICES ASSUME Inv, OweInv, ull.at = "out", thread.at = "run", ~pending,
                      NEW m \in Mfy, owed[m]
               PROVE  FALSE
    BY DEF IdleOwesNothing
  <2>1. queue \in [Caller -> Seq(Mfy)]
    BY DEF Inv, Typed, TypeOK
  <2>2. State(m) = Ready
    BY DEF OweInv, OwedReady
  <2>3. Linked(queue, m)
    BY <2>2 DEF OweInv, NotLost, Ready, Idle
  <2>4. PICK c \in Caller : queue[c] # <<>>
    BY <2>1, <2>3, LinkedFills
  <2> QED
    BY <2>4 DEF OweInv, Wakes, Looks, Woken, AtWork, Holding
<1> QED
  BY <1>1, <1>2, <1>3, Invariance, PTL DEF Spec
=============================================================================
