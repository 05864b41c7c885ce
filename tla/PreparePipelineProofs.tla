------------------------- MODULE PreparePipelineProofs -------------------------
(***************************************************************************)
(* Proofs about PreparePipeline for any connections, advertisers and       *)
(* scanners: that the references of a role are what LLL still owes it,     *)
(* that what waits has a timeout, that a disabled role is gone, and which  *)
(* assertions can fail at all.                                             *)
(*                                                                         *)
(* The functions of LLL are operators on its record, so most lemmas are    *)
(* about operators: what each makes of the record, from Enqueue and Pop up *)
(* to the traversal Dequeue, Done, Preempt and LllDisable.  Then there is  *)
(* one lemma for each action, and the theorems.                            *)
(***************************************************************************)
EXTENDS PreparePipeline, SumProofs, SequenceTheorems

(***************************************************************************)
(* The invariant.                                                          *)
(***************************************************************************)
\* The assertions that can fail, without that of ticker_start_op_cb.
Faults == {None, "pipeline full", "done full"}
LllType ==
  [h : Nat, prep : Seq(Element), curr : [active : BOOLEAN, r : Roles \cup {None}, ending : BOOLEAN],
   starts : Nat, stops : Nat, runs : Nat, at : 0 .. Now, ops : Seq(Operation),
   done : Seq(Roles \cup {None}), due : BOOLEAN, self : BOOLEAN, fault : Faults]

\* The operations of the preempt ticker that can be under way, and what counts them:
\* a stop is always followed by a start, and is not seen before it is managed.
IsStart(o) == o.op = "start"
IsStop(o) == o.op = "stop" /\ ~o.seen
OpsShape(L) ==
  \/ Len(L.ops) = 0 /\ L.starts = 0 /\ L.stops = 0
  \/ Len(L.ops) = 1 /\ L.starts = 1 /\ L.stops = 0 /\ IsStart(L.ops[1])
  \/ Len(L.ops) = 2 /\ L.starts = 2 /\ L.stops = 0 /\ IsStart(L.ops[1]) /\ IsStart(L.ops[2])
  \/ Len(L.ops) = 2 /\ L.starts = 1 /\ L.stops = 1 /\ IsStop(L.ops[1]) /\ IsStart(L.ops[2])
  \/ /\ Len(L.ops) = 3 /\ L.starts = 2 /\ L.stops = 1
     /\ IsStart(L.ops[1]) /\ IsStop(L.ops[2]) /\ IsStart(L.ops[3])

Good(L) ==
  /\ L \in LllType
  /\ Len(L.prep) <= PipelineMax /\ Len(L.done) <= DoneMax
  /\ OpsShape(L) /\ (~L.self => Len(L.ops) <= 1)
  /\ L.runs <= 2
  /\ ~L.curr.active => L.curr = NoEvent

Fine(L) == L.fault = None /\ ~L.self

HasReady(L) == \E i \in DOMAIN L.prep : Ready(L.prep[i])
Timed(L) == L.starts > 0 \/ L.runs > 0

\* While an event is on air that does not give way, the next has a timeout.
Attended(L, u) ==
  L.curr.active /\ L.curr.r # None /\ ~L.curr.ending /\ HasReady(L) => Timed(L) \/ u

\* Of two resumes of a role, the earlier is aborted.
OneResume(p) ==
  \A i, j \in DOMAIN p :
    i < j /\ p[i].resume /\ p[j].resume /\ p[i].r = p[j].r => p[i].aborted

AllAborted(L) == \A i \in DOMAIN L.prep : L.prep[i].aborted

Owed(L, r) == Cardinality(Mine(L, r)) + (IF L.curr.r = r THEN 1 ELSE 0) + Count(r, L.done)

\* The record of LLL, as if the callback of a start that failed had asserted nothing.
Sound == IF lll.fault = "start failed" THEN [lll EXCEPT !.fault = None] ELSE lll

Typed ==
  /\ Good(Sound) /\ lll.h = 0
  /\ node \in [at : {"idle", "running", "expired"}, slot : 0 .. NoSlot]
  /\ ull \in [at : {"idle", "expired", "managing", "stopping", "inserting", "starting"},
              slot : 0 .. NoSlot]
  /\ ref \in [Roles -> Nat] /\ cb \in [Roles -> BOOLEAN]
  /\ role \in [Roles -> {"on", "closing", "off"}]
  /\ thread \in [at : {"run", "stopped", "checked", "set", "waits"},
                 r : Roles \cup {None}, sem : BOOLEAN]

\* The ticker and the counters of LLL.
Ticking(L, n, u) == L.fault = None =>
  /\ L.runs <= 1
  /\ u.at = "inserting" => L.ops # <<>> /\ L.ops[1].seen
  /\ u.at = "stopping" => L.starts > 0
  /\ u.at = "starting" => L.runs = 0 /\ n.at = "running"
  /\ L.runs = 1 => n.at = "running" \/ u.at = "stopping"
  /\ ~L.self => /\ u.at \notin {"stopping", "managing"}
                /\ n.at = "running" => L.runs = 1 \/ u.at = "starting"
  /\ Attended(L, u.at \in {"starting", "expired"})

\* The pipeline.
Queued(L) == OneResume(L.prep) /\ (~L.curr.active => AllAborted(L))

\* The roles and the thread.
RoleInv ==
  /\ \A r \in Roles : role[r] = "off" /\ thread.r # r => ref[r] = 0
  /\ \A r \in Roles : role[r] = "on" /\ r \in Connections => ~cb[r]
  /\ \A r \in Roles : role[r] = "closing" => cb[r] /\ ref[r] > 0
  /\ thread.r # None => role[thread.r] = "off"
  /\ IF thread.at = "run" THEN thread = ThreadIdle ELSE thread.r # None
  /\ thread.sem => ref[thread.r] = 0
  /\ thread.at \in {"set", "waits"} => cb[thread.r]
  /\ thread.at = "waits" /\ ~thread.sem => ref[thread.r] > 0

Inv ==
  /\ Typed /\ Ticking(lll, node, ull)
  /\ Fine(Sound) => Queued(lll) /\ RoleInv /\ \A r \in Roles : ref[r] = Owed(lll, r)
  /\ lll.fault = "start failed" => ull.at = "starting"

-----------------------------------------------------------------------------
(***************************************************************************)
(* Counting the elements of a sequence that are in a set.                  *)
(***************************************************************************)
Hits(s, S) == {i \in DOMAIN s : s[i] \in S}

LEMMA HitsFinite ==
  ASSUME NEW T, NEW S, NEW s \in Seq(T)
  PROVE  IsFiniteSet(Hits(s, S)) /\ Cardinality(Hits(s, S)) \in Nat
         /\ Cardinality(Hits(s, S)) <= Len(s)
<1>1. Hits(s, S) \in SUBSET (1 .. Len(s)) /\ Len(s) \in Nat
  BY LenProperties DEF Hits
<1>2. IsFiniteSet(1 .. Len(s)) /\ Cardinality(1 .. Len(s)) = Len(s)
  <2>1. 1 \in Int /\ Len(s) \in Int /\ (1 > Len(s) => Len(s) = 0) /\ Len(s) - 1 + 1 = Len(s)
    BY <1>1
  <2> QED
    BY <2>1, FS_Interval
<1> QED
  BY <1>1, <1>2, FS_Subset, FS_CardinalityType

LEMMA HitsAppend ==
  ASSUME NEW T, NEW S, NEW s \in Seq(T), NEW e \in T
  PROVE  Cardinality(Hits(Append(s, e), S)) =
           Cardinality(Hits(s, S)) + (IF e \in S THEN 1 ELSE 0)
<1> DEFINE n == Len(s) + 1
<1>1. /\ DOMAIN Append(s, e) = 1 .. n /\ DOMAIN s = 1 .. Len(s) /\ Len(s) \in Nat
      /\ Append(s, e)[n] = e
      /\ \A i \in 1 .. Len(s) : Append(s, e)[i] = s[i]
  BY AppendProperties, LenProperties
<1>2. Hits(Append(s, e), S) = IF e \in S THEN Hits(s, S) \cup {n} ELSE Hits(s, S)
  BY <1>1 DEF Hits
<1>3. n \notin Hits(s, S) /\ IsFiniteSet(Hits(s, S)) /\ Cardinality(Hits(s, S)) \in Nat
  <2>1. n \notin Hits(s, S)
    BY <1>1 DEF Hits
  <2> QED
    BY <2>1, HitsFinite
<1> HIDE DEF n
<1>4. CASE e \in S
  BY <1>2, <1>3, <1>4, FS_AddElement
<1>5. CASE e \notin S
  BY <1>2, <1>3, <1>5
<1> QED
  BY <1>4, <1>5

LEMMA HitsTail ==
  ASSUME NEW T, NEW S, NEW s \in Seq(T), s # <<>>
  PROVE  Cardinality(Hits(s, S)) =
           Cardinality(Hits(Tail(s), S)) + (IF Head(s) \in S THEN 1 ELSE 0)
<1> DEFINE A == Hits(Tail(s), S)
           B == Hits(s, S) \ {1}
           f == [i \in A |-> i + 1]
<1>1. /\ Tail(s) \in Seq(T) /\ Len(Tail(s)) = Len(s) - 1 /\ Len(s) \in Nat
      /\ DOMAIN s = 1 .. Len(s) /\ DOMAIN Tail(s) = 1 .. Len(s) - 1
      /\ \A i \in 1 .. Len(s) - 1 : Tail(s)[i] = s[i + 1]
  BY HeadTailProperties, LenProperties
<1>2. Len(s) >= 1 /\ Head(s) = s[1]
  BY <1>1, EmptySeq
<1>3. f \in Bijection(A, B)
  <2>1. A \subseteq Nat
    BY <1>1 DEF Hits
  <2>2. f \in [A -> B]
    BY <1>1, <2>1 DEF Hits
  <2>3. \A i, j \in A : f[i] = f[j] => i = j
    BY <2>1
  <2>4. ASSUME NEW j \in B PROVE \E i \in A : f[i] = j
    <3>1. j - 1 \in A /\ f[j - 1] = j
      BY <1>1 DEF Hits
    <3> QED
      BY <3>1
  <2> QED
    BY <2>2, <2>3, <2>4 DEF Bijection, Injection, Surjection, IsInjective
<1>4. IsFiniteSet(A) /\ IsFiniteSet(Hits(s, S)) /\ Cardinality(Hits(s, S)) \in Nat
  BY <1>1, HitsFinite
<1>5. Cardinality(B) = Cardinality(A)
  BY <1>3, <1>4, FS_Bijection DEF ExistsBijection
<1>6. Cardinality(B) = IF 1 \in Hits(s, S) THEN Cardinality(Hits(s, S)) - 1
                       ELSE Cardinality(Hits(s, S))
  BY <1>4, FS_RemoveElement
<1>7. 1 \in Hits(s, S) <=> Head(s) \in S
  BY <1>1, <1>2 DEF Hits
<1> HIDE DEF A, B
<1> QED
  BY <1>4, <1>5, <1>6, <1>7 DEF A

LEMMA HitsExcept ==
  ASSUME NEW T, NEW S, NEW s \in Seq(T), NEW i \in DOMAIN s, s[i] \in S,
         NEW e \in T, e \notin S
  PROVE  Cardinality(Hits([s EXCEPT ![i] = e], S)) = Cardinality(Hits(s, S)) - 1
<1>1. Hits([s EXCEPT ![i] = e], S) = Hits(s, S) \ {i} /\ i \in Hits(s, S)
  BY DEF Hits
<1>2. IsFiniteSet(Hits(s, S))
  BY HitsFinite
<1>3. Cardinality(Hits(s, S) \ {i}) = Cardinality(Hits(s, S)) - 1
  BY <1>1, <1>2, FS_RemoveElement
<1> QED
  BY <1>1, <1>3

-----------------------------------------------------------------------------
(***************************************************************************)
(* Slots and positions.                                                    *)
(***************************************************************************)
LEMMA NowNat == Now \in Nat /\ PipelineMax \in Nat /\ Now > 0 /\ DoneMax \in Nat
  BY DEF Now, PipelineMax, DoneMax

LEMMA SlotPosition ==
  ASSUME NEW L, L.h \in Nat, NEW i \in Nat, 1 <= i, i <= PipelineMax + 1
  PROVE  /\ SlotOf(L, i) \in 0 .. PipelineMax /\ SlotOf(L, i) # NoSlot
         /\ Position(L, SlotOf(L, i)) = i
         /\ At(L, SlotOf(L, i)) = L.prep[i]
<1>1. /\ ((L.h + i - 1) % 8) \in 0 .. 7
      /\ (((L.h + i - 1) % 8) - L.h) % 8 = i - 1
  BY DEF PipelineMax
<1> QED
  BY <1>1 DEF SlotOf, Position, At, Slots, NoSlot, PipelineMax

LEMMA PositionNat ==
  ASSUME NEW L, L.h \in Nat, NEW slot \in Nat
  PROVE  Position(L, slot) \in Nat /\ 1 <= Position(L, slot)
  BY DEF Position, Slots, PipelineMax

LEMMA PrepParts ==
  ASSUME NEW L, L \in LllType
  PROVE  /\ L.h \in Nat /\ L.prep \in Seq(Element) /\ Len(L.prep) \in Nat
         /\ DOMAIN L.prep = 1 .. Len(L.prep)
         /\ \A i \in DOMAIN L.prep : L.prep[i] \in Element
         /\ L.prep # <<>> => Len(L.prep) >= 1 /\ Head(L.prep) = L.prep[1]
<1>1. L.h \in Nat /\ L.prep \in Seq(Element)
  BY DEF LllType
<1>2. /\ Len(L.prep) \in Nat /\ DOMAIN L.prep = 1 .. Len(L.prep)
      /\ \A i \in DOMAIN L.prep : L.prep[i] \in Element
  BY <1>1, LenProperties, ElementOfSeq
<1>3. L.prep # <<>> => Len(L.prep) >= 1 /\ Head(L.prep) = L.prep[1]
  BY <1>1, <1>2, EmptySeq
<1> QED
  BY <1>1, <1>2, <1>3

\* ull_prepare_dequeue_iter finds the first ready prepare, if there is one.
LEMMA NextReadyIs ==
  ASSUME NEW L, L \in LllType, Len(L.prep) <= PipelineMax, NEW i \in Nat, 1 <= i
  PROVE  \/ /\ NextReady(L, i) = NoSlot
            /\ \A j \in DOMAIN L.prep : i <= j => ~Ready(L.prep[j])
         \/ \E k \in DOMAIN L.prep :
              /\ i <= k /\ Ready(L.prep[k]) /\ NextReady(L, i) = SlotOf(L, k)
              /\ NextReady(L, i) # NoSlot /\ NextReady(L, i) \in 0 .. PipelineMax
              /\ \A j \in DOMAIN L.prep : i <= j /\ j < k => ~Ready(L.prep[j])
<1> DEFINE waiting == {j \in i .. Len(L.prep) : Ready(L.prep[j])}
<1>1. /\ Len(L.prep) \in Nat /\ DOMAIN L.prep = 1 .. Len(L.prep) /\ L.h \in Nat
      /\ PipelineMax \in Nat
  BY PrepParts, NowNat
<1>2. waiting \in SUBSET Nat
  BY <1>1
<1>3. CASE waiting = {}
  BY <1>1, <1>3 DEF NextReady
<1>4. CASE waiting # {}
  <2> DEFINE k == CHOOSE j \in waiting : \A m \in waiting : j <= m
  <2>1. \E j \in waiting : \A m \in waiting : j <= m
    <3> HIDE DEF waiting
    <3> QED
      BY <1>2, <1>4, LeastNatural
  <2>2. k \in waiting /\ \A m \in waiting : k <= m
    <3> HIDE DEF waiting
    <3> QED
      BY <2>1
  <2>3. NextReady(L, i) = SlotOf(L, k)
    BY <1>4 DEF NextReady
  <2> HIDE DEF k
  <2>4. k \in DOMAIN L.prep /\ i <= k /\ Ready(L.prep[k]) /\ k <= PipelineMax + 1 /\ k \in Nat
        /\ 1 <= k
    BY <1>1, <2>2
  <2>5. \A j \in DOMAIN L.prep : i <= j /\ j < k => ~Ready(L.prep[j])
    BY <1>1, <2>2, <2>4
  <2>6. SlotOf(L, k) \in 0 .. PipelineMax /\ SlotOf(L, k) # NoSlot
    BY <1>1, <2>4, SlotPosition
  <2> QED
    BY <2>3, <2>4, <2>5, <2>6
<1> QED
  BY <1>3, <1>4

-----------------------------------------------------------------------------
(***************************************************************************)
(* The queue and the ticker's operations, one update at a time.            *)
(***************************************************************************)
\* An assertion that fails names the fault and changes nothing else.
LEMMA FaultParts ==
  ASSUME NEW L, L \in LllType, NEW name \in Faults, name # None,
         NEW M, M = [L EXCEPT !.fault = name]
  PROVE  /\ M \in LllType /\ M.fault # None
         /\ M.h = L.h /\ M.prep = L.prep /\ M.curr = L.curr /\ M.starts = L.starts
         /\ M.stops = L.stops /\ M.runs = L.runs /\ M.at = L.at /\ M.ops = L.ops
         /\ M.done = L.done /\ M.due = L.due /\ M.self = L.self
<1>1. M \in LllType /\ M.fault # None
  BY DEF LllType
<1> QED
  BY <1>1 DEF LllType

\* What is left of L when only the pipeline changes.
SameRest(L, M) ==
  /\ M.curr = L.curr /\ M.starts = L.starts /\ M.stops = L.stops /\ M.runs = L.runs
  /\ M.ops = L.ops /\ M.done = L.done /\ M.self = L.self

LEMMA GoodRest ==
  ASSUME NEW L, Good(L), NEW M, M \in LllType, Len(M.prep) <= PipelineMax, SameRest(L, M)
  PROVE  Good(M)
  BY DEF Good, SameRest, OpsShape

LEMMA EnqueueParts ==
  ASSUME NEW L, Good(L), NEW e \in Element, NEW M, M = Enqueue(L, e)
  PROVE  /\ Good(M) /\ SameRest(L, M) /\ M.h = L.h /\ M.at = L.at
         /\ IF Len(L.prep) = PipelineMax THEN M.fault # None /\ M.prep = L.prep
            ELSE M.fault = L.fault /\ M.prep = Append(L.prep, e)
         /\ L.fault # None => M.fault # None
<1>1. L \in LllType /\ Len(L.prep) <= PipelineMax /\ PipelineMax \in Nat /\ Len(L.prep) \in Nat
  BY NowNat, PrepParts DEF Good
<1>2. CASE Len(L.prep) = PipelineMax
  <2>1. M = IF L.fault # None THEN L ELSE [L EXCEPT !.fault = "pipeline full"]
    BY <1>2 DEF Enqueue, Check
  <2>2. "pipeline full" \in Faults /\ "pipeline full" # None
    BY DEF Faults, None
  <2>3. /\ M \in LllType /\ M.fault # None /\ SameRest(L, M) /\ M.h = L.h /\ M.at = L.at
        /\ M.prep = L.prep
    <3>1. CASE L.fault # None
      BY <1>1, <2>1, <3>1 DEF SameRest
    <3>2. CASE L.fault = None
      <4>1. M = [L EXCEPT !.fault = "pipeline full"]
        BY <2>1, <3>2
      <4>2. M \in LllType /\ M.fault # None
        BY <1>1, <2>2, <4>1 DEF LllType
      <4>3. SameRest(L, M) /\ M.h = L.h /\ M.at = L.at /\ M.prep = L.prep
        BY <1>1, <4>1 DEF LllType, SameRest
      <4> QED
        BY <4>2, <4>3
    <3> QED
      BY <3>1, <3>2
  <2> QED
    BY <1>1, <1>2, <2>3, GoodRest
<1>3. CASE Len(L.prep) # PipelineMax
  <2>1. M = [L EXCEPT !.prep = Append(@, e)]
    BY <1>3 DEF Enqueue
  <2>2. L.prep \in Seq(Element)
    BY <1>1, PrepParts
  <2>3. Append(L.prep, e) \in Seq(Element) /\ Len(Append(L.prep, e)) = Len(L.prep) + 1
    BY <2>2, AppendProperties
  <2>4. /\ M \in LllType /\ M.fault = L.fault /\ SameRest(L, M) /\ M.h = L.h /\ M.at = L.at
        /\ M.prep = Append(L.prep, e)
    BY <1>1, <2>1, <2>3 DEF SameRest, LllType
  <2> QED
    BY <1>1, <1>3, <2>3, <2>4, GoodRest
<1> QED
  BY <1>2, <1>3

LEMMA PopParts ==
  ASSUME NEW L, Good(L), L.prep # <<>>, NEW M, M = Pop(L)
  PROVE  /\ Good(M) /\ SameRest(L, M) /\ M.at = L.at /\ M.fault = L.fault
         /\ M.prep = Tail(L.prep) /\ Len(M.prep) = Len(L.prep) - 1
<1>1. L \in LllType /\ Len(L.prep) <= PipelineMax /\ PipelineMax \in Nat /\ Len(L.prep) \in Nat
      /\ L.prep \in Seq(Element)
  BY NowNat, PrepParts DEF Good
<1>2. Tail(L.prep) \in Seq(Element) /\ Len(Tail(L.prep)) = Len(L.prep) - 1
  BY <1>1, HeadTailProperties
<1> DEFINE rest == Tail(L.prep)
           h == L.h + 1
<1>3. M = [L EXCEPT !.prep = rest, !.h = h]
  BY DEF Pop
<1>4. rest \in Seq(Element) /\ Len(rest) <= PipelineMax /\ h \in Nat
  BY <1>1, <1>2, PrepParts
<1> HIDE DEF rest, h
<1>5. M \in LllType /\ M.prep = rest
  BY <1>1, <1>3, <1>4 DEF LllType
<1>6. M.fault = L.fault /\ SameRest(L, M) /\ M.at = L.at
  BY <1>1, <1>3 DEF SameRest, LllType
<1>7. Good(M)
  BY <1>4, <1>5, <1>6, GoodRest
<1> QED
  BY <1>2, <1>5, <1>6, <1>7 DEF rest

StartOp(slot) == [op |-> "start", slot |-> slot, seen |-> FALSE]
StopOp == [op |-> "stop", slot |-> NoSlot, seen |-> FALSE]

LEMMA OpTyped ==
  ASSUME NEW slot \in 0 .. NoSlot
  PROVE  StartOp(slot) \in Operation /\ StopOp \in Operation
<1>1. NoSlot \in 0 .. NoSlot
  BY DEF NoSlot, Slots, PipelineMax
<1> QED
  BY <1>1 DEF StartOp, StopOp, Operation

\* ticker_start, for which there is room, and ticker_stop of a timeout that runs.
LEMMA StartParts ==
  ASSUME NEW L, L \in LllType, Len(L.ops) < OpsMax, NEW slot \in 0 .. NoSlot, NEW time \in 0 .. Now,
         NEW M, M = StartTimeout(L, slot, time)
  PROVE  /\ M \in LllType
         /\ M.starts = L.starts + 1 /\ M.ops = Append(L.ops, StartOp(slot))
         /\ M.h = L.h /\ M.prep = L.prep /\ M.curr = L.curr /\ M.stops = L.stops
         /\ M.runs = L.runs /\ M.done = L.done /\ M.self = L.self /\ M.fault = L.fault
<1> DEFINE starts == L.starts + 1
           ops == Append(L.ops, StartOp(slot))
<1>1. M = [L EXCEPT !.starts = starts, !.at = time, !.ops = ops]
  BY DEF StartTimeout, Check, StartOp
<1>2. L.starts \in Nat /\ L.ops \in Seq(Operation)
  BY DEF LllType
<1>3. starts \in Nat /\ ops \in Seq(Operation)
  BY <1>2, OpTyped, AppendProperties
<1> HIDE DEF starts, ops
<1>4. M \in LllType
  BY <1>1, <1>3 DEF LllType
<1>5. /\ M.starts = starts /\ M.ops = ops
      /\ M.h = L.h /\ M.prep = L.prep /\ M.curr = L.curr /\ M.stops = L.stops
      /\ M.runs = L.runs /\ M.done = L.done /\ M.self = L.self /\ M.fault = L.fault
  BY <1>1 DEF LllType
<1> QED
  BY <1>4, <1>5 DEF starts, ops

LEMMA StopParts ==
  ASSUME NEW L, L \in LllType, Len(L.ops) < OpsMax, NEW M, M = StopTimeout(L)
  PROVE  /\ M \in LllType
         /\ IF L.stops > 0 \/ L.runs = 0 THEN M.stops = L.stops /\ M.ops = L.ops
            ELSE M.stops = L.stops + 1 /\ M.ops = Append(L.ops, StopOp)
         /\ M.h = L.h /\ M.prep = L.prep /\ M.curr = L.curr /\ M.starts = L.starts
         /\ M.runs = L.runs /\ M.done = L.done /\ M.self = L.self /\ M.fault = L.fault
         /\ M.at = L.at
<1>1. CASE L.stops > 0 \/ L.runs = 0
  BY <1>1 DEF StopTimeout
<1>2. CASE ~(L.stops > 0 \/ L.runs = 0)
  <2> DEFINE stops == L.stops + 1
             ops == Append(L.ops, StopOp)
  <2>1. M = [L EXCEPT !.stops = stops, !.ops = ops]
    BY <1>2 DEF StopTimeout, Check, StopOp
  <2>2. L.stops \in Nat /\ L.ops \in Seq(Operation) /\ 0 \in 0 .. NoSlot
    BY DEF LllType, NoSlot, Slots, PipelineMax
  <2>3. stops \in Nat /\ ops \in Seq(Operation)
    BY <2>2, OpTyped, AppendProperties
  <2> HIDE DEF stops, ops
  <2>4. M \in LllType
    BY <2>1, <2>3 DEF LllType
  <2>5. /\ M.stops = stops /\ M.ops = ops
        /\ M.h = L.h /\ M.prep = L.prep /\ M.curr = L.curr /\ M.starts = L.starts
        /\ M.runs = L.runs /\ M.done = L.done /\ M.self = L.self /\ M.fault = L.fault
        /\ M.at = L.at
    BY <2>1 DEF LllType
  <2> QED
    BY <1>2, <2>4, <2>5 DEF stops, ops
<1> QED
  BY <1>1, <1>2

LEMMA OpsParts ==
  ASSUME NEW L, Good(L)
  PROVE  /\ L.ops \in Seq(Operation) /\ Len(L.ops) \in Nat /\ Len(L.ops) <= OpsMax
         /\ L.starts \in Nat /\ L.stops \in Nat /\ L.runs \in Nat
         /\ ~L.self => /\ L.stops = 0 /\ Len(L.ops) = L.starts /\ L.starts <= 1
                       /\ L.starts = 1 => IsStart(L.ops[1])
<1>1. L.ops \in Seq(Operation) /\ L.starts \in Nat /\ L.stops \in Nat /\ L.runs \in Nat
  BY DEF Good, LllType
<1>2. Len(L.ops) \in Nat
  BY <1>1, LenProperties
<1>3. OpsShape(L) /\ (~L.self => Len(L.ops) <= 1)
  BY DEF Good
<1>4. Len(L.ops) <= OpsMax
  <2>1. Len(L.ops) = 0 \/ Len(L.ops) = 1 \/ Len(L.ops) = 2 \/ Len(L.ops) = 3
    BY <1>3 DEF OpsShape, IsStart, IsStop
  <2>2. \A n \in Nat : n = 0 \/ n = 1 \/ n = 2 \/ n = 3 => n <= OpsMax
    BY DEF OpsMax
  <2> QED
    BY <1>2, <2>1, <2>2, Zenon
<1>5. ASSUME ~L.self
      PROVE  /\ L.stops = 0 /\ Len(L.ops) = L.starts /\ L.starts <= 1
             /\ (L.starts = 1 => IsStart(L.ops[1]))
  BY <1>2, <1>3, <1>5 DEF OpsShape
<1> QED
  BY <1>1, <1>2, <1>4, <1>5

\* The prepare found first is marked.
LEMMA MarkParts ==
  ASSUME NEW L, L \in LllType, NEW i \in Nat,
         NEW M, M = Mark(L, i)
  PROVE  /\ M \in LllType /\ Len(M.prep) = Len(L.prep) /\ M.h = L.h /\ SameRest(L, M)
         /\ M.fault = L.fault /\ M.at = L.at
         /\ DOMAIN M.prep = DOMAIN L.prep
         /\ \A j \in DOMAIN L.prep : j # i => M.prep[j] = L.prep[j]
         /\ i \in DOMAIN L.prep => /\ M.prep[i].aborted /\ M.prep[i].r = L.prep[i].r
                                   /\ M.prep[i].resume = L.prep[i].resume
<1> DEFINE e == [L.prep[i] EXCEPT !.aborted = TRUE, !.at = 0]
           p == [j \in DOMAIN L.prep |-> IF j = i THEN e ELSE L.prep[j]]
<1>1. L.prep \in Seq(Element) /\ DOMAIN L.prep = 1 .. Len(L.prep) /\ Len(L.prep) \in Nat
      /\ \A j \in DOMAIN L.prep : L.prep[j] \in Element
  BY PrepParts
<1>2. M = [L EXCEPT !.prep = p]
  BY <1>1 DEF LllType, Mark
<1>3. i \in DOMAIN L.prep => e \in Element
  <2>1. 0 \in 0 .. Now
    BY NowNat
  <2> QED
    BY <1>1, <2>1 DEF Element
<1>4. p \in [1 .. Len(L.prep) -> Element]
  BY <1>1, <1>3
<1>5. p \in Seq(Element) /\ Len(p) = Len(L.prep)
  BY <1>1, <1>4
<1> HIDE DEF p
<1>6. M \in LllType /\ M.prep = p
  BY <1>2, <1>5 DEF LllType
<1>7. M.h = L.h /\ SameRest(L, M) /\ M.fault = L.fault /\ M.at = L.at
  BY <1>2 DEF LllType, SameRest
<1>8. DOMAIN p = DOMAIN L.prep /\ \A j \in DOMAIN L.prep : p[j] = IF j = i THEN e ELSE L.prep[j]
  BY DEF p
<1>9. i \in DOMAIN L.prep => /\ e.aborted /\ e.r = L.prep[i].r
                            /\ e.resume = L.prep[i].resume
  BY <1>1 DEF Element
<1> HIDE DEF e
<1> QED
  BY <1>5, <1>6, <1>7, <1>8, <1>9

\* The shapes of the operations, by what a start finds.
LEMMA StartShape ==
  ASSUME NEW L, L \in LllType, NEW M, M \in LllType, NEW slot \in 0 .. NoSlot,
         Len(L.ops) <= 1, Len(L.ops) = L.starts, L.stops = 0, L.starts = 1 => IsStart(L.ops[1]),
         M.starts = L.starts + 1,
         \/ M.stops = 0 /\ M.ops = Append(L.ops, StartOp(slot))
         \/ M.stops = 1 /\ M.ops = Append(Append(L.ops, StopOp), StartOp(slot))
  PROVE  OpsShape(M)
<1>1. L.ops \in Seq(Operation) /\ Len(L.ops) \in Nat
  BY LenProperties DEF LllType
<1>2. StartOp(slot) \in Operation /\ StopOp \in Operation
  BY OpTyped
<1>3. /\ Append(L.ops, StopOp) \in Seq(Operation)
      /\ Len(Append(L.ops, StopOp)) = Len(L.ops) + 1
      /\ Append(L.ops, StopOp)[Len(L.ops) + 1] = StopOp
      /\ Len(L.ops) = 1 => Append(L.ops, StopOp)[1] = L.ops[1]
  BY <1>1, <1>2, AppendProperties
<1>4. IsStart(StartOp(slot)) /\ IsStop(StopOp)
  BY DEF IsStart, IsStop, StartOp, StopOp
<1>5. CASE M.stops = 0 /\ M.ops = Append(L.ops, StartOp(slot))
  <2>1. /\ Len(M.ops) = Len(L.ops) + 1 /\ M.ops[Len(L.ops) + 1] = StartOp(slot)
        /\ Len(L.ops) = 1 => M.ops[1] = L.ops[1]
    BY <1>1, <1>2, <1>5, AppendProperties
  <2>2. CASE Len(L.ops) = 0
    BY <1>4, <1>5, <2>1, <2>2 DEF OpsShape
  <2>3. CASE Len(L.ops) = 1
    <3>1. /\ Len(M.ops) = 2 /\ M.starts = 2 /\ M.stops = 0
          /\ IsStart(M.ops[1]) /\ IsStart(M.ops[2])
      BY <1>4, <1>5, <2>1, <2>3
    <3> QED
      BY <3>1 DEF OpsShape
  <2> QED
    BY <1>1, <2>2, <2>3
<1>6. CASE M.stops = 1 /\ M.ops = Append(Append(L.ops, StopOp), StartOp(slot))
  <2>1. /\ Len(M.ops) = Len(L.ops) + 2
        /\ M.ops[Len(L.ops) + 2] = StartOp(slot) /\ M.ops[Len(L.ops) + 1] = StopOp
        /\ Len(L.ops) = 1 => M.ops[1] = L.ops[1]
    <3> DEFINE A == Append(L.ops, StopOp)
    <3>1. /\ A \in Seq(Operation) /\ Len(A) = Len(L.ops) + 1 /\ A[Len(L.ops) + 1] = StopOp
          /\ Len(L.ops) = 1 => A[1] = L.ops[1]
      BY <1>3
    <3>2. M.ops = Append(A, StartOp(slot))
      BY <1>6
    <3> HIDE DEF A
    <3>3. /\ Len(M.ops) = Len(A) + 1 /\ M.ops[Len(A) + 1] = StartOp(slot)
          /\ \A i \in 1 .. Len(A) : M.ops[i] = A[i]
      BY <1>2, <3>1, <3>2, AppendProperties
    <3>4. /\ Len(A) \in Nat /\ Len(L.ops) + 1 \in 1 .. Len(A) /\ 1 \in 1 .. Len(A)
          /\ Len(L.ops) + 1 + 1 = Len(L.ops) + 2
      BY <1>1, <3>1
    <3> QED
      BY <3>1, <3>3, <3>4
  <2>2. CASE Len(L.ops) = 0
    <3>1. /\ Len(M.ops) = 2 /\ M.starts = 1 /\ M.stops = 1
          /\ IsStop(M.ops[1]) /\ IsStart(M.ops[2])
      BY <1>4, <1>6, <2>1, <2>2
    <3> QED
      BY <3>1 DEF OpsShape
  <2>3. CASE Len(L.ops) = 1
    <3>1. /\ Len(M.ops) = 3 /\ M.starts = 2 /\ M.stops = 1
          /\ IsStart(M.ops[1]) /\ IsStop(M.ops[2]) /\ IsStart(M.ops[3])
      BY <1>4, <1>6, <2>1, <2>3
    <3> QED
      BY <3>1 DEF OpsShape
  <2> QED
    BY <1>1, <2>2, <2>3
<1> QED
  BY <1>5, <1>6

\* What is in front of the operations stays there.
HeadKept(s, t) == s # <<>> => t # <<>> /\ t[1] = s[1]

LEMMA AppendKeepsHead ==
  ASSUME NEW s \in Seq(Operation), NEW o \in Operation
  PROVE  HeadKept(s, Append(s, o))
BY AppendProperties, EmptySeq, LenProperties DEF HeadKept

\* preempt_ticker_start leaves a timeout requested or running, and the pipeline as it
\* is, unless a prepare gives way to its own copy.
LEMMA PreemptStartParts ==
  ASSUME NEW L, Good(L), ~L.self,
         NEW first, NEW k \in DOMAIN L.prep, first = SlotOf(L, k),
         NEW prev \in 0 .. NoSlot,
         NEW next, NEW m \in DOMAIN L.prep, next = SlotOf(L, m),
         NEW M, M = PreemptStart(L, first, prev, next)
  PROVE  /\ Good(M) /\ Timed(M) /\ M.fault = L.fault
         /\ M.curr = L.curr /\ M.done = L.done /\ M.runs = L.runs
         /\ Len(M.prep) = Len(L.prep) /\ (~M.self => M.prep = L.prep)
         /\ prev = NoSlot => ~M.self
         /\ HeadKept(L.ops, M.ops)
<1>1. L \in LllType /\ Len(L.prep) <= PipelineMax /\ Len(L.done) <= DoneMax /\ L.runs <= 2
      /\ (~L.curr.active => L.curr = NoEvent)
  BY DEF Good
<1>2. /\ L.h \in Nat /\ DOMAIN L.prep = 1 .. Len(L.prep) /\ Len(L.prep) \in Nat
      /\ PipelineMax \in Nat /\ \A i \in DOMAIN L.prep : L.prep[i].at \in 0 .. Now
  BY <1>1, PrepParts, NowNat DEF Element
<1>3. /\ first \in 0 .. NoSlot /\ next \in 0 .. NoSlot
      /\ At(L, first).at \in 0 .. Now /\ At(L, next).at \in 0 .. Now
  <2>1. k \in Nat /\ 1 <= k /\ k <= PipelineMax + 1 /\ m \in Nat /\ 1 <= m /\ m <= PipelineMax + 1
    BY <1>1, <1>2
  <2>2. /\ first \in 0 .. PipelineMax /\ At(L, first) = L.prep[k]
        /\ next \in 0 .. PipelineMax /\ At(L, next) = L.prep[m]
    BY <1>2, <2>1, SlotPosition
  <2> QED
    BY <1>2, <2>2 DEF NoSlot, Slots, PipelineMax
<1>4. /\ L.ops \in Seq(Operation) /\ Len(L.ops) \in Nat /\ Len(L.ops) <= 1
      /\ L.starts \in Nat /\ L.stops = 0 /\ L.runs \in Nat
      /\ Len(L.ops) = L.starts /\ (L.starts = 1 => IsStart(L.ops[1]))
  BY OpsParts
<1>5. CASE L.starts = 0 /\ L.runs = 0
  <2>1. M = StartTimeout(L, first, At(L, first).at)
    BY <1>5 DEF PreemptStart
  <2>2. Len(L.ops) < OpsMax
    BY <1>4 DEF OpsMax
  <2>3. /\ M \in LllType
        /\ M.starts = L.starts + 1 /\ M.ops = Append(L.ops, StartOp(first))
        /\ M.h = L.h /\ M.prep = L.prep /\ M.curr = L.curr /\ M.stops = L.stops
        /\ M.runs = L.runs /\ M.done = L.done /\ M.self = L.self /\ M.fault = L.fault
    <3> DEFINE time == At(L, first).at
    <3>1. M = StartTimeout(L, first, time) /\ time \in 0 .. Now /\ first \in 0 .. NoSlot
      BY <1>3, <2>1
    <3> HIDE DEF time
    <3>2. L \in LllType
      BY <1>1
    <3> QED
      BY <2>2, <3>2, <3>1, StartParts
  <2>4. OpsShape(M)
    BY <1>1, <1>3, <1>4, <2>3, StartShape
  <2>5. Len(M.ops) <= 1
    <3>1. Len(M.ops) = Len(L.ops) + 1
      BY <1>3, <1>4, <2>3, OpTyped, AppendProperties
    <3> QED
      BY <1>4, <1>5, <3>1
  <2>6. Good(M)
    BY <1>1, <2>3, <2>4, <2>5 DEF Good
  <2>7. Timed(M)
    BY <1>4, <2>3 DEF Timed
  <2>8. HeadKept(L.ops, M.ops)
    BY <1>4, <1>5, EmptySeq DEF HeadKept
  <2> QED
    BY <2>3, <2>6, <2>7, <2>8
<1>6. CASE ~(L.starts = 0 /\ L.runs = 0) /\ (prev = NoSlot \/ At(L, next).at >= L.at)
  <2>1. M = L
    BY <1>6 DEF PreemptStart
  <2>2. Timed(L)
    BY <1>4, <1>6 DEF Timed
  <2> QED
    BY <2>1, <2>2 DEF HeadKept
<1>7. CASE ~(L.starts = 0 /\ L.runs = 0) /\ ~(prev = NoSlot \/ At(L, next).at >= L.at)
  <2> DEFINE own == [L EXCEPT !.self = TRUE]
             alone == Mark(own, Position(L, prev))
             stopped == StopTimeout(alone)
  <2>1. M = StartTimeout(stopped, next, At(L, next).at)
    BY <1>7 DEF PreemptStart
  <2>2. /\ own \in LllType /\ own.h = L.h /\ own.prep = L.prep /\ own.at = L.at
        /\ own.curr = L.curr /\ own.starts = L.starts /\ own.stops = L.stops
        /\ own.runs = L.runs /\ own.ops = L.ops /\ own.done = L.done
        /\ own.self = TRUE /\ own.fault = L.fault
    BY <1>1 DEF LllType
  <2>3. Position(L, prev) \in Nat
    <3>1. prev \in Nat
      BY DEF NoSlot, Slots, PipelineMax
    <3> QED
      BY <1>2, <3>1, PositionNat
  <2> HIDE DEF own
  <2>4. /\ alone \in LllType /\ Len(alone.prep) = Len(L.prep) /\ alone.self = TRUE
        /\ alone.curr = L.curr /\ alone.starts = L.starts /\ alone.stops = L.stops
        /\ alone.runs = L.runs /\ alone.ops = L.ops /\ alone.done = L.done
        /\ alone.fault = L.fault
    <3> DEFINE i == Position(L, prev)
    <3>1. i \in Nat /\ alone = Mark(own, i)
      BY <2>3
    <3> HIDE DEF i, alone
    <3>2. alone \in LllType /\ Len(alone.prep) = Len(own.prep) /\ SameRest(own, alone)
          /\ alone.fault = own.fault
      BY <2>2, <3>1, MarkParts
    <3> QED
      BY <2>2, <3>2 DEF SameRest
  <2> HIDE DEF alone
  <2>5. Len(alone.ops) < OpsMax
    BY <1>4, <2>4 DEF OpsMax
  <2>6. /\ stopped \in LllType
        /\ IF L.runs = 0 THEN stopped.stops = 0 /\ stopped.ops = L.ops
           ELSE stopped.stops = 1 /\ stopped.ops = Append(L.ops, StopOp)
        /\ Len(stopped.prep) = Len(L.prep) /\ stopped.self = TRUE
        /\ stopped.curr = L.curr /\ stopped.starts = L.starts
        /\ stopped.runs = L.runs /\ stopped.done = L.done /\ stopped.fault = L.fault
    BY <1>4, <2>4, <2>5, StopParts
  <2> HIDE DEF stopped
  <2>7. Len(stopped.ops) < OpsMax
    <3>1. 0 \in 0 .. NoSlot
      BY DEF NoSlot, Slots, PipelineMax
    <3>2. Len(Append(L.ops, StopOp)) = Len(L.ops) + 1
      BY <1>4, <3>1, OpTyped, AppendProperties
    <3> QED
      BY <1>4, <2>6, <3>2 DEF OpsMax
  <2>8. /\ M \in LllType
        /\ M.starts = L.starts + 1 /\ M.ops = Append(stopped.ops, StartOp(next))
        /\ Len(M.prep) = Len(L.prep) /\ M.curr = L.curr /\ M.stops = stopped.stops
        /\ M.runs = L.runs /\ M.done = L.done /\ M.self = TRUE /\ M.fault = L.fault
    <3> DEFINE time == At(L, next).at
    <3>1. M = StartTimeout(stopped, next, time) /\ time \in 0 .. Now /\ next \in 0 .. NoSlot
      BY <1>3, <2>1
    <3>2. stopped \in LllType
      BY <2>6
    <3> HIDE DEF time
    <3>3. /\ M \in LllType
          /\ M.starts = stopped.starts + 1 /\ M.ops = Append(stopped.ops, StartOp(next))
          /\ M.prep = stopped.prep /\ M.curr = stopped.curr /\ M.stops = stopped.stops
          /\ M.runs = stopped.runs /\ M.done = stopped.done /\ M.self = stopped.self
          /\ M.fault = stopped.fault
      BY <2>7, <3>1, <3>2, StartParts
    <3> QED
      BY <2>6, <3>3
  <2>9. OpsShape(M)
    BY <1>1, <1>3, <1>4, <2>6, <2>8, StartShape
  <2>10. Good(M)
    BY <1>1, <2>8, <2>9 DEF Good
  <2>11. Timed(M)
    BY <1>4, <2>8 DEF Timed
  <2>12. HeadKept(L.ops, M.ops)
    <3>1. StopOp \in Operation /\ StartOp(next) \in Operation
      BY <1>3, OpTyped
    <3>2. HeadKept(L.ops, stopped.ops) /\ stopped.ops \in Seq(Operation)
      <4>1. HeadKept(L.ops, L.ops)
        BY DEF HeadKept
      <4>2. HeadKept(L.ops, Append(L.ops, StopOp))
        BY <1>4, <3>1, AppendKeepsHead
      <4>3. stopped.ops \in Seq(Operation)
        BY <2>6 DEF LllType
      <4> QED
        BY <2>6, <4>1, <4>2, <4>3
    <3>3. HeadKept(stopped.ops, M.ops)
      BY <2>8, <3>1, <3>2, AppendKeepsHead
    <3> QED
      BY <3>2, <3>3 DEF HeadKept
  <2> QED
    BY <1>7, <2>8, <2>10, <2>11, <2>12
<1> QED
  BY <1>5, <1>6, <1>7

Begun(r) == [active |-> TRUE, r |-> r, ending |-> FALSE]

\* A timeout stays requested or running, and a request stays in front.
TimedKept(L, M) == (Timed(L) => Timed(M)) /\ HeadKept(L.ops, M.ops)

LEMMA HasReadyIs ==
  ASSUME NEW L, L \in LllType, Len(L.prep) <= PipelineMax
  PROVE  HasReady(L) <=> NextReady(L, 1) # NoSlot
BY NextReadyIs, PrepParts DEF HasReady

\* What lll_prepare_resolve makes of the record: M keeps e, or e is on air.
Resolved(L, e, slot, M) ==
  /\ Good(M) /\ M.done = L.done /\ M.runs = L.runs /\ TimedKept(L, M)
  /\ Len(M.prep) >= Len(L.prep)
  /\ L.curr.active \/ (HasReady(L) /\ e.resume) =>
       /\ M.curr = L.curr
       /\ Fine(M) => M.prep = Append(L.prep, e)
       /\ M.fault = None /\ ~e.resume => Timed(M)
       /\ e.resume => ~M.self
  /\ ~(L.curr.active \/ (HasReady(L) /\ e.resume)) =>
       /\ M.curr = Begun(e.r) /\ M.prep = L.prep /\ ~M.self
       /\ ~HasReady(L) => M.fault = None
       /\ M.fault = None => \/ ~HasReady(L)
                            \/ \E k \in DOMAIN L.prep :
                                 /\ Ready(L.prep[k]) /\ slot = SlotOf(L, k)
                                 /\ \A j \in DOMAIN L.prep : j < k => ~Ready(L.prep[j])
                                 /\ \A j \in DOMAIN L.prep :
                                      j > k /\ Ready(L.prep[j]) => Timed(M)

\* lll_prepare_resolve: what it keeps comes last and has a timeout; what it starts is
\* the first ready prepare or a resume that no prepare waits behind.
LEMMA ResolveParts ==
  ASSUME NEW L, Good(L), Fine(L), NEW e \in Element, ~e.aborted, NEW slot \in 0 .. NoSlot,
         L.curr.active \/ e.resume \/ NextReady(L, 1) \in {NoSlot, slot},
         NEW M, M = Resolve(L, e, slot)
  PROVE  Resolved(L, e, slot, M)
<1> DEFINE p == NextReady(L, 1)
<1>1. L \in LllType /\ Len(L.prep) <= PipelineMax /\ L.fault = None /\ ~L.self
  BY DEF Good, Fine
<1>2. /\ L.h \in Nat /\ DOMAIN L.prep = 1 .. Len(L.prep) /\ Len(L.prep) \in Nat
      /\ L.prep \in Seq(Element) /\ PipelineMax \in Nat
  BY <1>1, PrepParts, NowNat
<1>3. HasReady(L) <=> p # NoSlot
  BY <1>1, HasReadyIs
<1>4. p # NoSlot =>
        \E k \in DOMAIN L.prep :
          /\ Ready(L.prep[k]) /\ p = SlotOf(L, k) /\ p \in 0 .. PipelineMax
          /\ \A j \in DOMAIN L.prep : j < k => ~Ready(L.prep[j])
  BY <1>1, <1>2, NextReadyIs
<1>5. NoSlot \in 0 .. NoSlot /\ \A s \in 0 .. PipelineMax : s \in 0 .. NoSlot
  BY DEF NoSlot, Slots, PipelineMax
<1>6. CASE L.curr.active \/ (p # NoSlot /\ e.resume)
  <2> DEFINE kept == Enqueue(L, e)
             new == SlotOf(kept, Len(kept.prep))
  <2>1. M = IF e.resume \/ kept.fault # None THEN kept
            ELSE PreemptStart(kept, IF p = NoSlot THEN new ELSE p, p, new)
    BY <1>6 DEF Resolve
  <2>2. /\ Good(kept) /\ SameRest(L, kept) /\ kept.h = L.h
        /\ IF Len(L.prep) = PipelineMax THEN kept.fault # None /\ kept.prep = L.prep
           ELSE kept.fault = L.fault /\ kept.prep = Append(L.prep, e)
    BY EnqueueParts
  <2>3. /\ kept.curr = L.curr /\ kept.done = L.done /\ kept.runs = L.runs
        /\ TimedKept(L, kept) /\ ~kept.self /\ kept.ops = L.ops
    BY <1>1, <2>2 DEF SameRest, TimedKept, HeadKept, Timed
  <2>4. Len(Append(L.prep, e)) = Len(L.prep) + 1
    BY <1>2, AppendProperties
  <2>5. Len(kept.prep) >= Len(L.prep)
    BY <1>2, <2>2, <2>4
  <2>6. CASE e.resume \/ kept.fault # None
    <3>1. M = kept
      BY <2>1, <2>6
    <3> HIDE DEF kept
    <3>2. Fine(M) => M.prep = Append(L.prep, e)
      BY <2>2, <3>1 DEF Fine
    <3> QED
      BY <1>3, <1>6, <2>2, <2>3, <2>5, <2>6, <3>1, <3>2 DEF Resolved
  <2>7. CASE ~(e.resume \/ kept.fault # None)
    <3> DEFINE first == IF p = NoSlot THEN new ELSE p
    <3>1. M = PreemptStart(kept, first, p, new)
      BY <2>1, <2>7
    <3> HIDE DEF kept
    <3>2. kept.prep = Append(L.prep, e) /\ Len(kept.prep) = Len(L.prep) + 1
      BY <2>2, <2>4, <2>7
    <3>3. DOMAIN kept.prep = 1 .. Len(kept.prep) /\ Len(kept.prep) \in DOMAIN kept.prep
      <4>1. kept \in LllType
        BY <2>2 DEF Good
      <4> QED
        BY <1>2, <3>2, <4>1, PrepParts
    <3>4. PICK k \in DOMAIN kept.prep : first = SlotOf(kept, k)
      <4>1. CASE p = NoSlot
        BY <3>3, <4>1
      <4>2. CASE p # NoSlot
        <5>1. PICK k \in DOMAIN L.prep : p = SlotOf(L, k)
          BY <1>4, <4>2
        <5>2. k \in DOMAIN kept.prep /\ SlotOf(kept, k) = SlotOf(L, k)
          BY <1>2, <2>2, <3>2, <3>3 DEF SlotOf
        <5> QED
          BY <4>2, <5>1, <5>2
      <4> QED
        BY <4>1, <4>2
    <3>5. p \in 0 .. NoSlot
      BY <1>4, <1>5
    <3> HIDE DEF p, first
    <3>6. /\ Good(M) /\ Timed(M) /\ M.fault = kept.fault
          /\ M.curr = kept.curr /\ M.done = kept.done /\ M.runs = kept.runs
          /\ Len(M.prep) = Len(kept.prep) /\ (~M.self => M.prep = kept.prep)
          /\ HeadKept(kept.ops, M.ops)
      BY <2>2, <2>3, <3>1, <3>3, <3>4, <3>5, PreemptStartParts
    <3>7. Fine(M) => M.prep = Append(L.prep, e)
      BY <3>2, <3>6 DEF Fine
    <3>8. TimedKept(L, M)
      BY <2>3, <3>6 DEF TimedKept
    <3> QED
      BY <1>3, <1>6, <2>3, <2>5, <2>7, <3>6, <3>7, <3>8 DEF Resolved
  <2> QED
    BY <2>6, <2>7
<1>7. CASE ~(L.curr.active \/ (p # NoSlot /\ e.resume))
  <2> DEFINE checked == Check(L, p \in {NoSlot, slot}, "another is ready")
             begun == [checked EXCEPT !.curr = Begun(e.r)]
             next == IF p = NoSlot THEN NoSlot ELSE NextReady(begun, Position(L, p) + 1)
  <2>1. M = IF next = NoSlot THEN begun ELSE PreemptStart(begun, next, NoSlot, next)
    BY <1>7 DEF Resolve, Begun
  <2>2. /\ checked \in LllType /\ (checked.fault = None <=> p \in {NoSlot, slot})
        /\ checked.h = L.h /\ checked.prep = L.prep /\ checked.starts = L.starts
        /\ checked.stops = L.stops /\ checked.runs = L.runs /\ checked.ops = L.ops
        /\ checked.done = L.done /\ checked.self = L.self
    <3>1. p \in {NoSlot, slot}
      BY <1>7
    <3>2. checked = L
      BY <3>1 DEF Check
    <3> HIDE DEF p, checked
    <3> QED
      BY <1>1, <3>1, <3>2
  <2>3. /\ begun \in LllType /\ begun.curr = Begun(e.r) /\ begun.fault = checked.fault
        /\ begun.h = L.h /\ begun.prep = L.prep /\ begun.starts = L.starts
        /\ begun.stops = L.stops /\ begun.runs = L.runs /\ begun.ops = L.ops
        /\ begun.done = L.done /\ begun.self = L.self
    <3>1. Begun(e.r) \in [active : BOOLEAN, r : Roles \cup {None}, ending : BOOLEAN]
      BY DEF Begun, Element
    <3> HIDE DEF checked, p
    <3> QED
      BY <2>2, <3>1 DEF LllType
  <2>4. Good(begun)
    <3>1. Begun(e.r).active
      BY DEF Begun
    <3> HIDE DEF begun
    <3> QED
      BY <2>3, <3>1 DEF Good, OpsShape
  <2>5. CASE p = NoSlot
    <3>1. M = begun
      BY <2>1, <2>5
    <3> HIDE DEF begun, checked
    <3>2. M.fault = None
      BY <2>2, <2>3, <2>5, <3>1
    <3>3. TimedKept(L, M)
      BY <2>3, <3>1 DEF TimedKept, HeadKept, Timed
    <3>4. Len(M.prep) >= Len(L.prep)
      BY <1>2, <2>3, <3>1
    <3> QED
      BY <1>1, <1>3, <1>7, <2>3, <2>4, <2>5, <3>1, <3>2, <3>3, <3>4 DEF Resolved
  <2>6. CASE p # NoSlot
    <3>1. PICK k \in DOMAIN L.prep :
            /\ Ready(L.prep[k]) /\ p = SlotOf(L, k)
            /\ \A j \in DOMAIN L.prep : j < k => ~Ready(L.prep[j])
      BY <1>4, <2>6
    <3>2. k \in Nat /\ 1 <= k /\ k <= PipelineMax + 1
      BY <1>1, <1>2
    <3>3. Position(L, p) = k
      BY <1>2, <3>1, <3>2, SlotPosition
    <3>4. next = NextReady(begun, k + 1)
      BY <2>6, <3>3
    <3>5. begun.fault = None => slot = p
      BY <2>2, <2>3, <2>6
    <3> HIDE DEF begun, checked, next, p
    <3>6. k + 1 \in Nat /\ 1 <= k + 1 /\ Len(begun.prep) <= PipelineMax
      BY <1>1, <2>3, <3>2
    <3>7. \/ next = NoSlot /\ \A j \in DOMAIN L.prep : k + 1 <= j => ~Ready(L.prep[j])
          \/ \E m \in DOMAIN begun.prep : next = SlotOf(begun, m) /\ next # NoSlot
      BY <2>3, <3>4, <3>6, NextReadyIs
    <3>8. NoSlot \in 0 .. NoSlot
      BY <1>5
    <3>9. CASE next = NoSlot
      <4>1. M = begun
        BY <2>1, <3>9
      <4>2. \A j \in DOMAIN L.prep : j > k => ~Ready(L.prep[j])
        <5>1. \A j \in DOMAIN L.prep : k + 1 <= j => ~Ready(L.prep[j])
          <6>1. ASSUME NEW m \in DOMAIN begun.prep, next = SlotOf(begun, m), next # NoSlot
                PROVE FALSE
            BY <3>9, <6>1
          <6> QED
            BY <3>7, <6>1
        <5> QED
          BY <1>2, <3>2, <5>1
      <4>3. TimedKept(L, M)
        BY <2>3, <4>1 DEF TimedKept, HeadKept, Timed
      <4>4. Len(M.prep) >= Len(L.prep)
        BY <1>2, <2>3, <4>1
      <4>5. HasReady(L)
        BY <1>3, <2>6
      <4> QED
        BY <1>1, <1>3, <1>7, <2>3, <2>4, <2>6, <3>1, <3>5, <4>1, <4>2, <4>3, <4>4, <4>5 DEF Resolved
    <3>10. CASE next # NoSlot
      <4>1. M = PreemptStart(begun, next, NoSlot, next)
        BY <2>1, <3>10
      <4>2. PICK m \in DOMAIN begun.prep : next = SlotOf(begun, m)
        BY <3>7, <3>10
      <4>3. ~begun.self
        BY <1>1, <2>3
      <4>4. /\ Good(M) /\ Timed(M) /\ M.fault = begun.fault
            /\ M.curr = begun.curr /\ M.done = begun.done /\ M.runs = begun.runs
            /\ ~M.self /\ M.prep = begun.prep /\ HeadKept(begun.ops, M.ops)
        BY <2>4, <3>8, <4>1, <4>2, <4>3, PreemptStartParts
      <4>5. Len(M.prep) >= Len(L.prep)
        BY <1>2, <2>3, <4>4
      <4>6. HasReady(L)
        BY <1>3, <2>6
      <4>7. TimedKept(L, M)
        BY <2>3, <4>4 DEF TimedKept
      <4> QED
        BY <1>3, <1>7, <2>3, <2>6, <3>1, <3>5, <4>4, <4>5, <4>6, <4>7 DEF Resolved
    <3> QED
      BY <3>9, <3>10
  <2> QED
    BY <2>5, <2>6
<1> QED
  BY <1>6, <1>7 DEF Resolved

-----------------------------------------------------------------------------
(***************************************************************************)
(* What is owed to the roles, and the order of the resumes, when the       *)
(* pipeline loses its head and when the head is put back.                  *)
(***************************************************************************)
Of(r) == {e \in Element : ~e.aborted /\ e.r = r}
Held(p, r) == Cardinality(Hits(p, Of(r)))

LEMMA MineHeld ==
  ASSUME NEW L, L \in LllType, NEW r
  PROVE  /\ Mine(L, r) = Hits(L.prep, Of(r)) /\ IsFiniteSet(Mine(L, r))
         /\ Cardinality(Mine(L, r)) = Held(L.prep, r) /\ Held(L.prep, r) \in Nat
         /\ Held(L.prep, r) <= Len(L.prep)
<1>1. \A i \in DOMAIN L.prep : L.prep[i] \in Element
  BY PrepParts
<1>2. Mine(L, r) = Hits(L.prep, Of(r))
  BY <1>1 DEF Mine, Hits, Of
<1>3. L.prep \in Seq(Element)
  BY PrepParts
<1>4. /\ IsFiniteSet(Hits(L.prep, Of(r))) /\ Cardinality(Hits(L.prep, Of(r))) \in Nat
      /\ Cardinality(Hits(L.prep, Of(r))) <= Len(L.prep)
  BY <1>3, HitsFinite
<1> QED
  BY <1>2, <1>4 DEF Held

LEMMA CountHits ==
  ASSUME NEW s, NEW x
  PROVE  Count(x, s) = Cardinality(Hits(s, {x}))
<1>1. {i \in DOMAIN s : s[i] = x} = Hits(s, {x})
  BY DEF Hits
<1> QED
  BY <1>1 DEF Count

LEMMA HeldTail ==
  ASSUME NEW p \in Seq(Element), p # <<>>, NEW r
  PROVE  /\ Held(p, r) = Held(Tail(p), r) + (IF Head(p) \in Of(r) THEN 1 ELSE 0)
         /\ Held(Tail(p), r) \in Nat
<1>1. Tail(p) \in Seq(Element)
  BY HeadTailProperties
<1> QED
  BY <1>1, HitsTail, HitsFinite DEF Held

LEMMA HeldAppend ==
  ASSUME NEW p \in Seq(Element), NEW e \in Element, NEW r
  PROVE  /\ Held(Append(p, e), r) = Held(p, r) + (IF e \in Of(r) THEN 1 ELSE 0)
         /\ Held(p, r) \in Nat
  BY HitsAppend, HitsFinite DEF Held

LEMMA RotateIs ==
  ASSUME NEW p \in Seq(Element), p # <<>>, NEW e \in Element
  PROVE  LET q == Tail(Append(p, e))
         IN /\ q \in Seq(Element) /\ Len(q) = Len(p) /\ DOMAIN q = 1 .. Len(p) /\ Len(p) \in Nat
            /\ q[Len(p)] = e /\ \A i \in 1 .. Len(p) : i < Len(p) => q[i] = p[i + 1]
            /\ q # <<>> /\ Head(Append(p, e)) = Head(p) /\ Append(p, e) # <<>>
            /\ Len(p) >= 1 /\ Len(p) \in DOMAIN q
<1> DEFINE a == Append(p, e)
           q == Tail(a)
<1>1. Len(p) \in Nat /\ Len(p) >= 1
  BY LenProperties, EmptySeq
<1>2. a \in Seq(Element) /\ Len(a) = Len(p) + 1 /\ a # <<>> /\ Head(a) = Head(p)
      /\ a[Len(p) + 1] = e /\ \A i \in 1 .. Len(p) : a[i] = p[i]
  BY <1>1, AppendProperties, HeadTailAppend
<1> HIDE DEF a
<1>3. q \in Seq(Element) /\ Len(q) = Len(a) - 1 /\ \A i \in 1 .. Len(q) : q[i] = a[i + 1]
  BY <1>2, HeadTailProperties
<1>4. DOMAIN q = 1 .. Len(q)
  BY <1>3, LenProperties
<1> HIDE DEF q
<1>5. Len(q) = Len(p)
  BY <1>1, <1>2, <1>3
<1>6. q[Len(p)] = e /\ \A i \in 1 .. Len(p) : i < Len(p) => q[i] = p[i + 1]
  BY <1>1, <1>2, <1>3, <1>5
<1>7. q # <<>>
  BY <1>1, <1>5, EmptySeq
<1>8. Len(p) \in DOMAIN q
  BY <1>1, <1>4, <1>5
<1> QED
  BY <1>1, <1>2, <1>3, <1>4, <1>5, <1>6, <1>7, <1>8 DEF a, q

LEMMA TailIs ==
  ASSUME NEW p \in Seq(Element), p # <<>>
  PROVE  /\ Tail(p) \in Seq(Element) /\ Len(Tail(p)) = Len(p) - 1 /\ Len(p) \in Nat /\ Len(p) >= 1
         /\ DOMAIN Tail(p) = 1 .. Len(p) - 1 /\ DOMAIN p = 1 .. Len(p) /\ Head(p) = p[1]
         /\ \A i \in 1 .. Len(p) - 1 : Tail(p)[i] = p[i + 1]
<1>1. /\ Tail(p) \in Seq(Element) /\ Len(Tail(p)) = Len(p) - 1
      /\ \A i \in 1 .. Len(Tail(p)) : Tail(p)[i] = p[i + 1]
  BY HeadTailProperties
<1>2. Len(p) \in Nat /\ DOMAIN p = 1 .. Len(p) /\ DOMAIN Tail(p) = 1 .. Len(Tail(p)) /\ Len(p) >= 1
  BY <1>1, LenProperties, EmptySeq
<1> QED
  BY <1>1, <1>2

LEMMA HeldRotate ==
  ASSUME NEW p \in Seq(Element), p # <<>>, NEW r
  PROVE  Held(Tail(Append(p, Head(p))), r) = Held(p, r)
<1> DEFINE e == Head(p)
           a == Append(p, e)
<1>1. e \in Element
  BY HeadTailProperties
<1>2. a \in Seq(Element) /\ a # <<>> /\ Head(a) = e
  BY <1>1, AppendProperties, RotateIs
<1>3. Held(a, r) = Held(p, r) + (IF e \in Of(r) THEN 1 ELSE 0) /\ Held(p, r) \in Nat
  BY <1>1, HeldAppend
<1> HIDE DEF a
<1>4. Held(a, r) = Held(Tail(a), r) + (IF Head(a) \in Of(r) THEN 1 ELSE 0)
      /\ Held(Tail(a), r) \in Nat
  BY <1>2, HeldTail
<1> HIDE DEF e
<1> QED
  BY <1>2, <1>3, <1>4 DEF a, e

LEMMA OneResumeTail ==
  ASSUME NEW p \in Seq(Element), p # <<>>, OneResume(p)
  PROVE  OneResume(Tail(p))
<1> DEFINE q == Tail(p)
<1>1. \A i \in DOMAIN q : i + 1 \in DOMAIN p /\ q[i] = p[i + 1] /\ i \in Nat
  BY TailIs
<1> HIDE DEF q
<1> SUFFICES ASSUME NEW i \in DOMAIN q, NEW j \in DOMAIN q, i < j,
                    q[i].resume, q[j].resume, q[i].r = q[j].r
             PROVE  q[i].aborted
  BY DEF OneResume, q
<1> DEFINE k == i + 1
           m == j + 1
<1>2. k \in DOMAIN p /\ m \in DOMAIN p /\ k < m /\ q[i] = p[k] /\ q[j] = p[m]
  BY <1>1
<1> HIDE DEF k, m
<1> QED
  BY <1>2 DEF OneResume

LEMMA OneResumeRotate ==
  ASSUME NEW p \in Seq(Element), p # <<>>, OneResume(p), ~Head(p).aborted
  PROVE  OneResume(Tail(Append(p, Head(p))))
<1> DEFINE q == Tail(Append(p, Head(p)))
           n == Len(p)
<1>1. Head(p) \in Element
  BY HeadTailProperties
<1>2. /\ n \in Nat /\ n >= 1 /\ DOMAIN p = 1 .. n /\ Head(p) = p[1]
  BY TailIs
<1>3. /\ DOMAIN q = 1 .. n /\ q[n] = p[1]
      /\ \A i \in 1 .. n : i < n => q[i] = p[i + 1]
  BY <1>1, <1>2, RotateIs
<1> HIDE DEF q, n
<1> SUFFICES ASSUME NEW i \in DOMAIN q, NEW j \in DOMAIN q, i < j,
                    q[i].resume, q[j].resume, q[i].r = q[j].r
             PROVE  q[i].aborted
  BY DEF OneResume, q
<1> DEFINE k == i + 1
           m == j + 1
<1>4. k \in DOMAIN p /\ 1 < k /\ q[i] = p[k] /\ k \in Nat
  BY <1>2, <1>3
<1>5. CASE j < n
  <2>1. m \in DOMAIN p /\ k < m /\ q[j] = p[m]
    BY <1>2, <1>3, <1>5
  <2> HIDE DEF k, m
  <2> QED
    BY <1>4, <2>1 DEF OneResume
<1>6. CASE j = n
  <2>1. q[j] = p[1] /\ 1 \in DOMAIN p
    BY <1>2, <1>3, <1>6
  <2> HIDE DEF k
  <2>2. p[1].aborted
    BY <1>4, <2>1 DEF OneResume
  <2> QED
    BY <1>2, <2>2
<1> QED
  BY <1>2, <1>3, <1>5, <1>6

-----------------------------------------------------------------------------
(***************************************************************************)
(* One turn of ull_prepare_dequeue.                                        *)
(***************************************************************************)
GoodWalk(w) ==
  /\ w.over \in BOOLEAN /\ Good(w.lll)
  /\ ~w.over => Fine(w.lll) /\ w.lll.prep # <<>>

\* The head is dropped, put back or started.
TurnStep(L, M, e) ==
  \/ /\ e.aborted
     /\ M.prep = Tail(L.prep) /\ M.curr = L.curr /\ Fine(M)
  \/ /\ ~e.aborted /\ (L.curr.active \/ (HasReady(L) /\ e.resume))
     /\ M.curr = L.curr
     /\ Fine(M) => M.prep = Tail(Append(L.prep, e))
     /\ M.fault = None /\ ~e.resume => Timed(M)
     /\ e.resume => ~M.self
  \/ /\ ~e.aborted /\ ~(L.curr.active \/ (HasReady(L) /\ e.resume))
     /\ M.curr = Begun(e.r) /\ M.prep = Tail(L.prep) /\ ~M.self
     /\ M.fault = None /\ ~e.resume /\ HasReady(M) => Timed(M)

LEMMA WalkParts ==
  ASSUME NEW L, NEW one, NEW two, NEW over \in BOOLEAN, NEW w, w = Walk(L, one, two, over)
  PROVE  /\ w.lll = L /\ w.one = one /\ w.two = two
         /\ w.over = (over \/ L.prep = <<>> \/ L.fault # None)
         /\ w.over <=> over \/ L.prep = <<>> \/ L.fault # None
  BY DEF Walk

LEMMA TurnParts ==
  ASSUME NEW w, GoodWalk(w), ~w.over,
         NEW L, L = w.lll, NEW e, e = Head(L.prep), NEW v, v = Turn(w), NEW M, M = v.lll
  PROVE  /\ Good(M) /\ M.done = L.done /\ M.runs = L.runs /\ TimedKept(L, M)
         /\ e \in Element /\ TurnStep(L, M, e)
         /\ v.one = (IF ~e.aborted /\ e.resume /\ w.one = None THEN e.r ELSE w.one)
         /\ v.two = (IF ~e.aborted /\ e.resume /\ w.one # None /\ w.two = None THEN e.r ELSE w.two)
         /\ v.over \in BOOLEAN
         /\ v.over <=> \/ Ready(e) \/ M.prep = <<>> \/ M.fault # None
                       \/ /\ ~e.aborted /\ e.resume /\ Head(M.prep).resume
                          /\ Head(M.prep).r \in {v.one, v.two}
<1>1. Good(L) /\ Fine(L) /\ L.prep # <<>>
  BY DEF GoodWalk
<1>2. L.prep \in Seq(Element) /\ L \in LllType /\ Len(L.prep) <= PipelineMax /\ L.h \in Nat
  BY <1>1, PrepParts DEF Good
<1>3. e \in Element /\ e = L.prep[1] /\ Len(L.prep) \in Nat /\ Len(L.prep) >= 1
      /\ DOMAIN L.prep = 1 .. Len(L.prep)
  BY <1>1, <1>2, HeadTailProperties, TailIs
<1> DEFINE slot == SlotOf(L, 1)
           X == IF e.aborted THEN L ELSE Resolve(L, e, slot)
           rest == Pop(X)
           resumed == ~e.aborted /\ e.resume
           one == IF resumed /\ w.one = None THEN e.r ELSE w.one
           two == IF resumed /\ w.one # None /\ w.two = None THEN e.r ELSE w.two
           over == \/ Ready(e)
                   \/ /\ rest.prep # <<>>
                      /\ resumed /\ Head(rest.prep).resume /\ Head(rest.prep).r \in {one, two}
<1>4. v = Walk(rest, one, two, over)
  BY DEF Turn
<1>5. over \in BOOLEAN
  OBVIOUS
<1>6. /\ v.lll = rest /\ v.one = one /\ v.two = two
      /\ v.over = (over \/ rest.prep = <<>> \/ rest.fault # None)
      /\ v.over <=> over \/ rest.prep = <<>> \/ rest.fault # None
  <2> HIDE DEF rest, one, two, over
  <2> QED
    BY <1>4, <1>5, WalkParts
<1>7. M = rest
  BY <1>6
<1>8. slot \in 0 .. NoSlot
  <2>1. slot \in 0 .. PipelineMax
    <3>1. 1 <= PipelineMax + 1 /\ 1 \in Nat
      BY DEF PipelineMax
    <3> QED
      BY <1>2, <3>1, SlotPosition
  <2> QED
    BY <2>1 DEF NoSlot, Slots, PipelineMax
<1>9. /\ Good(M) /\ M.done = L.done /\ M.runs = L.runs /\ TimedKept(L, M)
      /\ TurnStep(L, M, e)
  <2>1. CASE e.aborted
    <3>1. M = Pop(L)
      BY <1>7, <2>1
    <3>2. Good(M) /\ SameRest(L, M) /\ M.fault = L.fault /\ M.prep = Tail(L.prep)
      BY <1>1, <3>1, PopParts
    <3> HIDE DEF rest
    <3>3. M.curr = L.curr /\ Fine(M) /\ M.done = L.done /\ M.runs = L.runs
          /\ TimedKept(L, M)
      BY <1>1, <3>2 DEF SameRest, Fine, Timed, TimedKept, HeadKept
    <3> QED
      BY <2>1, <3>2, <3>3 DEF TurnStep
  <2>3. ~e.aborted => e.resume \/ NextReady(L, 1) = slot
    <3>1. ASSUME Ready(e) PROVE NextReady(L, 1) = slot
      <4>1. HasReady(L) /\ 1 \in DOMAIN L.prep /\ Ready(L.prep[1])
        BY <1>3, <3>1 DEF HasReady
      <4>2. PICK k \in DOMAIN L.prep :
              /\ NextReady(L, 1) = SlotOf(L, k)
              /\ \A j \in DOMAIN L.prep : j < k => ~Ready(L.prep[j])
        <5>1. NextReady(L, 1) # NoSlot
          BY <1>2, <4>1, HasReadyIs
        <5>2. \A j \in DOMAIN L.prep : 1 <= j
          BY <1>3
        <5> QED
          BY <1>2, <5>1, <5>2, NextReadyIs
      <4>3. k = 1
        BY <1>3, <4>1, <4>2
      <4> QED
        BY <4>2, <4>3
    <3> QED
      BY <3>1 DEF Ready
  <2>2. CASE ~e.aborted
    <3>1. X = Resolve(L, e, slot)
      BY <2>2
    <3> DEFINE isKept == L.curr.active \/ (HasReady(L) /\ e.resume)
    <3> HIDE DEF slot, X
    <3>2. /\ Good(X) /\ X.done = L.done /\ X.runs = L.runs /\ TimedKept(L, X)
          /\ Len(X.prep) >= Len(L.prep)
          /\ isKept =>
               /\ X.curr = L.curr
               /\ Fine(X) => X.prep = Append(L.prep, e)
               /\ X.fault = None /\ ~e.resume => Timed(X)
               /\ e.resume => ~X.self
          /\ ~isKept =>
               /\ X.curr = Begun(e.r) /\ X.prep = L.prep /\ ~X.self
               /\ X.fault = None => \/ ~HasReady(L)
                                    \/ \E k \in DOMAIN L.prep :
                                         /\ Ready(L.prep[k]) /\ slot = SlotOf(L, k)
                                         /\ \A j \in DOMAIN L.prep : j < k => ~Ready(L.prep[j])
                                         /\ \A j \in DOMAIN L.prep :
                                              j > k /\ Ready(L.prep[j]) => Timed(X)
      <4>1. L.curr.active \/ e.resume \/ NextReady(L, 1) \in {NoSlot, slot}
        BY <2>2, <2>3
      <4>2. Resolved(L, e, slot, X)
        BY <1>1, <1>3, <1>8, <2>2, <3>1, <4>1, ResolveParts
      <4> QED
        BY <4>2 DEF Resolved
    <3>3. X.prep # <<>>
      <4>1. X.prep \in Seq(Element) /\ Len(X.prep) \in Nat
        BY <3>2, PrepParts DEF Good
      <4> QED
        BY <1>3, <3>2, <4>1, EmptySeq
    <3>4. Good(M) /\ SameRest(X, M) /\ M.fault = X.fault /\ M.prep = Tail(X.prep)
      BY <1>7, <3>2, <3>3, PopParts
    <3> HIDE DEF rest
    <3>5. /\ M.curr = X.curr /\ (Fine(M) <=> Fine(X)) /\ M.done = L.done /\ M.runs = L.runs
          /\ (Timed(X) <=> Timed(M)) /\ M.self = X.self /\ TimedKept(L, M)
      BY <3>2, <3>4 DEF SameRest, Fine, Timed, TimedKept, HeadKept
    <3>6. CASE isKept
      <4>1. /\ M.curr = L.curr
            /\ Fine(M) => M.prep = Tail(Append(L.prep, e))
            /\ M.fault = None /\ ~e.resume => Timed(M)
            /\ e.resume => ~M.self
        BY <3>2, <3>4, <3>5, <3>6
      <4> QED
        BY <2>2, <3>2, <3>4, <3>5, <3>6, <4>1 DEF TurnStep
    <3>7. CASE ~isKept
      <4>1. M.curr = Begun(e.r) /\ M.prep = Tail(L.prep) /\ ~M.self
        BY <3>2, <3>4, <3>5, <3>7
      <4>2. ASSUME M.fault = None, ~e.resume, HasReady(M) PROVE Timed(M)
        <5>1. Ready(e) /\ HasReady(L) /\ 1 \in DOMAIN L.prep
          BY <1>3, <2>2, <4>2 DEF Ready, HasReady
        <5>2. PICK k \in DOMAIN L.prep :
                /\ \A j \in DOMAIN L.prep : j < k => ~Ready(L.prep[j])
                /\ \A j \in DOMAIN L.prep : j > k /\ Ready(L.prep[j]) => Timed(X)
          BY <3>2, <3>4, <3>7, <4>2, <5>1
        <5>3. k = 1
          BY <1>3, <5>1, <5>2
        <5>4. PICK i \in DOMAIN M.prep : Ready(M.prep[i])
          BY <4>2 DEF HasReady
        <5>5. i + 1 \in DOMAIN L.prep /\ M.prep[i] = L.prep[i + 1] /\ i + 1 > 1
          BY <1>1, <1>2, <4>1, <5>4, TailIs
        <5> QED
          BY <3>5, <5>2, <5>3, <5>4, <5>5
      <4> QED
        BY <2>2, <3>2, <3>4, <3>5, <3>7, <4>1, <4>2 DEF TurnStep
    <3> QED
      BY <3>6, <3>7
  <2> QED
    BY <2>1, <2>2
<1>10. v.over <=> \/ Ready(e) \/ M.prep = <<>> \/ M.fault # None
                  \/ /\ ~e.aborted /\ e.resume /\ Head(M.prep).resume
                     /\ Head(M.prep).r \in {v.one, v.two}
  BY <1>6, <1>7
<1>11. v.over \in BOOLEAN
  BY <1>6
<1> QED
  BY <1>3, <1>6, <1>9, <1>10, <1>11

\* What the traversal keeps: done events, a timeout, the event on air, and, while the
\* model goes on, what is owed to each role and the order of the resumes.
On(L, r) == IF L.curr.r = r THEN 1 ELSE 0
From(L, M) ==
  /\ M.done = L.done /\ M.runs = L.runs /\ TimedKept(L, M)
  /\ L.curr.active => M.curr = L.curr
  /\ Fine(M) => /\ Fine(L) /\ (OneResume(L.prep) => OneResume(M.prep))
                /\ \A r \in Roles : Held(M.prep, r) + On(M, r) = Held(L.prep, r) + On(L, r)

LEMMA FromTransitive ==
  ASSUME NEW L, NEW M, NEW N, From(L, M), From(M, N)
  PROVE  From(L, N)
  BY DEF From, TimedKept, HeadKept

LEMMA TurnKeeps ==
  ASSUME RolesAssumption, NEW w, GoodWalk(w)
  PROVE  GoodWalk(Turn(w)) /\ From(w.lll, Turn(w).lll)
<1>1. CASE w.over
  <2>1. Turn(w) = w
    BY <1>1 DEF Turn
  <2> QED
    BY <2>1 DEF From, TimedKept, HeadKept
<1>2. CASE ~w.over
  <2> DEFINE L == w.lll
             e == Head(L.prep)
             v == Turn(w)
             M == v.lll
  <2>1. /\ Good(M) /\ M.done = L.done /\ M.runs = L.runs /\ TimedKept(L, M)
        /\ e \in Element /\ TurnStep(L, M, e)
        /\ v.over \in BOOLEAN
        /\ Ready(e) \/ M.prep = <<>> \/ M.fault # None => v.over
    BY <1>2, TurnParts
  <2>2. Good(L) /\ Fine(L) /\ L.prep # <<>> /\ L.prep \in Seq(Element)
    BY <1>2, PrepParts DEF GoodWalk, Good
  <2>3. ~L.curr.active => L.curr.r = None
    BY <2>2 DEF Good, NoEvent
  <2>4. L.curr.active => M.curr = L.curr
    BY <2>1 DEF TurnStep
  <2>5. \A r \in Roles : /\ Held(L.prep, r) = Held(Tail(L.prep), r) + (IF e \in Of(r) THEN 1 ELSE 0)
                         /\ Held(Tail(L.prep), r) \in Nat
                         /\ Held(Tail(Append(L.prep, e)), r) = Held(L.prep, r)
    BY <2>2, HeldTail, HeldRotate
  <2>6. ASSUME Fine(M)
        PROVE  /\ OneResume(L.prep) => OneResume(M.prep)
               /\ \A r \in Roles : Held(M.prep, r) + On(M, r) = Held(L.prep, r) + On(L, r)
    <3>1. CASE e.aborted /\ M.prep = Tail(L.prep) /\ M.curr = L.curr
      <4>1. OneResume(L.prep) => OneResume(M.prep)
        BY <2>2, <3>1, OneResumeTail
      <4>2. \A r \in Roles : e \notin Of(r)
        BY <3>1 DEF Of
      <4> HIDE DEF L, M, e
      <4>3. \A r \in Roles : Held(M.prep, r) = Held(L.prep, r) /\ On(M, r) = On(L, r)
        BY <2>5, <3>1, <4>2 DEF On
      <4> QED
        BY <4>1, <4>3
    <3>2. CASE ~e.aborted /\ M.curr = L.curr /\ M.prep = Tail(Append(L.prep, e))
      <4>1. OneResume(L.prep) => OneResume(M.prep)
        BY <2>2, <3>2, OneResumeRotate
      <4> HIDE DEF L, M, e
      <4>2. \A r \in Roles : Held(M.prep, r) = Held(L.prep, r) /\ On(M, r) = On(L, r)
        BY <2>5, <3>2 DEF On
      <4> QED
        BY <4>1, <4>2
    <3>3. CASE /\ ~e.aborted /\ ~L.curr.active
               /\ M.curr = Begun(e.r) /\ M.prep = Tail(L.prep)
      <4>1. OneResume(L.prep) => OneResume(M.prep)
        BY <2>2, <3>3, OneResumeTail
      <4>2. \A r \in Roles : e \in Of(r) <=> e.r = r
        BY <2>1, <3>3 DEF Of
      <4>3. L.curr.r = None /\ M.curr.r = e.r
        BY <2>3, <3>3 DEF Begun
      <4> HIDE DEF L, M, e
      <4>4. \A r \in Roles : On(L, r) = 0 /\ On(M, r) = (IF e \in Of(r) THEN 1 ELSE 0)
        BY <4>2, <4>3 DEF On, RolesAssumption
      <4>5. \A r \in Roles : Held(M.prep, r) + On(M, r) = Held(L.prep, r) + On(L, r)
        BY <2>5, <3>3, <4>4
      <4> QED
        BY <4>1, <4>5
    <3> HIDE DEF L, M, e
    <3> QED
      BY <2>1, <2>6, <3>1, <3>2, <3>3 DEF TurnStep
  <2>7. ASSUME ~v.over PROVE Fine(M) /\ M.prep # <<>>
    <3>1. ~Ready(e) /\ M.prep # <<>> /\ M.fault = None
      BY <2>1, <2>7
    <3>2. e.aborted \/ e.resume
      BY <3>1 DEF Ready
    <3>3. ~M.self
      <4> HIDE DEF L, M, e
      <4> QED
        BY <2>1, <3>2 DEF TurnStep, Fine
    <3> QED
      BY <3>1, <3>3 DEF Fine
  <2> HIDE DEF L, M, v
  <2>8. GoodWalk(v)
    BY <2>1, <2>7 DEF GoodWalk, M
  <2>9. From(L, M)
    BY <2>1, <2>2, <2>4, <2>6 DEF From
  <2> QED
    BY <2>8, <2>9 DEF L, M, v
<1> QED
  BY <1>1, <1>2

-----------------------------------------------------------------------------
(***************************************************************************)
(* The traversal reaches what waits: the radio is not left idle while a    *)
(* prepare or a resume waits, and a prepare that waits gets a timeout.     *)
(***************************************************************************)
Want(L) ==
  /\ ~L.curr.active => AllAborted(L)
  /\ L.curr.active /\ HasReady(L) => Timed(L)

\* In n turns the traversal comes to the first ready prepare, no earlier element of
\* which is a resume that ends it, or, if there is none, to a resume to start.
Reaches(w, n) ==
  LET p == w.lll.prep
  IN IF w.over THEN w.lll.fault # None \/ Want(w.lll)
     ELSE /\ OneResume(p)
          /\ \/ \E k \in DOMAIN p :
                  /\ Ready(p[k]) /\ k <= n
                  /\ \A i \in DOMAIN p :
                       i < k => ~Ready(p[i]) /\ (p[i].resume => p[i].r \notin {w.one, w.two})
             \/ ~HasReady(w.lll) /\ (w.lll.curr.active \/ Len(p) <= n)

LEMMA TurnReaches ==
  ASSUME RolesAssumption, NEW w, GoodWalk(w), NEW n \in Int, Reaches(w, n)
  PROVE  Reaches(Turn(w), n - 1)
<1>1. CASE w.over
  <2>1. Turn(w) = w
    BY <1>1 DEF Turn
  <2> QED
    BY <1>1, <2>1 DEF Reaches
<1>2. CASE ~w.over
  <2> DEFINE L == w.lll
             p == L.prep
             e == Head(p)
             v == Turn(w)
             M == v.lll
             q == M.prep
  <2> SUFFICES Reaches(v, n - 1)
    OBVIOUS
  <2>1. /\ Good(M) /\ e \in Element /\ TurnStep(L, M, e)
        /\ v.one \in {e.r, w.one} /\ v.two \in {e.r, w.two}
        /\ (v.one = w.one /\ v.two = w.two) \/ ~e.aborted
        /\ v.over <=> \/ Ready(e) \/ M.prep = <<>> \/ M.fault # None
                      \/ /\ ~e.aborted /\ e.resume /\ Head(M.prep).resume
                         /\ Head(M.prep).r \in {v.one, v.two}
    BY <1>2, TurnParts
  <2>2. GoodWalk(v) /\ From(L, M)
    BY TurnKeeps
  <2>3. /\ p # <<>> /\ p \in Seq(Element) /\ Len(p) \in Nat /\ Len(p) >= 1
        /\ DOMAIN p = 1 .. Len(p) /\ e = p[1] /\ OneResume(p)
        /\ \A i \in DOMAIN p : p[i] \in Element
    BY <1>2, PrepParts, TailIs DEF GoodWalk, Good, Reaches
  <2>4. /\ DOMAIN Tail(p) = 1 .. Len(p) - 1 /\ Len(Tail(p)) = Len(p) - 1
        /\ \A i \in 1 .. Len(p) - 1 : Tail(p)[i] = p[i + 1]
    BY <2>3, TailIs
  <2>5. /\ DOMAIN Tail(Append(p, e)) = 1 .. Len(p) /\ Tail(Append(p, e))[Len(p)] = e
        /\ \A i \in 1 .. Len(p) : i < Len(p) => Tail(Append(p, e))[i] = p[i + 1]
    BY <2>1, <2>3, RotateIs
  <2>6. ~v.over => OneResume(q)
    BY <2>2, <2>3 DEF GoodWalk, From
  <2>7. q \in Seq(Element) /\ (q # <<>> => Head(q) = q[1])
    BY <2>1, PrepParts DEF Good
  <2>8. CASE \E k \in DOMAIN p :
               /\ Ready(p[k]) /\ k <= n
               /\ \A i \in DOMAIN p :
                    i < k => ~Ready(p[i]) /\ (p[i].resume => p[i].r \notin {w.one, w.two})
    <3>1. PICK k \in DOMAIN p :
               /\ Ready(p[k]) /\ k <= n
               /\ \A i \in DOMAIN p :
                    i < k => ~Ready(p[i]) /\ (p[i].resume => p[i].r \notin {w.one, w.two})
      BY <2>8
    <3>2. CASE k = 1
      <4> HIDE DEF L, p, e, v, q
      <4>1. Ready(e) /\ v.over /\ ~e.aborted /\ ~e.resume
        BY <2>1, <2>3, <3>1, <3>2 DEF Ready
      <4>2. M.fault # None \/ Want(M)
        BY <2>1, <4>1 DEF TurnStep, Want, Begun
      <4> QED
        BY <4>1, <4>2 DEF Reaches
    <3>3. CASE k # 1
      <4>1. k \in Nat /\ 1 < k /\ 1 \in DOMAIN p /\ 2 \in DOMAIN p /\ Len(p) >= 2 /\ k - 1 \in Nat
            /\ k <= Len(p)
        BY <2>3, <3>1, <3>3
      <4>2. ~Ready(e) /\ HasReady(L)
        BY <2>3, <3>1, <4>1 DEF HasReady
      <4>3. CASE e.aborted
        <5>1. q = Tail(p) /\ Fine(M) /\ v.one = w.one /\ v.two = w.two
          BY <2>1, <4>3 DEF TurnStep
        <5>2. q # <<>>
          BY <2>4, <4>1, <5>1, EmptySeq
        <5>3. ~v.over
          BY <2>1, <4>2, <4>3, <5>1, <5>2 DEF Fine
        <5>4. k - 1 \in DOMAIN q /\ q[k - 1] = p[k] /\ k - 1 <= n - 1
          <6>1. k - 1 \in 1 .. Len(p) - 1 /\ (k - 1) + 1 = k /\ k - 1 <= n - 1
            BY <2>3, <3>1, <4>1
          <6>2. Tail(p)[k - 1] = p[(k - 1) + 1]
            BY <2>4, <6>1
          <6> QED
            BY <2>4, <5>1, <6>1, <6>2
        <5>5. ASSUME NEW i \in DOMAIN q, i < k - 1
              PROVE  ~Ready(q[i]) /\ (q[i].resume => q[i].r \notin {v.one, v.two})
          <6>1. i + 1 \in DOMAIN p /\ i + 1 < k /\ q[i] = p[i + 1]
            BY <2>3, <2>4, <4>1, <5>1, <5>5
          <6> QED
            BY <3>1, <5>1, <6>1
        <5> DEFINE m == k - 1
        <5>6. m \in DOMAIN q /\ Ready(q[m]) /\ m <= n - 1
          BY <3>1, <5>4
        <5> HIDE DEF v, q
        <5> QED
          BY <2>6, <5>3, <5>5, <5>6 DEF Reaches, q
      <4>4. CASE ~e.aborted
        <5>1. e.resume
          BY <4>2, <4>4 DEF Ready
        <5>2. CASE M.fault # None
          BY <2>1, <5>2 DEF Reaches
        <5>3. CASE M.fault = None
          <6>1. q = Tail(Append(p, e))
            BY <2>1, <4>2, <4>4, <5>1, <5>3 DEF TurnStep, Fine
          <6>2. q # <<>> /\ Head(q) = p[2]
            <7>1. q # <<>>
              BY <2>1, <2>3, <6>1, RotateIs
            <7>2. q[1] = p[2]
              BY <2>5, <4>1, <6>1
            <7> QED
              BY <2>7, <7>1, <7>2
          <6>3. ASSUME NEW i \in DOMAIN p, 1 < i, i < k, p[i].resume
                PROVE  p[i].r \notin {v.one, v.two}
            <7>1. p[i].r \notin {w.one, w.two}
              BY <3>1, <6>3
            <7>2. p[i].r # e.r
              BY <2>3, <4>1, <4>4, <5>1, <6>3 DEF OneResume
            <7> QED
              BY <2>1, <7>1, <7>2
          <6>4. ~v.over
            <7>1. Head(q).resume => Head(q).r \notin {v.one, v.two}
              <8>1. CASE k = 2
                <9>1. ~p[2].resume
                  BY <3>1, <8>1 DEF Ready
                <9> HIDE DEF v, q
                <9> QED
                  BY <6>2, <9>1
              <8>2. CASE k # 2
                <9>1. 2 \in DOMAIN p /\ 1 < 2 /\ 2 < k
                  BY <4>1, <8>2
                <9>2. p[2].resume => p[2].r \notin {v.one, v.two}
                  BY <6>3, <9>1
                <9> HIDE DEF v, q
                <9> QED
                  BY <6>2, <9>2
              <8> QED
                BY <8>1, <8>2
            <7> QED
              BY <2>1, <4>2, <5>3, <6>2, <7>1
          <6>5. k - 1 \in DOMAIN q /\ q[k - 1] = p[k] /\ k - 1 <= n - 1
            <7>1. k - 1 \in 1 .. Len(p) /\ k - 1 < Len(p) /\ k - 1 + 1 = k /\ k - 1 <= n - 1
              BY <2>3, <3>1, <4>1
            <7> QED
              BY <2>5, <6>1, <7>1
          <6>6. ASSUME NEW i \in DOMAIN q, i < k - 1
                PROVE  ~Ready(q[i]) /\ (q[i].resume => q[i].r \notin {v.one, v.two})
            <7> DEFINE j == i + 1
            <7>1. j \in DOMAIN p /\ j < k /\ 1 < j /\ q[i] = p[j]
              BY <2>3, <2>5, <4>1, <6>1, <6>6
            <7> HIDE DEF j
            <7> QED
              BY <3>1, <6>3, <7>1
          <6> DEFINE m == k - 1
          <6>7. m \in DOMAIN q /\ Ready(q[m]) /\ m <= n - 1
            BY <3>1, <6>5
          <6> HIDE DEF v, q
          <6> QED
            BY <2>6, <6>4, <6>6, <6>7 DEF Reaches, q
        <5> QED
          BY <5>2, <5>3
      <4> QED
        BY <4>3, <4>4
    <3> QED
      BY <3>2, <3>3
  <2>9. CASE ~HasReady(L) /\ (L.curr.active \/ Len(p) <= n)
    <3>1. ~Ready(e) /\ \A i \in DOMAIN p : ~Ready(p[i])
      BY <2>3, <2>9 DEF HasReady
    <3>2. q = Tail(p) \/ q = Tail(Append(p, e)) => ~HasReady(M)
      <4>1. \A i \in DOMAIN Tail(p) : ~Ready(Tail(p)[i])
        BY <2>3, <2>4, <3>1
      <4>2. \A i \in DOMAIN Tail(Append(p, e)) : ~Ready(Tail(Append(p, e))[i])
        BY <2>3, <2>5, <3>1
      <4> QED
        BY <4>1, <4>2 DEF HasReady
    <3>3. CASE M.fault # None
      BY <2>1, <3>3 DEF Reaches
    <3>4. CASE M.fault = None
      <4>1. CASE e.aborted
        <5>1. q = Tail(p) /\ Fine(M) /\ M.curr = L.curr
          BY <2>1, <4>1 DEF TurnStep
        <5>2. ~HasReady(M)
          BY <3>2, <5>1
        <5>3. CASE q = <<>>
          <6>1. AllAborted(M)
            BY <5>3 DEF AllAborted
          <6>2. Want(M) /\ v.over
            BY <2>1, <5>2, <5>3, <6>1 DEF Want
          <6> QED
            BY <6>2 DEF Reaches
        <5>4. CASE q # <<>>
          <6>1. ~v.over
            BY <2>1, <3>1, <3>4, <4>1, <5>4
          <6>2. M.curr.active \/ Len(q) <= n - 1
            BY <2>3, <2>4, <2>9, <5>1
          <6> HIDE DEF v, q
          <6> QED
            BY <2>6, <5>2, <6>1, <6>2 DEF Reaches, q
        <5> QED
          BY <5>3, <5>4
      <4>2. CASE ~e.aborted
        <5>1. e.resume
          BY <3>1, <4>2 DEF Ready
        <5>2. M.curr.active /\ (q = Tail(p) \/ q = Tail(Append(p, e)))
          <6>1. CASE L.curr.active
            <7>1. M.curr = L.curr /\ ~M.self /\ (Fine(M) => q = Tail(Append(p, e)))
              BY <2>1, <4>2, <5>1, <6>1 DEF TurnStep
            <7> QED
              BY <3>4, <6>1, <7>1 DEF Fine
          <6>2. CASE ~L.curr.active
            <7>1. M.curr = Begun(e.r) /\ q = Tail(p)
              BY <2>1, <2>9, <4>2, <6>2 DEF TurnStep
            <7> QED
              BY <7>1 DEF Begun
          <6> QED
            BY <6>1, <6>2
        <5>3. ~HasReady(M)
          BY <3>2, <5>2
        <5>4. Want(M)
          BY <5>2, <5>3 DEF Want
        <5> HIDE DEF v, q
        <5> QED
          BY <2>6, <5>2, <5>3, <5>4 DEF Reaches, q
      <4> QED
        BY <4>1, <4>2
    <3> QED
      BY <3>3, <3>4
  <2> QED
    BY <1>2, <2>8, <2>9 DEF Reaches
<1> QED
  BY <1>1, <1>2

-----------------------------------------------------------------------------
(***************************************************************************)
(* The loops of ull_prepare_dequeue and lll_disable, as so many turns.     *)
(***************************************************************************)
Turns2(w) == Turn(Turn(w))
Turns4(w) == Turns2(Turns2(w))
Turns8(w) == Turns4(Turns4(w))

\* The loop of ull_prepare_dequeue, by the number of its turns.
Turns(t, w, n) == t = [i \in 0 .. n |-> IF i = 0 THEN w ELSE Turn(t[i - 1])]

\* Such a function exists: one more turn extends it.
LEMMA TurnsExist ==
  ASSUME NEW w
  PROVE  \E t : Turns(t, w, 16)
<1>1. \E t : Turns(t, w, 0)
  <2>1. [i \in 0 .. 0 |-> w] = [i \in 0 .. 0 |-> IF i = 0 THEN w ELSE Turn([j \in 0 .. 0 |-> w][i - 1])]
    OBVIOUS
  <2> QED
    BY <2>1 DEF Turns
<1>2. ASSUME NEW n \in Nat, \E t : Turns(t, w, n) PROVE \E t : Turns(t, w, n + 1)
  <2>1. PICK t : t = [i \in 0 .. n |-> IF i = 0 THEN w ELSE Turn(t[i - 1])]
    BY <1>2 DEF Turns
  <2> DEFINE u == [i \in 0 .. n + 1 |-> IF i = n + 1 THEN Turn(t[n]) ELSE t[i]]
  <2>2. ASSUME NEW i \in 0 .. n + 1 PROVE u[i] = IF i = 0 THEN w ELSE Turn(u[i - 1])
    <3>1. CASE i = n + 1
      <4>1. i - 1 = n /\ n \in 0 .. n + 1 /\ n # n + 1 /\ i # 0
        BY <3>1
      <4>2. u[n] = t[n]
        BY <4>1
      <4>3. u[i - 1] = t[n] /\ u[i] = Turn(t[n])
        BY <4>1, <4>2, <3>1
      <4> QED
        BY <4>1, <4>3
    <3>2. CASE i = 0
      <4>1. u[i] = t[i] /\ i \in 0 .. n
        BY <3>2
      <4>2. t[0] = w
        BY <2>1, <4>1, <3>2
      <4> QED
        BY <3>2, <4>1, <4>2
    <3>3. CASE i \in 1 .. n
      <4>1. i \in 0 .. n /\ i # 0 /\ i - 1 \in 0 .. n + 1 /\ i # n + 1 /\ i - 1 # n + 1
        BY <3>3
      <4>2. u[i] = t[i] /\ u[i - 1] = t[i - 1]
        BY <4>1
      <4>3. t[i] = Turn(t[i - 1])
        BY <2>1, <4>1
      <4> QED
        BY <4>1, <4>2, <4>3
    <3> QED
      BY <3>1, <3>2, <3>3
  <2>3. u = [i \in 0 .. n + 1 |-> u[i]]
    OBVIOUS
  <2> HIDE DEF u
  <2>4. u = [i \in 0 .. n + 1 |-> IF i = 0 THEN w ELSE Turn(u[i - 1])]
    BY <2>2, <2>3
  <2> QED
    BY <2>4 DEF Turns
<1> DEFINE E(n) == \E t : Turns(t, w, n)
<1>3. E(0) /\ \A n \in Nat : E(n) => E(n + 1)
  BY <1>1, <1>2
<1> HIDE DEF E
<1>4. E(4)
  <2>1. 0 + 1 = 1 /\ 1 + 1 = 2 /\ 2 + 1 = 3 /\ 3 + 1 = 4 /\ {0, 1, 2, 3} \in SUBSET Nat
    OBVIOUS
  <2> QED
    BY <1>3, <2>1
<1>5. E(8)
  BY <1>3, <1>4
<1>6. E(12)
  BY <1>3, <1>5
<1>7. E(16)
  BY <1>3, <1>6
<1> QED
  BY <1>7 DEF E

\* Sixteen turns.
LEMMA DequeueIs ==
  ASSUME NEW L
  PROVE  Dequeue(L) = Turns8(Turns8(Walk(L, None, None, FALSE))).lll
<1> DEFINE w == Walk(L, None, None, FALSE)
           t == CHOOSE t : Turns(t, w, 16)
<1>1. 2 * Slots = 16
  BY DEF Slots, PipelineMax
<1>2. Dequeue(L) = t[16].lll
  BY <1>1 DEF Dequeue, Turns
<1>3. Turns(t, w, 16)
  BY TurnsExist
<1> HIDE DEF t, w
<1>4. t[0] = w /\ \A i \in 1 .. 16 : t[i] = Turn(t[i - 1])
  <2>1. ASSUME NEW i \in 0 .. 16 PROVE t[i] = IF i = 0 THEN w ELSE Turn(t[i - 1])
    BY <1>3 DEF Turns
  <2>2. 0 \in 0 .. 16 /\ \A i \in 1 .. 16 : i \in 0 .. 16 /\ i # 0
    OBVIOUS
  <2> QED
    BY <2>1, <2>2
<1>5. \A i \in 0 .. 14 : t[i + 2] = Turns2(t[i])
  <2>1. ASSUME NEW i \in 0 .. 14 PROVE t[i + 2] = Turn(Turn(t[i]))
    <3>1. i + 1 \in 1 .. 16 /\ i + 2 \in 1 .. 16 /\ i + 1 - 1 = i /\ i + 2 - 1 = i + 1
      OBVIOUS
    <3>2. t[i + 1] = Turn(t[i])
      BY <1>4, <3>1
    <3> QED
      BY <1>4, <3>1, <3>2
  <2> QED
    BY <2>1 DEF Turns2
<1>6. t[4] = Turns4(t[0]) /\ t[8] = Turns4(t[4]) /\ t[12] = Turns4(t[8]) /\ t[16] = Turns4(t[12])
  <2>1. /\ t[2] = Turns2(t[0]) /\ t[4] = Turns2(t[2]) /\ t[6] = Turns2(t[4]) /\ t[8] = Turns2(t[6])
        /\ t[10] = Turns2(t[8]) /\ t[12] = Turns2(t[10]) /\ t[14] = Turns2(t[12])
        /\ t[16] = Turns2(t[14])
    <3>1. /\ \A i \in {0, 2, 4, 6, 8, 10, 12, 14} : i \in 0 .. 14
          /\ 0 + 2 = 2 /\ 2 + 2 = 4 /\ 4 + 2 = 6 /\ 6 + 2 = 8
          /\ 8 + 2 = 10 /\ 10 + 2 = 12 /\ 12 + 2 = 14 /\ 14 + 2 = 16
      OBVIOUS
    <3> QED
      BY <1>5, <3>1
  <2> QED
    BY <2>1 DEF Turns4
<1> QED
  BY <1>2, <1>4, <1>6 DEF Turns8, w
Cancel2(L, r) == CancelFirst(CancelFirst(L, r), r)
Cancel4(L, r) == Cancel2(Cancel2(L, r), r)

\* The loop of lll_disable, likewise.
Cancels(t, w, r, n) == t = [i \in 0 .. n |-> IF i = 0 THEN w ELSE CancelFirst(t[i - 1], r)]

LEMMA CancelsExist ==
  ASSUME NEW w, NEW r
  PROVE  \E t : Cancels(t, w, r, 8)
<1>1. \E t : Cancels(t, w, r, 0)
  <2>1. [i \in 0 .. 0 |-> w] = [i \in 0 .. 0 |-> IF i = 0 THEN w ELSE CancelFirst([j \in 0 .. 0 |-> w][i - 1], r)]
    OBVIOUS
  <2> QED
    BY <2>1 DEF Cancels
<1>2. ASSUME NEW n \in Nat, \E t : Cancels(t, w, r, n) PROVE \E t : Cancels(t, w, r, n + 1)
  <2>1. PICK t : t = [i \in 0 .. n |-> IF i = 0 THEN w ELSE CancelFirst(t[i - 1], r)]
    BY <1>2 DEF Cancels
  <2> DEFINE u == [i \in 0 .. n + 1 |-> IF i = n + 1 THEN CancelFirst(t[n], r) ELSE t[i]]
  <2>2. ASSUME NEW i \in 0 .. n + 1 PROVE u[i] = IF i = 0 THEN w ELSE CancelFirst(u[i - 1], r)
    <3>1. CASE i = n + 1
      <4>1. i - 1 = n /\ n \in 0 .. n + 1 /\ n # n + 1 /\ i # 0
        BY <3>1
      <4>2. u[n] = t[n]
        BY <4>1
      <4>3. u[i - 1] = t[n] /\ u[i] = CancelFirst(t[n], r)
        BY <4>1, <4>2, <3>1
      <4> QED
        BY <4>1, <4>3
    <3>2. CASE i = 0
      <4>1. u[i] = t[i] /\ i \in 0 .. n
        BY <3>2
      <4>2. t[0] = w
        BY <2>1, <4>1, <3>2
      <4> QED
        BY <3>2, <4>1, <4>2
    <3>3. CASE i \in 1 .. n
      <4>1. i \in 0 .. n /\ i # 0 /\ i - 1 \in 0 .. n + 1 /\ i # n + 1 /\ i - 1 # n + 1
        BY <3>3
      <4>2. u[i] = t[i] /\ u[i - 1] = t[i - 1]
        BY <4>1
      <4>3. t[i] = CancelFirst(t[i - 1], r)
        BY <2>1, <4>1
      <4> QED
        BY <4>1, <4>2, <4>3
    <3> QED
      BY <3>1, <3>2, <3>3
  <2>3. u = [i \in 0 .. n + 1 |-> u[i]]
    OBVIOUS
  <2> HIDE DEF u
  <2>4. u = [i \in 0 .. n + 1 |-> IF i = 0 THEN w ELSE CancelFirst(u[i - 1], r)]
    BY <2>2, <2>3
  <2> QED
    BY <2>4 DEF Cancels
<1> DEFINE E(n) == \E t : Cancels(t, w, r, n)
<1>3. E(0) /\ \A n \in Nat : E(n) => E(n + 1)
  BY <1>1, <1>2
<1> HIDE DEF E
<1>4. E(4)
  <2>1. 0 + 1 = 1 /\ 1 + 1 = 2 /\ 2 + 1 = 3 /\ 3 + 1 = 4 /\ {0, 1, 2, 3} \in SUBSET Nat
    OBVIOUS
  <2> QED
    BY <1>3, <2>1
<1>5. E(8)
  BY <1>3, <1>4
<1> QED
  BY <1>5 DEF E

\* Eight prepares, one after the other.
LEMMA CancelAllIs ==
  ASSUME NEW L, NEW r
  PROVE  CancelAll(L, r) = Cancel4(Cancel4(L, r), r)
<1> DEFINE t == CHOOSE t : Cancels(t, L, r, 8)
<1>1. Slots = 8
  BY DEF Slots, PipelineMax
<1>2. CancelAll(L, r) = t[8]
  BY <1>1 DEF CancelAll, Cancels
<1>3. Cancels(t, L, r, 8)
  BY CancelsExist
<1> HIDE DEF t
<1>4. t[0] = L /\ \A i \in 1 .. 8 : t[i] = CancelFirst(t[i - 1], r)
  <2>1. ASSUME NEW i \in 0 .. 8 PROVE t[i] = IF i = 0 THEN L ELSE CancelFirst(t[i - 1], r)
    BY <1>3 DEF Cancels
  <2>2. 0 \in 0 .. 8 /\ \A i \in 1 .. 8 : i \in 0 .. 8 /\ i # 0
    OBVIOUS
  <2> QED
    BY <2>1, <2>2
<1>5. \A i \in 0 .. 6 : t[i + 2] = Cancel2(t[i], r)
  <2>1. ASSUME NEW i \in 0 .. 6 PROVE t[i + 2] = CancelFirst(CancelFirst(t[i], r), r)
    <3>1. i + 1 \in 1 .. 8 /\ i + 2 \in 1 .. 8 /\ i + 1 - 1 = i /\ i + 2 - 1 = i + 1
      OBVIOUS
    <3>2. t[i + 1] = CancelFirst(t[i], r)
      BY <1>4, <3>1
    <3> QED
      BY <1>4, <3>1, <3>2
  <2> QED
    BY <2>1 DEF Cancel2
<1>6. t[4] = Cancel4(t[0], r) /\ t[8] = Cancel4(t[4], r)
  <2>1. /\ t[2] = Cancel2(t[0], r) /\ t[4] = Cancel2(t[2], r)
        /\ t[6] = Cancel2(t[4], r) /\ t[8] = Cancel2(t[6], r)
    <3>1. /\ \A i \in {0, 2, 4, 6} : i \in 0 .. 6
          /\ 0 + 2 = 2 /\ 2 + 2 = 4 /\ 4 + 2 = 6 /\ 6 + 2 = 8
      OBVIOUS
    <3> QED
      BY <1>5, <3>1
  <2> QED
    BY <2>1 DEF Cancel4
<1> QED
  BY <1>2, <1>4, <1>6

\* The turns one after the other.
LEMMA Turns2Keep ==
  ASSUME RolesAssumption, NEW w, GoodWalk(w)
  PROVE  /\ GoodWalk(Turns2(w)) /\ From(w.lll, Turns2(w).lll)
         /\ \A n \in Int : Reaches(w, n) => Reaches(Turns2(w), n - 2)
<1> DEFINE v == Turn(w)
<1>1. GoodWalk(v) /\ From(w.lll, v.lll) /\ \A n \in Int : Reaches(w, n) => Reaches(v, n - 1)
  BY TurnKeeps, TurnReaches
<1> HIDE DEF v
<1>2. GoodWalk(Turn(v)) /\ From(v.lll, Turn(v).lll)
      /\ \A n \in Int : Reaches(v, n) => Reaches(Turn(v), n - 1)
  BY <1>1, TurnKeeps, TurnReaches
<1>3. Turns2(w) = Turn(v)
  BY DEF Turns2, v
<1>4. ASSUME NEW n \in Int, Reaches(w, n) PROVE Reaches(Turn(v), n - 2)
  <2>1. n - 1 \in Int /\ (n - 1) - 1 = n - 2
    OBVIOUS
  <2>2. Reaches(Turn(v), (n - 1) - 1)
    BY <1>1, <1>2, <1>4, <2>1
  <2> QED
    BY <2>1, <2>2
<1>5. From(w.lll, Turn(v).lll)
  BY <1>1, <1>2, FromTransitive
<1> QED
  BY <1>2, <1>3, <1>4, <1>5

LEMMA Turns4Keep ==
  ASSUME RolesAssumption, NEW w, GoodWalk(w)
  PROVE  /\ GoodWalk(Turns4(w)) /\ From(w.lll, Turns4(w).lll)
         /\ \A n \in Int : Reaches(w, n) => Reaches(Turns4(w), n - 4)
<1> DEFINE v == Turns2(w)
<1>1. GoodWalk(v) /\ From(w.lll, v.lll) /\ \A n \in Int : Reaches(w, n) => Reaches(v, n - 2)
  BY Turns2Keep
<1> HIDE DEF v
<1>2. GoodWalk(Turns2(v)) /\ From(v.lll, Turns2(v).lll)
      /\ \A n \in Int : Reaches(v, n) => Reaches(Turns2(v), n - 2)
  BY <1>1, Turns2Keep
<1>3. Turns4(w) = Turns2(v)
  BY DEF Turns4, v
<1>4. ASSUME NEW n \in Int, Reaches(w, n) PROVE Reaches(Turns2(v), n - 4)
  <2>1. n - 2 \in Int /\ (n - 2) - 2 = n - 4
    OBVIOUS
  <2>2. Reaches(Turns2(v), (n - 2) - 2)
    BY <1>1, <1>2, <1>4, <2>1
  <2> QED
    BY <2>1, <2>2
<1>5. From(w.lll, Turns2(v).lll)
  BY <1>1, <1>2, FromTransitive
<1> QED
  BY <1>2, <1>3, <1>4, <1>5

LEMMA Turns8Keep ==
  ASSUME RolesAssumption, NEW w, GoodWalk(w)
  PROVE  /\ GoodWalk(Turns8(w)) /\ From(w.lll, Turns8(w).lll)
         /\ \A n \in Int : Reaches(w, n) => Reaches(Turns8(w), n - 8)
<1> DEFINE v == Turns4(w)
<1>1. GoodWalk(v) /\ From(w.lll, v.lll) /\ \A n \in Int : Reaches(w, n) => Reaches(v, n - 4)
  BY Turns4Keep
<1> HIDE DEF v
<1>2. GoodWalk(Turns4(v)) /\ From(v.lll, Turns4(v).lll)
      /\ \A n \in Int : Reaches(v, n) => Reaches(Turns4(v), n - 4)
  BY <1>1, Turns4Keep
<1>3. Turns8(w) = Turns4(v)
  BY DEF Turns8, v
<1>4. ASSUME NEW n \in Int, Reaches(w, n) PROVE Reaches(Turns4(v), n - 8)
  <2>1. n - 4 \in Int /\ (n - 4) - 4 = n - 8
    OBVIOUS
  <2>2. Reaches(Turns4(v), (n - 4) - 4)
    BY <1>1, <1>2, <1>4, <2>1
  <2> QED
    BY <2>1, <2>2
<1>5. From(w.lll, Turns4(v).lll)
  BY <1>1, <1>2, FromTransitive
<1> QED
  BY <1>2, <1>3, <1>4, <1>5

\* ull_prepare_dequeue keeps what is owed, and leaves nothing waiting for an idle
\* radio nor a ready prepare without a timeout: sixteen turns are enough.
LEMMA DequeueParts ==
  ASSUME RolesAssumption, NEW L, Good(L), Fine(L), NEW M, M = Dequeue(L)
  PROVE  /\ Good(M) /\ From(L, M)
         /\ OneResume(L.prep) => M.fault # None \/ Want(M)
<1> DEFINE w == Walk(L, None, None, FALSE)
           v == Turns8(w)
           x == Turns8(v)
<1>1. /\ w.lll = L /\ w.one = None /\ w.two = None /\ w.over \in BOOLEAN
      /\ w.over <=> L.prep = <<>> \/ L.fault # None
  BY DEF Walk
<1>2. GoodWalk(w)
  BY <1>1 DEF GoodWalk
<1> HIDE DEF w
<1>3. GoodWalk(v) /\ From(L, v.lll) /\ \A n \in Int : Reaches(w, n) => Reaches(v, n - 8)
  BY <1>1, <1>2, Turns8Keep
<1> HIDE DEF v
<1>4. GoodWalk(x) /\ From(v.lll, x.lll) /\ \A n \in Int : Reaches(v, n) => Reaches(x, n - 8)
  BY <1>3, Turns8Keep
<1>5. M = x.lll
  BY DequeueIs DEF x, v, w
<1> HIDE DEF x
<1>6. Good(M) /\ From(L, M)
  BY <1>3, <1>4, <1>5, FromTransitive DEF GoodWalk
<1>7. ASSUME OneResume(L.prep) PROVE M.fault # None \/ Want(M)
  <2>1. L \in LllType /\ Len(L.prep) <= PipelineMax /\ L.fault = None
    BY DEF Good, Fine
  <2>2. /\ DOMAIN L.prep = 1 .. Len(L.prep) /\ Len(L.prep) \in Nat
        /\ \A i \in DOMAIN L.prep : L.prep[i] \in Element
    BY <2>1, PrepParts
  <2>3. Reaches(w, 7)
    <3>1. CASE L.prep = <<>>
      <4>1. w.over /\ Want(L)
        BY <1>1, <3>1 DEF Want, AllAborted, HasReady
      <4> QED
        BY <1>1, <4>1 DEF Reaches
    <3>2. CASE L.prep # <<>> /\ HasReady(L)
      <4>1. PICK k \in DOMAIN L.prep :
              Ready(L.prep[k]) /\ \A j \in DOMAIN L.prep : 1 <= j /\ j < k => ~Ready(L.prep[j])
        BY <2>1, <3>2, NextReadyIs DEF HasReady
      <4>2. k <= 7 /\ k \in DOMAIN w.lll.prep
        BY <1>1, <2>1, <2>2 DEF PipelineMax
      <4>3. \A i \in DOMAIN L.prep :
              i < k => ~Ready(L.prep[i]) /\ (L.prep[i].resume => L.prep[i].r \notin {None, None})
        BY <2>2, <4>1 DEF Element, RolesAssumption
      <4> QED
        BY <1>1, <1>7, <2>1, <3>2, <4>1, <4>2, <4>3 DEF Reaches
    <3>3. CASE L.prep # <<>> /\ ~HasReady(L)
      <4>1. Len(L.prep) <= 7
        BY <2>1 DEF PipelineMax
      <4> QED
        BY <1>1, <1>7, <2>1, <3>3, <4>1 DEF Reaches
    <3> QED
      BY <3>1, <3>2, <3>3
  <2>4. Reaches(x, -9)
    <3>1. 7 \in Int /\ -1 \in Int /\ 7 - 8 = -1 /\ (-1) - 8 = -9
      OBVIOUS
    <3>2. Reaches(v, 7 - 8)
      BY <1>3, <2>3, <3>1
    <3>3. Reaches(x, (-1) - 8)
      BY <1>4, <3>1, <3>2
    <3> QED
      BY <3>1, <3>3
  <2>5. /\ DOMAIN M.prep = 1 .. Len(M.prep) /\ Len(M.prep) \in Nat
    BY <1>6, PrepParts DEF Good
  <2>6. CASE x.over
    BY <1>5, <2>4, <2>6 DEF Reaches
  <2>7. CASE ~x.over
    <3>1. \/ \E k \in DOMAIN M.prep : k <= -9
          \/ ~HasReady(M) /\ (M.curr.active \/ Len(M.prep) <= -9)
      BY <1>5, <2>4, <2>7 DEF Reaches
    <3>2. ~HasReady(M) /\ M.curr.active
      BY <2>5, <3>1
    <3> QED
      BY <3>2 DEF Want
  <2> QED
    BY <2>6, <2>7
<1> QED
  BY <1>6, <1>7

-----------------------------------------------------------------------------
(***************************************************************************)
(* lll_done, and the prepares that are cancelled.                          *)
(***************************************************************************)
Debt(L, r) == Held(L.prep, r) + On(L, r) + Count(r, L.done)

LEMMA DebtIsOwed ==
  ASSUME NEW L, L \in LllType, NEW r
  PROVE  Owed(L, r) = Debt(L, r) /\ Debt(L, r) \in Nat /\ Count(r, L.done) \in Nat
         /\ On(L, r) \in Nat
<1>1. Cardinality(Mine(L, r)) = Held(L.prep, r) /\ Held(L.prep, r) \in Nat
  BY MineHeld
<1>2. L.done \in Seq(Roles \cup {None})
  BY DEF LllType
<1>3. Count(r, L.done) \in Nat
  BY <1>2, CountHits, HitsFinite
<1>4. On(L, r) \in Nat /\ On(L, r) = IF L.curr.r = r THEN 1 ELSE 0
  BY DEF On
<1> QED
  BY <1>1, <1>3, <1>4 DEF Owed, Debt

LEMMA CountAppend ==
  ASSUME NEW s \in Seq(Roles \cup {None}), NEW x \in Roles \cup {None}, NEW r
  PROVE  Count(r, Append(s, x)) = Count(r, s) + (IF r = x THEN 1 ELSE 0)
<1>1. Cardinality(Hits(Append(s, x), {r})) = Cardinality(Hits(s, {r})) + (IF x \in {r} THEN 1 ELSE 0)
  BY HitsAppend
<1> QED
  BY <1>1, CountHits

LEMMA CountTail ==
  ASSUME NEW s \in Seq(Roles \cup {None}), s # <<>>, NEW r
  PROVE  /\ Count(r, s) = Count(r, Tail(s)) + (IF r = Head(s) THEN 1 ELSE 0)
         /\ Count(r, Tail(s)) \in Nat
<1>1. Cardinality(Hits(s, {r})) = Cardinality(Hits(Tail(s), {r})) + (IF Head(s) \in {r} THEN 1 ELSE 0)
  BY HitsTail
<1>2. Tail(s) \in Seq(Roles \cup {None})
  BY HeadTailProperties
<1>3. Cardinality(Hits(Tail(s), {r})) \in Nat
  BY <1>2, HitsFinite
<1> QED
  BY <1>1, <1>3, CountHits

\* lll_done: one more done event for the role, and the traversal of the pipeline.
LEMMA DoneParts ==
  ASSUME RolesAssumption, NEW L, Good(L), Fine(L), NEW r \in Roles \cup {None},
         NEW M, M = Done(L, r)
  PROVE  /\ Good(M) /\ M.runs = L.runs /\ TimedKept(L, M)
         /\ L.curr.active => M.curr = L.curr
         /\ OneResume(L.prep) => M.fault # None \/ Want(M)
         /\ Fine(M) =>
              /\ OneResume(L.prep) => OneResume(M.prep)
              /\ \A q \in Roles : /\ Held(M.prep, q) + On(M, q) = Held(L.prep, q) + On(L, q)
                                  /\ Debt(M, q) = Debt(L, q) + (IF q = r THEN 1 ELSE 0)
<1> DEFINE rest == Dequeue(L)
<1>1. Good(rest) /\ From(L, rest) /\ (OneResume(L.prep) => rest.fault # None \/ Want(rest))
  BY DequeueParts
<1>2. M = IF Len(rest.done) = DoneMax THEN Check(rest, FALSE, "done full")
          ELSE [rest EXCEPT !.done = Append(@, r)]
  BY DEF Done
<1> HIDE DEF rest
<1>3. rest \in LllType /\ rest.done \in Seq(Roles \cup {None}) /\ Len(rest.done) \in Nat
      /\ Len(rest.done) <= DoneMax
  BY <1>1, LenProperties DEF Good, LllType
<1>4. CASE Len(rest.done) = DoneMax
  <2>1. M.fault # None /\ Good(M) /\ M.runs = rest.runs /\ M.starts = rest.starts
        /\ M.curr = rest.curr /\ M.ops = rest.ops
    <3>1. CASE rest.fault # None
      BY <1>1, <1>2, <1>4, <3>1 DEF Check
    <3>2. CASE rest.fault = None
      <4> DEFINE name == "done full"
      <4>1. name \in Faults /\ name # None
        BY DEF Faults, None
      <4>2. M = [rest EXCEPT !.fault = name]
        BY <1>2, <1>4, <3>2 DEF Check
      <4> HIDE DEF name
      <4>3. /\ M \in LllType /\ M.fault # None
            /\ M.h = rest.h /\ M.prep = rest.prep /\ M.curr = rest.curr /\ M.starts = rest.starts
            /\ M.stops = rest.stops /\ M.runs = rest.runs /\ M.ops = rest.ops
            /\ M.done = rest.done /\ M.self = rest.self
        BY <1>3, <4>1, <4>2, FaultParts
      <4>4. Good(M)
        BY <1>1, <4>3 DEF Good, OpsShape
      <4> QED
        BY <4>3, <4>4
    <3> QED
      BY <3>1, <3>2
  <2>2. ~Fine(M)
    BY <2>1 DEF Fine
  <2> QED
    BY <1>1, <2>1, <2>2 DEF From, Timed, TimedKept, HeadKept
<1>5. CASE Len(rest.done) # DoneMax
  <2> DEFINE done == Append(rest.done, r)
  <2>1. M = [rest EXCEPT !.done = done]
    BY <1>2, <1>5
  <2>2. done \in Seq(Roles \cup {None}) /\ Len(done) = Len(rest.done) + 1
    BY <1>3, AppendProperties
  <2>3. Len(done) <= DoneMax
    BY <1>3, <1>5, <2>2, NowNat
  <2>4. \A q \in Roles : Count(q, done) = Count(q, rest.done) + (IF q = r THEN 1 ELSE 0)
    BY <1>3, CountAppend
  <2> HIDE DEF done
  <2>5. /\ M \in LllType /\ M.done = done
        /\ M.prep = rest.prep /\ M.curr = rest.curr /\ M.starts = rest.starts
        /\ M.stops = rest.stops /\ M.runs = rest.runs /\ M.ops = rest.ops
        /\ M.self = rest.self /\ M.fault = rest.fault
    BY <1>3, <2>1, <2>2 DEF LllType
  <2>6. Good(M)
    BY <1>1, <2>3, <2>5 DEF Good, OpsShape
  <2>7. (Want(rest) <=> Want(M)) /\ (Timed(rest) <=> Timed(M)) /\ (Fine(rest) <=> Fine(M))
        /\ \A q \in Roles : On(M, q) = On(rest, q)
    BY <2>5 DEF Want, Timed, Fine, AllAborted, HasReady, On
  <2>8. ASSUME Fine(M)
        PROVE  /\ OneResume(L.prep) => OneResume(M.prep)
               /\ \A q \in Roles : /\ Held(M.prep, q) + On(M, q) = Held(L.prep, q) + On(L, q)
                                   /\ Debt(M, q) = Debt(L, q) + (IF q = r THEN 1 ELSE 0)
    <3>1. /\ OneResume(L.prep) => OneResume(rest.prep)
          /\ \A q \in Roles : Held(rest.prep, q) + On(rest, q) = Held(L.prep, q) + On(L, q)
          /\ rest.done = L.done
      BY <1>1, <2>7, <2>8 DEF From
    <3> SUFFICES ASSUME NEW q \in Roles
                 PROVE  /\ Held(M.prep, q) + On(M, q) = Held(L.prep, q) + On(L, q)
                        /\ Debt(M, q) = Debt(L, q) + (IF q = r THEN 1 ELSE 0)
      BY <2>5, <3>1
    <3>2. Held(M.prep, q) + On(M, q) = Held(L.prep, q) + On(L, q)
      BY <2>5, <2>7, <3>1
    <3>3. /\ Held(M.prep, q) \in Nat /\ On(M, q) \in Nat /\ Held(L.prep, q) \in Nat
          /\ On(L, q) \in Nat /\ Count(q, L.done) \in Nat
      BY <2>6, MineHeld, DebtIsOwed DEF Good
    <3>4. Count(q, M.done) = Count(q, L.done) + (IF q = r THEN 1 ELSE 0)
      BY <2>4, <2>5, <3>1
    <3> QED
      BY <3>2, <3>3, <3>4 DEF Debt
  <2> QED
    BY <1>1, <2>5, <2>6, <2>7, <2>8 DEF From, TimedKept, HeadKept
<1> QED
  BY <1>4, <1>5

LEMMA MarkOrder ==
  ASSUME NEW L, L \in LllType, NEW i \in DOMAIN L.prep, ~L.prep[i].aborted, NEW M, M = Mark(L, i)
  PROVE  /\ OneResume(L.prep) => OneResume(M.prep)
         /\ \A q : Held(M.prep, q) = Held(L.prep, q) - (IF q = L.prep[i].r THEN 1 ELSE 0)
         /\ \A q : On(M, q) = On(L, q) /\ Count(q, M.done) = Count(q, L.done)
<1> DEFINE p == L.prep
           e == [p[i] EXCEPT !.aborted = TRUE, !.at = 0]
           m == [p EXCEPT ![i] = e]
<1>1. p \in Seq(Element) /\ DOMAIN p = 1 .. Len(p) /\ Len(p) \in Nat /\ i \in Nat
      /\ p[i] \in Element
  BY PrepParts
<1>2. e \in Element /\ e.aborted /\ e.r = p[i].r /\ e.resume = p[i].resume
  <2>1. 0 \in 0 .. Now
    BY NowNat
  <2> HIDE DEF p
  <2> QED
    BY <1>1, <2>1 DEF Element
<1> HIDE DEF e
<1>3. M = [L EXCEPT !.prep = m]
  BY DEF Mark, e
<1>4. M.prep = m /\ M.curr = L.curr /\ M.done = L.done
  BY <1>3 DEF LllType
<1>5. OneResume(p) => OneResume(m)
  <2>1. DOMAIN m = DOMAIN p /\ \A j \in DOMAIN p : m[j] = IF j = i THEN e ELSE p[j]
    OBVIOUS
  <2> HIDE DEF m, p
  <2> QED
    BY <1>2, <2>1 DEF OneResume
<1>6. ASSUME NEW q PROVE Held(m, q) = Held(p, q) - (IF q = p[i].r THEN 1 ELSE 0)
  <2>1. e \notin Of(q)
    BY <1>2 DEF Of
  <2>2. CASE q = p[i].r
    <3>1. p[i] \in Of(q)
      BY <1>1, <2>2 DEF Of
    <3>2. Cardinality(Hits(m, Of(q))) = Cardinality(Hits(p, Of(q))) - 1
      BY <1>1, <1>2, <2>1, <3>1, HitsExcept
    <3> QED
      BY <2>2, <3>2 DEF Held
  <2>3. CASE q # p[i].r
    <3>1. p[i] \notin Of(q)
      BY <2>3 DEF Of
    <3>2. Hits(m, Of(q)) = Hits(p, Of(q))
      BY <2>1, <3>1 DEF Hits
    <3>3. Cardinality(Hits(p, Of(q))) \in Nat
      BY <1>1, HitsFinite
    <3> QED
      BY <2>3, <3>2, <3>3 DEF Held
  <2> QED
    BY <2>2, <2>3
<1> HIDE DEF m
<1> QED
  BY <1>4, <1>5, <1>6 DEF On

LEMMA MarkGood ==
  ASSUME NEW L, Good(L), NEW i \in Nat, NEW M, M = Mark(L, i)
  PROVE  Good(M) /\ (Fine(M) <=> Fine(L)) /\ M.runs = L.runs /\ M.curr = L.curr
         /\ (Timed(M) <=> Timed(L)) /\ M.done = L.done
<1>1. /\ M \in LllType /\ Len(M.prep) = Len(L.prep) /\ SameRest(L, M) /\ M.fault = L.fault
  BY MarkParts DEF Good
<1>2. Good(M)
  BY <1>1, GoodRest DEF Good
<1> QED
  BY <1>1, <1>2 DEF SameRest, Fine, Timed

\* A prepare that is cancelled: its role is owed a done event for it.
LEMMA CancelParts ==
  ASSUME RolesAssumption, NEW L, Good(L), Fine(L), NEW i \in DOMAIN L.prep, ~L.prep[i].aborted,
         NEW slot, slot = SlotOf(L, i), NEW M, M = Cancel(L, slot)
  PROVE  /\ Good(M) /\ M.runs = L.runs /\ (Timed(L) => Timed(M))
         /\ L.curr.active => M.curr = L.curr
         /\ OneResume(L.prep) => M.fault # None \/ Want(M)
         /\ Fine(M) =>
              /\ OneResume(L.prep) => OneResume(M.prep)
              /\ \A q \in Roles : /\ Debt(M, q) = Debt(L, q)
                                  /\ L.curr.active => Held(M.prep, q) =
                                       Held(L.prep, q) - (IF q = L.prep[i].r THEN 1 ELSE 0)
<1> DEFINE r == L.prep[i].r
           N == Mark(L, i)
<1>1. /\ L \in LllType /\ L.h \in Nat /\ i \in Nat /\ 1 <= i /\ i <= PipelineMax + 1
      /\ r \in Roles
  <2>1. L \in LllType /\ Len(L.prep) <= PipelineMax /\ PipelineMax \in Nat
    BY NowNat DEF Good
  <2>2. L.h \in Nat /\ DOMAIN L.prep = 1 .. Len(L.prep) /\ Len(L.prep) \in Nat
        /\ L.prep[i] \in Element
    BY <2>1, PrepParts
  <2> QED
    BY <2>1, <2>2 DEF Element
<1>2. Position(L, slot) = i
  BY <1>1, SlotPosition
<1>3. M = Done(N, r)
  BY <1>2 DEF Cancel
<1>4. Good(N) /\ (Fine(N) <=> Fine(L)) /\ N.runs = L.runs /\ N.curr = L.curr
      /\ (Timed(N) <=> Timed(L)) /\ N.done = L.done
  BY <1>1, MarkGood
<1>5. /\ OneResume(L.prep) => OneResume(N.prep)
      /\ \A q : Held(N.prep, q) = Held(L.prep, q) - (IF q = r THEN 1 ELSE 0)
      /\ \A q : On(N, q) = On(L, q) /\ Count(q, N.done) = Count(q, L.done)
  BY <1>1, MarkOrder
<1> HIDE DEF N, r
<1>6. /\ Good(M) /\ M.runs = N.runs /\ TimedKept(N, M)
      /\ N.curr.active => M.curr = N.curr
      /\ OneResume(N.prep) => M.fault # None \/ Want(M)
      /\ Fine(M) =>
           /\ OneResume(N.prep) => OneResume(M.prep)
           /\ \A q \in Roles : /\ Held(M.prep, q) + On(M, q) = Held(N.prep, q) + On(N, q)
                               /\ Debt(M, q) = Debt(N, q) + (IF q = r THEN 1 ELSE 0)
  BY <1>1, <1>3, <1>4, DoneParts
<1>7. ASSUME Fine(M), NEW q \in Roles
      PROVE  /\ Debt(M, q) = Debt(L, q)
             /\ L.curr.active => Held(M.prep, q) = Held(L.prep, q) - (IF q = r THEN 1 ELSE 0)
  <2>1. /\ Held(L.prep, q) \in Nat /\ On(L, q) \in Nat /\ Count(q, L.done) \in Nat
        /\ Held(N.prep, q) \in Nat /\ Held(M.prep, q) \in Nat
    BY <1>1, <1>4, <1>6, MineHeld, DebtIsOwed DEF Good
  <2>2. Debt(N, q) = Debt(L, q) - (IF q = r THEN 1 ELSE 0)
    BY <1>5, <2>1 DEF Debt
  <2>3. Debt(M, q) = Debt(N, q) + (IF q = r THEN 1 ELSE 0)
    BY <1>6, <1>7
  <2>4. Debt(L, q) \in Nat
    BY <1>1, DebtIsOwed
  <2>5. Debt(M, q) = Debt(L, q)
    BY <2>2, <2>3, <2>4
  <2>6. ASSUME L.curr.active
        PROVE  Held(M.prep, q) = Held(L.prep, q) - (IF q = r THEN 1 ELSE 0)
    <3>1. Held(M.prep, q) + On(M, q) = Held(N.prep, q) + On(N, q)
      BY <1>6, <1>7
    <3>2. On(M, q) = On(N, q) /\ On(N, q) = On(L, q)
      BY <1>4, <1>5, <1>6, <2>6 DEF On
    <3> QED
      BY <1>5, <2>1, <3>1, <3>2
  <2> QED
    BY <2>5, <2>6
<1> QED
  BY <1>4, <1>5, <1>6, <1>7 DEF r, TimedKept

\* Cancelling goes on until no prepare of the role is left, the model stops or
\* nothing was done.
Cancelled(L, M) ==
  /\ Good(M) /\ M.runs = L.runs /\ (Timed(L) => Timed(M))
  /\ L.curr.active => M.curr = L.curr
  /\ OneResume(L.prep) => M = L \/ M.fault # None \/ Want(M)
  /\ Fine(M) => /\ Fine(L) /\ (OneResume(L.prep) => OneResume(M.prep))
                /\ \A q \in Roles : Debt(M, q) = Debt(L, q)
  /\ ~Fine(L) => M = L
AtMost(L, r, n) == L.curr.active /\ (Fine(L) => Mine(L, r) = {} \/ Held(L.prep, r) <= n)

LEMMA CancelFirstParts ==
  ASSUME RolesAssumption, NEW L, Good(L), NEW r \in Roles, NEW M, M = CancelFirst(L, r)
  PROVE  /\ Cancelled(L, M)
         /\ Mine(L, r) = {} => M = L
         /\ \A n \in Int : AtMost(L, r, n) => AtMost(M, r, n - 1)
<1>1. CASE Mine(L, r) = {} \/ ~Fine(L)
  <2>1. M = L
    BY <1>1 DEF CancelFirst, Fine
  <2>2. \A n \in Int : AtMost(L, r, n) => AtMost(M, r, n - 1)
    BY <1>1, <2>1 DEF AtMost
  <2> QED
    BY <2>1, <2>2 DEF Cancelled
<1>2. CASE Mine(L, r) # {} /\ Fine(L)
  <2> DEFINE i == CHOOSE j \in Mine(L, r) : \A k \in Mine(L, r) : j <= k
  <2>1. M = Cancel(L, SlotOf(L, i))
    BY <1>2 DEF CancelFirst, Fine
  <2>2. L \in LllType /\ DOMAIN L.prep = 1 .. Len(L.prep)
    BY PrepParts DEF Good
  <2>3. Mine(L, r) \in SUBSET Nat
    BY <2>2 DEF Mine
  <2>4. i \in Mine(L, r)
    <3>1. \E j \in Mine(L, r) : \A k \in Mine(L, r) : j <= k
      BY <1>2, <2>3, LeastNatural
    <3> QED
      BY <3>1
  <2> HIDE DEF i
  <2>5. i \in DOMAIN L.prep /\ ~L.prep[i].aborted /\ L.prep[i].r = r
    BY <2>4 DEF Mine
  <2>6. /\ Good(M) /\ M.runs = L.runs /\ (Timed(L) => Timed(M))
        /\ L.curr.active => M.curr = L.curr
        /\ OneResume(L.prep) => M.fault # None \/ Want(M)
        /\ Fine(M) =>
             /\ OneResume(L.prep) => OneResume(M.prep)
             /\ \A q \in Roles : /\ Debt(M, q) = Debt(L, q)
                                 /\ L.curr.active => Held(M.prep, q) =
                                      Held(L.prep, q) - (IF q = r THEN 1 ELSE 0)
    BY <1>2, <2>1, <2>5, CancelParts
  <2>7. ASSUME NEW n \in Int, AtMost(L, r, n) PROVE AtMost(M, r, n - 1)
    <3>1. L.curr.active /\ M.curr.active /\ Held(L.prep, r) <= n
      BY <1>2, <2>6, <2>7 DEF AtMost
    <3>2. Held(L.prep, r) \in Nat
      BY <2>2, MineHeld
    <3>3. Fine(M) => Held(M.prep, r) <= n - 1
      BY <2>6, <3>1, <3>2
    <3> QED
      BY <3>1, <3>3 DEF AtMost
  <2> QED
    BY <1>2, <2>6, <2>7 DEF Cancelled
<1> QED
  BY <1>1, <1>2

LEMMA CancelledTransitive ==
  ASSUME NEW L, NEW M, NEW N, Cancelled(L, M), Cancelled(M, N)
  PROVE  Cancelled(L, N)
<1>1. /\ Good(N) /\ N.runs = L.runs /\ (Timed(L) => Timed(N))
      /\ L.curr.active => N.curr = L.curr
      /\ ~Fine(L) => N = L
      /\ Fine(N) => /\ Fine(L) /\ (OneResume(L.prep) => OneResume(N.prep))
                    /\ \A q \in Roles : Debt(N, q) = Debt(L, q)
  BY DEF Cancelled
<1>2. ASSUME OneResume(L.prep) PROVE N = L \/ N.fault # None \/ Want(N)
  <2>1. CASE Fine(M)
    BY <1>2, <2>1 DEF Cancelled
  <2>2. CASE ~Fine(M)
    BY <1>2, <2>2 DEF Cancelled
  <2> QED
    BY <2>1, <2>2
<1> QED
  BY <1>1, <1>2 DEF Cancelled

LEMMA Cancel2Parts ==
  ASSUME RolesAssumption, NEW L, Good(L), NEW r \in Roles, NEW M, M = Cancel2(L, r)
  PROVE  /\ Cancelled(L, M)
         /\ Mine(L, r) = {} => M = L
         /\ \A n \in Int : AtMost(L, r, n) => AtMost(M, r, n - 2)
<1> DEFINE N == CancelFirst(L, r)
<1>1. /\ Cancelled(L, N) /\ (Mine(L, r) = {} => N = L)
      /\ \A n \in Int : AtMost(L, r, n) => AtMost(N, r, n - 1)
  BY CancelFirstParts
<1>2. M = CancelFirst(N, r)
  BY DEF Cancel2
<1> HIDE DEF N
<1>3. /\ Cancelled(N, M) /\ (Mine(N, r) = {} => M = N)
      /\ \A n \in Int : AtMost(N, r, n) => AtMost(M, r, n - 1)
  BY <1>1, <1>2, CancelFirstParts DEF Cancelled
<1>4. ASSUME NEW n \in Int, AtMost(L, r, n) PROVE AtMost(M, r, n - 2)
  <2>1. n - 1 \in Int /\ (n - 1) - 1 = n - 2
    OBVIOUS
  <2>2. AtMost(M, r, (n - 1) - 1)
    BY <1>1, <1>3, <1>4, <2>1
  <2> QED
    BY <2>1, <2>2
<1> QED
  BY <1>1, <1>3, <1>4, CancelledTransitive

LEMMA Cancel4Parts ==
  ASSUME RolesAssumption, NEW L, Good(L), NEW r \in Roles, NEW M, M = Cancel4(L, r)
  PROVE  /\ Cancelled(L, M)
         /\ Mine(L, r) = {} => M = L
         /\ \A n \in Int : AtMost(L, r, n) => AtMost(M, r, n - 4)
<1> DEFINE N == Cancel2(L, r)
<1>1. /\ Cancelled(L, N) /\ (Mine(L, r) = {} => N = L)
      /\ \A n \in Int : AtMost(L, r, n) => AtMost(N, r, n - 2)
  BY Cancel2Parts
<1>2. M = Cancel2(N, r)
  BY DEF Cancel4
<1> HIDE DEF N
<1>3. /\ Cancelled(N, M) /\ (Mine(N, r) = {} => M = N)
      /\ \A n \in Int : AtMost(N, r, n) => AtMost(M, r, n - 2)
  BY <1>1, <1>2, Cancel2Parts DEF Cancelled
<1>4. ASSUME NEW n \in Int, AtMost(L, r, n) PROVE AtMost(M, r, n - 4)
  <2>1. n - 2 \in Int /\ (n - 2) - 2 = n - 4
    OBVIOUS
  <2>2. AtMost(M, r, (n - 2) - 2)
    BY <1>1, <1>3, <1>4, <2>1
  <2> QED
    BY <2>1, <2>2
<1> QED
  BY <1>1, <1>3, <1>4, CancelledTransitive

\* Eight times are enough: while the radio is in use, none of the role's is left.
LEMMA CancelAllParts ==
  ASSUME RolesAssumption, NEW L, Good(L), NEW r \in Roles, NEW M, M = CancelAll(L, r)
  PROVE  /\ Cancelled(L, M)
         /\ Mine(L, r) = {} => M = L
         /\ L.curr.active /\ Fine(M) => Mine(M, r) = {}
<1> DEFINE N == Cancel4(L, r)
<1>1. /\ Cancelled(L, N) /\ (Mine(L, r) = {} => N = L)
      /\ \A n \in Int : AtMost(L, r, n) => AtMost(N, r, n - 4)
  BY Cancel4Parts
<1>2. M = Cancel4(N, r)
  BY CancelAllIs DEF N
<1> HIDE DEF N
<1>3. /\ Cancelled(N, M) /\ (Mine(N, r) = {} => M = N)
      /\ \A n \in Int : AtMost(N, r, n) => AtMost(M, r, n - 4)
  BY <1>1, <1>2, Cancel4Parts DEF Cancelled
<1>4. ASSUME L.curr.active, Fine(M) PROVE Mine(M, r) = {}
  <2>1. /\ 7 \in Int /\ 3 \in Int /\ 7 - 4 = 3 /\ 3 - 4 = -1
    OBVIOUS
  <2>2. AtMost(L, r, 7)
    <3>1. Held(L.prep, r) <= Len(L.prep) /\ Held(L.prep, r) \in Nat /\ Len(L.prep) <= PipelineMax
          /\ Len(L.prep) \in Nat
      BY MineHeld, PrepParts DEF Good
    <3>2. Held(L.prep, r) <= 7
      BY <3>1 DEF PipelineMax
    <3> QED
      BY <1>4, <3>2 DEF AtMost
  <2>3. AtMost(N, r, 7 - 4)
    BY <1>1, <2>1, <2>2
  <2>4. AtMost(M, r, 3 - 4)
    BY <1>3, <2>1, <2>3
  <2>5. Held(M.prep, r) \in Nat
    BY <1>3, MineHeld DEF Cancelled, Good
  <2>6. Mine(M, r) = {} \/ Held(M.prep, r) <= -1
    BY <1>4, <2>1, <2>4 DEF AtMost
  <2> QED
    BY <2>5, <2>6
<1> QED
  BY <1>1, <1>3, <1>4, CancelledTransitive

-----------------------------------------------------------------------------
(***************************************************************************)
(* An event that gives way.                                                *)
(***************************************************************************)
LEMMA AbortParts ==
  ASSUME NEW L, Good(L), L.curr.active, NEW M, M = AbortCurrent(L)
  PROVE  /\ Good(M) /\ M.curr.active /\ M.curr.ending /\ M.curr.r = L.curr.r
         /\ M.prep = L.prep /\ M.done = L.done /\ M.runs = L.runs
         /\ M.fault = L.fault /\ M.self = L.self
         /\ (Timed(M) <=> Timed(L)) /\ \A q : Debt(M, q) = Debt(L, q)
<1> DEFINE c == [L.curr EXCEPT !.ending = TRUE]
<1>1. L \in LllType /\ L.curr \in [active : BOOLEAN, r : Roles \cup {None}, ending : BOOLEAN]
  BY DEF Good, LllType
<1>2. /\ c \in [active : BOOLEAN, r : Roles \cup {None}, ending : BOOLEAN]
      /\ c.active /\ c.ending /\ c.r = L.curr.r
  BY <1>1
<1>3. M = [L EXCEPT !.curr = c]
  BY DEF AbortCurrent
<1> HIDE DEF c
<1>4. /\ M \in LllType /\ M.curr = c /\ M.prep = L.prep /\ M.done = L.done /\ M.runs = L.runs
      /\ M.fault = L.fault /\ M.self = L.self /\ M.starts = L.starts /\ M.stops = L.stops
      /\ M.ops = L.ops
  BY <1>1, <1>2, <1>3 DEF LllType
<1>5. Good(M)
  BY <1>2, <1>4 DEF Good, OpsShape
<1>6. \A q : Debt(M, q) = Debt(L, q)
  BY <1>2, <1>4 DEF Debt, On
<1> QED
  BY <1>2, <1>4, <1>5, <1>6 DEF Timed

\* The event on air goes back into the pipeline; none of its role is there.
LEMMA ResumeParts ==
  ASSUME RolesAssumption, NEW L, Good(L), L.curr.active, L.curr.r \in Roles,
         NEW M, M = ResumeEnqueue(L)
  PROVE  /\ Good(M) /\ M.curr.active /\ M.curr.r = None /\ M.runs = L.runs
         /\ Fine(M) =>
              /\ Fine(L)
              /\ OneResume(L.prep) /\ Mine(L, L.curr.r) = {} => OneResume(M.prep)
              /\ \A q \in Roles : Debt(M, q) = Debt(L, q)
<1> DEFINE c == [L.curr EXCEPT !.r = None]
           N == [L EXCEPT !.curr = c]
           e == [r |-> L.curr.r, aborted |-> FALSE, resume |-> TRUE, at |-> 0]
<1>1. L \in LllType /\ L.curr \in [active : BOOLEAN, r : Roles \cup {None}, ending : BOOLEAN]
  BY DEF Good, LllType
<1>2. /\ c \in [active : BOOLEAN, r : Roles \cup {None}, ending : BOOLEAN]
      /\ c.active /\ c.r = None
  BY <1>1
<1>3. M = Enqueue(N, e)
  BY DEF ResumeEnqueue
<1>4. e \in Element /\ e.r = L.curr.r /\ ~e.aborted /\ e.resume
  <2>1. 0 \in 0 .. Now
    BY NowNat
  <2> QED
    BY <2>1 DEF Element
<1> HIDE DEF c, e
<1>5. /\ N \in LllType /\ N.curr = c /\ N.prep = L.prep /\ N.done = L.done /\ N.runs = L.runs
      /\ N.fault = L.fault /\ N.self = L.self /\ N.starts = L.starts /\ N.stops = L.stops
      /\ N.ops = L.ops
  BY <1>1, <1>2 DEF LllType
<1> HIDE DEF N
<1>6. Good(N)
  BY <1>2, <1>5 DEF Good, OpsShape
<1>7. /\ Good(M) /\ SameRest(N, M)
      /\ IF Len(N.prep) = PipelineMax THEN M.fault # None /\ M.prep = N.prep
         ELSE M.fault = N.fault /\ M.prep = Append(N.prep, e)
  BY <1>3, <1>4, <1>6, EnqueueParts
<1>8. M.curr = c /\ M.runs = L.runs /\ M.self = L.self /\ M.done = L.done
  BY <1>5, <1>7 DEF SameRest
<1>9. ASSUME Fine(M)
      PROVE  /\ Fine(L)
             /\ OneResume(L.prep) /\ Mine(L, L.curr.r) = {} => OneResume(M.prep)
             /\ \A q \in Roles : Debt(M, q) = Debt(L, q)
  <2>1. M.fault = L.fault /\ M.prep = Append(L.prep, e)
    BY <1>5, <1>7, <1>9 DEF Fine
  <2>2. Fine(L)
    BY <1>8, <1>9, <2>1 DEF Fine
  <2>3. /\ L.prep \in Seq(Element) /\ Len(L.prep) \in Nat /\ DOMAIN L.prep = 1 .. Len(L.prep)
    BY <1>1, PrepParts
  <2>4. ASSUME OneResume(L.prep), Mine(L, L.curr.r) = {} PROVE OneResume(M.prep)
    <3> DEFINE p == L.prep
               m == Append(p, e)
    <3>1. /\ DOMAIN m = 1 .. Len(p) + 1 /\ m[Len(p) + 1] = e
          /\ \A i \in 1 .. Len(p) : m[i] = p[i]
      BY <1>4, <2>3, AppendProperties
    <3>2. \A i \in 1 .. Len(p) : p[i].r = e.r => p[i].aborted
      BY <1>4, <2>3, <2>4 DEF Mine
    <3>3. /\ OneResume(p) /\ DOMAIN p = 1 .. Len(p) /\ Len(p) \in Nat /\ M.prep = m
      BY <2>1, <2>3, <2>4
    <3> HIDE DEF p, m
    <3> SUFFICES ASSUME NEW i \in DOMAIN m, NEW j \in DOMAIN m, i < j, m[i].resume, m[j].resume,
                        m[i].r = m[j].r
                 PROVE  m[i].aborted
      BY <3>3 DEF OneResume
    <3>4. i \in 1 .. Len(p) /\ i \in Nat /\ m[i] = p[i]
      BY <3>1, <3>3
    <3>5. CASE j = Len(p) + 1
      BY <3>1, <3>2, <3>4, <3>5
    <3>6. CASE j # Len(p) + 1
      <4>1. j \in 1 .. Len(p) /\ m[j] = p[j]
        BY <3>1, <3>3, <3>6
      <4> QED
        BY <3>3, <3>4, <4>1 DEF OneResume
    <3> QED
      BY <3>5, <3>6
  <2>5. ASSUME NEW q \in Roles PROVE Debt(M, q) = Debt(L, q)
    <3>1. /\ Held(M.prep, q) = Held(L.prep, q) + (IF e \in Of(q) THEN 1 ELSE 0)
          /\ Held(L.prep, q) \in Nat
      BY <1>4, <2>1, <2>3, HeldAppend
    <3>2. e \in Of(q) <=> q = L.curr.r
      BY <1>4 DEF Of
    <3>3. On(M, q) = 0 /\ On(L, q) = IF q = L.curr.r THEN 1 ELSE 0
      BY <1>2, <1>8 DEF On, RolesAssumption
    <3>4. Count(q, M.done) = Count(q, L.done) /\ Count(q, L.done) \in Nat
      BY <1>1, <1>8, DebtIsOwed
    <3> QED
      BY <3>1, <3>2, <3>3, <3>4 DEF Debt
  <2> QED
    BY <2>2, <2>4, <2>5
<1> QED
  BY <1>2, <1>7, <1>8, <1>9

\* preempt: whatever it decides, the event on air gives way or the next one is timed.
LEMMA PreemptParts ==
  ASSUME RolesAssumption, NEW L, Good(L), Fine(L), OneResume(L.prep), NEW slot, NEW answer,
         NEW M, M = Preempt(L, slot, answer)
  PROVE  /\ Good(M) /\ M.runs = L.runs
         /\ M.fault = None /\ M.curr.active /\ M.curr.r # None /\ ~M.curr.ending /\ HasReady(M)
              => Timed(M)
         /\ (L.curr.active => M.curr.active) /\ (~L.curr.active => M = L)
         /\ Fine(M) => OneResume(M.prep) /\ \A q \in Roles : Debt(M, q) = Debt(L, q)
<1> DEFINE next == NextReady(L, 1)
<1>1. L \in LllType /\ Len(L.prep) <= PipelineMax /\ DOMAIN L.prep = 1 .. Len(L.prep)
      /\ L.curr.r \in Roles \cup {None}
  BY PrepParts DEF Good, LllType
<1>2. HasReady(L) <=> next # NoSlot
  BY <1>1, HasReadyIs
<1>3. next # NoSlot => \E k \in DOMAIN L.prep : Ready(L.prep[k]) /\ next = SlotOf(L, k)
  BY <1>1, NextReadyIs
<1>4. M = IF ~L.curr.active \/ L.curr.r = None \/ next = NoSlot THEN L
          ELSE IF next # slot THEN PreemptStart(L, next, NoSlot, next)
          ELSE IF answer = "continue" THEN Cancel(L, next)
          ELSE IF answer = "again" THEN ResumeEnqueue(CancelAll(AbortCurrent(L), L.curr.r))
          ELSE AbortCurrent(L)
  BY DEF Preempt
<1> HIDE DEF next
<1>5. CASE ~L.curr.active \/ L.curr.r = None \/ next = NoSlot
  BY <1>2, <1>4, <1>5 DEF Attended
<1>6. CASE L.curr.active /\ L.curr.r # None /\ next # NoSlot /\ next # slot
  <2>1. PICK k \in DOMAIN L.prep : next = SlotOf(L, k)
    BY <1>3, <1>6
  <2>2. NoSlot \in 0 .. NoSlot /\ ~L.self
    BY NowNat DEF NoSlot, Slots, Fine
  <2>3. M = PreemptStart(L, next, NoSlot, next)
    BY <1>4, <1>6
  <2> DEFINE none == NoSlot
  <2>4. none \in 0 .. NoSlot /\ none = NoSlot /\ M = PreemptStart(L, next, none, next)
    BY <2>2, <2>3
  <2> HIDE DEF none
  <2>5. /\ Good(M) /\ Timed(M) /\ M.fault = L.fault
        /\ M.curr = L.curr /\ M.done = L.done /\ M.runs = L.runs
        /\ (~M.self => M.prep = L.prep)
        /\ none = NoSlot => ~M.self
    BY <2>1, <2>2, <2>4, PreemptStartParts
  <2>6. M.prep = L.prep /\ M.curr.active
    BY <1>6, <2>4, <2>5
  <2>7. \A q \in Roles : Debt(M, q) = Debt(L, q)
    BY <2>5, <2>6 DEF Debt, On
  <2> QED
    BY <1>6, <2>5, <2>6, <2>7 DEF Attended
<1>7. CASE L.curr.active /\ L.curr.r # None /\ next # NoSlot /\ next = slot
  <2>1. CASE answer = "continue"
    <3>1. PICK k \in DOMAIN L.prep : Ready(L.prep[k]) /\ next = SlotOf(L, k)
      BY <1>3, <1>7
    <3>2. ~L.prep[k].aborted /\ M = Cancel(L, next)
      BY <1>4, <1>7, <2>1, <3>1 DEF Ready
    <3>3. /\ Good(M) /\ M.runs = L.runs
          /\ L.curr.active => M.curr = L.curr
          /\ OneResume(L.prep) => M.fault # None \/ Want(M)
          /\ Fine(M) =>
              /\ OneResume(L.prep) => OneResume(M.prep)
              /\ \A q \in Roles : Debt(M, q) = Debt(L, q)
      BY <3>1, <3>2, CancelParts
    <3> QED
      BY <1>7, <3>3 DEF Attended, Want
  <2>2. CASE answer = "again"
    <3> DEFINE A == AbortCurrent(L)
               r == L.curr.r
               B == CancelAll(A, r)
    <3>1. r \in Roles /\ M = ResumeEnqueue(B) /\ r = L.curr.r
      BY <1>1, <1>4, <1>7, <2>2
    <3> HIDE DEF r
    <3>2. /\ Good(A) /\ A.curr.active /\ A.curr.r = r
          /\ A.prep = L.prep /\ A.runs = L.runs
          /\ A.fault = L.fault /\ A.self = L.self
          /\ \A q : Debt(A, q) = Debt(L, q)
      BY <1>7, <3>1, AbortParts
    <3> HIDE DEF A
    <3>3. /\ Cancelled(A, B) /\ (A.curr.active /\ Fine(B) => Mine(B, r) = {})
      BY <3>1, <3>2, CancelAllParts
    <3>4. /\ Good(B) /\ B.runs = L.runs /\ B.curr = A.curr
          /\ Fine(B) => /\ OneResume(B.prep) /\ Mine(B, r) = {}
                        /\ \A q \in Roles : Debt(B, q) = Debt(L, q)
      BY <3>2, <3>3 DEF Cancelled
    <3> HIDE DEF B
    <3>5. B.curr.active /\ B.curr.r = r
      BY <3>2, <3>4
    <3>6. /\ Good(M) /\ M.curr.active /\ M.curr.r = None /\ M.runs = B.runs
          /\ Fine(M) =>
              /\ Fine(B)
              /\ OneResume(B.prep) /\ Mine(B, B.curr.r) = {} => OneResume(M.prep)
              /\ \A q \in Roles : Debt(M, q) = Debt(B, q)
      BY <3>1, <3>4, <3>5, ResumeParts
    <3> QED
      BY <1>7, <3>4, <3>5, <3>6 DEF Attended
  <2>3. CASE answer \notin {"continue", "again"}
    <3>1. M = AbortCurrent(L)
      BY <1>4, <1>7, <2>3
    <3>2. /\ Good(M) /\ M.curr.active /\ M.curr.ending /\ M.prep = L.prep /\ M.runs = L.runs
          /\ \A q : Debt(M, q) = Debt(L, q)
      BY <1>7, <3>1, AbortParts
    <3> QED
      BY <1>7, <3>2 DEF Attended
  <2> QED
    BY <2>1, <2>2, <2>3
<1> QED
  BY <1>5, <1>6, <1>7

\* lll_disable of a role.
LEMMA DisableParts ==
  ASSUME RolesAssumption, NEW L, Good(L), OneResume(L.prep), ~L.curr.active => AllAborted(L),
         NEW r \in Roles, NEW M, M = LllDisable(L, r)
  PROVE  /\ Good(M) /\ M.runs = L.runs
         /\ \A u \in BOOLEAN : Attended(L, u) /\ M.fault = None => Attended(M, u)
         /\ (L.curr.active => M.curr.active) /\ (~L.curr.active => M = L)
         /\ Fine(M) => /\ Fine(L) /\ OneResume(M.prep)
                       /\ \A q \in Roles : Debt(M, q) = Debt(L, q)
<1> DEFINE N == IF r = L.curr.r THEN AbortCurrent(L) ELSE L
<1>1. M = CancelAll(N, r)
  BY DEF LllDisable
<1>2. ~L.curr.active => N = L /\ Mine(L, r) = {}
  <2>1. ~L.curr.active => L.curr.r = None /\ r # None
    BY DEF Good, NoEvent, RolesAssumption
  <2> QED
    BY <2>1 DEF AllAborted, Mine
<1>3. /\ Good(N) /\ N.prep = L.prep /\ N.runs = L.runs /\ N.fault = L.fault /\ N.self = L.self
      /\ (Timed(N) <=> Timed(L)) /\ \A q : Debt(N, q) = Debt(L, q)
      /\ N = L \/ N.curr.ending
      /\ L.curr.active => N.curr.active
  <2>1. CASE r = L.curr.r
    <3>1. L.curr.active /\ N = AbortCurrent(L)
      <4>1. ~L.curr.active => L.curr.r = None /\ r # None
        BY DEF Good, NoEvent, RolesAssumption
      <4> QED
        BY <2>1, <4>1
    <3> QED
      BY <3>1, AbortParts
  <2>2. CASE r # L.curr.r
    BY <2>2
  <2> QED
    BY <2>1, <2>2
<1> HIDE DEF N
<1>4. Cancelled(N, M) /\ (Mine(N, r) = {} => M = N)
  BY <1>1, <1>3, CancelAllParts
<1>5. ASSUME NEW u \in BOOLEAN, Attended(L, u), M.fault = None PROVE Attended(M, u)
  <2>1. CASE L.curr.active
    <3>1. M.curr = N.curr /\ N.curr.active /\ (M = N \/ Want(M))
      BY <1>3, <1>4, <1>5, <2>1 DEF Cancelled
    <3>2. CASE N # L
      BY <1>3, <3>1, <3>2 DEF Attended
    <3>3. CASE N = L
      BY <1>5, <3>1, <3>3 DEF Attended, Want
    <3> QED
      BY <3>2, <3>3
  <2>2. CASE ~L.curr.active
    BY <1>2, <1>4, <1>5, <2>2
  <2> QED
    BY <2>1, <2>2
<1>6. (L.curr.active => M.curr.active) /\ (~L.curr.active => M = L)
  BY <1>2, <1>3, <1>4 DEF Cancelled
<1>7. Fine(M) => /\ Fine(L) /\ OneResume(M.prep)
                 /\ \A q \in Roles : Debt(M, q) = Debt(L, q)
  BY <1>3, <1>4 DEF Cancelled, Fine
<1>8. Good(M) /\ M.runs = L.runs
  BY <1>3, <1>4 DEF Cancelled
<1> QED
  BY <1>5, <1>6, <1>7, <1>8

-----------------------------------------------------------------------------
(***************************************************************************)
(* What a step leaves.                                                     *)
(***************************************************************************)
NodeType == [at : {"idle", "running", "expired"}, slot : 0 .. NoSlot]
UllType == [at : {"idle", "expired", "managing", "stopping", "inserting", "starting"},
            slot : 0 .. NoSlot]

\* Two records that differ in times and slots only.
Alike(L, M) ==
  /\ M.curr = L.curr /\ M.starts = L.starts /\ M.stops = L.stops /\ M.runs = L.runs
  /\ M.done = L.done /\ M.self = L.self /\ M.fault = L.fault
  /\ Len(M.prep) = Len(L.prep) /\ DOMAIN M.prep = DOMAIN L.prep
  /\ \A i \in DOMAIN L.prep : /\ M.prep[i].r = L.prep[i].r
                              /\ M.prep[i].aborted = L.prep[i].aborted
                              /\ M.prep[i].resume = L.prep[i].resume
  /\ Len(M.ops) = Len(L.ops) /\ DOMAIN M.ops = DOMAIN L.ops
  /\ \A i \in DOMAIN L.ops : M.ops[i].op = L.ops[i].op /\ M.ops[i].seen = L.ops[i].seen

LEMMA RankNat ==
  ASSUME NEW times, times \in SUBSET (1 .. Now), NEW t
  PROVE  Cardinality({x \in times : x <= t}) \in 0 .. Now
<1> DEFINE lower == {x \in times : x <= t}
<1>1. Now \in Nat /\ Now > 0
  BY NowNat
<1>2. IsFiniteSet(1 .. Now) /\ Cardinality(1 .. Now) = Now
  BY <1>1, FS_Interval
<1>3. lower \in SUBSET (1 .. Now)
  OBVIOUS
<1> HIDE DEF lower
<1>4. IsFiniteSet(lower) /\ Cardinality(lower) <= Now
  BY <1>2, <1>3, FS_Subset
<1>5. Cardinality(lower) \in Nat
  BY <1>4, FS_CardinalityType
<1> QED
  BY <1>1, <1>4, <1>5 DEF lower

LEMMA SlotFromHead ==
  ASSUME NEW h \in Nat, NEW slot \in 0 .. NoSlot
  PROVE  (slot - h) % Slots \in 0 .. NoSlot /\ NoSlot \in 0 .. NoSlot
BY DEF NoSlot, Slots, PipelineMax

LEMMA SeqFrom ==
  ASSUME NEW T, NEW n \in Nat, NEW f \in [1 .. n -> T]
  PROVE  f \in Seq(T) /\ Len(f) = n /\ DOMAIN f = 1 .. n
OBVIOUS

LEMMA SettledParts ==
  ASSUME NEW L, Good(L), NEW u, NEW M, M = Settled(L, u)
  PROVE  M \in LllType /\ M.h = 0 /\ Alike(L, M)
<1> DEFINE times == Times(L, u)
           due == L.due /\ (L.done # <<>> \/ L.curr.ending)
           at == IF IsCompared(L, u) THEN Rank(times, L.at) ELSE 0
           prep == SettledPrep(L, times)
           ops == SettledOps(L)
<1>1. M = [L EXCEPT !.h = 0, !.due = due, !.at = at, !.prep = prep, !.ops = ops]
  BY DEF Settled
<1>4. /\ L \in LllType /\ L.h \in Nat /\ L.prep \in Seq(Element) /\ Len(L.prep) \in Nat
      /\ DOMAIN L.prep = 1 .. Len(L.prep)
      /\ \A i \in DOMAIN L.prep : L.prep[i] \in Element
      /\ L.ops \in Seq(Operation) /\ Len(L.ops) \in Nat /\ DOMAIN L.ops = 1 .. Len(L.ops)
      /\ \A i \in DOMAIN L.ops : L.ops[i] \in Operation
  BY PrepParts, OpsParts, ElementOfSeq, LenProperties DEF Good
<1>5. times \in SUBSET (1 .. Now)
  <2>1. \A i \in DOMAIN L.prep : L.prep[i].at \in 0 .. Now
    BY <1>4 DEF Element
  <2>2. L.at \in 0 .. Now
    BY <1>4 DEF LllType
  <2> QED
    BY <2>1, <2>2, NowNat DEF Times
<1>6. ASSUME NEW slot \in 0 .. NoSlot, NEW isUsed
      PROVE  FromHead(L, slot, isUsed) \in 0 .. NoSlot
  BY <1>4, SlotFromHead DEF FromHead
<1>7. ASSUME NEW t PROVE Rank(times, t) \in 0 .. Now
  BY <1>5, RankNat DEF Rank
<1>8. /\ DOMAIN prep = DOMAIN L.prep /\ prep \in Seq(Element) /\ Len(prep) = Len(L.prep)
      /\ \A i \in DOMAIN L.prep : /\ prep[i].r = L.prep[i].r
                                  /\ prep[i].aborted = L.prep[i].aborted
                                  /\ prep[i].resume = L.prep[i].resume
  <2>1. \A i \in DOMAIN L.prep : /\ prep[i] \in Element /\ prep[i].r = L.prep[i].r
                                 /\ prep[i].aborted = L.prep[i].aborted
                                 /\ prep[i].resume = L.prep[i].resume
    <3> SUFFICES ASSUME NEW i \in DOMAIN L.prep
                 PROVE  /\ prep[i] \in Element /\ prep[i].r = L.prep[i].r
                        /\ prep[i].aborted = L.prep[i].aborted
                        /\ prep[i].resume = L.prep[i].resume
      OBVIOUS
    <3> DEFINE e == L.prep[i]
    <3>1. prep[i] = [e EXCEPT !.at = Rank(times, e.at)]
      BY DEF SettledPrep
    <3>2. e \in Element /\ Rank(times, e.at) \in 0 .. Now
      BY <1>4, <1>7
    <3> QED
      BY <3>1, <3>2 DEF Element
  <2>2. prep = [i \in 1 .. Len(L.prep) |-> prep[i]]
    BY <1>4 DEF SettledPrep
  <2> HIDE DEF prep
  <2>3. prep \in [1 .. Len(L.prep) -> Element]
    BY <1>4, <2>1, <2>2
  <2>4. prep \in Seq(Element) /\ Len(prep) = Len(L.prep) /\ DOMAIN prep = 1 .. Len(L.prep)
    BY <1>4, <2>3, SeqFrom
  <2> QED
    BY <1>4, <2>1, <2>4
<1>9. /\ DOMAIN ops = DOMAIN L.ops /\ ops \in Seq(Operation) /\ Len(ops) = Len(L.ops)
      /\ \A i \in DOMAIN L.ops : ops[i].op = L.ops[i].op /\ ops[i].seen = L.ops[i].seen
  <2>1. \A i \in DOMAIN L.ops : /\ ops[i] \in Operation
                                /\ ops[i].op = L.ops[i].op /\ ops[i].seen = L.ops[i].seen
    <3> SUFFICES ASSUME NEW i \in DOMAIN L.ops
                 PROVE  /\ ops[i] \in Operation
                        /\ ops[i].op = L.ops[i].op /\ ops[i].seen = L.ops[i].seen
      OBVIOUS
    <3> DEFINE o == L.ops[i]
               slot == FromHead(L, o.slot, o.op = "start")
    <3>1. ops[i] = [o EXCEPT !.slot = slot]
      BY DEF SettledOps
    <3>2. o \in Operation
      BY <1>4
    <3>3. slot \in 0 .. NoSlot
      BY <1>6, <3>2 DEF Operation
    <3> HIDE DEF slot
    <3> QED
      BY <3>1, <3>2, <3>3 DEF Operation
  <2>2. ops = [i \in 1 .. Len(L.ops) |-> ops[i]]
    BY <1>4 DEF SettledOps
  <2> HIDE DEF ops
  <2>3. ops \in [1 .. Len(L.ops) -> Operation]
    BY <1>4, <2>1, <2>2
  <2>4. ops \in Seq(Operation) /\ Len(ops) = Len(L.ops) /\ DOMAIN ops = 1 .. Len(L.ops)
    BY <1>4, <2>3, SeqFrom
  <2> QED
    BY <1>4, <2>1, <2>4
<1>10. due \in BOOLEAN /\ at \in 0 .. Now
  <2>1. 0 \in 0 .. Now
    BY NowNat
  <2>2. due \in BOOLEAN
    BY <1>4 DEF LllType
  <2> QED
    BY <1>7, <2>1, <2>2
<1> HIDE DEF due, at, prep, ops, times
<1>11. /\ M \in LllType /\ M.h = 0 /\ M.prep = prep /\ M.ops = ops
       /\ M.curr = L.curr /\ M.starts = L.starts /\ M.stops = L.stops
       /\ M.runs = L.runs /\ M.done = L.done /\ M.self = L.self /\ M.fault = L.fault
  <2>1. L \in LllType /\ prep \in Seq(Element) /\ ops \in Seq(Operation) /\ 0 \in Nat
    BY <1>4, <1>8, <1>9
  <2> QED
    BY ONLY <1>1, <1>10, <2>1 DEF LllType
<1>12. Alike(L, M)
  BY <1>8, <1>9, <1>11 DEF Alike
<1> QED
  BY <1>11, <1>12

LEMMA SlotsSettled ==
  ASSUME NEW L, L.h \in Nat, NEW n \in NodeType, NEW u \in UllType,
         NEW N, N = [n EXCEPT !.slot = FromHead(L, n.slot, n.at # "idle")],
         NEW U, U = [u EXCEPT !.slot = FromHead(L, u.slot, u.at = "expired")]
  PROVE  N \in NodeType /\ N.at = n.at /\ U \in UllType /\ U.at = u.at
<1>1. ASSUME NEW slot \in 0 .. NoSlot, NEW isUsed
      PROVE  FromHead(L, slot, isUsed) \in 0 .. NoSlot
  BY SlotFromHead DEF FromHead
<1>2. N \in NodeType /\ N.at = n.at
  <2> DEFINE slot == FromHead(L, n.slot, n.at # "idle")
  <2>1. slot \in 0 .. NoSlot
    BY <1>1 DEF NodeType
  <2> HIDE DEF slot
  <2>2. N = [n EXCEPT !.slot = slot]
    BY DEF slot
  <2> QED
    BY <2>1, <2>2 DEF NodeType
<1>3. U \in UllType /\ U.at = u.at
  <2> DEFINE slot == FromHead(L, u.slot, u.at = "expired")
  <2>1. slot \in 0 .. NoSlot
    BY <1>1 DEF UllType
  <2> HIDE DEF slot
  <2>2. U = [u EXCEPT !.slot = slot]
    BY DEF slot
  <2> QED
    BY <2>1, <2>2 DEF UllType
<1> QED
  BY <1>2, <1>3

\* The invariant looks at no time and at no slot.
LEMMA AlikeParts ==
  ASSUME NEW L, Good(L), NEW M, M \in LllType, Alike(L, M)
  PROVE  /\ Good(M) /\ (Fine(M) <=> Fine(L))
         /\ \A r : Debt(M, r) = Debt(L, r)
         /\ OneResume(L.prep) => OneResume(M.prep)
         /\ AllAborted(L) => AllAborted(M)
         /\ \A u \in BOOLEAN : Attended(L, u) => Attended(M, u)
<1>1. /\ L \in LllType /\ L.prep \in Seq(Element) /\ M.prep \in Seq(Element)
      /\ \A i \in DOMAIN L.prep : L.prep[i] \in Element
      /\ \A i \in DOMAIN M.prep : M.prep[i] \in Element
  BY PrepParts DEF Good
<1>2. Good(M)
  <2>1. OpsShape(M)
    BY DEF Good, OpsShape, IsStart, IsStop, Alike
  <2> QED
    BY <2>1 DEF Good, Alike
<1>3. \A r : Debt(M, r) = Debt(L, r)
  <2> SUFFICES ASSUME NEW r PROVE Debt(M, r) = Debt(L, r)
    OBVIOUS
  <2>1. Hits(M.prep, Of(r)) = Hits(L.prep, Of(r))
    BY <1>1 DEF Hits, Of, Alike
  <2> QED
    BY <2>1 DEF Debt, Held, On, Alike
<1>4. OneResume(L.prep) => OneResume(M.prep)
  BY DEF OneResume, Alike
<1>5. (AllAborted(L) => AllAborted(M)) /\ (HasReady(M) => HasReady(L))
  BY DEF AllAborted, HasReady, Ready, Alike
<1>6. \A u \in BOOLEAN : Attended(L, u) => Attended(M, u)
  BY <1>5 DEF Attended, Timed, Alike
<1> QED
  BY <1>2, <1>3, <1>4, <1>5, <1>6 DEF Fine, Alike

RoleTypes ==
  /\ ref \in [Roles -> Nat] /\ cb \in [Roles -> BOOLEAN]
  /\ role \in [Roles -> {"on", "closing", "off"}]
  /\ thread \in [at : {"run", "stopped", "checked", "set", "waits"},
                 r : Roles \cup {None}, sem : BOOLEAN]

\* What is to be shown of a step, before its times and slots are settled.
LEMMA SettledInv ==
  ASSUME RolesAssumption, NEW L, Good(L), NEW n \in NodeType, NEW u \in UllType, Settle(L, n, u),
         Ticking(L, n, u), RoleTypes',
         Fine(L) => Queued(L) /\ RoleInv' /\ \A r \in Roles : ref'[r] = Debt(L, r)
  PROVE  Inv'
<1>1. lll' \in LllType /\ lll'.h = 0 /\ Alike(L, lll')
  BY SettledParts DEF Settle
<1>2. node' \in NodeType /\ node'.at = n.at /\ ull' \in UllType /\ ull'.at = u.at
  <2>1. L.h \in Nat
    BY PrepParts DEF Good
  <2> QED
    BY <2>1, SlotsSettled DEF Settle
<1>3. /\ Good(lll') /\ (Fine(lll') <=> Fine(L))
      /\ \A r : Debt(lll', r) = Debt(L, r)
      /\ OneResume(L.prep) => OneResume(lll'.prep)
      /\ AllAborted(L) => AllAborted(lll')
      /\ \A v \in BOOLEAN : Attended(L, v) => Attended(lll', v)
  BY <1>1, AlikeParts
<1>4. lll'.fault # "start failed"
  BY <1>1 DEF LllType, Faults, None
<1>5. Sound' = lll'
  BY <1>4 DEF Sound
<1>6. Typed'
  BY <1>1, <1>2, <1>3, <1>5 DEF Typed, RoleTypes, NodeType, UllType
<1>7. Ticking(lll', node', ull')
  <2>1. ull'.at \in {"starting", "expired"} <=> u.at \in {"starting", "expired"}
    BY <1>2
  <2>2. L.ops # <<>> /\ L.ops[1].seen => lll'.ops # <<>> /\ lll'.ops[1].seen
    <3>1. L.ops \in Seq(Operation) /\ lll'.ops \in Seq(Operation)
      BY <1>3, OpsParts
    <3>2. /\ Len(lll'.ops) = Len(L.ops)
          /\ \A i \in DOMAIN L.ops : lll'.ops[i].seen = L.ops[i].seen
      BY <1>1 DEF Alike
    <3>3. ASSUME L.ops # <<>> PROVE 1 \in DOMAIN L.ops /\ lll'.ops # <<>>
      BY <3>1, <3>2, <3>3, EmptySeq, LenProperties
    <3> QED
      BY <3>2, <3>3
  <2>3. /\ lll'.fault = L.fault /\ lll'.runs = L.runs /\ lll'.starts = L.starts
        /\ lll'.self = L.self
    BY <1>1 DEF Alike
  <2>4. Attended(L, u.at \in {"starting", "expired"})
          => Attended(lll', ull'.at \in {"starting", "expired"})
    <3>1. CASE u.at \in {"starting", "expired"}
      BY <1>3, <2>1, <3>1 DEF Attended
    <3>2. CASE u.at \notin {"starting", "expired"}
      <4>1. Attended(L, FALSE) => Attended(lll', FALSE)
        BY <1>3
      <4> QED
        BY <2>1, <3>2, <4>1 DEF Attended
    <3> QED
      BY <3>1, <3>2
  <2> QED
    BY <1>2, <2>2, <2>3, <2>4 DEF Ticking
<1>8. ASSUME Fine(lll')
      PROVE  Queued(lll') /\ RoleInv' /\ \A r \in Roles : ref'[r] = Owed(lll', r)
  <2>1. Queued(L) /\ RoleInv' /\ \A r \in Roles : ref'[r] = Debt(L, r)
    BY <1>3, <1>8
  <2>2. Queued(lll')
    BY <1>1, <1>3, <2>1 DEF Queued, Alike
  <2>3. \A r \in Roles : Owed(lll', r) = Debt(lll', r)
    BY <1>1, DebtIsOwed
  <2> QED
    BY <1>3, <2>1, <2>2, <2>3
<1> QED
  BY <1>4, <1>5, <1>6, <1>7, <1>8 DEF Inv

-----------------------------------------------------------------------------
(***************************************************************************)
(* The steps of LLL.                                                       *)
(***************************************************************************)
LEMMA NoFaultParts ==
  ASSUME Inv, NoFault
  PROVE  /\ Good(lll) /\ node \in NodeType /\ ull \in UllType /\ RoleTypes
         /\ Ticking(lll, node, ull)
         /\ ~lll.self => /\ Fine(lll) /\ Queued(lll) /\ RoleInv
                         /\ \A r \in Roles : ref[r] = Debt(lll, r)
<1>1. Sound = lll
  BY DEF NoFault, Sound, None
<1>2. Good(lll) /\ lll \in LllType
  BY <1>1 DEF Inv, Typed, Good
<1>3. node \in NodeType /\ ull \in UllType /\ RoleTypes /\ Ticking(lll, node, ull)
  BY DEF Inv, Typed, NodeType, UllType, RoleTypes
<1>4. ASSUME ~lll.self
      PROVE  /\ Fine(lll) /\ Queued(lll) /\ RoleInv /\ \A r \in Roles : ref[r] = Debt(lll, r)
  <2>1. Fine(lll)
    BY <1>4 DEF NoFault, Fine
  <2>2. \A r \in Roles : Owed(lll, r) = Debt(lll, r)
    BY <1>2, DebtIsOwed
  <2> QED
    BY <1>1, <2>1, <2>2 DEF Inv
<1> QED
  BY <1>2, <1>3, <1>4

LEMMA RolesUnchanged ==
  ASSUME UNCHANGED <<ref, cb, role, thread>>
  PROVE  (RoleTypes => RoleTypes') /\ (RoleInv => RoleInv')
BY DEF RoleTypes, RoleInv

LEMMA LaterParts ==
  ASSUME Good(lll)
  PROVE  /\ Good(Later) /\ (Fine(Later) <=> Fine(lll)) /\ Later.curr = lll.curr
         /\ Later.prep = lll.prep /\ Later.done = lll.done /\ Later.runs = lll.runs
         /\ Later.ops = lll.ops /\ Later.starts = lll.starts /\ Later.self = lll.self
         /\ Later.fault = lll.fault
         /\ \A r : Debt(Later, r) = Debt(lll, r)
         /\ \A u : Attended(lll, u) => Attended(Later, u)
<1> DEFINE due == lll.due \/ lll.done # <<>> \/ lll.curr.ending
<1>1. lll \in LllType
  BY DEF Good
<1>2. due \in BOOLEAN /\ Later = [lll EXCEPT !.due = due]
  BY <1>1 DEF LllType, Later
<1> HIDE DEF due
<1>3. /\ Later \in LllType /\ Later.curr = lll.curr
      /\ Later.prep = lll.prep /\ Later.done = lll.done /\ Later.runs = lll.runs
      /\ Later.ops = lll.ops /\ Later.starts = lll.starts /\ Later.stops = lll.stops
      /\ Later.self = lll.self /\ Later.fault = lll.fault
  BY <1>1, <1>2 DEF LllType
<1>4. Good(Later)
  BY <1>3 DEF Good, OpsShape
<1> QED
  BY <1>3, <1>4 DEF Fine, Debt, On, Attended, HasReady, Timed

\* The radio falls idle, and what was owed for the event on air is the done event.
LEMMA EventOverKeeps ==
  ASSUME RolesAssumption, Inv, EventOver
  PROVE  Inv'
<1>1. NoFault /\ ~lll.self /\ lll.curr.active
  BY DEF EventOver, Running
<1>2. /\ Good(lll) /\ node \in NodeType /\ ull \in UllType /\ RoleTypes
      /\ Ticking(lll, node, ull) /\ Fine(lll) /\ Queued(lll) /\ RoleInv
      /\ \A r \in Roles : ref[r] = Debt(lll, r)
  BY <1>1, NoFaultParts
<1> DEFINE X == IF lll.curr.ending THEN lll ELSE Later
           N == [X EXCEPT !.curr = NoEvent]
           r == lll.curr.r
           M == Done(N, r)
<1>3. Settle(M, node, ull) /\ UNCHANGED <<ref, cb, role, thread>>
  BY DEF EventOver
<1>4. /\ Good(X) /\ Fine(X) /\ X.curr = lll.curr
      /\ X.prep = lll.prep /\ X.done = lll.done /\ X.runs = lll.runs
      /\ X.ops = lll.ops /\ X.starts = lll.starts
  BY <1>2, LaterParts
<1>5. r \in Roles \cup {None}
  BY <1>2 DEF Good, LllType
<1> HIDE DEF X
<1>6. /\ N \in LllType /\ N.curr = NoEvent /\ N.prep = lll.prep /\ N.done = lll.done
      /\ N.runs = lll.runs /\ N.ops = lll.ops /\ N.starts = lll.starts /\ N.stops = X.stops
      /\ N.self = X.self /\ N.fault = X.fault
  <2>1. NoEvent \in [active : BOOLEAN, r : Roles \cup {None}, ending : BOOLEAN]
    BY DEF NoEvent
  <2>2. X \in LllType
    BY <1>4 DEF Good
  <2> HIDE DEF NoEvent
  <2> QED
    BY <1>4, <2>1, <2>2 DEF LllType
<1> HIDE DEF N, r
<1>7. Good(N) /\ Fine(N)
  BY <1>4, <1>6 DEF Good, OpsShape, Fine
<1>8. /\ Good(M) /\ M.runs = N.runs /\ TimedKept(N, M)
      /\ OneResume(N.prep) => M.fault # None \/ Want(M)
      /\ Fine(M) =>
           /\ OneResume(N.prep) => OneResume(M.prep)
           /\ \A q \in Roles : Debt(M, q) = Debt(N, q) + (IF q = r THEN 1 ELSE 0)
  BY <1>5, <1>7, DoneParts
<1> HIDE DEF M
<1>9. OneResume(N.prep)
  BY <1>2, <1>6 DEF Queued
<1>10. Ticking(M, node, ull)
  <2> SUFFICES ASSUME M.fault = None
               PROVE  Ticking(M, node, ull)
    BY DEF Ticking
  <2>1. /\ lll.runs <= 1 /\ ull.at \notin {"stopping", "managing"}
        /\ node.at = "running" <=> (lll.runs = 1 \/ ull.at = "starting")
        /\ ull.at = "starting" => lll.runs = 0
        /\ ull.at = "inserting" => lll.ops # <<>> /\ lll.ops[1].seen
    BY <1>1, <1>2 DEF Ticking, NoFault
  <2>2. Want(M)
    BY <1>8, <1>9
  <2>3. Attended(M, ull.at \in {"starting", "expired"})
    BY <2>2 DEF Attended, Want
  <2>4. M.runs = lll.runs /\ HeadKept(lll.ops, M.ops)
    BY <1>6, <1>8 DEF TimedKept
  <2> QED
    BY <2>1, <2>3, <2>4 DEF Ticking, HeadKept
<1>11. ASSUME Fine(M)
       PROVE  Queued(M) /\ RoleInv' /\ \A q \in Roles : ref'[q] = Debt(M, q)
  <2>1. Queued(M)
    BY <1>8, <1>9, <1>11 DEF Queued, Want, Fine
  <2>2. ASSUME NEW q \in Roles PROVE ref'[q] = Debt(M, q)
    <3>1. Debt(M, q) = Debt(N, q) + (IF q = r THEN 1 ELSE 0)
      BY <1>8, <1>11
    <3>2. ref'[q] = Debt(lll, q)
      BY <1>2, <1>3
    <3>3. On(N, q) = 0 /\ On(lll, q) = IF q = r THEN 1 ELSE 0
      BY <1>6 DEF On, NoEvent, RolesAssumption, r
    <3>4. Held(lll.prep, q) \in Nat /\ Count(q, lll.done) \in Nat
      BY <1>2, MineHeld, DebtIsOwed DEF Good
    <3> QED
      BY <1>6, <3>1, <3>2, <3>3, <3>4 DEF Debt
  <2> QED
    BY <1>2, <1>3, <2>1, <2>2, RolesUnchanged
<1>12. RoleTypes'
  BY <1>2, <1>3, RolesUnchanged
<1> QED
  BY <1>2, <1>3, <1>8, <1>10, <1>11, <1>12, SettledInv

\* The mayfly of the preempt timeout.
LEMMA PreemptCbKeeps ==
  ASSUME RolesAssumption, Inv, PreemptCb
  PROVE  Inv'
<1>1. NoFault /\ ~lll.self /\ ull.at = "expired"
  BY DEF PreemptCb, Running
<1>2. /\ Good(lll) /\ node \in NodeType /\ RoleTypes
      /\ Ticking(lll, node, ull) /\ Fine(lll) /\ Queued(lll) /\ RoleInv
      /\ \A r \in Roles : ref[r] = Debt(lll, r)
  BY <1>1, NoFaultParts
<1>3. PICK answer : Settle(Preempt(lll, ull.slot, answer), node, UllIdle)
  BY DEF PreemptCb
<1> DEFINE slot == ull.slot
           M == Preempt(lll, slot, answer)
<1>4. UNCHANGED <<ref, cb, role, thread>>
  BY DEF PreemptCb
<1>5. UllIdle \in UllType /\ UllIdle.at = "idle"
  <2>1. NoSlot \in 0 .. NoSlot
    BY DEF NoSlot, Slots, PipelineMax
  <2> QED
    BY <2>1 DEF UllIdle, UllType
<1>6. Settle(M, node, UllIdle)
  BY <1>3
<1>7. /\ Good(M) /\ M.runs = lll.runs
      /\ M.fault = None /\ M.curr.active /\ M.curr.r # None /\ ~M.curr.ending /\ HasReady(M)
           => Timed(M)
      /\ (lll.curr.active => M.curr.active) /\ (~lll.curr.active => M = lll)
      /\ Fine(M) => OneResume(M.prep) /\ \A q \in Roles : Debt(M, q) = Debt(lll, q)
  <2>1. OneResume(lll.prep)
    BY <1>2 DEF Queued
  <2>2. M = Preempt(lll, slot, answer)
    OBVIOUS
  <2> HIDE DEF slot, M
  <2>3. Good(lll) /\ Fine(lll)
    BY <1>2
  <2> QED
    BY <2>1, <2>2, <2>3, PreemptParts
<1> HIDE DEF M
<1>8. Ticking(M, node, UllIdle)
  <2>1. lll.runs <= 1 /\ (node.at = "running" <=> lll.runs = 1)
    BY <1>1, <1>2 DEF Ticking, NoFault
  <2>2. M.fault = None => Attended(M, UllIdle.at \in {"starting", "expired"})
    BY <1>5, <1>7 DEF Attended
  <2> QED
    BY <1>5, <1>7, <2>1, <2>2 DEF Ticking
<1>9. Fine(M) => Queued(M) /\ RoleInv' /\ \A q \in Roles : ref'[q] = Debt(M, q)
  BY <1>2, <1>4, <1>7, RolesUnchanged DEF Queued
<1>10. RoleTypes'
  BY <1>2, <1>4, RolesUnchanged
<1> QED
  BY <1>2, <1>5, <1>6, <1>7, <1>8, <1>9, <1>10, SettledInv

\* A prepare that comes is one more reference, and waits or is on air.
LEMMA PrepareKeeps ==
  ASSUME RolesAssumption, Inv, NEW r \in Roles, Prepare(r)
  PROVE  Inv'
<1>1. NoFault /\ ~lll.self /\ ull.at = "idle" /\ role[r] = "on"
  BY DEF Prepare, Running
<1>2. /\ Good(lll) /\ node \in NodeType /\ ull \in UllType /\ RoleTypes
      /\ Ticking(lll, node, ull) /\ Fine(lll) /\ Queued(lll) /\ RoleInv
      /\ \A q \in Roles : ref[q] = Debt(lll, q)
  BY <1>1, NoFaultParts
<1> DEFINE e == [r |-> r, aborted |-> FALSE, resume |-> FALSE, at |-> Now]
           X == Later
           none == NoSlot
           M == Resolve(X, e, none)
<1>3. /\ Settle(M, node, ull) /\ UNCHANGED <<cb, role, thread>>
      /\ ref' = [ref EXCEPT ![r] = @ + 1]
  BY DEF Prepare
<1>4. e \in Element /\ ~e.aborted /\ ~e.resume /\ e.r = r
  <2>1. Now \in 0 .. Now
    BY NowNat
  <2> QED
    BY <2>1 DEF Element
<1>5. none \in 0 .. NoSlot
  BY DEF NoSlot, Slots, PipelineMax
<1>6. /\ Good(X) /\ Fine(X) /\ X.curr = lll.curr
      /\ X.prep = lll.prep /\ X.done = lll.done /\ X.runs = lll.runs
      /\ \A q : Debt(X, q) = Debt(lll, q)
  BY <1>2, LaterParts
<1>7. ~X.curr.active => ~HasReady(X) /\ X.curr.r = None
  BY <1>2, <1>6 DEF Queued, AllAborted, HasReady, Ready, Good, NoEvent
<1> HIDE DEF X, e, none
<1>12. ~X.curr.active => NextReady(X, 1) \in {NoSlot, none}
  BY <1>6, <1>7, HasReadyIs DEF Good
<1>8. /\ Good(M) /\ M.done = X.done /\ M.runs = X.runs
      /\ X.curr.active =>
           /\ M.curr = X.curr
           /\ Fine(M) => M.prep = Append(X.prep, e)
           /\ M.fault = None => Timed(M)
      /\ ~X.curr.active =>
           /\ M.curr = Begun(r) /\ M.prep = X.prep
  <2>1. Resolved(X, e, none, M)
    BY <1>4, <1>5, <1>6, <1>12, ResolveParts
  <2> QED
    BY <1>4, <1>7, <2>1 DEF Resolved
<1> HIDE DEF M
<1>9. Ticking(M, node, ull)
  <2>1. lll.runs <= 1 /\ (node.at = "running" <=> lll.runs = 1)
    BY <1>1, <1>2 DEF Ticking, NoFault
  <2>2. M.fault = None => Attended(M, ull.at \in {"starting", "expired"})
    <3>1. CASE X.curr.active
      BY <1>8, <3>1 DEF Attended
    <3>2. CASE ~X.curr.active
      BY <1>7, <1>8, <3>2 DEF Attended, HasReady
    <3> QED
      BY <3>1, <3>2
  <2> QED
    BY <1>1, <1>6, <1>8, <2>1, <2>2 DEF Ticking
<1>10. ASSUME Fine(M)
       PROVE  Queued(M) /\ RoleInv' /\ \A q \in Roles : ref'[q] = Debt(M, q)
  <2>1. X.prep \in Seq(Element) /\ Len(X.prep) \in Nat /\ DOMAIN X.prep = 1 .. Len(X.prep)
    BY <1>6, PrepParts DEF Good
  <2>2. Queued(M)
    <3>1. OneResume(X.prep)
      BY <1>2, <1>6 DEF Queued
    <3>2. M.curr.active
      BY <1>8 DEF Begun
    <3>3. CASE X.curr.active
      <4>1. /\ M.prep = Append(X.prep, e) /\ DOMAIN M.prep = 1 .. Len(X.prep) + 1
            /\ M.prep[Len(X.prep) + 1] = e
            /\ \A i \in 1 .. Len(X.prep) : M.prep[i] = X.prep[i]
        BY <1>4, <1>8, <1>10, <2>1, <3>3, AppendProperties
      <4>2. ASSUME NEW i \in DOMAIN M.prep, NEW j \in DOMAIN M.prep, i < j,
                   M.prep[i].resume, M.prep[j].resume, M.prep[i].r = M.prep[j].r
            PROVE  M.prep[i].aborted
        <5>1. j # Len(X.prep) + 1
          BY <1>4, <4>1, <4>2
        <5>2. i \in DOMAIN X.prep /\ j \in DOMAIN X.prep
              /\ M.prep[i] = X.prep[i] /\ M.prep[j] = X.prep[j]
          BY <2>1, <4>1, <4>2, <5>1
        <5> QED
          BY <3>1, <4>2, <5>2 DEF OneResume
      <4> QED
        BY <3>2, <4>2 DEF Queued, OneResume
    <3>4. CASE ~X.curr.active
      BY <1>8, <3>1, <3>2, <3>4 DEF Queued
    <3> QED
      BY <3>3, <3>4
  <2>3. ASSUME NEW q \in Roles PROVE ref'[q] = Debt(M, q)
    <3>1. Debt(X, q) = ref[q] /\ Debt(X, q) \in Nat
      BY <1>2, <1>6, DebtIsOwed DEF Good
    <3>2. ref'[q] = ref[q] + (IF q = r THEN 1 ELSE 0)
      BY <1>2, <1>3 DEF RoleTypes
    <3>3. /\ Held(X.prep, q) \in Nat /\ Count(q, X.done) \in Nat /\ On(X, q) \in Nat
      BY <1>6, MineHeld, DebtIsOwed DEF Good
    <3>4. CASE X.curr.active
      <4>1. Held(M.prep, q) = Held(X.prep, q) + (IF e \in Of(q) THEN 1 ELSE 0)
        <5>1. M.prep = Append(X.prep, e)
          BY <1>8, <1>10, <3>4
        <5>2. Held(Append(X.prep, e), q) = Held(X.prep, q) + (IF e \in Of(q) THEN 1 ELSE 0)
          BY <1>4, <2>1, HeldAppend
        <5> QED
          BY <5>1, <5>2
      <4>2. e \in Of(q) <=> q = r
        BY <1>4 DEF Of
      <4>3. On(M, q) = On(X, q)
        BY <1>8, <3>4 DEF On
      <4> QED
        BY <1>8, <3>1, <3>2, <3>3, <4>1, <4>2, <4>3 DEF Debt
    <3>5. CASE ~X.curr.active
      <4>1. On(M, q) = (IF q = r THEN 1 ELSE 0) /\ On(X, q) = 0
        BY <1>7, <1>8, <3>5 DEF On, Begun, RolesAssumption
      <4> QED
        BY <1>8, <3>1, <3>2, <3>3, <3>5, <4>1 DEF Debt
    <3> QED
      BY <3>4, <3>5
  <2>4. RoleInv'
    <3>1. thread.r # r
      BY <1>1, <1>2 DEF RoleInv
    <3>2. \A q \in Roles : q # r => ref'[q] = ref[q]
      BY <1>2, <1>3 DEF RoleTypes
    <3>3. thread.r \in Roles \cup {None}
      BY <1>2 DEF RoleTypes
    <3>4. /\ \A q \in Roles : role[q] = "off" /\ thread.r # q => ref'[q] = 0
          /\ \A q \in Roles : role[q] = "closing" => cb[q] /\ ref'[q] > 0
      BY <1>1, <1>2, <3>2 DEF RoleInv
    <3>5. thread.r \in Roles => ref'[thread.r] = ref[thread.r]
      BY <3>1, <3>2
    <3>6. thread.at = "run" => thread.r = None /\ ~thread.sem
      BY <1>2 DEF RoleInv, ThreadIdle
    <3>7. thread.at # "run" => thread.r # None
      BY <1>2 DEF RoleInv
    <3>8. /\ thread.sem => ref'[thread.r] = 0
          /\ thread.at = "waits" /\ ~thread.sem => ref'[thread.r] > 0
      BY <1>2, <3>3, <3>5, <3>6, <3>7 DEF RoleInv
    <3> QED
      BY <1>2, <1>3, <3>4, <3>8 DEF RoleInv
  <2> QED
    BY <2>2, <2>3, <2>4
<1>11. RoleTypes'
  BY <1>2, <1>3 DEF RoleTypes
<1> QED
  BY <1>2, <1>3, <1>8, <1>9, <1>10, <1>11, SettledInv

-----------------------------------------------------------------------------
(***************************************************************************)
(* The steps of the ULL and of the thread.                                 *)
(***************************************************************************)
LEMMA RaisedParts ==
  ASSUME NEW L, Good(L), NEW name \in Faults, name # None, NEW M, M = [L EXCEPT !.fault = name]
  PROVE  /\ Good(M) /\ M.fault # None /\ ~Fine(M) /\ M.prep = L.prep /\ M.curr = L.curr
         /\ \A n, u : Ticking(M, n, u)
<1>1. L \in LllType
  BY DEF Good
<1>2. /\ M \in LllType /\ M.fault # None
      /\ M.h = L.h /\ M.prep = L.prep /\ M.curr = L.curr /\ M.starts = L.starts
      /\ M.stops = L.stops /\ M.runs = L.runs /\ M.at = L.at /\ M.ops = L.ops
      /\ M.done = L.done /\ M.due = L.due /\ M.self = L.self
  BY <1>1, FaultParts
<1>3. Good(M)
  BY <1>2 DEF Good, OpsShape
<1> QED
  BY <1>2, <1>3 DEF Fine, Ticking

\* A step that leaves LLL, its ticker and the ULL's work alone.
LEMMA LllUnchanged ==
  ASSUME Inv, Running, UNCHANGED <<lll, node, ull>>, RoleTypes', RoleInv',
         \A r \in Roles : ref'[r] = ref[r]
  PROVE  Inv'
<1>1. /\ Sound = lll /\ Sound' = lll' /\ lll'.fault # "start failed"
  BY DEF Running, NoFault, Sound, None
<1>2. Typed'
  BY <1>1 DEF Inv, Typed, RoleTypes
<1>3. Ticking(lll', node', ull')
  BY DEF Inv
<1>4. Fine(lll')
  BY DEF Running, NoFault, Fine
<1>5. Queued(lll') /\ \A r \in Roles : ref'[r] = Owed(lll', r)
  BY <1>1, <1>4 DEF Inv
<1> QED
  BY <1>1, <1>2, <1>3, <1>5 DEF Inv

\* preempt_ticker_cb: the node runs, so that a timeout is counted.
LEMMA ExpireKeeps ==
  ASSUME RolesAssumption, Inv, Expire
  PROVE  Inv'
<1>1. NoFault /\ ~lll.self /\ ull.at = "idle" /\ node.at = "running"
  BY DEF Expire, CanExpire, Running
<1>2. /\ Good(lll) /\ node \in NodeType /\ ull \in UllType /\ RoleTypes
      /\ Ticking(lll, node, ull) /\ Fine(lll) /\ Queued(lll) /\ RoleInv
      /\ \A r \in Roles : ref[r] = Debt(lll, r)
  BY <1>1, NoFaultParts
<1>3. lll.runs = 1
  BY <1>1, <1>2 DEF Ticking, NoFault
<1> DEFINE X == Later
           M == [X EXCEPT !.runs = X.runs - 1]
           n == [node EXCEPT !.at = "expired"]
           u == [at |-> "expired", slot |-> node.slot]
<1>4. /\ Good(X) /\ Fine(X) /\ X.curr = lll.curr
      /\ X.prep = lll.prep /\ X.done = lll.done /\ X.runs = lll.runs
      /\ \A q : Debt(X, q) = Debt(lll, q)
  BY <1>2, LaterParts
<1>5. Settle(M, n, u) /\ UNCHANGED <<ref, cb, role, thread>>
  BY <1>3 DEF Expire, Check
<1>6. /\ n \in NodeType /\ n.at = "expired" /\ u \in UllType /\ u.at = "expired"
  BY <1>2 DEF NodeType, UllType
<1> HIDE DEF X, n, u
<1>7. /\ M \in LllType /\ M.curr = X.curr /\ M.prep = X.prep /\ M.done = X.done /\ M.runs = 0
      /\ M.starts = X.starts /\ M.stops = X.stops /\ M.ops = X.ops
      /\ M.self = X.self /\ M.fault = X.fault
  <2>1. X \in LllType /\ X.runs - 1 = 0 /\ 0 \in Nat
    BY <1>3, <1>4 DEF Good
  <2> QED
    BY <2>1 DEF LllType
<1> HIDE DEF M
<1>8. Good(M)
  BY <1>4, <1>7 DEF Good, OpsShape
<1>9. Ticking(M, n, u)
  BY <1>6, <1>7 DEF Ticking, Attended
<1>10. Queued(M) /\ RoleInv' /\ \A q \in Roles : ref'[q] = Debt(M, q)
  BY <1>2, <1>4, <1>5, <1>7, RolesUnchanged DEF Queued, Debt, On, AllAborted
<1>11. RoleTypes'
  BY <1>2, <1>5, RolesUnchanged
<1> QED
  BY <1>5, <1>6, <1>8, <1>9, <1>10, <1>11, SettledInv

\* rx_demux_event_done: one reference less, for the done event that is gone.
LEMMA DemuxKeeps ==
  ASSUME RolesAssumption, Inv, Demux
  PROVE  Inv'
<1>1. NoFault /\ ~lll.self /\ ull.at = "idle" /\ lll.done # <<>>
  BY DEF Demux, CanDemux, Running
<1>2. /\ Good(lll) /\ node \in NodeType /\ ull \in UllType /\ RoleTypes
      /\ Ticking(lll, node, ull) /\ Fine(lll) /\ Queued(lll) /\ RoleInv
      /\ \A q \in Roles : ref[q] = Debt(lll, q)
  BY <1>1, NoFaultParts
<1> DEFINE r == Head(lll.done)
           rest == Tail(lll.done)
           isLast == r # None /\ ref[r] = 1 /\ cb[r]
           M == [lll EXCEPT !.done = rest]
<1>3. lll.done \in Seq(Roles \cup {None}) /\ lll \in LllType
  BY <1>2 DEF Good, LllType
<1>4. r \in Roles \cup {None} /\ rest \in Seq(Roles \cup {None})
      /\ Len(rest) = Len(lll.done) - 1 /\ Len(lll.done) \in Nat
  BY <1>1, <1>3, HeadTailProperties, LenProperties
<1>5. \A q : /\ Count(q, lll.done) = Count(q, rest) + (IF q = r THEN 1 ELSE 0)
             /\ Count(q, rest) \in Nat
  BY <1>1, <1>3, CountTail
<1>6. ASSUME NEW q \in Roles
      PROVE  /\ Held(lll.prep, q) \in Nat /\ On(lll, q) \in Nat /\ ref[q] \in Nat
             /\ ref[q] = Held(lll.prep, q) + On(lll, q) + Count(q, rest)
                         + (IF q = r THEN 1 ELSE 0)
  <2>1. ref[q] = Debt(lll, q) /\ ref[q] \in Nat /\ On(lll, q) \in Nat
        /\ Held(lll.prep, q) \in Nat
    BY <1>2, <1>3, MineHeld, DebtIsOwed DEF RoleTypes
  <2> HIDE DEF r, rest
  <2> QED
    BY <1>5, <2>1 DEF Debt
<1>7. r # None => r \in Roles /\ ref[r] \in Nat /\ ref[r] > 0
  <2>1. ASSUME r # None PROVE r \in Roles /\ ref[r] \in Nat /\ ref[r] > 0
    <3>1. r \in Roles
      BY <1>4, <2>1
    <3> HIDE DEF r, rest
    <3> QED
      BY <1>5, <1>6, <3>1
  <2> QED
    BY <2>1
<1>8. /\ Settle(M, node, ull) /\ cb' = cb
      /\ ref' = IF r = None THEN ref ELSE [ref EXCEPT ![r] = @ - 1]
      /\ role' = IF isLast /\ role[r] = "closing" THEN [role EXCEPT ![r] = "off"] ELSE role
      /\ thread' = [thread EXCEPT !.sem = @ \/ (isLast /\ thread.r = r)]
  BY <1>7 DEF Demux, Check
<1> HIDE DEF r, rest
<1>9. /\ M \in LllType /\ M.curr = lll.curr /\ M.prep = lll.prep /\ M.done = rest
      /\ M.runs = lll.runs /\ M.starts = lll.starts /\ M.stops = lll.stops /\ M.ops = lll.ops
      /\ M.self = lll.self /\ M.fault = lll.fault
  BY <1>3, <1>4 DEF LllType
<1> HIDE DEF M
<1>10. Good(M)
  <2>1. Len(rest) <= DoneMax
    BY <1>2, <1>4, NowNat DEF Good
  <2> QED
    BY <1>2, <1>9, <2>1 DEF Good, OpsShape
<1>11. Ticking(M, node, ull)
  <2>1. \A v : Attended(lll, v) => Attended(M, v)
    BY <1>9 DEF Attended, HasReady, Timed
  <2> QED
    BY <1>2, <1>9, <2>1 DEF Ticking
<1>12. \A q \in Roles : ref'[q] = ref[q] - (IF q = r THEN 1 ELSE 0) /\ ref'[q] \in Nat
  <2> SUFFICES ASSUME NEW q \in Roles
               PROVE  ref'[q] = ref[q] - (IF q = r THEN 1 ELSE 0) /\ ref'[q] \in Nat
    OBVIOUS
  <2>1. ref[q] \in Nat /\ q # None
    BY <1>6 DEF RolesAssumption
  <2>2. CASE r = None
    BY <1>8, <2>1, <2>2
  <2>3. CASE r # None
    BY <1>2, <1>7, <1>8, <2>1, <2>3 DEF RoleTypes
  <2> QED
    BY <2>2, <2>3
<1>13. \A q \in Roles : ref'[q] = Debt(M, q)
  BY <1>5, <1>6, <1>9, <1>12 DEF Debt, On
<1>14. Queued(M)
  BY <1>2, <1>9 DEF Queued, AllAborted
<1>15. RoleTypes'
  <2>1. ref' \in [Roles -> Nat]
    <3>1. DOMAIN ref' = Roles /\ ref' = [q \in Roles |-> ref'[q]]
      BY <1>2, <1>8 DEF RoleTypes
    <3> QED
      BY <1>12, <3>1
  <2>2. role' \in [Roles -> {"on", "closing", "off"}]
    BY <1>2, <1>7, <1>8 DEF RoleTypes
  <2>3. thread' \in [at : {"run", "stopped", "checked", "set", "waits"},
                     r : Roles \cup {None}, sem : BOOLEAN]
    <3> DEFINE sem == thread.sem \/ (isLast /\ thread.r = r)
    <3>1. sem \in BOOLEAN
      BY <1>2 DEF RoleTypes
    <3>2. thread' = [thread EXCEPT !.sem = sem]
      BY <1>8
    <3> HIDE DEF sem
    <3> QED
      BY <1>2, <3>1, <3>2 DEF RoleTypes
  <2> QED
    BY <1>2, <1>8, <2>1, <2>2, <2>3 DEF RoleTypes
<1>16. RoleInv'
  <2>1. /\ thread'.at = thread.at /\ thread'.r = thread.r
        /\ thread'.sem <=> thread.sem \/ (isLast /\ thread.r = r)
    <3> HIDE DEF isLast
    <3> QED
      BY <1>2, <1>8 DEF RoleTypes
  <2>2. \A q \in Roles : role'[q] = IF q = r /\ isLast /\ role[q] = "closing" THEN "off" ELSE role[q]
    BY <1>2, <1>7, <1>8 DEF RoleTypes
  <2>3. \A q \in Roles : role'[q] = "off" /\ thread'.r # q => ref'[q] = 0
    BY <1>2, <1>6, <1>12, <2>1, <2>2 DEF RoleInv
  <2>4. \A q \in Roles : role'[q] = "closing" => cb'[q] /\ ref'[q] > 0
    <3> SUFFICES ASSUME NEW q \in Roles, role'[q] = "closing" PROVE cb'[q] /\ ref'[q] > 0
      OBVIOUS
    <3>1. role[q] = "closing" /\ cb[q] /\ ref[q] > 0
      BY <1>2, <2>2 DEF RoleInv
    <3>2. q = r => ref[q] # 1
      BY <2>2, <3>1, RolesAssumption DEF RolesAssumption
    <3> QED
      BY <1>6, <1>8, <1>12, <3>1, <3>2
  <2>5. thread'.r # None => role'[thread'.r] = "off"
    <3>1. thread.r # None => thread.r \in Roles /\ role[thread.r] = "off"
      BY <1>2 DEF RoleTypes, RoleInv
    <3> QED
      BY <2>1, <2>2, <3>1
  <2>6. IF thread'.at = "run" THEN thread' = ThreadIdle ELSE thread'.r # None
    <3>1. CASE thread.at = "run"
      <4>1. thread = ThreadIdle /\ thread.r = None /\ ~thread.sem
        BY <1>2, <3>1 DEF RoleInv, ThreadIdle
      <4>2. ~(isLast /\ thread.r = r)
        BY <4>1
      <4>3. thread' = [thread EXCEPT !.sem = FALSE]
        <5>1. (thread.sem \/ (isLast /\ thread.r = r)) = FALSE
          BY <4>1, <4>2
        <5> QED
          BY <1>8, <5>1
      <4> QED
        BY <2>1, <3>1, <4>1, <4>3 DEF ThreadIdle
    <3>2. CASE thread.at # "run"
      BY <1>2, <2>1, <3>2 DEF RoleInv
    <3> QED
      BY <3>1, <3>2
  <2>7. thread'.sem => ref'[thread'.r] = 0
    <3> SUFFICES ASSUME thread'.sem PROVE ref'[thread.r] = 0
      BY <2>1
    <3>1. thread.r \in Roles
      <4>1. CASE thread.sem
        <5>1. thread.at # "run"
          BY <1>2, <4>1 DEF RoleInv, ThreadIdle
        <5> QED
          BY <1>2, <5>1 DEF RoleInv, RoleTypes
      <4>2. CASE isLast /\ thread.r = r
        BY <1>7, <4>2
      <4> QED
        BY <2>1, <4>1, <4>2
    <3>2. CASE thread.sem
      BY <1>2, <1>7, <1>12, <3>1, <3>2 DEF RoleInv
    <3>3. CASE isLast /\ thread.r = r
      BY <1>7, <1>12, <3>1, <3>3
    <3> QED
      BY <2>1, <3>2, <3>3
  <2>8. thread'.at \in {"set", "waits"} => cb'[thread'.r]
    BY <1>2, <1>8, <2>1 DEF RoleInv
  <2>9. thread'.at = "waits" /\ ~thread'.sem => ref'[thread'.r] > 0
    <3> SUFFICES ASSUME thread.at = "waits", ~thread'.sem PROVE ref'[thread.r] > 0
      BY <2>1
    <3>1. thread.r \in Roles /\ cb[thread.r] /\ ~thread.sem /\ ref[thread.r] > 0
      BY <1>2, <2>1 DEF RoleInv, RoleTypes
    <3>2. thread.r = r => ref[r] # 1
      BY <2>1, <3>1 DEF RolesAssumption
    <3> QED
      BY <1>6, <1>12, <3>1, <3>2
  <2>10. \A q \in Roles : role'[q] = "on" /\ q \in Connections => ~cb'[q]
    BY <1>2, <1>8, <2>2 DEF RoleInv
  <2> QED
    BY <2>3, <2>4, <2>5, <2>6, <2>7, <2>8, <2>9, <2>10 DEF RoleInv
<1> QED
  BY <1>2, <1>8, <1>10, <1>11, <1>13, <1>14, <1>15, <1>16, SettledInv

\* lll_disable of a role for which the ULL waits: every reference stays owed.
LEMMA DisableTicking ==
  ASSUME RolesAssumption, NEW L, Good(L), Queued(L), NEW r \in Roles, NEW M, M = LllDisable(L, r),
         NEW n, NEW u, u.at = "idle", Ticking(L, n, u), L.fault = None
  PROVE  /\ Good(M) /\ Ticking(M, n, u)
         /\ Fine(M) => Queued(M) /\ \A q \in Roles : Debt(M, q) = Debt(L, q)
<1>1. /\ Good(M) /\ M.runs = L.runs
      /\ \A v \in BOOLEAN : Attended(L, v) /\ M.fault = None => Attended(M, v)
      /\ (L.curr.active => M.curr.active) /\ (~L.curr.active => M = L)
      /\ Fine(M) => /\ Fine(L) /\ OneResume(M.prep)
                    /\ \A q \in Roles : Debt(M, q) = Debt(L, q)
  BY DisableParts DEF Queued
<1>2. Fine(M) => Queued(M)
  BY <1>1 DEF Queued
<1>3. Ticking(M, n, u)
  <2> SUFFICES ASSUME M.fault = None PROVE Ticking(M, n, u)
    BY DEF Ticking
  <2>1. L.self => M.self
    <3>1. M.fault = None /\ ~M.self => Fine(M)
      BY DEF Fine
    <3> QED
      BY <1>1, <3>1 DEF Fine
  <2>2. Attended(M, u.at \in {"starting", "expired"})
    <3>1. Attended(L, FALSE)
      BY DEF Ticking, Attended
    <3>2. Attended(M, FALSE)
      BY <1>1, <3>1
    <3> QED
      BY <3>2 DEF Attended
  <2> QED
    BY <1>1, <2>1, <2>2 DEF Ticking
<1> QED
  BY <1>1, <1>2, <1>3

LEMMA ConnDisableKeeps ==
  ASSUME RolesAssumption, Inv, NEW r \in Roles, ConnDisable(r)
  PROVE  Inv'
<1>1. NoFault /\ ~lll.self /\ ull.at = "idle" /\ role[r] = "on" /\ Running
  BY DEF ConnDisable, Running
<1>2. /\ Good(lll) /\ node \in NodeType /\ ull \in UllType /\ RoleTypes
      /\ Ticking(lll, node, ull) /\ Fine(lll) /\ Queued(lll) /\ RoleInv
      /\ \A q \in Roles : ref[q] = Debt(lll, q)
  BY <1>1, NoFaultParts
<1>3. ref' = ref /\ thread' = thread /\ thread.r # r /\ ~cb[r]
  BY <1>1, <1>2 DEF ConnDisable, RoleInv
<1>4. CASE ref[r] = 0
  <2>1. role' = [role EXCEPT ![r] = "off"] /\ UNCHANGED <<lll, node, ull, cb>>
    BY <1>4 DEF ConnDisable
  <2>2. RoleTypes'
    BY <1>2, <1>3, <2>1 DEF RoleTypes
  <2>3. RoleInv'
    BY <1>2, <1>3, <1>4, <2>1 DEF RoleInv, RoleTypes
  <2> QED
    BY <1>1, <1>3, <2>1, <2>2, <2>3, LllUnchanged
<1>5. CASE ref[r] # 0
  <2> DEFINE X == Later
             M == LllDisable(X, r)
  <2>1. /\ role' = [role EXCEPT ![r] = "closing"] /\ cb' = [cb EXCEPT ![r] = TRUE]
        /\ Settle(M, node, ull)
    BY <1>3, <1>5 DEF ConnDisable, Check
  <2>2. /\ Good(X) /\ Fine(X) /\ X.curr = lll.curr
        /\ X.prep = lll.prep /\ X.done = lll.done /\ X.runs = lll.runs
        /\ X.ops = lll.ops /\ X.starts = lll.starts /\ X.self = lll.self /\ X.fault = lll.fault
        /\ \A q : Debt(X, q) = Debt(lll, q)
        /\ \A u : Attended(lll, u) => Attended(X, u)
    BY <1>2, LaterParts
  <2>3. Ticking(X, node, ull) /\ Queued(X)
    BY <1>2, <2>2 DEF Ticking, Queued, AllAborted
  <2>4. RoleTypes'
    BY <1>2, <1>3, <2>1 DEF RoleTypes
  <2>5. RoleInv'
    <3>1. ref[r] > 0
      BY <1>2, <1>5 DEF RoleTypes
    <3> QED
      BY <1>2, <1>3, <2>1, <3>1 DEF RoleInv, RoleTypes
  <2> HIDE DEF X
  <2>6. M = LllDisable(X, r) /\ X.fault = None
    BY <2>2 DEF Fine
  <2> HIDE DEF M
  <2>7. /\ Good(M) /\ Ticking(M, node, ull)
        /\ Fine(M) => Queued(M) /\ \A q \in Roles : Debt(M, q) = Debt(X, q)
    BY <1>1, <2>2, <2>3, <2>6, DisableTicking
  <2>8. Fine(M) => Queued(M) /\ RoleInv' /\ \A q \in Roles : ref'[q] = Debt(M, q)
    BY <1>2, <1>3, <2>2, <2>5, <2>7
  <2> QED
    BY <1>2, <2>1, <2>4, <2>7, <2>8, SettledInv
<1> QED
  BY <1>4, <1>5

LEMMA StartKeeps ==
  ASSUME RolesAssumption, Inv, NEW r \in Roles, Start(r)
  PROVE  Inv'
<1>1. NoFault /\ ~lll.self /\ Running /\ role[r] = "off" /\ thread.r # r
  BY DEF Start, Running
<1>2. RoleTypes /\ RoleInv
  BY <1>1, NoFaultParts
<1>3. /\ role' = [role EXCEPT ![r] = "on"] /\ cb' = [cb EXCEPT ![r] = FALSE]
      /\ ref' = [ref EXCEPT ![r] = 0] /\ UNCHANGED <<lll, node, ull, thread>>
  BY DEF Start
<1>4. ref[r] = 0
  BY <1>1, <1>2 DEF RoleInv
<1>5. ref' = ref
  BY <1>2, <1>3, <1>4 DEF RoleTypes
<1>6. RoleTypes'
  BY <1>2, <1>3, <1>5 DEF RoleTypes
<1>7. RoleInv'
  <2>1. \A q \in Roles : role'[q] = IF q = r THEN "on" ELSE role[q]
    BY <1>2, <1>3 DEF RoleTypes
  <2>2. \A q \in Roles : cb'[q] = IF q = r THEN FALSE ELSE cb[q]
    BY <1>2, <1>3 DEF RoleTypes
  <2>3. thread.r # None => thread.r \in Roles
    BY <1>2 DEF RoleTypes
  <2>4. thread.at \in {"set", "waits"} => thread.r # None
    BY <1>2 DEF RoleInv
  <2> QED
    <3>1. \A q \in Roles : role'[q] = "on" /\ q \in Connections => ~cb'[q]
      BY <1>2, <2>1, <2>2 DEF RoleInv
    <3>2. thread.r # None => role[thread.r] = "off" /\ thread.r # r
      BY <1>1, <1>2 DEF RoleInv
    <3> QED
      BY <1>1, <1>2, <1>3, <1>5, <2>1, <2>2, <2>3, <2>4, <3>1, <3>2 DEF RoleInv
<1> QED
  BY <1>1, <1>3, <1>5, <1>6, <1>7, LllUnchanged

LEMMA TickerStopKeeps ==
  ASSUME RolesAssumption, Inv, NEW r \in Roles, TickerStop(r)
  PROVE  Inv'
<1>1. NoFault /\ ~lll.self /\ Running /\ role[r] = "on" /\ thread.at = "run"
  BY DEF TickerStop, ThreadRuns, Running
<1>2. RoleTypes /\ RoleInv
  BY <1>1, NoFaultParts
<1>3. /\ role' = [role EXCEPT ![r] = "off"]
      /\ thread' = [at |-> "stopped", r |-> r, sem |-> FALSE]
      /\ UNCHANGED <<lll, node, ull, ref, cb>>
  BY DEF TickerStop
<1>4. thread.r = None
  BY <1>1, <1>2 DEF RoleInv, ThreadIdle
<1>5. RoleTypes'
  BY <1>2, <1>3 DEF RoleTypes
<1>6. RoleInv'
  <2>1. \A q \in Roles : role'[q] = IF q = r THEN "off" ELSE role[q]
    BY <1>2, <1>3 DEF RoleTypes
  <2>2. r # None
    BY DEF RolesAssumption
  <2> QED
    BY <1>2, <1>3, <1>4, <2>1, <2>2 DEF RoleInv, RolesAssumption
<1> QED
  BY <1>1, <1>3, <1>5, <1>6, LllUnchanged

LEMMA ThreadKeeps ==
  ASSUME RolesAssumption, Inv, Thread
  PROVE  Inv'
<1>1. NoFault /\ ~lll.self /\ Running /\ ull.at = "idle"
  BY DEF Thread, FirstCheck, SetDisabledCb, SecondCheck, SemTake, ThreadRuns, Running
<1>2. /\ Good(lll) /\ node \in NodeType /\ ull \in UllType /\ RoleTypes
      /\ Ticking(lll, node, ull) /\ Fine(lll) /\ Queued(lll) /\ RoleInv
      /\ \A q \in Roles : ref[q] = Debt(lll, q)
  BY <1>1, NoFaultParts
<1>3. thread.at # "run" /\ thread.r \in Roles
  <2>1. thread.at # "run"
    BY DEF Thread, FirstCheck, SetDisabledCb, SecondCheck, SemTake
  <2> QED
    BY <1>2, <2>1 DEF RoleInv, RoleTypes
<1>4. role' = role /\ ref' = ref
  BY DEF Thread, FirstCheck, SetDisabledCb, SecondCheck, SemTake
<1>5. ThreadIdle \in [at : {"run", "stopped", "checked", "set", "waits"},
                      r : Roles \cup {None}, sem : BOOLEAN]
      /\ ThreadIdle.at = "run" /\ ThreadIdle.r = None /\ ThreadIdle.sem = FALSE
  BY DEF ThreadIdle
<1>6. ASSUME ref[thread.r] = 0, thread' = ThreadIdle, cb' = cb
      PROVE  RoleTypes' /\ RoleInv'
  <2>1. RoleTypes'
    BY <1>2, <1>4, <1>5, <1>6 DEF RoleTypes
  <2>2. \A q \in Roles : role[q] = "off" => ref[q] = 0
    BY <1>2, <1>6 DEF RoleInv
  <2> QED
    BY <1>2, <1>4, <1>5, <1>6, <2>1, <2>2 DEF RoleInv
<1>7. CASE FirstCheck
  <2>1. UNCHANGED <<lll, node, ull, ref, cb, role>> /\ thread.at = "stopped"
    BY <1>7 DEF FirstCheck
  <2>2. RoleTypes' /\ RoleInv'
    <3>1. CASE NoReference
      BY <1>6, <1>7, <2>1, <3>1 DEF FirstCheck, NoReference
    <3>2. CASE ~NoReference
      <4>1. thread' = [thread EXCEPT !.at = "checked"]
        BY <1>7, <3>2 DEF FirstCheck
      <4>2. /\ thread'.at = "checked" /\ thread'.r = thread.r /\ thread'.sem = thread.sem
            /\ RoleTypes'
        BY <1>2, <2>1, <4>1 DEF RoleTypes
      <4> QED
        BY <1>2, <1>3, <2>1, <4>2 DEF RoleInv
    <3> QED
      BY <3>1, <3>2
  <2> QED
    BY <1>1, <2>1, <2>2, LllUnchanged
<1>8. CASE SetDisabledCb
  <2>1. /\ UNCHANGED <<lll, node, ull, ref, role>>
        /\ cb' = [cb EXCEPT ![thread.r] = TRUE] /\ thread' = [thread EXCEPT !.at = "set"]
    BY <1>8 DEF SetDisabledCb
  <2>2. /\ thread'.at = "set" /\ thread'.r = thread.r /\ thread'.sem = thread.sem
        /\ RoleTypes'
    BY <1>2, <2>1 DEF RoleTypes
  <2>3. \A q \in Roles : cb'[q] = IF q = thread.r THEN TRUE ELSE cb[q]
    BY <1>2, <2>1 DEF RoleTypes
  <2>4. RoleInv'
    <3>1. role[thread.r] = "off"
      BY <1>2, <1>3 DEF RoleInv, RolesAssumption
    <3>2. \A q \in Roles : role[q] = "on" /\ q \in Connections => ~cb'[q]
      BY <1>2, <2>3, <3>1 DEF RoleInv
    <3> QED
      BY <1>2, <1>3, <2>1, <2>2, <2>3, <3>2 DEF RoleInv
  <2> QED
    BY <1>1, <2>1, <2>2, <2>4, LllUnchanged
<1>9. CASE SemTake
  <2>1. UNCHANGED <<lll, node, ull, ref, cb, role>> /\ thread.sem /\ thread' = ThreadIdle
    BY <1>9 DEF SemTake
  <2>2. ref[thread.r] = 0
    BY <1>2, <2>1 DEF RoleInv
  <2> QED
    BY <1>1, <1>6, <2>1, <2>2, LllUnchanged
<1>10. CASE SecondCheck
  <2>1. cb' = cb /\ thread.at = "set"
    BY <1>10 DEF SecondCheck
  <2>2. CASE NoReference
    <3>1. thread' = ThreadIdle /\ UNCHANGED <<lll, node, ull>> /\ ref[thread.r] = 0
      BY <1>10, <2>2 DEF SecondCheck, NoReference
    <3> QED
      BY <1>1, <1>4, <1>6, <2>1, <3>1, LllUnchanged
  <2>3. CASE ~NoReference
    <3> DEFINE r == thread.r
               M == LllDisable(lll, r)
    <3>1. thread' = [thread EXCEPT !.at = "waits"] /\ Settle(M, node, ull)
      BY <1>10, <2>3 DEF SecondCheck
    <3>2. r \in Roles /\ M = LllDisable(lll, r) /\ lll.fault = None
      BY <1>1, <1>3 DEF NoFault
    <3> HIDE DEF r, M
    <3>3. /\ Good(M) /\ Ticking(M, node, ull)
          /\ Fine(M) => Queued(M) /\ \A q \in Roles : Debt(M, q) = Debt(lll, q)
      BY <1>1, <1>2, <3>2, DisableTicking
    <3>4. /\ thread'.at = "waits" /\ thread'.r = thread.r /\ thread'.sem = thread.sem
          /\ RoleTypes'
      BY <1>2, <1>4, <2>1, <3>1 DEF RoleTypes
    <3>5. RoleInv'
      <4>1. ref[thread.r] > 0 /\ cb[thread.r]
        BY <1>2, <1>3, <2>1, <2>3 DEF NoReference, RoleTypes, RoleInv
      <4> QED
        BY <1>2, <1>3, <1>4, <2>1, <3>4, <4>1 DEF RoleInv
    <3>6. Fine(M) => Queued(M) /\ RoleInv' /\ \A q \in Roles : ref'[q] = Debt(M, q)
      BY <1>2, <1>4, <3>3, <3>5
    <3> QED
      BY <1>2, <3>1, <3>3, <3>4, <3>6, SettledInv
  <2> QED
    BY <2>2, <2>3
<1> QED
  BY <1>7, <1>8, <1>9, <1>10 DEF Thread

-----------------------------------------------------------------------------
(***************************************************************************)
(* The ticker's job.                                                       *)
(***************************************************************************)
LEMMA RemoveAtIs ==
  ASSUME NEW s \in Seq(Operation), NEW k \in 1 .. Len(s), NEW q, q = RemoveAt(s, k)
  PROVE  /\ q \in Seq(Operation) /\ Len(q) = Len(s) - 1 /\ Len(s) \in Nat
         /\ \A i \in 1 .. Len(s) - 1 : q[i] = IF i < k THEN s[i] ELSE s[i + 1]
<1> DEFINE a == SubSeq(s, 1, k - 1)
           b == SubSeq(s, k + 1, Len(s))
<1>1. Len(s) \in Nat /\ k \in Nat /\ 1 <= k /\ k <= Len(s)
  BY LenProperties
<1>2. /\ a \in Seq(Operation) /\ Len(a) = k - 1
      /\ \A i \in 1 .. k - 1 : a[i] = s[i]
  <2>1. 1 \in 1 .. Len(s) + 1 /\ k - 1 \in 0 .. Len(s) /\ k - 1 \in 1 - 1 .. Len(s)
    BY <1>1
  <2>2. /\ SubSeq(s, 1, k - 1) \in Seq(Operation)
        /\ Len(SubSeq(s, 1, k - 1)) = IF 1 <= k - 1 THEN (k - 1) - 1 + 1 ELSE 0
        /\ \A i \in 1 .. (k - 1) - 1 + 1 : SubSeq(s, 1, k - 1)[i] = s[1 + i - 1]
    BY <1>1, <2>1, SubSeqProperties
  <2>3. (k - 1) - 1 + 1 = k - 1 /\ \A i \in 1 .. k - 1 : 1 + i - 1 = i
    BY <1>1
  <2> QED
    BY <1>1, <2>2, <2>3
<1>3. /\ b \in Seq(Operation) /\ Len(b) = Len(s) - k
      /\ \A i \in 1 .. Len(s) - k : b[i] = s[k + i]
  <2>1. k + 1 \in Int /\ Len(s) \in Int /\ \A i \in k + 1 .. Len(s) : s[i] \in Operation
    <3>1. k + 1 .. Len(s) \subseteq 1 .. Len(s)
      BY <1>1
    <3> QED
      BY <1>1, <3>1, ElementOfSeq
  <2>2. /\ SubSeq(s, k + 1, Len(s)) \in Seq(Operation)
        /\ Len(SubSeq(s, k + 1, Len(s))) = IF k + 1 <= Len(s) THEN Len(s) - (k + 1) + 1 ELSE 0
        /\ \A i \in 1 .. Len(s) - (k + 1) + 1 : SubSeq(s, k + 1, Len(s))[i] = s[(k + 1) + i - 1]
    BY ONLY <2>1, SubSeqProperties
  <2>3. /\ (IF k + 1 <= Len(s) THEN Len(s) - (k + 1) + 1 ELSE 0) = Len(s) - k
        /\ Len(s) - (k + 1) + 1 = Len(s) - k
        /\ \A i \in 1 .. Len(s) - k : (k + 1) + i - 1 = k + i
    BY <1>1
  <2>4. b \in Seq(Operation) /\ Len(b) = Len(s) - k
    BY ONLY <2>2, <2>3
  <2>5. ASSUME NEW i \in 1 .. Len(s) - k PROVE b[i] = s[k + i]
    <3>1. b[i] = s[(k + 1) + i - 1] /\ (k + 1) + i - 1 = k + i
      BY ONLY <2>2, <2>3, <2>5
    <3> QED
      BY ONLY <3>1
  <2> QED
    BY ONLY <2>4, <2>5
<1>4. q = a \o b
  BY DEF RemoveAt
<1> HIDE DEF a, b
<1>5. /\ q \in Seq(Operation) /\ Len(q) = Len(a) + Len(b)
      /\ \A i \in 1 .. Len(a) + Len(b) : q[i] = IF i <= Len(a) THEN a[i] ELSE b[i - Len(a)]
  <2>1. a \in Seq(Operation) /\ b \in Seq(Operation)
    BY <1>2, <1>3
  <2>2. /\ a \o b \in Seq(Operation) /\ Len(a \o b) = Len(a) + Len(b)
        /\ \A i \in 1 .. Len(a) + Len(b) : (a \o b)[i] = IF i <= Len(a) THEN a[i] ELSE b[i - Len(a)]
    BY ONLY <2>1, ConcatProperties
  <2> QED
    BY ONLY <1>4, <2>2
<1>6. ASSUME NEW i \in 1 .. Len(s) - 1 PROVE q[i] = IF i < k THEN s[i] ELSE s[i + 1]
  <2>1. i \in 1 .. Len(a) + Len(b) /\ i \in Nat
    BY <1>1, <1>2, <1>3
  <2>2. CASE i < k
    BY <1>1, <1>2, <1>5, <2>1, <2>2
  <2>3. CASE ~(i < k)
    <3>1. q[i] = b[i - Len(a)] /\ i - Len(a) = i - k + 1 /\ i - k + 1 \in 1 .. Len(s) - k
      BY <1>1, <1>2, <1>5, <2>1, <2>3
    <3>2. b[i - k + 1] = s[k + (i - k + 1)] /\ k + (i - k + 1) = i + 1
      BY <1>1, <1>3, <3>1
    <3> QED
      BY <2>3, <3>1, <3>2
  <2> QED
    BY <2>2, <2>3
<1> QED
  BY <1>1, <1>2, <1>3, <1>5, <1>6

LEMMA SeenParts ==
  ASSUME NEW s \in Seq(Operation), NEW k \in Int, NEW q, q = SeenBefore(s, k)
  PROVE  /\ q \in Seq(Operation) /\ Len(q) = Len(s) /\ Len(s) \in Nat
         /\ DOMAIN q = 1 .. Len(s) /\ DOMAIN s = 1 .. Len(s)
         /\ \A i \in 1 .. Len(s) : /\ q[i].op = s[i].op
                                   /\ q[i].seen <=> s[i].seen \/ i < k
<1>1. Len(s) \in Nat /\ DOMAIN s = 1 .. Len(s) /\ \A i \in 1 .. Len(s) : s[i] \in Operation
  BY LenProperties, ElementOfSeq
<1>2. q = [i \in 1 .. Len(s) |-> [s[i] EXCEPT !.seen = s[i].seen \/ i < k]]
  BY <1>1 DEF SeenBefore
<1>3. ASSUME NEW i \in 1 .. Len(s)
      PROVE  /\ q[i] \in Operation /\ q[i].op = s[i].op
             /\ q[i].seen <=> s[i].seen \/ i < k
  <2> DEFINE seen == s[i].seen \/ i < k
             o == s[i]
  <2>1. seen \in BOOLEAN /\ o \in Operation
    BY <1>1
  <2>2. q[i] = [o EXCEPT !.seen = seen]
    BY <1>2
  <2> HIDE DEF seen, o
  <2>3. q[i] \in Operation /\ q[i].op = o.op /\ q[i].seen = seen
    BY <2>1, <2>2 DEF Operation
  <2> QED
    BY <2>3 DEF seen, o
<1>4. q \in [1 .. Len(s) -> Operation]
  <2>1. q = [i \in 1 .. Len(s) |-> q[i]]
    BY <1>2
  <2> QED
    BY <1>3, <2>1
<1>5. q \in Seq(Operation) /\ Len(q) = Len(s) /\ DOMAIN q = 1 .. Len(s)
  BY <1>1, <1>4, SeqFrom
<1> QED
  BY <1>1, <1>3, <1>5

\* Five shapes, by the operations that are there.
LEMMA StopShapes ==
  ASSUME Good(lll), Unseen("stop") # {}
  PROVE  LET k == FirstStop
         IN /\ k \in 1 .. Len(lll.ops) /\ IsStop(lll.ops[k])
            /\ lll.stops = 1 /\ lll.starts \in {1, 2} /\ lll.self
            /\ \/ k = 1 /\ lll.starts = 1 /\ Len(lll.ops) = 2 /\ IsStart(lll.ops[2])
               \/ /\ k = 2 /\ lll.starts = 2 /\ Len(lll.ops) = 3
                  /\ IsStart(lll.ops[1]) /\ IsStart(lll.ops[3])
<1> DEFINE S == Unseen("stop")
           k == FirstStop
<1>1. lll.ops \in Seq(Operation) /\ Len(lll.ops) \in Nat /\ DOMAIN lll.ops = 1 .. Len(lll.ops)
  BY OpsParts, LenProperties
<1>2. S \in SUBSET Nat /\ S \in SUBSET (1 .. Len(lll.ops))
      /\ \A i \in 1 .. Len(lll.ops) : i \in S <=> IsStop(lll.ops[i])
  BY <1>1 DEF Unseen, IsStop
<1>3. k \in S /\ \A j \in S : k <= j
  <2>1. \E i \in S : \A j \in S : i <= j
    BY <1>2, LeastNatural
  <2> QED
    BY <2>1 DEF FirstStop
<1> HIDE DEF S, k
<1>4. \A o : ~(IsStart(o) /\ IsStop(o))
  BY DEF IsStart, IsStop
<1>5. OpsShape(lll) /\ (~lll.self => Len(lll.ops) <= 1)
  BY DEF Good
<1>6. k \in 1 .. Len(lll.ops) /\ IsStop(lll.ops[k]) /\ \A j \in 1 .. Len(lll.ops) : IsStop(lll.ops[j]) => k <= j
  BY <1>2, <1>3
<1>7. \/ k = 1 /\ lll.starts = 1 /\ Len(lll.ops) = 2 /\ IsStart(lll.ops[2]) /\ lll.stops = 1
      \/ /\ k = 2 /\ lll.starts = 2 /\ Len(lll.ops) = 3 /\ lll.stops = 1
         /\ IsStart(lll.ops[1]) /\ IsStart(lll.ops[3])
  BY <1>1, <1>4, <1>5, <1>6 DEF OpsShape
<1> QED
  BY <1>5, <1>6, <1>7 DEF k

LEMMA UllAtType ==
  /\ NodeIdle \in NodeType /\ NodeIdle.at = "idle"
  /\ \A at \in {"idle", "managing", "stopping", "inserting", "starting"} :
       [UllIdle EXCEPT !.at = at] \in UllType /\ [UllIdle EXCEPT !.at = at].at = at
<1>1. NoSlot \in 0 .. NoSlot
  BY DEF NoSlot, Slots, PipelineMax
<1> QED
  BY <1>1 DEF NodeIdle, NodeType, UllIdle, UllType

\* A stop is managed, and a start follows it.
LEMMA JobStopKeeps ==
  ASSUME RolesAssumption, Inv, JobStop
  PROVE  Inv'
<1>1. NoFault /\ ull.at \in {"idle", "managing"} /\ Unseen("stop") # {}
  BY DEF JobStop
<1>2. Good(lll) /\ RoleTypes /\ Ticking(lll, node, ull)
  BY <1>1, NoFaultParts
<1> DEFINE k == FirstStop
           seen == SeenBefore(lll.ops, k)
           ops == RemoveAt(seen, k)
           M == [lll EXCEPT !.ops = ops, !.stops = lll.stops - 1]
           u == [UllIdle EXCEPT !.at = "stopping"]
<1>3. Settle(M, NodeIdle, u) /\ UNCHANGED <<ref, cb, role, thread>>
  BY DEF JobStop
<1>4. NodeIdle \in NodeType /\ NodeIdle.at = "idle" /\ u \in UllType /\ u.at = "stopping"
  BY UllAtType
<1>5. /\ k \in 1 .. Len(lll.ops) /\ lll.stops = 1 /\ lll.starts \in {1, 2} /\ lll.self
      /\ \/ k = 1 /\ lll.starts = 1 /\ Len(lll.ops) = 2 /\ IsStart(lll.ops[2])
         \/ /\ k = 2 /\ lll.starts = 2 /\ Len(lll.ops) = 3
            /\ IsStart(lll.ops[1]) /\ IsStart(lll.ops[3])
  BY <1>1, <1>2, StopShapes
<1> HIDE DEF k
<1>6. lll.ops \in Seq(Operation) /\ lll \in LllType /\ k \in Int
  BY <1>2, <1>5, OpsParts DEF Good
<1>7. /\ seen \in Seq(Operation) /\ Len(seen) = Len(lll.ops)
      /\ \A i \in 1 .. Len(lll.ops) : seen[i].op = lll.ops[i].op
  BY <1>6, SeenParts
<1> HIDE DEF seen
<1>8. /\ ops \in Seq(Operation) /\ Len(ops) = Len(lll.ops) - 1
      /\ \A i \in 1 .. Len(lll.ops) - 1 : ops[i] = IF i < k THEN seen[i] ELSE seen[i + 1]
  BY <1>5, <1>7, RemoveAtIs
<1> HIDE DEF ops, u
<1>9. /\ M \in LllType /\ M.ops = ops /\ M.stops = 0
      /\ M.prep = lll.prep /\ M.curr = lll.curr /\ M.starts = lll.starts
      /\ M.runs = lll.runs /\ M.done = lll.done /\ M.self = lll.self /\ M.fault = lll.fault
  <2>1. lll.stops - 1 = 0 /\ 0 \in Nat
    BY <1>5
  <2> QED
    BY <1>6, <1>8, <2>1 DEF LllType
<1> HIDE DEF M
<1>10. OpsShape(M)
  <2>1. CASE k = 1 /\ lll.starts = 1 /\ Len(lll.ops) = 2 /\ IsStart(lll.ops[2])
    <3>1. Len(ops) = 1 /\ ops[1] = seen[2] /\ seen[2].op = lll.ops[2].op
      BY <1>7, <1>8, <2>1
    <3> QED
      BY <1>9, <2>1, <3>1 DEF OpsShape, IsStart
  <2>2. CASE /\ k = 2 /\ lll.starts = 2 /\ Len(lll.ops) = 3
             /\ IsStart(lll.ops[1]) /\ IsStart(lll.ops[3])
    <3>1. /\ Len(ops) = 2 /\ ops[1] = seen[1] /\ seen[1].op = lll.ops[1].op
          /\ ops[2] = seen[3] /\ seen[3].op = lll.ops[3].op
      BY <1>7, <1>8, <2>2
    <3> QED
      BY <1>9, <2>2, <3>1 DEF OpsShape, IsStart
  <2> QED
    BY <1>5, <2>1, <2>2
<1>11. Good(M)
  BY <1>2, <1>5, <1>9, <1>10 DEF Good
<1>12. Ticking(M, NodeIdle, u)
  <2>1. lll.runs <= 1 /\ Attended(lll, FALSE)
    BY <1>1, <1>2 DEF Ticking, NoFault, Attended
  <2>2. Attended(M, FALSE)
    BY <1>9, <2>1 DEF Attended, HasReady, Timed
  <2> QED
    BY <1>4, <1>5, <1>9, <2>1, <2>2 DEF Ticking, Attended
<1>13. ~Fine(M)
  BY <1>5, <1>9 DEF Fine
<1>14. RoleTypes'
  BY <1>2, <1>3, RolesUnchanged
<1> QED
  BY <1>3, <1>4, <1>11, <1>12, <1>13, <1>14, SettledInv

LEMMA StopOpCbKeeps ==
  ASSUME RolesAssumption, Inv, StopOpCb
  PROVE  Inv'
<1>1. NoFault /\ ull.at = "stopping"
  BY DEF StopOpCb
<1>2. Good(lll) /\ node \in NodeType /\ RoleTypes /\ Ticking(lll, node, ull)
  BY <1>1, NoFaultParts
<1> DEFINE M == [lll EXCEPT !.runs = 0]
           u == [UllIdle EXCEPT !.at = "managing"]
<1>3. Settle(M, node, u) /\ UNCHANGED <<ref, cb, role, thread>>
  BY DEF StopOpCb
<1>4. u \in UllType /\ u.at = "managing"
  BY UllAtType
<1>5. lll.self /\ lll.starts > 0
  BY <1>1, <1>2 DEF Ticking, NoFault
<1> HIDE DEF u
<1>6. /\ M \in LllType /\ M.ops = lll.ops /\ M.stops = lll.stops
      /\ M.prep = lll.prep /\ M.curr = lll.curr /\ M.starts = lll.starts
      /\ M.runs = 0 /\ M.done = lll.done /\ M.self = lll.self /\ M.fault = lll.fault
  BY <1>2 DEF LllType, Good
<1> HIDE DEF M
<1>7. Good(M)
  BY <1>2, <1>6 DEF Good, OpsShape
<1>8. Ticking(M, node, u)
  BY <1>4, <1>5, <1>6 DEF Ticking, Attended, Timed
<1>9. ~Fine(M) /\ RoleTypes'
  BY <1>2, <1>3, <1>5, <1>6, RolesUnchanged DEF Fine
<1> QED
  BY <1>2, <1>3, <1>4, <1>7, <1>8, <1>9, SettledInv

\* The end of the job: starts that were seen are served next, no stop is seen.
LEMMA JobRestKeeps ==
  ASSUME RolesAssumption, Inv, JobRest
  PROVE  Inv'
<1>1. NoFault /\ ull.at \in {"idle", "managing"}
  BY DEF JobRest
<1>2. /\ Good(lll) /\ node \in NodeType /\ RoleTypes /\ Ticking(lll, node, ull)
      /\ ~lll.self => /\ Fine(lll) /\ Queued(lll) /\ RoleInv
                      /\ \A r \in Roles : ref[r] = Debt(lll, r)
  BY <1>1, NoFaultParts
<1> DEFINE k == IF Unseen("stop") = {} THEN Len(lll.ops) + 1 ELSE FirstStop
           ops == SeenBefore(lll.ops, k)
           M == [lll EXCEPT !.ops = ops]
           n == IF node.at = "expired" THEN NodeIdle ELSE node
           u == [UllIdle EXCEPT !.at = IF ops # <<>> /\ Head(ops).seen THEN "inserting" ELSE "idle"]
<1>3. Settle(M, n, u) /\ UNCHANGED <<ref, cb, role, thread>>
  BY DEF JobRest
<1>4. lll.ops \in Seq(Operation) /\ lll \in LllType /\ Len(lll.ops) \in Nat
  BY <1>2, OpsParts DEF Good
<1>5. k \in Int /\ \A i \in 1 .. Len(lll.ops) : IsStop(lll.ops[i]) => ~(i < k)
  <2>1. CASE Unseen("stop") = {}
    <3>1. \A i \in 1 .. Len(lll.ops) : ~IsStop(lll.ops[i])
      BY <1>4, <2>1, LenProperties DEF Unseen, IsStop
    <3> QED
      BY <1>4, <2>1, <3>1
  <2>2. CASE Unseen("stop") # {}
    <3> DEFINE S == Unseen("stop")
    <3>1. S \in SUBSET Nat /\ S # {} /\ \A i \in 1 .. Len(lll.ops) : IsStop(lll.ops[i]) => i \in S
      BY <1>4, <2>2, LenProperties DEF Unseen, IsStop
    <3>2. \E i \in S : \A j \in S : i <= j
      BY <3>1, LeastNatural
    <3>3. k = FirstStop
      BY <2>2
    <3>4. k \in S /\ \A j \in S : k <= j
      BY <3>2, <3>3 DEF FirstStop
    <3> HIDE DEF S, k
    <3>5. ASSUME NEW i \in 1 .. Len(lll.ops), IsStop(lll.ops[i]) PROVE ~(i < k)
      <4>1. i \in Nat /\ k \in Nat /\ k <= i
        BY <1>4, <3>1, <3>4, <3>5
      <4> QED
        BY <4>1
    <3> QED
      BY <3>1, <3>4, <3>5
  <2> QED
    BY <2>1, <2>2
<1> HIDE DEF k
<1>6. /\ ops \in Seq(Operation) /\ Len(ops) = Len(lll.ops)
      /\ \A i \in 1 .. Len(lll.ops) : /\ ops[i].op = lll.ops[i].op
                                      /\ ops[i].seen <=> lll.ops[i].seen \/ i < k
  BY <1>4, <1>5, SeenParts
<1> HIDE DEF ops
<1>7. /\ M \in LllType /\ M.ops = ops /\ M.stops = lll.stops
      /\ M.prep = lll.prep /\ M.curr = lll.curr /\ M.starts = lll.starts
      /\ M.runs = lll.runs /\ M.done = lll.done /\ M.self = lll.self /\ M.fault = lll.fault
  BY <1>4, <1>6 DEF LllType
<1> HIDE DEF M
<1>8. \A i \in 1 .. Len(lll.ops) : /\ IsStart(M.ops[i]) <=> IsStart(lll.ops[i])
                                   /\ IsStop(lll.ops[i]) => IsStop(M.ops[i])
  BY <1>5, <1>6, <1>7 DEF IsStart, IsStop
<1>9. Good(M)
  <2>1. OpsShape(lll) /\ (~lll.self => Len(lll.ops) <= 1)
    BY <1>2 DEF Good
  <2>2. OpsShape(M)
    BY <1>6, <1>7, <1>8, <2>1 DEF OpsShape
  <2> QED
    BY <1>2, <1>6, <1>7, <2>1, <2>2 DEF Good
<1>10. n \in NodeType /\ (n.at = "running" <=> node.at = "running")
  BY <1>2, UllAtType
<1>11. /\ u \in UllType /\ u.at \in {"inserting", "idle"}
       /\ u.at = "inserting" => M.ops # <<>> /\ M.ops[1].seen
  BY <1>6, <1>7, UllAtType
<1> HIDE DEF n, u
<1>12. Ticking(M, n, u)
  <2>1. /\ lll.runs <= 1 /\ Attended(lll, FALSE)
        /\ lll.runs = 1 => node.at = "running"
        /\ ~lll.self => ull.at = "idle" /\ (node.at = "running" => lll.runs = 1)
    BY <1>1, <1>2 DEF Ticking, NoFault, Attended
  <2>2. Attended(M, FALSE)
    BY <1>7, <2>1 DEF Attended, HasReady, Timed
  <2> QED
    BY <1>7, <1>10, <1>11, <2>1, <2>2 DEF Ticking, Attended
<1>13. ASSUME Fine(M)
       PROVE  Queued(M) /\ RoleInv' /\ \A r \in Roles : ref'[r] = Debt(M, r)
  BY <1>2, <1>3, <1>7, <1>13, RolesUnchanged DEF Fine, Queued, AllAborted, Debt, On
<1>14. RoleTypes'
  BY <1>2, <1>3, RolesUnchanged
<1> QED
  BY <1>3, <1>9, <1>10, <1>11, <1>12, <1>13, <1>14, SettledInv

LEMMA StartOpCbKeeps ==
  ASSUME RolesAssumption, Inv, StartOpCb
  PROVE  Inv'
<1>1. NoFault /\ ull.at = "starting"
  BY DEF StartOpCb
<1>2. /\ Good(lll) /\ node \in NodeType /\ RoleTypes /\ Ticking(lll, node, ull)
      /\ ~lll.self => /\ Fine(lll) /\ Queued(lll) /\ RoleInv
                      /\ \A r \in Roles : ref[r] = Debt(lll, r)
  BY <1>1, NoFaultParts
<1>3. lll \in LllType /\ lll.ops \in Seq(Operation) /\ lll.runs \in Nat /\ lll.runs <= 1
  BY <1>1, <1>2, OpsParts DEF Good, Ticking, NoFault
<1> DEFINE runs == lll.runs + 1
           M == [lll EXCEPT !.runs = runs]
           C == Check(M, lll.runs = 0, "runs already")
           u == [UllIdle EXCEPT !.at = IF lll.ops # <<>> /\ Head(lll.ops).seen
                                       THEN "inserting" ELSE "idle"]
<1>4. Settle(C, node, u) /\ UNCHANGED <<ref, cb, role, thread>>
  BY DEF StartOpCb
<1>5. /\ u \in UllType /\ u.at \in {"inserting", "idle"}
      /\ u.at = "inserting" => lll.ops # <<>> /\ lll.ops[1].seen
  BY <1>3, UllAtType
<1>6. /\ M \in LllType /\ M.ops = lll.ops /\ M.stops = lll.stops
      /\ M.prep = lll.prep /\ M.curr = lll.curr /\ M.starts = lll.starts
      /\ M.runs = runs /\ M.done = lll.done /\ M.self = lll.self /\ M.fault = lll.fault
      /\ runs = lll.runs + 1
  <2>1. runs \in Nat /\ runs = lll.runs + 1
    BY <1>3
  <2> HIDE DEF runs, u
  <2> QED
    BY <1>3, <2>1 DEF LllType
<1> HIDE DEF u, runs
<1> HIDE DEF M
<1>7. Good(M)
  BY <1>2, <1>3, <1>6 DEF Good, OpsShape
<1>8. RoleTypes'
  BY <1>2, <1>4, RolesUnchanged
<1>9. lll.runs = 0 /\ node.at = "running"
  BY <1>1, <1>2 DEF Ticking, NoFault
<1>10. Settle(M, node, u)
  BY <1>4, <1>9 DEF Check
<1>11. Ticking(M, node, u)
  BY <1>5, <1>6, <1>9 DEF Ticking, Attended, Timed
<1>12. ASSUME Fine(M)
       PROVE  Queued(M) /\ RoleInv' /\ \A r \in Roles : ref'[r] = Debt(M, r)
  BY <1>2, <1>4, <1>6, <1>12, RolesUnchanged DEF Fine, Queued, AllAborted, Debt, On
<1> QED
  BY <1>2, <1>5, <1>7, <1>8, <1>10, <1>11, <1>12, SettledInv

LEMMA SettledSeqs ==
  ASSUME NEW L
  PROVE  /\ \A times : SettledPrep(L, times) = [i \in DOMAIN L.prep |-> SettledPrep(L, times)[i]]
         /\ SettledOps(L) = [i \in DOMAIN L.ops |-> SettledOps(L)[i]]
<1>1. ASSUME NEW times
      PROVE  SettledPrep(L, times) = [i \in DOMAIN L.prep |-> SettledPrep(L, times)[i]]
  BY DEF SettledPrep
<1>2. SettledOps(L) = [i \in DOMAIN L.ops |-> SettledOps(L)[i]]
  BY DEF SettledOps
<1> QED
  BY <1>1, <1>2

StartFailed == "start failed"

\* A record with the fault of a failed start settles like the record without it.
LEMMA FailedSettled ==
  ASSUME NEW L, L \in LllType, NEW u,
         NEW F, F = [L EXCEPT !.fault = StartFailed],
         NEW M, M = Settled(L, u), NEW N, N = Settled(F, u)
  PROVE  F.h = L.h /\ N = [M EXCEPT !.fault = StartFailed]
<1>2. /\ F.h = L.h /\ F.prep = L.prep /\ F.curr = L.curr /\ F.starts = L.starts
      /\ F.runs = L.runs /\ F.at = L.at /\ F.ops = L.ops /\ F.done = L.done
      /\ F.due = L.due
  BY DEF LllType
<1> DEFINE times == Times(L, u)
           due == L.due /\ (L.done # <<>> \/ L.curr.ending)
           at == IF IsCompared(L, u) THEN Rank(times, L.at) ELSE 0
           prep == SettledPrep(L, times)
           ops == SettledOps(L)
<1>3. Settled(L, u) = [L EXCEPT !.h = 0, !.due = due, !.at = at, !.prep = prep, !.ops = ops]
  BY DEF Settled
<1>4. Times(F, u) = times /\ (IsCompared(F, u) <=> IsCompared(L, u))
  BY <1>2 DEF Times, IsCompared
<1>5. SettledPrep(F, times) = prep
  <2>1. prep = [i \in DOMAIN L.prep |-> prep[i]]
    <3> HIDE DEF times
    <3> QED
      BY SettledSeqs
  <2>3. SettledPrep(F, times) = [i \in DOMAIN F.prep |-> SettledPrep(F, times)[i]]
    <3> HIDE DEF times
    <3> QED
      BY SettledSeqs
  <2>2. ASSUME NEW i \in DOMAIN L.prep PROVE SettledPrep(F, times)[i] = prep[i]
    <3> DEFINE e == L.prep[i]
               rank == Rank(times, e.at)
    <3>1. F.prep[i] = e /\ i \in DOMAIN F.prep
      BY <1>2
    <3> HIDE DEF times
    <3>2. prep[i] = [e EXCEPT !.at = rank]
      BY DEF SettledPrep
    <3>3. SettledPrep(F, times)[i] = [e EXCEPT !.at = rank]
      BY ONLY <3>1 DEF SettledPrep, rank
    <3> QED
      BY <3>2, <3>3
  <2> HIDE DEF prep, times
  <2> QED
    BY <1>2, <2>1, <2>2, <2>3
<1>6. SettledOps(F) = ops
  <2>1. ops = [i \in DOMAIN L.ops |-> ops[i]]
    BY SettledSeqs
  <2>3. SettledOps(F) = [i \in DOMAIN F.ops |-> SettledOps(F)[i]]
    BY SettledSeqs
  <2>2. ASSUME NEW i \in DOMAIN L.ops PROVE SettledOps(F)[i] = ops[i]
    <3> DEFINE o == L.ops[i]
               slot == FromHead(L, o.slot, o.op = "start")
    <3>1. F.ops[i] = o /\ i \in DOMAIN F.ops
      BY <1>2
    <3>2. ops[i] = [o EXCEPT !.slot = slot]
      BY DEF SettledOps
    <3>3. FromHead(F, o.slot, o.op = "start") = slot
      <4>1. ASSUME NEW s, NEW isUsed PROVE FromHead(F, s, isUsed) = FromHead(L, s, isUsed)
        BY ONLY <1>2 DEF FromHead
      <4> QED
        BY <4>1
    <3> HIDE DEF slot, o
    <3>4. SettledOps(F)[i] = [o EXCEPT !.slot = slot]
      <4>1. SettledOps(F)[i] = [o EXCEPT !.slot = FromHead(F, o.slot, o.op = "start")]
        BY ONLY <3>1 DEF SettledOps
      <4> QED
        BY <3>3, <4>1
    <3> QED
      BY <3>2, <3>4
  <2> HIDE DEF ops
  <2> QED
    BY <1>2, <2>1, <2>2, <2>3
<1>7. Settled(F, u) = [F EXCEPT !.h = 0, !.due = due, !.at = at, !.prep = prep, !.ops = ops]
  BY <1>2, <1>4, <1>5, <1>6 DEF Settled
<1> HIDE DEF times, due, at, prep, ops
<1>8. N = [L EXCEPT !.fault = StartFailed, !.h = 0, !.due = due, !.at = at, !.prep = prep, !.ops = ops]
  BY ONLY <1>7, F = [L EXCEPT !.fault = StartFailed], N = Settled(F, u), L \in LllType DEF LllType
<1>9. [M EXCEPT !.fault = StartFailed]
        = [L EXCEPT !.fault = StartFailed, !.h = 0, !.due = due, !.at = at, !.prep = prep, !.ops = ops]
  BY ONLY <1>3, M = Settled(L, u), L \in LllType DEF LllType
<1> QED
  BY <1>2, <1>8, <1>9

\* The job inserts the node; a start that finds it there fails.
LEMMA JobStartKeeps ==
  ASSUME RolesAssumption, Inv, JobStart
  PROVE  Inv'
<1>1. NoFault /\ ull.at = "inserting"
  BY DEF JobStart
<1>2. /\ Good(lll) /\ node \in NodeType /\ RoleTypes /\ Ticking(lll, node, ull)
      /\ ~lll.self => /\ Fine(lll) /\ Queued(lll) /\ RoleInv
                      /\ \A r \in Roles : ref[r] = Debt(lll, r)
  BY <1>1, NoFaultParts
<1>3. /\ lll \in LllType /\ lll.ops \in Seq(Operation) /\ lll.ops # <<>>
      /\ lll.ops[1].seen /\ lll.runs \in Nat /\ lll.runs <= 1
  BY <1>1, <1>2, OpsParts DEF Good, Ticking, NoFault
<1> DEFINE ops == Tail(lll.ops)
           starts == lll.starts - 1
           L == [lll EXCEPT !.ops = ops, !.starts = starts]
           C == Check(L, node.at = "idle", "start failed")
           slot == Head(lll.ops).slot
           n == [at |-> "running", slot |-> slot]
           u == [UllIdle EXCEPT !.at = "starting"]
<1>4. Settle(C, n, u) /\ UNCHANGED <<ref, cb, role, thread>>
  BY DEF JobStart
<1>5. n \in NodeType /\ n.at = "running"
  <2>1. Head(lll.ops) \in Operation
    BY <1>3, HeadTailProperties
  <2> QED
    BY <2>1 DEF Operation, NodeType
<1>6. u \in UllType /\ u.at = "starting"
  BY UllAtType
<1>7. /\ ops \in Seq(Operation) /\ Len(ops) = Len(lll.ops) - 1 /\ Len(lll.ops) \in Nat
      /\ \A i \in 1 .. Len(lll.ops) - 1 : ops[i] = lll.ops[i + 1]
  BY <1>3, HeadTailProperties, LenProperties
<1> HIDE DEF ops, n, u
<1>8. \/ Len(lll.ops) = 1 /\ lll.starts = 1 /\ lll.stops = 0
      \/ /\ Len(lll.ops) = 2 /\ lll.starts = 2 /\ lll.stops = 0
         /\ IsStart(lll.ops[2])
      \/ /\ Len(lll.ops) = 3 /\ lll.starts = 2 /\ lll.stops = 1
         /\ IsStop(lll.ops[2]) /\ IsStart(lll.ops[3])
  <2>1. ~IsStop(lll.ops[1]) /\ Len(lll.ops) # 0
    BY <1>3, EmptySeq DEF IsStop
  <2>2. OpsShape(lll)
    BY <1>2 DEF Good
  <2> QED
    BY <2>1, <2>2 DEF OpsShape
<1>9. starts \in Nat /\ starts = lll.starts - 1
  BY <1>8
<1> HIDE DEF starts
<1>10. /\ L \in LllType /\ L.ops = ops /\ L.stops = lll.stops
       /\ L.prep = lll.prep /\ L.curr = lll.curr /\ L.starts = starts
       /\ L.runs = lll.runs /\ L.done = lll.done /\ L.self = lll.self /\ L.fault = lll.fault
  BY <1>3, <1>7, <1>9 DEF LllType
<1> HIDE DEF L
<1>11. OpsShape(L)
  <2>1. CASE Len(lll.ops) = 1 /\ lll.starts = 1 /\ lll.stops = 0
    <3>1. Len(L.ops) = 0 /\ L.starts = 0 /\ L.stops = 0
      BY <1>7, <1>9, <1>10, <2>1
    <3> QED
      BY <3>1 DEF OpsShape
  <2>2. CASE /\ Len(lll.ops) = 2 /\ lll.starts = 2 /\ lll.stops = 0
             /\ IsStart(lll.ops[2])
    <3>1. Len(L.ops) = 1 /\ L.starts = 1 /\ L.stops = 0 /\ L.ops[1] = lll.ops[2]
      BY <1>7, <1>9, <1>10, <2>2
    <3> QED
      BY <2>2, <3>1 DEF OpsShape
  <2>3. CASE /\ Len(lll.ops) = 3 /\ lll.starts = 2 /\ lll.stops = 1
             /\ IsStop(lll.ops[2]) /\ IsStart(lll.ops[3])
    <3>1. /\ Len(L.ops) = 2 /\ L.starts = 1 /\ L.stops = 1
          /\ L.ops[1] = lll.ops[2] /\ L.ops[2] = lll.ops[3]
      BY <1>7, <1>9, <1>10, <2>3
    <3> QED
      BY <2>3, <3>1 DEF OpsShape
  <2> QED
    BY <1>8, <2>1, <2>2, <2>3
<1>12. Good(L)
  <2>1. Len(L.ops) <= 1 \/ ~(Len(lll.ops) <= 1)
    BY <1>7, <1>10
  <2> QED
    BY <1>2, <1>10, <1>11, <2>1 DEF Good
<1>13. L.fault = None
  BY <1>1, <1>10 DEF NoFault
<1>14. RoleTypes'
  BY <1>2, <1>4, RolesUnchanged
<1>15. ASSUME Fine(L)
       PROVE  Queued(L) /\ RoleInv' /\ \A r \in Roles : ref'[r] = Debt(L, r)
  BY <1>2, <1>4, <1>10, <1>15, RolesUnchanged DEF Fine, Queued, AllAborted, Debt, On
<1>16. CASE node.at = "idle"
  <2>1. Settle(L, n, u)
    BY <1>4, <1>16 DEF Check
  <2>2. Ticking(L, n, u)
    <3>1. lll.runs = 0
      BY <1>1, <1>2, <1>3, <1>16 DEF Ticking, NoFault
    <3> QED
      BY <1>3, <1>5, <1>6, <1>10, <3>1 DEF Ticking, Attended
  <2> QED
    BY <1>5, <1>6, <1>12, <1>14, <1>15, <2>1, <2>2, SettledInv
<1>17. CASE node.at # "idle"
  <2> DEFINE F == [L EXCEPT !.fault = StartFailed]
             M == Settled(L, u)
             N == Settled(F, u)
  <2>1. Settle(F, n, u)
    BY <1>4, <1>13, <1>17 DEF Check, StartFailed
  <2>2. L \in LllType /\ L.h \in Nat
    BY <1>10 DEF LllType
  <2>3. F = [L EXCEPT !.fault = StartFailed] /\ M = Settled(L, u) /\ N = Settled(F, u)
    OBVIOUS
  <2>4. lll' = N
    BY <2>1 DEF Settle
  <2> HIDE DEF N, M, F
  <2>5. /\ F.h = L.h /\ N.fault = StartFailed /\ [N EXCEPT !.fault = None] = M
        /\ N.h = M.h /\ N.prep = M.prep /\ N.curr = M.curr /\ N.done = M.done
    <3>1. L \in LllType
      BY <2>2
    <3>2. F.h = L.h /\ N = [M EXCEPT !.fault = StartFailed]
      BY ONLY <2>3, <3>1, FailedSettled
    <3>3. M \in LllType /\ M.fault = None
      BY <1>12, <1>13, <2>3, SettledParts DEF Alike
    <3> QED
      BY ONLY <3>2, <3>3 DEF LllType
  <2>13. lll'.fault = "start failed" /\ Sound' = M
    BY <2>4, <2>5 DEF Sound, StartFailed
  <2>6. node' \in NodeType /\ ull' \in UllType /\ ull'.at = "starting"
    <3>1. F.h \in Nat
      BY <2>2, <2>5
    <3>2. /\ node' = [n EXCEPT !.slot = FromHead(F, n.slot, n.at # "idle")]
          /\ ull' = [u EXCEPT !.slot = FromHead(F, u.slot, u.at = "expired")]
      BY <2>1 DEF Settle
    <3> QED
      BY ONLY <1>5, <1>6, <3>1, <3>2, SlotsSettled
  <2>7. M \in LllType /\ M.h = 0 /\ Alike(L, M)
    BY <1>12, <2>3, SettledParts
  <2>8. lll'.h = M.h /\ lll'.prep = M.prep /\ lll'.curr = M.curr /\ lll'.done = M.done
    BY <2>4, <2>5
  <2>9. /\ Good(M) /\ (Fine(M) <=> Fine(L))
        /\ \A r : Debt(M, r) = Debt(L, r)
        /\ OneResume(L.prep) => OneResume(M.prep)
        /\ AllAborted(L) => AllAborted(M)
    BY <1>12, <2>7, AlikeParts
  <2>10. Typed'
    BY <1>14, <2>13, <2>6, <2>7, <2>8, <2>9 DEF Typed, RoleTypes, NodeType, UllType
  <2>11. Ticking(lll', node', ull')
    BY <2>13 DEF Ticking, None
  <2>12. ASSUME Fine(M)
         PROVE  Queued(lll') /\ RoleInv' /\ \A r \in Roles : ref'[r] = Owed(lll', r)
    <3>1. Queued(L) /\ RoleInv' /\ \A r \in Roles : ref'[r] = Debt(L, r)
      BY <1>15, <2>9, <2>12
    <3>2. Queued(lll')
      BY <2>7, <2>8, <2>9, <3>1 DEF Queued, AllAborted, Alike
    <3>3. \A r \in Roles : Owed(lll', r) = Owed(M, r) /\ Owed(M, r) = Debt(M, r)
      BY <2>7, <2>8, DebtIsOwed DEF Owed, Mine
    <3> QED
      BY <2>9, <3>1, <3>2, <3>3
  <2> QED
    BY <2>6, <2>13, <2>10, <2>11, <2>12 DEF Inv
<1> QED
  BY <1>16, <1>17

-----------------------------------------------------------------------------
(***************************************************************************)
(* The invariant holds, and what follows from it.                          *)
(***************************************************************************)
LEMMA InitInv ==
  ASSUME RolesAssumption, Init
  PROVE  Inv
<1>1. lll = Idle /\ node = NodeIdle /\ ull = UllIdle /\ thread = ThreadIdle
  BY DEF Init
<1>2. Idle \in LllType
  <2>1. NoEvent \in [active : BOOLEAN, r : Roles \cup {None}, ending : BOOLEAN]
    BY DEF NoEvent
  <2>2. <<>> \in Seq(Element) /\ <<>> \in Seq(Operation) /\ <<>> \in Seq(Roles \cup {None})
    BY EmptySeq
  <2>3. None \in Faults /\ 0 \in 0 .. Now
    BY NowNat DEF Faults
  <2> HIDE DEF NoEvent
  <2> QED
    BY <2>1, <2>2, <2>3 DEF Idle, LllType
<1>3. /\ Idle.h = 0 /\ Idle.prep = <<>> /\ Idle.curr = NoEvent /\ Idle.starts = 0
      /\ Idle.stops = 0 /\ Idle.runs = 0 /\ Idle.ops = <<>> /\ Idle.done = <<>>
      /\ Idle.self = FALSE /\ Idle.fault = None
  BY DEF Idle
<1>4. NoEvent.active = FALSE /\ NoEvent.r = None
  BY DEF NoEvent
<1>5. Good(Idle)
  <2>1. Len(Idle.prep) = 0 /\ Len(Idle.ops) = 0 /\ Len(Idle.done) = 0
    BY <1>3
  <2> QED
    BY <1>2, <1>3, <2>1, NowNat DEF Good, OpsShape
<1>6. Sound = lll
  BY <1>1, <1>3 DEF Sound, None
<1>7. NodeIdle \in NodeType /\ NodeIdle.at = "idle" /\ UllIdle \in UllType /\ UllIdle.at = "idle"
  <2>1. NoSlot \in 0 .. NoSlot
    BY DEF NoSlot, Slots, PipelineMax
  <2> QED
    BY <2>1 DEF NodeIdle, NodeType, UllIdle, UllType
<1>8. /\ ThreadIdle \in [at : {"run", "stopped", "checked", "set", "waits"},
                         r : Roles \cup {None}, sem : BOOLEAN]
      /\ ThreadIdle.at = "run" /\ ThreadIdle.r = None /\ ThreadIdle.sem = FALSE
  BY DEF ThreadIdle
<1>9. /\ ref \in [Roles -> Nat] /\ cb \in [Roles -> BOOLEAN]
      /\ role \in [Roles -> {"on", "closing", "off"}]
      /\ \A r \in Roles : ref[r] = 0 /\ role[r] = "off"
  BY DEF Init
<1>10. Typed
  BY <1>1, <1>3, <1>5, <1>6, <1>7, <1>8, <1>9 DEF Typed, NodeType, UllType
<1>11. Ticking(lll, node, ull)
  BY <1>1, <1>3, <1>4, <1>7 DEF Ticking, Attended
<1>12. Queued(lll) /\ RoleInv
  <2>1. DOMAIN lll.prep = {}
    BY <1>1, <1>3
  <2> QED
    BY <1>1, <1>8, <1>9, <2>1 DEF Queued, OneResume, AllAborted, RoleInv
<1>13. ASSUME NEW r \in Roles PROVE ref[r] = Owed(lll, r)
  <2>1. Mine(lll, r) = {} /\ {i \in DOMAIN lll.done : lll.done[i] = r} = {}
    BY <1>1, <1>3 DEF Mine
  <2>2. Cardinality({}) = 0
    BY FS_EmptySet
  <2>3. lll.curr.r # r
    BY <1>1, <1>3, <1>4 DEF RolesAssumption
  <2>4. Count(r, lll.done) = 0 /\ Cardinality(Mine(lll, r)) = 0
    BY ONLY <2>1, <2>2 DEF Count
  <2>5. Owed(lll, r) = 0
    BY ONLY <2>3, <2>4 DEF Owed
  <2> QED
    BY <1>9, <2>5
<1> QED
  BY <1>1, <1>3, <1>10, <1>11, <1>12, <1>13 DEF Inv, None

LEMMA NextKeeps ==
  ASSUME RolesAssumption, Inv, [Next]_vars
  PROVE  Inv'
<1>1. CASE Lll
  BY <1>1, EventOverKeeps, PreemptCbKeeps DEF Lll
<1>2. CASE Job
  BY <1>2, JobStopKeeps, StopOpCbKeeps, JobRestKeeps, JobStartKeeps, StartOpCbKeeps DEF Job
<1>3. CASE Expire
  BY <1>3, ExpireKeeps
<1>4. CASE Demux
  BY <1>4, DemuxKeeps
<1>5. CASE \E r \in Roles : Prepare(r) \/ ConnDisable(r) \/ Start(r) \/ TickerStop(r)
  BY <1>5, PrepareKeeps, ConnDisableKeeps, StartKeeps, TickerStopKeeps
<1>6. CASE Thread
  BY <1>6, ThreadKeeps
<1>7. CASE UNCHANGED vars
  <2>1. /\ lll' = lll /\ node' = node /\ ull' = ull /\ ref' = ref /\ cb' = cb
        /\ role' = role /\ thread' = thread
    BY <1>7 DEF vars
  <2>2. Sound' = Sound /\ (Typed' <=> Typed) /\ (RoleInv' <=> RoleInv)
    BY <2>1 DEF Sound, Typed, RoleInv
  <2> QED
    BY <2>1, <2>2 DEF Inv
<1> QED
  BY <1>1, <1>2, <1>3, <1>4, <1>5, <1>6, <1>7 DEF Next

\* The invariant: the pipeline, the preempt ticker, the done events and the references
\* of any connections, advertisers and scanners agree after every step of LLL and ULL.
THEOREM InvIsInvariant ==
  ASSUME RolesAssumption
  PROVE  Spec => []Inv
<1>1. Init => Inv
  BY InitInv
<1>2. Inv /\ [Next]_vars => Inv'
  BY NextKeeps
<1> QED
  BY <1>1, <1>2, PTL DEF Spec

\* A failed start leaves the rest of the record as it is.
LEMMA SoundParts ==
  ASSUME Typed
  PROVE  /\ Good(Sound) /\ Sound \in LllType
         /\ lll.prep = Sound.prep /\ lll.curr = Sound.curr /\ lll.starts = Sound.starts
         /\ lll.stops = Sound.stops /\ lll.runs = Sound.runs /\ lll.at = Sound.at
         /\ lll.ops = Sound.ops /\ lll.done = Sound.done /\ lll.due = Sound.due
         /\ lll.self = Sound.self
         /\ lll.fault \in {None, "start failed"} => Sound.fault = None
<1>1. Good(Sound) /\ Sound \in LllType
  BY DEF Typed, Good
<1>2. CASE lll.fault = "start failed"
  <2>1. Sound = [lll EXCEPT !.fault = None]
    BY <1>2 DEF Sound
  <2> QED
    BY ONLY <1>1, <2>1 DEF LllType
<1>3. CASE lll.fault # "start failed"
  <2>1. Sound = lll
    BY <1>3 DEF Sound
  <2> QED
    BY <1>1, <1>3, <2>1
<1> QED
  BY <1>2, <1>3

LEMMA TypeFollows == Inv => TypeOK
<1> SUFFICES ASSUME Inv PROVE TypeOK
  OBVIOUS
<1>1. /\ Good(Sound) /\ Sound \in LllType
      /\ lll.prep = Sound.prep /\ lll.curr = Sound.curr /\ lll.starts = Sound.starts
      /\ lll.stops = Sound.stops /\ lll.runs = Sound.runs /\ lll.at = Sound.at
      /\ lll.ops = Sound.ops /\ lll.done = Sound.done /\ lll.due = Sound.due
      /\ lll.self = Sound.self
  BY SoundParts DEF Inv
<1>2. /\ lll.prep \in Seq(Element) /\ lll.ops \in Seq(Operation)
      /\ lll.done \in Seq(Roles \cup {None})
      /\ lll.curr \in [active : BOOLEAN, r : Roles \cup {None}, ending : BOOLEAN]
      /\ lll.at \in 0 .. Now /\ lll.due \in BOOLEAN /\ lll.self \in BOOLEAN
      /\ lll.starts \in Nat /\ lll.stops \in Nat /\ lll.runs \in Nat
  BY <1>1 DEF LllType
<1>3. /\ Len(lll.prep) <= PipelineMax /\ Len(lll.done) <= DoneMax
      /\ Len(lll.ops) <= OpsMax
  BY <1>1, OpsParts DEF Good
<1>4. lll.starts <= 2 /\ lll.stops <= 1 /\ lll.runs <= 2
  BY <1>1 DEF Good, OpsShape
<1>5. {lll.starts, lll.stops, lll.runs} \subseteq 0 .. OpsMax
  BY <1>2, <1>4 DEF OpsMax
<1> QED
  BY <1>2, <1>3, <1>5 DEF TypeOK, Inv, Typed

\* The shape of the state, for any roles: what is kept in the pipeline, in the queue of
\* ticker operations and among the done events fits there.
THEOREM TypeCorrect ==
  ASSUME RolesAssumption
  PROVE  Spec => []TypeOK
BY InvIsInvariant, TypeFollows, PTL

\* With no fault, or the one of a failed start.
LEMMA HoldsFollows ==
  ASSUME Inv, OtherAssertionsHold, ~lll.self
  PROVE  Queued(lll) /\ RoleInv /\ \A r \in Roles : ref[r] = Owed(lll, r)
<1>1. Fine(Sound)
  BY SoundParts DEF Inv, OtherAssertionsHold, Fine
<1> QED
  BY <1>1 DEF Inv

\* Every reference of a role is a prepare that waits, its event on air or a done event,
\* whatever was aborted, put back or resumed in between.
THEOREM ReferencesHold ==
  ASSUME RolesAssumption
  PROVE  Spec => []References
<1>1. Inv => References
  BY HoldsFollows DEF References, Owed
<1> QED
  BY <1>1, InvIsInvariant, PTL

LEMMA NothingMine ==
  ASSUME NEW r, Cardinality(Mine(lll, r)) = 0, Typed
  PROVE  \A i \in DOMAIN lll.prep : lll.prep[i].r = r => lll.prep[i].aborted
<1>1. lll.prep \in Seq(Element)
  BY SoundParts DEF LllType
<1>2. IsFiniteSet(Mine(lll, r))
  <2>1. IsFiniteSet(DOMAIN lll.prep)
    BY <1>1, LenProperties, FS_Interval
  <2> QED
    BY <2>1, FS_Subset DEF Mine
<1>3. Mine(lll, r) = {}
  BY <1>2, FS_EmptySet
<1> QED
  BY <1>3 DEF Mine

\* A role that is off, and that no thread is at, has no event in LLL any more.
THEOREM DisabledIsGoneHolds ==
  ASSUME RolesAssumption
  PROVE  Spec => []DisabledIsGone
<1>1. ASSUME Inv, ~lll.self, OtherAssertionsHold, NEW r \in Roles, role[r] = "off", thread.r # r
      PROVE  /\ ref[r] = 0 /\ lll.curr.r # r
             /\ \A i \in DOMAIN lll.prep : lll.prep[i].r = r => lll.prep[i].aborted
  <2>1. ref[r] = 0 /\ Owed(lll, r) = 0
    BY <1>1, HoldsFollows DEF RoleInv
  <2>2. Typed
    BY <1>1 DEF Inv
  <2>3. Owed(Sound, r) = Owed(lll, r) /\ Mine(Sound, r) = Mine(lll, r)
        /\ Sound.done = lll.done /\ Sound \in LllType
    BY <2>2, SoundParts DEF Owed, Mine
  <2>4. Cardinality(Mine(lll, r)) \in Nat /\ Count(r, lll.done) \in Nat
    BY <2>3, MineHeld, DebtIsOwed
  <2>5. Cardinality(Mine(lll, r)) = 0 /\ lll.curr.r # r
    <3> DEFINE a == Cardinality(Mine(lll, r))
               b == IF lll.curr.r = r THEN 1 ELSE 0
               c == Count(r, lll.done)
    <3>1. a + b + c = 0
      BY <2>1 DEF Owed
    <3>2. a \in Nat /\ c \in Nat
      BY <2>4
    <3> HIDE DEF a, c
    <3>3. a = 0 /\ b = 0
      BY ONLY <3>1, <3>2
    <3> QED
      BY <3>3 DEF a
  <2> QED
    BY <2>1, <2>2, <2>5, NothingMine
<1>2. Inv => DisabledIsGone
  BY <1>1 DEF DisabledIsGone
<1> QED
  BY <1>2, InvIsInvariant, PTL

\* While the radio is idle nothing waits to be started or resumed, and once the done
\* events have been seen no connection and no thread waits for another.
THEOREM SilenceOwesNothingHolds ==
  ASSUME RolesAssumption
  PROVE  Spec => []SilenceOwesNothing
<1>1. ASSUME Inv, ~lll.self, ~lll.curr.active, OtherAssertionsHold
      PROVE  /\ \A i \in DOMAIN lll.prep : lll.prep[i].aborted
             /\ lll.done = <<>> => /\ \A r \in Roles : role[r] # "closing"
                                   /\ thread.at = "waits" => thread.sem
  <2>1. Queued(lll) /\ RoleInv /\ \A r \in Roles : ref[r] = Owed(lll, r)
    BY <1>1, HoldsFollows
  <2>2. \A i \in DOMAIN lll.prep : lll.prep[i].aborted
    BY <1>1, <2>1 DEF Queued, AllAborted
  <2>3. Typed
    BY <1>1 DEF Inv
  <2>4. lll.curr.r = None
    <3>1. Good(Sound) /\ lll.curr = Sound.curr
      BY <2>3, SoundParts
    <3> QED
      BY <1>1, <3>1 DEF Good, NoEvent
  <2>5. ASSUME lll.done = <<>>, NEW r \in Roles PROVE ref[r] = 0
    <3>1. Mine(lll, r) = {} /\ {i \in DOMAIN lll.done : lll.done[i] = r} = {}
      BY <2>2, <2>5 DEF Mine
    <3>2. Cardinality({}) = 0
      BY FS_EmptySet
    <3>3. lll.curr.r # r
      BY <2>4 DEF RolesAssumption
    <3> QED
      BY <2>1, <3>1, <3>2, <3>3 DEF Owed, Count
  <2>6. ASSUME lll.done = <<>>, thread.at = "waits" PROVE thread.sem
    <3>1. thread.r \in Roles
      BY <2>1, <2>3, <2>6 DEF RoleInv, Typed
    <3> QED
      BY <2>1, <2>5, <2>6, <3>1 DEF RoleInv
  <2>7. ASSUME lll.done = <<>>, NEW r \in Roles PROVE role[r] # "closing"
    BY <2>1, <2>5, <2>7 DEF RoleInv
  <2> QED
    BY <2>2, <2>6, <2>7
<1>2. Inv => SilenceOwesNothing
  BY <1>1 DEF SilenceOwesNothing
<1> QED
  BY <1>2, InvIsInvariant, PTL

\* A prepare that waits behind an event on air that does not give way has a preempt
\* timeout, requested, running or being dealt with.
THEOREM WaitingHasTimeoutHolds ==
  ASSUME RolesAssumption
  PROVE  Spec => []WaitingHasTimeout
<1>1. ASSUME Inv, OtherAssertionsHold, lll.curr.active, lll.curr.r # None, ~lll.curr.ending,
             NextReady(lll, 1) # NoSlot
      PROVE  lll.starts > 0 \/ lll.runs > 0 \/ ull.at \in {"starting", "expired"}
  <2>1. CASE lll.fault = "start failed"
    BY <1>1, <2>1 DEF Inv
  <2>2. CASE lll.fault = None
    <3>1. Good(lll) /\ Ticking(lll, node, ull)
      BY <1>1, <2>2, NoFaultParts DEF NoFault
    <3>2. HasReady(lll)
      BY <1>1, <3>1, HasReadyIs DEF Good
    <3> QED
      BY <1>1, <2>2, <3>1, <3>2 DEF Ticking, Attended, Timed
  <2> QED
    BY <1>1, <2>1, <2>2 DEF OtherAssertionsHold
<1>2. Inv => WaitingHasTimeout
  BY <1>1 DEF WaitingHasTimeout
<1> QED
  BY <1>2, InvIsInvariant, PTL

OnlyCapacitiesFail == lll.fault \in {None, "start failed", "pipeline full", "done full"}

\* However many roles there are, of the assertions the model knows only three can fail:
\* that of ticker_start_op_cb, and those on the room in the pipeline and among the done
\* events.  A done event always finds a reference, a timeout that expires was counted,
\* the operations fit the ticker's queue, no connection is disabled twice, and the
\* radio is given to the first prepare that waits.
THEOREM OnlyCapacities ==
  ASSUME RolesAssumption
  PROVE  Spec => []OnlyCapacitiesFail
<1>1. ASSUME Inv PROVE OnlyCapacitiesFail
  <2>1. CASE lll.fault = "start failed"
    BY <2>1 DEF OnlyCapacitiesFail
  <2>2. CASE lll.fault # "start failed"
    <3>1. Sound = lll
      BY <2>2 DEF Sound
    <3>2. lll.fault \in Faults
      BY <1>1, <3>1 DEF Inv, Typed, Good, LllType
    <3> QED
      BY <3>2 DEF Faults, OnlyCapacitiesFail
  <2> QED
    BY <2>1, <2>2
<1> QED
  BY <1>1, InvIsInvariant, PTL
=============================================================================
