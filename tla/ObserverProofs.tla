--------------------------- MODULE ObserverProofs ---------------------------
(***************************************************************************)
(* The scan state of the observer is consistent in every interleaving of   *)
(* its callers, the Bluetooth thread, the clock and the work queue, for    *)
(* every timeout and age bound.                                            *)
(***************************************************************************)
EXTENDS Observer, SequenceTheorems, TLAPS

\* Whatever may happen to the observer
ObsNext ==
  \/ ObsTick \/ \E on \in BOOLEAN : Enable(on)
  \/ Trigger \/ Advert \/ WorkQueueStep \/ ObsReboot

\* What the handler that is blocked in the Bluetooth stack has left behind
HandlerInv ==
  /\ wq = "starting" => ~scanActive /\ (radio <=> leftOn)
  /\ wq = "started" => ~scanActive /\ radio
  /\ wq = "stopping" => ~scanActive

\* A burst that is on, or about to begin, behind a closed gate has its end queued.
StopQueued ==
  ~enabled /\ (scanActive \/ wq \in {"starting", "started"}) => Contains(queue, "stop")

ObsInv == ObsTypeOK /\ HandlerInv /\ ScanOwned /\ TimeoutBelongsToBurst /\ StopQueued

-----------------------------------------------------------------------------
(* The queue *)

LEMMA SubmitFacts ==
  ASSUME NEW q \in Seq(Works), IsInjective(q), NEW w \in Works
  PROVE  /\ Submit(w, q) \in Seq(Works) /\ IsInjective(Submit(w, q))
         /\ \A v : Contains(Submit(w, q), v) <=> Contains(q, v) \/ v = w
<1>1. CASE Contains(q, w)
  BY <1>1 DEF Submit
<1>2. CASE ~Contains(q, w)
  <2> DEFINE r == Append(q, w)
  <2>1. /\ r \in Seq(Works) /\ Len(r) = Len(q) + 1
        /\ \A i \in 1..Len(q) : r[i] = q[i]
        /\ r[Len(q) + 1] = w
    BY AppendProperties
  <2>2. Submit(w, q) = r
    BY <1>2 DEF Submit
  <2>3. Len(q) \in Nat /\ DOMAIN q = 1..Len(q) /\ DOMAIN r = 1..(Len(q) + 1)
    BY <2>1, LenProperties
  <2> HIDE DEF r
  <2>4. IsInjective(r)
    <3> SUFFICES ASSUME NEW a \in 1..(Len(q) + 1), NEW b \in 1..(Len(q) + 1), r[a] = r[b]
                 PROVE  a = b
      BY <2>3 DEF IsInjective
    <3>1. CASE a \in 1..Len(q) /\ b \in 1..Len(q)
      BY <2>1, <2>3, <3>1 DEF IsInjective
    <3>2. CASE a = Len(q) + 1 /\ b \in 1..Len(q)
      BY <1>2, <2>1, <3>2 DEF Contains
    <3>3. CASE b = Len(q) + 1 /\ a \in 1..Len(q)
      BY <1>2, <2>1, <3>3 DEF Contains
    <3> QED BY <2>3, <3>1, <3>2, <3>3
  <2>5. ASSUME NEW v PROVE Contains(r, v) <=> Contains(q, v) \/ v = w
    BY <2>1, <2>3 DEF Contains
  <2> QED BY <2>1, <2>2, <2>4, <2>5
<1> QED BY <1>1, <1>2

LEMMA TailFacts ==
  ASSUME NEW q \in Seq(Works), IsInjective(q), q # <<>>
  PROVE  /\ Tail(q) \in Seq(Works) /\ IsInjective(Tail(q))
         /\ \A v : Contains(q, v) <=> Contains(Tail(q), v) \/ v = Head(q)
         /\ ~Contains(Tail(q), Head(q))
<1> DEFINE r == Tail(q)
<1>1. /\ r \in Seq(Works) /\ Len(r) = Len(q) - 1
      /\ \A i \in 1..Len(r) : r[i] = q[i + 1]
  BY HeadTailProperties
<1>2. /\ Len(q) \in Nat /\ Len(q) > 0 /\ DOMAIN q = 1..Len(q)
      /\ DOMAIN r = 1..(Len(q) - 1) /\ Head(q) = q[1]
  BY <1>1, LenProperties, EmptySeq
<1> HIDE DEF r
<1>3. IsInjective(r)
  <2> SUFFICES ASSUME NEW a \in 1..(Len(q) - 1), NEW b \in 1..(Len(q) - 1), r[a] = r[b]
               PROVE  a = b
    BY <1>2 DEF IsInjective
  <2>1. a + 1 \in 1..Len(q) /\ b + 1 \in 1..Len(q) /\ q[a + 1] = q[b + 1]
    BY <1>1, <1>2
  <2>2. a + 1 = b + 1
    BY <1>2, <2>1 DEF IsInjective
  <2> QED BY <2>2
<1>4. ASSUME NEW v PROVE Contains(q, v) <=> Contains(r, v) \/ v = Head(q)
  <2>1. ASSUME NEW i \in 1..Len(q), q[i] = v PROVE Contains(r, v) \/ v = Head(q)
    <3>1. CASE i = 1
      BY <1>2, <2>1, <3>1
    <3>2. CASE i # 1
      <4>1. i - 1 \in 1..Len(r) /\ r[i - 1] = v
        BY <1>1, <1>2, <2>1, <3>2
      <4> QED BY <4>1 DEF Contains
    <3> QED BY <3>1, <3>2
  <2>2. ASSUME NEW i \in 1..Len(r), r[i] = v PROVE Contains(q, v)
    <3>1. i + 1 \in 1..Len(q) /\ q[i + 1] = v
      BY <1>1, <1>2, <2>2
    <3> QED BY <3>1 DEF Contains
  <2>3. Contains(q, Head(q))
    BY <1>2 DEF Contains
  <2> QED BY <2>1, <2>2, <2>3 DEF Contains
<1>5. ~Contains(r, Head(q))
  <2> SUFFICES ASSUME NEW i \in 1..Len(r), r[i] = Head(q) PROVE FALSE
    BY DEF Contains
  <2>1. i + 1 \in 1..Len(q) /\ q[i + 1] = q[1] /\ 1 \in 1..Len(q) /\ i + 1 # 1
    BY <1>1, <1>2
  <2> QED BY <1>2, <2>1 DEF IsInjective
<1> QED BY <1>1, <1>3, <1>4, <1>5 DEF r

LEMMA WithoutFacts ==
  ASSUME NEW q \in Seq(Works), IsInjective(q), NEW w
  PROVE  /\ Without(q, w) \in Seq(Works) /\ IsInjective(Without(q, w))
         /\ ~Contains(Without(q, w), w)
<1>0. Len(q) \in Nat /\ DOMAIN q = 1..Len(q) /\ \A i \in 1..Len(q) : q[i] \in Works
  BY LenProperties, ElementOfSeq
<1>1. CASE ~Contains(q, w)
  BY <1>1 DEF Without
<1>2. CASE Contains(q, w)
  <2> DEFINE i == CHOOSE k \in 1..Len(q) : q[k] = w
             n == Len(q) - 1
             r == [j \in 1..n |-> IF j < i THEN q[j] ELSE q[j + 1]]
  <2>1. i \in 1..Len(q) /\ q[i] = w
    BY <1>2 DEF Contains
  <2>2. Without(q, w) = r
    BY <1>2 DEF Without
  <2> HIDE DEF i
  <2>3. n \in Nat /\ \A j \in 1..n : j \in 1..Len(q) /\ j + 1 \in 1..Len(q)
    BY <1>0, <2>1
  <2>4. \A j \in 1..n : r[j] \in Works
    BY <1>0, <2>3
  <2>5. r \in Seq(Works) /\ Len(r) = n
    BY <2>3, <2>4, IsASeq, LenProperties
  <2>6. ~Contains(r, w)
    <3> SUFFICES ASSUME NEW j \in 1..n, r[j] = w PROVE FALSE
      BY <2>5 DEF Contains
    <3>1. j < i => q[j] = w
      OBVIOUS
    <3>2. ~(j < i) => q[j + 1] = w
      OBVIOUS
    <3>3. j \in 1..Len(q) /\ j + 1 \in 1..Len(q) /\ Len(q) \in Nat
      BY <1>0, <2>3
    <3>4. j \in Int /\ i \in Int
      BY <2>1, <3>3
    <3>5. \A k \in 1..Len(q) : q[k] = w => k = i
      BY <1>0, <2>1 DEF IsInjective
    <3>6. CASE j < i
      BY <3>1, <3>3, <3>4, <3>5, <3>6
    <3>7. CASE ~(j < i)
      <4>1. j + 1 = i
        BY <3>2, <3>3, <3>5, <3>7
      <4> QED BY <3>4, <3>7, <4>1
    <3> QED BY <3>6, <3>7
  <2>7. IsInjective(r)
    <3> SUFFICES ASSUME NEW a \in 1..n, NEW b \in 1..n, r[a] = r[b] PROVE a = b
      BY DEF IsInjective
    <3> DEFINE f(j) == IF j < i THEN j ELSE j + 1
    <3>1. f(a) \in 1..Len(q) /\ f(b) \in 1..Len(q)
      BY <2>3
    <3>2. q[f(a)] = q[f(b)]
      OBVIOUS
    <3>3. f(a) = f(b)
      BY <1>0, <3>1, <3>2 DEF IsInjective
    <3> QED BY <2>1, <2>3, <3>3
  <2> QED BY <2>2, <2>5, <2>6, <2>7
<1> QED BY <1>1, <1>2

-----------------------------------------------------------------------------
(* Every step keeps the invariant *)

LEMMA OlderType ==
  ASSUME NEW a \in 0..MaxAge
  PROVE  Older(a) \in 0..MaxAge
BY ObserverAssumption DEF Older

LEMMA TickKeeps ==
  ASSUME ObsInv, ObsTick
  PROVE  ObsInv'
<1>1. "timeout" \in Works
  BY DEF Works
<1>2. /\ queue' \in Seq(Works) /\ IsInjective(queue')
      /\ \A v : Contains(queue', v) <=> Contains(queue, v) \/ (timer = 1 /\ v = "timeout")
  BY <1>1, SubmitFacts DEF ObsInv, ObsTypeOK, ObsTick
<1>3. timer' \in {Disarmed} \cup 1..BurstTimeout
  BY ObserverAssumption DEF ObsInv, ObsTypeOK, ObsTick, Disarmed
<1>4. ObsTypeOK'
  BY <1>2, <1>3, OlderType DEF ObsInv, ObsTypeOK, ObsTick
<1>5. TimeoutBelongsToBurst'
  <2>1. timer' # Disarmed \/ timer = 1 <=> timer # Disarmed
    BY ObserverAssumption DEF ObsInv, ObsTypeOK, ObsTick, Disarmed
  <2> QED BY <1>2, <2>1 DEF ObsInv, ObsTick, TimeoutBelongsToBurst
<1> QED BY <1>2, <1>4, <1>5 DEF ObsInv, ObsTick, HandlerInv, ScanOwned, StopQueued

LEMMA CallersKeep ==
  ASSUME ObsInv, Trigger \/ Advert \/ \E on \in BOOLEAN : Enable(on)
  PROVE  ObsInv'
<1> USE DEF ObsInv, ObsTypeOK, HandlerInv, ScanOwned, TimeoutBelongsToBurst, StopQueued, scanVars
<1>1. {"start", "stop"} \subseteq Works
  BY DEF Works
<1>2. CASE Trigger
  BY <1>1, <1>2, SubmitFacts DEF Trigger
<1>3. CASE Advert
  <2>1. 0 \in 0..MaxAge
    BY ObserverAssumption
  <2> QED BY <1>1, <1>3, <2>1, SubmitFacts DEF Advert
<1>4. ASSUME NEW on \in BOOLEAN, Enable(on)
      PROVE  ObsInv'
  BY <1>1, <1>4, SubmitFacts DEF Enable
<1> QED BY <1>2, <1>3, <1>4

LEMMA QueueKeeps ==
  ASSUME ObsInv, WorkQueueStep
  PROVE  ObsInv'
<1> USE DEF ObsInv, ObsTypeOK, HandlerInv, ScanOwned, TimeoutBelongsToBurst, StopQueued, scanVars,
            WorkQueueStates
<1>1. CASE StartCalls
  BY <1>1, TailFacts DEF StartCalls, Dequeue, StartAllowed
<1>2. CASE RadioOn
  BY <1>2 DEF RadioOn
<1>3. CASE StartReturns
  <2>1. 0 \in 0..MaxAge /\ BurstTimeout \in 1..BurstTimeout /\ BurstTimeout # Disarmed
    BY ObserverAssumption DEF Disarmed
  <2> QED BY <1>3, <2>1 DEF StartReturns
<1>4. CASE StopCalls
  <2>1. queue # <<>> /\ wq = "idle" /\ Head(queue) \in {"stop", "timeout"}
    BY <1>4 DEF StopCalls, Dequeue
  <2>2. /\ Tail(queue) \in Seq(Works) /\ IsInjective(Tail(queue))
        /\ \A v : Contains(queue, v) <=> Contains(Tail(queue), v) \/ v = Head(queue)
    BY <2>1, TailFacts
  <2>3. CASE scanActive
    <3>1. /\ queue' \in Seq(Works) /\ IsInjective(queue')
          /\ ~Contains(queue', "timeout") /\ timer' = Disarmed
      BY <1>4, <2>2, <2>3, WithoutFacts DEF StopCalls, CancelTimeout
    <3> QED BY <1>4, <2>3, <3>1 DEF StopCalls
  <2>4. CASE ~scanActive
    BY <1>4, <2>1, <2>2, <2>4 DEF StopCalls
  <2> QED BY <2>3, <2>4
<1>5. CASE RadioOff
  BY <1>5 DEF RadioOff
<1>6. CASE StopReturns
  BY <1>6 DEF StopReturns, Captured
<1> QED BY <1>1, <1>2, <1>3, <1>4, <1>5, <1>6 DEF WorkQueueStep

LEMMA EmptyQueue ==
  <<>> \in Seq(Works) /\ IsInjective(<<>>) /\ \A v : ~Contains(<<>>, v)
<1>1. <<>> \in Seq(Works) /\ Len(<<>>) = 0
  BY EmptySeq
<1>2. DOMAIN <<>> = {}
  BY <1>1, LenProperties
<1> QED BY <1>1, <1>2 DEF IsInjective, Contains

\* What the queue and the clocks begin with has its type.
LEMMA StartValues ==
  /\ MaxAge \in 0..MaxAge
  /\ Disarmed \in {Disarmed} \cup 1..BurstTimeout
  /\ <<>> \in Seq(Works) /\ IsInjective(<<>>)
  /\ "idle" \in WorkQueueStates
BY ObserverAssumption, EmptyQueue DEF WorkQueueStates

LEMMA ObsStart ==
  ASSUME ObsInit
  PROVE  ObsInv
<1>1. ObsTypeOK
  BY StartValues DEF ObsInit, ObsTypeOK
<1>2. ~Contains(queue, "timeout")
  BY EmptyQueue DEF ObsInit
<1>3. HandlerInv /\ ScanOwned /\ TimeoutBelongsToBurst /\ StopQueued
  BY <1>2 DEF ObsInit, HandlerInv, ScanOwned, TimeoutBelongsToBurst, StopQueued
<1> QED BY <1>1, <1>3 DEF ObsInv

LEMMA ObsRestart ==
  ASSUME ObsReboot
  PROVE  ObsInv'
<1>1. ObsTypeOK'
  BY StartValues DEF ObsReboot, ObsTypeOK
<1>2. ~Contains(queue', "timeout")
  BY EmptyQueue DEF ObsReboot
<1>3. HandlerInv' /\ ScanOwned' /\ TimeoutBelongsToBurst' /\ StopQueued'
  BY <1>2 DEF ObsReboot, HandlerInv, ScanOwned, TimeoutBelongsToBurst, StopQueued
<1> QED BY <1>1, <1>3 DEF ObsInv

LEMMA ObsStutters ==
  ASSUME ObsInv, UNCHANGED obsVars
  PROVE  ObsInv'
BY DEF ObsInv, ObsTypeOK, HandlerInv, ScanOwned, TimeoutBelongsToBurst, StopQueued, obsVars

\* The scan state stays consistent whatever happens to the observer.
THEOREM ObsInvariant ==
  ObsInit /\ [][ObsNext]_obsVars => []ObsInv
<1>1. ObsInv /\ [ObsNext]_obsVars => ObsInv'
  BY TickKeeps, CallersKeep, QueueKeeps, ObsRestart, ObsStutters DEF ObsNext
<1> QED BY <1>1, ObsStart, PTL

\* What the run checks follows from the invariant.
LEMMA GateClosesFrom ==
  ASSUME ObsInv
  PROVE  GateCloses
<1>1. queue = <<>> => ~Contains(queue, "stop")
  BY DEF Contains
<1> QED BY <1>1 DEF ObsInv, GateCloses, AtRest, StopQueued, ScanOwned, HandlerInv
=============================================================================
