-------------------------- MODULE SensorAppProofs --------------------------
(***************************************************************************)
(* What holds of the sensor application in every interleaving of its       *)
(* threads, the Matter stack and the clock, for every period and delay.    *)
(***************************************************************************)
EXTENDS SensorApp, ObserverProofs

AppTypeOK ==
  /\ boot \in Boots
  /\ commissioned \in BOOLEAN /\ removed \in BOOLEAN /\ advertising \in BOOLEAN
  /\ posted \in Seq(Posted)
  /\ reportIn \in 1..ReportPeriod
  /\ published \in BOOLEAN /\ publishedAge \in 0..MaxPublishedAge
  /\ gravity \in Gravities /\ nullGravity \in BOOLEAN
  /\ waiting \in [matter : 0..MaxWaiting, queue : 0..MaxWaiting]

ReportPosted == Contains(posted, "report")

\* One of the endpoints has a value.
Shown == published \/ gravity # "null"

\* Nothing has been scanned for, heard or published before the tag runs.
NothingBeforeRunning ==
  boot # "running" =>
    /\ ~Shown /\ ~ReportPosted
    /\ ~valid /\ ~radio /\ ~scanActive /\ wq = "idle" /\ ~Contains(queue, "start")

\* What was published last was fresh when the last report was handled; the next one is
\* due in reportIn ticks, or has been posted and waits.
ReportInTime ==
  Shown =>
    IF ReportPosted
    THEN publishedAge <= SampleMaxAge + ReportPeriod + waiting.matter
    ELSE publishedAge <= SampleMaxAge + ReportPeriod - reportIn

AppInv == AppTypeOK /\ NothingBeforeRunning /\ ReportInTime
AllInv == ObsInv /\ AppInv

-----------------------------------------------------------------------------
(* What is posted *)

LEMMA PostFacts ==
  ASSUME NEW q \in Seq(Posted), NEW e \in Posted
  PROVE  /\ Append(q, e) \in Seq(Posted) /\ Append(q, e) # <<>>
         /\ \A v : Contains(Append(q, e), v) <=> Contains(q, v) \/ v = e
<1> DEFINE r == Append(q, e)
<1>1. /\ r \in Seq(Posted) /\ Len(r) = Len(q) + 1
      /\ \A i \in 1..Len(q) : r[i] = q[i]
      /\ r[Len(q) + 1] = e
  BY AppendProperties
<1>2. Len(q) \in Nat
  BY LenProperties
<1>3. r # <<>>
  BY <1>1, <1>2, EmptySeq
<1> HIDE DEF r
<1>4. ASSUME NEW v PROVE Contains(r, v) <=> Contains(q, v) \/ v = e
  BY <1>1, <1>2 DEF Contains
<1> QED BY <1>1, <1>3, <1>4 DEF r

LEMMA HandledFacts ==
  ASSUME NEW q \in Seq(Posted), q # <<>>
  PROVE  /\ Tail(q) \in Seq(Posted) /\ Head(q) \in Posted
         /\ \A v : Contains(q, v) <=> Contains(Tail(q), v) \/ v = Head(q)
<1> DEFINE r == Tail(q)
<1>1. /\ r \in Seq(Posted) /\ Len(r) = Len(q) - 1 /\ Head(q) \in Posted
      /\ \A i \in 1..Len(r) : r[i] = q[i + 1]
  BY HeadTailProperties
<1>2. Len(q) \in Nat /\ Len(q) > 0 /\ Head(q) = q[1]
  BY LenProperties, EmptySeq
<1> HIDE DEF r
<1>3. ASSUME NEW v PROVE Contains(q, v) <=> Contains(r, v) \/ v = Head(q)
  <2>1. ASSUME NEW i \in 1..Len(q), q[i] = v PROVE Contains(r, v) \/ v = Head(q)
    <3>1. CASE i = 1
      BY <1>2, <2>1, <3>1
    <3>2. CASE i # 1
      <4>1. i - 1 \in 1..Len(r) /\ r[i - 1] = v
        BY <1>1, <1>2, <2>1, <3>2
      <4> QED BY <4>1 DEF Contains
    <3> QED BY <3>1, <3>2
  <2>2. ASSUME NEW i \in 1..Len(r), r[i] = v PROVE Contains(q, v)
    <3>1. i + 1 \in 1..Len(q) /\ q[i + 1] = v
      BY <1>1, <1>2, <2>2
    <3> QED BY <3>1 DEF Contains
  <2>3. Contains(q, Head(q))
    BY <1>2 DEF Contains
  <2> QED BY <2>1, <2>2, <2>3 DEF Contains
<1> QED BY <1>1, <1>3 DEF r

LEMMA ScheduledFacts ==
  ASSUME NEW q \in Seq(Posted)
  PROVE  /\ q \o <<>> = q
         /\ q \o <<"gate">> \in Seq(Posted)
         /\ Contains(q \o <<"gate">>, "report") <=> Contains(q, "report")
         /\ q \o <<"gate">> # <<>>
<1>1. "gate" \in Posted /\ "gate" # "report"
  BY DEF Posted
<1>2. q \o <<"gate">> = Append(q, "gate")
  BY <1>1, AppendIsConcat
<1>3. q \o <<>> = q
  BY ConcatEmptySeq
<1> QED BY <1>1, <1>2, <1>3, PostFacts

LEMMA NothingPosted ==
  <<>> \in Seq(Posted) /\ ~Contains(<<>>, "report")
BY EmptySeq, EmptyQueue

\* Steps in which no time passes keep the delays in their bounds.
LEMMA WaitingKeeps ==
  ASSUME AppTypeOK, NoTimePasses
  PROVE  /\ waiting' \in [matter : 0..MaxWaiting, queue : 0..MaxWaiting]
         /\ posted' # <<>> => waiting'.matter = waiting.matter
BY AppAssumption DEF AppTypeOK, NoTimePasses

-----------------------------------------------------------------------------
(* The observer's steps in the application's *)

LEMMA GateIsBoolean ==
  ASSUME AppTypeOK, NEW e \in {"gate", "complete", "advStart", "advStop"}
  PROVE  GateOpen(e) \in BOOLEAN
BY DEF AppTypeOK, GateOpen

LEMMA StepsOfTheObserver ==
  ASSUME AppTypeOK, [Next]_vars
  PROVE  [ObsNext]_obsVars
<1>1. CASE UNCHANGED vars
  BY <1>1 DEF vars
<1>2. CASE MainThread
  BY <1>2 DEF MainThread, PrepareServer, InitBoard, RegisterHandlers, InitSensors, StartServer, BootStep
<1>3. CASE Reboot
  BY <1>3 DEF Reboot, ObsNext
<1>4. CASE Stack
  BY <1>4 DEF Stack, AdvertisingStarts, AdvertisingStops, CommissioningCompletes,
              LastFabricRemoved, AfterRemoval, StackOnly, Reboot, ObsNext
<1>5. CASE ApplyGate
  BY <1>5, GateIsBoolean DEF ApplyGate, ObsNext
<1>6. CASE Report
  BY <1>6 DEF Report, ObsNext
<1>7. CASE ReportTilt
  BY <1>7 DEF ReportTilt
<1>8. CASE WorkQueueRuns
  BY <1>8 DEF WorkQueueRuns, ObsNext
<1>9. CASE TiltHeard
  BY <1>9 DEF TiltHeard, ObsNext
<1>10. CASE Tick
  BY <1>10 DEF Tick, ObsNext
<1> QED BY <1>1, <1>2, <1>3, <1>4, <1>5, <1>6, <1>7, <1>8, <1>9, <1>10 DEF Next, MatterStep

LEMMA ObsInvKeeps ==
  ASSUME ObsInv, AppTypeOK, [Next]_vars
  PROVE  ObsInv'
<1>1. [ObsNext]_obsVars
  BY StepsOfTheObserver
<1> QED BY <1>1, TickKeeps, CallersKeep, QueueKeeps, ObsRestart, ObsStutters DEF ObsNext

-----------------------------------------------------------------------------
(* Every step keeps the invariant *)

LEMMA MainThreadKeeps ==
  ASSUME AllInv, MainThread
  PROVE  AppInv'
<1> USE DEF AllInv, AppInv, obsVars
<1>1. PICK from \in Boots \ {"running"}, to \in SUBSET Boots, e \in {<<>>, <<"gate">>} :
        BootStep(from, to, e) /\ ("running" \in to => e = <<"gate">>)
  BY DEF MainThread, PrepareServer, InitBoard, RegisterHandlers, InitSensors, StartServer, Boots
<1>2. /\ posted' \in Seq(Posted)
      /\ ReportPosted' <=> ReportPosted
      /\ NoTimePasses
  <2>1. posted' = posted \o e /\ NoTimePasses /\ posted \in Seq(Posted)
    BY <1>1 DEF BootStep, AppTypeOK
  <2>2. CASE e = <<>>
    BY <2>1, <2>2, ScheduledFacts DEF ReportPosted
  <2>3. CASE e = <<"gate">>
    BY <2>1, <2>3, ScheduledFacts DEF ReportPosted
  <2> QED BY <2>1, <2>2, <2>3
<1>3. AppTypeOK'
  BY <1>1, <1>2, WaitingKeeps DEF BootStep, tiltVars, AppTypeOK
<1>4. ~Shown'
  BY <1>1 DEF BootStep, tiltVars, NothingBeforeRunning, Shown
<1>5. NothingBeforeRunning'
  BY <1>1, <1>2, <1>4 DEF BootStep, NothingBeforeRunning
<1> QED BY <1>3, <1>4, <1>5 DEF ReportInTime

LEMMA AppStartValues ==
  /\ "prepare" \in Boots /\ "null" \in Gravities /\ FALSE \in BOOLEAN
  /\ <<>> \in Seq(Posted)
  /\ 1 \in 1..ReportPeriod /\ MaxPublishedAge \in 0..MaxPublishedAge
  /\ [matter |-> 0, queue |-> 0] \in [matter : 0..MaxWaiting, queue : 0..MaxWaiting]
<1>1. "prepare" \in Boots /\ "null" \in Gravities
  BY DEF Boots, Gravities
<1>2. 0 \in 0..MaxWaiting /\ 1 \in 1..ReportPeriod /\ MaxPublishedAge \in 0..MaxPublishedAge
  BY AppAssumption
<1> QED BY <1>1, <1>2, NothingPosted

LEMMA RebootKeeps ==
  ASSUME AllInv, Reboot
  PROVE  AppInv'
<1> USE DEF AllInv, AppInv
<1>1. AppTypeOK'
  BY AppStartValues DEF Reboot, AppTypeOK
<1>2. NothingBeforeRunning'
  BY NothingPosted, EmptyQueue DEF Reboot, ObsReboot, NothingBeforeRunning, Shown, ReportPosted
<1>3. ReportInTime'
  BY DEF Reboot, ReportInTime, Shown
<1> QED BY <1>1, <1>2, <1>3

\* A step that neither publishes nor lets time pass and posts no report
LEMMA QuietKeeps ==
  ASSUME AppTypeOK, AppTypeOK', ReportInTime, NoTimePasses,
         UNCHANGED <<tiltVars, reportIn>>,
         ReportPosted' <=> ReportPosted
  PROVE  ReportInTime'
<1>1. ReportPosted' => posted' # <<>>
  BY NothingPosted DEF ReportPosted
<1>2. ReportPosted' => waiting'.matter = waiting.matter
  BY <1>1, WaitingKeeps
<1> QED BY <1>2 DEF ReportInTime, Shown, tiltVars

LEMMA StackKeeps ==
  ASSUME AllInv, Stack
  PROVE  AppInv'
<1> USE DEF AllInv, AppInv, obsVars
<1>1. CASE Reboot
  BY <1>1, RebootKeeps
<1>2. CASE AdvertisingStarts \/ AdvertisingStops \/ CommissioningCompletes \/ LastFabricRemoved
  <2>1. "advStart" \in Posted /\ "advStop" \in Posted /\ "complete" \in Posted
    BY DEF Posted
  <2>2. posted' \in Seq(Posted) /\ (ReportPosted' <=> ReportPosted)
    <3>1. CASE UNCHANGED posted
      BY <3>1 DEF AppTypeOK, ReportPosted
    <3>2. ASSUME NEW e \in {"advStart", "advStop", "complete"}, Post(e)
          PROVE  posted' \in Seq(Posted) /\ (ReportPosted' <=> ReportPosted)
      BY <2>1, <3>2, PostFacts DEF Post, AppTypeOK, ReportPosted
    <3> QED
      BY <1>2, <3>1, <3>2
         DEF AdvertisingStarts, AdvertisingStops, CommissioningCompletes, LastFabricRemoved
  <2>3. /\ UNCHANGED <<obsVars, boot, reportIn, tiltVars, nullGravity>> /\ NoTimePasses
        /\ commissioned' \in BOOLEAN /\ removed' \in BOOLEAN /\ advertising' \in BOOLEAN
    BY <1>2 DEF AdvertisingStarts, AdvertisingStops, CommissioningCompletes, LastFabricRemoved,
                StackOnly, AppTypeOK
  <2>4. AppTypeOK'
    BY <2>2, <2>3, WaitingKeeps DEF AppTypeOK, tiltVars
  <2>5. NothingBeforeRunning'
    BY <2>2, <2>3 DEF NothingBeforeRunning, Shown, tiltVars
  <2> QED BY <2>2, <2>3, <2>4, <2>5, QuietKeeps
<1> QED BY <1>1, <1>2 DEF Stack, AfterRemoval

LEMMA FreshIsInTime ==
  ASSUME NEW age \in Nat, NEW fresh \in Nat, age <= fresh,
         NEW period \in Nat, NEW due \in 1..period, NEW late \in Nat
  PROVE  age <= fresh + period + late /\ age <= fresh + period - due
OBVIOUS

LEMMA MatterKeeps ==
  ASSUME AllInv, MatterStep
  PROVE  AppInv'
<1> USE DEF AllInv, AppInv, obsVars
<1>1. /\ posted # <<>> /\ posted' = Tail(posted) /\ NoTimePasses
      /\ UNCHANGED <<boot, commissioned, removed, advertising, reportIn>>
  BY DEF MatterStep, ApplyGate, Report, ReportTilt, Handle
<1>2. /\ posted' \in Seq(Posted)
      /\ ReportPosted <=> ReportPosted' \/ Head(posted) = "report"
  BY <1>1, HandledFacts DEF AppTypeOK, ReportPosted
<1>3. CASE ApplyGate
  <2>1. UNCHANGED <<tiltVars, nullGravity>> /\ (ReportPosted' <=> ReportPosted)
    BY <1>2, <1>3 DEF ApplyGate, Handle
  <2>2. AppTypeOK'
    BY <1>1, <1>2, <2>1, WaitingKeeps DEF AppTypeOK, tiltVars
  <2>3. /\ UNCHANGED <<valid, radio, scanActive, wq>>
        /\ Contains(queue', "start") => Contains(queue, "start")
    <3>1. "stop" \in Works
      BY DEF Works
    <3> QED BY <1>3, <3>1, SubmitFacts DEF ApplyGate, Enable, scanVars, ObsInv, ObsTypeOK
  <2>4. NothingBeforeRunning'
    BY <1>1, <2>1, <2>3 DEF NothingBeforeRunning, Shown, tiltVars
  <2> QED BY <1>1, <2>1, <2>2, <2>4, QuietKeeps
<1>4. CASE Report \/ ReportTilt
  <2>1. /\ published' = FreshSample
        /\ publishedAge' = IF FreshSample THEN sampleAge ELSE MaxPublishedAge
        /\ gravity' \in Gravities /\ (Shown' => FreshSample)
        /\ UNCHANGED <<nullGravity, valid, radio, scanActive, wq>>
    <3>1. PublishTilt /\ UNCHANGED <<nullGravity, valid, radio, scanActive, wq>>
      BY <1>4 DEF Report, ReportTilt, Trigger, scanVars
    <3>2. nullGravity \in BOOLEAN /\ FreshSample \in BOOLEAN
      BY DEF AppTypeOK, FreshSample, ObsInv, ObsTypeOK
    <3>3. CASE ~FreshSample
      BY <3>1, <3>3 DEF PublishTilt, Gravities, Shown
    <3>4. CASE FreshSample /\ ~nullGravity
      BY <3>1, <3>4 DEF PublishTilt, Gravities
    <3>5. CASE FreshSample /\ nullGravity
      BY <3>1, <3>5 DEF PublishTilt, Gravities
    <3> QED BY <3>1, <3>2, <3>3, <3>4, <3>5
  <2>2. FreshSample \in BOOLEAN /\ (FreshSample => valid /\ sampleAge \in Nat /\ sampleAge <= SampleMaxAge)
    BY ObserverAssumption DEF FreshSample, ObsInv, ObsTypeOK
  <2>3. AppTypeOK'
    <3>1. publishedAge' \in 0..MaxPublishedAge
      BY <2>1, <2>2, AppAssumption, ObserverAssumption
    <3> QED BY <1>1, <1>2, <2>1, <2>2, <3>1, WaitingKeeps DEF AppTypeOK
  <2>4. NothingBeforeRunning'
    <3>1. CASE Report
      BY <1>2, <3>1 DEF Report, Handle, NothingBeforeRunning, ReportPosted, AppTypeOK
    <3>2. CASE ReportTilt
      BY <1>1, <1>2, <2>1, <2>2, <3>2 DEF ReportTilt, NothingBeforeRunning, Shown
    <3> QED BY <1>4, <3>1, <3>2
  <2>5. ReportInTime'
    <3> SUFFICES ASSUME Shown' PROVE ReportInTime'
      BY DEF ReportInTime
    <3>1. publishedAge' \in Nat /\ publishedAge' <= SampleMaxAge
      BY <2>1, <2>2
    <3>2. reportIn' \in 1..ReportPeriod /\ waiting'.matter \in Nat
      BY <2>3, AppAssumption DEF AppTypeOK
    <3>3. /\ publishedAge' <= SampleMaxAge + ReportPeriod + waiting'.matter
          /\ publishedAge' <= SampleMaxAge + ReportPeriod - reportIn'
      BY <3>1, <3>2, AppAssumption, ObserverAssumption, FreshIsInTime
    <3> QED BY <3>3 DEF ReportInTime
  <2> QED BY <2>3, <2>4, <2>5
<1> QED BY <1>3, <1>4 DEF MatterStep

LEMMA WorkQueueKeeps ==
  ASSUME AllInv, WorkQueueRuns
  PROVE  AppInv'
<1> USE DEF AllInv, AppInv, obsVars
<1>1. /\ posted' \in Seq(Posted) /\ (ReportPosted' <=> ReportPosted)
      /\ UNCHANGED <<boot, commissioned, removed, advertising, reportIn, tiltVars, nullGravity>>
      /\ NoTimePasses
  <2>1. "tilt" \in Posted
    BY DEF Posted
  <2> QED BY <2>1, PostFacts DEF WorkQueueRuns, AppTypeOK, ReportPosted
<1>2. AppTypeOK'
  BY <1>1, WaitingKeeps DEF AppTypeOK, tiltVars
<1>3. NothingBeforeRunning'
  <2> SUFFICES ASSUME boot # "running"
               PROVE  ~valid' /\ ~radio' /\ ~scanActive' /\ wq' = "idle" /\ ~Contains(queue', "start")
    BY <1>1 DEF NothingBeforeRunning, Shown, tiltVars
  <2>1. ~valid /\ ~radio /\ ~scanActive /\ wq = "idle" /\ ~Contains(queue, "start")
    BY DEF NothingBeforeRunning
  <2>2. queue # <<>> => /\ ~Contains(Tail(queue), "start") /\ Head(queue) # "start"
    BY <2>1, TailFacts DEF ObsInv, ObsTypeOK
  <2>3. CASE StopCalls
    BY <2>1, <2>2, <2>3 DEF StopCalls, Dequeue
  <2> QED BY <2>1, <2>2, <2>3
       DEF WorkQueueRuns, WorkQueueStep, StartCalls, Dequeue, RadioOn, StartReturns, RadioOff, StopReturns
<1> QED BY <1>1, <1>2, <1>3, QuietKeeps

LEMMA TiltHeardKeeps ==
  ASSUME AllInv, TiltHeard
  PROVE  AppInv'
<1> USE DEF AllInv, AppInv, obsVars
<1>1. AppTypeOK'
  BY WaitingKeeps DEF TiltHeard, AppTypeOK, tiltVars
<1>2. NothingBeforeRunning'
  BY DEF TiltHeard, Advert, NothingBeforeRunning, Shown, tiltVars
<1> QED BY <1>1, <1>2, QuietKeeps DEF TiltHeard, ReportPosted

LEMMA TickKeepsApp ==
  ASSUME AllInv, Tick
  PROVE  AppInv'
<1> USE DEF AllInv, AppInv, obsVars
<1>1. "report" \in Posted
  BY DEF Posted
<1>2. /\ posted' \in Seq(Posted)
      /\ ReportPosted' <=> ReportPosted \/ ReportDue
      /\ ~ReportDue => posted' = posted
  BY <1>1, PostFacts DEF Tick, AppTypeOK, ReportPosted
<1>3. AppTypeOK'
  <2>1. waiting' \in [matter : 0..MaxWaiting, queue : 0..MaxWaiting]
    BY AppAssumption DEF Tick, AppTypeOK
  <2>2. reportIn' \in 1..ReportPeriod
    BY AppAssumption DEF Tick, AppTypeOK, ReportDue
  <2>3. publishedAge' \in 0..MaxPublishedAge
    BY AppAssumption DEF Tick, AppTypeOK
  <2> QED BY <1>2, <2>1, <2>2, <2>3 DEF Tick, AppTypeOK
<1>4. NothingBeforeRunning'
  <2>1. "timeout" \in Works /\ "timeout" # "start"
    BY DEF Works
  <2>2. Contains(queue', "start") => Contains(queue, "start")
    BY <2>1, SubmitFacts DEF Tick, ObsTick, ObsInv, ObsTypeOK
  <2> QED BY <1>2, <2>2 DEF Tick, ObsTick, NothingBeforeRunning, Shown, ReportDue
<1>5. ReportInTime'
  <2> SUFFICES ASSUME Shown PROVE ReportInTime'
    BY DEF ReportInTime, Shown, Tick
  <2>1. boot = "running" /\ UNCHANGED Shown
    BY DEF NothingBeforeRunning, Shown, Tick
  <2>2. publishedAge' <= publishedAge + 1 /\ publishedAge' \in Int /\ publishedAge \in Int
    BY AppAssumption DEF Tick, AppTypeOK
  <2>3. CASE ReportPosted
    <3>1. posted # <<>>
      BY <2>3, NothingPosted DEF ReportPosted
    <3>2. waiting'.matter = waiting.matter + 1
      BY <3>1 DEF Tick
    <3> QED BY <1>2, <2>2, <2>3, <3>2, AppAssumption, ObserverAssumption DEF ReportInTime, AppTypeOK
  <2>4. CASE ~ReportPosted /\ ReportDue
    <3>1. publishedAge <= SampleMaxAge + ReportPeriod - 1
      BY <2>4 DEF ReportInTime, ReportDue
    <3>2. waiting'.matter \in Nat
      BY <1>3, AppAssumption DEF AppTypeOK
    <3> QED BY <1>2, <2>2, <2>4, <3>1, <3>2, AppAssumption, ObserverAssumption DEF ReportInTime
  <2>5. CASE ~ReportPosted /\ ~ReportDue
    <3>1. reportIn' = reportIn - 1
      BY <2>1, <2>5 DEF Tick
    <3> QED BY <1>2, <2>2, <2>5, <3>1, AppAssumption, ObserverAssumption DEF ReportInTime, AppTypeOK
  <2> QED BY <2>3, <2>4, <2>5
<1> QED BY <1>3, <1>4, <1>5

LEMMA AppStutters ==
  ASSUME AllInv, UNCHANGED vars
  PROVE  AppInv'
BY DEF AllInv, AppInv, vars, appVars, tiltVars, obsVars, AppTypeOK, NothingBeforeRunning, Shown,
       ReportInTime, ReportPosted

LEMMA AppStart ==
  ASSUME Init
  PROVE  AllInv
<1>1. AppTypeOK
  BY AppStartValues DEF Init, AppTypeOK
<1>2. NothingBeforeRunning
  BY NothingPosted, EmptyQueue DEF Init, ObsInit, NothingBeforeRunning, Shown, ReportPosted
<1>3. ReportInTime
  BY DEF Init, ReportInTime, Shown
<1> QED BY <1>1, <1>2, <1>3, ObsStart DEF Init, AllInv, AppInv

\* The application's part of the state keeps its order and its types, and the
\* observer's stays consistent, in every behaviour.
THEOREM AppInvariant == Spec => []AllInv
<1>1. AllInv /\ [Next]_vars => AllInv'
  <2> SUFFICES ASSUME AllInv, [Next]_vars PROVE AllInv'
    OBVIOUS
  <2>1. ObsInv'
    BY ObsInvKeeps DEF AllInv, AppInv
  <2>2. AppInv'
    BY MainThreadKeeps, RebootKeeps, StackKeeps, MatterKeeps, WorkQueueKeeps, TiltHeardKeeps,
       TickKeepsApp, AppStutters DEF Next
  <2> QED BY <2>1, <2>2 DEF AllInv
<1> QED BY <1>1, AppStart, PTL DEF Spec

-----------------------------------------------------------------------------
(* What the run checks follows *)

\* Every variable of the tag has its type, after any number of reboots.
THEOREM AppTypes == Spec => []TypeOK
<1>1. AllInv => TypeOK
  BY DEF AllInv, AppInv, AppTypeOK, ObsInv, TypeOK
<1> QED BY <1>1, AppInvariant, PTL

\* A closed gate and an idle work queue mean that nothing scans, unless the stack
\* failed to stop a scan.
THEOREM GateClosesAlways == Spec => []GateCloses
<1>1. AllInv => GateCloses
  BY GateClosesFrom DEF AllInv
<1> QED BY <1>1, AppInvariant, PTL

\* Between its handlers s_scan_active says whether the controller scans.
THEOREM ScanOwnedAlways == Spec => []ScanOwned
<1>1. AllInv => ScanOwned
  BY DEF AllInv, ObsInv
<1> QED BY <1>1, AppInvariant, PTL

\* A burst that is on will be ended by its own timeout and by no other's.
THEOREM TimeoutOfItsBurst == Spec => []TimeoutBelongsToBurst
<1>1. AllInv => TimeoutBelongsToBurst
  BY DEF AllInv, ObsInv
<1> QED BY <1>1, AppInvariant, PTL

\* What the Matter server shows is recent, whatever the periods and the delays.
THEOREM PublishedRecently == Spec => []PublishedIsRecent
<1>1. AllInv => PublishedIsRecent
  BY AppAssumption, ObserverAssumption
     DEF AllInv, AppInv, AppTypeOK, ReportInTime, Shown, PublishedIsRecent
<1> QED BY <1>1, AppInvariant, PTL

-----------------------------------------------------------------------------
(* The policy of the gate *)

GateEvents == {"gate", "complete", "advStart", "advStop"}

\* Nothing that is posted sets the gate; e is the last that does.
GateIsSet(q) == \A i \in 1..Len(q) : q[i] \notin GateEvents
LastToSet(q, e) ==
  \E i \in 1..Len(q) : q[i] = e /\ \A j \in 1..Len(q) : j > i => q[j] \notin GateEvents

\* What handling e as the last event will make of the gate is the policy.
Right(e) ==
  CASE e = "gate"     -> ~(commissioned /\ advertising)
    [] e = "complete" -> commissioned /\ ~advertising
    [] e = "advStart" -> advertising
    [] e = "advStop"  -> ~advertising

PolicyInv ==
  /\ removed => ~commissioned
  /\ boot # "running" => ~(commissioned /\ advertising)
  /\ ~removed => \A e \in GateEvents : LastToSet(posted, e) => Right(e)
  /\ ~removed /\ boot = "running" /\ GateIsSet(posted) =>
       (enabled <=> commissioned /\ ~advertising)

LEMMA EventSetsGate ==
  ASSUME NEW q \in Seq(Posted), NEW e \in GateEvents
  PROVE  /\ ~GateIsSet(Append(q, e))
         /\ \A v \in GateEvents : LastToSet(Append(q, e), v) => v = e
<1> DEFINE r == Append(q, e)
<1>1. Len(q) \in Nat /\ Len(r) = Len(q) + 1 /\ r[Len(q) + 1] = e
  BY LenProperties, AppendProperties
<1> HIDE DEF r
<1>2. ~GateIsSet(r)
  BY <1>1 DEF GateIsSet
<1>3. ASSUME NEW v \in GateEvents, LastToSet(r, v) PROVE v = e
  <2>1. PICK i \in 1..Len(r) : r[i] = v /\ \A j \in 1..Len(r) : j > i => r[j] \notin GateEvents
    BY <1>3 DEF LastToSet
  <2> QED BY <1>1, <2>1
<1> QED BY <1>2, <1>3 DEF r

LEMMA ReportLeavesGate ==
  ASSUME NEW q \in Seq(Posted), NEW e \in Posted \ GateEvents
  PROVE  /\ GateIsSet(Append(q, e)) => GateIsSet(q)
         /\ \A v \in GateEvents : LastToSet(Append(q, e), v) => LastToSet(q, v)
<1> DEFINE r == Append(q, e)
<1>1. /\ Len(q) \in Nat /\ Len(r) = Len(q) + 1 /\ r[Len(q) + 1] = e
      /\ \A i \in 1..Len(q) : r[i] = q[i]
  BY LenProperties, AppendProperties
<1> HIDE DEF r
<1>2. GateIsSet(r) => GateIsSet(q)
  BY <1>1 DEF GateIsSet
<1>3. ASSUME NEW v \in GateEvents, LastToSet(r, v) PROVE LastToSet(q, v)
  <2>1. PICK i \in 1..Len(r) : r[i] = v /\ \A j \in 1..Len(r) : j > i => r[j] \notin GateEvents
    BY <1>3 DEF LastToSet
  <2>2. i \in 1..Len(q)
    BY <1>1, <2>1
  <2> QED BY <1>1, <2>1, <2>2 DEF LastToSet
<1> QED BY <1>2, <1>3 DEF r

LEMMA HandledSetsGate ==
  ASSUME NEW q \in Seq(Posted), q # <<>>
  PROVE  /\ GateIsSet(Tail(q)) => GateIsSet(q) \/ (Head(q) \in GateEvents /\ LastToSet(q, Head(q)))
         /\ \A v \in GateEvents : LastToSet(Tail(q), v) => LastToSet(q, v)
<1> DEFINE r == Tail(q)
<1>1. /\ Len(r) = Len(q) - 1 /\ Len(q) \in Nat /\ Len(q) > 0 /\ Head(q) = q[1]
      /\ \A i \in 1..Len(r) : r[i] = q[i + 1]
  BY HeadTailProperties, LenProperties, EmptySeq
<1> HIDE DEF r
<1>2. \A j \in 1..Len(q) : j > 1 => j - 1 \in 1..Len(r) /\ r[j - 1] = q[j]
  BY <1>1
<1>3. ASSUME GateIsSet(r)
      PROVE  GateIsSet(q) \/ (Head(q) \in GateEvents /\ LastToSet(q, Head(q)))
  <2>1. \A j \in 1..Len(q) : j > 1 => q[j] \notin GateEvents
    BY <1>2, <1>3 DEF GateIsSet
  <2>2. 1 \in 1..Len(q) /\ \A j \in 1..Len(q) : j = 1 \/ j > 1
    BY <1>1
  <2> QED BY <1>1, <2>1, <2>2 DEF GateIsSet, LastToSet
<1>4. ASSUME NEW v \in GateEvents, LastToSet(r, v) PROVE LastToSet(q, v)
  <2>1. PICK i \in 1..Len(r) : r[i] = v /\ \A j \in 1..Len(r) : j > i => r[j] \notin GateEvents
    BY <1>4 DEF LastToSet
  <2>2. i + 1 \in 1..Len(q) /\ q[i + 1] = v
    BY <1>1, <2>1
  <2>3. ASSUME NEW j \in 1..Len(q), j > i + 1 PROVE q[j] \notin GateEvents
    <3>1. j - 1 \in 1..Len(r) /\ r[j - 1] = q[j] /\ j - 1 > i
      BY <1>1, <1>2, <2>1, <2>3
    <3> QED BY <2>1, <3>1
  <2> QED BY <2>2, <2>3 DEF LastToSet
<1> QED BY <1>3, <1>4 DEF r

LEMMA NothingSetsGate ==
  GateIsSet(<<>>) /\ \A v : ~LastToSet(<<>>, v)
<1>1. Len(<<>>) = 0
  BY EmptySeq
<1> QED BY <1>1 DEF GateIsSet, LastToSet

LEMMA PolicyMainThread ==
  ASSUME AllInv, PolicyInv, MainThread
  PROVE  PolicyInv'
<1>1. posted \in Seq(Posted) /\ "gate" \in GateEvents
  BY DEF AllInv, AppInv, AppTypeOK, GateEvents
<1>2. UNCHANGED <<obsVars, commissioned, removed, advertising>> /\ boot # "running"
  BY DEF MainThread, PrepareServer, InitBoard, RegisterHandlers, InitSensors, StartServer, BootStep
<1>3. CASE posted' = posted \o <<>> /\ boot' # "running"
  <2>1. posted' = posted
    BY <1>1, <1>3, ScheduledFacts
  <2> QED BY <1>2, <1>3, <2>1 DEF PolicyInv, Right
<1>4. CASE posted' = posted \o <<"gate">>
  <2>1. posted' = Append(posted, "gate")
    <3>1. "gate" \in Posted
      BY DEF Posted
    <3> QED BY <1>1, <1>4, <3>1, AppendIsConcat
  <2>2. ~GateIsSet(posted') /\ \A v \in GateEvents : LastToSet(posted', v) => v = "gate"
    BY <1>1, <2>1, EventSetsGate
  <2>3. Right("gate")'
    BY <1>2 DEF PolicyInv, Right
  <2>4. /\ boot' # "running" => ~(commissioned' /\ advertising')
        /\ removed' => ~commissioned'
    BY <1>2 DEF PolicyInv
  <2> QED BY <2>2, <2>3, <2>4 DEF PolicyInv
<1> QED
  BY <1>3, <1>4
     DEF MainThread, PrepareServer, InitBoard, RegisterHandlers, InitSensors, StartServer, BootStep

LEMMA PolicyReboot ==
  ASSUME Reboot
  PROVE  PolicyInv'
<1>1. \A v : ~LastToSet(posted', v)
  BY NothingSetsGate DEF Reboot
<1>2. advertising' = FALSE /\ removed' = FALSE /\ boot' = "prepare"
  BY DEF Reboot
<1> QED BY <1>1, <1>2 DEF PolicyInv

LEMMA PolicyStack ==
  ASSUME AllInv, PolicyInv, Stack
  PROVE  PolicyInv'
<1>1. CASE Reboot
  BY <1>1, PolicyReboot
<1>2. posted \in Seq(Posted) /\ {"advStart", "advStop", "complete"} \subseteq GateEvents
  BY DEF AllInv, AppInv, AppTypeOK, GateEvents
<1>3. ASSUME NEW e \in {"advStart", "advStop", "complete"}, Post(e)
      PROVE  ~GateIsSet(posted') /\ \A v \in GateEvents : LastToSet(posted', v) => v = e
  BY <1>2, <1>3, EventSetsGate DEF Post
<1>4. CASE AdvertisingStarts
  <2>1. Right("advStart")' /\ (boot' # "running" => ~(commissioned' /\ advertising'))
    BY <1>4 DEF AdvertisingStarts, StackOnly, Right
  <2> QED BY <1>3, <1>4, <2>1 DEF AdvertisingStarts, PolicyInv
<1>5. CASE AdvertisingStops
  <2>1. Right("advStop")' /\ advertising' = FALSE
    BY <1>5 DEF AdvertisingStops, Right
  <2> QED BY <1>3, <1>5, <2>1 DEF AdvertisingStops, PolicyInv
<1>6. CASE CommissioningCompletes
  <2>1. Right("complete")' /\ advertising' = FALSE
    BY <1>6 DEF CommissioningCompletes, Right, AllInv, AppInv, AppTypeOK
  <2> QED BY <1>3, <1>6, <2>1 DEF CommissioningCompletes, PolicyInv
<1>7. CASE LastFabricRemoved
  <2>1. /\ UNCHANGED <<posted, advertising, boot, enabled>> /\ boot = "running"
        /\ commissioned /\ ~commissioned' /\ (~removed' => advertising)
    BY <1>7 DEF LastFabricRemoved, StackOnly, obsVars
  <2>2. ~removed
    BY <2>1 DEF PolicyInv
  <2>3. CASE removed'
    BY <2>1, <2>3 DEF PolicyInv
  <2>4. CASE ~removed'
    <3>1. ASSUME NEW e \in GateEvents, LastToSet(posted', e)
          PROVE  Right(e)'
      <4>1. Right(e)
        BY <2>1, <2>2, <3>1 DEF PolicyInv
      <4> QED BY <2>1, <2>4, <3>1, <4>1 DEF Right, GateEvents
    <3>2. GateIsSet(posted') => (enabled' <=> commissioned' /\ ~advertising')
      BY <2>1, <2>2, <2>4 DEF PolicyInv
    <3> QED BY <2>1, <3>1, <3>2 DEF PolicyInv
  <2> QED BY <2>3, <2>4
<1> QED BY <1>1, <1>4, <1>5, <1>6, <1>7 DEF Stack, AfterRemoval

LEMMA PolicyMatter ==
  ASSUME AllInv, PolicyInv, MatterStep
  PROVE  PolicyInv'
<1>1. /\ posted \in Seq(Posted) /\ posted # <<>> /\ posted' = Tail(posted)
      /\ UNCHANGED <<boot, commissioned, removed, advertising>>
  BY DEF MatterStep, ApplyGate, Report, ReportTilt, Handle, AllInv, AppInv, AppTypeOK
<1>2. \A v \in GateEvents : LastToSet(posted', v) => LastToSet(posted, v)
  BY <1>1, HandledSetsGate
<1>3. ~removed' => \A e \in GateEvents : LastToSet(posted', e) => Right(e)'
  BY <1>1, <1>2 DEF PolicyInv, Right
<1>4. ASSUME ~removed, boot = "running", GateIsSet(posted')
      PROVE  enabled' <=> commissioned /\ ~advertising
  <2>1. GateIsSet(posted) \/ (Head(posted) \in GateEvents /\ LastToSet(posted, Head(posted)))
    BY <1>1, <1>4, HandledSetsGate
  <2>2. CASE ApplyGate
    <3>1. PICK e \in GateEvents : Handle(e) /\ Enable(GateOpen(e))
      BY <2>2 DEF ApplyGate, GateEvents
    <3>2. e = Head(posted) /\ e \in {posted[i] : i \in 1..Len(posted)}
      <4>1. Head(posted) = posted[1] /\ 1 \in 1..Len(posted)
        BY <1>1, HeadTailProperties, LenProperties, EmptySeq
      <4> QED BY <3>1, <4>1 DEF Handle
    <3>3. LastToSet(posted, e)
      BY <2>1, <3>1, <3>2 DEF GateIsSet
    <3>4. Right(e)
      BY <1>4, <3>1, <3>3 DEF PolicyInv
    <3>5. enabled' = GateOpen(e)
      BY <3>1 DEF Enable
    <3>6. commissioned \in BOOLEAN /\ advertising \in BOOLEAN
      BY DEF AllInv, AppInv, AppTypeOK
    <3> QED BY <3>1, <3>4, <3>5, <3>6 DEF GateOpen, Right, GateEvents
  <2>3. CASE Report \/ ReportTilt
    <3>1. Head(posted) \notin GateEvents /\ UNCHANGED enabled
      BY <2>3 DEF Report, ReportTilt, Handle, Trigger, GateEvents, obsVars
    <3> QED BY <1>4, <2>1, <3>1 DEF PolicyInv
  <2> QED BY <2>2, <2>3 DEF MatterStep
<1> QED BY <1>1, <1>3, <1>4 DEF PolicyInv

LEMMA PolicyOthers ==
  ASSUME AllInv, PolicyInv, WorkQueueRuns \/ TiltHeard \/ Tick \/ UNCHANGED vars
  PROVE  PolicyInv'
<1>1. posted \in Seq(Posted) /\ {"tilt", "report"} \subseteq Posted \ GateEvents
  BY DEF AllInv, AppInv, AppTypeOK, GateEvents, Posted
<1>2. UNCHANGED <<enabled, boot, commissioned, removed, advertising>>
  BY DEF WorkQueueRuns, TiltHeard, Tick, vars, appVars, obsVars, WorkQueueStep, StartCalls, RadioOn,
         StartReturns, StopCalls, RadioOff, StopReturns, Advert, ObsTick
<1>3. posted' = posted \/ \E e \in {"tilt", "report"} : posted' = Append(posted, e)
  BY DEF WorkQueueRuns, TiltHeard, Tick, vars, appVars
<1>4. /\ GateIsSet(posted') => GateIsSet(posted)
      /\ \A v \in GateEvents : LastToSet(posted', v) => LastToSet(posted, v)
  <2>1. CASE posted' = posted
    BY <2>1, Zenon
  <2>2. ASSUME NEW e \in {"tilt", "report"}, posted' = Append(posted, e)
        PROVE  /\ GateIsSet(posted') => GateIsSet(posted)
               /\ \A v \in GateEvents : LastToSet(posted', v) => LastToSet(posted, v)
    <3>1. posted \in Seq(Posted) /\ e \in Posted \ GateEvents
      BY <1>1, Zenon
    <3> QED BY <2>2, <3>1, ReportLeavesGate, Zenon
  <2> QED BY <1>3, <2>1, <2>2, Zenon
<1> QED BY <1>2, <1>4 DEF PolicyInv, Right

\* The gate follows the policy of app_task.cpp for any number of events, however
\* late the Matter thread handles them.
THEOREM PolicyFollowed == Spec => []GateFollowsPolicy
<1>1. Init => PolicyInv
  <2> SUFFICES ASSUME Init PROVE PolicyInv
    OBVIOUS
  <2>1. \A v : ~LastToSet(posted, v)
    BY NothingSetsGate DEF Init
  <2> QED BY <2>1 DEF Init, PolicyInv
<1>2. AllInv /\ PolicyInv /\ [Next]_vars => PolicyInv'
  BY PolicyMainThread, PolicyReboot, PolicyStack, PolicyMatter, PolicyOthers DEF Next
<1>3. PolicyInv => GateFollowsPolicy
  BY NothingSetsGate DEF PolicyInv, GateFollowsPolicy, Settled
<1> QED BY <1>1, <1>2, <1>3, AppInvariant, PTL DEF Spec

-----------------------------------------------------------------------------
(* The callback *)

\* Only a burst that is on or being stopped has heard anything, which is no older
\* than its start.
HeardInv ==
  /\ heard => valid /\ sampleAge <= burstAge
  /\ heard => scanActive \/ wq = "stopping"

LEMMA HeardKeeps ==
  ASSUME ObsInv, HeardInv, [ObsNext]_obsVars
  PROVE  HeardInv'
<1>1. CASE ObsTick
  BY <1>1, ObserverAssumption DEF ObsTick, Older, HeardInv, ObsInv, ObsTypeOK
<1>2. CASE Trigger \/ \E on \in BOOLEAN : Enable(on)
  BY <1>2 DEF Trigger, Enable, scanVars, HeardInv
<1>3. CASE Advert
  <2>1. burstAge >= 0
    BY DEF ObsInv, ObsTypeOK
  <2> QED BY <1>3, <2>1 DEF Advert, scanVars, HeardInv, ObsInv, HandlerInv
<1>4. CASE WorkQueueStep
  <2> USE DEF HeardInv, scanVars
  <2>1. CASE StartCalls
    BY <2>1 DEF StartCalls, Dequeue
  <2>2. CASE StartReturns
    BY <2>2 DEF StartReturns, ObsInv, HandlerInv
  <2>3. CASE StopCalls
    BY <2>3 DEF StopCalls, Dequeue
  <2>4. CASE RadioOn \/ RadioOff \/ StopReturns
    BY <2>4 DEF RadioOn, RadioOff, StopReturns
  <2> QED BY <1>4, <2>1, <2>2, <2>3, <2>4 DEF WorkQueueStep
<1>5. CASE ObsReboot
  BY <1>5 DEF ObsReboot, HeardInv
<1>6. CASE UNCHANGED obsVars
  BY <1>6 DEF obsVars, HeardInv
<1> QED BY <1>1, <1>2, <1>3, <1>4, <1>5, <1>6 DEF ObsNext

\* A burst that heard the Tilt calls back, whatever arrives while it is stopped.
THEOREM CallbackAlways == Spec => CallbackAfterCapture
<1>1. Init => HeardInv
  BY DEF Init, ObsInit, HeardInv
<1>2. AllInv /\ HeardInv /\ [Next]_vars => HeardInv'
  BY HeardKeeps, StepsOfTheObserver DEF AllInv, AppInv
<1>3. AllInv /\ HeardInv /\ [Next]_vars =>
        [StopReturns /\ heard => posted' = Append(posted, "tilt")]_vars
  <2> SUFFICES ASSUME AllInv, HeardInv, Next, StopReturns, heard
               PROVE  posted' = Append(posted, "tilt")
    OBVIOUS
  <2>1. WorkQueueRuns
    <3>1. wq = "stopping" /\ wq' = "idle" /\ valid /\ valid'
      BY DEF StopReturns, HeardInv
    <3>2. ~Reboot
      BY <3>1 DEF Reboot, ObsReboot
    <3>3. ~MainThread
      BY <3>1 DEF MainThread, PrepareServer, InitBoard, RegisterHandlers, InitSensors, StartServer,
                  BootStep, obsVars
    <3>4. ~Stack
      BY <3>1, <3>2 DEF Stack, AdvertisingStarts, AdvertisingStops, CommissioningCompletes,
                        LastFabricRemoved, AfterRemoval, StackOnly, obsVars
    <3>5. ~MatterStep /\ ~TiltHeard /\ ~Tick
      BY <3>1 DEF MatterStep, ApplyGate, Enable, Report, ReportTilt, Trigger, TiltHeard, Advert, Tick,
                  ObsTick, obsVars
    <3> QED BY <3>2, <3>3, <3>4, <3>5 DEF Next
  <2> QED BY <2>1 DEF WorkQueueRuns, Captured, HeardInv
<1> QED BY <1>1, <1>2, <1>3, AppInvariant, PTL DEF Spec, CallbackAfterCapture
=============================================================================
