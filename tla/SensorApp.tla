----------------------------- MODULE SensorApp -----------------------------
(***************************************************************************)
(* app_task.cpp on top of the observer.  The main thread starts the tag    *)
(* step by step and gives up at the first one that fails.  The Matter      *)
(* thread handles device events and scheduled work in the order they were  *)
(* posted, opens and closes the observer's gate, and once per report       *)
(* period publishes what it has and triggers a scan burst.                 *)
(*                                                                         *)
(* The Matter stack is external: commissioning, the fabric table and       *)
(* CHIPoBLE advertising change by themselves and post an event afterwards, *)
(* except that nothing is posted when the last fabric is removed.          *)
(***************************************************************************)
EXTENDS Observer

CONSTANTS
  ReportPeriod,     \* kReportPeriodMs, in ticks
  MaxPublishedAge,  \* bound: the age of what is published saturates here
  MaxPosted,        \* bound: events waiting for the Matter thread
  MaxWaiting        \* bound: ticks that a thread takes to finish its work

ASSUME AppAssumption ==
  /\ ReportPeriod \in Nat \ {0} /\ MaxPosted \in Nat /\ MaxWaiting \in Nat
  /\ MaxPublishedAge \in Nat
  /\ BurstTimeout + MaxWaiting < MaxAge
  /\ SampleMaxAge + ReportPeriod + MaxWaiting < MaxPublishedAge

Posted == {"gate", "complete", "advStart", "advStop", "report", "tilt"}

\* What AppTask::Init is about to do
Boots == {"prepare", "board", "handlers", "sensors", "server", "running", "failed"}

\* EP3 has no value, that of the sample that EP2 is from, or an earlier one.
Gravities == {"null", "published", "earlier"}

VARIABLES
  boot,           \* how far AppTask::Init has come
  commissioned,   \* FabricCount() > 0; the only variable that is kept in flash
  removed,        \* has the last fabric just been removed
  advertising,    \* CHIPoBLE advertising
  posted,         \* what the Matter thread has still to handle, in order
  reportIn,       \* ticks until sReportTimer expires
  published,      \* is EP2 a value (not null)
  publishedAge,   \* the age of the sample that it is from, the bound for null
  gravity,        \* what EP3 has: see Gravities
  nullGravity,    \* is the gravity of a fresh sample 0xFFFF, which stands for null
  waiting         \* for how many ticks each thread has not been done

tiltVars == <<published, publishedAge, gravity>>
appVars == <<boot, commissioned, removed, advertising, posted, reportIn, tiltVars, nullGravity, waiting>>
vars == <<obsVars, appVars>>

TypeOK ==
  /\ ObsTypeOK
  /\ boot \in Boots
  /\ commissioned \in BOOLEAN /\ removed \in BOOLEAN /\ advertising \in BOOLEAN
  /\ posted \in Seq(Posted)
  /\ reportIn \in 1..ReportPeriod
  /\ published \in BOOLEAN /\ publishedAge \in 0..MaxPublishedAge
  /\ gravity \in Gravities /\ nullGravity \in BOOLEAN
  /\ waiting \in [matter : 0..MaxWaiting, queue : 0..MaxWaiting]

Init ==
  /\ ObsInit
  /\ boot = "prepare" /\ commissioned \in BOOLEAN /\ removed = FALSE /\ advertising = FALSE
  /\ posted = <<>> /\ reportIn = 1
  /\ published = FALSE /\ publishedAge = MaxPublishedAge
  /\ gravity = "null" /\ nullGravity = FALSE
  /\ waiting = [matter |-> 0, queue |-> 0]

\* A thread that has finished its work waits no more.
NoTimePasses ==
  waiting' = [matter |-> IF posted' = <<>> THEN 0 ELSE waiting.matter,
              queue |-> IF AtRest' THEN 0 ELSE waiting.queue]

-----------------------------------------------------------------------------
(* The main thread *)

\* ReturnErrorOnFailure: a step that fails is the last one, main returns and the
\* other threads go on; nothing resets the tag.
BootStep(from, to, scheduled) ==
  /\ boot = from /\ boot' \in to
  /\ posted' = posted \o scheduled
  /\ UNCHANGED <<obsVars, commissioned, removed, advertising, reportIn, tiltVars, nullGravity>>
  /\ NoTimePasses

PrepareServer == BootStep("prepare", {"board", "failed"}, <<>>)
InitBoard == BootStep("board", {"handlers", "failed"}, <<>>)
RegisterHandlers == BootStep("handlers", {"sensors", "failed"}, <<>>)

\* ambient_init and observer_init return nothing.
InitSensors == BootStep("sensors", {"server"}, <<>>)

\* Then the gate is scheduled and the report timer is started.
StartServer ==
  BootStep("server", {"running"}, <<"gate">>) \/ BootStep("server", {"failed"}, <<>>)

MainThread == PrepareServer \/ InitBoard \/ RegisterHandlers \/ InitSensors \/ StartServer

\* Power, watchdog, or the stack itself
Reboot ==
  /\ ObsReboot
  /\ boot' = "prepare" /\ removed' = FALSE /\ advertising' = FALSE
  /\ posted' = <<>> /\ reportIn' = 1
  /\ published' = FALSE /\ publishedAge' = MaxPublishedAge
  /\ gravity' = "null" /\ nullGravity' = FALSE
  /\ waiting' = [matter |-> 0, queue |-> 0]
  /\ UNCHANGED commissioned

-----------------------------------------------------------------------------
(* The Matter stack *)

\* An event is not posted when the Matter thread is already late.
Post(e) ==
  /\ Len(posted) < MaxPosted /\ waiting.matter < MaxWaiting
  /\ posted' = Append(posted, e)

StackOnly == UNCHANGED <<obsVars, boot, reportIn, tiltVars, nullGravity>> /\ NoTimePasses

\* A tag without a fabric advertises as soon as the server starts.
AdvertisingStarts ==
  /\ boot = "running" \/ (boot = "server" /\ ~commissioned)
  /\ ~advertising
  /\ advertising' = TRUE /\ removed' = FALSE /\ Post("advStart")
  /\ UNCHANGED commissioned /\ StackOnly

AdvertisingStops ==
  /\ advertising
  /\ advertising' = FALSE /\ Post("advStop")
  /\ UNCHANGED <<commissioned, removed>> /\ StackOnly

\* Of the first fabric or another one; advertising has ended by then.
CommissioningCompletes ==
  /\ boot = "running" /\ ~advertising
  /\ commissioned' = TRUE /\ removed' = FALSE /\ Post("complete")
  /\ UNCHANGED advertising /\ StackOnly

\* While the tag advertises it is in a commissioning window, and removing the
\* fabric changes nothing for the gate.
LastFabricRemoved ==
  /\ boot = "running" /\ commissioned
  /\ commissioned' = FALSE /\ removed' = ~advertising
  /\ UNCHANGED <<advertising, posted>> /\ StackOnly

\* Soon after, the stack reboots the tag or starts advertising, as it is configured.
AfterRemoval == removed /\ (Reboot \/ AdvertisingStarts)

-----------------------------------------------------------------------------
(* The Matter thread *)

Handle(e) == posted # <<>> /\ Head(posted) = e

\* Mutants: the fabric table is not asked; advertising does not close the gate;
\* only commissioning opens it.
OpenWhenAdvertisingStops(e) == e \in {"complete", "advStop"}
OpenWhileAdvertising(e) == e # "gate" \/ commissioned
OpenOnlyOnce(e) == e = "complete" \/ (e = "gate" /\ commissioned)

\* ApplyInitialObserverGate and AppBleObserverPolicy
GateOpen(e) == CASE e = "gate"     -> commissioned
                 [] e = "complete" -> TRUE
                 [] e = "advStart" -> FALSE
                 [] e = "advStop"  -> commissioned

ApplyGate ==
  \E e \in {"gate", "complete", "advStart", "advStop"} :
    /\ Handle(e)
    /\ Enable(GateOpen(e))
    /\ posted' = Tail(posted)
    /\ UNCHANGED <<boot, commissioned, removed, advertising, reportIn, tiltVars, nullGravity>>
    /\ NoTimePasses

\* ReportTiltWork: publish the sample while it is fresh, null otherwise.  Nobody
\* looks at the result of Set: EP3 keeps what it has when the gravity is refused.
PublishTilt ==
  /\ published' = FreshSample
  /\ publishedAge' = IF FreshSample THEN sampleAge ELSE MaxPublishedAge
  /\ gravity' = CASE ~FreshSample -> "null"
                  [] FreshSample /\ ~nullGravity -> "published"
                  [] FreshSample /\ nullGravity -> IF gravity = "null" THEN "null" ELSE "earlier"

\* ReportWork ends with observer_trigger.
Report ==
  /\ Handle("report")
  /\ PublishTilt
  /\ Trigger
  /\ posted' = Tail(posted)
  /\ UNCHANGED <<boot, commissioned, removed, advertising, reportIn, nullGravity>>
  /\ NoTimePasses

ReportTilt ==
  /\ Handle("tilt")
  /\ PublishTilt
  /\ posted' = Tail(posted)
  /\ UNCHANGED <<obsVars, boot, commissioned, removed, advertising, reportIn, nullGravity>>
  /\ NoTimePasses

MatterStep == ApplyGate \/ Report \/ ReportTilt

-----------------------------------------------------------------------------
(* The other threads *)

\* TiltSampleReady schedules ReportTiltWork.
WorkQueueRuns ==
  /\ WorkQueueStep
  /\ posted' = IF StopReturns /\ Captured THEN Append(posted, "tilt") ELSE posted
  /\ UNCHANGED <<boot, commissioned, removed, advertising, reportIn, tiltVars, nullGravity>>
  /\ NoTimePasses

\* The sample has any gravity of 16 bits.
TiltHeard ==
  /\ Advert
  /\ nullGravity' \in BOOLEAN
  /\ UNCHANGED <<boot, commissioned, removed, advertising, posted, reportIn, tiltVars>>
  /\ NoTimePasses

ReportDue == boot = "running" /\ reportIn = 1

\* sReportTimer schedules ReportWork once per period.  While the tag starts
\* nothing depends on the time.
Tick ==
  /\ boot \in {"running", "failed"}
  /\ waiting.matter < MaxWaiting /\ waiting.queue < MaxWaiting
  /\ ObsTick
  /\ publishedAge' = IF publishedAge < MaxPublishedAge THEN publishedAge + 1 ELSE publishedAge
  /\ reportIn' = IF ReportDue THEN ReportPeriod ELSE IF boot = "running" THEN reportIn - 1 ELSE reportIn
  /\ posted' = IF ReportDue THEN Append(posted, "report") ELSE posted
  /\ waiting' = [matter |-> IF posted = <<>> THEN 0 ELSE waiting.matter + 1,
                 queue |-> IF AtRest THEN 0 ELSE waiting.queue + 1]
  /\ nullGravity' = (FreshSample' /\ nullGravity)
  /\ UNCHANGED <<boot, commissioned, removed, advertising, published, gravity>>

Stack ==
  \/ AdvertisingStarts \/ AdvertisingStops \/ CommissioningCompletes
  \/ LastFabricRemoved \/ AfterRemoval

Next == MainThread \/ Reboot \/ Stack \/ MatterStep \/ WorkQueueRuns \/ TiltHeard \/ Tick
Spec == Init /\ [][Next]_vars

\* Every thread gets its turn, time goes on and the stack does what it does after
\* a removal; advertisements need not come.
FairSpec ==
  /\ Spec
  /\ WF_vars(MainThread) /\ WF_vars(WorkQueueRuns) /\ WF_vars(MatterStep) /\ WF_vars(Tick)
  /\ WF_vars(AfterRemoval)

-----------------------------------------------------------------------------
(* Properties *)

Settled == boot = "running" /\ posted = <<>> /\ AtRest

\* The policy of app_task.cpp, once every event has been handled: scanning is
\* enabled when commissioned and not advertising, and not otherwise.  From the
\* removal of the last fabric the policy waits for what the stack does next.
GateFollowsPolicy == Settled /\ ~removed => (enabled <=> commissioned /\ ~advertising)

\* app_task.cpp:79: "Not commissioned -> Tilt scanning disabled".  Nobody tells
\* the policy of a removal, but the gate does not stay open.
GateClosesAfterRemoval == ~commissioned ~> ~enabled \/ commissioned

\* ReportTiltWork: "null if no new sample".  Either endpoint has a value only while
\* a sample has been published that is not older than SAMPLE_MAX_AGE_MS by more than
\* a report period and the Matter thread's delay.  It is what EP2 has; EP3 has the
\* gravity of an earlier one when that of this one was refused, and such a gravity,
\* whose own age has no bound, does not outlive it.
PublishedIsRecent ==
  published \/ gravity # "null" =>
    publishedAge <= SampleMaxAge + ReportPeriod + MaxWaiting

\* observer.h: the callback is invoked after a burst captures a fresh sample; its
\* work waits for the Matter thread then.  An advertisement that arrives before
\* bt_le_scan_start has returned is older than the start of its burst, and is left
\* to the next periodic report.
CallbackAfterCapture ==
  [][StopReturns /\ heard => posted' = Append(posted, "tilt")]_vars

\* s_timeout_work caps a burst: every scan ends, with and without an
\* advertisement, unless the stack failed to stop it.
BurstsEnd == radio ~> ~radio \/ leftOn

\* app_task.cpp:80: "Commissioned and not advertising -> Tilt scanning enabled".
\* As long as that is so and the tag is up, one burst follows another, whatever
\* advertising, failed starts and reboots came before.
BurstsGoOn ==
  []<>(wq = "starting" \/ ~commissioned \/ advertising \/ leftOn \/ boot # "running")
=============================================================================
