----------------------------- MODULE Observer -----------------------------
(***************************************************************************)
(* ble_observer/observer.c: short BLE scan bursts that listen for the Tilt *)
(* hydrometer.  Three threads meet here: the callers of the public API     *)
(* (the Matter thread), the Bluetooth receive thread, which delivers       *)
(* advertisements, and the system work queue, which alone touches the scan *)
(* state.  A handler on the work queue is interrupted only where it blocks *)
(* in the Bluetooth stack, so it is two steps: up to that call, and from   *)
(* its return.                                                             *)
(*                                                                         *)
(* Timestamps are kept as ages in ticks, saturating at MaxAge.  The work   *)
(* queue and the Bluetooth stack are external: k_work_submit does nothing  *)
(* for work that is queued, k_work_cancel_delayable disarms the timer and  *)
(* takes the work off the queue.                                           *)
(***************************************************************************)
EXTENDS Integers, Sequences, SequencesExt

CONSTANTS
  BurstTimeout,    \* BURST_TIMEOUT
  SampleMaxAge,    \* SAMPLE_MAX_AGE_MS
  MaxAge           \* bound: ages saturate here

ASSUME ObserverAssumption ==
  /\ BurstTimeout \in Nat \ {0} /\ SampleMaxAge \in Nat /\ MaxAge \in Nat
  /\ BurstTimeout < MaxAge /\ SampleMaxAge < MaxAge

Works == {"start", "stop", "timeout"}
Disarmed == -1

VARIABLES
  enabled,      \* s_enabled
  valid,        \* s_tilt.valid
  sampleAge,    \* now - s_tilt.timestamp_ms
  scanActive,   \* s_scan_active
  burstAge,     \* now - s_burst_start_ms
  timer,        \* ticks until s_timeout_work is queued, or Disarmed
  queue,        \* the system work queue
  wq,           \* what it is doing: see WorkQueueStates
  radio,        \* is the controller scanning
  heard,        \* history: has the burst heard a Tilt since its start was stamped
  leftOn        \* history: has bt_le_scan_stop failed and left the radio on

obsVars == <<enabled, valid, sampleAge, scanActive, burstAge, timer, queue, wq,
             radio, heard, leftOn>>
scanVars == <<scanActive, burstAge, timer>>

WorkQueueStates ==
  { "idle",        \* in no handler
    "starting",    \* in bt_le_scan_start, which has not taken effect
    "started",     \* in bt_le_scan_start, which has
    "stopping" }   \* in bt_le_scan_stop

ObsTypeOK ==
  /\ enabled \in BOOLEAN /\ valid \in BOOLEAN /\ scanActive \in BOOLEAN
  /\ sampleAge \in 0..MaxAge /\ burstAge \in 0..MaxAge
  /\ timer \in {Disarmed} \cup 1..BurstTimeout
  /\ queue \in Seq(Works) /\ IsInjective(queue)
  /\ wq \in WorkQueueStates
  /\ radio \in BOOLEAN /\ heard \in BOOLEAN /\ leftOn \in BOOLEAN

ObsInit ==
  /\ enabled = FALSE /\ valid = FALSE /\ sampleAge = MaxAge
  /\ scanActive = FALSE /\ burstAge = MaxAge /\ timer = Disarmed
  /\ queue = <<>> /\ wq = "idle"
  /\ radio = FALSE /\ heard = FALSE /\ leftOn = FALSE

\* All of it is in RAM.
ObsReboot ==
  /\ enabled' = FALSE /\ valid' = FALSE /\ sampleAge' = MaxAge
  /\ scanActive' = FALSE /\ burstAge' = MaxAge /\ timer' = Disarmed
  /\ queue' = <<>> /\ wq' = "idle"
  /\ radio' = FALSE /\ heard' = FALSE /\ leftOn' = FALSE

-----------------------------------------------------------------------------
(* The work queue and the clock *)

SubmitAgain(w, q) == Append(q, w)      \* mutant
Submit(w, q) == IF Contains(q, w) THEN q ELSE Append(q, w)
Older(a) == IF a < MaxAge THEN a + 1 ELSE MaxAge

\* s_timeout_work is queued when its delay has passed.
ObsTick ==
  /\ sampleAge' = Older(sampleAge)
  /\ burstAge' = Older(burstAge)
  /\ timer' = IF timer <= 1 THEN Disarmed ELSE timer - 1
  /\ queue' = IF timer = 1 THEN Submit("timeout", queue) ELSE queue
  /\ UNCHANGED <<enabled, valid, scanActive, wq, radio, heard, leftOn>>

-----------------------------------------------------------------------------
(* Public API *)

\* observer_enable; closing the gate aborts a burst through the work queue.
Enable(on) ==
  /\ enabled' = on
  /\ queue' = IF on THEN queue ELSE Submit("stop", queue)
  /\ UNCHANGED <<valid, sampleAge, scanVars, wq, radio, heard, leftOn>>

\* observer_trigger
Trigger ==
  /\ queue' = IF enabled THEN Submit("start", queue) ELSE queue
  /\ UNCHANGED <<enabled, valid, sampleAge, scanVars, wq, radio, heard, leftOn>>

SampleOfAnyAge == valid      \* mutant

\* observer_get_tilt returns a sample
FreshSample == valid /\ sampleAge <= SampleMaxAge

-----------------------------------------------------------------------------
(* The Bluetooth receive thread: scan_cb and ad_parse_cb *)

\* An advertisement of the Tilt; others change nothing.
Advert ==
  /\ radio
  /\ valid' = TRUE /\ sampleAge' = 0 /\ heard' = (heard \/ scanActive)
  /\ queue' = Submit("stop", queue)
  /\ UNCHANGED <<enabled, scanVars, wq, radio, leftOn>>

-----------------------------------------------------------------------------
(* The system work queue *)

Dequeue(w) == wq = "idle" /\ queue # <<>> /\ Head(queue) = w

GateNotRead == ~scanActive      \* mutant
StartAllowed == enabled /\ ~scanActive

\* start_work_handler, up to bt_le_scan_start
StartCalls ==
  /\ Dequeue("start")
  /\ queue' = Tail(queue)
  /\ wq' = IF StartAllowed THEN "starting" ELSE "idle"
  /\ UNCHANGED <<enabled, valid, sampleAge, scanVars, radio, heard, leftOn>>

\* The controller scans from some moment of that call on.
RadioOn ==
  /\ wq = "starting" /\ ~radio
  /\ radio' = TRUE /\ wq' = "started"
  /\ UNCHANGED <<enabled, valid, sampleAge, scanVars, queue, heard, leftOn>>

\* Mutants: the error is not checked; the timeout is not scheduled.
BurstAnyway ==
  /\ wq \in {"starting", "started"}
  /\ wq' = "idle" /\ scanActive' = TRUE /\ burstAge' = 0 /\ timer' = BurstTimeout
  /\ UNCHANGED <<enabled, valid, sampleAge, queue, radio, heard, leftOn>>
BurstWithoutEnd ==
  /\ wq \in {"starting", "started"}
  /\ wq' = "idle" /\ scanActive' = (wq = "started") /\ burstAge' = 0
  /\ UNCHANGED <<enabled, valid, sampleAge, timer, queue, radio, heard, leftOn>>

\* start_work_handler, from the return of bt_le_scan_start: on an error (the
\* stack refuses, or it is scanning already) there is no burst.
StartReturns ==
  /\ wq \in {"starting", "started"}
  /\ wq' = "idle"
  /\ IF wq = "started"
     THEN scanActive' = TRUE /\ burstAge' = 0 /\ timer' = BurstTimeout
     ELSE UNCHANGED scanVars
  /\ UNCHANGED <<enabled, valid, sampleAge, queue, radio, heard, leftOn>>

\* The queue without w, which is in it at most once
Without(q, w) ==
  IF Contains(q, w)
  THEN LET i == CHOOSE k \in 1..Len(q) : q[k] = w
       IN  [j \in 1..(Len(q) - 1) |-> IF j < i THEN q[j] ELSE q[j + 1]]
  ELSE q

CancelForgotten(w) == UNCHANGED timer /\ queue' = Tail(queue)      \* mutant

\* k_work_cancel_delayable(&s_timeout_work), while a handler begins
CancelTimeout(w) ==
  /\ timer' = Disarmed
  /\ queue' = Without(Tail(queue), w)

\* burst_stop, called by the stop and the timeout work, up to bt_le_scan_stop
StopCalls ==
  /\ Dequeue("stop") \/ Dequeue("timeout")
  /\ IF scanActive
     THEN /\ scanActive' = FALSE
          /\ CancelTimeout("timeout")
          /\ wq' = "stopping"
     ELSE /\ queue' = Tail(queue)
          /\ UNCHANGED <<scanActive, timer, wq>>
  /\ UNCHANGED <<enabled, valid, sampleAge, burstAge, radio, heard, leftOn>>

RadioOff ==
  /\ wq = "stopping" /\ radio
  /\ radio' = FALSE
  /\ UNCHANGED <<enabled, valid, sampleAge, scanVars, queue, wq, heard, leftOn>>

CapturedLater == valid /\ sampleAge < burstAge      \* mutant

\* Did this burst capture a sample?
Captured == valid /\ sampleAge <= burstAge

\* burst_stop, from the return of bt_le_scan_stop.  An error is only logged: the
\* controller scans on, and with s_scan_active reset nobody stops it again.
StopReturns ==
  /\ wq = "stopping"
  /\ wq' = "idle"
  /\ leftOn' = radio
  /\ heard' = FALSE
  /\ UNCHANGED <<enabled, valid, sampleAge, scanVars, queue, radio>>

WorkQueueStep ==
  StartCalls \/ RadioOn \/ StartReturns \/ StopCalls \/ RadioOff \/ StopReturns

-----------------------------------------------------------------------------
(* Properties *)

AtRest == wq = "idle" /\ queue = <<>>

\* observer.h: disabling the gate also aborts any active burst.  When it is
\* closed and the work queue has caught up nothing scans, in whatever order
\* closings, triggers, timeouts and advertisements came, unless the stack
\* failed to stop the scan.
GateCloses == ~enabled /\ AtRest => ~radio \/ leftOn

\* s_scan_active tells the truth whenever no handler is running, so that only
\* a failure of the stack leaves a scan without a burst that will stop it.
ScanOwned == wq = "idle" => (radio <=> scanActive \/ leftOn)

\* A burst that goes on will be ended: its timeout is armed or queued; and
\* stopping a burst leaves no timeout behind that could end a later one early.
TimeoutBelongsToBurst ==
  scanActive <=> timer # Disarmed \/ Contains(queue, "timeout")
=============================================================================
