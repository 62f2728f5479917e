----------------------------- MODULE Actuator -----------------------------
(***************************************************************************)
(* TimeProportionalActuator of host/models/control.py and the two smart    *)
(* plugs it drives through ChipTool.set_plug.                              *)
(*                                                                         *)
(* Time is counted in whole seconds and every timestamp of the code is     *)
(* kept as an age (now minus the timestamp).  An age stops counting at     *)
(* MaxAge, which also stands for None: the code treats "never" and "longer *)
(* ago than any threshold" alike.  Effort is counted in seconds of the     *)
(* window, so that |effort| is the plan's active_s.                        *)
(*                                                                         *)
(* A call to _switch is two chip-tool commands, one per plug, in a fixed   *)
(* order; each takes up to ChipTimeout, and the plug changes at some       *)
(* moment of it.  The model's steps are the points at which the program    *)
(* can observe something, so a command is one step.                        *)
(***************************************************************************)
EXTENDS Integers

CONSTANTS
  Window,         \* window_s
  Deadband,       \* effort_deadband, in seconds of the window
  HeatMinOn,      \* heat_min_on_s
  CoolMinOn,      \* cool_min_on_s
  ReverseIdle,    \* reverse_idle_s
  StaleTimeout,   \* command_stale_timeout_s
  ChipTimeout,    \* chip_timeout_s
  Efforts,        \* the efforts the controller may ask for
  Outcomes,       \* what a command may do: see CommandOutcomes
  Faults,         \* what may befall the process: see ProcessFaults
  PlugsAtStart,   \* the states the plugs may be in before the first start
  MaxAge          \* bound: ages saturate here

Active == {"HEAT", "COOL"}            \* the plugs and the directions
CommandOutcomes ==
  { "ok",         \* done and reported done
    "lost",       \* not done, reported failed
    "unacked" }   \* done, but reported failed (late or lost answer)
ProcessFaults ==
  { "raise",      \* Ctrl-C or an uncaught error during a command
    "crash",      \* the process is killed
    "restart" }   \* the program is started again

\* ControlTuning.validate, and the clamp of set_effort.
ASSUME TuningAssumption ==
  /\ Window \in Nat \ {0}
  /\ Deadband \in 0..(Window - 1)
  /\ HeatMinOn \in 0..Window /\ CoolMinOn \in 0..Window
  /\ ReverseIdle \in Nat /\ StaleTimeout \in Nat /\ ChipTimeout \in Nat
  /\ Efforts \subseteq (-Window)..Window

\* The bound on ages is beyond every threshold they are compared with.
ASSUME AgeAssumption ==
  /\ MaxAge \in Nat
  /\ StaleTimeout < MaxAge
  /\ ReverseIdle + 2 * ChipTimeout < MaxAge

ASSUME EnvironmentAssumption ==
  /\ Outcomes \subseteq CommandOutcomes
  /\ Faults \subseteq ProcessFaults
  /\ PlugsAtStart \subseteq {"on", "off"} /\ PlugsAtStart # {}

VARIABLES
  phase,       \* "new" (initialize not done), "ready", "dead"
  action,      \* _action
  effort,      \* _effort
  effortAge,   \* now - _last_effort_update
  windowAge,   \* now - _window_start, kept below Window by _advance_window
  lastActive,  \* _last_active_direction
  idleAge,     \* now - _idle_since
  sw,          \* the call to _switch in progress
  plug,        \* the physical plugs
  plugAge      \* time since each plug last changed state

modelVars == <<phase, action, effort, effortAge, windowAge, lastActive, idleAge>>
plugVars == <<plug, plugAge>>
actVars == <<modelVars, sw, plugVars>>

\* op: the caller; to: the action asked for; stage: the command awaited;
\* first: how the first command ended; lag: time since the caller read `now'.
NoSwitch == [op |-> "none", to |-> "IDLE", stage |-> 1, first |-> "ok", lag |-> 0]

ActTypeOK ==
  /\ phase \in {"new", "ready", "dead"}
  /\ action \in Active \cup {"IDLE"}
  /\ effort \in (-Window)..Window
  /\ effortAge \in 0..MaxAge
  /\ windowAge \in 0..(Window - 1)
  /\ lastActive \in Active \cup {"NONE"}
  /\ idleAge \in 0..MaxAge
  /\ sw \in [op : {"none", "init", "tick", "force"}, to : Active \cup {"IDLE"},
             stage : {1, 2}, first : CommandOutcomes, lag : 0..ChipTimeout]
  /\ plug \in [Active -> {"on", "off"}]
  /\ plugAge \in [Active -> 0..MaxAge]

ActInit ==
  /\ phase = "new" /\ action = "IDLE" /\ lastActive = "NONE"
  /\ effort = 0 /\ effortAge = MaxAge
  /\ windowAge = 0 /\ idleAge = MaxAge
  /\ sw = NoSwitch
  /\ plug \in [Active -> PlugsAtStart]
  /\ plugAge = [x \in Active |-> MaxAge]

-----------------------------------------------------------------------------
(* Time *)

Older(a, d) == IF a + d < MaxAge THEN a + d ELSE MaxAge
WindowNotAdvanced(d) == windowAge + d      \* mutant
AdvanceWindow(d) == (windowAge + d) % Window
PlugsOlder(d) == [x \in Active |-> Older(plugAge[x], d)]

-----------------------------------------------------------------------------
(* The plan *)

Magnitude == IF effort < 0 THEN -effort ELSE effort
Direction == IF effort > 0 THEN "HEAT" ELSE "COOL"
MinOn == IF Direction = "HEAT" THEN HeatMinOn ELSE CoolMinOn
Fresh == effortAge <= StaleTimeout

DutyOnWhenStale == /\ Magnitude > Deadband      \* mutant
                   /\ Magnitude >= MinOn
                   /\ windowAge < Magnitude

DutyOnForAnyPulse == Fresh /\ Magnitude > Deadband /\ windowAge < Magnitude      \* mutant

\* plan(), up to the choice of duty-on or duty-off.
DutyOn == /\ Fresh
          /\ Magnitude > Deadband
          /\ Magnitude >= MinOn
          /\ windowAge < Magnitude
Requested == IF DutyOn THEN Direction ELSE "IDLE"

\* Mutants: a direct reversal; no wait in IDLE; a wait that does not end.
DirectReversal(d) ==
  d \in Active /\ lastActive \notin {"NONE", d} /\ idleAge < ReverseIdle
NoReverseWait(d) == d \in Active /\ action \notin {"IDLE", d}
EndlessLockout(d) ==
  d \in Active /\ (action \notin {"IDLE", d} \/ lastActive \notin {"NONE", d})

\* plan(), the reverse lockout.
LockedOut(d) ==
  /\ d \in Active
  /\ \/ action \notin {"IDLE", d}
     \/ lastActive \notin {"NONE", d} /\ idleAge < ReverseIdle
Wanted == IF LockedOut(Requested) THEN "IDLE" ELSE Requested

-----------------------------------------------------------------------------
(* The operations, up to their first command *)

Busy == sw.op # "none"

BeginSwitch(op, to) == sw' = [NoSwitch EXCEPT !.op = op, !.to = to]

Initialize ==
  /\ phase = "new" /\ ~Busy
  /\ BeginSwitch("init", "IDLE")
  /\ UNCHANGED <<modelVars, plugVars>>

SetEffort(e) ==
  /\ phase = "ready" /\ ~Busy
  /\ windowAge' = IF Fresh THEN windowAge ELSE 0
  /\ effort' = e
  /\ effortAge' = 0
  /\ UNCHANGED <<phase, action, lastActive, idleAge, sw, plugVars>>

\* tick() with a plan that differs from the current action.
Tick ==
  /\ phase = "ready" /\ ~Busy
  /\ Wanted # action
  /\ BeginSwitch("tick", Wanted)
  /\ UNCHANGED <<modelVars, plugVars>>

ForceIdle ==
  /\ phase = "ready" /\ ~Busy
  /\ action # "IDLE"
  /\ BeginSwitch("force", "IDLE")
  /\ UNCHANGED <<modelVars, plugVars>>

-----------------------------------------------------------------------------
(* _switch *)

OnFirst(to) == <<"HEAT", "COOL">>      \* mutant

\* The OFF commands come first; for IDLE both are OFF, the heater's first.
Order(to) == IF to = "HEAT" THEN <<"COOL", "HEAT">> ELSE <<"HEAT", "COOL">>
Target == Order(sw.to)[sw.stage]
Commanded == IF Target = sw.to THEN "on" ELSE "off"

\* One chip-tool run of length d; the plug obeys `since' before its end.
Command(d, since, outcome) ==
  IF outcome = "lost" \/ plug[Target] = Commanded
  THEN /\ plugAge' = PlugsOlder(d)
       /\ UNCHANGED plug
  ELSE /\ plug' = [plug EXCEPT ![Target] = Commanded]
       /\ plugAge' = [PlugsOlder(d) EXCEPT ![Target] = since]

TimePasses(d) ==
  /\ effortAge' = Older(effortAge, d)
  /\ windowAge' = AdvanceWindow(d)
  /\ idleAge' = Older(idleAge, d)

ContinuesAnyway(outcome) == sw.stage = 1      \* mutant
LastCommandDone(outcome) == sw.stage = 2 /\ outcome = "ok"      \* mutant

\* An OFF that fails does not stop the second OFF of a switch to IDLE.
MayContinue(outcome) == sw.stage = 1 /\ (outcome = "ok" \/ sw.to = "IDLE")
AllDone(outcome) == sw.stage = 2 /\ sw.first = "ok" /\ outcome = "ok"

SwitchProceeds(d, since, outcome) ==
  /\ Busy /\ MayContinue(outcome)
  /\ Command(d, since, outcome)
  /\ TimePasses(d)
  /\ sw' = [sw EXCEPT !.stage = 2, !.first = outcome, !.lag = d]
  /\ UNCHANGED <<phase, action, effort, lastActive>>

\* _switch returns False: the caller changes nothing; initialize raises.
SwitchFails(d, since, outcome) ==
  /\ Busy /\ ~MayContinue(outcome) /\ ~AllDone(outcome)
  /\ Command(d, since, outcome)
  /\ TimePasses(d)
  /\ sw' = NoSwitch
  /\ phase' = IF sw.op = "init" THEN "dead" ELSE phase
  /\ UNCHANGED <<action, effort, lastActive>>

\* Time since the `now' that the caller of _switch stores as _idle_since.
IdleSince(d) == sw.lag + d

\* _switch returns True and its caller updates the actuator.
SwitchSucceeds(d, since, outcome) ==
  /\ Busy /\ AllDone(outcome)
  /\ Command(d, since, outcome)
  /\ sw' = NoSwitch
  /\ phase' = "ready"
  /\ action' = sw.to
  /\ lastActive' = IF action = "IDLE" THEN lastActive ELSE action
  /\ idleAge' = IF sw.to = "IDLE" THEN IdleSince(d) ELSE MaxAge
  /\ windowAge' = IF sw.op = "init" THEN (sw.lag + d) % Window ELSE AdvanceWindow(d)
  /\ effortAge' = Older(effortAge, d)
  /\ UNCHANGED effort

\* The command ends in an exception _switch does not catch, or the process
\* is killed while it runs; the plug may have obeyed.
Abandon(d, since, outcome) ==
  /\ Busy /\ outcome # "ok"
  /\ Command(d, since, outcome)
  /\ TimePasses(d)
  /\ sw' = NoSwitch
  /\ \/ "raise" \in Faults /\ phase' = IF sw.op = "init" THEN "dead" ELSE phase
     \/ "crash" \in Faults /\ phase' = "dead"
  /\ UNCHANGED <<action, effort, lastActive>>

-----------------------------------------------------------------------------
(* The process and the passage of time between operations *)

Wait(d) ==
  /\ ~Busy
  /\ TimePasses(d)
  /\ plugAge' = PlugsOlder(d)
  /\ UNCHANGED <<phase, action, effort, lastActive, sw, plug>>

Die ==
  /\ phase = "ready" /\ ~Busy
  /\ phase' = "dead"
  /\ UNCHANGED <<action, effort, effortAge, windowAge, lastActive, idleAge, sw, plugVars>>

\* A new process: the object is built again, the plugs are as they were.
Restart ==
  /\ "restart" \in Faults /\ phase = "dead"
  /\ phase' = "new" /\ action' = "IDLE" /\ lastActive' = "NONE"
  /\ effort' = 0 /\ effortAge' = MaxAge
  /\ windowAge' = 0 /\ idleAge' = MaxAge
  /\ UNCHANGED <<sw, plugVars>>

ActNext ==
  \/ Initialize
  \/ \E e \in Efforts : SetEffort(e)
  \/ Tick
  \/ ForceIdle
  \/ \E d \in 0..ChipTimeout : \E since \in 0..d :
       \/ \E outcome \in Outcomes :
            \/ SwitchProceeds(d, since, outcome)
            \/ SwitchFails(d, since, outcome)
            \/ SwitchSucceeds(d, since, outcome)
       \/ \E outcome \in CommandOutcomes : Abandon(d, since, outcome)
  \/ \E d \in 0..MaxAge : Wait(d)
  \/ Die
  \/ Restart

ActSpec == ActInit /\ [][ActNext]_actVars

-----------------------------------------------------------------------------
(* Properties *)

Other(x) == IF x = "HEAT" THEN "COOL" ELSE "HEAT"
AllOff == \A x \in Active : plug[x] = "off"

\* Once initialize has returned, heater and cooler are never on together,
\* whatever the commands do and wherever the process is interrupted: _switch
\* turns a plug on only after the other one's OFF was acknowledged.
Interlock == phase = "ready" => \E x \in Active : plug[x] = "off"

\* What the actuator believes excludes the other plug, even after failures:
\* a switch that stops half-way leaves _action as it was.
BeliefExcludesOther == \A x \in Active : action = x => plug[Other(x)] = "off"

\* While no command is under way, _action = "IDLE" means that both plugs are
\* off: tick() and force_idle() rely on it when they return early.
IdleMeansOff == phase = "ready" /\ ~Busy /\ action = "IDLE" => AllOff

\* config.yaml:54, "Skip pulses < these values": a plug goes on only for an effort
\* that asks for its direction and for at least its shortest pulse, and that was
\* fresh when the switch began.  The plan is made before two commands that may fail
\* and be repeated; a stale or changed effort must not come through.
Asked(x) == IF x = "HEAT" THEN effort ELSE -effort
ShortestPulse(x) == IF x = "HEAT" THEN HeatMinOn ELSE CoolMinOn
Justified(x) ==
  /\ Asked(x) > Deadband /\ Asked(x) >= ShortestPulse(x)
  /\ effortAge' <= StaleTimeout + 2 * ChipTimeout
PulsesAskedFor ==
  [][\A x \in Active : plug[x] = "off" /\ plug'[x] = "on" => Justified(x)]_actVars

\* A plug that is on went on at least gap after the other one went off.
ReverseGap(gap) ==
  \A x \in Active : plug[x] = "on" /\ plugAge[Other(x)] < MaxAge
                      => plugAge[Other(x)] - plugAge[x] >= gap

\* config.yaml: a HEAT-COOL transition passes through IDLE for reverse_idle_s.
ReverseIdleKept == ReverseGap(ReverseIdle)

\* The plugs as seen from outside: the interlock alone, ...
Interlocked == INSTANCE PlugInterlock WITH MinGap <- 0
PlugsInterlocked == Interlocked!Spec

\* ... and with the part of reverse_idle_s that slow commands cannot eat up:
\* _idle_since is read before a switch to IDLE that may last two timeouts.
Gapped == INSTANCE PlugInterlock WITH MinGap <- ReverseIdle - 2 * ChipTimeout
PlugsGapped == Gapped!Spec
=============================================================================
