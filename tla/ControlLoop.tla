---------------------------- MODULE ControlLoop ----------------------------
(***************************************************************************)
(* ControlLoop.run of host/models/control.py, on top of the actuator: one  *)
(* thread that ticks the actuator, from time to time reads the sensors and *)
(* asks the controller for a new effort, sleeps, and forces IDLE when it   *)
(* is left.  Every step is one action of Actuator, so the steps of a call  *)
(* (two commands of a switch, two sensor reads) interleave with the time   *)
(* they take, with their failures and with an interrupt.                   *)
(*                                                                         *)
(* The effort the controller returns is any member of Efforts: what PI     *)
(* control makes of the readings is not the loop's business.               *)
(***************************************************************************)
EXTENDS Actuator

CONSTANTS
  Period,       \* period_s
  TickS,        \* actuator_tick_s
  Interrupts    \* BOOLEAN: may an interrupt come between two commands

ASSUME LoopAssumption ==
  /\ Period \in Nat /\ Period <= StaleTimeout
  /\ TickS \in Nat \ {0}
  /\ Interrupts \in BOOLEAN
  /\ TickS <= MaxAge /\ 2 * ChipTimeout <= MaxAge

VARIABLES
  pc,           \* where run() is
  back,         \* where it goes on after the switch in progress
  dueIn         \* next_sensor_update - now, 0 when due

loopVars == <<pc, back, dueIn>>
vars == <<actVars, loopVars>>

InTry == {"loop", "sense", "decide", "act", "gravity", "settle", "resched", "sleep"}
LoopPCs == InTry \cup {"start", "switch", "finally", "exit", "exited"}

TypeOK ==
  /\ ActTypeOK
  /\ pc \in LoopPCs
  /\ back \in LoopPCs
  /\ dueIn \in 0..Period

Init == /\ ActInit
        /\ pc = "start" /\ back = "start" /\ dueIn = 0

Sooner(d) == IF dueIn > d THEN dueIn - d ELSE 0
Goto(label) == pc' = label /\ UNCHANGED back
StayAll == UNCHANGED actVars

-----------------------------------------------------------------------------
(* A switch, called from anywhere, goes on at `back' when it is over. *)

Call(label) == pc' = "switch" /\ back' = label

\* actuator.tick(now), going on at label.
TickThen(label) ==
  /\ UNCHANGED dueIn
  /\ \/ Tick /\ Call(label)
     \/ Wanted = action /\ StayAll /\ Goto(label)

SwitchStep(d, since, outcome) ==
  /\ pc = "switch"
  /\ dueIn' = Sooner(d)
  /\ UNCHANGED back
  /\ \/ SwitchProceeds(d, since, outcome) /\ pc' = "switch"
     \/ SwitchSucceeds(d, since, outcome) /\ pc' = back
     \/ SwitchFails(d, since, outcome) /\ pc' = IF sw.op = "init" THEN "exited" ELSE back

\* An exception during a command: into the finally clause, unless initialize
\* or force_idle was running.  A crash runs no clause at all.
SwitchAbandoned(d, since, outcome) ==
  /\ pc = "switch"
  /\ dueIn' = Sooner(d)
  /\ UNCHANGED back
  /\ Abandon(d, since, outcome)
  /\ pc' = IF phase' = "dead" THEN "exited"
           ELSE IF sw.op = "force" THEN "exit" ELSE "finally"

-----------------------------------------------------------------------------
(* run() *)

Start == pc = "start" /\ Initialize /\ Call("loop") /\ UNCHANGED dueIn

\* `now' is read once: whether an update is due is decided before the switch.
LoopTop ==
  /\ pc = "loop"
  /\ TickThen(IF dueIn = 0 THEN "sense" ELSE "sleep")

\* The two temperature reads; if one fails the previous effort stands.
ReadsTake == 0..(2 * ChipTimeout)
Sense ==
  /\ pc = "sense"
  /\ \E d \in ReadsTake :
       /\ Wait(d)
       /\ dueIn' = Sooner(d)
  /\ \/ Goto("decide")
     \/ Goto("resched")

Decide ==
  /\ pc = "decide"
  /\ \E e \in Efforts : SetEffort(e)
  /\ Goto("act") /\ UNCHANGED dueIn

Act == pc = "act" /\ TickThen("gravity")

\* The gravity read fails silently.
ReadGravity ==
  /\ pc = "gravity"
  /\ \E d \in 0..ChipTimeout : Wait(d) /\ dueIn' = Sooner(d)
  /\ Goto("settle")

Settle == pc = "settle" /\ TickThen("resched")

Reschedule ==
  /\ pc = "resched"
  /\ dueIn' = Period
  /\ Goto("sleep") /\ StayAll

Sleep ==
  /\ pc = "sleep"
  /\ Wait(TickS) /\ dueIn' = Sooner(TickS)
  /\ Goto("loop")

\* An exception between two commands: KeyboardInterrupt, or an error of a
\* sensor read other than those that are caught.
Interrupt ==
  /\ Interrupts /\ pc \in InTry
  /\ Goto("finally") /\ StayAll /\ UNCHANGED dueIn

LeaveAtOnce == pc = "finally" /\ StayAll /\ Goto("exit") /\ UNCHANGED dueIn      \* mutant

Finally ==
  /\ pc = "finally"
  /\ UNCHANGED dueIn
  /\ \/ ForceIdle /\ Call("exit")
     \/ action = "IDLE" /\ StayAll /\ Goto("exit")

Exit ==
  /\ pc = "exit"
  /\ Die /\ Goto("exited") /\ UNCHANGED dueIn

Crash ==
  /\ "crash" \in Faults /\ pc \in InTry \cup {"finally"}
  /\ Die /\ Goto("exited") /\ UNCHANGED dueIn

\* Time without a process, until somebody starts it again.
Down ==
  /\ pc = "exited" /\ "restart" \in Faults
  /\ \E d \in 1..MaxAge : Wait(d)
  /\ UNCHANGED loopVars

RestartLoop ==
  /\ pc = "exited" /\ Restart
  /\ pc' = "start" /\ back' = "start" /\ dueIn' = 0

LoopStep ==
  \/ Start \/ LoopTop \/ Sense \/ Decide \/ Act \/ ReadGravity \/ Settle
  \/ Reschedule \/ Sleep \/ Finally \/ Exit
  \/ \E d \in 0..ChipTimeout : \E since \in 0..d, outcome \in Outcomes :
       SwitchStep(d, since, outcome)

FaultStep ==
  \/ Interrupt \/ Crash \/ Down \/ RestartLoop
  \/ \E d \in 0..ChipTimeout : \E since \in 0..d, outcome \in CommandOutcomes :
       SwitchAbandoned(d, since, outcome)

Next == LoopStep \/ FaultStep
Spec == Init /\ [][Next]_vars

\* The thread keeps running; waits and commands end (subprocess.run has a
\* timeout).  A command that can be acknowledged again and again is, some
\* time: the plugs are not unreachable for ever.
Acknowledged(n) ==
  sw.stage = n /\ \E d \in 0..ChipTimeout : SwitchStep(d, d, "ok")
FairSpec ==
  Spec /\ WF_vars(LoopStep) /\ SF_vars(Acknowledged(1)) /\ SF_vars(Acknowledged(2))

-----------------------------------------------------------------------------
(* Properties *)

\* How long after StaleTimeout an output may still be on although every
\* command is acknowledged: the loop reads the clock only between its calls.
\* A tick at the last fresh moment turns it on (two commands), two sensor
\* reads and a sleep follow; the OFF of the cooler is the second command of
\* the switch that ends it, and the plug may obey only at its end.
Overrun == 6 * ChipTimeout + TickS

\* Without fresh controller output no plug stays on for longer than that: at
\* the last moment of a step at which a plug is on, whether the command that
\* turns it off is the step or comes later, the effort is no older.
OnDuring(x) == plug[x] = "on" \/ plug'[x] = "on"
LastOnAge(x) == IF plug'[x] = "on" THEN effortAge' ELSE effortAge' - plugAge'[x]
StaleOutputOff ==
  [][\A x \in Active :
       phase = "ready" /\ OnDuring(x) => LastOnAge(x) <= StaleTimeout + Overrun]_vars

\* A run that ends without being killed leaves both plugs off.
ShutdownLeavesOff == pc = "exited" => AllOff

\* If from some time on the loop runs without a fresh effort, both plugs go
\* off for good, however many commands are lost on the way: tick() tries
\* again until a whole switch to IDLE is acknowledged.
StaleTurnsOff == <>[](~Fresh /\ pc # "exited") => <>[]AllOff

\* The magnitude of the effort is the requested duty cycle: when the
\* controller asks for full heat from some time on, neither a lockout nor the
\* window keeps the heater off for ever.
FullEffortHeats ==
  <>[](Fresh /\ effort = Window /\ pc \in InTry \cup {"switch"})
    => <>[](plug["HEAT"] = "on")
=============================================================================
