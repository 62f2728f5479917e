-------------------------- MODULE ActuatorProofs --------------------------
(***************************************************************************)
(* Theorems about Actuator, for every value of its constants.              *)
(***************************************************************************)
EXTENDS Actuator, TLAPS

Durations == 0..ChipTimeout

-----------------------------------------------------------------------------
(* Helpers *)

\* An age stays an age.
LEMMA OlderType ==
  ASSUME NEW a \in 0..MaxAge, NEW d \in Nat
  PROVE  Older(a, d) \in 0..MaxAge
BY AgeAssumption DEF Older

\* The window's age stays below the window.
LEMMA WindowType ==
  ASSUME NEW a \in Nat, NEW d \in Nat
  PROVE  (a + d) % Window \in 0..(Window - 1)
<1>1. Window \in Nat /\ Window > 0
  BY TuningAssumption
<1>2. a + d \in Nat
  OBVIOUS
<1> QED BY <1>1, <1>2

\* The ages that TimePasses moves stay ages.
LEMMA TimePassesType ==
  ASSUME ActTypeOK, NEW d \in Nat, TimePasses(d)
  PROVE  /\ effortAge' \in 0..MaxAge
         /\ windowAge' \in 0..(Window - 1)
         /\ idleAge' \in 0..MaxAge
<1>1. effortAge' \in 0..MaxAge /\ idleAge' \in 0..MaxAge
  BY OlderType DEF ActTypeOK, TimePasses
<1>2. windowAge \in Nat
  BY TuningAssumption DEF ActTypeOK
<1>3. windowAge' \in 0..(Window - 1)
  BY <1>2, WindowType DEF TimePasses, AdvanceWindow
<1> QED BY <1>1, <1>3

\* What the two commands of a switch are addressed to.
LEMMA TargetIs ==
  ASSUME ActTypeOK
  PROVE  /\ Target \in Active
         /\ sw.to = "HEAT" => Target = IF sw.stage = 1 THEN "COOL" ELSE "HEAT"
         /\ sw.to # "HEAT" => Target = IF sw.stage = 1 THEN "HEAT" ELSE "COOL"
         /\ Commanded = "on" <=> sw.to \in Active /\ sw.stage = 2
         /\ Commanded \in {"on", "off"}
BY DEF ActTypeOK, Target, Order, Commanded, Active

\* What one command does to the plugs.
LEMMA CommandEffect ==
  ASSUME ActTypeOK, NEW d \in Durations, NEW since \in 0..d,
         NEW outcome \in CommandOutcomes, Command(d, since, outcome)
  PROVE  /\ plug' \in [Active -> {"on", "off"}]
         /\ plugAge' \in [Active -> 0..MaxAge]
         /\ plug'[Other(Target)] = plug[Other(Target)]
         /\ plug'[Target] \in {plug[Target], Commanded}
         /\ outcome = "ok" => plug'[Target] = Commanded
<1>1. Target \in Active /\ Other(Target) \in Active /\ Other(Target) # Target
      /\ Commanded \in {"on", "off"}
  BY TargetIs DEF Active, Other
<1>2. d \in Nat /\ since \in 0..MaxAge
  BY AgeAssumption, TuningAssumption DEF Durations
<1>3. PlugsOlder(d) \in [Active -> 0..MaxAge]
  BY <1>2, OlderType DEF ActTypeOK, PlugsOlder
<1>4. CASE outcome = "lost" \/ plug[Target] = Commanded
  BY <1>1, <1>3, <1>4 DEF Command, ActTypeOK
<1>5. CASE ~(outcome = "lost" \/ plug[Target] = Commanded)
  BY <1>1, <1>2, <1>3, <1>5 DEF Command, ActTypeOK
<1> QED BY <1>4, <1>5
-----------------------------------------------------------------------------
(* The inductive invariant *)

\* A switch to HEAT or COOL starts from IDLE, and its second command follows
\* an acknowledged OFF of the other plug; a switch to IDLE whose first command
\* was acknowledged has turned the heater off.
SwitchInv ==
  /\ Busy => phase = IF sw.op = "init" THEN "new" ELSE "ready"
  /\ phase = "new" => action = "IDLE" /\ sw.to = "IDLE"
  /\ ~Busy => sw = NoSwitch
  /\ sw.to \in Active => action = "IDLE"
  /\ sw.stage = 2 /\ sw.to \in Active => sw.first = "ok" /\ plug[Other(sw.to)] = "off"
  /\ sw.stage = 2 /\ sw.to = "IDLE" /\ sw.first = "ok" => plug["HEAT"] = "off"

ActInv == ActTypeOK /\ SwitchInv /\ BeliefExcludesOther /\ Interlock

\* tick() never asks for the direction opposite to the one it believes on.
LEMMA WantedFromIdle ==
  ASSUME ActTypeOK, Wanted # action
  PROVE  /\ Wanted \in Active \cup {"IDLE"}
         /\ Wanted \in Active => action = "IDLE"
BY DEF ActTypeOK, Wanted, LockedOut, Requested, Direction, Active

LEMMA InitInv == ActInit => ActInv
<1> SUFFICES ASSUME ActInit PROVE ActInv
  OBVIOUS
<1>1. 0 \in 0..ChipTimeout /\ 0 \in 0..(Window - 1) /\ 0 \in (-Window)..Window
      /\ MaxAge \in 0..MaxAge
  BY TuningAssumption, AgeAssumption
<1>2. plug \in [Active -> {"on", "off"}]
  BY EnvironmentAssumption DEF ActInit
<1>3. sw \in [op : {"none", "init", "tick", "force"}, to : Active \cup {"IDLE"},
             stage : {1, 2}, first : CommandOutcomes, lag : 0..ChipTimeout]
  BY <1>1 DEF ActInit, NoSwitch, CommandOutcomes
<1>4. ActTypeOK
  BY <1>1, <1>2, <1>3 DEF ActInit, ActTypeOK
<1> QED BY <1>4 DEF ActInit, ActInv, SwitchInv, BeliefExcludesOther, Interlock,
                   NoSwitch, Busy, Active

\* The beginning of a switch preserves the invariant.
LEMMA BeginInv ==
  ASSUME ActInv, ~Busy, NEW op \in {"init", "tick", "force"},
         NEW to \in Active \cup {"IDLE"}, BeginSwitch(op, to),
         phase = IF op = "init" THEN "new" ELSE "ready",
         op = "init" => to = "IDLE", to \in Active => action = "IDLE",
         UNCHANGED <<modelVars, plugVars>>
  PROVE  ActInv'
<1> USE DEF ActInv, modelVars, plugVars, BeginSwitch, NoSwitch, Active, CommandOutcomes
<1>1. ActTypeOK'
  <2>1. sw' = [op |-> op, to |-> to, stage |-> 1, first |-> "ok", lag |-> 0]
    OBVIOUS
  <2>2. 0 \in 0..ChipTimeout
    BY TuningAssumption
  <2> QED BY <2>1, <2>2 DEF ActTypeOK
<1>2. SwitchInv'
  BY DEF SwitchInv, Busy, ActTypeOK
<1>3. BeliefExcludesOther' /\ Interlock'
  BY DEF BeliefExcludesOther, Interlock
<1> QED BY <1>1, <1>2, <1>3

\* Every command of a switch preserves the parts of the invariant that say
\* what is on: only the second command of a switch to HEAT or COOL is an ON.
LEMMA CommandInv ==
  ASSUME ActInv, Busy, NEW d \in Durations, NEW since \in 0..d,
         NEW outcome \in CommandOutcomes, Command(d, since, outcome)
  PROVE  /\ \A x \in Active : plug[x] = "off" /\ (sw.stage = 1 \/ x # sw.to)
                              => plug'[x] = "off"
         /\ phase = "ready" => \E x \in Active : plug'[x] = "off"
         /\ \A x \in Active : action = x => plug'[Other(x)] = "off"
<1>1. ActTypeOK /\ SwitchInv /\ BeliefExcludesOther /\ Interlock
  BY DEF ActInv
<1>2. /\ Target \in Active /\ Commanded \in {"on", "off"}
      /\ Commanded = "on" => sw.to = Target /\ sw.stage = 2
  BY <1>1, TargetIs DEF ActTypeOK, Active
<1>3. /\ plug'[Other(Target)] = plug[Other(Target)]
      /\ plug'[Target] \in {plug[Target], Commanded}
      /\ plug' \in [Active -> {"on", "off"}]
  BY <1>1, CommandEffect
<1>4. \A x \in Active : plug[x] = "off" /\ (sw.stage = 1 \/ x # sw.to) => plug'[x] = "off"
  BY <1>2, <1>3 DEF Active, Other
<1>5. phase = "ready" => \E x \in Active : plug'[x] = "off"
  <2>1. CASE sw.stage = 2 /\ sw.to \in Active
    BY <1>1, <1>4, <2>1 DEF SwitchInv, Active, Other
  <2>2. CASE ~(sw.stage = 2 /\ sw.to \in Active)
    BY <1>1, <1>2, <1>4, <2>2 DEF Interlock, ActTypeOK, Active
  <2> QED BY <2>1, <2>2
<1>6. ASSUME NEW x \in Active, action = x
      PROVE  plug'[Other(x)] = "off"
  BY <1>1, <1>4, <1>6 DEF BeliefExcludesOther, SwitchInv, Active, Other
<1> QED BY <1>4, <1>5, <1>6

LEMMA ProceedsInv ==
  ASSUME ActInv, NEW d \in Durations, NEW since \in 0..d,
         NEW outcome \in CommandOutcomes, SwitchProceeds(d, since, outcome)
  PROVE  ActInv'
<1>1. ActTypeOK /\ SwitchInv /\ BeliefExcludesOther /\ Interlock /\ Busy
      /\ Command(d, since, outcome) /\ d \in Nat
  BY TuningAssumption DEF ActInv, SwitchProceeds, Durations
<1>2. sw.stage = 1 /\ sw' = [sw EXCEPT !.stage = 2, !.first = outcome, !.lag = d]
      /\ (outcome = "ok" \/ sw.to = "IDLE") /\ UNCHANGED <<phase, action, effort, lastActive>>
  BY DEF SwitchProceeds, MayContinue
<1>3. ActTypeOK'
  BY <1>1, <1>2, CommandEffect, TimePassesType
     DEF ActTypeOK, SwitchProceeds, Durations
<1>4. SwitchInv'
  <2>1. sw'.op = sw.op /\ sw'.to = sw.to /\ sw'.stage = 2 /\ sw'.first = outcome /\ Busy'
    BY <1>1, <1>2 DEF ActTypeOK, Busy
  <2>2. sw.to \in Active => plug'[Other(sw.to)] = "off"
    BY <1>1, <1>2, CommandEffect, TargetIs DEF Other, Active
  <2>3. sw.to = "IDLE" /\ outcome = "ok" => plug'["HEAT"] = "off"
    BY <1>1, <1>2, CommandEffect, TargetIs DEF Other, Active
  <2>4. sw.to \in Active => outcome = "ok"
    BY <1>2 DEF Active
  <2> QED BY <1>1, <1>2, <2>1, <2>2, <2>3, <2>4 DEF SwitchInv, Busy
<1>5. BeliefExcludesOther' /\ Interlock'
  BY <1>1, <1>2, CommandInv DEF BeliefExcludesOther, Interlock
<1> QED BY <1>3, <1>4, <1>5 DEF ActInv

\* A switch that ends early: nothing but the phase may change with it.
LEMMA EndsEarlyInv ==
  ASSUME ActInv, Busy, NEW d \in Durations, NEW since \in 0..d,
         NEW outcome \in CommandOutcomes, Command(d, since, outcome),
         TimePasses(d), sw' = NoSwitch, phase' = "dead" \/ (phase' = phase /\ sw.op # "init"),
         UNCHANGED <<action, effort, lastActive>>
  PROVE  ActInv'
<1>1. ActTypeOK /\ SwitchInv /\ BeliefExcludesOther /\ Interlock /\ d \in Nat
  BY TuningAssumption DEF ActInv, Durations
<1>2. phase' \in {"dead", "ready"} /\ (phase' = "ready" => phase = "ready")
  BY <1>1 DEF SwitchInv, Busy
<1>3. ActTypeOK'
  BY <1>1, <1>2, CommandEffect, TimePassesType, TuningAssumption
     DEF ActTypeOK, NoSwitch, CommandOutcomes
<1>4. SwitchInv'
  BY <1>1, <1>2 DEF SwitchInv, NoSwitch, Busy, Active
<1>5. BeliefExcludesOther' /\ Interlock'
  BY <1>1, <1>2, CommandInv DEF BeliefExcludesOther, Interlock
<1> QED BY <1>3, <1>4, <1>5 DEF ActInv

\* A switch to IDLE that succeeds has turned both plugs off.
LEMMA SwitchedToIdle ==
  ASSUME ActInv, NEW d \in Durations, NEW since \in 0..d,
         NEW outcome \in CommandOutcomes, SwitchSucceeds(d, since, outcome), sw.to = "IDLE"
  PROVE  AllOff'
<1>1. ActTypeOK /\ SwitchInv /\ Busy /\ Command(d, since, outcome)
  BY DEF ActInv, SwitchSucceeds
<1>2. sw.stage = 2 /\ sw.first = "ok" /\ outcome = "ok"
  BY DEF SwitchSucceeds, AllDone
<1> QED BY <1>1, <1>2, CommandEffect, CommandInv, TargetIs DEF SwitchInv, AllOff, Active, Other

LEMMA SucceedsInv ==
  ASSUME ActInv, NEW d \in Durations, NEW since \in 0..d,
         NEW outcome \in CommandOutcomes, SwitchSucceeds(d, since, outcome)
  PROVE  ActInv'
<1>1. ActTypeOK /\ SwitchInv /\ BeliefExcludesOther /\ Interlock /\ Busy
      /\ Command(d, since, outcome) /\ d \in Nat /\ d <= ChipTimeout
  BY TuningAssumption DEF ActInv, SwitchSucceeds, Durations
<1>2. sw.stage = 2 /\ sw.first = "ok" /\ outcome = "ok" /\ sw' = NoSwitch
      /\ phase' = "ready" /\ action' = sw.to
  BY DEF SwitchSucceeds, AllDone
<1>3. ActTypeOK'
  <2>1. idleAge' \in 0..MaxAge
    BY <1>1, AgeAssumption, TuningAssumption DEF SwitchSucceeds, IdleSince, ActTypeOK
  <2>2. windowAge' \in 0..(Window - 1)
    <3>1. sw.lag \in Nat /\ windowAge \in Nat
      BY <1>1, TuningAssumption DEF ActTypeOK
    <3> QED BY <1>1, <3>1, WindowType DEF SwitchSucceeds, AdvanceWindow
  <2>3. effortAge' \in 0..MaxAge
    BY <1>1, OlderType DEF SwitchSucceeds, ActTypeOK
  <2>4. lastActive' \in Active \cup {"NONE"} /\ effort' = effort
    BY <1>1 DEF SwitchSucceeds, ActTypeOK
  <2>5. plug' \in [Active -> {"on", "off"}] /\ plugAge' \in [Active -> 0..MaxAge]
    BY <1>1, CommandEffect
  <2> QED BY <1>1, <1>2, <2>1, <2>2, <2>3, <2>4, <2>5, TuningAssumption
          DEF ActTypeOK, NoSwitch, CommandOutcomes
<1>4. SwitchInv'
  BY <1>2 DEF SwitchInv, NoSwitch, Busy, Active
<1>5. sw.to = "IDLE" => \A x \in Active : plug'[x] = "off"
  BY SwitchedToIdle DEF AllOff
<1>6. sw.to \in Active => plug'[Other(sw.to)] = "off"
  BY <1>1, <1>2, CommandInv DEF SwitchInv, Active, Other
<1>7. BeliefExcludesOther' /\ Interlock'
  BY <1>1, <1>2, <1>5, <1>6 DEF BeliefExcludesOther, Interlock, ActTypeOK, Active, Other
<1> QED BY <1>3, <1>4, <1>7 DEF ActInv

LEMMA NextInv == ActInv /\ [ActNext]_actVars => ActInv'
<1> SUFFICES ASSUME ActInv, [ActNext]_actVars PROVE ActInv'
  OBVIOUS
<1>0. ActTypeOK /\ SwitchInv /\ BeliefExcludesOther /\ Interlock
  BY DEF ActInv
<1>1. CASE Initialize
  BY <1>0, <1>1, BeginInv DEF Initialize, Active
<1>2. ASSUME NEW e \in Efforts, SetEffort(e) PROVE ActInv'
  <2>1. ActTypeOK'
    BY <1>0, <1>2, TuningAssumption, AgeAssumption DEF ActTypeOK, SetEffort, plugVars
  <2> QED BY <1>0, <1>2, <2>1 DEF ActInv, SetEffort, SwitchInv, Busy, BeliefExcludesOther,
                                 Interlock, plugVars
<1>3. CASE Tick
  BY <1>0, <1>3, BeginInv, WantedFromIdle DEF Tick
<1>4. CASE ForceIdle
  BY <1>0, <1>4, BeginInv DEF ForceIdle, Active
<1>5. ASSUME NEW d \in Durations, NEW since \in 0..d, NEW outcome \in CommandOutcomes,
             \/ SwitchProceeds(d, since, outcome)
             \/ SwitchFails(d, since, outcome)
             \/ SwitchSucceeds(d, since, outcome)
             \/ Abandon(d, since, outcome)
      PROVE ActInv'
  <2>1. CASE SwitchProceeds(d, since, outcome)
    BY <2>1, ProceedsInv
  <2>2. CASE SwitchFails(d, since, outcome)
    <3>1. phase' = "dead" \/ (phase' = phase /\ sw.op # "init")
      BY <2>2 DEF SwitchFails
    <3> QED BY <2>2, <3>1, EndsEarlyInv DEF SwitchFails
  <2>3. CASE SwitchSucceeds(d, since, outcome)
    BY <2>3, SucceedsInv
  <2>4. CASE Abandon(d, since, outcome)
    <3>1. phase' = "dead" \/ (phase' = phase /\ sw.op # "init")
      BY <2>4 DEF Abandon
    <3> QED BY <2>4, <3>1, EndsEarlyInv DEF Abandon
  <2> QED BY <1>5, <2>1, <2>2, <2>3, <2>4
<1>6. ASSUME NEW d \in 0..MaxAge, Wait(d) PROVE ActInv'
  <2>1. d \in Nat
    BY AgeAssumption
  <2>2. plugAge' \in [Active -> 0..MaxAge]
    BY <1>0, <1>6, <2>1, OlderType DEF Wait, PlugsOlder, ActTypeOK
  <2>3. ActTypeOK'
    BY <1>0, <1>6, <2>1, <2>2, TimePassesType DEF Wait, ActTypeOK
  <2> QED BY <1>0, <1>6, <2>3 DEF ActInv, Wait, SwitchInv, Busy, BeliefExcludesOther, Interlock
<1>7. CASE Die
  BY <1>0, <1>7 DEF ActInv, Die, ActTypeOK, SwitchInv, Busy, BeliefExcludesOther, Interlock,
                    plugVars, NoSwitch
<1>8. CASE Restart
  <2>1. ~Busy
    BY <1>0, <1>8 DEF Restart, SwitchInv
  <2>2. ActTypeOK'
    BY <1>0, <1>8, TuningAssumption, AgeAssumption DEF ActTypeOK, Restart, plugVars
  <2> QED BY <1>0, <1>8, <2>1, <2>2 DEF ActInv, Restart, SwitchInv, Busy, BeliefExcludesOther,
                               Interlock, plugVars, NoSwitch, Active
<1>9. CASE UNCHANGED actVars
  BY <1>0, <1>9 DEF ActInv, actVars, modelVars, plugVars, ActTypeOK, SwitchInv, Busy,
                    BeliefExcludesOther, Interlock
<1> QED
  BY <1>1, <1>2, <1>3, <1>4, <1>5, <1>6, <1>7, <1>8, <1>9, EnvironmentAssumption
     DEF ActNext, Durations

LEMMA ActInvariant == ActSpec => []ActInv
BY InitInv, NextInv, PTL DEF ActSpec

-----------------------------------------------------------------------------
(* Type correctness and the interlock *)

\* Every variable of the actuator keeps its type.
THEOREM TypeCorrect == ActSpec => []ActTypeOK
BY ActInvariant, PTL DEF ActInv

\* Heater and cooler are never on together once initialize() has returned:
\* for every tuning, every delay and loss of commands and answers, every
\* interrupt, crash and restart.
THEOREM InterlockHolds == ActSpec => []Interlock
BY ActInvariant, PTL DEF ActInv

\* The direction the actuator believes on excludes the other plug.
THEOREM BeliefExcludes == ActSpec => []BeliefExcludesOther
BY ActInvariant, PTL DEF ActInv

-----------------------------------------------------------------------------
(* What a command may do when answers are not lost *)

\* Every command that takes effect is acknowledged, and none is cut short.
Acked == Outcomes \subseteq {"ok", "lost"} /\ "raise" \notin Faults

\* IdleMeansOff, while a switch is under way too: a switch to HEAT or COOL
\* turns something on only in the step that ends it.
IdleOff == phase = "ready" /\ action = "IDLE" => AllOff

\* A switch from IDLE that does not succeed leaves an idle pair of plugs off.
LEMMA UnsuccessfulStaysOff ==
  ASSUME ActInv, Busy, AllOff, NEW d \in Durations, NEW since \in 0..d,
         NEW outcome \in {"ok", "lost"}, Command(d, since, outcome),
         ~AllDone(outcome)
  PROVE  AllOff'
<1>1. ActTypeOK /\ SwitchInv /\ outcome \in CommandOutcomes
  BY DEF ActInv, CommandOutcomes
<1>2. Target \in Active /\ Commanded \in {"on", "off"}
      /\ (Commanded = "on" => sw.to \in Active /\ sw.stage = 2)
  BY <1>1, TargetIs
<1>3. CASE outcome = "lost"
  BY <1>3 DEF Command, AllOff
<1>4. CASE Commanded = "off"
  BY <1>1, <1>2, <1>4, CommandEffect DEF AllOff, Active, Other
<1>5. CASE outcome = "ok" /\ Commanded = "on"
  <2>1. sw.first = "ok"
    BY <1>1, <1>2, <1>5 DEF SwitchInv
  <2> QED BY <1>2, <1>5, <2>1 DEF AllDone
<1> QED BY <1>2, <1>3, <1>4, <1>5

LEMMA IdleOffNext ==
  ASSUME Acked, ActInv, IdleOff, [ActNext]_actVars
  PROVE  IdleOff'
<1>0. ActTypeOK /\ SwitchInv
  BY DEF ActInv
<1>1. ASSUME NEW d \in Durations, NEW since \in 0..d, NEW outcome \in Outcomes,
             SwitchProceeds(d, since, outcome) \/ SwitchFails(d, since, outcome)
      PROVE  IdleOff'
  <2>1. outcome \in {"ok", "lost"} /\ ~AllDone(outcome) /\ Busy /\ Command(d, since, outcome)
    BY <1>0, <1>1 DEF Acked, SwitchProceeds, SwitchFails, MayContinue, AllDone
  <2>2. action' = action /\ (phase' = "ready" => phase = "ready")
    BY <1>1 DEF SwitchProceeds, SwitchFails
  <2> QED BY <2>1, <2>2, UnsuccessfulStaysOff DEF IdleOff
<1>2. ASSUME NEW d \in Durations, NEW since \in 0..d, NEW outcome \in Outcomes,
             SwitchSucceeds(d, since, outcome)
      PROVE  IdleOff'
  <2>1. outcome \in CommandOutcomes
    BY EnvironmentAssumption
  <2>2. action' = sw.to
    BY <1>2 DEF SwitchSucceeds
  <2> QED BY <1>2, <2>1, <2>2, SwitchedToIdle DEF IdleOff
<1>3. ASSUME NEW d \in Durations, NEW since \in 0..d, NEW outcome \in CommandOutcomes,
             Abandon(d, since, outcome)
      PROVE  IdleOff'
  BY <1>3 DEF Abandon, Acked, IdleOff
<1>4. CASE Initialize \/ Tick \/ ForceIdle
  BY <1>4 DEF Initialize, Tick, ForceIdle, IdleOff, AllOff, modelVars, plugVars
<1>5. CASE \E e \in Efforts : SetEffort(e)
  BY <1>5 DEF SetEffort, IdleOff, AllOff, plugVars
<1>6. CASE \E d \in 0..MaxAge : Wait(d)
  BY <1>6 DEF Wait, IdleOff, AllOff
<1>7. CASE Die \/ Restart
  BY <1>7 DEF Die, Restart, IdleOff
<1>8. CASE UNCHANGED actVars
  BY <1>8 DEF actVars, modelVars, plugVars, IdleOff, AllOff
<1> QED
  BY <1>1, <1>2, <1>3, <1>4, <1>5, <1>6, <1>7, <1>8 DEF ActNext, Durations

\* When no command takes effect unacknowledged, _action = "IDLE" means that
\* both plugs are off, so that the early returns of tick() and force_idle()
\* leave nothing on.
THEOREM IdleIsOff ==
  ASSUME Acked
  PROVE  ActSpec => []IdleMeansOff
<1>1. ActInit => IdleOff
  BY DEF ActInit, IdleOff
<1>2. ActInv /\ IdleOff /\ [ActNext]_actVars => IdleOff'
  BY IdleOffNext
<1>3. IdleOff => IdleMeansOff
  BY DEF IdleOff, IdleMeansOff
<1> QED BY <1>1, <1>2, <1>3, ActInvariant, PTL DEF ActSpec

-----------------------------------------------------------------------------
(* Pulses *)

\* A switch that turns a plug on has been justified since it began.
JustifiedInv ==
  Busy /\ sw.to \in Active =>
    /\ Asked(sw.to) > Deadband /\ Asked(sw.to) >= ShortestPulse(sw.to)
    /\ effortAge <= StaleTimeout + (IF sw.stage = 1 THEN 0 ELSE ChipTimeout)

\* While a command runs the effort gets older by what it takes and stays what it is.
LEMMA EffortDuring ==
  ASSUME ActTypeOK, NEW d \in Durations, NEW since \in 0..d, NEW outcome \in CommandOutcomes,
         \/ SwitchProceeds(d, since, outcome) \/ SwitchFails(d, since, outcome)
         \/ SwitchSucceeds(d, since, outcome) \/ Abandon(d, since, outcome)
  PROVE  /\ Busy /\ effort' = effort /\ Command(d, since, outcome)
         /\ effortAge' \in Nat /\ effortAge' <= effortAge + ChipTimeout
<1>1. Busy /\ effort' = effort /\ Command(d, since, outcome) /\ effortAge' = Older(effortAge, d)
  BY DEF SwitchProceeds, SwitchFails, SwitchSucceeds, Abandon, TimePasses
<1>2. effortAge \in 0..MaxAge /\ d \in Nat /\ d <= ChipTimeout
  BY TuningAssumption DEF ActTypeOK, Durations
<1>3. Older(effortAge, d) \in Nat /\ Older(effortAge, d) <= effortAge + d
  BY <1>2, AgeAssumption DEF Older
<1> QED BY <1>1, <1>2, <1>3, TuningAssumption

LEMMA JustifiedNext ==
  ASSUME ActInv, JustifiedInv, [ActNext]_actVars
  PROVE  JustifiedInv'
<1>0. ActTypeOK /\ SwitchInv
  BY DEF ActInv
<1>1. CASE Tick
  <2>1. /\ sw' = [NoSwitch EXCEPT !.op = "tick", !.to = Wanted]
        /\ UNCHANGED <<effort, effortAge>>
    BY <1>1 DEF Tick, BeginSwitch, modelVars
  <2>2. sw'.to = Wanted /\ sw'.stage = 1
    BY <2>1 DEF NoSwitch
  <2>3. ASSUME Wanted \in Active
        PROVE  /\ Asked(Wanted) > Deadband /\ Asked(Wanted) >= ShortestPulse(Wanted)
               /\ effortAge <= StaleTimeout
    <3>1. DutyOn /\ Wanted = Direction
      BY <2>3 DEF Wanted, Requested, Active
    <3>2. Asked(Wanted) = Magnitude /\ ShortestPulse(Wanted) = MinOn
      <4>1. effort \in Int /\ Deadband \in Nat
        BY <1>0, TuningAssumption DEF ActTypeOK
      <4>2. effort > 0 \/ effort < 0
        BY <3>1, <4>1 DEF DutyOn, Magnitude
      <4> QED BY <3>1, <4>1, <4>2 DEF Asked, Magnitude, Direction, ShortestPulse, MinOn
    <3> QED BY <3>1, <3>2 DEF DutyOn, Fresh
  <2> QED BY <2>1, <2>2, <2>3, TuningAssumption DEF JustifiedInv, Asked, ShortestPulse
<1>2. CASE Initialize \/ ForceIdle
  <2>1. sw'.to = "IDLE"
    BY <1>2 DEF Initialize, ForceIdle, BeginSwitch, NoSwitch
  <2> QED BY <2>1 DEF JustifiedInv, Active
<1>3. ASSUME NEW d \in Durations, NEW since \in 0..d, NEW outcome \in CommandOutcomes,
             SwitchProceeds(d, since, outcome)
      PROVE  JustifiedInv'
  <2>1. /\ effort' = effort /\ effortAge' \in Nat /\ effortAge' <= effortAge + ChipTimeout
    BY <1>0, <1>3, EffortDuring
  <2>2. sw'.to = sw.to /\ sw'.stage = 2 /\ sw.stage = 1 /\ Busy
    BY <1>0, <1>3 DEF SwitchProceeds, MayContinue, ActTypeOK
  <2>3. effortAge \in Nat /\ StaleTimeout \in Nat /\ ChipTimeout \in Nat
    BY <1>0, TuningAssumption, AgeAssumption DEF ActTypeOK
  <2>4. sw.to \in Active => effortAge' <= StaleTimeout + ChipTimeout
    BY <2>1, <2>2, <2>3 DEF JustifiedInv
  <2> QED BY <2>1, <2>2, <2>4 DEF JustifiedInv, Asked, ShortestPulse
<1>4. ASSUME NEW d \in Durations, NEW since \in 0..d, NEW outcome \in CommandOutcomes,
             \/ SwitchFails(d, since, outcome) \/ SwitchSucceeds(d, since, outcome)
             \/ Abandon(d, since, outcome)
      PROVE  JustifiedInv'
  BY <1>4 DEF SwitchFails, SwitchSucceeds, Abandon, JustifiedInv, Busy, NoSwitch
<1>5. CASE (\E e \in Efforts : SetEffort(e)) \/ (\E d \in 0..MaxAge : Wait(d)) \/ Die
  BY <1>5 DEF SetEffort, Wait, Die, JustifiedInv, Busy
<1>6. CASE Restart
  <2>1. ~Busy /\ sw' = sw
    BY <1>0, <1>6 DEF Restart, SwitchInv
  <2> QED BY <2>1 DEF JustifiedInv, Busy
<1>7. CASE UNCHANGED actVars
  BY <1>7 DEF actVars, modelVars, JustifiedInv, Busy, Asked, ShortestPulse
<1> QED
  BY <1>1, <1>2, <1>3, <1>4, <1>5, <1>6, <1>7, EnvironmentAssumption DEF ActNext, Durations

\* A plug goes on only for a pulse that was asked for by an effort of its direction,
\* whatever commands do and however often a switch is tried again.
THEOREM PulsesJustified == ActSpec => PulsesAskedFor
<1>1. ASSUME ActInv, JustifiedInv, [ActNext]_actVars
      PROVE  [\A x \in Active : plug[x] = "off" /\ plug'[x] = "on" => Justified(x)]_actVars
  <2> SUFFICES ASSUME NEW x \in Active, plug[x] = "off", plug'[x] = "on"
               PROVE  Justified(x)
    OBVIOUS
  <2>0. ActTypeOK
    BY <1>1 DEF ActInv
  <2>1. PICK d \in Durations : \E since \in 0..d, outcome \in CommandOutcomes :
          \/ SwitchProceeds(d, since, outcome) \/ SwitchFails(d, since, outcome)
          \/ SwitchSucceeds(d, since, outcome) \/ Abandon(d, since, outcome)
    <3>1. plug' # plug
      OBVIOUS
    <3> QED BY <1>1, <3>1, EnvironmentAssumption
        DEF ActNext, Durations, Initialize, SetEffort, Tick, ForceIdle, Wait, Die, Restart,
            actVars, plugVars
  <2>2. PICK since \in 0..d, outcome \in CommandOutcomes :
          \/ SwitchProceeds(d, since, outcome) \/ SwitchFails(d, since, outcome)
          \/ SwitchSucceeds(d, since, outcome) \/ Abandon(d, since, outcome)
    BY <2>1
  <2>3. /\ Busy /\ Command(d, since, outcome)
        /\ effortAge' \in Nat /\ effortAge' <= effortAge + ChipTimeout
    BY <2>0, <2>2, EffortDuring
  <2>4. x = Target /\ Commanded = "on"
    <3>1. Target \in Active /\ plug'[Other(Target)] = plug[Other(Target)]
          /\ plug'[Target] \in {plug[Target], Commanded}
      BY <2>0, <2>3, TargetIs, CommandEffect
    <3> QED BY <3>1 DEF Active, Other
  <2>5. sw.to = x /\ sw.stage = 2
    BY <2>0, <2>4, TargetIs DEF ActTypeOK, Active
  <2>6. effortAge <= StaleTimeout + ChipTimeout /\ Asked(x) > Deadband /\ Asked(x) >= ShortestPulse(x)
    BY <1>1, <2>3, <2>5 DEF JustifiedInv
  <2>7. effortAge \in Nat /\ StaleTimeout \in Nat /\ ChipTimeout \in Nat
    BY <2>0, TuningAssumption, AgeAssumption DEF ActTypeOK
  <2> QED BY <2>3, <2>6, <2>7 DEF Justified
<1>2. ActInit => JustifiedInv
  BY DEF ActInit, JustifiedInv, Busy, NoSwitch
<1>3. ActInv /\ JustifiedInv /\ [ActNext]_actVars => JustifiedInv'
  BY JustifiedNext
<1> QED BY <1>1, <1>2, <1>3, ActInvariant, PTL DEF ActSpec, PulsesAskedFor

-----------------------------------------------------------------------------
(* The actuator implements PlugInterlock: with MinGap = 0 whatever happens   *)
(* to commands and to the process, and with MinGap = reverse_idle_s less     *)
(* two command timeouts when no command takes effect unacknowledged and the  *)
(* process is neither interrupted in a command nor started again.            *)

\* The two things a command may come to, in the abstract module's terms.
LEMMA CommandCases ==
  ASSUME ActTypeOK, NEW d \in Durations, NEW since \in 0..d,
         NEW outcome \in CommandOutcomes, Command(d, since, outcome)
  PROVE  \/ plug' = plug /\ plugAge' = PlugsOlder(d)
         \/ /\ plug[Target] # Commanded /\ outcome # "lost"
            /\ plug' = [plug EXCEPT ![Target] = Commanded]
            /\ plugAge' = [y \in Active |-> IF y = Target THEN since ELSE Older(plugAge[y], d)]
<1>1. Target \in Active
  BY TargetIs
<1> QED BY <1>1 DEF Command, PlugsOlder

\* The commands of a switch are the only steps that change a plug.
LEMMA PlugSteps ==
  ASSUME ActInv, [ActNext]_actVars
  PROVE  \/ plug' = plug /\ plugAge' = plugAge
         \/ \E d \in 0..MaxAge : plug' = plug /\ plugAge' = PlugsOlder(d)
         \/ Busy /\ \E d \in Durations : \E since \in 0..d, outcome \in CommandOutcomes :
                      Command(d, since, outcome)
<1>1. CASE UNCHANGED actVars
  BY <1>1 DEF actVars, plugVars
<1>2. CASE Initialize \/ Tick \/ ForceIdle \/ Die \/ Restart \/ \E e \in Efforts : SetEffort(e)
  BY <1>2 DEF Initialize, Tick, ForceIdle, Die, Restart, SetEffort, plugVars
<1>3. CASE \E d \in 0..MaxAge : Wait(d)
  BY <1>3 DEF Wait
<1>4. ASSUME NEW d \in Durations, NEW since \in 0..d, NEW outcome \in CommandOutcomes,
             \/ SwitchProceeds(d, since, outcome)
             \/ SwitchFails(d, since, outcome)
             \/ SwitchSucceeds(d, since, outcome)
             \/ Abandon(d, since, outcome)
      PROVE Busy /\ Command(d, since, outcome)
  BY <1>4 DEF SwitchProceeds, SwitchFails, SwitchSucceeds, Abandon
<1> QED
  BY <1>1, <1>2, <1>3, <1>4, EnvironmentAssumption DEF ActNext, Durations

-----------------------------------------------------------------------------
(* The interlock *)

LEMMA InterlockedInit == ActInit => Interlocked!Init
BY EnvironmentAssumption DEF ActInit, Interlocked!Init, Interlocked!Plugs, Active

LEMMA InterlockedStep ==
  ASSUME ActInv, [ActNext]_actVars
  PROVE  [Interlocked!Next]_(Interlocked!ivars)
<1> USE DEF Interlocked!Plugs, Interlocked!ivars, Active
<1>1. CASE plug' = plug /\ plugAge' = plugAge
  BY <1>1
<1>2. ASSUME NEW d \in 0..MaxAge, plug' = plug, plugAge' = PlugsOlder(d)
      PROVE  Interlocked!Next
  BY <1>2 DEF Interlocked!Next, Interlocked!Elapse, PlugsOlder, Older, Interlocked!Aged
<1>3. ASSUME Busy, NEW d \in Durations, NEW since \in 0..d, NEW outcome \in CommandOutcomes,
             Command(d, since, outcome)
      PROVE  Interlocked!Next
  <2>1. ActTypeOK /\ SwitchInv /\ d \in 0..MaxAge /\ since \in 0..d /\ d \in Nat /\ since \in Nat
    BY AgeAssumption, TuningAssumption DEF ActInv, Durations
  <2>2. CASE plug' = plug /\ plugAge' = PlugsOlder(d)
    BY <1>2, <2>1, <2>2
  <2>3. CASE /\ plug[Target] # Commanded
             /\ plug' = [plug EXCEPT ![Target] = Commanded]
             /\ plugAge' = [y \in Active |-> IF y = Target THEN since ELSE Older(plugAge[y], d)]
    <3>1. /\ Target \in Active /\ Commanded \in {"on", "off"}
          /\ (Commanded = "on" => Target = sw.to /\ sw.to \in Active /\ sw.stage = 2)
      BY <2>1, TargetIs DEF ActTypeOK
    <3>2. Interlocked!Change(Target, Commanded, d, since)
      BY <2>3, <3>1 DEF Interlocked!Change, Older, Interlocked!Aged
    <3>3. CASE Commanded = "off"
      BY <2>1, <3>1, <3>2, <3>3 DEF Interlocked!Next, Interlocked!TurnOff
    <3>4. CASE Commanded = "on"
      <4>1. plug[Interlocked!Other(Target)] = "off"
        BY <2>1, <3>1, <3>4 DEF SwitchInv, Other, Interlocked!Other
      <4>2. plugAge[Interlocked!Other(Target)] \in 0..MaxAge
        BY <2>1, <3>1 DEF ActTypeOK, Interlocked!Other
      <4>3. Interlocked!Aged(plugAge[Interlocked!Other(Target)], d - since) >= 0
        BY <2>1, <4>2, AgeAssumption DEF Interlocked!Aged
      <4>4. Interlocked!TurnOn(Target, d, since)
        BY <3>2, <3>4, <4>1, <4>3 DEF Interlocked!TurnOn
      <4> QED BY <2>1, <3>1, <4>4 DEF Interlocked!Next
    <3> QED BY <3>1, <3>3, <3>4
  <2> QED BY <1>3, <2>1, <2>2, <2>3, CommandCases
<1> QED BY <1>1, <1>2, <1>3, PlugSteps

\* Seen from outside, the plugs obey the interlock: one is turned on only
\* while the other is off.
THEOREM ImplementsInterlock == ActSpec => PlugsInterlocked
<1>1. ActInv /\ [ActNext]_actVars => [Interlocked!Next]_(Interlocked!ivars)
  BY InterlockedStep
<1> QED BY <1>1, InterlockedInit, ActInvariant, PTL
        DEF ActSpec, PlugsInterlocked, Interlocked!Spec

-----------------------------------------------------------------------------
(* The gap between one direction and the other *)

\* Plugs are off at the start, commands that take effect are acknowledged,
\* and the process runs once: the next one does not know what was on last.
OneCleanRun ==
  Outcomes \subseteq {"ok", "lost"} /\ Faults = {} /\ PlugsAtStart = {"off"}

Gap == ReverseIdle - 2 * ChipTimeout

\* x is the direction last driven: the one on, or the last one while idle.
LastDriven(x) == action = x \/ (action = "IDLE" /\ lastActive = x)

\* The plug opposite to the direction last driven has rested for Gap; so has
\* the one opposite to a direction about to be driven.  While idle, the plug
\* last driven has been off for as long as _idle_since says, less the time
\* the switch to IDLE may have taken.
GapInv ==
  /\ action = "IDLE" => AllOff
  /\ \A x \in Active : LastDriven(x) => plugAge[Other(x)] >= Gap
  /\ \A x \in Active : action = "IDLE" /\ lastActive = x
                        => plugAge[x] >= idleAge - 2 * ChipTimeout
  /\ action = "IDLE" /\ lastActive = "NONE" => \A x \in Active : plugAge[x] >= Gap
  /\ sw.to \in Active => plugAge[Other(sw.to)] >= Gap

\* Ages grow together: saturation keeps their order.
LEMMA OlderKeeps ==
  ASSUME NEW a \in 0..MaxAge, NEW b \in 0..MaxAge, NEW d \in Nat
  PROVE  /\ a >= Gap => Older(a, d) >= Gap
         /\ a >= b - 2 * ChipTimeout => Older(a, d) >= Older(b, d) - 2 * ChipTimeout
BY AgeAssumption, TuningAssumption DEF Older, Gap

LEMMA GapInit == OneCleanRun /\ ActInit => GapInv
BY AgeAssumption, TuningAssumption
   DEF ActInit, OneCleanRun, GapInv, LastDriven, AllOff, Active, Other, NoSwitch, Gap

\* Time alone, with what the actuator believes unchanged.
LEMMA GapAges ==
  ASSUME ActTypeOK, GapInv, NEW d \in Nat, UNCHANGED <<action, lastActive, plug>>,
         plugAge' = PlugsOlder(d), idleAge' = Older(idleAge, d),
         sw'.to = sw.to \/ sw'.to = "IDLE"
  PROVE  GapInv'
<1>1. \A x \in Active : plugAge[x] \in 0..MaxAge /\ plugAge'[x] = Older(plugAge[x], d)
                        /\ Other(x) \in Active
  BY DEF ActTypeOK, PlugsOlder, Other, Active
<1>2. idleAge \in 0..MaxAge
  BY DEF ActTypeOK
<1>3. \A x \in Active : /\ plugAge[x] >= Gap => plugAge'[x] >= Gap
                        /\ plugAge[x] >= idleAge - 2 * ChipTimeout
                             => plugAge'[x] >= idleAge' - 2 * ChipTimeout
  BY <1>1, <1>2, OlderKeeps
<1> QED BY <1>1, <1>3 DEF GapInv, LastDriven, AllOff, Active

\* A command that leaves _action alone: only a plug believed on goes off.
LEMMA GapCommand ==
  ASSUME ActInv, GapInv, Busy, NEW d \in Durations, NEW since \in 0..d,
         NEW outcome \in {"ok", "lost"}, Command(d, since, outcome), ~AllDone(outcome),
         TimePasses(d), UNCHANGED <<action, lastActive>>,
         sw'.to = sw.to \/ sw'.to = "IDLE"
  PROVE  GapInv'
<1>1. ActTypeOK /\ SwitchInv /\ BeliefExcludesOther /\ outcome \in CommandOutcomes
      /\ d \in Nat /\ since \in Nat
  BY TuningAssumption DEF ActInv, CommandOutcomes, Durations
<1>2. CASE plug' = plug /\ plugAge' = PlugsOlder(d)
  BY <1>1, <1>2, GapAges DEF TimePasses
<1>3. CASE /\ plug[Target] # Commanded /\ outcome # "lost"
           /\ plug' = [plug EXCEPT ![Target] = Commanded]
           /\ plugAge' = [y \in Active |-> IF y = Target THEN since ELSE Older(plugAge[y], d)]
  <2>1. /\ Target \in Active /\ Commanded \in {"on", "off"}
        /\ (Commanded = "on" => sw.to \in Active /\ sw.stage = 2)
    BY <1>1, TargetIs
  <2>2. Commanded = "off" /\ plug[Target] # "off"
    BY <1>1, <1>3, <2>1 DEF SwitchInv, AllDone
  <2>3. action = Target
    BY <1>1, <2>1, <2>2 DEF GapInv, AllOff, BeliefExcludesOther, ActTypeOK, Active, Other
  <2>4. plugAge[Other(Target)] \in 0..MaxAge /\ plugAge[Other(Target)] >= Gap
        /\ Other(Target) \in Active /\ Other(Target) # Target
    BY <1>1, <2>1, <2>3 DEF GapInv, LastDriven, ActTypeOK, Other, Active
  <2>5. plugAge'[Other(Target)] >= Gap
    BY <1>1, <1>3, <2>4, OlderKeeps
  <2>6. action # "IDLE" /\ sw.to \notin Active /\ sw'.to \notin Active
    BY <1>1, <2>1, <2>3 DEF SwitchInv, ActTypeOK, Active
  <2> QED BY <2>1, <2>3, <2>5, <2>6 DEF GapInv, LastDriven, Active
<1> QED BY <1>1, <1>2, <1>3, CommandCases

\* A tick that asks for a direction found it not locked out.
LEMMA GapTick ==
  ASSUME ActTypeOK, GapInv, Tick
  PROVE  GapInv'
<1>1. Wanted \in Active \cup {"IDLE"} /\ (Wanted \in Active => action = "IDLE")
      /\ sw'.to = Wanted /\ UNCHANGED <<modelVars, plugVars>>
  BY WantedFromIdle DEF Tick, BeginSwitch, NoSwitch
<1>2. ASSUME Wanted \in Active
      PROVE  plugAge[Other(Wanted)] >= Gap
  <2>1. ~LockedOut(Wanted) /\ action = "IDLE"
    BY <1>1, <1>2 DEF Wanted, Active
  <2>2. lastActive \in {"NONE", Wanted} \/ idleAge >= ReverseIdle
    BY <1>2, <2>1, AgeAssumption, TuningAssumption DEF LockedOut, ActTypeOK
  <2>3. CASE lastActive = "NONE"
    BY <2>1, <2>3 DEF GapInv, Other, Active
  <2>4. CASE lastActive = Wanted
    BY <1>2, <2>1, <2>4 DEF GapInv, LastDriven
  <2>5. CASE lastActive = Other(Wanted) /\ idleAge >= ReverseIdle
    <3>1. plugAge[Other(Wanted)] >= idleAge - 2 * ChipTimeout
      BY <1>2, <2>1, <2>5 DEF GapInv, Other, Active
    <3>2. plugAge[Other(Wanted)] \in Nat /\ idleAge \in Nat
      BY <1>2, AgeAssumption DEF ActTypeOK, Other, Active
    <3> QED BY <2>5, <3>1, <3>2, TuningAssumption DEF Gap
  <2> QED BY <1>2, <2>2, <2>3, <2>4, <2>5 DEF ActTypeOK, Other, Active
<1> QED BY <1>1, <1>2 DEF GapInv, LastDriven, AllOff, modelVars, plugVars

\* The end of a switch: to IDLE it takes at most two timeouts from the `now'
\* that _idle_since keeps; to a direction it leaves the other plug alone.
LEMMA GapSucceeds ==
  ASSUME ActInv, GapInv, NEW d \in Durations, NEW since \in 0..d,
         NEW outcome \in CommandOutcomes, SwitchSucceeds(d, since, outcome)
  PROVE  GapInv'
<1>1. ActTypeOK /\ SwitchInv /\ BeliefExcludesOther /\ Busy /\ Command(d, since, outcome)
      /\ d \in Nat /\ since \in Nat /\ d <= ChipTimeout /\ ChipTimeout \in Nat
  BY TuningAssumption DEF ActInv, Durations, SwitchSucceeds
<1>2. sw.stage = 2 /\ action' = sw.to /\ sw'.to = "IDLE"
      /\ lastActive' = (IF action = "IDLE" THEN lastActive ELSE action)
  BY DEF SwitchSucceeds, AllDone, NoSwitch
<1>3. plugAge' \in [Active -> 0..MaxAge]
  BY <1>1, CommandEffect
<1>4. \A x \in Active : x # Target \/ plug[x] = Commanded
                        => plugAge[x] \in 0..MaxAge /\ plugAge'[x] = Older(plugAge[x], d)
  BY <1>1, CommandCases DEF PlugsOlder, ActTypeOK
<1>5. CASE sw.to = "IDLE"
  <2>1. AllOff'
    BY <1>5, SwitchedToIdle
  <2>2. idleAge' - 2 * ChipTimeout <= 0
    <3>1. idleAge' = sw.lag + d /\ sw.lag \in 0..ChipTimeout
      BY <1>1, <1>5 DEF SwitchSucceeds, IdleSince, ActTypeOK
    <3> QED BY <1>1, <3>1
  <2>3. \A x \in Active : plugAge'[x] >= idleAge' - 2 * ChipTimeout
    <3>1. idleAge' \in Nat /\ 2 * ChipTimeout \in Nat
      BY <1>1, <1>5 DEF SwitchSucceeds, IdleSince, ActTypeOK
    <3>2. ASSUME NEW x \in Active
          PROVE  plugAge'[x] >= idleAge' - 2 * ChipTimeout
      <4>1. plugAge'[x] >= 0 /\ plugAge'[x] \in Int
        BY <1>3, <3>2
      <4> QED BY <2>2, <3>1, <4>1
    <3> QED BY <3>2
  <2>4. Target = "COOL" /\ Commanded = "off"
    BY <1>1, <1>2, <1>5, TargetIs DEF Active
  \* The plug opposite to the one driven until now was off already.
  <2>5. \A x \in Active : plug[Other(x)] = "off" /\ plugAge[Other(x)] >= Gap
                        => plugAge'[Other(x)] >= Gap
    <3> SUFFICES ASSUME NEW x \in Active, plug[Other(x)] = "off", plugAge[Other(x)] >= Gap
                 PROVE  plugAge'[Other(x)] >= Gap
      OBVIOUS
    <3>1. Other(x) \in Active
      BY DEF Other, Active
    <3>2. plugAge[Other(x)] \in 0..MaxAge /\ plugAge'[Other(x)] = Older(plugAge[Other(x)], d)
      BY <1>4, <2>4, <3>1
    <3> QED BY <1>1, <3>2, OlderKeeps
  <2>6. action' = "IDLE" /\ (\A x \in Active : LastDriven(x)' => LastDriven(x))
        /\ (lastActive' = "NONE" => lastActive = "NONE" /\ action = "IDLE")
    BY <1>1, <1>2, <1>5 DEF LastDriven, ActTypeOK, Active
  <2>7. \A x \in Active : LastDriven(x)' => plugAge'[Other(x)] >= Gap
    BY <1>1, <2>5, <2>6 DEF GapInv, LastDriven, BeliefExcludesOther, AllOff, Other, Active
  <2>8. lastActive' = "NONE" => \A x \in Active : plugAge'[x] >= Gap
    BY <1>1, <2>5, <2>6 DEF GapInv, AllOff, Other, Active
  <2> QED BY <1>2, <2>1, <2>3, <2>6, <2>7, <2>8 DEF GapInv, Active
<1>6. CASE sw.to \in Active
  <2>1. Target = sw.to /\ Other(sw.to) # sw.to /\ Other(sw.to) \in Active
    BY <1>1, <1>2, <1>6, TargetIs DEF Active, Other
  <2>2. plugAge[Other(sw.to)] \in 0..MaxAge /\ plugAge[Other(sw.to)] >= Gap
        /\ plugAge'[Other(sw.to)] = Older(plugAge[Other(sw.to)], d)
    BY <1>4, <1>6, <2>1 DEF GapInv
  <2>3. plugAge'[Other(sw.to)] >= Gap
    BY <1>1, <2>2, OlderKeeps
  <2> QED BY <1>2, <1>6, <2>3 DEF GapInv, LastDriven, Active
<1> QED BY <1>1, <1>5, <1>6 DEF ActTypeOK

LEMMA GapNext ==
  ASSUME OneCleanRun, ActInv, GapInv, [ActNext]_actVars
  PROVE  GapInv'
<1>0. ActTypeOK
  BY DEF ActInv
<1>1. ASSUME NEW d \in Durations, NEW since \in 0..d, NEW outcome \in Outcomes,
             SwitchProceeds(d, since, outcome) \/ SwitchFails(d, since, outcome)
      PROVE  GapInv'
  <2>1. outcome \in {"ok", "lost"} /\ ~AllDone(outcome) /\ Busy /\ Command(d, since, outcome)
        /\ TimePasses(d) /\ UNCHANGED <<action, lastActive>>
    BY <1>0, <1>1 DEF OneCleanRun, SwitchProceeds, SwitchFails, MayContinue, AllDone
  <2>2. sw'.to = sw.to \/ sw'.to = "IDLE"
    <3>1. CASE sw' = [sw EXCEPT !.stage = 2, !.first = outcome, !.lag = d]
      BY <1>0, <3>1 DEF ActTypeOK
    <3>2. CASE sw' = NoSwitch
      BY <3>2 DEF NoSwitch
    <3> QED BY <1>1, <3>1, <3>2 DEF SwitchProceeds, SwitchFails
  <2> QED BY <2>1, <2>2, GapCommand
<1>2. ASSUME NEW d \in Durations, NEW since \in 0..d, NEW outcome \in Outcomes,
             SwitchSucceeds(d, since, outcome)
      PROVE  GapInv'
  BY <1>2, GapSucceeds, EnvironmentAssumption
<1>3. CASE Tick
  BY <1>0, <1>3, GapTick
<1>4. CASE Initialize \/ ForceIdle
  <2>1. CASE Initialize
    BY <2>1 DEF Initialize, BeginSwitch, NoSwitch, GapInv, LastDriven, AllOff, modelVars, plugVars, Active
  <2>2. CASE ForceIdle
    BY <2>2 DEF ForceIdle, BeginSwitch, NoSwitch, GapInv, LastDriven, AllOff, modelVars, plugVars, Active
  <2> QED BY <1>4, <2>1, <2>2
<1>5. CASE \E e \in Efforts : SetEffort(e)
  BY <1>5 DEF SetEffort, GapInv, LastDriven, AllOff, plugVars
<1>6. ASSUME NEW d \in 0..MaxAge, Wait(d)
      PROVE  GapInv'
  BY <1>0, <1>6, GapAges, AgeAssumption DEF Wait, TimePasses
<1>7. CASE Die
  BY <1>7 DEF Die, GapInv, LastDriven, AllOff, plugVars
<1>8. ~Restart /\ \A d \in Durations : \A since \in 0..d, outcome \in CommandOutcomes :
                    ~Abandon(d, since, outcome)
  BY DEF OneCleanRun, Restart, Abandon
<1>9. CASE UNCHANGED actVars
  BY <1>9 DEF actVars, modelVars, plugVars, GapInv, LastDriven, AllOff
<1> QED
  BY <1>1, <1>2, <1>3, <1>4, <1>5, <1>6, <1>7, <1>8, <1>9 DEF ActNext, Durations

LEMMA GappedStep ==
  ASSUME OneCleanRun, ActInv, GapInv, [ActNext]_actVars
  PROVE  [Gapped!Next]_(Gapped!ivars)
<1> USE DEF Gapped!Plugs, Gapped!ivars, Active
<1>1. CASE plug' = plug /\ plugAge' = plugAge
  BY <1>1
<1>2. ASSUME NEW d \in 0..MaxAge, plug' = plug, plugAge' = PlugsOlder(d)
      PROVE  Gapped!Next
  BY <1>2 DEF Gapped!Next, Gapped!Elapse, PlugsOlder, Older, Gapped!Aged
<1>3. ASSUME Busy, NEW d \in Durations, NEW since \in 0..d, NEW outcome \in CommandOutcomes,
             Command(d, since, outcome)
      PROVE  Gapped!Next
  <2>1. ActTypeOK /\ SwitchInv /\ d \in 0..MaxAge /\ since \in 0..d /\ d - since \in Nat
    BY AgeAssumption, TuningAssumption DEF ActInv, Durations
  <2>2. CASE plug' = plug /\ plugAge' = PlugsOlder(d)
    BY <1>2, <2>1, <2>2
  <2>3. CASE /\ plug[Target] # Commanded
             /\ plug' = [plug EXCEPT ![Target] = Commanded]
             /\ plugAge' = [y \in Active |-> IF y = Target THEN since ELSE Older(plugAge[y], d)]
    <3>1. /\ Target \in Active /\ Commanded \in {"on", "off"}
          /\ (Commanded = "on" => Target = sw.to /\ sw.to \in Active /\ sw.stage = 2)
      BY <2>1, TargetIs DEF ActTypeOK
    <3>2. Gapped!Change(Target, Commanded, d, since)
      BY <2>3, <3>1 DEF Gapped!Change, Older, Gapped!Aged
    <3>3. CASE Commanded = "off"
      BY <2>1, <3>1, <3>2, <3>3 DEF Gapped!Next, Gapped!TurnOff
    <3>4. CASE Commanded = "on"
      <4>1. Gapped!Other(Target) = Other(sw.to) /\ Other(sw.to) \in Active
        BY <3>1, <3>4 DEF Other, Gapped!Other
      <4>2. plug[Gapped!Other(Target)] = "off"
        BY <2>1, <3>1, <3>4, <4>1 DEF SwitchInv
      <4>3. plugAge[Other(sw.to)] \in 0..MaxAge /\ plugAge[Other(sw.to)] >= Gap
        BY <2>1, <3>1, <3>4, <4>1 DEF ActTypeOK, GapInv
      <4>4. Older(plugAge[Other(sw.to)], d - since) >= Gap
        BY <2>1, <4>3, OlderKeeps
      <4>5. Gapped!Aged(plugAge[Gapped!Other(Target)], d - since) >= ReverseIdle - 2 * ChipTimeout
        BY <4>1, <4>4 DEF Gapped!Aged, Older, Gap
      <4>6. Gapped!TurnOn(Target, d, since)
        BY <3>2, <3>4, <4>2, <4>5 DEF Gapped!TurnOn
      <4> QED BY <2>1, <3>1, <4>6 DEF Gapped!Next
    <3> QED BY <3>1, <3>3, <3>4
  <2> QED BY <1>3, <2>1, <2>2, <2>3, CommandCases
<1> QED BY <1>1, <1>2, <1>3, PlugSteps

\* In a run that is not interrupted in a command, with no command that takes
\* effect unacknowledged, a plug is turned on only when the other one has
\* been off for reverse_idle_s less two chip_timeout_s.
THEOREM ImplementsGap ==
  ASSUME OneCleanRun
  PROVE  ActSpec => PlugsGapped
<1>1. ActInit => Gapped!Init /\ GapInv
  BY GapInit, EnvironmentAssumption DEF ActInit, Gapped!Init, Gapped!Plugs, Active
<1>2. ActInv /\ GapInv /\ [ActNext]_actVars => GapInv'
  BY GapNext
<1>3. ActInv /\ GapInv /\ [ActNext]_actVars => [Gapped!Next]_(Gapped!ivars)
  BY GappedStep
<1> QED BY <1>1, <1>2, <1>3, ActInvariant, PTL DEF ActSpec, PlugsGapped, Gapped!Spec
=============================================================================
