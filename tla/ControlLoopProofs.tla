------------------------- MODULE ControlLoopProofs -------------------------
(***************************************************************************)
(* ControlLoop drives the actuator only through its operations, so that    *)
(* what ActuatorProofs says of the actuator holds of the running program.  *)
(***************************************************************************)
EXTENDS ControlLoop, ActuatorProofs

\* Every step of the loop is an operation of the actuator, or leaves it alone.
LEMMA LoopStepActs ==
  ASSUME [Next]_vars
  PROVE  [ActNext]_actVars
<1>1. ASSUME NEW label, TickThen(label)
      PROVE  [ActNext]_actVars
  BY <1>1 DEF TickThen, StayAll, ActNext
<1>2. CASE Start \/ LoopTop \/ Decide \/ Act \/ Settle \/ Reschedule \/ Finally \/ Exit
  BY <1>1, <1>2 DEF Start, LoopTop, Decide, Act, Settle, Reschedule, Finally, Exit,
                    StayAll, ActNext
<1>3. ASSUME NEW d \in Nat, d <= 2 * ChipTimeout \/ d <= MaxAge, Wait(d)
      PROVE  [ActNext]_actVars
  <2>1. d \in 0..MaxAge
    BY <1>3, LoopAssumption, AgeAssumption, TuningAssumption
  <2> QED BY <1>3, <2>1 DEF ActNext
<1>4. CASE Sense \/ ReadGravity \/ Sleep \/ Down
  <2>1. CASE Sense
    <3>1. PICK d \in ReadsTake : Wait(d)
      BY <2>1 DEF Sense
    <3> QED BY <1>3, <3>1, TuningAssumption DEF ReadsTake
  <2>2. CASE ReadGravity
    <3>1. PICK d \in 0..ChipTimeout : Wait(d)
      BY <2>2 DEF ReadGravity
    <3> QED BY <1>3, <3>1, TuningAssumption
  <2>3. CASE Sleep
    BY <1>3, <2>3, LoopAssumption, AgeAssumption DEF Sleep
  <2>4. CASE Down
    <3>1. PICK d \in 1..MaxAge : Wait(d)
      BY <2>4 DEF Down
    <3> QED BY <1>3, <3>1, AgeAssumption
  <2> QED BY <1>4, <2>1, <2>2, <2>3, <2>4
<1>5. ASSUME NEW d \in 0..ChipTimeout, NEW since \in 0..d, NEW outcome \in Outcomes,
             SwitchStep(d, since, outcome)
      PROVE  [ActNext]_actVars
  BY <1>5 DEF SwitchStep, ActNext
<1>6. ASSUME NEW d \in 0..ChipTimeout, NEW since \in 0..d, NEW outcome \in CommandOutcomes,
             SwitchAbandoned(d, since, outcome)
      PROVE  [ActNext]_actVars
  BY <1>6 DEF SwitchAbandoned, ActNext
<1>7. CASE Interrupt \/ Crash \/ RestartLoop
  BY <1>7 DEF Interrupt, Crash, RestartLoop, StayAll, ActNext
<1>8. CASE UNCHANGED vars
  BY <1>8 DEF vars
<1>9. CASE LoopStep
  BY <1>2, <1>4, <1>5, <1>9 DEF LoopStep
<1>10. CASE FaultStep
  BY <1>4, <1>6, <1>7, <1>10 DEF FaultStep
<1> QED BY <1>8, <1>9, <1>10 DEF Next

\* The control loop is an actuator: it implements ActSpec.
THEOREM LoopDrivesActuator == Spec => ActSpec
<1>1. Init => ActInit
  BY DEF Init
<1>2. [Next]_vars => [ActNext]_actVars
  BY LoopStepActs
<1> QED BY <1>1, <1>2, PTL DEF Spec, ActSpec

\* In the running program heater and cooler are never on together.
THEOREM LoopInterlock == Spec => []Interlock
BY LoopDrivesActuator, InterlockHolds, PTL

\* The running program's plugs obey the interlock as seen from outside.
THEOREM LoopImplementsInterlock == Spec => PlugsInterlocked
BY LoopDrivesActuator, ImplementsInterlock, PTL

\* The running program keeps the guaranteed part of reverse_idle_s.
THEOREM LoopImplementsGap ==
  ASSUME OneCleanRun
  PROVE  Spec => PlugsGapped
BY LoopDrivesActuator, ImplementsGap, PTL

\* The running program turns a plug on only for a pulse its effort asks for.
THEOREM LoopPulsesJustified == Spec => PulsesAskedFor
BY LoopDrivesActuator, PulsesJustified, PTL

-----------------------------------------------------------------------------
(* Type correctness of the loop *)

LEMMA SoonerType ==
  ASSUME NEW a \in 0..Period, NEW d \in Nat
  PROVE  (IF a > d THEN a - d ELSE 0) \in 0..Period
BY LoopAssumption, TuningAssumption

\* Every variable of the control loop keeps its type.
THEOREM LoopTypeCorrect == Spec => []TypeOK
<1> DEFINE LoopType == pc \in LoopPCs /\ back \in LoopPCs /\ dueIn \in 0..Period
<1>1. Init => LoopType
  BY LoopAssumption DEF Init, LoopPCs, InTry
<1>2. LoopType /\ [Next]_vars => LoopType'
  <2> SUFFICES ASSUME LoopType, [Next]_vars PROVE LoopType'
    OBVIOUS
  <2> USE DEF LoopPCs, InTry, Goto, Call
  <2>1. ASSUME NEW label \in LoopPCs, TickThen(label) PROVE LoopType'
    BY <2>1 DEF TickThen
  <2>2. CASE Start \/ LoopTop \/ Act \/ Settle
    BY <2>1, <2>2 DEF Start, LoopTop, Act, Settle
  <2>3. \A d \in Nat : Sooner(d) \in 0..Period
    BY SoonerType DEF Sooner
  <2>4. CASE Sense \/ ReadGravity \/ Sleep
    <3>1. ReadsTake \subseteq Nat /\ 0..ChipTimeout \subseteq Nat /\ TickS \in Nat
      BY LoopAssumption, TuningAssumption DEF ReadsTake
    <3> QED BY <2>3, <2>4, <3>1 DEF Sense, ReadGravity, Sleep
  <2>5. CASE Decide \/ Finally \/ Exit \/ Interrupt \/ Crash
    BY <2>5 DEF Decide, Finally, Exit, Interrupt, Crash
  <2>6. CASE Reschedule \/ RestartLoop
    BY <2>6, LoopAssumption DEF Reschedule, RestartLoop
  <2>7. CASE Down \/ UNCHANGED vars
    BY <2>7 DEF Down, vars, loopVars
  <2>8. ASSUME NEW d \in 0..ChipTimeout, NEW since \in 0..d, NEW outcome \in CommandOutcomes,
               SwitchStep(d, since, outcome) \/ SwitchAbandoned(d, since, outcome)
        PROVE  LoopType'
    <3>1. d \in Nat
      BY TuningAssumption
    <3> QED BY <2>3, <2>8, <3>1 DEF SwitchStep, SwitchAbandoned
  <2>9. CASE LoopStep
    BY <2>2, <2>4, <2>5, <2>6, <2>8, <2>9, EnvironmentAssumption DEF LoopStep
  <2>10. CASE FaultStep
    BY <2>5, <2>6, <2>7, <2>8, <2>10 DEF FaultStep
  <2> QED BY <2>7, <2>9, <2>10 DEF Next
<1>3. ActTypeOK /\ LoopType => TypeOK
  BY DEF TypeOK
<1> QED BY <1>1, <1>2, <1>3, LoopDrivesActuator, TypeCorrect, PTL DEF Spec

-----------------------------------------------------------------------------
(* How old the effort of an output may be, and the end of a run *)

\* Every command is done and acknowledged; the process may be killed between them.
Reliable == Outcomes \subseteq {"ok"} /\ "raise" \notin Faults

\* The largest age of the effort at each place of run() while an output is on
Limit(label) ==
  StaleTimeout + CASE label \in {"sense", "gravity"} -> 2 * ChipTimeout
                   [] label = "settle" -> 3 * ChipTimeout
                   [] label \in {"decide", "resched", "sleep"} -> 4 * ChipTimeout
                   [] label = "act" -> 0
                   [] OTHER -> 4 * ChipTimeout + TickS

\* ... and in a switch: one that turns on begins with a fresh effort.
SwitchLimit ==
  (IF sw.to = "IDLE" THEN Limit("loop") ELSE StaleTimeout)
    + (IF sw.stage = 1 THEN 0 ELSE ChipTimeout)

\* Where a tick goes on
AfterTick == {"sense", "sleep", "gravity", "resched"}

PlaceInv ==
  /\ pc = "switch" <=> Busy
  /\ pc \in InTry \cup {"finally", "exit"} => phase = "ready"
  /\ pc = "exit" => action = "IDLE"
  /\ pc = "exited" => phase = "dead" /\ ("crash" \in Faults \/ AllOff)

CallInv ==
  Busy =>
    /\ sw.first = "ok"
    /\ back \in AfterTick \cup {"loop", "exit"}
    /\ sw.to \in Active => back \in AfterTick
    /\ phase = "ready" => effortAge <= SwitchLimit

AgeInv == ~Busy /\ phase = "ready" /\ action \in Active => effortAge <= Limit(pc)

TimeInv == PlaceInv /\ CallInv /\ AgeInv

LEMMA OlderBound ==
  ASSUME NEW a \in 0..MaxAge, NEW d \in Nat
  PROVE  Older(a, d) <= a + d
BY AgeAssumption DEF Older

\* No place allows more than the top of the loop, and after a tick two commands fit.
LEMMA LimitFacts ==
  /\ \A label \in LoopPCs : Limit(label) \in Nat /\ Limit(label) <= Limit("loop")
  /\ \A label \in AfterTick : StaleTimeout + 2 * ChipTimeout <= Limit(label)
  /\ Limit("sense") = StaleTimeout + 2 * ChipTimeout
  /\ Limit("gravity") = StaleTimeout + 2 * ChipTimeout
  /\ Limit("settle") = StaleTimeout + 3 * ChipTimeout
  /\ Limit("decide") = StaleTimeout + 4 * ChipTimeout
  /\ Limit("resched") = StaleTimeout + 4 * ChipTimeout
  /\ Limit("sleep") = StaleTimeout + 4 * ChipTimeout
  /\ Limit("act") = StaleTimeout
  /\ Limit("loop") = StaleTimeout + 4 * ChipTimeout + TickS
  /\ Limit("finally") = Limit("loop")
  /\ StaleTimeout \in Nat /\ ChipTimeout \in Nat /\ TickS \in Nat
BY TuningAssumption, LoopAssumption DEF Limit, LoopPCs, InTry, AfterTick

\* tick() leaves an output on only if the effort is fresh.
LEMMA TickTime ==
  ASSUME ActTypeOK, SwitchInv, TimeInv, pc \in {"loop", "act", "settle"},
         NEW label \in AfterTick, TickThen(label)
  PROVE  TimeInv'
<1>1. phase = "ready" /\ ~Busy /\ effortAge \in Nat /\ pc \in LoopPCs
  BY AgeAssumption DEF TimeInv, PlaceInv, InTry, Busy, ActTypeOK, LoopPCs
<1>2. Wanted \in Active => effortAge <= StaleTimeout
  BY DEF Wanted, Requested, DutyOn, Fresh, Active
<1>3. action \in Active => effortAge <= Limit("loop")
  <2>1. action \in Active => effortAge <= Limit(pc)
    BY <1>1 DEF TimeInv, AgeInv
  <2> QED BY <1>1, <2>1, LimitFacts
<1>4. CASE Tick /\ Call(label)
  <2>1. /\ sw' = [NoSwitch EXCEPT !.op = "tick", !.to = Wanted]
        /\ UNCHANGED <<modelVars, plugVars>> /\ Wanted # action
        /\ pc' = "switch" /\ back' = label
    BY <1>4 DEF Tick, BeginSwitch, Call
  <2>2. sw'.op = "tick" /\ sw'.to = Wanted /\ sw'.stage = 1 /\ sw'.first = "ok"
    BY <2>1 DEF NoSwitch
  <2>3. Busy' /\ phase' = phase /\ effortAge' = effortAge
    BY <2>1, <2>2 DEF Busy, modelVars
  <2>4. Wanted = "IDLE" => action \in Active
    BY <2>1 DEF ActTypeOK
  <2>5. Wanted \in Active \cup {"IDLE"}
    BY WantedFromIdle, <2>1
  <2>6. effortAge' <= SwitchLimit'
    <3>1. Wanted = "IDLE" => effortAge' <= Limit("loop")
      BY <1>3, <2>3, <2>4
    <3>2. Wanted # "IDLE" => effortAge' <= StaleTimeout
      BY <1>2, <2>3, <2>5
    <3>3. SwitchLimit' = IF Wanted = "IDLE" THEN Limit("loop") ELSE StaleTimeout
      BY <2>2, LimitFacts DEF SwitchLimit, Limit
    <3> QED BY <3>1, <3>2, <3>3
  <2>7. PlaceInv'
    BY <2>1, <2>3 DEF PlaceInv, InTry
  <2> QED BY <2>1, <2>2, <2>3, <2>6, <2>7 DEF TimeInv, CallInv, AgeInv
<1>5. CASE Wanted = action /\ StayAll /\ Goto(label)
  <2>1. UNCHANGED actVars /\ pc' = label
    BY <1>5 DEF StayAll, Goto
  <2>2. ~Busy' /\ phase' = "ready" /\ action' = action /\ effortAge' = effortAge
    BY <1>1, <2>1 DEF actVars, modelVars, Busy
  <2>3. PlaceInv'
    BY <2>1, <2>2 DEF PlaceInv, AfterTick, InTry
  <2>4. action \in Active => effortAge <= Limit(label)
    <3>1. StaleTimeout <= Limit(label) /\ Limit(label) \in Nat
      BY LimitFacts DEF AfterTick, LoopPCs, InTry
    <3>2. action \in Active => effortAge <= StaleTimeout
      BY <1>2, <1>5
    <3> QED BY <1>1, <3>1, <3>2, LimitFacts
  <2>5. AgeInv'
    BY <2>1, <2>2, <2>4 DEF AgeInv, Limit
  <2> QED BY <2>2, <2>3, <2>5 DEF TimeInv, CallInv
<1> QED BY <1>4, <1>5 DEF TickThen

\* A read, a sleep: the effort gets as much older as it takes.
LEMMA WaitTime ==
  ASSUME ActTypeOK, TimeInv, NEW d \in Nat, Wait(d), NEW label \in InTry, pc \in InTry,
         pc' = label, Limit(pc) + d <= Limit(label)
  PROVE  TimeInv'
<1>1. phase = "ready" /\ ~Busy /\ effortAge \in 0..MaxAge
  BY DEF TimeInv, PlaceInv, ActTypeOK, Wait
<1>2. ~Busy' /\ phase' = "ready" /\ action' = action /\ effortAge' = Older(effortAge, d)
  BY <1>1 DEF Wait, TimePasses, Busy
<1>3. PlaceInv'
  BY <1>2 DEF PlaceInv, InTry
<1>4. effortAge' <= effortAge + d /\ effortAge' \in Nat /\ effortAge \in Nat
  BY <1>1, <1>2, OlderBound, OlderType, AgeAssumption
<1>5. Limit(pc) \in Nat /\ Limit(label) \in Nat
  BY LimitFacts DEF LoopPCs
<1>6. action \in Active => effortAge <= Limit(pc)
  BY <1>1 DEF TimeInv, AgeInv
<1>7. action \in Active => effortAge' <= Limit(label)
  BY <1>4, <1>5, <1>6
<1>8. AgeInv'
  BY <1>2, <1>7 DEF AgeInv, Limit
<1> QED BY <1>2, <1>3, <1>8 DEF TimeInv, CallInv

\* A switch that began in time ends in time.
LEMMA SwitchTime ==
  ASSUME Reliable, ActTypeOK, SwitchInv, TimeInv, NEW d \in Durations, NEW since \in 0..d,
         NEW outcome \in Outcomes, SwitchStep(d, since, outcome)
  PROVE  TimeInv'
<1>1. outcome = "ok"
  BY DEF Reliable
<1>2. /\ Busy /\ d \in Nat /\ d <= ChipTimeout
      /\ effortAge \in 0..MaxAge /\ sw.stage \in {1, 2}
      /\ sw.to \in Active \cup {"IDLE"} /\ effortAge \in Nat
  BY AgeAssumption, TuningAssumption
  DEF SwitchStep, TimeInv, PlaceInv, ActTypeOK, Durations
<1>3. /\ sw.first = "ok" /\ back \in AfterTick \cup {"loop", "exit"}
      /\ sw.to \in Active => back \in AfterTick
      /\ phase = "ready" => effortAge <= SwitchLimit
  BY <1>2 DEF TimeInv, CallInv
<1>4. Older(effortAge, d) \in Nat /\ Older(effortAge, d) <= effortAge + d
  <2>1. Older(effortAge, d) \in 0..MaxAge
    BY <1>2, OlderType
  <2>2. Older(effortAge, d) <= effortAge + d
    BY <1>2, OlderBound
  <2> QED BY <2>1, <2>2, AgeAssumption
<1>5. CASE SwitchProceeds(d, since, outcome)
  <2>1. /\ sw' = [sw EXCEPT !.stage = 2, !.first = "ok", !.lag = d]
        /\ sw.stage = 1 /\ phase' = phase /\ effortAge' = Older(effortAge, d)
        /\ back' = back /\ pc' = "switch"
    BY <1>1, <1>5, <1>2
    DEF SwitchProceeds, MayContinue, TimePasses, SwitchStep, SwitchSucceeds, SwitchFails, AllDone
  <2>2. sw'.op = sw.op /\ sw'.to = sw.to /\ sw'.stage = 2 /\ sw'.first = "ok"
    BY <2>1 DEF ActTypeOK
  <2>3. Busy'
    BY <1>2, <2>2 DEF Busy
  <2>4. SwitchLimit' = SwitchLimit + ChipTimeout
    BY <2>1, <2>2, LimitFacts DEF SwitchLimit, Limit
  <2>5. SwitchLimit \in Nat
    BY <2>1, LimitFacts DEF SwitchLimit
  <2>6. phase' = "ready" => effortAge' <= SwitchLimit'
    BY <1>2, <1>3, <1>4, <2>1, <2>4, <2>5, LimitFacts
  <2>7. PlaceInv'
    BY <2>1, <2>3 DEF PlaceInv, InTry
  <2> QED BY <1>3, <2>1, <2>2, <2>3, <2>6, <2>7 DEF TimeInv, CallInv, AgeInv
<1>6. CASE SwitchSucceeds(d, since, outcome)
  <2>1. /\ sw' = NoSwitch /\ phase' = "ready" /\ action' = sw.to
        /\ effortAge' = Older(effortAge, d) /\ sw.stage = 2 /\ pc' = back
    BY <1>1, <1>6, <1>2
    DEF SwitchSucceeds, AllDone, SwitchStep, SwitchProceeds, MayContinue, SwitchFails
  <2>2. ~Busy'
    BY <2>1 DEF Busy, NoSwitch
  <2>3. PlaceInv'
    BY <1>2, <1>3, <2>1, <2>2 DEF PlaceInv, AfterTick, InTry
  <2>4. ASSUME sw.to \in Active PROVE effortAge' <= Limit(back)
    <3>1. phase = "ready"
      BY <1>2, <2>4 DEF SwitchInv, Active, ActTypeOK
    <3>2. effortAge <= StaleTimeout + ChipTimeout
      BY <1>3, <2>1, <2>4, <3>1 DEF SwitchLimit, Active
    <3>3. back \in AfterTick /\ Limit(back) \in Nat
      BY <1>3, <2>4, LimitFacts DEF AfterTick, LoopPCs, InTry
    <3> QED BY <1>2, <1>4, <2>1, <3>2, <3>3, LimitFacts
  <2>5. AgeInv'
    BY <2>1, <2>4 DEF AgeInv, Limit
  <2> QED BY <2>2, <2>3, <2>5 DEF TimeInv, CallInv
<1>7. ~SwitchFails(d, since, outcome)
  BY <1>1, <1>2, <1>3 DEF SwitchFails, MayContinue, AllDone
<1> QED BY <1>5, <1>6, <1>7 DEF SwitchStep

\* What does not touch the clock: asking for an effort, leaving, dying.
LEMMA InstantTime ==
  ASSUME ActTypeOK, SwitchInv, IdleOff, TimeInv,
         Start \/ Decide \/ Reschedule \/ Finally \/ Exit \/ Interrupt \/ Crash
  PROVE  TimeInv'
<1>1. effortAge \in Nat /\ action \in Active \cup {"IDLE"}
  BY AgeAssumption DEF ActTypeOK
<1>2. CASE Start
  <2>1. /\ phase' = "new" /\ sw' = [NoSwitch EXCEPT !.op = "init", !.to = "IDLE"]
        /\ pc' = "switch" /\ back' = "loop"
    BY <1>2 DEF Start, Initialize, BeginSwitch, modelVars, Call
  <2>2. sw'.op = "init" /\ sw'.to = "IDLE" /\ sw'.first = "ok"
    BY <2>1 DEF NoSwitch
  <2> QED BY <2>1, <2>2 DEF TimeInv, PlaceInv, CallInv, AgeInv, Busy, InTry, Active
<1>3. CASE Decide
  <2>1. /\ phase' = "ready" /\ UNCHANGED <<action, sw>> /\ ~Busy /\ effortAge' = 0 /\ pc' = "act"
    BY <1>3 DEF Decide, SetEffort, Goto
  <2>2. 0 <= Limit("act")
    BY LimitFacts
  <2> QED BY <2>1, <2>2 DEF TimeInv, PlaceInv, CallInv, AgeInv, Busy, InTry, Limit
<1>4. CASE Finally /\ ForceIdle
  <2>1. /\ phase' = "ready" /\ phase = "ready" /\ ~Busy /\ action # "IDLE"
        /\ effortAge' = effortAge
        /\ sw' = [NoSwitch EXCEPT !.op = "force", !.to = "IDLE"]
        /\ pc' = "switch" /\ back' = "exit" /\ pc = "finally"
    BY <1>4 DEF Finally, ForceIdle, BeginSwitch, modelVars, Call
  <2>2. sw'.op = "force" /\ sw'.to = "IDLE" /\ sw'.first = "ok" /\ sw'.stage = 1
    BY <2>1 DEF NoSwitch
  <2>3. effortAge <= Limit("loop")
    BY <1>1, <2>1, LimitFacts DEF TimeInv, AgeInv
  <2>4. SwitchLimit' = Limit("loop")
    BY <2>2, LimitFacts DEF SwitchLimit, Limit
  <2> QED BY <2>1, <2>2, <2>3, <2>4 DEF TimeInv, PlaceInv, CallInv, AgeInv, Busy, InTry, Active
<1>5. CASE Reschedule \/ Interrupt \/ (Finally /\ ~ForceIdle)
  <2>1. /\ UNCHANGED actVars /\ pc \in InTry \cup {"finally"}
        /\ \/ pc = "resched" /\ pc' = "sleep"
           \/ pc \in InTry /\ pc' = "finally"
           \/ pc = "finally" /\ pc' = "exit" /\ action = "IDLE"
    BY <1>5 DEF Reschedule, Interrupt, Finally, Goto, StayAll, InTry
  <2>2. /\ ~Busy' /\ phase = "ready" /\ phase' = "ready" /\ ~Busy
        /\ action' = action /\ effortAge' = effortAge
    BY <2>1 DEF TimeInv, PlaceInv, Busy, actVars, modelVars, InTry
  <2>3. PlaceInv'
    BY <2>1, <2>2 DEF PlaceInv, InTry
  <2>4. action \in Active => effortAge <= Limit(pc')
    <3>1. action \in Active => effortAge <= Limit(pc)
      BY <2>2 DEF TimeInv, AgeInv
    <3>2. CASE pc = "resched" /\ pc' = "sleep"
      BY <3>1, <3>2, LimitFacts
    <3>3. CASE pc \in InTry /\ pc' = "finally"
      <4>1. Limit(pc) \in Nat /\ Limit(pc) <= Limit("finally")
        BY <3>3, LimitFacts DEF LoopPCs
      <4> QED BY <1>1, <3>1, <3>3, <4>1, LimitFacts
    <3> QED BY <2>1, <3>2, <3>3 DEF Active
  <2>5. AgeInv'
    BY <2>2, <2>4 DEF AgeInv, Limit
  <2> QED BY <2>2, <2>3, <2>5 DEF TimeInv, CallInv
<1>6. CASE Exit \/ Crash
  <2>1. /\ phase' = "dead" /\ sw' = sw /\ plug' = plug /\ ~Busy /\ pc' = "exited" /\ phase = "ready"
        /\ pc = "exit" \/ "crash" \in Faults
    BY <1>6 DEF Exit, Crash, Die, Goto, plugVars
  <2>2. "crash" \in Faults \/ AllOff'
    BY <2>1 DEF TimeInv, PlaceInv, IdleOff, AllOff
  <2>3. ~Busy'
    BY <2>1 DEF Busy
  <2>4. PlaceInv'
    BY <2>1, <2>2, <2>3 DEF PlaceInv, InTry
  <2> QED BY <2>1, <2>3, <2>4 DEF TimeInv, CallInv, AgeInv
<1> QED BY <1>2, <1>3, <1>4, <1>5, <1>6

LEMMA TimeNext ==
  ASSUME Reliable, ActInv, IdleOff, TimeInv, [Next]_vars
  PROVE  TimeInv'
<1>1. ActTypeOK /\ SwitchInv
  BY DEF ActInv
<1>2. CASE LoopTop \/ Act \/ Settle
  BY <1>1, <1>2, TickTime DEF LoopTop, Act, Settle, AfterTick
<1>3. CASE Start \/ Decide \/ Reschedule \/ Finally \/ Exit \/ Interrupt \/ Crash
  BY <1>1, <1>3, InstantTime
<1>4. CASE Sense
  <2>1. PICK d \in ReadsTake : Wait(d)
    BY <1>4 DEF Sense
  <2>2. d \in Nat /\ d <= 2 * ChipTimeout
    BY LimitFacts DEF ReadsTake
  <2>3. pc = "sense" /\ pc' \in {"decide", "resched"}
    BY <1>4 DEF Sense, Goto
  <2>4. Limit(pc) + d <= Limit(pc')
    BY <2>2, <2>3, LimitFacts
  <2> QED BY <1>1, <2>1, <2>2, <2>3, <2>4, WaitTime DEF InTry
<1>5. CASE ReadGravity
  <2>1. PICK d \in 0..ChipTimeout : Wait(d)
    BY <1>5 DEF ReadGravity
  <2>2. d \in Nat /\ d <= ChipTimeout
    BY LimitFacts
  <2>3. pc = "gravity" /\ pc' = "settle"
    BY <1>5 DEF ReadGravity, Goto
  <2>4. Limit(pc) + d <= Limit(pc')
    BY <2>2, <2>3, LimitFacts
  <2> QED BY <1>1, <2>1, <2>2, <2>3, <2>4, WaitTime DEF InTry
<1>6. CASE Sleep
  <2>1. Wait(TickS) /\ pc = "sleep" /\ pc' = "loop"
    BY <1>6 DEF Sleep, Goto
  <2>2. Limit(pc) + TickS <= Limit(pc') /\ TickS \in Nat
    BY <2>1, LimitFacts
  <2> QED BY <1>1, <2>1, <2>2, WaitTime DEF InTry
<1>7. ASSUME NEW d \in 0..ChipTimeout, NEW since \in 0..d, NEW outcome \in Outcomes,
             SwitchStep(d, since, outcome)
      PROVE  TimeInv'
  BY <1>1, <1>7, SwitchTime DEF Durations
<1>8. ASSUME NEW d \in 0..ChipTimeout, NEW since \in 0..d, NEW outcome \in CommandOutcomes,
             SwitchAbandoned(d, since, outcome)
      PROVE  TimeInv'
  <2>1. "crash" \in Faults /\ phase' = "dead" /\ sw' = NoSwitch /\ pc' = "exited"
    BY <1>8 DEF SwitchAbandoned, Abandon, Reliable
  <2>2. ~Busy'
    BY <2>1 DEF Busy, NoSwitch
  <2>3. PlaceInv'
    BY <2>1, <2>2 DEF PlaceInv, InTry
  <2> QED BY <2>1, <2>2, <2>3 DEF TimeInv, CallInv, AgeInv
<1>9. CASE Down
  <2>1. /\ pc = "exited" /\ pc' = pc /\ UNCHANGED <<phase, plug, sw>> /\ ~Busy
    BY <1>9 DEF Down, Wait, loopVars
  <2>2. ~Busy' /\ phase' = "dead"
    BY <2>1 DEF Busy, TimeInv, PlaceInv
  <2>3. PlaceInv'
    BY <2>1, <2>2 DEF TimeInv, PlaceInv, InTry, AllOff
  <2> QED BY <2>2, <2>3 DEF TimeInv, CallInv, AgeInv
<1>10. CASE RestartLoop
  <2>1. phase' = "new" /\ pc' = "start" /\ sw' = sw /\ pc = "exited"
    BY <1>10 DEF RestartLoop, Restart
  <2> QED BY <2>1 DEF TimeInv, PlaceInv, CallInv, AgeInv, Busy, InTry
<1>11. CASE UNCHANGED vars
  BY <1>11 DEF vars, actVars, modelVars, plugVars, loopVars, TimeInv, PlaceInv, CallInv, AgeInv,
               Busy, AllOff, SwitchLimit, Limit
<1> QED
  BY <1>2, <1>3, <1>4, <1>5, <1>6, <1>7, <1>8, <1>9, <1>10, <1>11 DEF Next, LoopStep, FaultStep

LEMMA TimeInvariant ==
  ASSUME Reliable
  PROVE  Spec => [](TimeInv /\ ActInv /\ IdleOff)
<1>1. Init => TimeInv /\ IdleOff
  BY DEF Init, ActInit, TimeInv, PlaceInv, CallInv, AgeInv, IdleOff, Busy, NoSwitch, InTry
<1>2. ActInv /\ IdleOff /\ [ActNext]_actVars => IdleOff'
  BY IdleOffNext DEF Reliable, Acked
<1>3. ActInv /\ IdleOff /\ TimeInv /\ [Next]_vars => TimeInv'
  BY TimeNext
<1>4. [Next]_vars => [ActNext]_actVars
  BY LoopStepActs
<1> QED BY <1>1, <1>2, <1>3, <1>4, LoopDrivesActuator, ActInvariant, PTL DEF Spec

\* Between commands, and before each of them, the effort of an output is at most so old.
OutputAged ==
  phase = "ready" /\ (Busy \/ \E x \in Active : plug[x] = "on")
    => effortAge <= StaleTimeout + 5 * ChipTimeout + TickS

LEMMA OutputAge == TimeInv /\ ActInv /\ IdleOff => OutputAged
<1> SUFFICES ASSUME TimeInv, ActInv, IdleOff, phase = "ready",
                    Busy \/ \E x \in Active : plug[x] = "on"
             PROVE  effortAge <= StaleTimeout + 5 * ChipTimeout + TickS
  BY DEF OutputAged
<1>1. effortAge \in Nat /\ sw.stage \in {1, 2}
  BY AgeAssumption DEF ActInv, ActTypeOK
<1>2. CASE Busy
  <2>1. effortAge <= SwitchLimit
    BY <1>2 DEF TimeInv, CallInv
  <2>2. SwitchLimit \in Nat /\ SwitchLimit <= StaleTimeout + 5 * ChipTimeout + TickS
    BY <1>1, LimitFacts DEF SwitchLimit
  <2> QED BY <1>1, <2>1, <2>2, LimitFacts
<1>3. CASE ~Busy
  <2>1. action \in Active
    BY <1>3 DEF IdleOff, AllOff, ActInv, ActTypeOK
  <2>2. effortAge <= Limit(pc)
    BY <1>3, <2>1 DEF TimeInv, AgeInv
  <2>3. Limit(pc) \in Nat /\ Limit(pc) <= StaleTimeout + 4 * ChipTimeout + TickS
    BY LimitFacts DEF Limit
  <2> QED BY <1>1, <2>2, <2>3, LimitFacts
<1> QED BY <1>2, <1>3

\* A command makes the effort older by at most its timeout.
LEMMA CommandAge ==
  ASSUME ActTypeOK, PlaceInv, Busy, Next
  PROVE  effortAge' <= effortAge + ChipTimeout
<1>1. PICK d \in 0..ChipTimeout : effortAge' = Older(effortAge, d)
  <2>1. pc = "switch"
    BY DEF PlaceInv
  <2>2. ASSUME NEW d \in 0..ChipTimeout, NEW since \in 0..d, NEW outcome \in CommandOutcomes,
               SwitchStep(d, since, outcome) \/ SwitchAbandoned(d, since, outcome)
        PROVE  effortAge' = Older(effortAge, d)
    BY <2>2 DEF SwitchStep, SwitchAbandoned, SwitchProceeds, SwitchSucceeds, SwitchFails,
                Abandon, TimePasses
  <2>3. CASE LoopStep
    BY <2>1, <2>2, <2>3, EnvironmentAssumption
    DEF LoopStep, Start, LoopTop, Sense, Decide, Act, ReadGravity, Settle, Reschedule, Sleep,
        Finally, Exit
  <2>4. CASE FaultStep
    BY <2>1, <2>2, <2>4 DEF FaultStep, Interrupt, Crash, Down, RestartLoop, InTry
  <2> QED BY <2>3, <2>4 DEF Next
<1>2. effortAge \in 0..MaxAge /\ d \in Nat /\ d <= ChipTimeout
  BY TuningAssumption DEF ActTypeOK
<1>3. Older(effortAge, d) <= effortAge + d /\ Older(effortAge, d) \in 0..MaxAge
  BY <1>2, OlderBound, OlderType
<1> QED BY <1>1, <1>2, <1>3, AgeAssumption, TuningAssumption

\* Between commands the plugs stand still, and only what the actuator survives ages.
LEMMA BetweenCommands ==
  ASSUME PlaceInv, ~Busy, phase = "ready", Next
  PROVE  plug' = plug /\ (phase' = "ready" \/ effortAge' = effortAge)
<1>1. pc # "switch"
  BY DEF PlaceInv
<1>2. ASSUME NEW label, TickThen(label)
      PROVE  plug' = plug /\ phase' = phase
  BY <1>2 DEF TickThen, Tick, StayAll, actVars, modelVars, plugVars
<1>3. CASE LoopTop \/ Act \/ Settle
  BY <1>2, <1>3 DEF LoopTop, Act, Settle
<1>4. CASE Sense \/ ReadGravity \/ Sleep \/ Down
  BY <1>4 DEF Sense, ReadGravity, Sleep, Down, Wait
<1>5. CASE Start \/ Decide \/ Reschedule \/ Interrupt \/ Finally
  BY <1>5 DEF Start, Initialize, Decide, SetEffort, Reschedule, Interrupt, Finally, ForceIdle,
              StayAll, actVars, modelVars, plugVars
<1>6. CASE Exit \/ Crash \/ RestartLoop
  BY <1>6 DEF Exit, Crash, RestartLoop, Die, Restart, plugVars
<1>7. CASE LoopStep
  BY <1>1, <1>3, <1>4, <1>5, <1>6, <1>7 DEF LoopStep, SwitchStep
<1>8. CASE FaultStep
  BY <1>1, <1>4, <1>5, <1>6, <1>8 DEF FaultStep, SwitchAbandoned
<1> QED BY <1>7, <1>8 DEF Next

\* control.py:170: at the last moment a plug is on, in the middle of a command or between
\* two, its effort has outlived the staleness timeout by at most six command timeouts and
\* a tick, however slow commands and reads are, wherever the loop is interrupted, killed
\* and started again.
THEOREM OutputsEnd ==
  ASSUME Reliable
  PROVE  Spec => StaleOutputOff
<1> DEFINE InTime == \A x \in Active :
      phase = "ready" /\ OnDuring(x) => LastOnAge(x) <= StaleTimeout + Overrun
<1>1. ASSUME OutputAged, OutputAged', ActTypeOK, ActTypeOK', PlaceInv, Next
      PROVE  InTime
  <2> SUFFICES ASSUME NEW x \in Active, phase = "ready", OnDuring(x)
               PROVE  LastOnAge(x) <= StaleTimeout + Overrun
    OBVIOUS
  <2>1. effortAge \in Nat /\ effortAge' \in Nat /\ plugAge'[x] \in Nat
    BY <1>1, AgeAssumption DEF ActTypeOK
  <2>2. LastOnAge(x) \in Int /\ LastOnAge(x) <= effortAge'
    BY <2>1 DEF LastOnAge
  <2>3. CASE Busy
    <3>1. effortAge' <= effortAge + ChipTimeout
      BY <1>1, <2>3, CommandAge
    <3>2. effortAge <= StaleTimeout + 5 * ChipTimeout + TickS
      BY <1>1, <2>3 DEF OutputAged
    <3> QED BY <2>1, <2>2, <3>1, <3>2, LimitFacts DEF Overrun
  <2>4. CASE ~Busy
    <3>1. plug' = plug /\ (phase' = "ready" \/ effortAge' = effortAge)
      BY <1>1, <2>4, BetweenCommands
    <3>2. plug[x] = "on" /\ plug'[x] = "on"
      BY <3>1 DEF OnDuring
    <3>3. effortAge' <= StaleTimeout + 5 * ChipTimeout + TickS
      BY <1>1, <3>1, <3>2 DEF OutputAged
    <3> QED BY <2>1, <2>2, <3>3, LimitFacts DEF Overrun
  <2> QED BY <2>3, <2>4
<1>2. TimeInv /\ ActInv /\ IdleOff => OutputAged /\ ActTypeOK /\ PlaceInv
  BY OutputAge DEF ActInv, TimeInv
<1>3. OutputAged /\ OutputAged' /\ ActTypeOK /\ ActTypeOK' /\ PlaceInv /\ [Next]_vars
        => [InTime]_vars
  BY <1>1
<1>4. Spec => [][InTime]_vars
  BY <1>2, <1>3, TimeInvariant, PTL DEF Spec
<1> QED BY <1>4 DEF StaleOutputOff

\* control.py:473: a run that ends without being killed leaves both plugs off, wherever
\* between two commands it is interrupted.
THEOREM RunEndsOff ==
  ASSUME Reliable, "crash" \notin Faults
  PROVE  Spec => []ShutdownLeavesOff
<1>1. TimeInv => ShutdownLeavesOff
  BY DEF TimeInv, PlaceInv, ShutdownLeavesOff
<1> QED BY <1>1, TimeInvariant, PTL
=============================================================================
