---------------------------- MODULE PIController ----------------------------
(***************************************************************************)
(* PIController of host/models/control.py with the filters that            *)
(* _control_update puts in front of it.                                    *)
(*                                                                         *)
(* Temperatures, efforts and gains are fixed-point numbers; the effort 1.0 *)
(* is Full.  Products are exact, and a filter rounds its result down to a  *)
(* unit of temperature, where the program has floating-point numbers.      *)
(* _last_update is kept as an age; it is None, and so are the two filters, *)
(* until the first update.                                                 *)
(***************************************************************************)
EXTENDS Integers

CONSTANTS
  Full,             \* the effort 1.0
  Kp, Ki, Kff,      \* gains; Ki is per second
  Limit,            \* integral_limit
  Period,           \* period_s
  DtMax,            \* integral_dt_max_s
  AlphaAmbient,     \* ambient_filter_alpha, in units of AlphaUnit
  AlphaInternal,    \* internal_filter_alpha
  AlphaUnit,
  Setpoint,         \* setpoint_c
  Low, High,        \* the range of the ambient temperature
  Ambients,         \* readings, with their offsets added
  Internals,
  Gaps,             \* the time from one reading of the sensors to the next
  MaxAge            \* bound: ages saturate here

\* ControlTuning.validate, as far as it is about this component.
ValidTuning ==
  /\ Limit >= 0
  /\ DtMax > 0
  /\ \A alpha \in {AlphaAmbient, AlphaInternal} : 0 < alpha /\ alpha <= AlphaUnit

ASSUME NumbersAssumption ==
  /\ Limit \in Int /\ DtMax \in Int
  /\ AlphaAmbient \in Int /\ AlphaInternal \in Int /\ AlphaUnit \in Int
  /\ Full \in Nat \ {0} /\ Period \in Nat /\ Setpoint \in Int
  /\ Internals \subseteq Int

\* validate() lets gains be negative; nothing is claimed of such a controller.
ASSUME GainAssumption == Kp \in Nat /\ Ki \in Nat /\ Kff \in Nat

ASSUME ValidAssumption == ValidTuning

ASSUME SurroundingsAssumption ==
  /\ Low \in Int /\ High \in Int /\ Ambients \subseteq Low..High
  /\ Gaps \subseteq Nat /\ MaxAge \in Nat /\ DtMax < MaxAge

VARIABLES
  started,     \* _last_update and the filters are not None
  age,         \* now - _last_update
  ambient,     \* _ambient_filtered
  internal,    \* _internal_filtered
  integral,    \* _integral
  error,       \* decision.error_c
  effort       \* decision.effort

vars == <<started, age, ambient, internal, integral, error, effort>>

TypeOK ==
  /\ started \in BOOLEAN
  /\ age \in 0..MaxAge
  /\ ambient \in Int /\ internal \in Int
  /\ started => ambient \in Low..High /\ error = Setpoint - internal
  /\ integral \in (-Limit)..Limit
  /\ error \in Int
  /\ effort \in (-Full)..Full

Init ==
  /\ started = FALSE
  /\ age = 0 /\ ambient = 0 /\ internal = 0
  /\ integral = 0 /\ error = 0 /\ effort = 0

-----------------------------------------------------------------------------
Clamp(value, low, high) ==
  IF value < low THEN low ELSE IF value > high THEN high ELSE value

Older(d) == IF age + d > MaxAge THEN MaxAge ELSE age + d

AnyElapsed(d) == IF started THEN Older(d) ELSE Period                     \* mutant
Elapsed(d) == IF started THEN Clamp(Older(d), 0, DtMax) ELSE Period

Ema(previous, sample, alpha) ==
  IF started THEN previous + (alpha * (sample - previous)) \div AlphaUnit
  ELSE sample

Feedforward(a) == Kff * (Setpoint - a)

FreeCandidate(i, e, dt) == i + Ki * e * dt                                \* mutant
HeatingCandidate(i, e, dt) == Clamp(i + Ki * e * dt, 0, Limit)             \* mutant
Candidate(i, e, dt) == Clamp(i + Ki * e * dt, -Limit, Limit)

NeverFarther(raw, e) == FALSE                                             \* mutant
DrivingFarther(raw, e) == (raw > Full /\ e > 0) \/ (raw < -Full /\ e < 0)

ResetWhenSaturated(i, e, ff, dt) ==                                       \* mutant
  LET candidate == Candidate(i, e, dt)
  IN  IF DrivingFarther(Kp * e + candidate + ff, e) THEN 0 ELSE candidate

NextIntegral(i, e, ff, dt) ==
  LET candidate == Candidate(i, e, dt)
  IN  IF DrivingFarther(Kp * e + candidate + ff, e) THEN i ELSE candidate

EffortOf(i, e, ff) == Clamp(Kp * e + i + ff, -Full, Full)

\* The effort an update with error e would give now.
EffortAfter(e, ff, dt) == EffortOf(NextIntegral(integral, e, ff, dt), e, ff)

\* _control_update, d seconds after the one before, with these readings.
Update(d, a, t) ==
  /\ started' = TRUE /\ age' = 0
  /\ ambient' = Ema(ambient, a, AlphaAmbient)
  /\ internal' = Ema(internal, t, AlphaInternal)
  /\ error' = Setpoint - internal'
  /\ integral' = NextIntegral(integral, error', Feedforward(ambient'), Elapsed(d))
  /\ effort' = EffortOf(integral', error', Feedforward(ambient'))

\* A reading failed: the previous effort stands.
ReadFails(d) ==
  /\ age' = Older(d)
  /\ UNCHANGED <<started, ambient, internal, integral, error, effort>>

AnUpdate == \E d \in Gaps, a \in Ambients, t \in Internals : Update(d, a, t)

Next == AnUpdate \/ \E d \in Gaps : ReadFails(d)
Spec == Init /\ [][Next]_vars

\* The loop goes on, and the sensor is not out of reach for ever.
FairSpec == Spec /\ WF_vars(AnUpdate)

-----------------------------------------------------------------------------
(* Properties *)

Abs(x) == IF x < 0 THEN -x ELSE x
Larger(x, y) == IF x > y THEN x ELSE y
Spread == Kff * (High - Low)

\* However long readings fail, the update that follows moves the integral by
\* no more than what DtMax seconds of its error are worth.
NoLargeJump ==
  [][started => Abs(integral' - integral) <= Ki * Abs(error') * DtMax]_vars

\* No windup: a long time in saturation is not felt once the error has turned.
\* With an error on the other side, effort is below Full by what that error
\* is worth, except for what the ambient temperature has changed meanwhile.
NoWindup ==
  /\ error < 0 => effort <=
       Larger(-Full, Kp * error + Larger(Kff * (Setpoint - Low), Full + Spread))
  /\ error > 0 => -effort <=
       Larger(-Full, -Kp * error + Larger(-Kff * (Setpoint - High), Full + Spread))

\* A colder fermenter gets at least the effort of a warmer one, up to one step
\* of the integral: at the edge of saturation the larger error is the one
\* whose step is refused.
ColderHeatsMore ==
  \A e1, e2 \in {Setpoint - t : t \in Internals}, a \in Ambients, d \in Gaps :
    LET dt == Elapsed(d)  ff == Feedforward(a) IN
    e1 <= e2 => EffortAfter(e1, ff, dt)
                  <= EffortAfter(e2, ff, dt) + Ki * Larger(Abs(e1), Abs(e2)) * dt

\* An error that stays on one side gets all the controller has: the integral
\* reaches its limit, or the effort stays within one step of saturation.
Step == Ki * DtMax * Abs(error)
PersistentErrorWins ==
  /\ <>[](error > 0) => <>[](integral = Limit \/ effort >= Full - Step)
  /\ <>[](error < 0) => <>[](integral = -Limit \/ -effort >= Full - Step)
=============================================================================
