------------------------- MODULE PIControllerProofs -------------------------
(***************************************************************************)
(* The integral stays within its limit and the effort within [-1, 1];      *)
(* there is no windup, no large jump of the integral, and the effort       *)
(* follows the error up to one step: for every tuning that validate()      *)
(* accepts and gains that are not negative.                                *)
(***************************************************************************)
EXTENDS PIController, TLAPS

-----------------------------------------------------------------------------
(* Arithmetic *)

LEMMA ProductNonNegative ==
  ASSUME NEW a \in Nat, NEW b \in Nat
  PROVE  a * b \in Nat
BY SMT

LEMMA ProductMonotone ==
  ASSUME NEW a \in Nat, NEW b \in Int, NEW c \in Int, b <= c
  PROVE  a * b <= a * c
<1>1. a * (c - b) >= 0
  BY ProductNonNegative
<1> QED BY <1>1

\* _clamp returns a value between its limits, and keeps the order of values.
LEMMA ClampBounds ==
  ASSUME NEW v \in Int, NEW low \in Int, NEW high \in Int, low <= high
  PROVE  Clamp(v, low, high) \in low..high
BY DEF Clamp

\* The step of a filter, rounded down, does not overshoot the sample.
LEMMA StepWithin ==
  ASSUME NEW alpha \in Int, NEW unit \in Int, 0 < alpha, alpha <= unit,
         NEW x \in Int
  PROVE  \E q \in Int : q = (alpha * x) \div unit /\ (x >= 0 => 0 <= q /\ q <= x) /\ (x <= 0 => x <= q /\ q <= 0)
<1> DEFINE q == (alpha * x) \div unit
<1>1. q \in Int /\ unit * q <= alpha * x /\ alpha * x < unit * q + unit
  OBVIOUS
<1>2. ASSUME x >= 0 PROVE 0 <= q /\ q <= x
  <2>1. alpha * x >= 0 /\ (unit - alpha) * x >= 0
    BY <1>2, ProductNonNegative
  <2>2. alpha * x <= unit * x
    BY <2>1
  <2>3. ASSUME q > x PROVE FALSE
    <3>1. unit * (x + 1) <= unit * q
      BY <1>1, <2>3, ProductMonotone
    <3> QED BY <1>1, <2>2, <3>1
  <2>4. ASSUME q < 0 PROVE FALSE
    <3>1. unit * q <= unit * (-1)
      BY <1>1, <2>4, ProductMonotone
    <3> QED BY <1>1, <2>1, <3>1
  <2> QED BY <1>1, <2>3, <2>4
<1>3. ASSUME x <= 0 PROVE x <= q /\ q <= 0
  <2>1. alpha * (-x) >= 0 /\ (unit - alpha) * (-x) >= 0
    BY <1>3, ProductNonNegative
  <2>2. unit * x <= alpha * x /\ alpha * x <= 0
    BY <2>1
  <2>3. ASSUME q < x PROVE FALSE
    <3>1. unit * (q + 1) <= unit * x
      BY <1>1, <2>3, ProductMonotone
    <3> QED BY <1>1, <2>2, <3>1
  <2>4. ASSUME q > 0 PROVE FALSE
    <3>1. unit * 1 <= unit * q
      BY <1>1, <2>4, ProductMonotone
    <3> QED BY <1>1, <2>2, <3>1
  <2> QED BY <1>1, <2>3, <2>4
<1> QED BY <1>1, <1>2, <1>3

\* A filtered value stays in a range that holds the old value and the sample.
LEMMA EmaWithin ==
  ASSUME NEW low \in Int, NEW high \in Int,
         NEW previous \in Int, NEW sample \in low..high,
         NEW alpha \in {AlphaAmbient, AlphaInternal},
         started \in BOOLEAN, started => previous \in low..high
  PROVE  Ema(previous, sample, alpha) \in low..high
<1>1. alpha \in Int /\ AlphaUnit \in Int /\ 0 < alpha /\ alpha <= AlphaUnit
  BY NumbersAssumption, ValidAssumption DEF ValidTuning
<1>2. CASE started
  <2>1. PICK step \in Int :
        /\ step = (alpha * (sample - previous)) \div AlphaUnit
        /\ sample - previous >= 0 => 0 <= step /\ step <= sample - previous
        /\ sample - previous <= 0 => sample - previous <= step /\ step <= 0
    <3>1. previous \in Int /\ sample - previous \in Int
      OBVIOUS
    <3> QED BY <1>1, <3>1, StepWithin
  <2>2. Ema(previous, sample, alpha) = previous + step
    BY <1>2, <2>1 DEF Ema
  <2> QED BY <1>2, <2>1, <2>2
<1>3. CASE ~started
  BY <1>3 DEF Ema
<1> QED BY <1>2, <1>3

-----------------------------------------------------------------------------
(* One update *)

\* What an update knows of its numbers.
LEMMA ElapsedBounds ==
  ASSUME TypeOK, NEW d \in Gaps
  PROVE  /\ Older(d) \in 0..MaxAge
         /\ Elapsed(d) \in Nat
         /\ started => Elapsed(d) <= DtMax
<1>1. d \in Nat /\ MaxAge \in Nat /\ DtMax \in Int /\ DtMax > 0 /\ Period \in Nat
  BY SurroundingsAssumption, NumbersAssumption, ValidAssumption DEF ValidTuning
<1>2. Older(d) \in 0..MaxAge
  BY <1>1 DEF TypeOK, Older
<1>3. Clamp(Older(d), 0, DtMax) \in 0..DtMax
  BY <1>1, <1>2 DEF Clamp
<1> QED BY <1>1, <1>2, <1>3 DEF Elapsed, TypeOK

\* The step of the integral has the direction of the error and at most its
\* worth; the integral stays within its limit.
LEMMA IntegralStep ==
  ASSUME NEW i \in (-Limit)..Limit, NEW e \in Int, NEW ff \in Int, NEW dt \in Nat
  PROVE  LET next == NextIntegral(i, e, ff, dt) IN
         /\ Candidate(i, e, dt) \in (-Limit)..Limit
         /\ next \in (-Limit)..Limit
         /\ next = i \/ next = Candidate(i, e, dt)
         /\ e >= 0 => /\ i <= Candidate(i, e, dt)
                      /\ Candidate(i, e, dt) <= i + Ki * e * dt
         /\ e <= 0 => /\ Candidate(i, e, dt) <= i
                      /\ i + Ki * e * dt <= Candidate(i, e, dt)
<1>1. Limit \in Nat /\ Ki \in Nat
  BY NumbersAssumption, ValidAssumption, GainAssumption DEF ValidTuning
<1>2. Ki * e * dt \in Int
  BY <1>1
<1>3. Candidate(i, e, dt) \in (-Limit)..Limit
  BY <1>1, <1>2, ClampBounds DEF Candidate
<1>4. NextIntegral(i, e, ff, dt) \in {i, Candidate(i, e, dt)}
  BY DEF NextIntegral
<1>5. ASSUME e >= 0 PROVE Ki * e * dt >= 0
  <2>1. Ki * e \in Nat
    BY <1>1, <1>5, ProductNonNegative
  <2> QED BY <2>1, ProductNonNegative
<1>6. ASSUME e <= 0 PROVE Ki * e * dt <= 0
  <2>1. Ki * (-e) \in Nat
    BY <1>1, <1>6, ProductNonNegative
  <2>2. Ki * (-e) * dt \in Nat
    BY <2>1, ProductNonNegative
  <2> QED BY <1>1, <2>2
<1>7. ASSUME e >= 0
      PROVE  /\ i <= Candidate(i, e, dt)
             /\ Candidate(i, e, dt) <= i + Ki * e * dt
  BY <1>1, <1>2, <1>5, <1>7 DEF Candidate, Clamp
<1>8. ASSUME e <= 0
      PROVE  /\ Candidate(i, e, dt) <= i
             /\ i + Ki * e * dt <= Candidate(i, e, dt)
  BY <1>1, <1>2, <1>6, <1>8 DEF Candidate, Clamp
<1> QED BY <1>3, <1>4, <1>7, <1>8

-----------------------------------------------------------------------------
(* The invariant *)

Coldest == Kff * (Setpoint - Low)      \* the largest feedforward
Warmest == Kff * (Setpoint - High)     \* the smallest

\* The integral has only grown towards heating while it, the proportional and
\* the feedforward term together were within Full; so it is at most Full above
\* what the smallest feedforward took of it, and so on for cooling.
Unwound ==
  /\ integral <= 0 \/ integral + Warmest <= Full
  /\ integral >= 0 \/ integral + Coldest >= -Full

Outcome == effort = EffortOf(integral, error, Feedforward(ambient))

PIInv ==
  /\ TypeOK
  /\ Unwound
  /\ IF started THEN Outcome ELSE error = 0 /\ effort = 0 /\ integral = 0

LEMMA FeedforwardBounds ==
  ASSUME NEW a \in Low..High
  PROVE  /\ Feedforward(a) \in Int /\ Warmest \in Int /\ Coldest \in Int
         /\ Warmest <= Feedforward(a) /\ Feedforward(a) <= Coldest
<1>1. Low \in Int /\ High \in Int /\ Setpoint \in Int /\ Kff \in Nat
  BY SurroundingsAssumption, NumbersAssumption, GainAssumption
<1>2. Kff * (Setpoint - High) <= Kff * (Setpoint - a)
  BY <1>1, ProductMonotone
<1>3. Kff * (Setpoint - a) <= Kff * (Setpoint - Low)
  BY <1>1, ProductMonotone
<1> QED BY <1>1, <1>2, <1>3 DEF Feedforward, Warmest, Coldest

\* The integral leaves its allowed range on neither side: whatever is added to
\* it in the direction of the error is within Full, or is refused.
LEMMA StaysUnwound ==
  ASSUME NEW i \in (-Limit)..Limit, NEW e \in Int, NEW a \in Low..High, NEW dt \in Nat,
         i <= 0 \/ i + Warmest <= Full,
         i >= 0 \/ i + Coldest >= -Full
  PROVE  LET next == NextIntegral(i, e, Feedforward(a), dt) IN
         /\ next <= 0 \/ next + Warmest <= Full
         /\ next >= 0 \/ next + Coldest >= -Full
<1> DEFINE ff == Feedforward(a)
           c == Candidate(i, e, dt)
           next == NextIntegral(i, e, ff, dt)
           p == Kp * e
<1>1. Limit \in Nat /\ Full \in Nat /\ Kp \in Nat
  BY NumbersAssumption, ValidAssumption, GainAssumption DEF ValidTuning
<1>2. /\ ff \in Int /\ Warmest \in Int /\ Coldest \in Int
      /\ Warmest <= ff /\ ff <= Coldest
  BY FeedforwardBounds
<1>3. /\ c \in (-Limit)..Limit
      /\ e >= 0 => i <= c
      /\ e <= 0 => c <= i
  BY <1>2, IntegralStep
<1>4. /\ p \in Int
      /\ e >= 0 => p >= 0
      /\ e <= 0 => p <= 0
  <2>1. e >= 0 => Kp * e \in Nat
    BY <1>1, ProductNonNegative
  <2>2. e <= 0 => Kp * (-e) \in Nat
    BY <1>1, ProductNonNegative
  <2> QED BY <1>1, <2>1, <2>2
<1>5. next = IF DrivingFarther(p + c + ff, e) THEN i ELSE c
  BY DEF NextIntegral
<1> HIDE DEF p, ff, c, next
<1>6. CASE next = i
  BY <1>6 DEF next, ff
<1>7. CASE next = c /\ ~DrivingFarther(p + c + ff, e)
  <2>1. CASE e > 0
    <3>1. p + c + ff <= Full
      BY <1>1, <1>2, <1>3, <1>4, <1>7, <2>1 DEF DrivingFarther
    <3>2. c <= 0 \/ c + Warmest <= Full
      BY <1>1, <1>2, <1>3, <1>4, <2>1, <3>1
    <3>3. c >= 0 \/ c + Coldest >= -Full
      BY <1>1, <1>2, <1>3, <2>1
    <3> QED BY <1>7, <3>2, <3>3 DEF next, ff
  <2>2. CASE e < 0
    <3>1. p + c + ff >= -Full
      BY <1>1, <1>2, <1>3, <1>4, <1>7, <2>2 DEF DrivingFarther
    <3>2. c <= 0 \/ c + Warmest <= Full
      BY <1>1, <1>2, <1>3, <2>2
    <3>3. c >= 0 \/ c + Coldest >= -Full
      BY <1>1, <1>2, <1>3, <1>4, <2>2, <3>1
    <3> QED BY <1>7, <3>2, <3>3 DEF next, ff
  <2>3. CASE e = 0
    <3>1. c = i
      BY <1>1, <1>3, <2>3
    <3> QED BY <1>7, <3>1 DEF next, ff
  <2> QED BY <2>1, <2>2, <2>3
<1> QED BY <1>5, <1>6, <1>7

LEMMA EffortType ==
  ASSUME NEW i \in Int, NEW e \in Int, NEW ff \in Int
  PROVE  EffortOf(i, e, ff) \in (-Full)..Full
<1>1. Full \in Nat /\ Kp * e + i + ff \in Int
  BY NumbersAssumption, GainAssumption
<1> QED BY <1>1 DEF EffortOf, Clamp

\* The numbers an update works with, and what it leaves behind.
LEMMA UpdateFacts ==
  ASSUME PIInv, NEW d \in Gaps, NEW a \in Ambients, NEW t \in Internals,
         Update(d, a, t)
  PROVE  /\ ambient' \in Low..High /\ internal' \in Int /\ error' \in Int
         /\ Feedforward(ambient') \in Int
         /\ Elapsed(d) \in Nat
         /\ integral' = NextIntegral(integral, error', Feedforward(ambient'), Elapsed(d))
         /\ integral' \in (-Limit)..Limit
<1> USE DEF PIInv, TypeOK
<1>1. ambient' \in Low..High
  <2>1. ambient' = Ema(ambient, a, AlphaAmbient)
    BY DEF Update
  <2>2. Ema(ambient, a, AlphaAmbient) \in Low..High
    BY EmaWithin, SurroundingsAssumption
  <2> QED BY <2>1, <2>2
<1>2. internal' \in Int
  <2>1. internal' = Ema(internal, t, AlphaInternal)
    BY DEF Update
  <2> DEFINE low == IF internal < t THEN internal ELSE t
             high == IF internal < t THEN t ELSE internal
  <2>2. t \in Int /\ low \in Int /\ high \in Int /\ internal \in low..high /\ t \in low..high
    BY NumbersAssumption
  <2> HIDE DEF low, high
  <2>3. Ema(internal, t, AlphaInternal) \in low..high
    BY <2>2, EmaWithin
  <2> QED BY <2>1, <2>2, <2>3
<1>3. error' \in Int
  BY <1>2, NumbersAssumption DEF Update
<1>4. Feedforward(ambient') \in Int
  BY <1>1, FeedforwardBounds
<1>5. Elapsed(d) \in Nat
  BY ElapsedBounds
<1>6. integral' = NextIntegral(integral, error', Feedforward(ambient'), Elapsed(d))
  BY DEF Update
<1>7. integral' \in (-Limit)..Limit
  BY <1>3, <1>4, <1>5, <1>6, IntegralStep
<1> QED BY <1>1, <1>2, <1>3, <1>4, <1>5, <1>6, <1>7

LEMMA PIInitially == Init => PIInv
<1> SUFFICES ASSUME Init PROVE PIInv
  OBVIOUS
<1>1. Limit \in Nat /\ Full \in Nat /\ MaxAge \in Nat
  BY NumbersAssumption, ValidAssumption, SurroundingsAssumption DEF ValidTuning
<1>2. /\ 0 \in (-Limit)..Limit /\ 0 \in (-Full)..Full /\ 0 \in 0..MaxAge
  BY <1>1
<1>3. started \in BOOLEAN /\ ~started
  BY DEF Init
<1>4. TypeOK
  BY <1>2, <1>3 DEF Init, TypeOK
<1> QED BY <1>3, <1>4 DEF Init, PIInv, Unwound

LEMMA PIPreserved == PIInv /\ [Next]_vars => PIInv'
<1> SUFFICES ASSUME PIInv, [Next]_vars PROVE PIInv'
  OBVIOUS
<1>1. ASSUME NEW d \in Gaps, NEW a \in Ambients, NEW t \in Internals, Update(d, a, t)
      PROVE  PIInv'
  <2>1. /\ ambient' \in Low..High /\ internal' \in Int /\ error' \in Int
        /\ Feedforward(ambient') \in Int
        /\ Elapsed(d) \in Nat
        /\ integral' = NextIntegral(integral, error', Feedforward(ambient'), Elapsed(d))
        /\ integral' \in (-Limit)..Limit
    BY <1>1, UpdateFacts
  <2>2. started' /\ Outcome'
    BY <1>1 DEF Update, Outcome, EffortOf, Feedforward, Clamp
  <2>3. Unwound'
    <3>1. /\ integral <= 0 \/ integral + Warmest <= Full
          /\ integral >= 0 \/ integral + Coldest >= -Full
          /\ integral \in (-Limit)..Limit
      BY DEF PIInv, Unwound, TypeOK
    <3>2. /\ integral' <= 0 \/ integral' + Warmest <= Full
          /\ integral' >= 0 \/ integral' + Coldest >= -Full
      BY <2>1, <3>1, StaysUnwound
    <3> QED BY <3>2 DEF Unwound, Warmest, Coldest
  <2>4. effort' \in (-Full)..Full
    <3>1. effort' = EffortOf(integral', error', Feedforward(ambient'))
      BY <1>1 DEF Update
    <3>2. integral' \in Int
      BY <2>1, NumbersAssumption
    <3> QED BY <2>1, <3>1, <3>2, EffortType
  <2>5. TypeOK'
    BY <1>1, <2>1, <2>4, SurroundingsAssumption DEF TypeOK, Update
  <2> QED BY <2>2, <2>3, <2>5 DEF PIInv
<1>2. ASSUME NEW d \in Gaps, ReadFails(d)
      PROVE  PIInv'
  <2>1. age' \in 0..MaxAge
    BY <1>2, ElapsedBounds DEF ReadFails, PIInv
  <2> QED
    BY <1>2, <2>1 DEF ReadFails, PIInv, TypeOK, Unwound, Outcome, Warmest, Coldest
<1>3. ASSUME UNCHANGED vars PROVE PIInv'
  BY <1>3 DEF vars, PIInv, TypeOK, Unwound, Outcome, Warmest, Coldest
<1> QED BY <1>1, <1>2, <1>3 DEF Next, AnUpdate

LEMMA PIInvHolds == Spec => []PIInv
<1> QED BY PIInitially, PIPreserved, PTL DEF Spec

-----------------------------------------------------------------------------
(* Theorems *)

\* The integral within its limit, the effort within [-1, 1], a filtered ambient
\* temperature within the range of its readings.
THEOREM ControllerTypeCorrect == Spec => []TypeOK
<1>1. PIInv => TypeOK
  BY DEF PIInv
<1> QED BY <1>1, PIInvHolds, PTL

\* Saturation is not felt once the error has turned.
THEOREM WindupPrevented == Spec => []NoWindup
<1>1. ASSUME PIInv PROVE NoWindup
  <2>1. CASE ~started
    BY <1>1, <2>1 DEF PIInv, NoWindup
  <2>2. CASE started
    <3> DEFINE p == Kp * error
               ff == Feedforward(ambient)
    <3>1. /\ Full \in Nat /\ Kff \in Nat /\ p \in Int /\ error \in Int
          /\ integral \in Int /\ effort \in Int /\ Low \in Int /\ High \in Int
          /\ Setpoint \in Int
      BY <1>1, NumbersAssumption, GainAssumption, SurroundingsAssumption
         DEF PIInv, TypeOK
    <3>2. /\ ff \in Int /\ Warmest \in Int /\ Coldest \in Int
          /\ Warmest <= ff /\ ff <= Coldest
      BY <1>1, <2>2, FeedforwardBounds DEF PIInv, TypeOK
    <3>3. effort = Clamp(p + integral + ff, -Full, Full)
      BY <1>1, <2>2 DEF PIInv, Outcome, EffortOf
    <3>4. /\ integral <= 0 \/ integral + Warmest <= Full
          /\ integral >= 0 \/ integral + Coldest >= -Full
      BY <1>1 DEF PIInv, Unwound
    <3>5. Spread = Coldest - Warmest /\ -Kp * error = -p
          /\ -Kff * (Setpoint - High) = -Warmest
      BY <3>1, GainAssumption DEF Spread, Coldest, Warmest
    <3> HIDE DEF p, ff
    <3>6. effort <= Larger(-Full, p + Larger(Coldest, Full + Coldest - Warmest))
      BY <3>1, <3>2, <3>3, <3>4 DEF Clamp, Larger
    <3>7. -effort <= Larger(-Full, -p + Larger(-Warmest, Full + Coldest - Warmest))
      BY <3>1, <3>2, <3>3, <3>4 DEF Clamp, Larger
    <3>8. Full + Spread = Full + Coldest - Warmest
      BY <3>1, <3>2, <3>5
    <3> QED BY <3>5, <3>6, <3>7, <3>8 DEF NoWindup, Coldest, p
  <2> QED BY <1>1, <2>1, <2>2 DEF PIInv, TypeOK
<1> QED BY <1>1, PIInvHolds, PTL

LEMMA AbsType ==
  ASSUME NEW e \in Int
  PROVE  Abs(e) \in Nat /\ Abs(e) <= Abs(e)
BY DEF Abs

\* What dt seconds of an error are worth, and that it grows with both.
LEMMA Worth ==
  ASSUME NEW e \in Int, NEW m \in Nat, Abs(e) <= m, NEW dt \in Nat, NEW dm \in Nat, dt <= dm
  PROVE  /\ Ki * e * dt \in Int /\ Ki * m * dm \in Nat
         /\ Ki * e * dt <= Ki * m * dm /\ -(Ki * m * dm) <= Ki * e * dt
<1>1. Ki \in Nat
  BY GainAssumption
<1>2. Ki * e <= Ki * m /\ Ki * (-m) <= Ki * e
  BY <1>1, ProductMonotone DEF Abs
<1>3. Ki * m \in Nat /\ Ki * e \in Int
  BY <1>1, ProductNonNegative
<1>4. dt * (Ki * e) <= dt * (Ki * m) /\ dt * (Ki * (-m)) <= dt * (Ki * e)
  BY <1>1, <1>2, <1>3, ProductMonotone
<1>5. (Ki * m) * dt <= (Ki * m) * dm
  BY <1>3, ProductMonotone
<1>6. (Ki * m) * dm \in Nat
  BY <1>3, ProductNonNegative
<1>7. Ki * (-m) = -(Ki * m)
  BY <1>1
<1> QED BY <1>1, <1>3, <1>4, <1>5, <1>6, <1>7

\* However long readings failed, the integral moves by at most DtMax seconds'
\* worth of the error.
THEOREM JumpsBounded == Spec => []NoLargeJump
<1>1. ASSUME PIInv, [Next]_vars, started
      PROVE  Abs(integral' - integral) <= Ki * Abs(error') * DtMax
  <2> DtMax \in Nat /\ integral \in Int /\ error \in Int
    BY <1>1, NumbersAssumption, ValidAssumption DEF ValidTuning, PIInv, TypeOK
  <2>1. ASSUME NEW d \in Gaps, NEW a \in Ambients, NEW t \in Internals, Update(d, a, t)
        PROVE  Abs(integral' - integral) <= Ki * Abs(error') * DtMax
    <3>1. /\ error' \in Int /\ Feedforward(ambient') \in Int /\ Elapsed(d) \in Nat
          /\ integral' = NextIntegral(integral, error', Feedforward(ambient'), Elapsed(d))
      BY <1>1, <2>1, UpdateFacts
    <3>2. Elapsed(d) <= DtMax
      BY <1>1, ElapsedBounds DEF PIInv
    <3>3. Abs(error') \in Nat /\ Abs(error') <= Abs(error')
      BY <3>1, AbsType
    <3> DEFINE worth == Ki * error' * Elapsed(d)
               most == Ki * Abs(error') * DtMax
    <3>4. /\ worth \in Int /\ most \in Nat
          /\ worth <= most /\ -most <= worth
      BY <3>1, <3>2, <3>3, Worth
    <3>5. integral \in (-Limit)..Limit
      BY <1>1 DEF PIInv, TypeOK
    <3>6. /\ integral' \in Int
          /\ error' >= 0 => integral <= integral' /\ integral' <= integral + worth
          /\ error' <= 0 => integral' <= integral /\ integral + worth <= integral'
      <4>1. /\ integral' = integral \/ integral' = Candidate(integral, error', Elapsed(d))
            /\ Candidate(integral, error', Elapsed(d)) \in (-Limit)..Limit
            /\ error' >= 0 => /\ integral <= Candidate(integral, error', Elapsed(d))
                              /\ Candidate(integral, error', Elapsed(d)) <= integral + worth
            /\ error' <= 0 => /\ Candidate(integral, error', Elapsed(d)) <= integral
                              /\ integral + worth <= Candidate(integral, error', Elapsed(d))
        BY <3>1, <3>5, IntegralStep
      <4> HIDE DEF worth
      <4>2. Candidate(integral, error', Elapsed(d)) \in Int
        BY <4>1, NumbersAssumption
      <4> QED BY <3>1, <3>4, <4>1, <4>2
    <3> HIDE DEF worth, most
    <3>7. Abs(integral' - integral) <= most
      BY <3>1, <3>4, <3>6 DEF Abs
    <3> QED BY <3>7 DEF most
  <2>2. ASSUME integral' = integral, error' = error
        PROVE  Abs(integral' - integral) <= Ki * Abs(error') * DtMax
    <3>1. Abs(error) \in Nat /\ Abs(error) <= Abs(error)
      BY AbsType
    <3>2. Ki * Abs(error) * DtMax \in Nat
      BY <3>1, Worth
    <3>3. Abs(integral' - integral) = 0
      BY <2>2 DEF Abs
    <3> QED BY <2>2, <3>2, <3>3
  <2> QED BY <1>1, <2>1, <2>2 DEF Next, AnUpdate, ReadFails, vars
<1>2. PIInv /\ [Next]_vars => [started => Abs(integral' - integral) <= Ki * Abs(error') * DtMax]_vars
  BY <1>1
<1> QED BY <1>2, PIInvHolds, PTL DEF Spec, NoLargeJump

\* A larger error gets at least the effort of a smaller one, up to one step of
\* the integral.  Only where one of the two steps is refused and the other is
\* not does the order of the errors not carry over to the sums.
THEOREM EffortFollowsError == Spec => []ColderHeatsMore
<1>1. ASSUME TypeOK, NEW e1 \in Int, NEW e2 \in Int, e1 <= e2,
             NEW ff \in Int, NEW dt \in Nat
      PROVE  EffortAfter(e1, ff, dt)
               <= EffortAfter(e2, ff, dt) + Ki * Larger(Abs(e1), Abs(e2)) * dt
  <2> DEFINE p1 == Kp * e1
             p2 == Kp * e2
             w1 == Ki * e1 * dt
             w2 == Ki * e2 * dt
             most == Ki * Larger(Abs(e1), Abs(e2)) * dt
             c1 == Candidate(integral, e1, dt)
             c2 == Candidate(integral, e2, dt)
             n1 == NextIntegral(integral, e1, ff, dt)
             n2 == NextIntegral(integral, e2, ff, dt)
  <2>1. /\ Full \in Nat /\ Full > 0 /\ Limit \in Nat
        /\ integral \in (-Limit)..Limit /\ integral \in Int
    BY <1>1, NumbersAssumption, ValidAssumption DEF TypeOK, ValidTuning
  <2>2. p1 \in Int /\ p2 \in Int /\ p1 <= p2
    BY <1>1, GainAssumption, ProductMonotone
  <2>3. /\ Larger(Abs(e1), Abs(e2)) \in Nat
        /\ Abs(e1) <= Larger(Abs(e1), Abs(e2)) /\ Abs(e2) <= Larger(Abs(e1), Abs(e2))
    BY <1>1 DEF Larger, Abs
  <2>4. /\ w1 \in Int /\ w2 \in Int /\ most \in Nat
        /\ -most <= w1 /\ w1 <= most /\ -most <= w2 /\ w2 <= most
    BY <1>1, <2>3, Worth
  <2>5. w1 <= w2
    <3>1. Ki \in Nat /\ Ki * e1 \in Int /\ Ki * e2 \in Int /\ Ki * e1 <= Ki * e2
      BY <1>1, GainAssumption, ProductMonotone
    <3>2. dt * (Ki * e1) <= dt * (Ki * e2)
      BY <1>1, <3>1, ProductMonotone
    <3> QED BY <1>1, <3>1, <3>2
  <2>6. /\ c1 = Clamp(integral + w1, -Limit, Limit)
        /\ c2 = Clamp(integral + w2, -Limit, Limit)
    BY DEF Candidate
  <2>7. /\ n1 = IF DrivingFarther(p1 + c1 + ff, e1) THEN integral ELSE c1
        /\ n2 = IF DrivingFarther(p2 + c2 + ff, e2) THEN integral ELSE c2
        /\ EffortAfter(e1, ff, dt) = Clamp(p1 + n1 + ff, -Full, Full)
        /\ EffortAfter(e2, ff, dt) = Clamp(p2 + n2 + ff, -Full, Full)
    BY DEF NextIntegral, EffortAfter, EffortOf
  <2> SUFFICES EffortAfter(e1, ff, dt) <= EffortAfter(e2, ff, dt) + most
    OBVIOUS
  <2> HIDE DEF p1, p2, w1, w2, most, c1, c2, n1, n2
  <2>8. /\ c1 \in Int /\ c2 \in Int /\ c1 <= c2
        /\ integral - most <= c1 /\ c2 <= integral + most
    BY <2>1, <2>4, <2>5, <2>6 DEF Clamp
  <2>9. n1 \in Int /\ n2 \in Int
    BY <2>1, <2>7, <2>8
  <2>10. CASE DrivingFarther(p1 + c1 + ff, e1) /\ DrivingFarther(p2 + c2 + ff, e2)
    BY <1>1, <2>1, <2>2, <2>4, <2>7, <2>8, <2>10 DEF Clamp
  <2>11. CASE ~DrivingFarther(p1 + c1 + ff, e1) /\ ~DrivingFarther(p2 + c2 + ff, e2)
    BY <1>1, <2>1, <2>2, <2>4, <2>7, <2>8, <2>11 DEF Clamp
  <2>12. CASE DrivingFarther(p1 + c1 + ff, e1) /\ ~DrivingFarther(p2 + c2 + ff, e2)
    <3>1. p1 + c1 + ff < -Full
      BY <1>1, <2>1, <2>2, <2>8, <2>12 DEF DrivingFarther
    <3>2. p1 + integral + ff <= -Full + most
      BY <1>1, <2>1, <2>2, <2>4, <2>8, <3>1
    <3> QED BY <1>1, <2>1, <2>2, <2>4, <2>7, <2>8, <2>9, <2>12, <3>2 DEF Clamp
  <2>13. CASE ~DrivingFarther(p1 + c1 + ff, e1) /\ DrivingFarther(p2 + c2 + ff, e2)
    <3>1. p2 + c2 + ff > Full
      BY <1>1, <2>1, <2>2, <2>8, <2>13 DEF DrivingFarther
    <3>2. p2 + integral + ff >= Full - most
      BY <1>1, <2>1, <2>2, <2>4, <2>8, <3>1
    <3> QED BY <1>1, <2>1, <2>2, <2>4, <2>7, <2>8, <2>9, <2>13, <3>2 DEF Clamp
  <2> QED BY <2>10, <2>11, <2>12, <2>13
<1>2. TypeOK => ColderHeatsMore
  <2> SUFFICES ASSUME TypeOK,
                      NEW e1 \in {Setpoint - t : t \in Internals},
                      NEW e2 \in {Setpoint - t : t \in Internals},
                      NEW a \in Ambients, NEW d \in Gaps, e1 <= e2
               PROVE  EffortAfter(e1, Feedforward(a), Elapsed(d))
                        <= EffortAfter(e2, Feedforward(a), Elapsed(d))
                             + Ki * Larger(Abs(e1), Abs(e2)) * Elapsed(d)
    BY DEF ColderHeatsMore
  <2>1. e1 \in Int /\ e2 \in Int
    BY NumbersAssumption
  <2>2. Feedforward(a) \in Int
    BY FeedforwardBounds, SurroundingsAssumption
  <2>3. Elapsed(d) \in Nat
    BY ElapsedBounds
  <2> QED BY <1>1, <2>1, <2>2, <2>3
<1> QED BY <1>2, ControllerTypeCorrect, PTL
=============================================================================
