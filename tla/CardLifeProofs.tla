--------------------------- MODULE CardLifeProofs ---------------------------
(***************************************************************************)
(* The card invariant, for every learning-step table, ease and factor.     *)
(***************************************************************************)
EXTENDS CardLife, ScheduleProofs

LEMMA ProductMonotone ==
  ASSUME NEW m \in Nat, NEW n \in Nat, NEW k \in Nat, n >= k
  PROVE  m * n >= m * k
OBVIOUS

\* A pass in review schedules at least a day ahead, whatever the factors.
LEMMA PassAtLeastADay ==
  ASSUME NEW s \in States, NEW g \in Grades, g # "again"
  PROVE  PassInterval(s, g) >= OneDay
<1>0. s.interval \in Nat /\ s.ease \in Nat
  BY DEF States, Eases
<1>1. CASE g = "hard"
  <2> DEFINE m == Larger(OneDay * FactorUnit, s.interval * HardIntervalFactor)
  <2>1. m \in Nat /\ m >= 1000
    <3> DEFINE x == s.interval * HardIntervalFactor
    <3>1. x \in Nat
      BY <1>0, ProductNat, ParamsAssumption
    <3> HIDE DEF x
    <3>2. Larger(OneDay * FactorUnit, x) \in Nat /\ Larger(OneDay * FactorUnit, x) >= 1000
      BY <3>1 DEF Larger, OneDay, FactorUnit
    <3> QED BY <3>2 DEF x
  <2> HIDE DEF m
  <2> DEFINE p == m * IntervalModifier
  <2>2. p \in Nat /\ p >= 10000
    <3>1. IntervalModifier \in Nat /\ IntervalModifier >= 10
      BY ParamsAssumption, IntervalsAssumption DEF FactorUnit
    <3>2. m * IntervalModifier >= m * 10
      BY <2>1, <3>1, ProductMonotone
    <3>3. m * 10 >= 10000
      BY <2>1
    <3>4. m * IntervalModifier \in Nat
      BY <2>1, <3>1, ProductNat
    <3> QED BY <2>1, <3>2, <3>3, <3>4
  <2> HIDE DEF p
  <2>3. RoundDiv(p, FactorUnit * FactorUnit) >= 100
    BY <2>2 DEF RoundDiv, FactorUnit
  <2> QED BY <1>1, <2>3 DEF PassInterval, m, p, OneDay
<1>2. s.interval * s.ease * IntervalModifier \in Nat
  <2>1. s.interval * s.ease \in Nat
    BY <1>0, ProductNat
  <2> QED BY <2>1, ProductNat, ParamsAssumption
<1>3. \A n \in Nat : Larger(OneDay, n) >= OneDay
  BY DEF Larger, OneDay
<1>4. CASE g = "good"
  <2>1. EaseUnit * FactorUnit \in Nat \ {0}
    BY DEF EaseUnit, FactorUnit
  <2>2. RoundDiv(s.interval * s.ease * IntervalModifier, EaseUnit * FactorUnit) \in Nat
    BY <1>2, <2>1, RoundDivType
  <2> QED BY <1>3, <1>4, <2>2 DEF PassInterval
<1>5. CASE g = "easy"
  <2>1. EaseUnit * FactorUnit * FactorUnit \in Nat \ {0}
    BY DEF EaseUnit, FactorUnit
  <2>2. s.interval * s.ease * EasyBonus * IntervalModifier \in Nat
    <3>1. s.interval * s.ease \in Nat
      BY <1>0, ProductNat
    <3>2. s.interval * s.ease * EasyBonus \in Nat
      BY <3>1, ProductNat, ParamsAssumption
    <3> QED BY <3>2, ProductNat, ParamsAssumption
  <2>3. RoundDiv(s.interval * s.ease * EasyBonus * IntervalModifier,
                 EaseUnit * FactorUnit * FactorUnit) \in Nat
    BY <2>1, <2>2, RoundDivType
  <2> QED BY <1>3, <1>5, <2>3 DEF PassInterval
<1> QED BY <1>1, <1>4, <1>5 DEF Grades

LEMMA TypeInit == Init => TypeOK
BY LifeAssumption, NewStateType DEF Init, TypeOK

LEMMA TypeStep == TypeOK /\ [Next]_vars => TypeOK'
<1> SUFFICES ASSUME TypeOK, [Next]_vars
             PROVE  TypeOK'
  OBVIOUS
<1>1. CASE Next
  <2>1. PICK g \in Grades, now \in Instants : Grade(g, now)
    BY <1>1 DEF Next
  <2>2. now \in Nat
    BY LifeAssumption
  <2>3. card' \in States
    BY <2>1, <2>2, ApplyType DEF Grade, TypeOK
  <2> QED BY <2>1, <2>3 DEF Grade, TypeOK
<1>2. CASE UNCHANGED vars
  BY <1>2 DEF vars, TypeOK
<1> QED BY <1>1, <1>2

\* Every reachable card is a state of the scheduler: its step is one of the
\* configured steps and its ease keeps the floor (applyLearning, applyReview).
THEOREM TypeCorrect == Spec => []TypeOK
BY TypeInit, TypeStep, PTL DEF Spec

LEMMA InvStep == TypeOK /\ CardInv /\ [Next]_vars => CardInv'
<1> SUFFICES ASSUME TypeOK, CardInv, [Next]_vars
             PROVE  CardInv'
  OBVIOUS
<1> USE DEF CardInv, PhaseFields, LapseFields
<1>1. CASE Next
  <2>1. PICK g \in Grades, now \in Instants : Grade(g, now)
    BY <1>1 DEF Next
  <2>2. card \in States /\ card' = Apply(card, g, now)
    BY <2>1 DEF Grade, TypeOK
  <2>3. /\ GraduatingInterval \in Nat /\ GraduatingInterval >= OneDay
        /\ EasyInterval \in Nat /\ EasyInterval >= OneDay
    BY ParamsAssumption, IntervalsAssumption
  <2>4. CASE card.phase = "new"
    BY <2>2, <2>3, <2>4 DEF Apply, ApplyNew, States, OneDay
  <2>5. CASE card.phase \in {"learning", "relearning"}
    <3>1. \A d \in Nat : d >= OneDay => /\ GraduateInterval(card, d) \in Nat
                                        /\ GraduateInterval(card, d) >= OneDay
      BY <2>3 DEF GraduateInterval, Larger, OneDay
    <3>2. ASSUME NEW d \in Nat, d >= OneDay, card' = Graduate(card, now, d)
          PROVE  CardInv'
      BY <2>2, <2>5, <3>1, <3>2 DEF Graduate, States, OneDay
    <3>3. ASSUME NEW i \in Nat, card' = AtStep(card, i, now)
          PROVE  CardInv'
      BY <2>2, <2>5, <3>3 DEF AtStep, States
    <3>4. card' = ApplyLearning(card, g, now)
      BY <2>2, <2>5 DEF Apply
    <3>5. ClampStep(card.step) \in Nat /\ ClampStep(card.step) + 1 \in Nat
      <4>1. card.step \in Nat
        BY <2>2, StepsType DEF States, StepIndices
      <4>2. ClampStep(card.step) \in StepIndices
        BY <4>1, ClampStepType
      <4> QED BY <4>2, StepsType DEF StepIndices
    <3>6. CASE g = "again"
      BY <3>3, <3>4, <3>6 DEF ApplyLearning
    <3>7. CASE g = "hard"
      BY <3>3, <3>4, <3>5, <3>7 DEF ApplyLearning
    <3>8. CASE g = "good"
      <4>1. \/ card' = AtStep(card, ClampStep(card.step) + 1, now)
            \/ card' = Graduate(card, now, GraduatingInterval)
        BY <3>4, <3>8 DEF ApplyLearning
      <4> QED BY <2>3, <3>2, <3>3, <3>5, <4>1
    <3>9. CASE g = "easy"
      BY <2>3, <3>2, <3>4, <3>9 DEF ApplyLearning
    <3> QED BY <3>6, <3>7, <3>8, <3>9 DEF Grades
  <2>6. CASE card.phase = "review"
    <3>1. CASE g = "again"
      <4>1. card' = Lapse(card, now)
        BY <2>2, <2>6, <3>1 DEF Apply, ApplyReview
      <4>2. /\ card'.phase = "relearning" /\ card'.interval = card.interval
            /\ card'.lapses = card.lapses + 1
        BY <2>2, <4>1 DEF Lapse, States
      <4>3. card.lapses \in Nat
        BY <2>2 DEF States
      <4> QED BY <2>6, <4>2, <4>3
    <3>2. CASE g # "again"
      <4>1. PassInterval(card, g) \in Nat /\ PassInterval(card, g) >= OneDay
        BY <2>2, <3>2, PassIntervalType, PassAtLeastADay
      <4> QED BY <2>2, <2>6, <3>2, <4>1 DEF Apply, ApplyReview, Pass, States, OneDay
    <3> QED BY <3>1, <3>2
  <2> QED BY <2>2, <2>4, <2>5, <2>6 DEF States, Phases
<1>2. CASE UNCHANGED vars
  BY <1>2 DEF vars
<1> QED BY <1>1, <1>2

\* The phase decides which fields of a card mean something, for every grading
\* history: a learning card has no interval, a graduated one has at least a
\* day, and a card that lapsed never goes back to learning.
THEOREM CardInvariant == Spec => []CardInv
<1>1. Init => CardInv
  BY DEF Init, CardInv, PhaseFields, LapseFields, NewState
<1> QED BY <1>1, TypeCorrect, InvStep, PTL DEF Spec

-----------------------------------------------------------------------------
(* The order of the grades. *)

LEMMA DaysOrdered ==
  ASSUME NEW i \in Nat, NEW j \in Nat, i <= j
  PROVE  Days(i) <= Days(j)
<1>1. PICK m \in Nat, n \in Nat : m = i * DayTicks /\ n = j * DayTicks
  BY ProductNat, ParamsAssumption
<1>2. m <= n
  BY <1>1, ParamsAssumption
<1> QED BY <1>1, <1>2 DEF Days, OneDay

\* A step lasts no longer than a later one, nor than a day.
LEMMA StepsOrdered ==
  ASSUME NEW i \in Nat, NEW j \in Nat, i <= j
  PROVE  /\ StepDuration(i) \in Nat /\ StepDuration(j) \in Nat
         /\ StepDuration(i) <= StepDuration(j)
         /\ StepDuration(j) <= Days(OneDay)
<1>1. /\ ClampStep(i) + 1 \in DOMAIN Steps /\ ClampStep(j) + 1 \in DOMAIN Steps
      /\ ClampStep(i) <= ClampStep(j)
  BY StepsType DEF ClampStep
<1>2. ClampStep(i) \in Nat /\ ClampStep(j) \in Nat
  BY StepsType DEF ClampStep
<1>3. Days(OneDay) = DayTicks
  BY ParamsAssumption DEF Days, OneDay
<1>4. ClampStep(i) + 1 <= ClampStep(j) + 1
  BY <1>1, <1>2
<1>5. StepDuration(i) \in Nat /\ StepDuration(j) \in Nat
  BY StepDurationType
<1> QED BY <1>1, <1>3, <1>4, <1>5, OrderAssumption DEF StepDuration

\* Of a card that has a day or more, Hard gives more than it had, Good no less
\* than Hard, Easy no less than Good.
LEMMA PassesOrdered ==
  ASSUME NEW s \in States, s.interval >= OneDay
  PROVE  /\ PassInterval(s, "hard") \in Nat /\ PassInterval(s, "good") \in Nat
         /\ PassInterval(s, "easy") \in Nat
         /\ s.interval < PassInterval(s, "hard")
         /\ PassInterval(s, "hard") <= PassInterval(s, "good")
         /\ PassInterval(s, "good") <= PassInterval(s, "easy")
<1>1. PICK v \in Nat, e \in Nat, h \in Nat, m \in Nat, b \in Nat :
        /\ v = s.interval /\ e = s.ease /\ h = HardIntervalFactor
        /\ m = IntervalModifier /\ b = EasyBonus
  BY ParamsAssumption DEF States, Eases
<1>2. v >= 100 /\ h >= 11 /\ e >= 2 * h /\ m >= 10 /\ b >= 10
  <2>1. e >= MinEase /\ MinEase \in Nat
    BY <1>1, ParamsAssumption DEF States, Eases
  <2> QED BY <1>1, <2>1, OrderAssumption, IntervalsAssumption
          DEF OneDay, FactorUnit, EaseUnit
<1>3. PICK x \in Nat, y \in Nat, z \in Nat :
        x = v * h * m /\ y = v * e * m /\ z = v * e * b * m
  BY ProductNat
<1>4. v * h \in Nat /\ v * h >= 1100
  BY <1>2, ProductNat, ProductMonotone
<1>5. x >= 110 * v
  <2>1. v * h >= v * 11
    BY <1>2, ProductMonotone
  <2>2. (v * h) * m >= (v * h) * 10
    BY <1>2, <1>4, ProductMonotone
  <2> QED BY <1>3, <1>4, <2>1, <2>2
<1>6. y >= 2 * x
  <2>1. 2 * h \in Nat /\ v * e >= v * (2 * h) /\ v * e \in Nat
    BY <1>2, ProductNat, ProductMonotone
  <2>2. PICK p \in Nat, q \in Nat : p = v * e /\ q = v * h
    BY <1>4, <2>1
  <2>3. p >= 2 * q
    BY <2>1, <2>2
  <2>4. p * m >= (2 * q) * m
    BY <2>2, <2>3
  <2>5. (2 * q) * m = 2 * (q * m) /\ q * m \in Nat
    BY <2>2, ProductNat
  <2> QED BY <1>3, <2>2, <2>4, <2>5
<1>7. z >= 10 * y
  <2>1. PICK p \in Nat : p = v * e
    BY ProductNat
  <2>2. p * b \in Nat /\ p * b >= p * 10
    BY <1>2, <2>1, ProductNat, ProductMonotone
  <2>3. PICK q \in Nat : q = p * b
    BY <2>2
  <2>4. q * m >= (10 * p) * m
    BY <2>2, <2>3
  <2>5. (10 * p) * m = 10 * (p * m) /\ p * m \in Nat
    BY <2>1, ProductNat
  <2> QED BY <1>3, <2>1, <2>3, <2>4, <2>5
<1>8. PassInterval(s, "hard") = (x + 50) \div 100
  <2>1. Larger(OneDay * FactorUnit, v * h) = v * h
    BY <1>4 DEF Larger, OneDay, FactorUnit
  <2>2. PassInterval(s, "hard") = RoundDiv(x, 100)
    BY <1>1, <1>3, <2>1 DEF PassInterval, FactorUnit
  <2> QED BY <2>2 DEF RoundDiv
<1>9. PassInterval(s, "good") = Larger(100, (y + 100) \div 200)
  <2>1. PassInterval(s, "good") = Larger(100, RoundDiv(y, 200))
    BY <1>1, <1>3 DEF PassInterval, OneDay, EaseUnit, FactorUnit
  <2> QED BY <2>1 DEF RoundDiv
<1>10. PassInterval(s, "easy") = Larger(100, (z + 1000) \div 2000)
  <2>1. PassInterval(s, "easy") = Larger(100, RoundDiv(z, 2000))
    BY <1>1, <1>3 DEF PassInterval, OneDay, EaseUnit, FactorUnit
  <2> QED BY <2>1 DEF RoundDiv
<1>11. /\ (x + 50) \div 100 \in Nat /\ v < (x + 50) \div 100
       /\ (x + 50) \div 100 <= (y + 100) \div 200
       /\ (y + 100) \div 200 <= (z + 1000) \div 2000
       /\ (y + 100) \div 200 \in Nat /\ (z + 1000) \div 2000 \in Nat
  BY <1>2, <1>5, <1>6, <1>7
<1> QED BY <1>1, <1>8, <1>9, <1>10, <1>11 DEF Larger

\* A graduated interval is the one asked for: no knob raises it.
LEMMA GraduatesTo ==
  ASSUME NEW s \in States, NEW d \in {GraduatingInterval, EasyInterval}
  PROVE  GraduateInterval(s, d) = d
BY IntervalsAssumption, ParamsAssumption DEF GraduateInterval, Larger, OneDay

LEMMA OrderedNow ==
  ASSUME TypeOK, CardInv, NEW now \in Nat
  PROVE  /\ Apply(card, "again", now).due <= Apply(card, "hard", now).due
         /\ Apply(card, "hard", now).due <= Apply(card, "good", now).due
         /\ Apply(card, "good", now).due <= Apply(card, "easy", now).due
<1>1. /\ Days(OneDay) \in Nat /\ Days(GraduatingInterval) \in Nat /\ Days(EasyInterval) \in Nat
      /\ Days(OneDay) <= Days(GraduatingInterval)
      /\ Days(GraduatingInterval) <= Days(EasyInterval)
  BY DaysType, DaysOrdered, ParamsAssumption, IntervalsAssumption, OrderAssumption DEF OneDay
<1>2. card \in States /\ card.step \in Nat
  BY StepsType DEF TypeOK, States, StepIndices
<1>3. CASE card.phase = "new"
  <2>1. StepDuration(0) \in Nat /\ StepDuration(0) <= Days(OneDay)
    BY StepsOrdered
  <2>2. /\ \A g \in {"again", "hard", "good"} : Apply(card, g, now).due = now + StepDuration(0)
        /\ Apply(card, "easy", now).due = now + Days(EasyInterval)
    BY <1>2, <1>3 DEF Apply, ApplyNew, States
  <2> QED BY <1>1, <2>1, <2>2
<1>4. CASE card.phase \in {"learning", "relearning"}
  <2>1. PICK i \in Nat : i = ClampStep(card.step)
    <3>1. ClampStep(card.step) \in StepIndices
      BY <1>2, ClampStepType
    <3> QED BY <3>1, StepsType DEF StepIndices
  <2>2. /\ StepDuration(0) \in Nat /\ StepDuration(i) \in Nat /\ StepDuration(i + 1) \in Nat
        /\ StepDuration(0) <= StepDuration(i) /\ StepDuration(i) <= StepDuration(i + 1)
        /\ StepDuration(i + 1) <= Days(OneDay)
    BY StepsOrdered
  <2>3. /\ Apply(card, "again", now).due = now + StepDuration(0)
        /\ Apply(card, "hard", now).due = now + StepDuration(i)
        /\ \/ Apply(card, "good", now).due = now + StepDuration(i + 1)
           \/ Apply(card, "good", now).due = now + Days(GraduatingInterval)
        /\ Apply(card, "easy", now).due = now + Days(EasyInterval)
    <3>1. \A g \in Grades : Apply(card, g, now) = ApplyLearning(card, g, now)
      BY <1>4 DEF Apply
    <3>2. \A n \in Nat : AtStep(card, n, now).due = now + StepDuration(n)
      BY <1>2 DEF AtStep, States
    <3>3. \A d \in {GraduatingInterval, EasyInterval} : Graduate(card, now, d).due = now + Days(d)
      BY <1>2, GraduatesTo DEF Graduate, States
    <3> QED BY <2>1, <3>1, <3>2, <3>3 DEF ApplyLearning, Grades
  <2> QED BY <1>1, <2>2, <2>3
<1>5. CASE card.phase = "review"
  <2>1. card.interval >= OneDay /\ OneDay \in Nat /\ card.interval \in Nat
    BY <1>2, <1>5 DEF CardInv, PhaseFields, OneDay, States
  <2>2. PICK h \in Nat, d \in Nat, e \in Nat :
          /\ h = PassInterval(card, "hard") /\ d = PassInterval(card, "good")
          /\ e = PassInterval(card, "easy")
          /\ card.interval < h /\ h <= d /\ d <= e
    BY <1>2, <2>1, PassesOrdered
  <2>3. /\ StepDuration(0) \in Nat /\ StepDuration(0) <= Days(OneDay)
        /\ Days(h) \in Nat /\ Days(d) \in Nat /\ Days(e) \in Nat
        /\ Days(OneDay) <= Days(h) /\ Days(h) <= Days(d) /\ Days(d) <= Days(e)
    <3>1. OneDay <= h
      BY <2>1, <2>2
    <3> QED BY <2>1, <2>2, <3>1, StepsOrdered, DaysType, DaysOrdered
  <2>4. /\ Apply(card, "again", now).due = now + StepDuration(0)
        /\ Apply(card, "hard", now).due = now + Days(h)
        /\ Apply(card, "good", now).due = now + Days(d)
        /\ Apply(card, "easy", now).due = now + Days(e)
    BY <1>2, <1>5, <2>2 DEF Apply, ApplyReview, Lapse, Pass, States
  <2> QED BY <1>1, <2>3, <2>4
<1> QED BY <1>2, <1>3, <1>4, <1>5 DEF States, Phases

LEMMA OrderFollows == TypeOK /\ CardInv => GradesOrdered
BY OrderedNow, LifeAssumption DEF GradesOrdered

\* At every reachable card, whatever its history, Again brings it back no later
\* than Hard, Hard than Good and Good than Easy (applyNew, applyLearning,
\* graduate, applyReview): the rounding of the products does not turn them.
THEOREM GradesAlwaysOrdered == Spec => []GradesOrdered
BY OrderFollows, TypeCorrect, CardInvariant, PTL

LEMMA PassGrowsStep ==
  ASSUME TypeOK, CardInv, Next, card.phase = "review"
  PROVE  IF card'.phase = "review"
         THEN card'.interval > card.interval /\ card'.reps = card.reps + 1
         ELSE card'.interval = card.interval /\ card'.lapses = card.lapses + 1
<1>1. PICK g \in Grades, now \in Instants : Grade(g, now)
  BY DEF Next
<1>2. card \in States /\ card' = ApplyReview(card, g, now)
  BY <1>1 DEF Grade, TypeOK, Apply
<1>3. CASE g = "again"
  BY <1>2, <1>3 DEF ApplyReview, Lapse, States
<1>4. CASE g # "again"
  <2>1. card.interval >= OneDay
    BY DEF CardInv, PhaseFields
  <2>2. card.interval \in Nat /\ PassInterval(card, g) \in Nat
        /\ PassInterval(card, g) > card.interval
    <3>1. /\ card.interval \in Nat
          /\ PassInterval(card, "hard") \in Nat /\ PassInterval(card, "good") \in Nat
          /\ PassInterval(card, "easy") \in Nat
          /\ card.interval < PassInterval(card, "hard")
          /\ PassInterval(card, "hard") <= PassInterval(card, "good")
          /\ PassInterval(card, "good") <= PassInterval(card, "easy")
      BY <1>2, <2>1, PassesOrdered DEF States
    <3> QED BY <1>4, <3>1 DEF Grades
  <2> QED BY <1>2, <1>4, <2>2 DEF ApplyReview, Pass, States
<1> QED BY <1>3, <1>4

\* A pass in review lengthens the interval, whichever of the three it is and
\* however it is rounded; a lapse keeps the interval and is counted (applyReview).
THEOREM PassAlwaysGrows == Spec => PassGrows
<1>1. TypeOK /\ CardInv /\ [Next]_vars =>
        [card.phase = "review" =>
           IF card'.phase = "review"
           THEN card'.interval > card.interval /\ card'.reps = card.reps + 1
           ELSE card'.interval = card.interval /\ card'.lapses = card.lapses + 1]_vars
  BY PassGrowsStep
<1> QED BY <1>1, TypeCorrect, CardInvariant, PTL DEF Spec, PassGrows
=============================================================================
