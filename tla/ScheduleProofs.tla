--------------------------- MODULE ScheduleProofs ---------------------------
(***************************************************************************)
(* What the scheduler's operators return, for every value of its knobs.    *)
(***************************************************************************)
EXTENDS Schedule, TLAPS

LEMMA StepsType ==
  /\ Steps \in Seq(Nat \ {0})
  /\ Len(Steps) \in Nat \ {0}
<1>1. CASE LearningSteps = <<>>
  BY <1>1, ParamsAssumption DEF Steps
<1>2. CASE LearningSteps # <<>>
  BY <1>2, ParamsAssumption DEF Steps
<1> QED BY <1>1, <1>2

LEMMA ClampStepType ==
  ASSUME NEW i \in Nat
  PROVE  ClampStep(i) \in StepIndices
BY StepsType DEF ClampStep, StepIndices

\* A step lasts at least one tick.
LEMMA StepDurationType ==
  ASSUME NEW i \in Nat
  PROVE  StepDuration(i) \in Nat \ {0}
<1>0. ClampStep(i) \in StepIndices
  BY ClampStepType
<1>1. ClampStep(i) + 1 \in 1 .. Len(Steps)
  BY <1>0, StepsType DEF StepIndices
<1> QED BY <1>1, StepsType DEF StepDuration

LEMMA DivNat ==
  ASSUME NEW n \in Nat, NEW d \in Nat \ {0}
  PROVE  n \div d \in Nat
OBVIOUS

LEMMA RoundDivType ==
  ASSUME NEW n \in Nat, NEW d \in Nat \ {0}
  PROVE  RoundDiv(n, d) \in Nat
<1>1. d \div 2 \in Nat
  OBVIOUS
<1> QED BY <1>1, DivNat DEF RoundDiv

LEMMA ProductNat ==
  ASSUME NEW m \in Nat, NEW n \in Nat
  PROVE  m * n \in Nat
OBVIOUS

LEMMA DaysType ==
  ASSUME NEW i \in Nat
  PROVE  Days(i) \in Nat
<1>1. i * DayTicks \in Nat
  BY ProductNat, ParamsAssumption
<1> QED BY <1>1 DEF Days, OneDay

LEMMA LargerType ==
  ASSUME NEW m \in Int, NEW n \in Int
  PROVE  /\ Larger(m, n) \in Int
         /\ Larger(m, n) >= m /\ Larger(m, n) >= n
         /\ m \in Nat \/ n \in Nat => Larger(m, n) \in Nat
BY DEF Larger

LEMMA PassIntervalType ==
  ASSUME NEW s \in States, NEW g \in Grades, g # "again"
  PROVE  PassInterval(s, g) \in Nat
<1>0. /\ s.interval \in Nat /\ s.ease \in Nat
      /\ EaseUnit * FactorUnit \in Nat \ {0}
      /\ FactorUnit * FactorUnit \in Nat \ {0}
      /\ EaseUnit * FactorUnit * FactorUnit \in Nat \ {0}
      /\ OneDay \in Nat /\ OneDay * FactorUnit \in Nat
  BY DEF States, Eases, EaseUnit, FactorUnit, OneDay
<1>1. CASE g = "hard"
  <2>1. s.interval * HardIntervalFactor \in Nat
    BY <1>0, ProductNat, ParamsAssumption
  <2>2. Larger(OneDay * FactorUnit, s.interval * HardIntervalFactor) \in Nat
    <3> DEFINE x == s.interval * HardIntervalFactor
    <3>1. x \in Nat
      BY <2>1
    <3> HIDE DEF x
    <3>2. Larger(OneDay * FactorUnit, x) \in Nat
      BY <3>1 DEF Larger, OneDay, FactorUnit
    <3> QED BY <3>2 DEF x
  <2>3. Larger(OneDay * FactorUnit, s.interval * HardIntervalFactor) * IntervalModifier \in Nat
    BY <2>2, ProductNat, ParamsAssumption
  <2> QED BY <1>0, <1>1, <2>3, RoundDivType DEF PassInterval
<1>2. s.interval * s.ease * IntervalModifier \in Nat
  <2>1. s.interval * s.ease \in Nat
    BY <1>0, ProductNat
  <2> QED BY <2>1, ProductNat, ParamsAssumption
<1>3. CASE g = "good"
  <2>1. RoundDiv(s.interval * s.ease * IntervalModifier, EaseUnit * FactorUnit) \in Nat
    BY <1>0, <1>2, RoundDivType
  <2> QED BY <1>0, <1>3, <2>1, LargerType DEF PassInterval
<1>4. CASE g = "easy"
  <2>1. s.interval * s.ease * EasyBonus * IntervalModifier \in Nat
    <3>1. s.interval * s.ease \in Nat
      BY <1>0, ProductNat
    <3>2. s.interval * s.ease * EasyBonus \in Nat
      BY <3>1, ProductNat, ParamsAssumption
    <3> QED BY <3>2, ProductNat, ParamsAssumption
  <2>2. RoundDiv(s.interval * s.ease * EasyBonus * IntervalModifier,
                 EaseUnit * FactorUnit * FactorUnit) \in Nat
    BY <1>0, <2>1, RoundDivType
  <2> QED BY <1>0, <1>4, <2>2, LargerType DEF PassInterval
<1> QED BY <1>1, <1>3, <1>4 DEF Grades

\* A card in learning that was stored under more steps than there are now.
Outgrown == [phase : {"learning", "relearning"}, step : Nat, interval : Nat, ease : Eases,
             due : Nat, reps : Nat, lapses : Nat]

LEMMA LearningType ==
  ASSUME NEW s \in Outgrown, NEW g \in Grades, NEW now \in Nat
  PROVE  ApplyLearning(s, g, now) \in States
<1>0. /\ 0 \in StepIndices
      /\ s.step \in Nat
  BY StepsType DEF Outgrown, StepIndices
<1>a. \A i \in Nat : now + StepDuration(i) \in Nat
  <2>1. ASSUME NEW i \in Nat PROVE StepDuration(i) \in Nat
    BY StepDurationType
  <2> QED BY <2>1
<1>b. \A i \in Nat : now + Days(i) \in Nat
  <2>1. ASSUME NEW i \in Nat PROVE Days(i) \in Nat
    BY DaysType
  <2> QED BY <2>1
<1>c. s.ease \in Eases /\ s.reps + 1 \in Nat /\ s.lapses + 1 \in Nat
  BY DEF Outgrown
<1>1. ASSUME NEW i \in StepIndices
      PROVE  AtStep(s, i, now) \in States
  <2>1. i \in Nat
    BY StepsType DEF StepIndices
  <2>2. now + StepDuration(i) \in Nat
    BY <2>1, <1>a
  <2> QED BY <2>2 DEF AtStep, Outgrown, States, Phases
<1>2. ASSUME NEW d \in Nat
      PROVE  Graduate(s, now, d) \in States
  <2>1. GraduateInterval(s, d) \in Nat
    BY ParamsAssumption DEF GraduateInterval, OneDay, Larger
  <2>2. now + Days(GraduateInterval(s, d)) \in Nat
    BY <2>1, <1>b
  <2> QED BY <1>0, <1>c, <2>1, <2>2 DEF Graduate, Outgrown, States, Phases
<1>3. ClampStep(s.step) \in StepIndices
  BY <1>0, ClampStepType
<1>4. /\ AtStep(s, 0, now) \in States
      /\ AtStep(s, ClampStep(s.step), now) \in States
      /\ ClampStep(s.step) + 1 < Len(Steps)
           => AtStep(s, ClampStep(s.step) + 1, now) \in States
  <2>1. ClampStep(s.step) + 1 < Len(Steps)
          => ClampStep(s.step) + 1 \in StepIndices
    BY <1>3, StepsType DEF StepIndices
  <2> QED BY <1>0, <1>1, <1>3, <2>1
<1>5. /\ Graduate(s, now, GraduatingInterval) \in States
      /\ Graduate(s, now, EasyInterval) \in States
  BY <1>2, ParamsAssumption
<1> QED BY <1>4, <1>5, Zenon DEF ApplyLearning, Grades

\* A stored step beyond the steps there are now (learning_step outlives the
\* list it points into) is repaired by the next grade, whatever grade it is and
\* even if no step is left.
THEOREM ApplyRepairs ==
  ASSUME NEW s \in Outgrown, NEW g \in Grades, NEW now \in Nat
  PROVE  Apply(s, g, now) \in States
<1>1. s.phase \in {"learning", "relearning"}
  BY DEF Outgrown
<1>2. Apply(s, g, now) = ApplyLearning(s, g, now)
  BY <1>1 DEF Apply
<1> QED BY <1>2, LearningType

\* A grade in any phase gives a card state again: the step exists, the ease
\* keeps its floor, the times and counters are natural numbers.
THEOREM ApplyType ==
  ASSUME NEW s \in States, NEW g \in Grades, NEW now \in Nat
  PROVE  Apply(s, g, now) \in States
<1>0. /\ 0 \in StepIndices
      /\ s.step \in Nat
  BY StepsType DEF States, StepIndices
<1>a. \A i \in Nat : now + StepDuration(i) \in Nat
  <2>1. ASSUME NEW i \in Nat PROVE StepDuration(i) \in Nat
    BY StepDurationType
  <2> QED BY <2>1
<1>b. \A i \in Nat : now + Days(i) \in Nat
  <2>1. ASSUME NEW i \in Nat PROVE Days(i) \in Nat
    BY DaysType
  <2> QED BY <2>1
<1>c. s.ease \in Eases /\ s.reps + 1 \in Nat /\ s.lapses + 1 \in Nat
  BY DEF States
<1>1. CASE s.phase = "new"
  <2>1. now + StepDuration(0) \in Nat /\ now + Days(EasyInterval) \in Nat
    BY <1>a, <1>b, ParamsAssumption
  <2>2. EasyInterval \in Nat
    BY ParamsAssumption
  <2>3. ApplyNew(s, g, now) \in States
    BY <1>0, <2>1, <2>2 DEF ApplyNew, States, Phases
  <2> QED BY <1>1, <2>3 DEF Apply
<1>2. CASE s.phase \in {"learning", "relearning"}
  <2>1. s \in Outgrown
    BY <1>2, <1>0 DEF States, Outgrown
  <2> QED BY <1>2, <2>1, LearningType DEF Apply
<1>3. CASE s.phase = "review"
  <2>1. CASE g = "again"
    <3>1. now + StepDuration(0) \in Nat
      BY <1>a
    <3>2. Lapse(s, now) \in States
      <4>1. Larger(MinEase, s.ease - 4) \in Eases
        BY <1>c, ParamsAssumption DEF Larger, Eases
      <4> QED BY <1>0, <1>c, <3>1, <4>1 DEF Lapse, States, Phases
    <3> QED BY <1>3, <2>1, <3>2 DEF Apply, ApplyReview
  <2>2. CASE g # "again"
    <3>1. PassInterval(s, g) \in Nat
      BY <2>2, PassIntervalType
    <3>2. PassEase(s, g) \in Eases
      <4>1. s.ease + 3 \in Eases /\ Larger(MinEase, s.ease - 3) \in Eases
        BY <1>c, ParamsAssumption DEF Larger, Eases
      <4> QED BY <1>c, <2>2, <4>1 DEF PassEase, Grades
    <3>3. now + Days(PassInterval(s, g)) \in Nat
      BY <3>1, <1>b
    <3>4. Pass(s, g, now) \in States
      BY <1>c, <3>1, <3>2, <3>3 DEF Pass, States
    <3> QED BY <1>3, <2>2, <3>4 DEF Apply, ApplyReview
  <2> QED BY <2>1, <2>2
<1> QED BY <1>1, <1>2, <1>3 DEF States, Phases

LEMMA NewStateType ==
  ASSUME NEW now \in Nat
  PROVE  NewState(now) \in States
BY StepsType, ParamsAssumption DEF NewState, States, Phases, StepIndices, Eases

\* No grade leaves or makes a card new.
LEMMA ApplyNotNew ==
  ASSUME NEW s \in States, NEW g \in Grades, NEW now \in Nat
  PROVE  Apply(s, g, now).phase # "new"
<1>1. CASE s.phase = "new"
  BY <1>1 DEF Apply, ApplyNew, States
<1>2. CASE s.phase \in {"learning", "relearning"}
  BY <1>2 DEF Apply, ApplyLearning, AtStep, Graduate, States, Grades
<1>3. CASE s.phase = "review"
  BY <1>3 DEF Apply, ApplyReview, Lapse, Pass, States
<1> QED BY <1>1, <1>2, <1>3 DEF States, Phases
=============================================================================
