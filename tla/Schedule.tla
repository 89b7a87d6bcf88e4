------------------------------ MODULE Schedule ------------------------------
(***************************************************************************)
(* The SM-2 scheduler of internal/schedule: one pure transition per grade. *)
(*                                                                         *)
(* Floats become integers in a unit the code's constants are multiples of: *)
(* an interval is in hundredths of a day (roundInterval keeps two          *)
(* decimals), an ease in twentieths (the code moves it by 0.2 and 0.15),   *)
(* a factor in tenths.  Instants and durations are in ticks.               *)
(***************************************************************************)
EXTENDS Integers, Sequences

CONSTANTS
  LearningSteps,           \* sequence of durations, in ticks
  Minute,                  \* the duration used when LearningSteps is empty
  DayTicks,                \* ticks in 24 hours
  GraduatingInterval,      \* hundredths of a day
  EasyInterval,
  StartingEase,            \* twentieths
  MinEase,
  EasyBonus,               \* tenths
  IntervalModifier,
  HardIntervalFactor,
  LapseNewIntervalFactor

ASSUME ParamsAssumption ==
  /\ LearningSteps \in Seq(Nat \ {0})
  /\ Minute \in Nat \ {0}
  /\ DayTicks \in Nat \ {0}
  /\ GraduatingInterval \in Nat /\ EasyInterval \in Nat
  /\ MinEase \in Nat /\ StartingEase \in Nat /\ StartingEase >= MinEase
  /\ EasyBonus \in Nat /\ IntervalModifier \in Nat
  /\ HardIntervalFactor \in Nat /\ LapseNewIntervalFactor \in Nat

Phases == {"new", "learning", "review", "relearning"}
Grades == {"again", "hard", "good", "easy"}

OneDay == 100                    \* an interval of 1 day
EaseUnit == 20                   \* an ease of 1.0
FactorUnit == 10                 \* a factor of 1.0

Larger(a, b) == IF a >= b THEN a ELSE b

\* n / d rounded half up, as math.Round does on a non-negative n / d (d is even).
RoundDiv(n, d) == (n + d \div 2) \div d

\* 24h times an interval: the code truncates to nanoseconds, the model to ticks.
Days(interval) == (interval * DayTicks) \div OneDay

\* The steps a learning card walks: one minute when none is configured.
Steps == IF LearningSteps = <<>> THEN <<Minute>> ELSE LearningSteps

\* The 0-based step a card is on, when the configured steps have become fewer.
ClampStep(i) == IF i >= Len(Steps) THEN Len(Steps) - 1 ELSE i
StepDuration(i) == Steps[ClampStep(i) + 1]

\* The states of a card: a step that exists, an ease that kept its floor.
StepIndices == 0 .. Len(Steps) - 1
Eases == {e \in Nat : e >= MinEase}
States == [phase : Phases, step : StepIndices, interval : Nat, ease : Eases,
           due : Nat, reps : Nat, lapses : Nat]

NewState(now) ==
  [phase |-> "new", step |-> 0, interval |-> 0, ease |-> StartingEase,
   due |-> now, reps |-> 0, lapses |-> 0]

ApplyNew(s, g, now) ==
  IF g = "easy"
  THEN [s EXCEPT !.phase = "review", !.step = 0, !.interval = EasyInterval,
                 !.due = now + Days(EasyInterval)]
  ELSE [s EXCEPT !.phase = "learning", !.step = 0, !.interval = 0,
                 !.due = now + StepDuration(0)]

\* After a lapse that keeps nothing (factor 0), the graduating interval is
\* raised to a day; the comparison is by value, as in the code.
GraduateInterval(s, interval) ==
  IF /\ s.phase = "relearning"
     /\ LapseNewIntervalFactor = 0
     /\ interval = GraduatingInterval
  THEN Larger(OneDay, GraduatingInterval)
  ELSE interval

Graduate(s, now, interval) ==
  LET days == GraduateInterval(s, interval) IN
  [s EXCEPT !.phase = "review", !.step = 0, !.interval = days,
            !.due = now + Days(days), !.reps = s.reps + 1]

AtStep(s, i, now) == [s EXCEPT !.step = i, !.due = now + StepDuration(i)]

\* MUTANT: Good on the last step walks past it.
ApplyLearningPastEnd(s, g, now) ==
  LET i == ClampStep(s.step) IN
  CASE g = "again" -> AtStep(s, 0, now)
    [] g = "hard"  -> AtStep(s, i, now)
    [] g = "good"  -> IF i + 1 <= Len(Steps)
                      THEN AtStep(s, i + 1, now)
                      ELSE Graduate(s, now, GraduatingInterval)
    [] g = "easy"  -> Graduate(s, now, EasyInterval)

ApplyLearning(s, g, now) ==
  LET i == ClampStep(s.step) IN
  CASE g = "again" -> AtStep(s, 0, now)
    [] g = "hard"  -> AtStep(s, i, now)
    [] g = "good"  -> IF i + 1 < Len(Steps)
                      THEN AtStep(s, i + 1, now)
                      ELSE Graduate(s, now, GraduatingInterval)
    [] g = "easy"  -> Graduate(s, now, EasyInterval)

\* MUTANT: the old interval is dropped at the lapse instead of at graduation.
LapseForgets(s, now) ==
  [s EXCEPT !.phase = "relearning", !.step = 0, !.lapses = s.lapses + 1, !.interval = 0,
            !.ease = Larger(MinEase, s.ease - 4), !.due = now + StepDuration(0)]

\* MUTANT: a lapse goes back to learning.
LapseToLearning(s, now) ==
  [s EXCEPT !.phase = "learning", !.step = 0, !.lapses = s.lapses + 1,
            !.ease = Larger(MinEase, s.ease - 4), !.due = now + StepDuration(0)]

Lapse(s, now) ==
  [s EXCEPT !.phase = "relearning", !.step = 0, !.lapses = s.lapses + 1,
            !.ease = Larger(MinEase, s.ease - 4), !.due = now + StepDuration(0)]

\* MUTANT: the bonus applied to Good and not to Easy.
PassIntervalSwapped(s, g) ==
  CASE g = "hard" -> RoundDiv(Larger(OneDay * FactorUnit, s.interval * HardIntervalFactor)
                                * IntervalModifier,
                              FactorUnit * FactorUnit)
    [] g = "good" -> RoundDiv(s.interval * s.ease * EasyBonus * IntervalModifier,
                              EaseUnit * FactorUnit * FactorUnit)
    [] g = "easy" -> RoundDiv(s.interval * s.ease * IntervalModifier, EaseUnit * FactorUnit)

\* The next interval of a card that is passed in review.  max(1, _) is taken
\* before the modifier on Hard and after it on Good and Easy.
PassInterval(s, g) ==
  CASE g = "hard" -> RoundDiv(Larger(OneDay * FactorUnit, s.interval * HardIntervalFactor)
                                * IntervalModifier,
                              FactorUnit * FactorUnit)
    [] g = "good" -> Larger(OneDay, RoundDiv(s.interval * s.ease * IntervalModifier,
                                             EaseUnit * FactorUnit))
    [] g = "easy" -> Larger(OneDay,
                            RoundDiv(s.interval * s.ease * EasyBonus * IntervalModifier,
                                     EaseUnit * FactorUnit * FactorUnit))

\* MUTANT: Hard lowers the ease without its floor.
PassEaseNoFloor(s, g) ==
  CASE g = "hard" -> s.ease - 3
    [] g = "good" -> s.ease
    [] g = "easy" -> s.ease + 3

PassEase(s, g) ==
  CASE g = "hard" -> Larger(MinEase, s.ease - 3)
    [] g = "good" -> s.ease
    [] g = "easy" -> s.ease + 3

Pass(s, g, now) ==
  LET days == PassInterval(s, g) IN
  [s EXCEPT !.ease = PassEase(s, g), !.interval = days,
            !.due = now + Days(days), !.reps = s.reps + 1]

ApplyReview(s, g, now) == IF g = "again" THEN Lapse(s, now) ELSE Pass(s, g, now)

\* The whole transition: the state of a card graded g at now.
Apply(s, g, now) ==
  CASE s.phase = "new"                        -> ApplyNew(s, g, now)
    [] s.phase \in {"learning", "relearning"} -> ApplyLearning(s, g, now)
    [] s.phase = "review"                     -> ApplyReview(s, g, now)
=============================================================================
