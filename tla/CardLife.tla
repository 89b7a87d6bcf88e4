------------------------------ MODULE CardLife ------------------------------
(***************************************************************************)
(* The life of one Card under the scheduler: any grade may arrive at any   *)
(* time, for Grade (internal/review) does not look at due_at.              *)
(***************************************************************************)
EXTENDS Schedule

CONSTANTS
  Instants,        \* the instants a grade may arrive at
  MaxGrades,       \* bound: the grades a card receives in one behaviour
  MaxInterval      \* bound: no further grade of a card with a longer interval

ASSUME LifeAssumption ==
  Instants \subseteq Nat /\ MaxGrades \in Nat /\ MaxInterval \in Nat

\* DefaultParams, the only Params of the program, meets this; a knob under it
\* would let a card graduate to less than a day or a pass shrink its interval.
ASSUME IntervalsAssumption ==
  /\ GraduatingInterval >= OneDay
  /\ EasyInterval >= OneDay
  /\ IntervalModifier >= FactorUnit

\* What the order of the grades rests on: DefaultParams (1m, 10m; 1 and 4 days;
\* 1.2, 1.3, an ease of 1.3 or more) meets it, but no code of the scheduler
\* checks it.
ASSUME OrderAssumption ==
  /\ \A i, j \in DOMAIN Steps : i <= j => Steps[i] <= Steps[j]
  /\ \A i \in DOMAIN Steps : Steps[i] <= DayTicks
  /\ GraduatingInterval <= EasyInterval
  /\ HardIntervalFactor > FactorUnit
  /\ MinEase * FactorUnit >= HardIntervalFactor * EaseUnit
  /\ EasyBonus >= FactorUnit

VARIABLES card,    \* the scheduling state
          grades   \* how many grades it has received
vars == <<card, grades>>

TypeOK == card \in States /\ grades \in Nat

Init == \E now \in Instants : card = NewState(now) /\ grades = 0

Grade(g, now) ==
  /\ grades < MaxGrades
  /\ card.interval <= MaxInterval
  /\ grades' = grades + 1
  /\ card' = Apply(card, g, now)

Next == \E g \in Grades, now \in Instants : Grade(g, now)

Spec == Init /\ [][Next]_vars

-----------------------------------------------------------------------------
\* What every reachable card satisfies, whatever it was graded and when: the
\* phase decides which fields mean something (applyNew, applyLearning,
\* graduate and applyReview each set only some of them and trust the rest).
PhaseFields ==
  /\ card.phase = "new" => card.step = 0 /\ card.interval = 0
  /\ card.phase = "learning" => card.interval = 0
  /\ card.phase \in {"review", "relearning"} => card.interval >= OneDay
  /\ card.phase \in {"new", "review"} => card.step = 0

\* A card that never lapsed is not relearning, and one that lapsed never goes
\* back to new or learning.
LapseFields ==
  /\ card.phase = "relearning" => card.lapses > 0
  /\ card.lapses > 0 => card.phase \in {"review", "relearning"}
  /\ card.phase \in {"new", "learning"} => card.reps = 0

CardInv == PhaseFields /\ LapseFields

\* At every reachable card a better grade never brings the card back earlier
\* than a worse one (applyNew, applyLearning, graduate and applyReview).
GradesOrdered ==
  \A now \in Instants :
    LET due(g) == Apply(card, g, now).due IN
    due("again") <= due("hard") /\ due("hard") <= due("good")
      /\ due("good") <= due("easy")

\* A pass in review grows the interval; only a lapse loses it, and only when
\* the card graduates again (applyReview keeps the old interval for reference).
PassGrows ==
  [][card.phase = "review" =>
       IF card'.phase = "review"
       THEN card'.interval > card.interval /\ card'.reps = card.reps + 1
       ELSE card'.interval = card.interval /\ card'.lapses = card.lapses + 1]_vars
=============================================================================
