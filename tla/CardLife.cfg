SPECIFICATION Spec
CONSTANTS
  LearningSteps <- MCLearningSteps
  Minute = 1
  DayTicks = 1440
  GraduatingInterval = 100
  EasyInterval = 400
  StartingEase = 50
  MinEase = 26
  EasyBonus = 13
  IntervalModifier = 10
  HardIntervalFactor = 12
  LapseNewIntervalFactor = 0
  Instants <- MCInstants
  MaxGrades = 10
  MaxInterval = 40000
INVARIANT TypeOK
INVARIANT CardInv
INVARIANT GradesOrdered
PROPERTY PassGrows
CHECK_DEADLOCK FALSE
