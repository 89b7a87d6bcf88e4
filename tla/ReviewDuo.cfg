SPECIFICATION Spec
CONSTANTS
  LearningSteps <- MCLearningSteps
  Minute = 1
  DayTicks = 1
  GraduatingInterval = 100
  EasyInterval = 400
  StartingEase = 50
  MinEase = 26
  EasyBonus = 13
  IntervalModifier = 10
  HardIntervalFactor = 12
  LapseNewIntervalFactor = 0
  w1 = w1
  w2 = w2
  w3 = w3
  s1 = s1
  s2 = s2
  s3 = s3
  t1 = t1
  t2 = t2
  Words = {w1, w2, w3}
  Sentences = {s3}
  CandidatesOf <- MCCandidates
  NoCard = NoCard
  Tabs = {t1, t2}
  Orphans = {}
  SessionLimit = 2
  NewPerDay = 1
  MaxNextSkips = 2
  GradeInputs = {"good", "easy"}
  BuildMayFail = TRUE
  TickMillis = 1
  MaxClock = 1
SYMMETRY TabSymmetry
INVARIANT TypeOK
INVARIANT HistoryReplays
INVARIANT NewIffUnreviewed
INVARIANT RowsInOrder
INVARIANT CapsKept
PROPERTY GradeOnce
CHECK_DEADLOCK FALSE
