SPECIFICATION SnapSpec
CONSTANTS
  LearningSteps <- MCLearningSteps
  Minute = 1
  DayTicks = 2
  GraduatingInterval = 100
  EasyInterval = 2100
  StartingEase = 50
  MinEase = 26
  EasyBonus = 13
  IntervalModifier = 10
  HardIntervalFactor = 12
  LapseNewIntervalFactor = 0
  w1 = w1
  w2 = w2
  s1 = s1
  s2 = s2
  a1 = a1
  Words = {w1, w2}
  Sentences = {s1, s2}
  CandidatesOf <- MCCandidates
  NoCard = NoCard
  Tabs = {}
  Orphans = {}
  SessionLimit = 3
  NewPerDay = 1
  MaxNextSkips = 2
  GradeInputs = {"good", "easy"}
  BuildMayFail = FALSE
  TickMillis = 1
  MaxClock = 1
  Articles = {a1}
  SentencesOf <- MCSentencesOf
  ComfortableInterval = 100
  MaxExportCards = 1
  MaxExportReviews = 1
  MaxRows = 2
INVARIANT SnapInv
INVARIANT TruncationTold
INVARIANT BackupReplays
INVARIANT ButtonAgreesWithNext
INVARIANT PlainMeansMature
CHECK_DEADLOCK FALSE
