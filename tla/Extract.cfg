SPECIFICATION Spec
CONSTANTS
  a1 = a1
  a2 = a2
  s1 = s1
  s2 = s2
  s3 = s3
  t1 = t1
  t2 = t2
  Tabs = {t1, t2}
  Articles = {a1, a2}
  SentencesOf <- MCSentencesOf
  TokensOf <- MCTokensOf
  Kanji <- MCKanji
  MaxClock = 1
  Never = Never
SYMMETRY TabSymmetry
INVARIANT ExtractInv
INVARIANT RowTruthful
PROPERTY ScheduleKept
PROPERTY FirstExtractKept
PROPERTY CardsNewExact
PROPERTY ImplementsDeck
CHECK_DEADLOCK FALSE
