SPECIFICATION Spec
CONSTANTS
  Texts <- MCTexts
  OccurrencesIn <- MCOccurrencesIn
  MaxRunes = 5
  AnyRunes = 3
  MaxWords = 3
INVARIANT NothingLost
INVARIANT OneTerminator
INVARIANT ReadingInv
INVARIANT SpansSpell
CHECK_DEADLOCK FALSE
