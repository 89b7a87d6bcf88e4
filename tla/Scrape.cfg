SPECIFICATION FairSpec
CONSTANTS
  p = p
  q = q
  z = z
  i1 = i1
  i2 = i2
  x1 = x1
  x2 = x2
  r1 = r1
  r2 = r2
  Scrapes = {r1, r2}
  Sources <- MCSources
  Unconfigured = {z}
  Known = {p}
  Ids = {i1, i2}
  NoId = NoId
  Texts = {x1, x2}
  NoText = NoText
  SentencesOf <- MCSentencesOf
  Feeds <- MCFeeds
INVARIANT ScrapeInv
INVARIANT KnownFetchedMeansOk
PROPERTY ItemsNewExact
PROPERTY ImplementsLibrary
PROPERTY EveryScrapeAnswered
CHECK_DEADLOCK FALSE
