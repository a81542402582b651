SPECIFICATION FairSpec
CONSTANTS
  Threads = {t1, t2}
  Keys = {k1, k2}
  Options <- MCOptions
  TornWrites = FALSE
  MaxCrashes = 1
INVARIANTS
  FlushMeansDurable
  SameKeyOrder
  CleanMeansEmpty
  AckedSurvives
PROPERTIES
  EveryoneAnswered
