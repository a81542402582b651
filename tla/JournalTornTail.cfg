SPECIFICATION Spec
CONSTANTS
  Threads = {t1, t2}
  Keys = {k1, k2}
  Options <- MCTornOptions
  TornWrites = TRUE
  MaxCrashes = 1
INVARIANTS
  AckedSurvives
