SPECIFICATION FairSpec
CONSTANTS
  Threads = {t1, t2, t3, t4, t5, t6}
  WRITE_BIT = 4
INVARIANTS
  WordIsExact
PROPERTIES
  NoOvertaking
  PendingGetsIn
  ImplementsRWLock
