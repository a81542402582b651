SPECIFICATION Spec
CONSTANTS
  Threads = {t1, t2, t3}
  Words = {w1, w2}
  LateWords = {}
  Vals = {x, y}
  WRITER = 3
  MaxVersion = 2
INVARIANTS
  CounterIsExact
  
PROPERTIES
  ImplementsRWLock
SYMMETRY Symmetry
