SPECIFICATION Spec
CONSTANTS
  g1 = g1
  g2 = g2
  r1 = r1
  Guids = {g1, g2}
  Readers = {r1}
  Faults = {"capacity", "write", "datasync", "append", "logsync", "rename", "snapdir", "truncate"}
  Budgets <- MCBudgets
SYMMETRY MCSymmetry
INVARIANTS
  SlotsHaveOneOwner
  
  ReadsOwnImage
