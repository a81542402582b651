SPECIFICATION Spec
CONSTANTS
  n1 = n1
  n2 = n2
  Names = {n1, n2}
  Threads = {t1, t2}
  Checkpointers = {t1}
  WalSync = TRUE
  MaxId = 2
  Budgets <- MCBudgets
INVARIANTS  ViewsAreAtomic DropCompletes
PROPERTY HandlesAreFenced
CHECK_DEADLOCK FALSE
