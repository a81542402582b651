---------------------------- MODULE MCFileStore ----------------------------
EXTENDS FileStore

\* One failing call, or more writes and deletes without one.
MCBudgets ==
  {[writes |-> 2, deletes |-> 1, faults |-> 1, crashes |-> 1],
   [writes |-> 3, deletes |-> 2, faults |-> 0, crashes |-> 1]}

MCSymmetry == Permutations(Guids)
=============================================================================
