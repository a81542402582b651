------------------------------ MODULE MCCatalog ------------------------------
(***************************************************************************)
(* Catalog for TLC: small budgets of calls, one per question.              *)
(***************************************************************************)
EXTENDS Catalog

CONSTANTS n1, n2

MCBudget(n, c, o, d, p, b, v, k, r, x) ==
  [names |-> n, create |-> c, open |-> o, drop |-> d, put |-> p, batch |-> b, view |-> v,
   checkpoint |-> k, round |-> r, crash |-> x]

MCBudgets ==
  { MCBudget({n1}, 2, 1, 1, 2, 0, 0, 1, 0, 1),
    MCBudget({n1, n2}, 2, 0, 0, 1, 1, 1, 0, 0, 1),
    MCBudget({n1}, 1, 1, 1, 1, 0, 0, 1, 1, 1) }
=============================================================================
