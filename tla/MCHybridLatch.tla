--------------------------- MODULE MCHybridLatch ----------------------------
(* HybridLatch on a small instance.  Threads, words and values are         *)
(* interchangeable in every definition, so permutations of each are sound. *)
EXTENDS HybridLatch, TLC

Symmetry == Permutations(Threads) \cup Permutations(Vals)
=============================================================================
