---------------------------- MODULE MCCheckpoint ----------------------------
(* The checkpoint for TLC. *)
EXTENDS Checkpoint

\* Two epochs in flight; compactions, no-op latchings and an I/O error.
MCBackground ==
  {[depth |-> 2, compact |-> {}, ops |-> 3, noops |-> 0, faults |-> 0],
   [depth |-> 1, compact |-> {"blob"}, ops |-> 2, noops |-> 1, faults |-> 1]}

\* Tree::checkpoint with merges and an I/O error.
MCManual ==
  {[depth |-> 1, compact |-> {"merge"}, ops |-> 3, noops |-> 0, faults |-> 1]}
=============================================================================
