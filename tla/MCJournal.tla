----------------------------- MODULE MCJournal -----------------------------
(* The journal for TLC. *)
EXTENDS Journal

\* Without wal_sync; with it, a full channel and failing system calls.
MCOptions ==
  {[sync |-> FALSE, depth |-> 2, records |-> 3, faults |-> 0],
   [sync |-> TRUE, depth |-> 1, records |-> 2, faults |-> 2]}

\* With wal_sync, where a crash may tear the last record.
MCTornOptions == {[sync |-> TRUE, depth |-> 2, records |-> 2, faults |-> 0]}
=============================================================================
