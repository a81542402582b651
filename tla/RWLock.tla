------------------------------- MODULE RWLock -------------------------------
(***************************************************************************)
(* What every shared/exclusive primitive of the concurrency layer          *)
(* promises: at any time either one exclusive holder and no shared holder, *)
(* or no exclusive holder and any set of shared holders.  Gate and         *)
(* HybridLatch are shown to implement this specification.                  *)
(***************************************************************************)
CONSTANT Threads

VARIABLES
  shared,     \* threads that hold the shared side
  exclusive   \* threads that hold the exclusive side

vars == <<shared, exclusive>>

Init ==
  /\ shared = {}
  /\ exclusive = {}

AcquireShared(t) ==
  /\ t \notin shared \cup exclusive
  /\ exclusive = {}
  /\ shared' = shared \cup {t}
  /\ UNCHANGED exclusive

ReleaseShared(t) ==
  /\ t \in shared
  /\ shared' = shared \ {t}
  /\ UNCHANGED exclusive

AcquireExclusive(t) ==
  /\ shared = {}
  /\ exclusive = {}
  /\ exclusive' = {t}
  /\ UNCHANGED shared

ReleaseExclusive(t) ==
  /\ exclusive = {t}
  /\ exclusive' = {}
  /\ UNCHANGED shared

Next ==
  \E t \in Threads :
    \/ AcquireShared(t)
    \/ ReleaseShared(t)
    \/ AcquireExclusive(t)
    \/ ReleaseExclusive(t)

Spec == Init /\ [][Next]_vars
=============================================================================
