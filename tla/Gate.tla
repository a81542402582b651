-------------------------------- MODULE Gate --------------------------------
(***************************************************************************)
(* The shared/exclusive admission gate of src/src/concurrency/gate.rs.     *)
(*                                                                         *)
(* One machine word holds the state: its top bit says that an exclusive    *)
(* entrant is pending or inside, the bits below count the shared guards    *)
(* that are alive.  CommitGate, the maintenance gate and the per-tree      *)
(* mutation gate are instances of this gate.                               *)
(*                                                                         *)
(* A load followed by a compare_exchange that succeeds is one step: the    *)
(* exchange only succeeds on the value the load returned.  A failed        *)
(* exchange retries and changes nothing.                                   *)
(***************************************************************************)
EXTENDS Integers, FiniteSets

CONSTANTS
  Threads,    \* the callers; each holds at most one guard of this gate
  WRITE_BIT   \* 1 << 63 in the code; the word counts below it

ASSUME GateAssumption ==
  /\ IsFiniteSet(Threads)
  /\ WRITE_BIT \in Nat
  /\ WRITE_BIT > 1

VARIABLES
  state,      \* the AtomicUsize
  pc          \* what each caller holds: nothing, a guard, or the pending bit

vars == <<state, pc>>

COUNT_MASK == WRITE_BIT - 1

\* state & WRITE_BIT != 0
WritePending == state >= WRITE_BIT

\* state & COUNT_MASK
SharedCount == IF WritePending THEN state - WRITE_BIT ELSE state

Init ==
  /\ state = 0
  /\ pc = [t \in Threads |-> "out"]

\* Mutant of EnterShared: the pending bit is not consulted.
EnterSharedIgnoringPending(t) ==
  /\ pc[t] = "out"
  /\ SharedCount # COUNT_MASK
  /\ state' = state + 1
  /\ pc' = [pc EXCEPT ![t] = "shared"]

\* Mutant of EnterShared: the count may grow into the pending bit.
EnterSharedPastMask(t) ==
  /\ pc[t] = "out"
  /\ ~WritePending
  /\ state' = state + 1
  /\ pc' = [pc EXCEPT ![t] = "shared"]

EnterShared(t) ==
  /\ pc[t] = "out"
  /\ ~WritePending
  /\ SharedCount # COUNT_MASK
  /\ state' = state + 1
  /\ pc' = [pc EXCEPT ![t] = "shared"]

LeaveShared(t) ==
  /\ pc[t] = "shared"
  /\ state' = state - 1
  /\ pc' = [pc EXCEPT ![t] = "out"]

\* Mutant of SetPending: the entrant waits without setting the bit.
SetPendingUnmarked(t) ==
  /\ pc[t] = "out"
  /\ ~WritePending
  /\ pc' = [pc EXCEPT ![t] = "draining"]
  /\ UNCHANGED state

\* The exchange of enter_exclusive that sets the pending bit.
SetPending(t) ==
  /\ pc[t] = "out"
  /\ ~WritePending
  /\ state' = state + WRITE_BIT
  /\ pc' = [pc EXCEPT ![t] = "draining"]

\* The drain loop of enter_exclusive sees no shared guard left.
Drained(t) ==
  /\ pc[t] = "draining"
  /\ SharedCount = 0
  /\ pc' = [pc EXCEPT ![t] = "exclusive"]
  /\ UNCHANGED state

\* leave_exclusive stores 0 over the whole word, the count included.
LeaveExclusive(t) ==
  /\ pc[t] = "exclusive"
  /\ state' = 0
  /\ pc' = [pc EXCEPT ![t] = "out"]

Next ==
  \E t \in Threads :
    \/ EnterShared(t)
    \/ LeaveShared(t)
    \/ SetPending(t)
    \/ Drained(t)
    \/ LeaveExclusive(t)

Spec == Init /\ [][Next]_vars

(***************************************************************************)
(* Guards are RAII values held over bounded critical sections, so every    *)
(* guard is eventually dropped, and a thread that spins in the drain loop  *)
(* keeps re-reading the word.  Nothing is assumed about entering.          *)
(***************************************************************************)
Fairness ==
  \A t \in Threads :
    /\ WF_vars(LeaveShared(t))
    /\ WF_vars(Drained(t))

FairSpec == Spec /\ Fairness

-----------------------------------------------------------------------------
TypeOK ==
  /\ state \in 0 .. (2 * WRITE_BIT - 1)
  /\ pc \in [Threads -> {"out", "shared", "draining", "exclusive"}]

SharedHolders == {t \in Threads : pc[t] = "shared"}

Writers == {t \in Threads : pc[t] \in {"draining", "exclusive"}}

(***************************************************************************)
(* The word is an exact account of the guards that are alive: its low bits *)
(* count the shared guards and its top bit is set exactly while one        *)
(* exclusive entrant drains or holds the gate.  This is what makes         *)
(* fetch_sub never underflow into the top bit, and the unconditional       *)
(* store(0) of leave_exclusive never forget a shared guard (gate.rs:76-82).*)
(***************************************************************************)
WordIsExact ==
  /\ SharedCount = Cardinality(SharedHolders)
  /\ WritePending <=> Writers # {}
  /\ \A t, u \in Writers : t = u

(***************************************************************************)
(* Exclusive admission excludes everyone: while a thread holds the         *)
(* exclusive guard no other guard of the gate is alive (gate.rs:53-74).    *)
(***************************************************************************)
Exclusion ==
  \A t \in Threads :
    pc[t] = "exclusive" => \A u \in Threads \ {t} : pc[u] \notin {"shared", "exclusive"}

(***************************************************************************)
(* While an exclusive entrant waits, the set of shared holders only        *)
(* shrinks: no shared entrant overtakes a pending one (gate.rs:3-7, 40).   *)
(***************************************************************************)
NoOvertaking ==
  [][\A t \in Threads :
       pc[t] = "draining" /\ pc'[t] = "draining"
         => SharedHolders' \subseteq SharedHolders]_vars

(***************************************************************************)
(* "new shared entrants cannot starve it" (gate.rs:5-7): once the pending  *)
(* bit is set the exclusive entrant gets in.                               *)
(***************************************************************************)
PendingGetsIn ==
  \A t \in Threads : pc[t] = "draining" ~> pc[t] = "exclusive"

(***************************************************************************)
(* The gate implements the abstract lock: shared guards are the shared     *)
(* holders, and a draining entrant does not hold anything yet.             *)
(***************************************************************************)
Lock == INSTANCE RWLock WITH
          shared <- SharedHolders,
          exclusive <- {t \in Threads : pc[t] = "exclusive"}

ImplementsRWLock == Lock!Spec
=============================================================================
