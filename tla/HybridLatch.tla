---------------------------- MODULE HybridLatch -----------------------------
(***************************************************************************)
(* The three-mode latch of src/src/concurrency/hybrid_latch.rs together    *)
(* with the blob frame it guards (CachedBlob in buffer_manager) and the    *)
(* reader that uses it, lookup_multi_with in engine/walker/lookup.rs.      *)
(*                                                                         *)
(* The frame is a set of words.  A writer changes them one at a time while *)
(* it holds the latch exclusively; an optimistic reader reads them one at  *)
(* a time, holding nothing, and validates afterwards.  LateWords are the   *)
(* words a reader copies only after it validated: none for get_version     *)
(* and exists, the value bytes for get and get_record.                     *)
(*                                                                         *)
(* Every atomic access is a step and memory is sequentially consistent.    *)
(***************************************************************************)
EXTENDS Integers, FiniteSets

CONSTANTS
  Threads,
  Words,        \* the words of the frame
  LateWords,    \* those copied by `consume`, after validation
  Vals,         \* what a word can hold
  WRITER,       \* the counter value of an exclusive hold: u32::MAX
  MaxVersion    \* bound on the number of exclusive holds explored

ASSUME LatchAssumption ==
  /\ IsFiniteSet(Threads)
  /\ LateWords \subseteq Words
  /\ WRITER \in Nat
  /\ WRITER > 1
  /\ MaxVersion \in Nat

VARIABLES
  counter,    \* number of shared holders, or WRITER
  version,    \* bumped on every exclusive release
  frame,      \* the words as they are in memory
  pc,         \* where each thread is
  snap,       \* the version each optimistic reader started from
  seen,       \* the words each optimistic reader has read
  hist        \* history variable: the frame published with each version

vars == <<counter, version, frame, pc, snap, seen, hist>>

Unread == "unread"
Frames == [Words -> Vals]
Nothing == [w \in Words |-> Unread]
EarlyWords == Words \ LateWords

Init ==
  /\ counter = 0
  /\ version = 0
  /\ frame \in Frames
  /\ pc = [t \in Threads |-> "idle"]
  /\ snap = [t \in Threads |-> 0]
  /\ seen = [t \in Threads |-> Nothing]
  /\ hist = [v \in 0 .. MaxVersion |-> frame]

Goto(t, from, to) ==
  /\ pc[t] = from
  /\ pc' = [pc EXCEPT ![t] = to]

\* The reader forgets what it read.
Discard(t, from) ==
  /\ Goto(t, from, "idle")
  /\ snap' = [snap EXCEPT ![t] = 0]
  /\ seen' = [seen EXCEPT ![t] = Nothing]

-----------------------------------------------------------------------------
(* Shared and exclusive mode *)

\* Mutant of AcquireShared: a reader can produce WRITER.
AcquireSharedUpToWriter(t) ==
  /\ Goto(t, "idle", "shared")
  /\ counter # WRITER
  /\ counter' = counter + 1
  /\ UNCHANGED <<version, frame, snap, seen, hist>>

AcquireShared(t) ==
  /\ Goto(t, "idle", "shared")
  /\ counter # WRITER
  /\ counter < WRITER - 1
  /\ counter' = counter + 1
  /\ UNCHANGED <<version, frame, snap, seen, hist>>

ReleaseShared(t) ==
  /\ Goto(t, "shared", "idle")
  /\ counter' = counter - 1
  /\ UNCHANGED <<version, frame, snap, seen, hist>>

\* Mutant of AcquireExclusive: the writer does not wait for the readers.
AcquireExclusiveAtOnce(t) ==
  /\ Goto(t, "idle", "writing")
  /\ version < MaxVersion
  /\ counter' = WRITER
  /\ UNCHANGED <<version, frame, snap, seen, hist>>

AcquireExclusive(t) ==
  /\ Goto(t, "idle", "writing")
  /\ version < MaxVersion
  /\ counter = 0
  /\ counter' = WRITER
  /\ UNCHANGED <<version, frame, snap, seen, hist>>

\* A writer may store any number of words, or none at all.
WriteWord(t, w) ==
  /\ pc[t] = "writing"
  /\ \E x \in Vals : frame' = [frame EXCEPT ![w] = x]
  /\ UNCHANGED <<counter, version, pc, snap, seen, hist>>

\* release_exclusive bumps the version first ...
BumpVersion(t) ==
  /\ Goto(t, "writing", "bumped")
  /\ version' = version + 1
  /\ hist' = [hist EXCEPT ![version + 1] = frame]
  /\ UNCHANGED <<counter, frame, snap, seen>>

\* ... then clears the counter.
ClearWriter(t) ==
  /\ Goto(t, "bumped", "idle")
  /\ counter' = 0
  /\ UNCHANGED <<version, frame, snap, seen, hist>>

-----------------------------------------------------------------------------
(* Optimistic mode *)

\* acquire_optimistic loads the version ...
LoadVersion(t) ==
  /\ Goto(t, "idle", "snapped")
  /\ snap' = [snap EXCEPT ![t] = version]
  /\ UNCHANGED <<counter, version, frame, seen, hist>>

\* ... then the counter, and starts over while a writer holds the latch.
CheckWriter(t) ==
  /\ IF counter # WRITER
       THEN Goto(t, "snapped", "reading") /\ UNCHANGED <<snap, seen>>
       ELSE Discard(t, "snapped")
  /\ UNCHANGED <<counter, version, frame, hist>>

ReadWord(t, w) ==
  /\ \/ pc[t] = "reading" /\ w \in EarlyWords
     \/ pc[t] = "consuming" /\ w \in LateWords
  /\ seen[t][w] = Unread
  /\ seen' = [seen EXCEPT ![t][w] = frame[w]]
  /\ UNCHANGED <<counter, version, frame, pc, snap, hist>>

\* Mutant of ValidateCounter: validate only compares versions.
ValidateCounterSkipped(t) ==
  /\ \A w \in EarlyWords : seen[t][w] # Unread
  /\ Goto(t, "reading", "validating")
  /\ UNCHANGED <<counter, version, frame, snap, seen, hist>>

\* validate first looks at the counter ...
ValidateCounter(t) ==
  /\ \A w \in EarlyWords : seen[t][w] # Unread
  /\ IF counter # WRITER
       THEN Goto(t, "reading", "validating") /\ UNCHANGED <<snap, seen>>
       ELSE Discard(t, "reading")
  /\ UNCHANGED <<counter, version, frame, hist>>

\* ... then compares the version; on a mismatch the walk restarts.
ValidateVersion(t) ==
  /\ IF version = snap[t]
       THEN Goto(t, "validating", "consuming") /\ UNCHANGED <<snap, seen>>
       ELSE Discard(t, "validating")
  /\ UNCHANGED <<counter, version, frame, hist>>

\* The lookup returns to its caller what it read.
Return(t) ==
  /\ \A w \in LateWords : seen[t][w] # Unread
  /\ Goto(t, "consuming", "done")
  /\ UNCHANGED <<counter, version, frame, snap, seen, hist>>

CallAgain(t) ==
  /\ Discard(t, "done")
  /\ UNCHANGED <<counter, version, frame, hist>>

Next ==
  \E t \in Threads :
    \/ AcquireShared(t)
    \/ ReleaseShared(t)
    \/ AcquireExclusive(t)
    \/ \E w \in Words : WriteWord(t, w) \/ ReadWord(t, w)
    \/ BumpVersion(t)
    \/ ClearWriter(t)
    \/ LoadVersion(t)
    \/ CheckWriter(t)
    \/ ValidateCounter(t)
    \/ ValidateVersion(t)
    \/ Return(t)
    \/ CallAgain(t)

Spec == Init /\ [][Next]_vars

-----------------------------------------------------------------------------
TypeOK ==
  /\ counter \in 0 .. WRITER
  /\ version \in 0 .. MaxVersion
  /\ frame \in Frames
  /\ pc \in [Threads -> {"idle", "shared", "writing", "bumped", "snapped",
                         "reading", "validating", "consuming", "done"}]
  /\ snap \in [Threads -> 0 .. MaxVersion]
  /\ seen \in [Threads -> [Words -> Vals \cup {Unread}]]
  /\ hist \in [0 .. MaxVersion -> Frames]

SharedHolders == {t \in Threads : pc[t] = "shared"}

ExclusiveHolders == {t \in Threads : pc[t] \in {"writing", "bumped"}}

(***************************************************************************)
(* The counter is WRITER exactly while one thread holds the latch          *)
(* exclusively and otherwise counts the shared holders, also at the limit  *)
(* where one more reader would read as WRITER (hybrid_latch.rs:90-105).    *)
(***************************************************************************)
CounterIsExact ==
  /\ counter = WRITER <=> ExclusiveHolders # {}
  /\ counter # WRITER => counter = Cardinality(SharedHolders)
  /\ ExclusiveHolders # {} => SharedHolders = {}
  /\ \A t, u \in ExclusiveHolders : t = u

(***************************************************************************)
(* What an optimistic read returns is the frame exactly as some writer     *)
(* published it, with the version the reader started from: never a mix of  *)
(* two frames, never a frame a writer was still changing (hybrid_latch.rs: *)
(* 57-76, cached_blob.rs OptimisticGuard, lookup.rs:115-116).              *)
(***************************************************************************)
ReturnedReadIsPublished ==
  \A t \in Threads : pc[t] = "done" => seen[t] = hist[snap[t]]

(***************************************************************************)
(* A shared holder sees one frame and one content version for as long as   *)
(* it holds the latch; pin_validated_child and snapshot_bytes_if_version   *)
(* rely on it when they pair a version with the bytes (cached_blob.rs:133).*)
(***************************************************************************)
StableUnderShared ==
  [][SharedHolders # {} => UNCHANGED <<version, frame>>]_vars

Lock == INSTANCE RWLock WITH
          shared <- SharedHolders,
          exclusive <- ExclusiveHolders

(***************************************************************************)
(* The latch implements the abstract lock in its shared and exclusive      *)
(* modes.                                                                  *)
(***************************************************************************)
ImplementsRWLock == Lock!Spec
=============================================================================
