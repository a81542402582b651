-------------------------- MODULE HybridLatchProofs -------------------------
(***************************************************************************)
(* For any finite set of threads, any frame and any number of exclusive    *)
(* holds: the counter is exact, a read that validates is a frame some      *)
(* writer published, and the latch implements the abstract lock.           *)
(***************************************************************************)
EXTENDS HybridLatch, FiniteSetTheorems, TLAPS

Readers == {"reading", "validating", "consuming", "done"}

Writing == \E t \in Threads : pc[t] = "writing"

\* The early words t has read are those of the frame it started from.
ReadSoFar(t) ==
  \A w \in EarlyWords : seen[t][w] # Unread => seen[t][w] = hist[snap[t]][w]

ReadAll(t) ==
  \A w \in EarlyWords : seen[t][w] = hist[snap[t]][w]

(***************************************************************************)
(* The frame in memory is the published one unless a writer is at work; a  *)
(* reader's words agree with its snapshot for as long as the snapshot is   *)
(* current and no writer is at work; and once the counter check passed,    *)
(* they agree for as long as the snapshot is current, writer or not.       *)
(***************************************************************************)
FramePublished == ~Writing => frame = hist[version]

ReaderInv(t) ==
  /\ snap[t] <= version
  /\ pc[t] \notin Readers => seen[t] = Nothing
  /\ pc[t] = "reading" /\ snap[t] = version /\ ~Writing => ReadSoFar(t)
  /\ pc[t] = "validating" /\ snap[t] = version => ReadAll(t)
  /\ pc[t] \in {"consuming", "done"} => ReadAll(t)

ReadInv == \A t \in Threads : ReaderInv(t)

LockInv ==
  /\ TypeOK
  /\ CounterIsExact
  /\ Writing => version < MaxVersion

IInv == LockInv /\ FramePublished /\ ReadInv

PCs == {"idle", "shared", "writing", "bumped", "snapped",
        "reading", "validating", "consuming", "done"}

(***************************************************************************)
(* The number of shared holders after one thread joined or left them.      *)
(***************************************************************************)
LEMMA HoldersCount ==
  ASSUME pc \in [Threads -> PCs], NEW t \in Threads, NEW to \in PCs,
         pc' = [pc EXCEPT ![t] = to]
  PROVE  /\ Cardinality(SharedHolders) \in Nat
         /\ Cardinality(SharedHolders) = 0 <=> SharedHolders = {}
         /\ pc[t] # "shared" /\ to = "shared"
              => Cardinality(SharedHolders') = Cardinality(SharedHolders) + 1
         /\ pc[t] = "shared" /\ to # "shared"
              => Cardinality(SharedHolders') = Cardinality(SharedHolders) - 1
         /\ pc[t] # "shared" /\ to # "shared" => SharedHolders' = SharedHolders
<1>1. IsFiniteSet(SharedHolders)
  BY LatchAssumption, FS_Subset DEF SharedHolders
<1>2. /\ Cardinality(SharedHolders) \in Nat
      /\ Cardinality(SharedHolders) = 0 <=> SharedHolders = {}
  BY <1>1, FS_CardinalityType, FS_EmptySet
<1>3. pc[t] # "shared" /\ to = "shared" => SharedHolders' = SharedHolders \cup {t}
  BY DEF SharedHolders, PCs
<1>4. pc[t] = "shared" /\ to # "shared" => SharedHolders' = SharedHolders \ {t}
  BY DEF SharedHolders, PCs
<1>5. pc[t] # "shared" /\ to # "shared" => SharedHolders' = SharedHolders
  BY DEF SharedHolders, PCs
<1>6. pc[t] # "shared" <=> t \notin SharedHolders
  BY DEF SharedHolders
<1> QED
  BY <1>1, <1>2, <1>3, <1>4, <1>5, <1>6, FS_AddElement, FS_RemoveElement

(***************************************************************************)
(* Steps of an optimistic reader move it between non-holding places and    *)
(* leave the latch alone.                                                  *)
(***************************************************************************)
LEMMA ReaderStepLockInv ==
  ASSUME LockInv, NEW t \in Threads, NEW to \in PCs,
         pc[t] \notin {"shared", "writing", "bumped"},
         to \notin {"shared", "writing", "bumped"},
         pc' = [pc EXCEPT ![t] = to],
         UNCHANGED <<counter, version, frame, hist>>,
         snap' \in [Threads -> 0 .. MaxVersion],
         seen' \in [Threads -> [Words -> Vals \cup {Unread}]]
  PROVE  LockInv' /\ (Writing' <=> Writing)
<1>1. SharedHolders' = SharedHolders
  BY DEF LockInv, TypeOK, SharedHolders, PCs
<1>2. ExclusiveHolders' = ExclusiveHolders
  BY DEF LockInv, TypeOK, ExclusiveHolders, PCs
<1>3. TypeOK'
  BY DEF LockInv, TypeOK, PCs
<1>4. Writing' <=> Writing
  BY DEF LockInv, TypeOK, Writing, PCs
<1> QED
  BY <1>1, <1>2, <1>3, <1>4 DEF LockInv, CounterIsExact

\* A latch starts unlocked, with no holder and no reader.
LEMMA InitIInv == Init => IInv
<1> SUFFICES ASSUME Init PROVE IInv
  OBVIOUS
<1> USE LatchAssumption
<1>1. SharedHolders = {} /\ ExclusiveHolders = {} /\ ~Writing
  BY DEF Init, SharedHolders, ExclusiveHolders, Writing
<1>2. Cardinality(SharedHolders) = 0
  BY <1>1, FS_EmptySet
<1>3. TypeOK
  BY DEF Init, TypeOK, Frames, Nothing
<1>4. LockInv
  BY <1>1, <1>2, <1>3 DEF Init, LockInv, CounterIsExact
<1>5. FramePublished
  BY DEF Init, FramePublished
<1>6. ReadInv
  BY DEF Init, ReadInv, ReaderInv, Readers
<1> QED
  BY <1>4, <1>5, <1>6 DEF IInv

\* Every step keeps the lock word and its holders in agreement.
LEMMA NextLockInv == LockInv /\ [Next]_vars => LockInv'
<1> SUFFICES ASSUME LockInv, [Next]_vars PROVE LockInv'
  OBVIOUS
<1> USE LatchAssumption DEF LockInv
<1>1. ASSUME NEW t \in Threads, AcquireShared(t) PROVE LockInv'
  <2>1. Cardinality(SharedHolders') = Cardinality(SharedHolders) + 1
    BY <1>1, HoldersCount DEF AcquireShared, Goto, TypeOK, PCs
  <2>2. ExclusiveHolders' = ExclusiveHolders /\ ExclusiveHolders = {}
    BY <1>1 DEF AcquireShared, Goto, TypeOK, CounterIsExact, ExclusiveHolders
  <2>3. ~Writing'
    BY <2>2 DEF Writing, ExclusiveHolders
  <2>4. TypeOK'
    BY <1>1 DEF AcquireShared, Goto, TypeOK
  <2> QED
    BY <1>1, <2>1, <2>2, <2>3, <2>4 DEF AcquireShared, CounterIsExact, TypeOK
<1>2. ASSUME NEW t \in Threads, ReleaseShared(t) PROVE LockInv'
  <2>1. /\ Cardinality(SharedHolders') = Cardinality(SharedHolders) - 1
        /\ Cardinality(SharedHolders) \in Nat
        /\ Cardinality(SharedHolders) # 0
    BY <1>2, HoldersCount DEF ReleaseShared, Goto, TypeOK, PCs, SharedHolders
  <2>2. ExclusiveHolders' = ExclusiveHolders /\ ExclusiveHolders = {}
    BY <1>2 DEF ReleaseShared, Goto, TypeOK, CounterIsExact, ExclusiveHolders, SharedHolders
  <2>3. ~Writing'
    BY <2>2 DEF Writing, ExclusiveHolders
  <2>4. counter = Cardinality(SharedHolders) /\ counter \in 1 .. WRITER - 1
    BY <2>1, <2>2 DEF CounterIsExact, TypeOK
  <2>5. TypeOK'
    BY <1>2, <2>4 DEF ReleaseShared, Goto, TypeOK
  <2> QED
    BY <1>2, <2>1, <2>2, <2>3, <2>4, <2>5 DEF ReleaseShared, CounterIsExact
<1>3. ASSUME NEW t \in Threads, AcquireExclusive(t) PROVE LockInv'
  <2>1. SharedHolders' = SharedHolders /\ SharedHolders = {}
    BY <1>3, HoldersCount DEF AcquireExclusive, Goto, TypeOK, PCs, CounterIsExact
  <2>2. ExclusiveHolders = {}
    BY <1>3 DEF AcquireExclusive, CounterIsExact
  <2>3. ExclusiveHolders' = {t}
    BY <1>3, <2>2 DEF AcquireExclusive, Goto, TypeOK, ExclusiveHolders
  <2>4. TypeOK'
    BY <1>3 DEF AcquireExclusive, Goto, TypeOK
  <2>5. t \in ExclusiveHolders' /\ \A u, v \in ExclusiveHolders' : u = v
    BY <2>3, Zenon
  <2> QED
    BY <1>3, <2>1, <2>4, <2>5, SMTT(30) DEF AcquireExclusive, CounterIsExact
<1>4. ASSUME NEW t \in Threads, NEW w \in Words, WriteWord(t, w) PROVE LockInv'
  <2>1. TypeOK'
    BY <1>4 DEF WriteWord, TypeOK, Frames
  <2> QED
    BY <1>4, <2>1 DEF WriteWord, CounterIsExact, SharedHolders, ExclusiveHolders, Writing
<1>5. ASSUME NEW t \in Threads, BumpVersion(t) PROVE LockInv'
  <2>1. version < MaxVersion
    BY <1>5 DEF BumpVersion, Goto, Writing
  <2>2. TypeOK'
    BY <1>5, <2>1 DEF BumpVersion, Goto, TypeOK
  <2>3. SharedHolders' = SharedHolders /\ ExclusiveHolders' = ExclusiveHolders
    BY <1>5 DEF BumpVersion, Goto, TypeOK, SharedHolders, ExclusiveHolders
  <2>4. ~Writing'
    BY <1>5 DEF BumpVersion, Goto, TypeOK, Writing, CounterIsExact, ExclusiveHolders
  <2> QED
    BY <1>5, <2>2, <2>3, <2>4 DEF BumpVersion, CounterIsExact
<1>6. ASSUME NEW t \in Threads, ClearWriter(t) PROVE LockInv'
  <2>1. SharedHolders' = SharedHolders /\ SharedHolders = {}
    BY <1>6 DEF ClearWriter, Goto, TypeOK, SharedHolders, CounterIsExact, ExclusiveHolders
  <2>2. ExclusiveHolders = {t}
    BY <1>6 DEF ClearWriter, Goto, CounterIsExact, ExclusiveHolders
  <2>3. ExclusiveHolders' = {} /\ ~Writing'
    BY <1>6, <2>2 DEF ClearWriter, Goto, TypeOK, ExclusiveHolders, Writing
  <2>4. TypeOK'
    BY <1>6 DEF ClearWriter, Goto, TypeOK
  <2> QED
    BY <1>6, <2>1, <2>3, <2>4, FS_EmptySet DEF ClearWriter, CounterIsExact
<1>7. ASSUME NEW t \in Threads,
             \/ LoadVersion(t) \/ CheckWriter(t) \/ ValidateCounter(t)
             \/ ValidateVersion(t) \/ Return(t) \/ CallAgain(t)
      PROVE LockInv'
  <2>1. UNCHANGED <<counter, version, frame, hist>>
    BY <1>7 DEF LoadVersion, CheckWriter, ValidateCounter, ValidateVersion, Return,
                CallAgain
  <2>2. snap' = snap \/ snap' = [snap EXCEPT ![t] = version] \/ snap' = [snap EXCEPT ![t] = 0]
    BY <1>7 DEF LoadVersion, CheckWriter, ValidateCounter, ValidateVersion, Return,
                CallAgain, Discard
  <2>3. seen' = seen \/ seen' = [seen EXCEPT ![t] = Nothing]
    BY <1>7 DEF LoadVersion, CheckWriter, ValidateCounter, ValidateVersion, Return,
                CallAgain, Discard
  <2>4. snap' \in [Threads -> 0 .. MaxVersion]
    <3>1. snap \in [Threads -> 0 .. MaxVersion] /\ {0, version} \subseteq 0 .. MaxVersion
      BY DEF TypeOK
    <3> QED
      BY <2>2, <3>1
  <2>5. seen' \in [Threads -> [Words -> Vals \cup {Unread}]]
    <3>1. seen \in [Threads -> [Words -> Vals \cup {Unread}]]
      BY DEF TypeOK
    <3>2. Nothing \in [Words -> Vals \cup {Unread}]
      BY DEF Nothing
    <3> QED
      BY <2>3, <3>1, <3>2
  <2>6. /\ pc[t] \notin {"shared", "writing", "bumped"}
        /\ \E to \in PCs \ {"shared", "writing", "bumped"} : pc' = [pc EXCEPT ![t] = to]
    BY <1>7 DEF LoadVersion, CheckWriter, ValidateCounter, ValidateVersion, Return,
                CallAgain, Discard, Goto, PCs
  <2> QED
    BY <2>1, <2>4, <2>5, <2>6, ReaderStepLockInv
<1>8. ASSUME NEW t \in Threads, NEW w \in Words, ReadWord(t, w) PROVE LockInv'
  <2>1. TypeOK'
    BY <1>8 DEF ReadWord, TypeOK, Frames
  <2> QED
    BY <1>8, <2>1 DEF ReadWord, CounterIsExact, SharedHolders, ExclusiveHolders, Writing
<1>9. CASE UNCHANGED vars
  BY <1>9 DEF vars, TypeOK, CounterIsExact, SharedHolders, ExclusiveHolders, Writing
<1> QED
  BY <1>1, <1>2, <1>3, <1>4, <1>5, <1>6, <1>7, <1>8, <1>9 DEF Next

(***************************************************************************)
(* A step that leaves a reader's own state, the version, the published     *)
(* frames and the absence of writers alone keeps what it has read valid.   *)
(***************************************************************************)
LEMMA OtherReaderInv ==
  ASSUME NEW u \in Threads, ReaderInv(u),
         pc'[u] = pc[u], snap'[u] = snap[u], seen'[u] = seen[u],
         UNCHANGED <<version, hist>>, Writing => Writing'
  PROVE  ReaderInv(u)'
BY DEF ReaderInv, ReadSoFar, ReadAll

\* Every step keeps what readers have seen in agreement with the version.
LEMMA NextIInv == IInv /\ [Next]_vars => IInv'
<1> SUFFICES ASSUME IInv, [Next]_vars PROVE IInv'
  OBVIOUS
<1>0. LockInv /\ LockInv' /\ TypeOK
  BY NextLockInv DEF IInv, LockInv
<1> SUFFICES FramePublished' /\ ReadInv'
  BY <1>0 DEF IInv
<1> USE LatchAssumption
<1>1. ASSUME NEW t \in Threads,
             AcquireShared(t) \/ ReleaseShared(t) \/ AcquireExclusive(t)
      PROVE  FramePublished' /\ ReadInv'
  <2>1. /\ UNCHANGED <<version, frame, snap, seen, hist>>
        /\ pc[t] \notin Readers /\ pc'[t] \notin Readers
        /\ \A u \in Threads \ {t} : pc'[u] = pc[u]
        /\ Writing => Writing'
    BY <1>0, <1>1 DEF AcquireShared, ReleaseShared, AcquireExclusive, Goto, TypeOK,
                      Readers, Writing
  <2>2. ReaderInv(t)'
    BY <2>1 DEF IInv, ReadInv, ReaderInv, Readers
  <2>3. ASSUME NEW u \in Threads \ {t} PROVE ReaderInv(u)'
    BY <2>1, OtherReaderInv DEF IInv, ReadInv
  <2> QED
    BY <2>1, <2>2, <2>3 DEF IInv, ReadInv, FramePublished
<1>2. ASSUME NEW t \in Threads, NEW w \in Words, WriteWord(t, w)
      PROVE  FramePublished' /\ ReadInv'
  <2>1. Writing' /\ UNCHANGED <<version, pc, snap, seen, hist>>
    BY <1>2 DEF WriteWord, Writing
  <2> QED
    BY <2>1, OtherReaderInv DEF IInv, ReadInv, FramePublished
<1>3. ASSUME NEW t \in Threads, BumpVersion(t)
      PROVE  FramePublished' /\ ReadInv'
  <2>1. version < MaxVersion
    BY <1>0, <1>3 DEF BumpVersion, Goto, LockInv, Writing
  <2>2. /\ version' = version + 1
        /\ UNCHANGED <<frame, snap, seen>>
        /\ hist' = [hist EXCEPT ![version + 1] = frame]
        /\ hist'[version'] = frame
    BY <1>0, <1>3, <2>1 DEF BumpVersion, TypeOK
  <2>3. ASSUME NEW u \in Threads PROVE ReaderInv(u)'
    <3>1. ReaderInv(u) /\ snap[u] \in 0 .. MaxVersion /\ snap[u] <= version
      BY <1>0 DEF IInv, ReadInv, ReaderInv, TypeOK
    <3>2. hist'[snap[u]] = hist[snap[u]] /\ snap'[u] # version'
      BY <1>0, <2>2, <3>1 DEF TypeOK
    <3>3. pc'[u] = pc[u] \/ (pc[u] \notin Readers /\ pc'[u] \notin Readers)
      BY <1>0, <1>3 DEF BumpVersion, Goto, TypeOK, Readers
    <3>4. snap'[u] <= version'
      BY <1>0, <2>2, <3>1 DEF TypeOK
    <3> QED
      BY <2>2, <3>1, <3>2, <3>3, <3>4 DEF ReaderInv, ReadAll, Readers
  <2> QED
    BY <2>2, <2>3 DEF ReadInv, FramePublished
<1>4. ASSUME NEW t \in Threads, ClearWriter(t)
      PROVE  FramePublished' /\ ReadInv'
  <2>1. /\ UNCHANGED <<version, frame, snap, seen, hist>>
        /\ pc[t] \notin Readers /\ pc'[t] \notin Readers
        /\ \A u \in Threads \ {t} : pc'[u] = pc[u]
    BY <1>0, <1>4 DEF ClearWriter, Goto, TypeOK, Readers
  <2>2. ~Writing
    BY <1>0, <1>4 DEF ClearWriter, Goto, LockInv, CounterIsExact, ExclusiveHolders, Writing
  <2>3. ReaderInv(t)'
    BY <2>1 DEF IInv, ReadInv, ReaderInv, Readers
  <2>4. ASSUME NEW u \in Threads \ {t} PROVE ReaderInv(u)'
    BY <2>1, <2>2, OtherReaderInv DEF IInv, ReadInv
  <2> QED
    BY <2>1, <2>2, <2>3, <2>4 DEF IInv, ReadInv, FramePublished
<1>5. ASSUME NEW t \in Threads,
             \/ LoadVersion(t) \/ CheckWriter(t) \/ ValidateCounter(t)
             \/ ValidateVersion(t) \/ Return(t) \/ CallAgain(t)
      PROVE  FramePublished' /\ ReadInv'
  <2>1. /\ UNCHANGED <<counter, version, frame, hist>>
        /\ \A u \in Threads \ {t} : pc'[u] = pc[u] /\ snap'[u] = snap[u] /\ seen'[u] = seen[u]
        /\ Writing' <=> Writing
    BY <1>0, <1>5 DEF LoadVersion, CheckWriter, ValidateCounter, ValidateVersion, Return,
                      CallAgain, Discard, Goto, TypeOK, Writing
  <2>2. ASSUME NEW u \in Threads \ {t} PROVE ReaderInv(u)'
    BY <2>1, OtherReaderInv DEF IInv, ReadInv
  <2>3. ASSUME NEW from \in PCs, Discard(t, from) PROVE ReaderInv(t)'
    BY <1>0, <2>1, <2>3 DEF Discard, Goto, ReaderInv, Readers, TypeOK
  <2>4. counter # WRITER => ~Writing
    BY <1>0 DEF LockInv, CounterIsExact, ExclusiveHolders, Writing
  <2>5. ReaderInv(t) /\ snap[t] <= version
    BY DEF IInv, ReadInv, ReaderInv
  <2>6. ASSUME LoadVersion(t) PROVE ReaderInv(t)'
    BY <1>0, <2>1, <2>5, <2>6 DEF LoadVersion, Goto, ReaderInv, Readers, TypeOK
  <2>7. ASSUME CheckWriter(t) PROVE ReaderInv(t)'
    <3>1. CASE counter # WRITER
      BY <1>0, <2>1, <2>5, <2>7, <3>1
         DEF CheckWriter, Goto, ReaderInv, ReadSoFar, Readers, TypeOK, Nothing, EarlyWords
    <3> QED
      BY <2>3, <2>7, <3>1 DEF CheckWriter, PCs
  <2>8. ASSUME ValidateCounter(t) PROVE ReaderInv(t)'
    <3>1. CASE counter # WRITER
      BY <1>0, <2>1, <2>4, <2>5, <2>8, <3>1
         DEF ValidateCounter, Goto, ReaderInv, ReadSoFar, ReadAll, Readers, TypeOK
    <3> QED
      BY <2>3, <2>8, <3>1 DEF ValidateCounter, PCs
  <2>9. ASSUME ValidateVersion(t) PROVE ReaderInv(t)'
    <3>1. CASE version = snap[t]
      BY <1>0, <2>1, <2>5, <2>9, <3>1
         DEF ValidateVersion, Goto, ReaderInv, ReadAll, Readers, TypeOK
    <3> QED
      BY <2>3, <2>9, <3>1 DEF ValidateVersion, PCs
  <2>10. ASSUME Return(t) PROVE ReaderInv(t)'
    BY <1>0, <2>1, <2>5, <2>10 DEF Return, Goto, ReaderInv, ReadAll, Readers, TypeOK
  <2>11. ASSUME CallAgain(t) PROVE ReaderInv(t)'
    BY <2>3, <2>11 DEF CallAgain, PCs
  <2>12. ReaderInv(t)'
    BY <1>5, <2>6, <2>7, <2>8, <2>9, <2>10, <2>11
  <2> QED
    BY <2>1, <2>2, <2>12 DEF IInv, ReadInv, FramePublished
<1>6. ASSUME NEW t \in Threads, NEW w \in Words, ReadWord(t, w)
      PROVE  FramePublished' /\ ReadInv'
  <2>1. UNCHANGED <<version, frame, pc, snap, hist>> /\ (Writing' <=> Writing)
    BY <1>6 DEF ReadWord, Writing
  <2>2. ASSUME NEW u \in Threads \ {t} PROVE ReaderInv(u)'
    BY <1>0, <1>6, <2>1, OtherReaderInv DEF IInv, ReadInv, ReadWord, TypeOK
  <2>3. ReaderInv(t)
    BY DEF IInv, ReadInv
  <2>4. ASSUME pc[t] = "reading" PROVE ReaderInv(t)'
    BY <1>0, <1>6, <2>1, <2>3, <2>4
       DEF ReadWord, ReaderInv, ReadSoFar, Readers, TypeOK, IInv, FramePublished
  <2>5. ASSUME pc[t] = "consuming", w \in LateWords PROVE ReaderInv(t)'
    BY <1>0, <1>6, <2>1, <2>3, <2>5
       DEF ReadWord, ReaderInv, ReadAll, Readers, TypeOK, EarlyWords
  <2>6. ReaderInv(t)'
    BY <1>6, <2>4, <2>5 DEF ReadWord
  <2> QED
    BY <2>1, <2>2, <2>6 DEF IInv, ReadInv, FramePublished
<1>7. CASE UNCHANGED vars
  <2>1. UNCHANGED <<version, frame, pc, snap, seen, hist>> /\ (Writing' <=> Writing)
    BY <1>7 DEF vars, Writing
  <2> QED
    BY <2>1, OtherReaderInv DEF IInv, ReadInv, FramePublished
<1> QED
  BY <1>1, <1>2, <1>3, <1>4, <1>5, <1>6, <1>7 DEF Next

\* The inductive invariant holds in every state of the latch.
LEMMA SpecIInv == Spec => []IInv
BY InitIInv, NextIInv, PTL DEF Spec

(***************************************************************************)
(* The counter is exact in every reachable state, at the reader limit too. *)
(***************************************************************************)
THEOREM LatchCounterIsExact == Spec => []CounterIsExact
<1>1. IInv => CounterIsExact
  BY DEF IInv, LockInv
<1> QED
  BY SpecIInv, <1>1, PTL

(***************************************************************************)
(* When nothing is copied after validation, what an optimistic read        *)
(* returns is exactly the frame published with the version it started at.  *)
(***************************************************************************)
THEOREM LatchReadIsPublished ==
  ASSUME LateWords = {}
  PROVE  Spec => []ReturnedReadIsPublished
<1>1. IInv => ReturnedReadIsPublished
  <2> SUFFICES ASSUME IInv, NEW t \in Threads, pc[t] = "done"
               PROVE  seen[t] = hist[snap[t]]
    BY DEF ReturnedReadIsPublished
  <2>1. \A w \in Words : seen[t][w] = hist[snap[t]][w]
    BY DEF IInv, ReadInv, ReaderInv, ReadAll, EarlyWords
  <2>2. hist[snap[t]] \in [Words -> Vals] /\ seen[t] \in [Words -> Vals \cup {Unread}]
    BY DEF IInv, LockInv, TypeOK, Frames
  <2> QED
    BY <2>1, <2>2
<1> QED
  BY SpecIInv, <1>1, PTL

(***************************************************************************)
(* While anyone holds the latch shared, version and frame stand still.     *)
(***************************************************************************)
THEOREM LatchStableUnderShared == Spec => StableUnderShared
<1>1. IInv /\ [Next]_vars => [SharedHolders # {} => UNCHANGED <<version, frame>>]_vars
  <2> SUFFICES ASSUME IInv, Next, SharedHolders # {} PROVE UNCHANGED <<version, frame>>
    BY DEF vars
  <2>1. \A t \in Threads : pc[t] # "writing"
    BY DEF IInv, LockInv, CounterIsExact, ExclusiveHolders
  <2> QED
    BY <2>1 DEF Next, AcquireShared, ReleaseShared, AcquireExclusive, WriteWord, ReadWord,
                BumpVersion, ClearWriter, LoadVersion, CheckWriter, ValidateCounter,
                ValidateVersion, Return, CallAgain, Discard, Goto
<1> QED
  BY SpecIInv, <1>1, PTL DEF Spec, StableUnderShared

(***************************************************************************)
(* The latch implements the abstract shared/exclusive lock.                *)
(***************************************************************************)
THEOREM LatchImplementsRWLock == Spec => ImplementsRWLock
<1>1. Init => Lock!Init
  BY DEF Init, Lock!Init, SharedHolders, ExclusiveHolders
<1>2. IInv /\ IInv' /\ [Next]_vars => [Lock!Next]_Lock!vars
  <2> SUFFICES ASSUME IInv, IInv', [Next]_vars PROVE [Lock!Next]_Lock!vars
    OBVIOUS
  <2>0. TypeOK /\ CounterIsExact /\ CounterIsExact'
    BY DEF IInv, LockInv
  <2>1. ASSUME NEW t \in Threads, AcquireShared(t) PROVE Lock!AcquireShared(t)
    BY <2>0, <2>1 DEF AcquireShared, Goto, TypeOK, CounterIsExact, Lock!AcquireShared,
                      SharedHolders, ExclusiveHolders
  <2>2. ASSUME NEW t \in Threads, ReleaseShared(t) PROVE Lock!ReleaseShared(t)
    BY <2>0, <2>2 DEF ReleaseShared, Goto, TypeOK, Lock!ReleaseShared, SharedHolders,
                      ExclusiveHolders
  <2>3. ASSUME NEW t \in Threads, AcquireExclusive(t) PROVE Lock!AcquireExclusive(t)
    <3>1. SharedHolders' = SharedHolders /\ SharedHolders = {}
      BY <2>0, <2>3, HoldersCount DEF AcquireExclusive, Goto, TypeOK, PCs, CounterIsExact,
                                      LatchAssumption
    <3>2. ExclusiveHolders = {}
      BY <2>0, <2>3, LatchAssumption DEF AcquireExclusive, CounterIsExact
    <3>3. ExclusiveHolders' = {t}
      BY <2>0, <2>3, <3>2 DEF AcquireExclusive, Goto, TypeOK, ExclusiveHolders
    <3> QED
      BY <3>1, <3>2, <3>3, ZenonT(30) DEF Lock!AcquireExclusive
  <2>4. ASSUME NEW t \in Threads, ClearWriter(t) PROVE Lock!ReleaseExclusive(t)
    <3>1. SharedHolders' = SharedHolders
      BY <2>0, <2>4 DEF ClearWriter, Goto, TypeOK, SharedHolders
    <3>2. ExclusiveHolders = {t}
      BY <2>0, <2>4 DEF ClearWriter, Goto, CounterIsExact, ExclusiveHolders
    <3>3. ExclusiveHolders' = {}
      BY <2>0, <2>4, <3>2 DEF ClearWriter, Goto, TypeOK, ExclusiveHolders
    <3> QED
      BY <3>1, <3>2, <3>3 DEF Lock!ReleaseExclusive
  <2>5. ASSUME NEW t \in Threads,
               \/ BumpVersion(t) \/ LoadVersion(t) \/ CheckWriter(t) \/ ValidateCounter(t)
               \/ ValidateVersion(t) \/ Return(t) \/ CallAgain(t)
               \/ \E w \in Words : WriteWord(t, w) \/ ReadWord(t, w)
        PROVE UNCHANGED Lock!vars
    BY <2>0, <2>5 DEF Lock!vars, SharedHolders, ExclusiveHolders, TypeOK, Goto, Discard,
         BumpVersion, LoadVersion, CheckWriter, ValidateCounter, ValidateVersion, Return,
         CallAgain, WriteWord, ReadWord
  <2>6. CASE UNCHANGED vars
    BY <2>6 DEF vars, Lock!vars, SharedHolders, ExclusiveHolders
  <2> QED
    BY <2>1, <2>2, <2>3, <2>4, <2>5, <2>6 DEF Next, Lock!Next
<1> QED
  BY <1>1, <1>2, SpecIInv, PTL DEF Spec, ImplementsRWLock, Lock!Spec
=============================================================================
