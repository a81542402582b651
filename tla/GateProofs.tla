----------------------------- MODULE GateProofs -----------------------------
(***************************************************************************)
(* For any finite set of callers and any word width: the gate's word is an *)
(* exact account of the guards, exclusive admission excludes, and the gate *)
(* implements the abstract lock.                                           *)
(***************************************************************************)
EXTENDS Gate, FiniteSetTheorems, TLAPS

(***************************************************************************)
(* The inductive invariant: the word is exact, and an entrant that left    *)
(* the drain loop found no shared guard and nobody has entered since.      *)
(***************************************************************************)
IInv ==
  /\ TypeOK
  /\ WordIsExact
  /\ \A t \in Threads : pc[t] = "exclusive" => SharedHolders = {}

(***************************************************************************)
(* The number of shared holders after one thread joined or left them.      *)
(***************************************************************************)
LEMMA HoldersCount ==
  ASSUME pc \in [Threads -> {"out", "shared", "draining", "exclusive"}],
         NEW t \in Threads, NEW to \in {"out", "shared", "draining", "exclusive"},
         pc' = [pc EXCEPT ![t] = to]
  PROVE  /\ Cardinality(SharedHolders) \in Nat
         /\ Cardinality(SharedHolders) = 0 <=> SharedHolders = {}
         /\ pc[t] # "shared" /\ to = "shared"
              => Cardinality(SharedHolders') = Cardinality(SharedHolders) + 1
         /\ pc[t] = "shared" /\ to # "shared"
              => Cardinality(SharedHolders') = Cardinality(SharedHolders) - 1
         /\ pc[t] # "shared" /\ to # "shared" => SharedHolders' = SharedHolders
<1>1. IsFiniteSet(SharedHolders)
  BY GateAssumption, FS_Subset DEF SharedHolders
<1>2. /\ Cardinality(SharedHolders) \in Nat
      /\ Cardinality(SharedHolders) = 0 <=> SharedHolders = {}
  BY <1>1, FS_CardinalityType, FS_EmptySet
<1>3. pc[t] # "shared" /\ to = "shared" => SharedHolders' = SharedHolders \cup {t}
  BY DEF SharedHolders
<1>4. pc[t] = "shared" /\ to # "shared" => SharedHolders' = SharedHolders \ {t}
  BY DEF SharedHolders
<1>5. pc[t] # "shared" /\ to # "shared" => SharedHolders' = SharedHolders
  BY DEF SharedHolders
<1>6. pc[t] # "shared" => t \notin SharedHolders
  BY DEF SharedHolders
<1>7. pc[t] = "shared" => t \in SharedHolders
  BY DEF SharedHolders
<1> QED
  BY <1>1, <1>2, <1>3, <1>4, <1>5, <1>6, <1>7, FS_AddElement, FS_RemoveElement

\* The gate starts free, with nobody counted.
LEMMA InitIInv == Init => IInv
<1> SUFFICES ASSUME Init PROVE IInv
  OBVIOUS
<1>1. SharedHolders = {} /\ Writers = {}
  BY DEF Init, SharedHolders, Writers
<1>2. Cardinality(SharedHolders) = 0
  BY <1>1, FS_EmptySet
<1> QED
  BY <1>1, <1>2, GateAssumption
     DEF Init, IInv, TypeOK, WordIsExact, SharedCount, WritePending

\* Every step of a caller keeps the word and the callers in agreement.
LEMMA NextIInv == IInv /\ [Next]_vars => IInv'
<1> SUFFICES ASSUME IInv, [Next]_vars PROVE IInv'
  OBVIOUS
<1> USE GateAssumption
<1>1. ASSUME NEW t \in Threads, EnterShared(t) PROVE IInv'
  <2>1. Cardinality(SharedHolders') = Cardinality(SharedHolders) + 1
    BY <1>1, HoldersCount DEF EnterShared, IInv, TypeOK
  <2>2. Writers' = Writers /\ Writers = {}
    BY <1>1 DEF EnterShared, IInv, TypeOK, WordIsExact, Writers
  <2>3. \A u \in Threads : pc'[u] # "exclusive"
    BY <2>2 DEF Writers
  <2> QED
    BY <1>1, <2>1, <2>2, <2>3
       DEF EnterShared, IInv, TypeOK, WordIsExact, WritePending, SharedCount, COUNT_MASK
<1>2. ASSUME NEW t \in Threads, LeaveShared(t) PROVE IInv'
  <2>1. /\ Cardinality(SharedHolders') = Cardinality(SharedHolders) - 1
        /\ Cardinality(SharedHolders) \in Nat
        /\ Cardinality(SharedHolders) # 0
    BY <1>2, HoldersCount DEF LeaveShared, IInv, TypeOK, SharedHolders
  <2>2. Writers' = Writers
    BY <1>2 DEF LeaveShared, IInv, TypeOK, Writers
  <2>3. \A u \in Threads : pc'[u] # "exclusive"
    BY <1>2 DEF LeaveShared, IInv, TypeOK, SharedHolders
  <2> QED
    BY <1>2, <2>1, <2>2, <2>3
       DEF LeaveShared, IInv, TypeOK, WordIsExact, WritePending, SharedCount
<1>3. ASSUME NEW t \in Threads, SetPending(t) PROVE IInv'
  <2>1. SharedHolders' = SharedHolders
    BY <1>3, HoldersCount DEF SetPending, IInv, TypeOK
  <2>2. Writers = {} /\ Writers' = {t}
    BY <1>3 DEF SetPending, IInv, TypeOK, WordIsExact, Writers
  <2>3. \A u \in Threads : pc'[u] # "exclusive"
    BY <1>3, <2>2 DEF SetPending, IInv, TypeOK, Writers
  <2> QED
    BY <1>3, <2>1, <2>2, <2>3
       DEF SetPending, IInv, TypeOK, WordIsExact, WritePending, SharedCount
<1>4. ASSUME NEW t \in Threads, Drained(t) PROVE IInv'
  <2>1. SharedHolders' = SharedHolders /\ SharedHolders = {}
    BY <1>4, HoldersCount DEF Drained, IInv, TypeOK, WordIsExact
  <2>2. Writers' = Writers
    BY <1>4 DEF Drained, IInv, TypeOK, Writers
  <2> QED
    BY <1>4, <2>1, <2>2
       DEF Drained, IInv, TypeOK, WordIsExact, WritePending, SharedCount
<1>5. ASSUME NEW t \in Threads, LeaveExclusive(t) PROVE IInv'
  <2>1. SharedHolders' = {} /\ Cardinality(SharedHolders') = 0
    BY <1>5, HoldersCount, FS_EmptySet DEF LeaveExclusive, IInv, TypeOK
  <2>2. t \in Writers /\ Writers' = Writers \ {t}
    BY <1>5 DEF LeaveExclusive, IInv, TypeOK, Writers
  <2>3. Writers' = {}
    BY <2>2 DEF IInv, WordIsExact
  <2> QED
    BY <1>5, <2>1, <2>3
       DEF LeaveExclusive, IInv, TypeOK, WordIsExact, WritePending, SharedCount
<1>6. CASE UNCHANGED vars
  BY <1>6 DEF vars, IInv, TypeOK, WordIsExact, WritePending, SharedCount,
              SharedHolders, Writers
<1> QED
  BY <1>1, <1>2, <1>3, <1>4, <1>5, <1>6 DEF Next

\* The inductive invariant holds in every state of the gate.
LEMMA SpecIInv == Spec => []IInv
BY InitIInv, NextIInv, PTL DEF Spec

(***************************************************************************)
(* The word is always an exact account of the guards that are alive, so    *)
(* neither fetch_sub nor the unconditional store(0) loses one.             *)
(***************************************************************************)
THEOREM GateWordIsExact == Spec => []WordIsExact
<1>1. IInv => WordIsExact
  BY DEF IInv
<1> QED
  BY SpecIInv, <1>1, PTL

(***************************************************************************)
(* An exclusive guard is never alive together with any other guard.        *)
(***************************************************************************)
THEOREM GateExclusion == Spec => []Exclusion
<1>1. IInv => Exclusion
  BY DEF IInv, WordIsExact, Exclusion, SharedHolders, Writers
<1> QED
  BY SpecIInv, <1>1, PTL

(***************************************************************************)
(* No shared entrant overtakes a pending exclusive one.                    *)
(***************************************************************************)
THEOREM GateNoOvertaking == Spec => NoOvertaking
<1>1. IInv /\ [Next]_vars =>
        [\A t \in Threads : pc[t] = "draining" /\ pc'[t] = "draining"
           => SharedHolders' \subseteq SharedHolders]_vars
  <2> SUFFICES ASSUME IInv, Next, NEW t \in Threads, pc[t] = "draining"
               PROVE  SharedHolders' \subseteq SharedHolders
    BY DEF vars
  <2>1. WritePending
    BY DEF IInv, WordIsExact, Writers
  <2>2. PICK u \in Threads : \/ LeaveShared(u) \/ SetPending(u)
                             \/ Drained(u) \/ LeaveExclusive(u)
    BY <2>1 DEF Next, EnterShared
  <2> QED
    BY <2>2 DEF IInv, TypeOK, SharedHolders, LeaveShared, SetPending, Drained, LeaveExclusive
<1> QED
  BY SpecIInv, <1>1, PTL DEF Spec, NoOvertaking

(***************************************************************************)
(* The gate implements the abstract shared/exclusive lock.                 *)
(***************************************************************************)
THEOREM GateImplementsRWLock == Spec => ImplementsRWLock
<1> DEFINE Excl == {t \in Threads : pc[t] = "exclusive"}
<1>1. Init => Lock!Init
  BY DEF Init, Lock!Init, SharedHolders
<1>2. IInv /\ IInv' /\ [Next]_vars => [Lock!Next]_Lock!vars
  <2> SUFFICES ASSUME IInv, IInv', [Next]_vars PROVE [Lock!Next]_Lock!vars
    OBVIOUS
  <2> USE DEF IInv, TypeOK
  <2>1. ASSUME NEW t \in Threads, EnterShared(t) PROVE Lock!AcquireShared(t)
    <3>1. Excl = {}
      BY <2>1 DEF EnterShared, WordIsExact, Writers
    <3> QED
      BY <2>1, <3>1 DEF EnterShared, Lock!AcquireShared, SharedHolders
  <2>2. ASSUME NEW t \in Threads, LeaveShared(t) PROVE Lock!ReleaseShared(t)
    BY <2>2 DEF LeaveShared, Lock!ReleaseShared, SharedHolders
  <2>3. ASSUME NEW t \in Threads, SetPending(t) PROVE UNCHANGED Lock!vars
    BY <2>3 DEF SetPending, Lock!vars, SharedHolders
  <2>4. ASSUME NEW t \in Threads, Drained(t) PROVE Lock!AcquireExclusive(t)
    <3>1. SharedHolders = {} /\ SharedHolders' = SharedHolders
      BY <2>4, HoldersCount DEF Drained, WordIsExact
    <3>2. Excl = {} /\ Excl' = {t}
      BY <2>4 DEF Drained, WordIsExact, Writers
    <3> QED
      BY <3>1, <3>2 DEF Lock!AcquireExclusive
  <2>5. ASSUME NEW t \in Threads, LeaveExclusive(t) PROVE Lock!ReleaseExclusive(t)
    <3>1. SharedHolders' = SharedHolders
      BY <2>5 DEF LeaveExclusive, SharedHolders
    <3>2. Excl = {t} /\ Excl' = {}
      BY <2>5 DEF LeaveExclusive, WordIsExact, Writers
    <3> QED
      BY <3>1, <3>2 DEF Lock!ReleaseExclusive
  <2>6. CASE UNCHANGED vars
    BY <2>6 DEF vars, Lock!vars, SharedHolders
  <2> QED
    BY <2>1, <2>2, <2>3, <2>4, <2>5, <2>6 DEF Next, Lock!Next
<1> QED
  BY <1>1, <1>2, SpecIInv, PTL DEF Spec, ImplementsRWLock, Lock!Spec
=============================================================================
