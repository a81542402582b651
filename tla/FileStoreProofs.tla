--------------------------- MODULE FileStoreProofs ---------------------------
(****************************************************************************)
(* Every slot of the data file has one owner, for any set of blobs, any     *)
(* number of readers and any budget of writes, deletes, faults and crashes. *)
(****************************************************************************)
EXTENDS FileStore, FiniteSetTheorems, TLAPS

\* The manifest's own types, which the allocation of slots counts on.
ManifestOK ==
  /\ slots \in [Guids -> Nat \cup {NoSlot}]
  /\ next \in Nat
  /\ SlotsHaveOneOwner

\* The free slots are finitely many, so that the growth of the file is a number.
LEMMA GrowthIsNatural ==
  ASSUME ManifestOK, NEW fresh \in SUBSET Guids
  PROVE  Growth(fresh) \in Nat
<1>1. IsFiniteSet(fresh)
  BY FileStoreAssumption, FS_Subset
<1>2. IsFiniteSet(0 .. next - 1)
  BY FS_Interval DEF ManifestOK
<1>3. IsFiniteSet(reusable)
  BY <1>2, FS_Subset DEF ManifestOK, SlotsHaveOneOwner
<1>4. Cardinality(fresh) \in Nat /\ Cardinality(reusable) \in Nat
  BY <1>1, <1>3, FS_CardinalityType
<1> QED
  BY <1>4 DEF Growth

\* assign_slot and assign_slots hand out slots that are free or past the end of
\* the file, each to one blob.
LEMMA AssignKeepsOwners ==
  ASSUME ManifestOK, NEW G \in SUBSET Guids, AssignSlots(G)
  PROVE  ManifestOK'
<1> DEFINE fresh == G \ Owned(slots)
<1>1. PICK n \in Nat : n = Growth(fresh)
  BY GrowthIsNatural
<1>2. PICK f \in Allocations(fresh) :
        /\ slots' = [g \in Guids |-> IF g \in fresh THEN f[g] ELSE slots[g]]
        /\ reusable' = reusable \ {f[g] : g \in fresh}
  BY DEF AssignSlots
<1>3. next' = next + n /\ pending' = pending
  BY <1>1 DEF AssignSlots
<1>4. /\ f \in [fresh -> reusable \cup (next .. next + n - 1)]
      /\ \A g, h \in fresh : f[g] = f[h] => g = h
  BY <1>1, <1>2, Zenon DEF Allocations
<1> HIDE DEF fresh
<1>5. \A g \in fresh : f[g] \in reusable \/ f[g] \in next .. next' - 1
  <2>1. \A g \in fresh : f[g] \in reusable \cup (next .. next + n - 1)
    BY <1>4, Zenon
  <2>2. next .. next + n - 1 = next .. next' - 1
    BY <1>3 DEF ManifestOK
  <2> QED
    BY <2>1, <2>2, Zenon
<1>6. reusable \subseteq 0 .. next - 1 /\ pending \subseteq 0 .. next - 1
      /\ \A g \in Owned(slots) : slots[g] \in 0 .. next - 1
  BY DEF ManifestOK, SlotsHaveOneOwner, Used
<1>7. \A g \in fresh : f[g] \in 0 .. next' - 1 /\ f[g] \notin pending
                       /\ \A h \in Owned(slots) : f[g] # slots[h]
  <2> SUFFICES ASSUME NEW g \in fresh
               PROVE  f[g] \in 0 .. next' - 1 /\ f[g] \notin pending
                      /\ \A h \in Owned(slots) : f[g] # slots[h]
    OBVIOUS
  <2>1. CASE f[g] \in reusable
    <3>1. \A h \in Owned(slots) : slots[h] \in Used(slots)
      BY DEF Used
    <3>2. f[g] \notin pending /\ \A h \in Owned(slots) : f[g] # slots[h]
      BY <2>1, <3>1 DEF ManifestOK, SlotsHaveOneOwner
    <3>3. next \in Nat /\ f[g] \in 0 .. next - 1
      BY <1>6, <2>1, Zenon DEF ManifestOK
    <3>4. f[g] \in 0 .. next' - 1
      BY <1>3, <3>3
    <3> QED
      BY <3>2, <3>4
  <2>2. CASE f[g] \in next .. next' - 1
    BY <1>1, <1>3, <1>6, <2>2 DEF ManifestOK
  <2> QED
    BY <1>5, <2>1, <2>2
<1>8. Owned(slots') = Owned(slots) \cup fresh
  <2>1. \A g \in fresh : f[g] # NoSlot
    BY <1>1, <1>3, <1>7 DEF NoSlot, ManifestOK
  <2> QED
    BY <1>2, <2>1 DEF Owned, fresh
<1>9. \A g \in Owned(slots') : \/ g \in fresh /\ slots'[g] = f[g]
                               \/ g \in Owned(slots) \ fresh /\ slots'[g] = slots[g]
  BY <1>2, <1>8 DEF Owned, fresh
<1>10. \A g, h \in Owned(slots') : slots'[g] = slots'[h] => g = h
  BY <1>4, <1>7, <1>9 DEF ManifestOK, SlotsHaveOneOwner
<1>11. Used(slots') \cap (reusable' \cup pending') = {}
  <2> SUFFICES ASSUME NEW g \in Owned(slots')
               PROVE  slots'[g] \notin reusable' /\ slots'[g] \notin pending'
    BY DEF Used
  <2>1. CASE g \in fresh /\ slots'[g] = f[g]
    BY <1>2, <1>3, <1>7, <2>1, SMTT(30)
  <2>2. CASE g \in Owned(slots) \ fresh /\ slots'[g] = slots[g]
    <3>1. slots[g] \in Used(slots)
      BY <2>2 DEF Used
    <3> QED
      BY <1>2, <1>3, <2>2, <3>1, SMTT(30) DEF ManifestOK, SlotsHaveOneOwner
  <2> QED
    BY <1>9, <2>1, <2>2, SMTT(30)
<1>12. \A g \in Owned(slots') : slots'[g] \in 0 .. next' - 1
  <2>1. 0 .. next - 1 \subseteq 0 .. next' - 1
    BY <1>1, <1>3 DEF ManifestOK
  <2> QED
    BY <1>6, <1>7, <1>9, <2>1, SMTT(30)
<1>13. Used(slots') \cup reusable' \cup pending' \subseteq 0 .. next' - 1
  <2>1. 0 .. next - 1 \subseteq 0 .. next' - 1
    BY <1>1, <1>3 DEF ManifestOK
  <2>2. reusable' \subseteq 0 .. next' - 1 /\ pending' \subseteq 0 .. next' - 1
    BY <1>2, <1>3, <1>6, <2>1, ZenonT(30)
  <2>3. Used(slots') \subseteq 0 .. next' - 1
    BY <1>12, Zenon DEF Used
  <2> QED
    BY <2>2, <2>3, ZenonT(30)
<1>14. reusable' \cap pending' = {}
  BY <1>2, <1>3 DEF ManifestOK, SlotsHaveOneOwner
<1>15. next' \in Nat
  BY <1>1, <1>3 DEF ManifestOK
<1>16. slots' \in [Guids -> Nat \cup {NoSlot}]
  <2>1. \A g \in fresh : f[g] \in Nat
    BY <1>7, <1>15
  <2> QED
    BY <1>2, <2>1 DEF ManifestOK
<1> QED
  BY <1>10, <1>11, <1>13, <1>14, <1>15, <1>16, SMTT(30) DEF ManifestOK, SlotsHaveOneOwner

\* delete_blob moves a slot from its owner to pending_free_slots.
LEMMA DeleteKeepsOwners ==
  ASSUME ManifestOK, NEW g \in Guids, DeleteBlob(g)
  PROVE  ManifestOK'
<1>1. /\ slots' = [slots EXCEPT ![g] = NoSlot] /\ slots[g] # NoSlot
      /\ pending' = pending \cup {slots[g]}
      /\ reusable' = reusable /\ next' = next
  BY DEF DeleteBlob
<1>2. Owned(slots') = Owned(slots) \ {g} /\ g \in Owned(slots)
  BY <1>1 DEF Owned, ManifestOK
<1>3. \A h \in Owned(slots') : slots'[h] = slots[h] /\ slots[h] # slots[g]
                               /\ slots[h] \in Used(slots)
  BY <1>1, <1>2 DEF ManifestOK, SlotsHaveOneOwner, Used, Owned
<1>4. Used(slots') \subseteq Used(slots) /\ slots[g] \in Used(slots)
  BY <1>2, <1>3 DEF Used
<1>5. slots[g] \notin Used(slots')
  BY <1>3 DEF Used
<1>6. \A h, i \in Owned(slots') : slots'[h] = slots'[i] => h = i
  BY <1>2, <1>3 DEF ManifestOK, SlotsHaveOneOwner
<1>7. slots' \in [Guids -> Nat \cup {NoSlot}]
  BY <1>1 DEF ManifestOK
<1>8. /\ Used(slots') \cap (reusable' \cup pending') = {} /\ reusable' \cap pending' = {}
      /\ Used(slots') \cup reusable' \cup pending' \subseteq 0 .. next' - 1
  BY <1>1, <1>4, <1>5, Zenon DEF ManifestOK, SlotsHaveOneOwner
<1> QED
  BY <1>1, <1>6, <1>7, <1>8, Zenon DEF ManifestOK, SlotsHaveOneOwner

\* open refuses a manifest with a shared slot, and the holes it finds are owned
\* by nobody.
LEMMA ReopenKeepsOwners ==
  ASSUME Reopen
  PROVE  ManifestOK'
<1>1. PICK s \in snaps, l \in CrashLogs :
        /\ Consistent(Load(s, l))
        /\ slots' = Load(s, l).slots /\ next' = Load(s, l).next
        /\ reusable' = Holes(Load(s, l))
  BY DEF Reopen
<1>2. pending' = {}
  BY DEF Reopen
<1>3. PICK m : m = Load(s, l)
  OBVIOUS
<1>4. Consistent(m) /\ slots' = m.slots /\ next' = m.next /\ reusable' = Holes(m)
  BY <1>1, <1>3
<1>5. /\ slots' \in [Guids -> Nat \cup {NoSlot}] /\ next' \in Nat
      /\ \A g \in Owned(slots') : slots'[g] < next'
      /\ \A g, h \in Owned(slots') : slots'[g] = slots'[h] => g = h
  BY <1>4 DEF Consistent
<1>6. \A g \in Owned(slots') : slots'[g] \in 0 .. next' - 1
  BY <1>5 DEF Owned
<1>7. reusable' = (0 .. next' - 1) \ Used(slots')
  BY <1>4 DEF Holes
<1> QED
  BY <1>2, <1>5, <1>6, <1>7 DEF ManifestOK, SlotsHaveOneOwner, Used

\* SlotsHaveOneOwner holds of every reachable state of the file store: no write,
\* flush, delete, failing system call or crash gives a slot to two blobs, or
\* frees one that a blob still has.
THEOREM FileStoreSlotsHaveOneOwner == Spec => []SlotsHaveOneOwner
<1>1. Init => ManifestOK
  BY DEF Init, ManifestOK, SlotsHaveOneOwner, Owned, Used
<1>2. ManifestOK /\ [Next]_vars => ManifestOK'
  <2> SUFFICES ASSUME ManifestOK, [Next]_vars
               PROVE  ManifestOK'
    OBVIOUS
  <2> DEFINE Kept == /\ slots' = slots /\ next' = next
                     /\ reusable' = reusable /\ pending' = pending
  <2>1. CASE Kept
    BY <2>1 DEF ManifestOK, SlotsHaveOneOwner
  <2>2. CASE Write
    <3>1. CASE \E G \in SUBSET Guids \ {{}} : AssignSlots(G)
      BY <3>1, AssignKeepsOwners
    <3>2. CASE CapacityFails \/ \E g \in Guids : WriteImage(g) \/ WriteFails(g)
      BY <2>1, <3>2, Zenon DEF CapacityFails, WriteImage, WriteFails, manifest
    <3> QED
      BY <2>2, <3>1, <3>2 DEF Write
  <2>3. CASE Flush
    <3>1. CASE Publish
      BY <3>1 DEF Publish, ManifestOK, SlotsHaveOneOwner
    <3>2. CASE Flush /\ ~Publish
      BY <2>1, <3>2, Zenon DEF Flush, SyncData, SyncDataFails, SwapDirty, AppendDeltas,
         AppendFails, SyncLog, SyncLogFails, SkipCompaction, RenameSnapshot,
         RenameSnapshotFails, TruncateLog, SyncDirFails, SyncTruncation,
         SyncTruncationFails, FlushFails, manifest
    <3> QED
      BY <2>3, <3>1, <3>2
  <2>4. CASE \E g \in Guids : DeleteBlob(g)
    BY <2>4, DeleteKeepsOwners
  <2>5. CASE Reopen
    BY <2>5, ReopenKeepsOwners, SMTT(30)
  <2>6. CASE \E r \in Readers : Pread(r) \/ \E g \in Guids : OffsetOf(r, g)
    BY <2>1, <2>6 DEF Pread, OffsetOf, manifest
  <2>7. CASE UNCHANGED vars
    BY <2>1, <2>7 DEF vars
  <2> QED
    BY <2>2, <2>3, <2>4, <2>5, <2>6, <2>7, SMTT(30) DEF Next
<1>3. ManifestOK => SlotsHaveOneOwner
  BY DEF ManifestOK
<1> QED
  BY <1>1, <1>2, <1>3, PTL DEF Spec
=============================================================================
