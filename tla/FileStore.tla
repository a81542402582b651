------------------------------ MODULE FileStore ------------------------------
(****************************************************************************)
(* FileBlobStore (src/store/blob_store/file/mod.rs): blobs in the slots of  *)
(* one data file, and the manifest that says which slot is whose, kept as a *)
(* snapshot plus a log of deltas.                                           *)
(*                                                                          *)
(* One caller at a time is inside data_io_lock (a write or a flush) and     *)
(* takes its steps one system call at a time; delete_blob and read_blob     *)
(* take the manifest lock only and run beside it.  A crash may come between *)
(* any two steps.  The page cache is disk and log; what a crash may leave   *)
(* of them is may, safe, stale, snaps and logFile.                          *)
(*                                                                          *)
(* An image is <<guid, number of the write>>.  A manifest delta is          *)
(* [guid, slot], with NoSlot for Delete.  Slot choice among the reusable    *)
(* slots and should_compact_log depend on byte sizes and are left open.     *)
(****************************************************************************)
EXTENDS Integers, Sequences, FiniteSets, SequencesExt

CONSTANTS Guids,       \* the blobs
          Readers,     \* threads inside read_blob
          Faults,      \* the system calls that may fail
          Budgets      \* bounds: [writes, deletes, faults, crashes], one is chosen

\* Every step that can fail names its system call in Faults.
Calls == {"capacity", "write", "datasync", "append", "torn", "create",
          "logsync", "rename", "snapdir", "truncate"}

ASSUME FileStoreAssumption ==
  /\ IsFiniteSet(Guids)
  /\ Budgets \subseteq [writes : Nat, deletes : Nat, faults : Nat, crashes : Nat]
  /\ IsFiniteSet(Budgets)
  /\ Faults \subseteq Calls

VARIABLES
  slots,     \* Manifest.slots: the slot of every blob, NoSlot if none
  next,      \* Manifest.next_slot
  reusable,  \* Manifest.reusable_slots
  pending,   \* Manifest.pending_free_slots
  deltas,    \* Manifest.pending_log
  dirty,     \* manifest_dirty
  unsynced,  \* data_write_epoch is ahead of data_sync_epoch
  disk,      \* the data file: the image in every slot
  may,       \* the images a crash may leave in every slot
  snap,      \* manifest.bin: [slots, next]
  snaps,     \* the manifest.bin a crash may leave
  log,       \* manifest.log
  safe,      \* how many of its records are on disk for certain
  stale,     \* logs from before a truncation that is not on disk yet
  logFile,   \* "none", "unlinked" (directory not synced) or "linked"
  io,        \* the call inside data_io_lock
  reads,     \* the reads between offset_of and pread
  contract,  \* history: what the caller may find of a blob after a crash
  blank,     \* history: blobs whose slot no write has filled
  left       \* what is left of the budget

vars == <<slots, next, reusable, pending, deltas, dirty, unsynced, disk, may,
          snap, snaps, log, safe, stale, logFile, io, reads, contract, blank,
          left>>
manifest == <<slots, next, reusable, pending, deltas>>
data == <<unsynced, disk, may>>
files == <<snap, snaps, log, safe, stale, logFile>>
history == <<contract, blank>>

NoSlot == -1
MaxWrites == Max({b.writes : b \in Budgets})
MaxDeletes == Max({b.deletes : b \in Budgets})
Slots == 0 .. Cardinality(Guids) + MaxDeletes - 1  \* as many as can be owned or pending
None == <<"none">>
Torn == <<"torn">>
Zero == <<"zero">>
Anything == {None, Torn, Zero} \cup (Guids \X (1 .. MaxWrites))
TornDelta == [guid |-> "torn", slot |-> NoSlot]
Idle == [pc |-> "idle"]

-----------------------------------------------------------------------------
(* The manifest: allocation, free slots, replay.                            *)

Owned(m) == {g \in Guids : m[g] # NoSlot}
Used(m) == {m[g] : g \in Owned(m)}

\* allocate_slot, for all the blobs of one batch that have none: reusable
\* slots are taken before the file grows.
Growth(fresh) ==
  IF Cardinality(fresh) > Cardinality(reusable)
    THEN Cardinality(fresh) - Cardinality(reusable) ELSE 0

Allocations(fresh) ==
  LET grown == next .. next + Growth(fresh) - 1
  IN  {f \in [fresh -> reusable \cup grown] :
         /\ \A g, h \in fresh : f[g] = f[h] => g = h
         /\ grown \subseteq {f[g] : g \in fresh}}

Replayed(m, d) ==
  [slots |-> [m.slots EXCEPT ![d.guid] = d.slot],
   next |-> IF d.slot >= m.next THEN d.slot + 1 ELSE m.next]

\* load_or_create: the snapshot, and the log replayed over it.  A torn record
\* ends the replay if nothing follows it.
Load(s, l) == FoldLeft(Replayed, s, SelectSeq(l, LAMBDA d : d # TornDelta))

\* A torn record with something behind it is read as one record whose checksum
\* is wrong.
LogReadable(l) == \A i \in 1 .. Len(l) - 1 : l[i] # TornDelta

\* ReusableSlots::reconstruct: what it refuses, and the holes it returns.
Consistent(m) ==
  /\ m \in [slots : [Guids -> Nat \cup {NoSlot}], next : Nat]
  /\ \A g \in Owned(m.slots) : m.slots[g] < m.next
  /\ \A g, h \in Owned(m.slots) : m.slots[g] = m.slots[h] => g = h

\* Mutant of Holes: the slot in front of a used one is taken for a hole.
HolesOneTooFar(m) ==
  {s \in 0 .. m.next - 1 : s \notin Used(m.slots) \/ s + 1 \in Used(m.slots)}

Holes(m) == (0 .. m.next - 1) \ Used(m.slots)

-----------------------------------------------------------------------------
(* What a crash may leave.                                                  *)

CrashLogs ==
  {SubSeq(log, 1, n) : n \in safe .. Len(log)} \cup stale
    \cup (IF logFile = "linked" THEN {} ELSE {<<>>})

CrashLoads == {Load(s, l) : s \in snaps, l \in CrashLogs}

Outcomes(g) ==
  UNION {IF m.slots[g] = NoSlot THEN {None} ELSE may[m.slots[g]]
           : m \in CrashLoads}

Current(g) == IF slots[g] = NoSlot THEN None ELSE disk[slots[g]]

-----------------------------------------------------------------------------
Init ==
  /\ slots = [g \in Guids |-> NoSlot] /\ next = 0
  /\ reusable = {} /\ pending = {} /\ deltas = <<>>
  /\ dirty = FALSE /\ unsynced = FALSE
  /\ disk = [s \in Slots |-> Zero] /\ may = [s \in Slots |-> {Zero}]
  /\ snap = [slots |-> slots, next |-> 0] /\ snaps = {snap}
  /\ log = <<>> /\ safe = 0 /\ stale = {} /\ logFile = "none"
  /\ io = Idle /\ reads = [r \in Readers |-> Idle]
  /\ contract = [g \in Guids |-> {None}] /\ blank = {}
  /\ left \in Budgets

Spend(f) == left[f] > 0 /\ left' = [left EXCEPT ![f] = @ - 1]

Fails(call) == call \in Faults /\ Spend("faults")

\* The manifest write lock is held from the append to the end of a flush.
ManifestFree ==
  io.pc \notin {"logsync", "compact", "snapdir", "truncated", "publish"}

-----------------------------------------------------------------------------
(* write_blob, write_blobs and write_blobs_with_data_sync.                  *)

AssignSlots(G) ==
  /\ io.pc = "idle" /\ Cardinality(G) <= left.writes
  /\ LET fresh == G \ Owned(slots)
     IN  /\ \E f \in Allocations(fresh) :
              /\ slots' = [g \in Guids |-> IF g \in fresh THEN f[g] ELSE slots[g]]
              /\ reusable' = reusable \ {f[g] : g \in fresh}
              /\ \E order \in SetToSeqs(fresh) :
                   deltas' = deltas \o [i \in 1 .. Len(order) |->
                               [guid |-> order[i], slot |-> f[order[i]]]]
         /\ next' = next + Growth(fresh)
         /\ dirty' = (dirty \/ fresh # {})
         /\ blank' = blank \cup fresh
         /\ io' = [pc |-> "write", todo |-> [g \in G |-> slots'[g]]]
  /\ UNCHANGED <<pending, data, files, reads, contract, left>>

\* A blob whose first write failed has a slot with whatever was there before.
Abandon(G, c) ==
  contract' = [g \in Guids |-> IF g \in G \cap blank THEN Anything ELSE c[g]]

\* ensure_data_capacity fails: nothing was written, the slots stay assigned.
CapacityFails ==
  /\ io.pc = "write" /\ Fails("capacity")
  /\ io' = Idle
  /\ Abandon(DOMAIN io.todo, contract)
  /\ UNCHANGED <<manifest, dirty, data, files, reads, blank>>

PutImage(s, images) ==
  /\ unsynced' = TRUE
  /\ may' = [may EXCEPT ![s] = @ \cup images \cup {Torn}]

Rest(g) ==
  LET others == DOMAIN io.todo \ {g}
  IN  IF others = {} THEN Idle
      ELSE [pc |-> "writing", todo |-> [h \in others |-> io.todo[h]]]

WriteImage(g) ==
  /\ io.pc \in {"write", "writing"} /\ g \in DOMAIN io.todo
  /\ LET image == <<g, left.writes>>
     IN  /\ PutImage(io.todo[g], {image})
         /\ disk' = [disk EXCEPT ![io.todo[g]] = image]
         /\ contract' = [contract EXCEPT ![g] = @ \cup {image, Torn}]
  /\ blank' = blank \ {g}
  /\ io' = Rest(g)
  /\ Spend("writes")
  /\ UNCHANGED <<manifest, dirty, files, reads>>

\* pwrite fails, having written some or nothing of the image.
WriteFails(g) ==
  /\ io.pc \in {"write", "writing"} /\ g \in DOMAIN io.todo /\ Fails("write")
  /\ PutImage(io.todo[g], {})
  /\ \E image \in {disk[io.todo[g]], Torn} :
       disk' = [disk EXCEPT ![io.todo[g]] = image]
  /\ Abandon(DOMAIN io.todo, [contract EXCEPT ![g] = @ \cup {Torn}])
  /\ io' = Idle
  /\ reads' = [r \in Readers |->
                 IF reads[r].pc = "pread" /\ reads[r].guid = g
                   THEN [reads[r] EXCEPT !.valid = FALSE] ELSE reads[r]]
  /\ UNCHANGED <<manifest, dirty, files, blank>>

-----------------------------------------------------------------------------
(* delete_blob and read_blob.                                               *)

\* Mutant of DeleteBlob: the slot can be reused before the delete is durable.
DeleteBlobAtOnce(g) ==
  /\ ManifestFree /\ slots[g] # NoSlot
  /\ slots' = [slots EXCEPT ![g] = NoSlot]
  /\ reusable' = reusable \cup {slots[g]}
  /\ deltas' = Append(deltas, [guid |-> g, slot |-> NoSlot])
  /\ dirty' = TRUE
  /\ Abandon({g}, [contract EXCEPT ![g] = @ \cup {None}])
  /\ blank' = blank \ {g}
  /\ Spend("deletes")
  /\ UNCHANGED <<next, pending, data, files, io, reads>>

DeleteBlob(g) ==
  /\ ManifestFree /\ slots[g] # NoSlot
  /\ slots' = [slots EXCEPT ![g] = NoSlot]
  /\ pending' = pending \cup {slots[g]}
  /\ deltas' = Append(deltas, [guid |-> g, slot |-> NoSlot])
  /\ dirty' = TRUE
  /\ Abandon({g}, [contract EXCEPT ![g] = @ \cup {None}])
  /\ blank' = blank \ {g}
  /\ reads' = [r \in Readers |->
                 IF reads[r].pc = "pread" /\ reads[r].guid = g
                   THEN [reads[r] EXCEPT !.valid = FALSE] ELSE reads[r]]
  /\ Spend("deletes")
  /\ UNCHANGED <<next, reusable, data, files, io>>

\* offset_of: the slot is looked up under the lock and used after it.
OffsetOf(r, g) ==
  /\ reads[r].pc = "idle" /\ ManifestFree /\ slots[g] # NoSlot
  /\ reads' = [reads EXCEPT ![r] =
                 [pc |-> "pread", guid |-> g, slot |-> slots[g],
                  valid |-> g \notin blank /\ disk[slots[g]] # Torn]]
  /\ UNCHANGED <<manifest, dirty, data, files, io, history, left>>

Pread(r) ==
  /\ reads[r].pc = "pread"
  /\ reads' = [reads EXCEPT ![r] = Idle]
  /\ UNCHANGED <<manifest, dirty, data, files, io, history, left>>

-----------------------------------------------------------------------------
(* flush.                                                                   *)

\* Every path that returns an error after the swap marks the manifest again.
FlushFails(call) ==
  /\ Fails(call)
  /\ dirty' = TRUE /\ io' = Idle
  /\ UNCHANGED <<manifest, data, reads, history>>

SyncData ==
  /\ io.pc = "idle"
  /\ unsynced' = FALSE
  /\ may' = IF unsynced THEN [s \in Slots |-> {disk[s]}] ELSE may
  /\ io' = [pc |-> "swap"]
  /\ UNCHANGED <<manifest, dirty, disk, files, reads, history, left>>

SyncDataFails ==
  /\ io.pc = "idle" /\ unsynced /\ Fails("datasync")
  /\ UNCHANGED <<manifest, dirty, data, files, io, reads, history>>

\* The blobs as they are now are what a crash leaves from here on.
Settle == Abandon(blank, [g \in Guids |-> {Current(g)}]) /\ UNCHANGED blank

SwapDirty ==
  /\ io.pc = "swap" /\ dirty' = FALSE
  /\ IF dirty THEN io' = [pc |-> "append"] /\ UNCHANGED history
              ELSE io' = Idle /\ Settle
  /\ UNCHANGED <<manifest, data, files, reads, left>>

\* persist_pending_deltas opens the log, creating it, and appends.
AppendDeltas ==
  /\ io.pc = "append"
  /\ IF deltas = <<>>
       THEN io' = [pc |-> "publish"] /\ UNCHANGED files
       ELSE /\ io' = [pc |-> "logsync", created |-> logFile = "none"]
            /\ log' = log \o deltas
            /\ logFile' = IF logFile = "none" THEN "unlinked" ELSE logFile
            /\ UNCHANGED <<snap, snaps, safe, stale>>
  /\ UNCHANGED <<manifest, dirty, data, reads, history, left>>

\* write_all stops after some of the records, or inside one.  A log that was
\* only just created is there for the retry.
AppendFails ==
  /\ io.pc = "append" /\ deltas # <<>>
  /\ \E n \in 0 .. Len(deltas) - 1 :
       \/ /\ log' = log \o SubSeq(deltas, 1, n)
          /\ FlushFails(IF logFile = "none" THEN "create" ELSE "append")
       \/ log' = Append(log \o SubSeq(deltas, 1, n), TornDelta) /\ FlushFails("torn")
  /\ logFile' = IF logFile = "none" THEN "unlinked" ELSE logFile
  /\ UNCHANGED <<snap, snaps, safe, stale>>

\* sync_data of the log, then of the directory when the log is new.
SyncLog ==
  /\ io.pc = "logsync"
  /\ safe' = Len(log) /\ stale' = {}
  /\ logFile' = IF io.created THEN "linked" ELSE logFile
  /\ io' = [pc |-> "compact"]
  /\ UNCHANGED <<manifest, dirty, data, snap, snaps, log, reads, history, left>>

SyncLogFails ==
  /\ io.pc = "logsync"
  /\ FlushFails(IF io.created THEN "create" ELSE "logsync")
  /\ \/ UNCHANGED <<safe, stale>>
     \/ io.created /\ safe' = Len(log) /\ stale' = {}
  /\ UNCHANGED <<snap, snaps, log, logFile>>

SkipCompaction ==
  /\ io.pc = "compact"
  /\ io' = [pc |-> "publish"]
  /\ UNCHANGED <<manifest, dirty, data, files, reads, history, left>>

\* persist_snapshot: the new snapshot is written, synced and renamed; it is
\* manifest.bin for certain once the directory is synced.
RenameSnapshot ==
  /\ io.pc = "compact"
  /\ snap' = [slots |-> slots, next |-> next]
  /\ snaps' = snaps \cup {snap'}
  /\ io' = [pc |-> "snapdir"]
  /\ UNCHANGED <<manifest, dirty, data, log, safe, stale, logFile, reads,
                 history, left>>

RenameSnapshotFails ==
  io.pc = "compact" /\ FlushFails("rename") /\ UNCHANGED files

\* sync_dir, and truncate_log behind it.
TruncateLog ==
  /\ io.pc = "snapdir"
  /\ snaps' = {snap} /\ logFile' = "linked"
  /\ log' = <<>> /\ safe' = 0 /\ stale' = stale \cup {log}
  /\ io' = [pc |-> "truncated"]
  /\ UNCHANGED <<manifest, dirty, data, snap, reads, history, left>>

SyncDirFails ==
  io.pc = "snapdir" /\ FlushFails("snapdir") /\ UNCHANGED files

SyncTruncation ==
  /\ io.pc = "truncated"
  /\ stale' = {}
  /\ io' = [pc |-> "publish"]
  /\ UNCHANGED <<manifest, dirty, data, snap, snaps, log, safe, logFile, reads,
                 history, left>>

SyncTruncationFails ==
  io.pc = "truncated" /\ FlushFails("truncate") /\ UNCHANGED files

\* publish_pending_free_slots: the deletes are durable, the slots are free.
Publish ==
  /\ io.pc = "publish"
  /\ deltas' = <<>>
  /\ reusable' = reusable \cup pending /\ pending' = {}
  /\ io' = Idle
  /\ Settle
  /\ UNCHANGED <<slots, next, dirty, data, files, reads, left>>

-----------------------------------------------------------------------------
(* A crash, and FileBlobStore::open on what it left.  A store that open     *)
(* refuses stays closed.  What is left in slots nobody owns is never read   *)
(* before it is written, and Zero stands for it.                            *)

Reopen ==
  /\ Spend("crashes")
  /\ \E s \in snaps, l \in CrashLogs :
       LET m == Load(s, l)
           used == Used(m.slots)
       IN  /\ LogReadable(l) /\ Consistent(m)
           /\ \E d \in [used -> UNION {may[x] : x \in used}] :
                /\ \A x \in used : d[x] \in may[x]
                /\ disk' = [x \in Slots |-> IF x \in used THEN d[x] ELSE Zero]
                /\ contract' = [g \in Guids |->
                     IF m.slots[g] = NoSlot THEN {None} ELSE {d[m.slots[g]]}]
                /\ blank' = {g \in Owned(m.slots) : d[m.slots[g]][1] # g}
           /\ slots' = m.slots /\ next' = m.next /\ reusable' = Holes(m)
           /\ snap' = s /\ snaps' = {s}
           /\ log' = SelectSeq(l, LAMBDA r : r # TornDelta)
           /\ logFile' = IF l = <<>> /\ logFile # "linked" THEN "none" ELSE "linked"
  /\ may' = [x \in Slots |-> {disk'[x]}] /\ safe' = Len(log')
  /\ pending' = {} /\ deltas' = <<>> /\ dirty' = FALSE /\ unsynced' = FALSE
  /\ stale' = {} /\ io' = Idle /\ reads' = [r \in Readers |-> Idle]

-----------------------------------------------------------------------------
Write ==
  \/ \E G \in SUBSET Guids \ {{}} : AssignSlots(G)
  \/ CapacityFails
  \/ \E g \in Guids : WriteImage(g) \/ WriteFails(g)

Flush ==
  \/ SyncData \/ SyncDataFails \/ SwapDirty
  \/ AppendDeltas \/ AppendFails \/ SyncLog \/ SyncLogFails
  \/ SkipCompaction \/ RenameSnapshot \/ RenameSnapshotFails
  \/ TruncateLog \/ SyncDirFails \/ SyncTruncation \/ SyncTruncationFails
  \/ Publish

Next ==
  \/ Write \/ Flush \/ Reopen
  \/ \E g \in Guids : DeleteBlob(g)
  \/ \E r \in Readers : Pread(r) \/ \E g \in Guids : OffsetOf(r, g)

Spec == Init /\ [][Next]_vars

-----------------------------------------------------------------------------
(* Properties.                                                              *)

\* A slot of the data file has one owner: two blobs of the manifest never
\* share one, and a slot waiting in pending_free_slots or handed back to
\* reusable_slots belongs to no blob and lies below next_slot.
SlotsHaveOneOwner ==
  /\ \A g, h \in Owned(slots) : slots[g] = slots[h] => g = h
  /\ Used(slots) \cap (reusable \cup pending) = {} /\ reusable \cap pending = {}
  /\ Used(slots) \cup reusable \cup pending \subseteq 0 .. next - 1

\* Whatever a crash leaves, open accepts it: no two blobs in one slot, no slot
\* past next_slot, no torn record in the middle of the log.  And a blob then has
\* the image of the last flush that returned Ok, or what a write or delete of
\* this very blob since then may have left: never another blob's image, and
\* never nothing where a flush had promised one.
CrashKeepsContract ==
  /\ \A m \in CrashLoads : Consistent(m)
  /\ \A l \in CrashLogs : LogReadable(l)
  /\ \A g \in Guids : Outcomes(g) \subseteq contract[g]

\* A read that found its slot in the manifest and whose blob was not deleted
\* meanwhile finds an image of that blob in the slot, whenever its pread runs.
ReadsOwnImage ==
  \A r \in Readers :
    reads[r].pc = "pread" /\ reads[r].valid => disk[reads[r].slot][1] = reads[r].guid
=============================================================================
