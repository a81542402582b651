---------------------------- MODULE Checkpoint ----------------------------
(***************************************************************************)
(* The write-back path of holt: foreground writers change cached blob      *)
(* frames and log what they did, the background checkpointer (a planner    *)
(* and an I/O worker) and the manual Tree::checkpoint carry the dirty      *)
(* frames to the blob store and truncate the WAL.                          *)
(*                                                                         *)
(* A blob image maps each key to the operation that last wrote it (0: no   *)
(* record) or to the child blob its subtree was spilled to.  An operation  *)
(* is its sequence number, so a newer value is a larger number.            *)
(*                                                                         *)
(* There is no crash action.  The store keeps, next to the image the       *)
(* operating system holds, the set of images a power loss may leave, and   *)
(* the properties quantify over every state a crash here could expose.     *)
(*                                                                         *)
(* The journal is used by contract: a record is logged by submit, durable  *)
(* after flush_up_to, gone after truncate; module Journal models it.       *)
(***************************************************************************)
EXTENDS BufferManager, Sequences, SequencesExt

CONSTANTS
  Root,          \* the root blob, pinned by the open tree
  Keys,
  Threads,       \* foreground threads
  NoImage,       \* a slot assigned to a blob and never written
  AutoMerge,     \* cfg.auto_merge
  AllowEvict,    \* the eviction thread runs
  Background,    \* the background checkpointer runs
  Manual,        \* Tree::checkpoint is called
  Options        \* the configurations and bounds a behaviour may have

ASSUME CheckpointAssumption ==
  /\ Root \in Guids
  /\ IsFiniteSet(Guids)
  /\ {AutoMerge, AllowEvict, Background, Manual} \subseteq BOOLEAN
  /\ Options \subseteq [depth : Nat \ {0}, compact : SUBSET {"blob", "merge"},
                        ops : 0..(STRUCTURAL_SEQ - 1), noops : Nat, faults : Nat]

VARIABLES
  bm,      \* the buffer manager
  store,   \* the file blob store
  wal,     \* the journal: records logged, durable, truncated
  keyOf,   \* keyOf[op]: the key operation op wrote
  minted,  \* the blobs created so far: a guid is never used twice
  th,      \* the foreground threads
  plan,    \* the checkpoint planner and its round
  queue,   \* the epochs sent to the I/O worker
  flight,  \* [sent, done]: epochs not yet reaped, those already reported
  io,      \* the I/O worker and its batch
  ck,      \* the manual checkpoint
  noops,
  faults,
  opt      \* the configuration of this behaviour

vars == <<bm, store, wal, keyOf, minted, th, plan, queue, flight, io, ck, noops, faults, opt>>

Depth == opt.depth        \* io_queue_capacity: epochs in flight
Compact == opt.compact    \* what Tree::compact finds to do: blobs, merges
MaxOps == opt.ops         \* bound on the operations of the foreground threads
MaxNoops == opt.noops     \* bound on the latchings that change no record
MaxFaults == opt.faults   \* bound on the I/O errors

Ops == 1..MaxOps

Images == [Keys -> {0} \cup Ops \cup Guids]

EmptyImage == [k \in Keys |-> 0]

Children(img) == {img[k] : k \in Keys} \cap Guids

SomeFault == faults < MaxFaults /\ faults' = faults + 1 /\ UNCHANGED opt

NoFault == UNCHANGED <<faults, opt>>

---------------------------------------------------------------------------
(* The file blob store.  A write puts the image in the page cache and      *)
(* assigns a slot in the in-memory manifest; flush syncs the data file and *)
(* then appends the manifest deltas to the manifest log.  Slots, and their *)
(* reuse after a delete, are not modelled here: a blob has its own place.  *)

\* The deltas of a batch, in some order.
Deltas(op, gs) ==
  [i \in 1..Cardinality(gs) |-> <<op, SetToSeq(gs)[i]>>]

\* prepare_blob_writes assigns every slot before the first byte is written.
PrepareBlobWrites(s, gs) ==
  [s EXCEPT !.man = @ \cup gs,
            !.log = @ \o Deltas("set", gs \ s.man),
            !.manDirty = @ \/ gs \ s.man # {}]

\* gs are the blobs of the batch; imgs maps those whose bytes were written
\* (all of them, unless the write failed) to their images.
WriteBlobs(s, gs, imgs) ==
  [PrepareBlobWrites(s, gs) EXCEPT
     !.page = [g \in Guids |-> IF g \in DOMAIN imgs THEN imgs[g] ELSE @[g]],
     !.disk = [g \in Guids |->
        IF g \in DOMAIN imgs THEN @[g] \cup {imgs[g]} ELSE @[g]],
     !.dataDirty = @ \/ gs # {}]

DeleteBlobs(s, gs) ==
  [s EXCEPT !.man = @ \ gs,
            !.log = @ \o Deltas("delete", gs \cap s.man),
            !.manDirty = @ \/ gs \cap s.man # {}]

NeedsFlush(s) == s.dataDirty \/ s.manDirty

\* The first half of flush: the data file is synced, manifest_dirty is
\* swapped, and the manifest deltas are about to be persisted.
SyncData(s, who) ==
  [s EXCEPT !.disk = [g \in Guids |-> {s.page[g]}],
            !.dataDirty = FALSE,
            !.manDirty = FALSE,
            !.flusher = IF s.manDirty THEN who ELSE "none"]

PersistManifest(s) ==
  [s EXCEPT !.durMan = s.man, !.log = <<>>, !.flusher = "none",
            !.unsure = FALSE]

PersistFails(s) ==
  [s EXCEPT !.manDirty = TRUE, !.flusher = "none", !.unsure = TRUE]

\* The manifests a crash may leave: the durable one and, while an append is
\* under way or has failed, that with any prefix of the deltas appended.
ApplyDelta(m, d) ==
  IF d[1] = "set" THEN m \cup {d[2]} ELSE m \ {d[2]}

CrashManifests ==
  {FoldLeft(ApplyDelta, store.durMan, SubSeq(store.log, 1, n)) :
      n \in 0..(IF store.flusher # "none" \/ store.unsure
               THEN Len(store.log) ELSE 0)}

---------------------------------------------------------------------------
(* Foreground threads.  A put (or a delete, which leaves a tombstone in the *)
(* same place) runs inside the shared commit gate: it walks from the root, *)
(* changes the frame that holds its key, spilling a subtree                *)
(* to a fresh blob when the frame is full, marks what it changed dirty and *)
(* submits its record.  A thread that misses the cache pins the child in   *)
(* two steps, the store read and the insertion, under the parent's latch.  *)

Idle == [pc |-> "idle"]

\* The slot a walk for k reaches after n blobs of view, starting at Root.
Walk(view, k) ==
  LET at[n \in 0..Cardinality(Guids)] ==
        IF n = 0 THEN Root
        ELSE IF at[n-1] \in Guids /\ view[at[n-1]] # NoImage
        THEN view[at[n-1]][k]
        ELSE at[n-1]
  IN  at

\* What a lookup of k finds: an operation, 0, or the blob it is stuck at.
Find(view, k) == Walk(view, k)[Cardinality(Guids)]

\* The cached frames, and the frames a walk that loads misses would see.
CacheView ==
  [g \in Guids |-> IF Cached(bm, g) THEN bm.cache[g].img ELSE NoImage]

LiveView ==
  [g \in Guids |->
     IF Cached(bm, g) THEN bm.cache[g].img
     ELSE IF g \in store.man /\ g \notin bm.pending THEN store.page[g]
     ELSE NoImage]

\* The blobs on the way to k, when all of them are cached.
Path(k) ==
  LET at == Walk(CacheView, k)
  IN  {at[n] : n \in 0..Cardinality(Guids)} \cap Guids

OnCachedPath(k) == \A g \in Path(k) : Cached(bm, g)

\* The last blob of the path: it holds the record of k itself.
Holder(k) ==
  CHOOSE g \in Path(k) : CacheView[g] # NoImage /\ CacheView[g][k] \notin Guids

\* A put crosses the root in shared mode and latches the rest exclusively.
LatchedExclusive(k) == (Path(k) \ {Root}) \cup {Holder(k)}

\* Blobs some thread holds in shared mode while it loads a child.
LatchedShared == {th[t].parent : t \in {u \in Threads : th[u].pc = "loading"}}

\* Threads inside the commit gate.
InsideGate == {t \in Threads : th[t].pc = "mutated"}

CommitGateFree == InsideGate = {}

\* The blobs the threads keep pinned.
Pinned == UNION {th[t].touched : t \in InsideGate} \cup LatchedShared

\* A lock-coupled put latches the blobs between the root and the holder in
\* exclusive mode and releases them unchanged, which bumps their versions.
CrossedOver(b, gs) ==
  [b EXCEPT !.cache = [g \in Guids |->
     IF g \in gs THEN Frame(@[g].img, @[g].ver + 1) ELSE @[g]]]

Put(t, k) ==
  /\ th[t].pc = "idle"
  /\ Len(keyOf) < MaxOps
  /\ OnCachedPath(k)
  /\ LET op == Len(keyOf) + 1
         h  == Holder(k)
     IN  /\ LatchedExclusive(k) \cap LatchedShared = {}
         /\ bm' = WriteFrame(CrossedOver(bm, Path(k) \ {Root, h}), h,
                             [bm.cache[h].img EXCEPT ![k] = op])
         /\ keyOf' = Append(keyOf, k)
         /\ th' = [th EXCEPT ![t] =
                     [pc |-> "mutated", op |-> op, touched |-> {h}]]
  /\ UNCHANGED <<store, wal, minted, plan, queue, flight, io, ck, noops, faults, opt>>

\* The holder is full: the records of ks move to the fresh blob c, which is
\* dirty at once, and the put goes on in the holder or in c.
PutSpilling(t, k, ks, c) ==
  /\ th[t].pc = "idle"
  /\ Len(keyOf) < MaxOps
  /\ OnCachedPath(k)
  /\ c \notin minted
  /\ LET op    == Len(keyOf) + 1
         h     == Holder(k)
         img   == bm.cache[h].img
         moved == [j \in Keys |->
                     IF j \in ks THEN (IF j = k THEN op ELSE img[j]) ELSE 0]
         kept  == [j \in Keys |->
                     IF j \in ks THEN c ELSE IF j = k THEN op ELSE img[j]]
     IN  /\ \A j \in ks : img[j] \in Ops
         /\ LatchedExclusive(k) \cap LatchedShared = {}
         /\ bm' = WriteFrame(CrossedOver(InstallNewBlob(bm, c, moved, op),
                                         Path(k) \ {Root, h}), h, kept)
         /\ keyOf' = Append(keyOf, k)
         /\ minted' = minted \cup {c}
         /\ th' = [th EXCEPT ![t] =
                     [pc |-> "mutated", op |-> op,
                      touched |-> {h} \cup (IF k \in ks THEN {c} ELSE {})]]
  /\ UNCHANGED <<store, wal, plan, queue, flight, io, ck, noops, faults, opt>>

\* mark_dirty of what the put touched, then submit, then the gate is left.
Publish(t) ==
  /\ th[t].pc = "mutated"
  /\ bm' = MarkAllDirty(bm, th[t].touched, th[t].op)
  /\ wal' = [wal EXCEPT !.logged = @ \cup {th[t].op}]
  /\ th' = [th EXCEPT ![t] = Idle]
  /\ UNCHANGED <<store, keyOf, minted, plan, queue, flight, io, ck, noops, faults, opt>>

\* A conditional put whose condition fails takes the holder's exclusive
\* latch and changes nothing; the release bumps the version all the same.
PutRefused(t, k) ==
  /\ th[t].pc = "idle"
  /\ noops < MaxNoops
  /\ OnCachedPath(k)
  /\ LatchedExclusive(k) \cap LatchedShared = {}
  /\ bm' = CrossedOver(bm, LatchedExclusive(k))
  /\ noops' = noops + 1
  /\ UNCHANGED <<store, wal, keyOf, minted, th, plan, queue, flight, io, ck, faults, opt>>

\* The next blob on the way to k is not cached: read it from the store.
PinRead(t, k) ==
  LET missing == Path(k) \ {g \in Guids : Cached(bm, g)}
  IN  /\ th[t].pc = "idle"
      /\ \E g \in missing, p \in Path(k) :
            /\ Cached(bm, p) /\ bm.cache[p].img[k] = g
            /\ g \notin bm.pending
            /\ g \in store.man
            /\ th' = [th EXCEPT ![t] =
                        [pc |-> "loading", guid |-> g, parent |-> p,
                         img |-> store.page[g]]]
      /\ UNCHANGED <<bm, store, wal, keyOf, minted, plan, queue, flight, io, ck,
                     noops, faults, opt>>

PinInsert(t) ==
  /\ th[t].pc = "loading"
  /\ bm' = IF th[t].guid \in bm.pending THEN bm
           ELSE InsertOwnedIntoCache(bm, th[t].guid, th[t].img)
  /\ th' = [th EXCEPT ![t] = Idle]
  /\ UNCHANGED <<store, wal, keyOf, minted, plan, queue, flight, io, ck, noops, faults, opt>>

\* is_mergeable: a child that leads to no further blob.  Whether the two
\* frames fit into one is left open.
Mergeable(p) ==
  {c \in Children(bm.cache[p].img) :
     LiveView[c] # NoImage /\ Children(LiveView[c]) = {}}

\* Mutant of FoldedImage: the children are read from the store, not the cache.
FoldedImageFromStore(p, cs) ==
  [k \in Keys |->
     IF bm.cache[p].img[k] \in cs /\ store.page[bm.cache[p].img[k]] # NoImage
     THEN store.page[bm.cache[p].img[k]][k]
     ELSE bm.cache[p].img[k]]

\* clone_subtree of the children cs into p, in the place of their edges.
FoldedImage(p, cs) ==
  [k \in Keys |->
     IF bm.cache[p].img[k] \in cs THEN LiveView[bm.cache[p].img[k]][k]
     ELSE bm.cache[p].img[k]]

\* try_merge_children: the children cs of p are folded into it and queued for
\* deletion.  The exclusive maintenance gate keeps out the writers and the
\* manual checkpoint, the parent's latch a reader that loads a child.
FoldChildren(p, cs) ==
  /\ CommitGateFree
  /\ ck.pc = "idle"
  /\ p \notin LatchedShared
  /\ Cached(bm, p)
  /\ cs # {}
  /\ cs \subseteq Mergeable(p)
  /\ bm' = MarkDirty(WriteFrame(MarkForDelete(bm, cs), p, FoldedImage(p, cs)),
                     p, STRUCTURAL_SEQ)

\* Tree::compact: merge_candidate_parent, and compact_candidate_blob, which
\* rebuilds a frame without changing its records.
CompactMerge(t, p, cs) ==
  /\ "merge" \in Compact
  /\ th[t].pc = "idle"
  /\ FoldChildren(p, cs)
  /\ UNCHANGED <<store, wal, keyOf, minted, th, plan, queue, flight, io, ck,
                 noops, faults, opt>>

CompactBlob(t, g) ==
  /\ "blob" \in Compact
  /\ th[t].pc = "idle"
  /\ CommitGateFree
  /\ noops < MaxNoops
  /\ Cached(bm, g)
  /\ g \notin LatchedShared
  /\ bm' = MarkDirty(WriteFrame(bm, g, bm.cache[g].img), g, STRUCTURAL_SEQ)
  /\ noops' = noops + 1
  /\ UNCHANGED <<store, wal, keyOf, minted, th, plan, queue, flight, io, ck, faults, opt>>

\* The eviction thread drops a cold blob that nobody pins and that owes the
\* store nothing.
Evict(g) ==
  /\ AllowEvict
  /\ g # Root
  /\ Cached(bm, g)
  /\ g \notin Pinned
  /\ ~IsProtectedOrPending(bm, g)
  /\ bm' = EvictFromCache(bm, g)
  /\ UNCHANGED <<store, wal, keyOf, minted, th, plan, queue, flight, io, ck,
                 noops, faults, opt>>

---------------------------------------------------------------------------
(* What both checkpoints share.                                            *)

\* A snapshot of the dirty map with the content versions, as a set of
\* entries that have no bytes yet.
VersionedSnapshot ==
  {[guid |-> g, seq |-> bm.dirty[g], ver |-> bm.cache[g].ver] :
      g \in DrainedBlobs(bm)}

\* snapshot_dirty_versions fails when a dirty blob has no cache image; the
\* caller restores the snapshot and gives up.
SnapshotFails == \E g \in DrainedBlobs(bm) : ~Cached(bm, g)

Drained == SnapshotPendingDeletes(SnapshotDirty(bm))

RefusedSnapshot ==
  RestoreDirty(RestorePendingDeletes(Drained, bm.pending),
               [g \in DrainedBlobs(bm) |-> bm.dirty[g]])

\* The sequence numbers to restore: of two entries for a blob, the one of
\* the later epoch wins, as in the code's HashMap.
SeqsOf(es) ==
  [g \in {e.guid : e \in es} |->
     (CHOOSE e \in es : /\ e.guid = g
                        /\ \A f \in es : f.guid = g => f.epoch <= e.epoch).seq]

SnapSeqs(es) ==
  [g \in {e.guid : e \in es} |-> (CHOOSE e \in es : e.guid = g).seq]

WithBytes(e, epoch) ==
  [epoch |-> epoch, guid |-> e.guid, seq |-> e.seq, ver |-> e.ver,
   img |-> bm.cache[e.guid].img]

ImagesOf(es) ==
  [g \in {e.guid : e \in es} |-> (CHOOSE e \in es : e.guid = g).img]

\* Mutant of FlushUpTo: nothing is made durable.
FlushUpToSkipped(w, observed) == w

FlushUpTo(w, observed) == [w EXCEPT !.durable = @ \cup observed]

Truncated(w) ==
  [logged |-> {}, durable |-> {}, gone |-> w.gone \cup w.logged]

---------------------------------------------------------------------------
(* The background planner: reap the reported epochs, try to truncate, wait *)
(* for room, merge, snapshot under the exclusive commit gate, flush the    *)
(* WAL, clone blob by blob, and hand the epoch to the I/O worker.          *)

PlanIdle == [pc |-> "reap", merged |-> FALSE]

\* reap_ready, and the loop's way to run_round.
Reap ==
  /\ Background
  /\ plan.pc = "reap"
  /\ flight' = [sent |-> flight.sent - flight.done, done |-> 0]
  /\ plan' = [plan EXCEPT !.pc =
                IF flight'.sent = 0 /\ wal.logged # {} THEN "truncate" ELSE "round"]
  /\ UNCHANGED <<bm, store, wal, keyOf, minted, th, queue, io, ck, noops, faults, opt>>

MaybeTruncate ==
  /\ plan.pc = "truncate"
  /\ CommitGateFree
  /\ wal' = IF NothingUnflushed(bm) THEN Truncated(wal) ELSE wal
  /\ plan' = [plan EXCEPT !.pc = "round"]
  /\ UNCHANGED <<bm, store, keyOf, minted, th, queue, flight, io, ck, noops, faults, opt>>

WaitForRoom ==
  /\ plan.pc = "round"
  /\ flight.sent >= Depth
  /\ flight.done > 0
  /\ flight' = [sent |-> flight.sent - 1, done |-> flight.done - 1]
  /\ UNCHANGED <<bm, store, wal, keyOf, minted, th, plan, queue, io, ck, noops, faults, opt>>

\* run_merge_pass on one parent.
Merge(p, cs) ==
  /\ AutoMerge
  /\ plan.pc = "round"
  /\ flight.sent < Depth
  /\ FoldChildren(p, cs)
  /\ plan' = [plan EXCEPT !.merged = TRUE]
  /\ UNCHANGED <<store, wal, keyOf, minted, th, queue, flight, io, ck, noops, faults, opt>>

Snapshot ==
  /\ plan.pc = "round"
  /\ flight.sent < Depth
  /\ CommitGateFree
  /\ IF SnapshotFails
     THEN /\ bm' = RefusedSnapshot
          /\ plan' = PlanIdle
     ELSE /\ bm' = Drained
          /\ plan' = [pc |-> "wal", merged |-> plan.merged,
                      left |-> VersionedSnapshot, cloned |-> {}, stale |-> {},
                      pending |-> bm.pending, upto |-> wal.logged]
  /\ UNCHANGED <<store, wal, keyOf, minted, th, queue, flight, io, ck, noops, faults, opt>>

\* The round gives up and restores everything it drained.
AbortRound ==
  /\ bm' = RestoreDirty(RestorePendingDeletes(bm, plan.pending),
                        SnapSeqs(plan.left \cup plan.cloned \cup plan.stale))
  /\ plan' = PlanIdle

FlushWal ==
  /\ plan.pc = "wal"
  /\ wal' = FlushUpTo(wal, plan.upto)
  /\ plan' = [plan EXCEPT !.pc = "clone"]
  /\ UNCHANGED <<bm, store, keyOf, minted, th, queue, flight, io, ck, noops, faults, opt>>

FlushWalFails ==
  /\ plan.pc = "wal"
  /\ SomeFault
  /\ AbortRound
  /\ UNCHANGED <<store, wal, keyOf, minted, th, queue, flight, io, ck, noops>>

\* snapshot_bytes_if_version of one entry.
Clone(e) ==
  /\ plan.pc = "clone"
  /\ e \in plan.left
  /\ IF ~Cached(bm, e.guid)
     THEN AbortRound
     ELSE /\ plan' = [plan EXCEPT
                 !.left = @ \ {e},
                 !.cloned = IF WriteSnapshotIsCurrent(bm, e)
                            THEN @ \cup {WithBytes(e, 0)} ELSE @,
                 !.stale = IF WriteSnapshotIsCurrent(bm, e)
                           THEN @ ELSE @ \cup {e}]
          /\ UNCHANGED bm
  /\ UNCHANGED <<store, wal, keyOf, minted, th, queue, flight, io, ck, noops, faults, opt>>

\* A stale clone sends its own dirty entry and every pending delete back to
\* the next round; what is left is an epoch, unless there is nothing to do.
Submit ==
  /\ plan.pc = "clone"
  /\ plan.left = {}
  /\ LET pending == IF plan.stale = {} THEN plan.pending ELSE {}
         skip == /\ plan.cloned = {} /\ ~plan.merged /\ pending = {}
                 /\ ~(flight.sent = 0 /\ NeedsFlush(store))
     IN  /\ bm' = RestorePendingDeletes(RestoreDirty(bm, SnapSeqs(plan.stale)),
                                        plan.pending \ pending)
         /\ IF skip
            THEN UNCHANGED <<queue, flight>>
            ELSE /\ queue' = Append(queue, [entries |-> plan.cloned,
                                            pending |-> pending])
                 /\ flight' = [flight EXCEPT !.sent = @ + 1]
  /\ plan' = PlanIdle
  /\ UNCHANGED <<store, wal, keyOf, minted, th, io, ck, noops, faults, opt>>

---------------------------------------------------------------------------
(* The I/O worker: it takes one or more queued epochs as a batch, writes   *)
(* the entries in waves, children before parents, with a store flush after *)
(* each wave, then applies the pending deletes and flushes again.          *)

IoIdle == [pc |-> "idle"]

Report ==
  /\ io' = IoIdle
  /\ flight' = [flight EXCEPT !.done = @ + io.n]

\* Mutant of GiveBack: the blobs are marked dirty again, and their flushing
\* references stay.
GiveBackStillFlushing(es) ==
  /\ bm' = RestorePendingDeletes([bm EXCEPT !.dirty = RestoreDirty(bm, SeqsOf(es)).dirty],
                                 io.pending)
  /\ Report

\* restore_batch_entries or restore_unflushed_batch_entries, with
\* restore_all_pending: the batch ends before its delete phase.
GiveBack(es) ==
  /\ bm' = RestorePendingDeletes(RestoreDirty(bm, SeqsOf(es)), io.pending)
  /\ Report

TakeBatch(n) ==
  /\ io.pc = "idle"
  /\ n \in 1..Len(queue)
  /\ LET es == UNION {{[e EXCEPT !.epoch = i] : e \in queue[i].entries} :
                        i \in 1..n}
     IN  io' = [pc |-> IF es = {} THEN "sync" ELSE "wave",
                phase |-> IF es = {} THEN "empty" ELSE "wave",
                n |-> n, entries |-> es, left |-> es, wave |-> {}, current |-> {},
                durable |-> {},
                pending |-> UNION {queue[i].pending : i \in 1..n}]
  /\ queue' = SubSeq(queue, n + 1, Len(queue))
  /\ UNCHANGED <<bm, store, wal, keyOf, minted, th, plan, flight, ck, noops, faults, opt>>

\* Mutant of ChildrenReady: an entry does not wait for its children.
ChildrenIgnored(e) == TRUE

ChildrenReady(e) ==
  \A c \in Children(e.img) :
     \/ c \in io.durable
     \/ /\ \A f \in io.left : f.guid # c
        /\ ~HasUnflushedBlob(bm, c)
        /\ c \in store.man

\* The next wave: nothing left, nothing ready (the batch is deferred), a
\* ready entry without its cache image (the batch fails), or a write.
NextWave ==
  /\ io.pc = "wave"
  /\ LET wave == {e \in io.left : ChildrenReady(e)}
         current == {e \in wave : WriteSnapshotIsCurrent(bm, e)}
     IN  \/ /\ io.left = {}
            /\ io' = [io EXCEPT !.pc = "delete"]
            /\ UNCHANGED <<bm, flight>>
         \/ /\ io.left # {} /\ wave = {}
            /\ GiveBack(io.left)
         \/ /\ \E e \in wave : ~Cached(bm, e.guid)
            /\ GiveBack(io.entries)
         \/ /\ wave # {} /\ \A e \in wave : Cached(bm, e.guid)
            /\ io' = [io EXCEPT !.pc = "write", !.wave = wave, !.current = current]
            /\ UNCHANGED <<bm, flight>>
  /\ UNCHANGED <<store, wal, keyOf, minted, th, plan, queue, ck, noops, faults, opt>>

\* The current entries reach the store; the whole wave is retired.
WriteWave ==
  /\ io.pc = "write"
  /\ store.flusher = "none"
  /\ store' = WriteBlobs(store, DOMAIN ImagesOf(io.current), ImagesOf(io.current))
  /\ bm' = RetireWriteThrough(bm, io.wave)
  /\ io' = [io EXCEPT !.pc = "sync"]
  /\ UNCHANGED <<wal, keyOf, minted, th, plan, queue, flight, ck, noops, faults, opt>>

\* A batch write that fails may have written any of its blobs.
WriteWaveFails ==
  /\ io.pc = "write"
  /\ io.current # {}
  /\ store.flusher = "none"
  /\ SomeFault
  /\ \E es \in SUBSET io.current :
        store' = WriteBlobs(store, DOMAIN ImagesOf(io.current), ImagesOf(es))
  /\ GiveBack(io.entries)
  /\ UNCHANGED <<wal, keyOf, minted, th, plan, queue, ck, noops>>

\* What follows a successful store flush.
AfterFlush ==
  \/ /\ io.phase = "wave" /\ io.current = io.wave
     /\ io' = [io EXCEPT !.pc = "wave", !.left = @ \ io.wave,
                         !.durable = @ \cup {e.guid : e \in io.wave}]
     /\ UNCHANGED <<bm, flight>>
  \/ /\ io.phase = "wave" /\ io.current # io.wave
     /\ GiveBack(io.left \ io.current)
  \/ /\ io.phase = "empty"
     /\ io' = [io EXCEPT !.pc = "delete"]
     /\ UNCHANGED <<bm, flight>>
  \/ /\ io.phase = "deletes"
     /\ Report
     /\ UNCHANGED bm

IoSync ==
  /\ io.pc = "sync"
  /\ store.flusher = "none"
  /\ store' = SyncData(store, "io")
  /\ IF store.manDirty
     THEN /\ io' = [io EXCEPT !.pc = "persist"]
          /\ UNCHANGED <<bm, flight>>
     ELSE AfterFlush
  /\ UNCHANGED <<wal, keyOf, minted, th, plan, queue, ck, noops, faults, opt>>

IoPersist ==
  /\ io.pc = "persist"
  /\ store' = PersistManifest(store)
  /\ AfterFlush
  /\ UNCHANGED <<wal, keyOf, minted, th, plan, queue, ck, noops, faults, opt>>

\* The flush fails in its data sync or in its manifest append.
IoFlushFails ==
  /\ SomeFault
  /\ \/ /\ io.pc = "sync" /\ store.flusher = "none" /\ store.dataDirty
        /\ UNCHANGED store
     \/ /\ io.pc = "persist"
        /\ store' = PersistFails(store)
  /\ GiveBack(IF io.phase = "wave" THEN io.entries ELSE {})
  /\ UNCHANGED <<wal, keyOf, minted, th, plan, queue, ck, noops>>

ApplyDeletes ==
  /\ io.pc = "delete"
  /\ IF io.pending = {}
     THEN Report /\ UNCHANGED store
     ELSE /\ store' = DeleteBlobs(store, io.pending)
          /\ io' = [io EXCEPT !.pc = "sync", !.phase = "deletes"]
          /\ UNCHANGED flight
  /\ UNCHANGED <<bm, wal, keyOf, minted, th, plan, queue, ck, noops, faults, opt>>

---------------------------------------------------------------------------
(* Tree::checkpoint: the same protocol run inline by the caller, under the *)
(* shared maintenance gate, with one unordered write of the snapshot.      *)

CkIdle == [pc |-> "idle"]

CkStart ==
  /\ Manual
  /\ ck.pc = "idle"
  /\ ck' = [pc |-> "capture"]
  /\ UNCHANGED <<bm, store, wal, keyOf, minted, th, plan, queue, flight, io,
                 noops, faults, opt>>

CkCapture ==
  /\ ck.pc = "capture"
  /\ CommitGateFree
  /\ IF SnapshotFails
     THEN /\ bm' = RefusedSnapshot
          /\ ck' = CkIdle
     ELSE /\ bm' = Drained
          /\ ck' = [pc |-> "wal", left |-> VersionedSnapshot, cloned |-> {},
                    current |-> {}, failed |-> FALSE,
                    pending |-> bm.pending, upto |-> wal.logged]
  /\ UNCHANGED <<store, wal, keyOf, minted, th, plan, queue, flight, io, noops, faults, opt>>

\* Everything captured goes back; next is where the caller goes from there.
CkRestoreAll(next) ==
  /\ bm' = RestoreDirty(RestorePendingDeletes(bm, ck.pending),
                        SnapSeqs(ck.left \cup ck.cloned))
  /\ ck' = [pc |-> next]

CkFlushWal ==
  /\ ck.pc = "wal"
  /\ \/ /\ wal' = FlushUpTo(wal, ck.upto)
        /\ ck' = [ck EXCEPT !.pc = "clone"]
        /\ NoFault /\ UNCHANGED bm
     \/ /\ SomeFault
        /\ CkRestoreAll("idle")
        /\ UNCHANGED wal
  /\ UNCHANGED <<store, keyOf, minted, th, plan, queue, flight, io, noops>>

\* One stale entry sends the whole snapshot back and starts again.
CkClone(e) ==
  /\ ck.pc = "clone"
  /\ e \in ck.left
  /\ IF WriteSnapshotIsCurrent(bm, e)
     THEN /\ ck' = [ck EXCEPT !.left = @ \ {e},
                              !.cloned = @ \cup {WithBytes(e, 0)}]
          /\ UNCHANGED bm
     ELSE CkRestoreAll(IF Cached(bm, e.guid) THEN "capture" ELSE "idle")
  /\ UNCHANGED <<store, wal, keyOf, minted, th, plan, queue, flight, io, noops, faults, opt>>

\* The version check of write_through_batch, before its store write.
CkValidate ==
  /\ ck.pc = "clone"
  /\ ck.left = {}
  /\ IF \A e \in ck.cloned : Cached(bm, e.guid)
     THEN /\ ck' = [ck EXCEPT
                     !.pc = IF ck.cloned # {} THEN "write" ELSE "finish",
                     !.current = {e \in ck.cloned : WriteSnapshotIsCurrent(bm, e)}]
          /\ UNCHANGED bm
     ELSE /\ bm' = RestoreDirty(bm, SnapSeqs(ck.cloned))
          /\ ck' = [ck EXCEPT !.pc = "finish", !.failed = TRUE]
  /\ UNCHANGED <<store, wal, keyOf, minted, th, plan, queue, flight, io, noops, faults, opt>>

\* The per-entry statuses of the batch are not looked at: a stale entry is
\* retired with the written ones.
CkWrite ==
  /\ ck.pc = "write"
  /\ store.flusher = "none"
  /\ \/ /\ store' = WriteBlobs(store, DOMAIN ImagesOf(ck.current), ImagesOf(ck.current))
        /\ bm' = RetireWriteThrough(bm, ck.cloned)
        /\ ck' = [ck EXCEPT !.pc = "finish"]
        /\ NoFault
     \/ /\ SomeFault
        /\ \E es \in SUBSET ck.current :
             store' = WriteBlobs(store, DOMAIN ImagesOf(ck.current), ImagesOf(es))
        /\ bm' = RestoreDirty(bm, SnapSeqs(ck.cloned))
        /\ ck' = [ck EXCEPT !.pc = "finish", !.failed = TRUE]
  /\ UNCHANGED <<wal, keyOf, minted, th, plan, queue, flight, io, noops>>

\* Nothing written, nothing to delete and a clean store: no flush needed.
CkFinish ==
  /\ ck.pc = "finish"
  /\ ck' = [ck EXCEPT !.pc =
              IF ck.cloned = {} /\ ck.pending = {} /\ ~NeedsFlush(store)
              THEN "truncate" ELSE "sync"]
  /\ UNCHANGED <<bm, store, wal, keyOf, minted, th, plan, queue, flight, io,
                 noops, faults, opt>>

\* After the first flush come the deletes, after the second the truncation.
CkAfterFlush(deleted) ==
  IF ck.failed
  THEN /\ bm' = RestorePendingDeletes(bm, ck.pending)
       /\ ck' = CkIdle
  ELSE /\ ck' = [ck EXCEPT !.pc = IF deleted THEN "truncate" ELSE "delete"]
       /\ UNCHANGED bm

CkFlushFailed ==
  /\ bm' = RestorePendingDeletes(bm, ck.pending)
  /\ ck' = CkIdle

CkSync ==
  /\ ck.pc \in {"sync", "sync2"}
  /\ store.flusher = "none"
  /\ \/ /\ store' = SyncData(store, "ck")
        /\ NoFault
        /\ IF store.manDirty
           THEN /\ ck' = [ck EXCEPT !.pc = IF @ = "sync" THEN "persist" ELSE "persist2"]
                /\ UNCHANGED bm
           ELSE CkAfterFlush(ck.pc = "sync2")
     \/ /\ store.dataDirty /\ SomeFault
        /\ CkFlushFailed
        /\ UNCHANGED store
  /\ UNCHANGED <<wal, keyOf, minted, th, plan, queue, flight, io, noops>>

CkPersist ==
  /\ ck.pc \in {"persist", "persist2"}
  /\ \/ /\ store' = PersistManifest(store)
        /\ NoFault
        /\ CkAfterFlush(ck.pc = "persist2")
     \/ /\ SomeFault
        /\ store' = PersistFails(store)
        /\ CkFlushFailed
  /\ UNCHANGED <<wal, keyOf, minted, th, plan, queue, flight, io, noops>>

CkDelete ==
  /\ ck.pc = "delete"
  /\ store' = DeleteBlobs(store, ck.pending)
  /\ ck' = [ck EXCEPT !.pc = IF ck.pending = {} THEN "truncate" ELSE "sync2"]
  /\ UNCHANGED <<bm, wal, keyOf, minted, th, plan, queue, flight, io, noops, faults, opt>>

CkTruncate ==
  /\ ck.pc = "truncate"
  /\ CommitGateFree
  /\ wal' = IF wal.logged # {} /\ NothingUnflushed(bm) THEN Truncated(wal) ELSE wal
  /\ ck' = CkIdle
  /\ UNCHANGED <<bm, store, keyOf, minted, th, plan, queue, flight, io, noops, faults, opt>>

---------------------------------------------------------------------------
\* The journal worker makes what was logged durable on its own, too.
GroupCommit ==
  /\ wal.durable # wal.logged
  /\ wal' = FlushUpTo(wal, wal.logged)
  /\ UNCHANGED <<bm, store, keyOf, minted, th, plan, queue, flight, io, ck,
                 noops, faults, opt>>

\* An open tree: an empty root blob, durable and cached.
Init ==
  /\ bm = [cache |-> [g \in Guids |->
                        IF g = Root THEN Frame(EmptyImage, 0) ELSE NotCached],
           dirty |-> [g \in Guids |-> Clean],
           flushing |-> [g \in Guids |-> 0],
           pending |-> {}]
  /\ LET page == [g \in Guids |-> IF g = Root THEN EmptyImage ELSE NoImage]
     IN  store = [page |-> page, disk |-> [g \in Guids |-> {page[g]}],
                  man |-> {Root}, durMan |-> {Root}, log |-> <<>>,
                  dataDirty |-> FALSE, manDirty |-> FALSE,
                  flusher |-> "none", unsure |-> FALSE]
  /\ wal = [logged |-> {}, durable |-> {}, gone |-> {}]
  /\ keyOf = <<>>
  /\ minted = {Root}
  /\ th = [t \in Threads |-> Idle]
  /\ plan = PlanIdle
  /\ queue = <<>>
  /\ flight = [sent |-> 0, done |-> 0]
  /\ io = IoIdle
  /\ ck = CkIdle
  /\ noops = 0
  /\ faults = 0
  /\ opt \in Options

Foreground ==
  \E t \in Threads :
    \/ Publish(t)
    \/ PinInsert(t)
    \/ \E g \in Guids : CompactBlob(t, g)
    \/ \E p \in Guids, cs \in SUBSET Guids : CompactMerge(t, p, cs)
    \/ \E k \in Keys :
         \/ Put(t, k)
         \/ PutRefused(t, k)
         \/ PinRead(t, k)
         \/ \E ks \in SUBSET Keys \ {{}}, c \in Guids : PutSpilling(t, k, ks, c)

Planner ==
  \/ Reap \/ MaybeTruncate \/ WaitForRoom
  \/ \E p \in Guids, cs \in SUBSET Guids : Merge(p, cs)
  \/ Snapshot \/ FlushWal \/ FlushWalFails \/ Submit
  \/ plan.pc = "clone" /\ \E e \in plan.left : Clone(e)

IoWorker ==
  \/ \E n \in 1..Depth : TakeBatch(n)
  \/ NextWave \/ WriteWave \/ WriteWaveFails
  \/ IoSync \/ IoPersist \/ IoFlushFails \/ ApplyDeletes

ManualCheckpoint ==
  \/ CkStart \/ CkCapture \/ CkFlushWal \/ CkValidate
  \/ ck.pc = "clone" /\ \E e \in ck.left : CkClone(e)
  \/ CkWrite \/ CkFinish \/ CkSync \/ CkPersist \/ CkDelete \/ CkTruncate

Next ==
  \/ Foreground
  \/ GroupCommit
  \/ \E g \in Guids : Evict(g)
  \/ Planner
  \/ IoWorker
  \/ ManualCheckpoint

Spec == Init /\ [][Next]_vars

\* The two checkpoint threads are running and a put that is inside the
\* commit gate leaves it; nobody is obliged to call anything.
Fairness ==
  /\ WF_vars(Planner)
  /\ WF_vars(IoWorker)
  /\ \A t \in Threads : WF_vars(Publish(t))

FairSpec == Spec /\ Fairness

---------------------------------------------------------------------------
(* Properties.                                                             *)

\* The slots a lookup of k may reach from the root in the store a crash
\* leaves with manifest m; NoImage when it falls off a blob.
CrashSlots(m, k) ==
  LET step(x) ==
        IF x \notin Guids THEN {x}
        ELSE IF x \notin m THEN {NoImage}
        ELSE {IF d = NoImage THEN NoImage ELSE d[k] : d \in store.disk[x]}
      at[n \in 0..Cardinality(Guids)] ==
        IF n = 0 THEN {Root} ELSE UNION {step(x) : x \in at[n-1]}
  IN  at[Cardinality(Guids)]

\* W2D, the WAL before the data: no image that a crash could find in the
\* data file holds an operation whose record is not durable or truncated
\* (buffer_manager/mod.rs, invariant W2D).
WalBeforeData ==
  \A g \in Guids : \A d \in store.disk[g] \ {NoImage} : \A k \in Keys :
     d[k] \in Ops => d[k] \in wal.durable \cup wal.gone

\* Every child edge a crash could find leads to a blob of the manifest whose
\* bytes were written, so that recovery can walk to every key.
NoDanglingEdge ==
  \A m \in CrashManifests : \A k \in Keys :
     CrashSlots(m, k) \subseteq {0} \cup Ops

\* An operation whose record was truncated from the WAL is in every store a
\* crash could leave, it or a later one on its key, or a later record is
\* still in the WAL.
TruncatedIsDurable ==
  \A op \in wal.gone : \A m \in CrashManifests :
     \/ \E r \in wal.durable : r > op /\ keyOf[r] = keyOf[op]
     \/ \A x \in CrashSlots(m, keyOf[op]) : x \in Ops /\ x >= op

\* A lookup finds the last operation on its key, wherever eviction, merges
\* and spills have put the record: no cached frame is replaced by an older.
Latest(k) ==
  LET on == {i \in DOMAIN keyOf : keyOf[i] = k}
  IN  IF on = {} THEN 0 ELSE CHOOSE i \in on : \A j \in on : j <= i

LookupFindsLatest ==
  \A k \in Keys : Find(LiveView, k) = Latest(k)

\* I1, both ways: a blob the bookkeeping says is dirty has a cache image to
\* write, so that a checkpoint round is never asked to flush bytes it cannot
\* find (mark_dirty_with_hint; snapshot_dirty_versions fails otherwise); and a
\* cached frame that differs from what the store would return is known to the
\* bookkeeping, or to the put that is changing it.
DirtyIsExact ==
  \A g \in Guids :
     /\ HasUnflushedBlob(bm, g) => Cached(bm, g)
     /\ Cached(bm, g) /\ (g \notin store.man \/ bm.cache[g].img # store.page[g])
          => HasUnflushedBlob(bm, g) \/ g \in Pinned

\* The WAL is truncated only when what it protected is on disk: right after
\* a truncation every truncated operation is in the store a crash leaves.
TruncateAfterSync ==
  [][wal'.gone # wal.gone => TruncatedIsDurable']_vars

\* The WAL does not grow for ever: once the writers pause, the background
\* checkpointer, with one epoch in flight at a time, gets to truncate it.
WalGetsTruncated == Depth = 1 => []<>(wal.logged = {})
=============================================================================
