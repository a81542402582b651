--------------------------- MODULE BufferManager ---------------------------
(***************************************************************************)
(* The buffer manager of holt (store/buffer_manager): the cache of blob    *)
(* frames over the blob store and the bookkeeping that decides which       *)
(* cached frame still has to reach the store.                              *)
(*                                                                         *)
(* A buffer manager is a record                                            *)
(*   cache    [guid -> NotCached or [img, ver]]: the frame and the content *)
(*            version of its latch                                         *)
(*   dirty    [guid -> Clean or the lowest unflushed sequence number]      *)
(*   flushing [guid -> number of epochs that own a clone of the blob]      *)
(*   pending  the blobs unlinked from the tree and not yet deleted         *)
(* and each operator is one method, applied to it.  Every method locks the *)
(* bookkeeping shard of one blob at a time; the callers that need all the  *)
(* shards at one instant hold the commit gate exclusively.  The dirty hint *)
(* of a cached blob (a filter in front of the dirty map that every path    *)
(* rechecks under the shard lock) and the sequence numbers of pending      *)
(* deletes, which nothing reads, are abstracted away.                      *)
(***************************************************************************)
EXTENDS Integers, FiniteSets

CONSTANTS Guids, NotCached

Clean == 0

\* A structural change (a merge) has no WAL record: u64::MAX in the code,
\* above every sequence number the model reaches.
STRUCTURAL_SEQ == 1000

Frame(img, ver) == [img |-> img, ver |-> ver]

Cached(bm, g) == bm.cache[g] # NotCached

\* `and_modify(|cur| cur.min(seq)).or_insert(seq)`.
MergedSeq(cur, seq) ==
  IF cur = Clean \/ seq < cur THEN seq ELSE cur

\* remove_one_flushing: a missing entry stays missing.
OneFlushingLess(n) ==
  IF n = 0 THEN 0 ELSE n - 1

\* Mutant of IsProtectedOrPending: an epoch's reference does not protect.
IsDirtyOrPending(bm, g) ==
  bm.dirty[g] # Clean \/ g \in bm.pending

\* A blob the eviction sweep may not take.
IsProtectedOrPending(bm, g) ==
  bm.dirty[g] # Clean \/ bm.flushing[g] # 0 \/ g \in bm.pending

HasUnflushedBlob(bm, g) ==
  bm.dirty[g] # Clean \/ bm.flushing[g] # 0

\* No dirty entry without its cache image: a blob that is not cached, or
\* that waits for its deletion, is left alone.
MarkDirty(bm, g, seq) ==
  IF Cached(bm, g) /\ g \notin bm.pending
  THEN [bm EXCEPT !.dirty[g] = MergedSeq(@, seq)]
  ELSE bm

\* The same for the blobs an operation touched.
MarkAllDirty(bm, gs, seq) ==
  [bm EXCEPT !.dirty = [g \in Guids |->
     IF g \in gs THEN MarkDirty(bm, g, seq).dirty[g] ELSE @[g]]]

\* The blobs snapshot_dirty returns, and the bookkeeping it leaves: the
\* dirty map empty, one more flushing reference for each blob returned.
DrainedBlobs(bm) ==
  {g \in Guids : bm.dirty[g] # Clean /\ g \notin bm.pending}

SnapshotDirty(bm) ==
  [bm EXCEPT !.dirty = [g \in Guids |-> Clean],
             !.flushing = [g \in Guids |->
                IF g \in DrainedBlobs(bm) THEN @[g] + 1 ELSE @[g]]]

\* seqs maps the blobs to restore to their sequence numbers.  Unlike
\* mark_dirty it does not ask whether the blob still has a cache image.
RestoreDirty(bm, seqs) ==
  [bm EXCEPT
     !.flushing = [g \in Guids |->
        IF g \in DOMAIN seqs THEN OneFlushingLess(@[g]) ELSE @[g]],
     !.dirty = [g \in Guids |->
        IF g \in DOMAIN seqs /\ g \notin bm.pending
        THEN MergedSeq(@[g], seqs[g]) ELSE @[g]]]

\* mark_for_delete of every blob of gs.
MarkForDelete(bm, gs) ==
  [bm EXCEPT !.pending = @ \cup gs,
             !.dirty = [g \in Guids |-> IF g \in gs THEN Clean ELSE @[g]],
             !.flushing = [g \in Guids |-> IF g \in gs THEN 0 ELSE @[g]],
             !.cache = [g \in Guids |-> IF g \in gs THEN NotCached ELSE @[g]]]

SnapshotPendingDeletes(bm) == [bm EXCEPT !.pending = {}]

RestorePendingDeletes(bm, gs) == [bm EXCEPT !.pending = @ \cup gs]

\* Mutant of WriteSnapshotIsCurrent: the version is not compared.
WriteSnapshotIsCached(bm, e) == Cached(bm, e.guid)

\* write_snapshot_is_current: has the frame the version it was cloned at?
WriteSnapshotIsCurrent(bm, e) ==
  Cached(bm, e.guid) /\ bm.cache[e.guid].ver = e.ver

\* Mutant of RetireWriteThrough: a racing writer's mark is dropped as well.
RetireRegardless(bm, es) ==
  [bm EXCEPT
     !.dirty = [g \in Guids |->
        IF \E e \in es : e.guid = g THEN Clean ELSE @[g]],
     !.flushing = [g \in Guids |->
        LET owned == Cardinality({e \in es : e.guid = g})
        IN  IF owned < @[g] THEN @[g] - owned ELSE 0]]

\* retire_write_through for each entry of a batch, written or stale alike.
\* The dirty entry goes when it still carries the sequence number the epoch
\* drained; every entry gives back one flushing reference.
RetireWriteThrough(bm, es) ==
  [bm EXCEPT
     !.dirty = [g \in Guids |->
        IF \E e \in es : /\ e.guid = g
                         /\ e.seq # STRUCTURAL_SEQ
                         /\ e.seq = @[g]
        THEN Clean ELSE @[g]],
     !.flushing = [g \in Guids |->
        LET owned == Cardinality({e \in es : e.guid = g})
        IN  IF owned < @[g] THEN @[g] - owned ELSE 0]]

InstallNewBlob(bm, g, img, seq) ==
  [bm EXCEPT !.cache[g] = Frame(img, 0),
             !.dirty[g] = MergedSeq(@, seq)]

\* The second half of a pin that missed the cache: entry().or_insert().
InsertOwnedIntoCache(bm, g, img) ==
  IF Cached(bm, g) THEN bm ELSE [bm EXCEPT !.cache[g] = Frame(img, 0)]

EvictFromCache(bm, g) == [bm EXCEPT !.cache[g] = NotCached]

\* An exclusive latch on g taken and released around a new content.
WriteFrame(bm, g, img) ==
  [bm EXCEPT !.cache[g] = Frame(img, @.ver + 1)]

\* Mutant of NothingUnflushed: the dirty map is not looked at.
NothingFlushing(bm) ==
  /\ \A g \in Guids : bm.flushing[g] = 0
  /\ bm.pending = {}

\* What the WAL truncation asks for under the commit gate.
NothingUnflushed(bm) ==
  /\ \A g \in Guids : bm.dirty[g] = Clean /\ bm.flushing[g] = 0
  /\ bm.pending = {}
=============================================================================
