------------------------------- MODULE Catalog -------------------------------
(***************************************************************************)
(* The named trees of a DB (api/db.rs): create, open, drop, writes through *)
(* handles, cross-tree batches and views, DB::checkpoint with the physical *)
(* cleanup of dropped trees, crash and reopen.                             *)
(*                                                                         *)
(* A tree is one root blob, the set of writes applied to it.  The catalog  *)
(* is a tree of its own, number 0 here.  A runtime is the state that the   *)
(* handles of one tree share (TreeRuntime); it is fenced when the tree is  *)
(* dropped.  The maintenance gate is an abstract readers-writer lock, a    *)
(* walker call is one step, and the WAL is its records with a durable      *)
(* prefix.  Every creation has a number of its own, `birth`, a history     *)
(* field that tells two trees apart even if they got one id.               *)
(***************************************************************************)
EXTENDS Integers, Sequences, FiniteSets, SequencesExt, TLC

CONSTANTS
  Names,
  Threads,
  Checkpointers,   \* the threads that call DB::checkpoint
  WalSync,         \* cfg.wal_sync
  MaxId,           \* bound on the ids of user trees
  Budgets          \* bounds on the calls and crashes of a behaviour

ASSUME CatalogAssumption ==
  /\ IsFiniteSet(Names) /\ Checkpointers \subseteq Threads /\ MaxId \in Nat
  /\ WalSync \in BOOLEAN

VARIABLES
  catalog, nextId, \* the catalog tree in memory
  cache,           \* catalog_cache
  trees,           \* trees: the runtime of each id, 0 if it has none
  runs,            \* runtimes made so far
  fenced,          \* the runtimes that are marked dropped
  root,            \* the root blobs in the cache
  dirty, pending,  \* the buffer manager's dirty roots and pending deletes
  disk,            \* the store: root blobs and the catalog's image
  wal, durable,    \* the log and how many records of it are on disk
  settled,         \* history: the writes whose records were truncated
  ops,             \* history: ops[o]: the trees that write o goes to
  births,          \* history: creations so far
  th,              \* the calls in progress
  handle,          \* the Tree each thread holds
  left             \* what is left of the budget

memory == <<catalog, nextId, cache, trees, runs, fenced, root, dirty, pending>>
log == <<wal, durable, settled, ops, births>>
vars == <<memory, disk, log, th, handle, left>>

Ids == 1 .. MaxId
CatalogId == 0
NoBlob == {-1}
None == [id |-> 0, live |-> FALSE, birth |-> 0]
NoHandle == [ent |-> None, run |-> 0, live |-> FALSE]
Idle == [call |-> "none", pc |-> "idle", todo |-> <<>>, ent |-> None, got |-> <<>>,
         locks |-> {}, at |-> 0, op |-> 0, seen |-> <<>>, found |-> {}, snap |-> <<>>,
         doomed |-> {}, round |-> 0, alone |-> FALSE]

Init ==
  /\ catalog = [n \in Names |-> None] /\ nextId = 1
  /\ cache = catalog
  /\ trees = [i \in Ids |-> 0] /\ runs = 0 /\ fenced = {}
  /\ root = [i \in Ids |-> NoBlob]
  /\ dirty = {} /\ pending = {}
  /\ disk = [roots |-> root, catalog |-> catalog, nextId |-> 1]
  /\ wal = <<>> /\ durable = 0 /\ settled = {} /\ ops = <<>> /\ births = 0
  /\ th = [t \in Threads |-> Idle]
  /\ handle = [t \in Threads |-> NoHandle]
  /\ left \in Budgets

\* The names that the behaviour uses at all.
InUse == left.names

Step(t, from, to) == th[t].pc = from /\ th' = [th EXCEPT ![t].pc = to]
Return(t) == th' = [th EXCEPT ![t] = Idle]
Name(t) == Head(th[t].todo)

-----------------------------------------------------------------------------
(* The gates *)

Exclusive == {t \in Threads : th[t].call \in {"create", "drop"} \/ th[t].pc = "forget"}
Shared == {t \in Threads : th[t].call \in {"batch", "view"}
                            \/ th[t].pc \in {"wal", "write", "delete", "truncate"}}
EnterShared(t) == Exclusive \ {t} = {}
EnterExclusive(t) == (Exclusive \cup Shared) \ {t} = {}

\* Inside the commit gate between the first walker call and the record.
Committing == {t \in Threads : th[t].call = "batch" /\ th[t].pc = "apply" /\ th[t].at > 0}

Start(t, call, names) ==
  /\ th[t].pc = "idle"
  /\ left[call] > 0
  /\ left' = [left EXCEPT ![call] = @ - 1]
  /\ th' = [u \in Threads |->
       IF u = t THEN [Idle EXCEPT !.call = call, !.todo = names,
                        !.pc = IF call = "checkpoint" THEN "get" ELSE "cache",
                        !.alone = \A v \in Threads \ {t} : th[v].pc = "idle"]
       ELSE [th[u] EXCEPT !.alone = FALSE]]
  /\ UNCHANGED <<memory, disk, log, handle>>

CreateTree(t, n) == EnterExclusive(t) /\ Start(t, "create", <<n>>)
OpenTree(t, n) == Start(t, "open", <<n>>)
DropTree(t, n) == EnterExclusive(t) /\ Start(t, "drop", <<n>>)
Atomic(t, names) == EnterShared(t) /\ Start(t, "batch", names)
View(t, names) == EnterShared(t) /\ Start(t, "view", names)
CheckpointDB(t) == t \in Checkpointers /\ Start(t, "checkpoint", SetToSeq(InUse))

-----------------------------------------------------------------------------
(* catalog_entry: the cache, then the catalog, whose answer is cached *)

CachedEntry(t) ==
  /\ th[t].pc = "cache"
  /\ th' = [th EXCEPT ![t].ent = cache[Name(t)],
                      ![t].pc = IF cache[Name(t)] = None THEN "get" ELSE "found"]
  /\ UNCHANGED <<memory, disk, log, handle, left>>

\* catalog_entries goes to the catalog for every name.
CatalogGet(t) ==
  /\ th[t].pc = "get"
  /\ th' = [th EXCEPT ![t].ent = catalog[Name(t)],
                      ![t].pc = IF catalog[Name(t)] = None THEN "found" ELSE "fill"]
  /\ UNCHANGED <<memory, disk, log, handle, left>>

FillCache(t) ==
  /\ Step(t, "fill", "found")
  /\ cache' = [cache EXCEPT ![Name(t)] = th[t].ent]
  /\ UNCHANGED <<catalog, nextId, trees, runs, fenced, root, dirty, pending, disk,
                 log, handle, left>>

\* TreeExists, TreeNotFound: the call ends.
Refuse(t) ==
  /\ th[t].pc = "found"
  /\ CASE th[t].call = "create" -> th[t].ent # None
       [] th[t].call = "checkpoint" -> FALSE
       [] OTHER -> ~th[t].ent.live
  /\ Return(t)
  /\ UNCHANGED <<memory, disk, log, handle, left>>

-----------------------------------------------------------------------------
(* Records of the catalog, through apply_system_batch_unlocked *)

LogCatalog(changes, next) ==
  /\ catalog' = changes @@ catalog
  /\ nextId' = next
  /\ wal' = Append(wal, [cat |-> changes, next |-> next, op |-> 0, to |-> {}])
  /\ dirty' = dirty \cup {CatalogId}

\* Mutant of NextAllocatedTreeId: the id is handed out again.
NextAllocatedTreeIdSame(i) == i

NextAllocatedTreeId(i) == i + 1

AllocateTreeId == nextId

CreateRecord(t) ==
  /\ th[t].call = "create" /\ th[t].pc = "found" /\ th[t].ent = None
  /\ AllocateTreeId <= MaxId
  /\ LET e == [id |-> AllocateTreeId, live |-> TRUE, birth |-> births + 1]
     IN  /\ LogCatalog(Name(t) :> e, NextAllocatedTreeId(AllocateTreeId))
         /\ births' = births + 1
         /\ th' = [th EXCEPT ![t].ent = e, ![t].pc = "created"]
  /\ UNCHANGED <<cache, trees, runs, fenced, root, pending, disk, durable, settled,
                 ops, handle, left>>

\* The record was awaited under wal_sync; the cache learns of it.
Awaited == WalSync => durable = Len(wal)

CacheCreated(t) ==
  /\ Step(t, "created", "state")
  /\ Awaited
  /\ cache' = [cache EXCEPT ![Name(t)] = th[t].ent]
  /\ UNCHANGED <<catalog, nextId, trees, runs, fenced, root, dirty, pending, disk,
                 log, handle, left>>

HasBlob(i) == i \notin pending /\ (root[i] # NoBlob \/ disk.roots[i] # NoBlob)

\* drop_tree: the guids of the tree are collected, the tombstone is logged ...
DropRecord(t) ==
  /\ th[t].call = "drop" /\ th[t].pc = "found" /\ th[t].ent.live
  /\ LET e == [th[t].ent EXCEPT !.live = FALSE]
     IN  /\ LogCatalog(Name(t) :> e, nextId)
         /\ th' = [th EXCEPT ![t].ent = e, ![t].pc = "tombstone",
                             ![t].doomed = {i \in {e.id} : HasBlob(i)}]
  /\ UNCHANGED <<cache, trees, runs, fenced, root, pending, disk, durable, settled,
                 ops, births, handle, left>>

CacheDropped(t) ==
  /\ Step(t, "tombstone", "fence")
  /\ Awaited
  /\ cache' = [cache EXCEPT ![Name(t)] = th[t].ent]
  /\ UNCHANGED <<catalog, nextId, trees, runs, fenced, root, dirty, pending, disk,
                 log, handle, left>>

\* Mutant of Fenced: nobody is told.
FencedNobody(i) == fenced

\* mark_runtime_dropped
Fenced(i) == fenced \cup ({trees[i]} \ {0})

\* mark_for_delete
MarkForDelete(gone) ==
  /\ pending' = pending \cup gone
  /\ dirty' = dirty \ gone
  /\ root' = [i \in Ids |-> IF i \in gone THEN NoBlob ELSE root[i]]

\* ... the handles are fenced, and then the blobs are staged.
FenceHandles(t) ==
  /\ Step(t, "fence", "stage")
  /\ th[t].call = "drop"
  /\ fenced' = Fenced(th[t].ent.id)
  /\ UNCHANGED <<catalog, nextId, cache, trees, runs, root, dirty, pending, disk, log,
                 handle, left>>

StageBlobs(t) ==
  /\ th[t].call = "drop" /\ th[t].pc = "stage"
  /\ MarkForDelete(th[t].doomed)
  /\ Return(t)
  /\ UNCHANGED <<catalog, nextId, cache, trees, runs, fenced, disk, log, handle, left>>

-----------------------------------------------------------------------------
(* open_tree_state and tree_from_state *)

Opening == {"open", "batch", "view"}

\* The lookup found a live tree.
FoundLive(t) ==
  /\ Step(t, "found", "state")
  /\ th[t].call \in Opening /\ th[t].ent.live
  /\ UNCHANGED <<memory, disk, log, handle, left>>

\* The runtime that is there, if it is not dropped, or a new one, for which
\* ensure_root_blob writes an empty root straight to the store when the tree
\* has none that is not about to be deleted.
OpenTreeState(t) ==
  LET i == th[t].ent.id
      h(r) == [ent |-> th[t].ent, run |-> r, live |-> \E n \in Names : catalog[n] = th[t].ent]
  IN  /\ th[t].pc = "state"
      /\ \/ /\ trees[i] \in fenced
            /\ Return(t)
            /\ UNCHANGED <<trees, runs, disk>>
         \/ /\ trees[i] \notin fenced \cup {0}
            /\ th' = [th EXCEPT ![t].got = Append(@, h(trees[i])), ![t].pc = "pin"]
            /\ UNCHANGED <<trees, runs, disk>>
         \/ /\ trees[i] = 0
            /\ th' = [th EXCEPT ![t].got = Append(@, h(runs + 1)), ![t].pc = "pin"]
            /\ runs' = runs + 1
            /\ trees' = [trees EXCEPT ![i] = runs + 1]
            /\ disk' = IF HasBlob(i) THEN disk ELSE [disk EXCEPT !.roots[i] = {}]
      /\ UNCHANGED <<catalog, nextId, cache, fenced, root, dirty, pending, log, handle, left>>

\* Tree::from_shared pins the root; a batch or a view goes on to its next tree.
PinRoot(t) ==
  LET i == th[t].ent.id
      c == th[t].call
      more == Len(th[t].todo) > 1
  IN  /\ th[t].pc = "pin"
      /\ IF HasBlob(i)
         THEN /\ root' = [root EXCEPT ![i] = IF @ = NoBlob THEN disk.roots[i] ELSE @]
              /\ IF c \in {"create", "open"}
                 THEN /\ handle' = [handle EXCEPT ![t] = th[t].got[1]]
                      /\ Return(t)
                 ELSE /\ th' = [th EXCEPT ![t].todo = Tail(@),
                                          ![t].pc = IF more THEN "cache" ELSE "lock"]
                      /\ UNCHANGED handle
         ELSE Return(t) /\ UNCHANGED <<root, handle>>
      /\ UNCHANGED <<catalog, nextId, cache, trees, runs, fenced, dirty, pending, disk,
                     log, left>>

-----------------------------------------------------------------------------
(* Writes and views *)

LockedBy(t) == UNION {th[u].locks : u \in Threads \ {t}}

\* mark_dirty_cached after the walker changed the root of tree i.  A root that
\* left the cache is a frame of the handle's own, which no checkpoint reads.
Changed(i, o) ==
  /\ root' = [root EXCEPT ![i] = IF @ = NoBlob THEN @ ELSE @ \cup {o}]
  /\ dirty' = IF i \in pending THEN dirty ELSE dirty \cup {i}

Target(h) == [id |-> h.ent.id, birth |-> h.ent.birth]

\* Tree::put through a handle: ensure_live inside the maintenance gate, the
\* walker and the record inside the commit gate.
Put(t) ==
  LET h == handle[t]
      o == Len(ops) + 1
  IN  /\ th[t].pc = "idle" /\ h # NoHandle
      /\ left["put"] > 0
      /\ left' = [left EXCEPT !["put"] = @ - 1]
      /\ EnterShared(t)
      /\ h.run \notin fenced
      /\ h.run \notin LockedBy(t)
      /\ Changed(h.ent.id, o)
      /\ ops' = Append(ops, {Target(h)})
      /\ wal' = Append(wal, [cat |-> <<>>, next |-> 0, op |-> o, to |-> {h.ent.id}])
      /\ UNCHANGED <<catalog, nextId, cache, trees, runs, fenced, pending, disk, durable,
                     settled, births, th, handle>>

\* Mutant of Gates: no gates, the trees are worked on one by one.
GatesSkipped(t) == {}

\* The mutation gates of the trees of a batch or a view.
Gates(t) == {th[t].got[k] : k \in 1 .. Len(th[t].got)}

\* They are entered in the order of the tree ids.
EnterGates(t) ==
  /\ th[t].pc = "lock"
  /\ LET rest == {h \in Gates(t) : h.run \notin th[t].locks}
     IN  IF rest = {} THEN th' = [th EXCEPT ![t].pc = "apply"]
         ELSE \E h \in rest :
                /\ \A g \in rest : h.ent.id <= g.ent.id
                /\ h.run \notin LockedBy(t)
                /\ th' = [th EXCEPT ![t].locks = @ \cup {h.run}]
  /\ UNCHANGED <<memory, disk, log, handle, left>>

\* apply_batch_groups_with_journal: tree by tree, then one record.
ApplyGroup(t) ==
  LET k == th[t].at + 1
      o == IF k = 1 THEN Len(ops) + 1 ELSE th[t].op
  IN  /\ th[t].call = "batch" /\ th[t].pc = "apply"
      /\ k <= Len(th[t].got)
      /\ Changed(th[t].got[k].ent.id, o)
      /\ ops' = IF k = 1 THEN Append(ops, {Target(th[t].got[j]) : j \in 1 .. Len(th[t].got)})
                ELSE ops
      /\ th' = [th EXCEPT ![t].at = k, ![t].op = o]
      /\ UNCHANGED <<catalog, nextId, cache, trees, runs, fenced, pending, disk, wal, durable,
                     settled, births, handle, left>>

LogBatch(t) ==
  /\ th[t].call = "batch" /\ th[t].pc = "apply" /\ th[t].at = Len(th[t].got)
  /\ wal' = Append(wal, [cat |-> <<>>, next |-> 0, op |-> th[t].op,
                         to |-> {h.ent.id : h \in {th[t].got[k] : k \in 1 .. Len(th[t].got)}}])
  /\ Return(t)
  /\ UNCHANGED <<memory, disk, durable, settled, ops, births, handle, left>>

\* capture_view_unlocked, tree by tree; then the view is read.
CaptureView(t) ==
  /\ th[t].call = "view" /\ th[t].pc = "apply"
  /\ LET k == th[t].at + 1
     IN  IF k <= Len(th[t].got)
         THEN th' = [th EXCEPT ![t].at = k, ![t].seen = Append(@, root[th[t].got[k].ent.id])]
         ELSE Return(t)
  /\ UNCHANGED <<memory, disk, log, handle, left>>

-----------------------------------------------------------------------------
(* DB::checkpoint *)

\* catalog_entries, name by name; the tombstones are kept.
NextEntry(t) ==
  LET rest == Tail(th[t].todo)
      e == th[t].ent
  IN  /\ th[t].call = "checkpoint" /\ th[t].pc = "found"
      /\ th' = [th EXCEPT
           ![t].todo = rest,
           ![t].found = IF e # None /\ ~e.live THEN @ \cup {[name |-> Name(t), ent |-> e]} ELSE @,
           ![t].pc = IF rest # <<>> THEN "get"
                     ELSE IF th[t].round = 0 THEN "stage" ELSE "judge"]
      /\ UNCHANGED <<memory, disk, log, handle, left>>

\* stage_dropped_trees, one tombstone after the other
StageDropped(t) ==
  /\ th[t].call = "checkpoint" /\ th[t].pc = "stage"
  /\ \/ \E d \in th[t].found :
          /\ EnterExclusive(t)
          /\ fenced' = Fenced(d.ent.id)
          /\ MarkForDelete({i \in {d.ent.id} : HasBlob(i)})
          /\ th' = [th EXCEPT ![t].found = @ \ {d}]
     \/ /\ th[t].found = {}
        /\ th' = [th EXCEPT ![t].pc = "capture"]
        /\ UNCHANGED <<fenced, root, dirty, pending>>
  /\ UNCHANGED <<catalog, nextId, cache, trees, runs, disk, log, handle, left>>

\* Tree::checkpoint is checkpoint_shared_parts alone.
CheckpointTree(t) ==
  /\ left["round"] > 0
  /\ left' = [left EXCEPT !["round"] = @ - 1]
  /\ th[t].pc = "idle"
  /\ th' = [u \in Threads |-> IF u = t THEN [Idle EXCEPT !.call = "round", !.pc = "capture"]
                              ELSE [th[u] EXCEPT !.alone = FALSE]]
  /\ UNCHANGED <<memory, disk, log, handle>>

Contents(i) == IF i = CatalogId THEN <<catalog, nextId>> ELSE root[i]

\* capture_checkpoint_intent_shared, which fails on a dirty root that left the
\* cache (snapshot_dirty_versions) and puts everything back.
Capture(t) ==
  /\ th[t].pc = "capture"
  /\ EnterShared(t)
  /\ Committing = {}
  /\ IF \E i \in dirty \ {CatalogId} : root[i] = NoBlob
     THEN Return(t) /\ UNCHANGED <<dirty, pending>>
     ELSE /\ th' = [th EXCEPT ![t].snap = [i \in dirty |-> Contents(i)],
                              ![t].doomed = pending, ![t].at = Len(wal), ![t].pc = "wal"]
          /\ dirty' = {} /\ pending' = {}
  /\ UNCHANGED <<catalog, nextId, cache, trees, runs, fenced, root, disk, log, handle, left>>

\* flush_up_to
FlushWal(t) ==
  /\ Step(t, "wal", "write")
  /\ durable' = IF th[t].at > durable THEN th[t].at ELSE durable
  /\ UNCHANGED <<memory, disk, wal, settled, ops, births, handle, left>>

Stale(t) == \E i \in DOMAIN th[t].snap : th[t].snap[i] # Contents(i)

WriteImage(t) ==
  /\ th[t].pc = "write" /\ ~Stale(t)
  /\ \/ \E i \in DOMAIN th[t].snap :
          /\ disk' = IF i = CatalogId
                     THEN [disk EXCEPT !.catalog = th[t].snap[i][1], !.nextId = th[t].snap[i][2]]
                     ELSE [disk EXCEPT !.roots[i] = th[t].snap[i]]
          /\ th' = [th EXCEPT ![t].snap = [j \in DOMAIN @ \ {i} |-> @[j]]]
     \/ /\ th[t].snap = <<>>
        /\ th' = [th EXCEPT ![t].pc = "delete"]
        /\ UNCHANGED disk
  /\ UNCHANGED <<memory, log, handle, left>>

\* A blob changed since the capture: before its bytes were cloned the round
\* starts over, afterwards the call fails.  Everything is put back.
GiveBack(t) ==
  /\ th[t].pc = "write" /\ Stale(t)
  /\ dirty' = dirty \cup (DOMAIN th[t].snap \ pending)
  /\ pending' = pending \cup th[t].doomed
  /\ \/ th' = [th EXCEPT ![t].snap = <<>>, ![t].doomed = {}, ![t].pc = "capture"]
     \/ Return(t)
  /\ UNCHANGED <<catalog, nextId, cache, trees, runs, fenced, root, disk, log, handle, left>>

\* execute_pending_delete, after the flush of the images
DeleteRoot(t) ==
  /\ th[t].pc = "delete"
  /\ \/ \E i \in th[t].doomed :
          /\ disk' = [disk EXCEPT !.roots[i] = NoBlob]
          /\ th' = [th EXCEPT ![t].doomed = @ \ {i}]
     \/ /\ th[t].doomed = {}
        /\ th' = [th EXCEPT ![t].pc = "truncate"]
        /\ UNCHANGED disk
  /\ UNCHANGED <<memory, log, handle, left>>

\* maybe_truncate_journal_shared; then DB::checkpoint goes on to
\* finalize_dropped_trees once nothing is pending.
Truncate(t) ==
  /\ th[t].pc = "truncate"
  /\ Committing = {}
  /\ IF dirty = {} /\ pending = {} /\ \A u \in Threads : th[u].snap = <<>>
     THEN /\ wal' = <<>> /\ durable' = 0
          /\ settled' = settled \cup {wal[k].op : k \in 1 .. Len(wal)}
     ELSE UNCHANGED <<wal, durable, settled>>
  /\ th' = [th EXCEPT ![t] =
       IF @.call = "checkpoint" /\ @.round = 0 /\ pending = {}
       THEN [@ EXCEPT !.round = 1, !.todo = SetToSeq(InUse), !.pc = "get", !.at = 0]
       ELSE [@ EXCEPT !.pc = "done"]]
  /\ UNCHANGED <<memory, disk, ops, births, handle, left>>

\* Mutant of Finalizable: only trees that were opened since the reopen.
FinalizableOpened(t) == {d \in th[t].found : trees[d.ent.id] # 0 /\ disk.roots[d.ent.id] = NoBlob}

Finalizable(t) == {d \in th[t].found : disk.roots[d.ent.id] = NoBlob}

JudgeDropped(t) ==
  /\ th[t].pc = "judge"
  /\ th' = [th EXCEPT ![t].found = Finalizable(t),
                      ![t].pc = IF Finalizable(t) = {} THEN "done" ELSE "finalize"]
  /\ UNCHANGED <<memory, disk, log, handle, left>>

FinalizeRecord(t) ==
  /\ Step(t, "finalize", "forget")
  /\ EnterExclusive(t)
  /\ LogCatalog([n \in {d.name : d \in th[t].found} |-> None], nextId)
  /\ UNCHANGED <<cache, trees, runs, fenced, root, pending, disk, durable, settled, ops,
                 births, handle, left>>

ForgetDropped(t) ==
  /\ th[t].pc = "forget"
  /\ Awaited
  /\ cache' = [n \in {d.name : d \in th[t].found} |-> None] @@ cache
  /\ trees' = [i \in {d.ent.id : d \in th[t].found} |-> 0] @@ trees
  /\ th' = [th EXCEPT ![t].found = {}, ![t].round = 2, ![t].pc = "capture"]
  /\ UNCHANGED <<catalog, nextId, runs, fenced, root, dirty, pending, disk, log, handle, left>>

Done(t) ==
  /\ th[t].pc = "done"
  /\ Return(t)
  /\ UNCHANGED <<memory, disk, log, handle, left>>

-----------------------------------------------------------------------------
(* The journal's thread, crash and reopen *)

SyncWal ==
  /\ durable < Len(wal)
  /\ durable' = Len(wal)
  /\ UNCHANGED <<memory, disk, wal, settled, ops, births, th, handle, left>>

Kept(n, i) == {wal[k].op : k \in {j \in 1 .. n : i \in wal[j].to}}

\* replay_wal over the first n records: a tree that a record names has a root.
Replayed(n) ==
  LET recs == SubSeq(wal, 1, n)
      nexts == SelectSeq(recs, LAMBDA r : r.next # 0)
      set(n2) == SelectSeq(recs, LAMBDA r : n2 \in DOMAIN r.cat)
  IN  [catalog |-> [m \in Names |-> IF set(m) = <<>> THEN disk.catalog[m] ELSE Last(set(m)).cat[m]],
       nextId |-> IF nexts = <<>> THEN disk.nextId ELSE Last(nexts).next,
       roots |-> [i \in Ids |->
                    IF Kept(n, i) = {} THEN disk.roots[i]
                    ELSE (disk.roots[i] \ NoBlob) \cup Kept(n, i)]]

\* DB::open: replay, then stage_dropped_trees, which also fills the cache.
Reopen(n) ==
  LET r == Replayed(n)
      touched == {i \in Ids : Kept(n, i) # {}}
      gone == {i \in Ids : r.roots[i] # NoBlob
                            /\ \E m \in Names : r.catalog[m].id = i /\ ~r.catalog[m].live}
  IN  /\ catalog' = r.catalog /\ nextId' = r.nextId /\ cache' = r.catalog
      /\ trees' = [i \in Ids |-> 0] /\ fenced' = {} /\ runs' = 0
      /\ root' = [i \in Ids |-> IF i \in touched \ gone THEN r.roots[i] ELSE NoBlob]
      /\ dirty' = (touched \ gone) \cup (IF \E k \in 1 .. n : wal[k].cat # <<>> THEN {CatalogId} ELSE {})
      /\ pending' = gone
      /\ disk' = [disk EXCEPT !.roots = [i \in Ids |->
                    IF i \in touched /\ @[i] = NoBlob THEN {} ELSE @[i]]]

Crash(n) ==
  /\ left["crash"] > 0
  /\ left' = [left EXCEPT !["crash"] = @ - 1]
  /\ Reopen(n)
  /\ wal' = SubSeq(wal, 1, n) /\ durable' = n
  /\ th' = [t \in Threads |-> Idle]
  /\ handle' = [t \in Threads |-> NoHandle]
  /\ UNCHANGED <<settled, ops, births>>

-----------------------------------------------------------------------------
Lookup(t) == CachedEntry(t) \/ CatalogGet(t) \/ FillCache(t) \/ Refuse(t) \/ FoundLive(t)
Catalogue(t) == CreateRecord(t) \/ CacheCreated(t) \/ DropRecord(t) \/ CacheDropped(t)
                \/ FenceHandles(t) \/ StageBlobs(t)
UseTree(t) == OpenTreeState(t) \/ PinRoot(t) \/ Put(t)
              \/ EnterGates(t) \/ ApplyGroup(t) \/ LogBatch(t) \/ CaptureView(t)
Checkpoint(t) == NextEntry(t) \/ StageDropped(t) \/ CheckpointTree(t) \/ Capture(t) \/ FlushWal(t)
                 \/ WriteImage(t) \/ GiveBack(t) \/ DeleteRoot(t) \/ Truncate(t)
                 \/ JudgeDropped(t) \/ FinalizeRecord(t) \/ ForgetDropped(t) \/ Done(t)

Next ==
  \/ \E t \in Threads, n \in InUse : CreateTree(t, n) \/ OpenTree(t, n) \/ DropTree(t, n)
  \/ \E t \in Threads, m, n \in InUse : m # n /\ (Atomic(t, <<m, n>>) \/ View(t, <<m, n>>))
  \/ \E t \in Threads : CheckpointDB(t)
  \/ \E t \in Threads : Lookup(t) \/ Catalogue(t) \/ UseTree(t) \/ Checkpoint(t)
  \/ SyncWal
  \/ \E n \in durable .. Len(wal) : Crash(n)

Spec == Init /\ [][Next]_vars

-----------------------------------------------------------------------------
(* What the catalog promises *)

\* The writes of the first n records and of the records truncated earlier.
Survive(n) == settled \cup {wal[k].op : k \in 1 .. n}

\* Whatever a crash leaves of the log, a tree that the reopened catalog shows
\* as live holds exactly the logged writes made to it since its creation:
\* none of them went with a dropped tree, and none of an earlier tree shows
\* up in it (create_tree, drop_tree, finalize_dropped_trees, replay_wal).
LiveTreesAreWhole ==
  \A n \in durable .. Len(wal) : \A m \in Names :
    LET r == Replayed(n)
        e == r.catalog[m]
    IN  e.live => r.roots[e.id] \ NoBlob =
                    {o \in Survive(n) \ {0} : [id |-> e.id, birth |-> e.birth] \in ops[o]}

\* A view over several trees shows a cross-tree batch in all the trees it
\* went to or in none (DB::view and DB::atomic under the mutation gates).
ViewsAreAtomic ==
  \A t \in Threads : \A j, k \in DOMAIN th[t].seen : \A o \in DOMAIN ops :
    Target(th[t].got[j]) \in ops[o] /\ Target(th[t].got[k]) \in ops[o]
      => (o \in th[t].seen[j] <=> o \in th[t].seen[k])

\* "Existing handles are fenced before this call returns": a write through a
\* handle that was opened while its tree was live finds the tree still live.
HandlesAreFenced ==
  [][\A t \in Threads :
       Put(t) /\ handle[t].live => \E m \in Names : catalog[m] = handle[t].ent]_vars

\* "A later checkpoint completes the physical cleanup": a DB::checkpoint that
\* succeeds while no other call runs leaves no tombstone, so every dropped tree
\* had its root deleted from the store and its name is free again.
DropCompletes ==
  \A t \in Threads : th[t].pc = "done" /\ th[t].alone =>
    \A m \in Names : catalog[m] = None \/ catalog[m].live
=============================================================================
