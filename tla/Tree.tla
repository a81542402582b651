-------------------------------- MODULE Tree --------------------------------
(***************************************************************************)
(* The operations of one tree (api/tree.rs) as its callers interleave      *)
(* them: put, delete and their conditional forms, rename, atomic batches,  *)
(* view capture and key listings with the list cache they share            *)
(* (walker/range.rs), with the locks each holds (the tree's mutation gate, *)
(* the endpoint locks of concurrency/endpoint_locks.rs, the commit gate),  *)
(* the WAL record each submits, and the replay of those records when the   *)
(* tree is opened again.                                                   *)
(*                                                                         *)
(* The tree is a map from keys to records; every walker call is one step   *)
(* on it (the walker latches the blob it changes, HybridLatch).  The       *)
(* gates are abstract readers-writer locks (Gate implements them), the     *)
(* journal is its file with a durable prefix (Journal), and a checkpoint   *)
(* is the instants at which a blob's image becomes the store's and at      *)
(* which the log is dropped (Checkpoint).  A put writes its own sequence   *)
(* number as its value, so no two puts between restarts write the same     *)
(* value.                                                                  *)
(***************************************************************************)
EXTENDS Integers, Sequences, Fold

CONSTANTS
  Threads,
  Keys,
  Prefix,       \* the keys under the prefix that batches assert to be empty
  Shard,        \* of a key: shard_index
  BlobOf,       \* [Keys -> blobs]: the blob that holds a key
  NoToken,
  Options       \* by name: the calls, cfg.wal_sync and the bounds of a behaviour

VARIABLES
  mem,        \* the records in memory
  image,      \* the records in the store's blob images
  base,       \* history variable: the records when the log was last dropped
  wal,        \* the log
  durable,    \* how many records of it are on disk
  nextSeq,
  pc,
  req,        \* the call each thread is making
  got,        \* how many of its endpoint shards it has locked
  seq,        \* the first sequence number of the call
  at,         \* the operation of the call that is applied next
  moved,      \* the value a rename carries from its source
  view,       \* what a view capture has copied so far
  token,      \* the version a caller read, and whether its record is untouched
  faults,
  flushes,
  crashes,
  torn,       \* history variable: a call failed half way
  listing,    \* PrefixListCache: the slot of the one listing that is asked for
  opt         \* the options of this behaviour

Calls == Options[opt].calls         \* the calls a thread may make
WalSync == Options[opt].walSync     \* cfg.wal_sync
MaxSeq == Options[opt].seqs         \* bound on the sequence numbers handed out
MaxFaults == Options[opt].faults    \* ... on the walker calls that fail
MaxFlushes == Options[opt].flushes  \* ... on the images written to the store
MaxCrashes == Options[opt].crashes

callVars == <<pc, req, got, seq, at, moved, view>>
logVars == <<wal, durable, base, image>>
boundVars == <<faults, flushes, crashes>>
restVars == <<torn, listing, opt>>
vars == <<mem, logVars, nextSeq, callVars, token, boundVars, restVars>>

Absent == [val |-> 0, ver |-> 0]
Blobs == {BlobOf[k] : k \in Keys}
NoCall == [call |-> "none", ops |-> <<>>]
NoView == [k \in {} |-> Absent]
NoListing == [epoch |-> 0, entries |-> NoView]

Inserts == {"put", "putIfAbsent", "compareAndPut"}
Erases == {"delete", "deleteIfVersion"}
Asserts == {"assertVersion", "assertPrefixEmpty"}
Versioned == {"compareAndPut", "deleteIfVersion", "assertVersion"}

Operations ==
  [kind : Inserts \cup Erases \cup Asserts \cup {"rename"}, key : Keys, dst : Keys,
   force : BOOLEAN, ver : Nat]

\* The endpoint locks are an array of a fixed number of shards.
ENDPOINT_LOCK_SHARDS == 256

ASSUME ShardAssumption == Shard \in [Keys -> 0 .. ENDPOINT_LOCK_SHARDS - 1]

ASSUME TokenAssumption == NoToken \notin [key : Keys, ver : Nat, fresh : BOOLEAN]

\* A call is one operation, which asserts nothing, or a batch of them, or reads.
ASSUME CallAssumption ==
  \A o \in DOMAIN Options : \A c \in Options[o].calls :
    /\ c \in [call : {"single", "batch", "view", "list"}, ops : Seq(Operations)]
    /\ c.call = "single" => Len(c.ops) = 1 /\ c.ops[1].kind \notin Asserts
    /\ c.call \in {"view", "list"} => c.ops = <<>>

\* The keys whose version some call asks for.
TokenKeys ==
  UNION {{c.ops[i].key : i \in {j \in DOMAIN c.ops : c.ops[j].kind \in Versioned}} : c \in Calls}

Live(m, k) == m[k] # Absent
HasVersion(m, k, ver) == Live(m, k) /\ m[k].ver = ver

Init ==
  /\ mem = [k \in Keys |-> Absent]
  /\ image = mem
  /\ base = mem
  /\ wal = <<>>
  /\ durable = 0
  /\ nextSeq = 1
  /\ pc = [t \in Threads |-> "idle"]
  /\ req = [t \in Threads |-> NoCall]
  /\ got = [t \in Threads |-> 0]
  /\ seq = [t \in Threads |-> 0]
  /\ at = [t \in Threads |-> 1]
  /\ moved = [t \in Threads |-> 0]
  /\ view = [t \in Threads |-> NoView]
  /\ token = [t \in Threads |-> NoToken]
  /\ faults = 0
  /\ flushes = 0
  /\ crashes = 0
  /\ torn = FALSE
  /\ listing = NoListing
  /\ opt \in DOMAIN Options

Goto(t, from, to) ==
  /\ pc[t] = from
  /\ pc' = [pc EXCEPT ![t] = to]

Ops(t) == req[t].ops
Op(t) == Ops(t)[at[t]]
IsBatch(t) == req[t].call = "batch"

-----------------------------------------------------------------------------
(* The operations on a map of records *)

Inserted(m, k, val, s) == [m EXCEPT ![k] = [val |-> val, ver |-> s]]

Erased(m, k) == [m EXCEPT ![k] = Absent]

\* The operations of a batch that reach the WAL and take a sequence number.
EmitsWal(op) == op.kind \notin Asserts

\* Mutant of Holds: a versioned condition only asks for a record.
HoldsAtAnyVersion(m, op) ==
  CASE op.kind = "put" -> TRUE
    [] op.kind = "putIfAbsent" -> ~Live(m, op.key)
    [] OTHER -> Live(m, op.key)

\* The condition of an insert or erase, as the walker checks it at the leaf.
Holds(m, op) ==
  CASE op.kind = "put" -> TRUE
    [] op.kind = "putIfAbsent" -> ~Live(m, op.key)
    [] op.kind = "delete" -> Live(m, op.key)
    [] op.kind \in Versioned -> HasVersion(m, op.key, op.ver)

\* The probes of a rename.
RenameVerdict(m, op) ==
  IF ~Live(m, op.key) THEN "error"
  ELSE IF op.key = op.dst THEN "nothing"
  ELSE IF ~op.force /\ Live(m, op.dst) THEN "error" ELSE "move"

\* What preflight_batch_op says of an operation on the tree before it ...
Verdict(m, op) ==
  CASE op.kind = "rename" ->
         IF RenameVerdict(m, op) = "error" THEN "error" ELSE "pass"
    [] op.kind = "assertPrefixEmpty" ->
         IF \E k \in Prefix : Live(m, k) THEN "refuse" ELSE "pass"
    [] op.kind \in {"put", "delete"} -> "pass"
    [] OTHER -> IF Holds(m, op) THEN "pass" ELSE "refuse"

\* ... and what it lays over that tree.
Projected(m, op, s) ==
  CASE op.kind \in Inserts -> Inserted(m, op.key, s, s)
    [] op.kind \in Erases -> Erased(m, op.key)
    [] op.kind = "rename" ->
         IF op.key = op.dst THEN m
         ELSE Inserted(Erased(m, op.key), op.dst, m[op.key].val, s)
    [] OTHER -> m

\* The sequence number after an operation that starts at s, and after several.
SeqStep(s, op) == IF EmitsWal(op) THEN s + 1 ELSE s
SeqAfter(s, ops) == FoldLeft(SeqStep, s, ops)

\* Mutant of Preflight: the conditions are checked against the tree as it
\* is, not as the earlier operations of the batch will leave it.
PreflightUnprojected(m, ops, s) ==
  FoldLeft(LAMBDA a, op : IF a = "pass" THEN Verdict(m, op) ELSE a, "pass", ops)

PreflightStep(a, op) ==
  IF a.verdict # "pass" THEN a
  ELSE IF Verdict(a.m, op) # "pass" THEN [a EXCEPT !.verdict = Verdict(a.m, op)]
  ELSE [verdict |-> "pass", m |-> Projected(a.m, op, a.s), s |-> SeqStep(a.s, op)]

\* preflight_batch: every condition is checked, in order, on the tree with
\* the effects of the operations before it laid over it.  A batch of plain
\* puts and deletes takes a short cut that also passes.
Preflight(m, ops, s) ==
  FoldLeft(PreflightStep, [verdict |-> "pass", m |-> m, s |-> s], ops).verdict

-----------------------------------------------------------------------------
(* The log *)

\* The sequence number of the i-th operation of a call.
OpSeq(ops, s, i) == SeqAfter(s, SubSeq(ops, 1, i - 1))

Encoded(op, s) ==
  CASE op.kind \in Inserts -> [kind |-> "insert", key |-> op.key, val |-> s]
    [] op.kind \in Erases -> [kind |-> "erase", key |-> op.key]
    [] op.kind = "rename" ->
         [kind |-> "rename", key |-> op.key, dst |-> op.dst, force |-> op.force]

\* The encoder takes the operations of a call that emit, one by one; the
\* sequence number of the i-th is derived from the record's.
EncodeStep(r, op) ==
  IF EmitsWal(op) THEN [r EXCEPT !.ops = Append(@, Encoded(op, r.seq + Len(r.ops)))]
  ELSE r

Record(ops, s) == FoldLeft(EncodeStep, [seq |-> s, ops |-> <<>>], ops)

\* replay_wal on one operation.  A rename without its source, or onto a taken
\* destination, is skipped.
ReplayOp(a, o) ==
  [m |-> CASE o.kind = "insert" -> Inserted(a.m, o.key, o.val, a.s)
           [] o.kind = "erase" -> Erased(a.m, o.key)
           [] OTHER -> IF ~Live(a.m, o.key) \/ (~o.force /\ Live(a.m, o.dst)) THEN a.m
                       ELSE Inserted(Erased(a.m, o.key), o.dst, a.m[o.key].val, a.s),
   s |-> a.s + 1]

\* A batch is unpacked operation by operation.
ReplayRecord(m, r) == FoldLeft(ReplayOp, [m |-> m, s |-> r.seq], r.ops).m

Replay(m, w) == FoldLeft(ReplayRecord, m, w)

\* highest_seq.unwrap_or(0) + 1
NextSeqStep(a, r) == IF r.seq + Len(r.ops) > a THEN r.seq + Len(r.ops) ELSE a
NextSeqAfter(w) == FoldLeft(NextSeqStep, 1, w)

-----------------------------------------------------------------------------
(* Making a call: the gates, the endpoint locks, the sequence number *)

\* The call returns and drops every guard it still holds.
Return(t, to) ==
  /\ pc' = [pc EXCEPT ![t] = to]
  /\ req' = [req EXCEPT ![t] = NoCall]
  /\ got' = [got EXCEPT ![t] = 0]
  /\ seq' = [seq EXCEPT ![t] = 0]
  /\ moved' = [moved EXCEPT ![t] = 0]
  /\ view' = [view EXCEPT ![t] = NoView]

\* get_version, from which the client's next conditional call takes its
\* expected version.
GetVersion(t, k) ==
  /\ pc[t] = "idle"
  /\ Live(mem, k)
  /\ token' = [token EXCEPT ![t] = [key |-> k, ver |-> mem[k].ver, fresh |-> TRUE]]
  /\ UNCHANGED <<mem, logVars, nextSeq, callVars, boundVars, restVars>>

\* Whoever is inside the mutation gate.  A single operation lets go of it
\* before it waits for the journal, a batch after.
InGate(t) ==
  /\ pc[t] \notin {"idle", "consult", "missed"}
  /\ pc[t] = "ack" => IsBatch(t)

\* Mutant of Admitted: a view enters like a single operation.
AdmittedShared(t, c) ==
  \A u \in Threads \ {t} :
    InGate(u) => c.call # "batch" /\ req[u].call = "single"

\* enter_shared for a single operation and a listing; enter_exclusive for a
\* batch and for a view.
Admitted(t, c) ==
  \A u \in Threads \ {t} :
    InGate(u) => {c.call, req[u].call} \subseteq {"single", "list"}

\* The call as the client makes it, with the version it read.
Requested(t, c) ==
  [c EXCEPT !.ops = [i \in DOMAIN c.ops |->
     IF c.ops[i].kind \in Versioned
     THEN [c.ops[i] EXCEPT !.ver = token[t].ver] ELSE c.ops[i]]]

Call(t, c) ==
  /\ c.call # "list"
  /\ Goto(t, "idle", CASE c.call = "single" -> "lock"
                       [] c.call = "batch" -> "seq"
                       [] OTHER -> "capture")
  /\ Admitted(t, c)
  /\ \A i \in DOMAIN c.ops :
       c.ops[i].kind \in Versioned =>
         token[t] # NoToken /\ token[t].key = c.ops[i].key
  /\ req' = [req EXCEPT ![t] = Requested(t, c)]
  /\ UNCHANGED <<mem, logVars, nextSeq, got, seq, at, moved, view, token,
                 boundVars, restVars>>

\* Mutant of LockOrder: source before destination.
LockOrderAsGiven(op) ==
  IF op.kind = "rename" /\ Shard[op.key] # Shard[op.dst]
  THEN <<Shard[op.key], Shard[op.dst]>>
  ELSE <<Shard[op.key]>>

\* Mutant of LockOrder: a rename locks its source only.
LockOrderSourceOnly(op) == <<Shard[op.key]>>

\* The shards lock_key and lock_pair lock, in the order they lock them.
LockOrder(op) ==
  IF op.kind = "rename" /\ Shard[op.key] # Shard[op.dst]
  THEN IF Shard[op.key] < Shard[op.dst]
       THEN <<Shard[op.key], Shard[op.dst]>>
       ELSE <<Shard[op.dst], Shard[op.key]>>
  ELSE <<Shard[op.key]>>

HeldShards(t) ==
  IF req[t].call = "single"
  THEN {LockOrder(Ops(t)[1])[i] : i \in 1 .. got[t]} ELSE {}

NextShardFree(t) ==
  \A u \in Threads \ {t} : LockOrder(Ops(t)[1])[got[t] + 1] \notin HeldShards(u)

LockShard(t) ==
  /\ pc[t] = "lock"
  /\ NextShardFree(t)
  /\ got' = [got EXCEPT ![t] = @ + 1]
  /\ Goto(t, "lock", IF got'[t] = Len(LockOrder(Ops(t)[1])) THEN "seq" ELSE "lock")
  /\ UNCHANGED <<mem, logVars, nextSeq, req, seq, at, moved, view, token,
                 boundVars, restVars>>

TakeSeq(t) ==
  /\ pc[t] = "seq"
  /\ nextSeq' = SeqAfter(nextSeq, Ops(t))
  /\ nextSeq' <= MaxSeq + 1
  /\ seq' = [seq EXCEPT ![t] = nextSeq]
  /\ Goto(t, "seq", IF IsBatch(t) THEN "preflight"
                    ELSE IF Ops(t)[1].kind = "rename" THEN "probe" ELSE "apply")
  /\ UNCHANGED <<mem, logVars, req, got, at, moved, view, token, boundVars, restVars>>

\* rename looks both endpoints up before it enters the commit gate.
Probe(t) ==
  /\ pc[t] = "probe"
  /\ IF RenameVerdict(mem, Op(t)) = "move"
     THEN /\ pc' = [pc EXCEPT ![t] = "apply"]
          /\ moved' = [moved EXCEPT ![t] = mem[Op(t).key].val]
          /\ UNCHANGED <<req, got, seq, view>>
     ELSE Return(t, "idle")
  /\ UNCHANGED <<mem, logVars, nextSeq, at, token, boundVars, restVars>>

\* A refused batch, a failed one and one that emits nothing end here.
PreflightBatch(t) ==
  /\ pc[t] = "preflight"
  /\ IF /\ Preflight(mem, Ops(t), seq[t]) = "pass"
        /\ \E i \in DOMAIN Ops(t) : EmitsWal(Ops(t)[i])
     THEN Goto(t, "preflight", "apply") /\ UNCHANGED <<req, got, seq, moved, view>>
     ELSE Return(t, "idle")
  /\ UNCHANGED <<mem, logVars, nextSeq, at, token, boundVars, restVars>>

-----------------------------------------------------------------------------
(* The walker calls, under the commit gate *)

Applying(t) == pc[t] = "apply" /\ at[t] <= Len(Ops(t))

SeqNow(t) == OpSeq(Ops(t), seq[t], at[t])

\* Every client's version of a key that is written goes stale.
Touch(k) ==
  token' = [t \in Threads |->
              IF token[t] # NoToken /\ token[t].key = k
              THEN [token[t] EXCEPT !.fresh = FALSE] ELSE token[t]]

\* A condition that fails ends a single operation; a batch was told by its
\* preflight that it cannot fail.
ConditionFails(t) ==
  /\ IF IsBatch(t)
     THEN /\ pc' = [pc EXCEPT ![t] = "internal"]
          /\ UNCHANGED <<req, got, seq, moved, view>>
     ELSE Return(t, "idle")
  /\ UNCHANGED <<mem, at, token>>

Advance(t) ==
  /\ at' = [at EXCEPT ![t] = @ + 1]
  /\ UNCHANGED <<pc, req, got, seq, moved, view>>

ApplyInsert(t) ==
  /\ Applying(t)
  /\ Op(t).kind \in Inserts
  /\ IF Holds(mem, Op(t))
     THEN /\ mem' = Inserted(mem, Op(t).key, SeqNow(t), SeqNow(t))
          /\ Touch(Op(t).key)
          /\ Advance(t)
     ELSE ConditionFails(t)
  /\ UNCHANGED <<logVars, nextSeq, boundVars, restVars>>

\* A batch goes on, and logs the operation, when a delete finds nothing.
ApplyErase(t) ==
  /\ Applying(t)
  /\ Op(t).kind \in Erases
  /\ IF Holds(mem, Op(t))
     THEN /\ mem' = Erased(mem, Op(t).key)
          /\ Touch(Op(t).key)
          /\ Advance(t)
     ELSE IF IsBatch(t) /\ Op(t).kind = "delete"
     THEN Advance(t) /\ UNCHANGED <<mem, token>>
     ELSE ConditionFails(t)
  /\ UNCHANGED <<logVars, nextSeq, boundVars, restVars>>

ApplyAssert(t) ==
  /\ Applying(t)
  /\ ~EmitsWal(Op(t))
  /\ Advance(t)
  /\ UNCHANGED <<mem, logVars, nextSeq, token, boundVars, restVars>>

\* The erase of a rename.  In a batch the probes come now.
RenameErase(t) ==
  /\ Applying(t)
  /\ Op(t).kind = "rename"
  /\ IsBatch(t) => RenameVerdict(mem, Op(t)) = "move"
  /\ mem' = Erased(mem, Op(t).key)
  /\ Touch(Op(t).key)
  /\ moved' = [moved EXCEPT ![t] = IF IsBatch(t) THEN mem[Op(t).key].val ELSE @]
  /\ pc' = [pc EXCEPT ![t] = "insert"]
  /\ UNCHANGED <<logVars, nextSeq, req, got, seq, at, view, boundVars, restVars>>

RenameInsert(t) ==
  /\ Goto(t, "insert", "apply")
  /\ mem' = Inserted(mem, Op(t).dst, moved[t], SeqNow(t))
  /\ Touch(Op(t).dst)
  /\ at' = [at EXCEPT ![t] = @ + 1]
  /\ UNCHANGED <<logVars, nextSeq, req, got, seq, moved, view, boundVars, restVars>>

\* A rename of a batch that has nothing to move, or cannot move it.
RenameStops(t) ==
  /\ Applying(t)
  /\ Op(t).kind = "rename" /\ IsBatch(t)
  /\ RenameVerdict(mem, Op(t)) # "move"
  /\ IF RenameVerdict(mem, Op(t)) = "nothing"
     THEN Advance(t) /\ UNCHANGED <<mem, token>>
     ELSE ConditionFails(t)
  /\ UNCHANGED <<logVars, nextSeq, boundVars, restVars>>

\* A walker call fails because a blob cannot be read, or the journal does
\* not take the record: `?` leaves with what the earlier calls changed in
\* place and nothing logged.
WalkerFails(t) ==
  /\ faults < MaxFaults
  /\ pc[t] \in {"apply", "insert"}
  /\ faults' = faults + 1
  /\ torn' = (torn \/ pc[t] = "insert" \/ at[t] > 1)
  /\ UNCHANGED <<listing, opt>>
  /\ Return(t, "idle")
  /\ at' = [at EXCEPT ![t] = 1]
  /\ UNCHANGED <<mem, logVars, nextSeq, token, flushes, crashes>>

\* The record goes to the journal once every walker call is done, before any
\* guard is dropped.  From here on `at` is its place in the log.
Submit(t) ==
  /\ pc[t] = "apply"
  /\ at[t] > Len(Ops(t))
  /\ wal' = Append(wal, Record(Ops(t), seq[t]))
  /\ at' = [at EXCEPT ![t] = IF WalSync THEN Len(wal) + 1 ELSE 1]
  /\ IF IsBatch(t) /\ WalSync
     THEN Goto(t, "apply", "ack") /\ UNCHANGED <<req, got, seq, moved, view>>
     ELSE Return(t, IF WalSync THEN "ack" ELSE "idle")
  /\ UNCHANGED <<mem, durable, base, image, nextSeq, token, boundVars, restVars>>

\* ack.wait()
Ack(t) ==
  /\ pc[t] = "ack"
  /\ durable >= at[t]
  /\ at' = [at EXCEPT ![t] = 1]
  /\ Return(t, "idle")
  /\ UNCHANGED <<mem, logVars, nextSeq, token, boundVars, restVars>>

-----------------------------------------------------------------------------
(* Views *)

\* capture_view_unlocked copies the tree blob by blob.
CopyBlob(t, b) ==
  /\ pc[t] = "capture"
  /\ \A k \in DOMAIN view[t] : BlobOf[k] # b
  /\ view' = [view EXCEPT ![t] =
       [k \in DOMAIN @ \cup {j \in Keys : BlobOf[j] = b} |->
          IF BlobOf[k] = b THEN mem[k] ELSE @[k]]]
  /\ pc' = [pc EXCEPT ![t] = IF DOMAIN view'[t] = Keys THEN "viewed" ELSE "capture"]
  /\ UNCHANGED <<mem, logVars, nextSeq, req, got, seq, at, moved, token,
                 boundVars, restVars>>

\* The capture is complete and the gate is left; reads go to the copy.
EndCapture(t) ==
  /\ pc[t] = "viewed"
  /\ Return(t, "idle")
  /\ UNCHANGED <<mem, logVars, nextSeq, at, token, boundVars, restVars>>

-----------------------------------------------------------------------------
(* Key listings and their cache *)

\* KeyRangeBuilder::visit loads the epoch, which is next_seq ...
List(t, c) ==
  /\ c.call = "list"
  /\ Goto(t, "idle", "consult")
  /\ req' = [req EXCEPT ![t] = c]
  /\ seq' = [seq EXCEPT ![t] = nextSeq]
  /\ UNCHANGED <<mem, logVars, nextSeq, got, at, moved, view, token, boundVars, restVars>>

\* ... and PrefixListCache::visit serves an entry of that epoch.
Consult(t) ==
  /\ pc[t] = "consult"
  /\ IF listing.epoch = seq[t] THEN Return(t, "idle")
     ELSE /\ pc' = [pc EXCEPT ![t] = "missed"]
          /\ UNCHANGED <<req, got, seq, moved, view>>
  /\ UNCHANGED <<mem, logVars, nextSeq, at, token, boundVars, restVars>>

\* epoch_before is loaded ahead of the gates.
EpochBefore(t) ==
  /\ pc[t] = "missed" /\ got[t] = 0
  /\ seq' = [seq EXCEPT ![t] = nextSeq]
  /\ got' = [got EXCEPT ![t] = 1]
  /\ UNCHANGED <<mem, logVars, nextSeq, pc, req, at, moved, view, token, boundVars, restVars>>

EnterScan(t) ==
  /\ Goto(t, "missed", "scan") /\ got[t] = 1
  /\ Admitted(t, req[t])
  /\ UNCHANGED <<mem, logVars, nextSeq, req, got, seq, at, moved, view, token,
                 boundVars, restVars>>

\* The walk meets the keys of one blob at a time.
ScanBlob(t, b) ==
  /\ pc[t] = "scan"
  /\ \A k \in DOMAIN view[t] : BlobOf[k] # b
  /\ view' = [view EXCEPT ![t] =
       [k \in DOMAIN @ \cup {j \in Keys : BlobOf[j] = b} |->
          IF BlobOf[k] = b THEN mem[k] ELSE @[k]]]
  /\ UNCHANGED <<mem, logVars, nextSeq, pc, req, got, seq, at, moved, token,
                 boundVars, restVars>>

\* The listing is kept if the epoch has not moved since epoch_before.
StoreListing(t) ==
  /\ pc[t] = "scan"
  /\ DOMAIN view[t] = Keys
  /\ listing' = IF nextSeq = seq[t] THEN [epoch |-> seq[t], entries |-> view[t]]
                ELSE listing
  /\ Return(t, "idle")
  /\ UNCHANGED <<mem, logVars, nextSeq, at, token, boundVars, torn, opt>>

-----------------------------------------------------------------------------
(* The journal, the checkpoint and a restart *)

\* The journal worker's fsync covers every record submitted so far.
Sync ==
  /\ durable < Len(wal)
  /\ durable' = Len(wal)
  /\ UNCHANGED <<mem, image, base, wal, nextSeq, callVars, token, boundVars, restVars>>

\* Nobody is between its first walker call and its record.
CommitGateFree == \A t \in Threads : pc[t] \notin {"apply", "insert"}

\* Mutant of FlushBlob: the image does not wait for the log.
FlushBlobUnlogged(b) ==
  /\ flushes < MaxFlushes
  /\ CommitGateFree
  /\ flushes' = flushes + 1
  /\ image' = [k \in Keys |-> IF BlobOf[k] = b THEN mem[k] ELSE image[k]]
  /\ image' # image
  /\ UNCHANGED <<mem, base, wal, durable, nextSeq, callVars, token, faults,
                 crashes, restVars>>

\* An epoch snapshots under the commit gate, syncs the log, and writes the
\* image of the blob.
FlushBlob(b) ==
  /\ flushes < MaxFlushes
  /\ CommitGateFree
  /\ flushes' = flushes + 1
  /\ image' = [k \in Keys |-> IF BlobOf[k] = b THEN mem[k] ELSE image[k]]
  /\ image' # image
  /\ durable' = Len(wal)
  /\ UNCHANGED <<mem, base, wal, nextSeq, callVars, token, faults, crashes, restVars>>

\* No blob is dirty: the log is dropped.
Truncate ==
  /\ wal # <<>>
  /\ CommitGateFree
  /\ image = mem
  /\ wal' = <<>>
  /\ durable' = 0
  /\ base' = mem
  /\ at' = [t \in Threads |-> IF pc[t] = "ack" THEN 0 ELSE at[t]]
  /\ UNCHANGED <<mem, image, nextSeq, pc, req, got, seq, moved, view, token,
                 boundVars, restVars>>

\* The process dies and the tree is opened again: what the disk kept of the
\* log is replayed over the images.
Crash ==
  /\ crashes < MaxCrashes
  /\ crashes' = crashes + 1
  /\ \E n \in durable .. Len(wal) :
       /\ wal' = SubSeq(wal, 1, n)
       /\ durable' = n
  /\ mem' = Replay(image, wal')
  /\ nextSeq' = NextSeqAfter(wal')
  /\ base' = image
  /\ pc' = [t \in Threads |-> "idle"]
  /\ req' = [t \in Threads |-> NoCall]
  /\ got' = [t \in Threads |-> 0]
  /\ seq' = [t \in Threads |-> 0]
  /\ at' = [t \in Threads |-> 1]
  /\ moved' = [t \in Threads |-> 0]
  /\ view' = [t \in Threads |-> NoView]
  /\ token' = [t \in Threads |-> NoToken]
  /\ listing' = NoListing
  /\ UNCHANGED <<image, faults, flushes, torn, opt>>

Next ==
  \/ \E t \in Threads :
       \/ \E k \in TokenKeys : GetVersion(t, k)
       \/ \E c \in Calls : Call(t, c)
       \/ LockShard(t)
       \/ TakeSeq(t)
       \/ Probe(t)
       \/ PreflightBatch(t)
       \/ ApplyInsert(t)
       \/ ApplyErase(t)
       \/ ApplyAssert(t)
       \/ RenameErase(t)
       \/ RenameInsert(t)
       \/ RenameStops(t)
       \/ WalkerFails(t)
       \/ Submit(t)
       \/ Ack(t)
       \/ \E b \in Blobs : CopyBlob(t, b)
       \/ EndCapture(t)
       \/ \E c \in Calls : List(t, c)
       \/ Consult(t)
       \/ EpochBefore(t)
       \/ EnterScan(t)
       \/ \E b \in Blobs : ScanBlob(t, b)
       \/ StoreListing(t)
  \/ Sync
  \/ \E b \in Blobs : FlushBlob(b)
  \/ Truncate
  \/ Crash

Spec == Init /\ [][Next]_vars

-----------------------------------------------------------------------------
\* The operations of the call a thread makes.
OpsOf(t) == {Ops(t)[i] : i \in DOMAIN Ops(t)}

\* The keys a call between its first walker call and its record is changing.
Changing ==
  LET committing == {t \in Threads : pc[t] \in {"apply", "insert", "internal"}}
      ops == UNION {OpsOf(t) : t \in committing}
  IN  {op.key : op \in ops} \cup {op.dst : op \in ops}

(***************************************************************************)
(* The log is the memory: replaying it gives, for every key nobody is      *)
(* changing, the record readers see, version included.  Writers of one key *)
(* therefore log in the order they wrote, across puts, renames and batches *)
(* (tree.rs:603-658, 789-885, 949-956; the endpoint locks).                *)
(***************************************************************************)
LogMatchesMemory ==
  ~torn => \A k \in Keys \ Changing : mem[k] = Replay(base, wal)[k]

(***************************************************************************)
(* What preflight_batch accepts, the walker calls of the batch carry out:  *)
(* none meets a condition that fails, so a batch is never abandoned half   *)
(* way for a logical reason (tree.rs:902-906, 1255-1259).                  *)
(***************************************************************************)
PreflightIsSound ==
  \A t \in Threads : pc[t] # "internal"

(***************************************************************************)
(* A view is one state of the tree between calls: never part of a batch or *)
(* of a rename, although it is copied blob by blob (tree.rs:907-909,       *)
(* 1454-1480).                                                             *)
(***************************************************************************)
ViewIsCommitted ==
  \A t \in Threads : pc[t] = "viewed" /\ ~torn => view[t] = Replay(base, wal)

(***************************************************************************)
(* Callers that lock endpoint shards never wait for each other in a cycle  *)
(* ("canonical shard ordering prevents AB/BA deadlock",                    *)
(* endpoint_locks.rs:12-13).                                               *)
(***************************************************************************)
NoLockCycle ==
  (\E t \in Threads : pc[t] = "lock")
    => \E t \in Threads : InGate(t) /\ (pc[t] = "lock" => NextShardFree(t))

(***************************************************************************)
(* An operation conditional on a version goes through only if the record   *)
(* has not been written since the caller read the version (tree.rs:579-580,*)
(* 683-685).                                                               *)
(***************************************************************************)
VersionMeansUnchanged ==
  [][\A t \in Threads :
       pc[t] = "apply" /\ at'[t] > at[t] /\ at[t] <= Len(Ops(t))
         /\ Op(t).kind \in Versioned
           => token[t].fresh]_vars

(***************************************************************************)
(* Whatever blobs have reached the store since the log was last dropped,   *)
(* and however much of the unsynced log a crash takes, replay gives back   *)
(* exactly the records of the surviving log (tree.rs:2302-2396).           *)
(***************************************************************************)
RecoveryIsExact ==
  ~torn => \A n \in durable .. Len(wal) :
    LET w == SubSeq(wal, 1, n) IN Replay(image, w) = Replay(base, w)

(***************************************************************************)
(* A listing served from the cache reports what a walk of the tree would:  *)
(* an entry of the current epoch agrees with memory on every key that no   *)
(* call in progress is about to change (range.rs:463-470, 113-239).        *)
(***************************************************************************)
InProgress ==
  LET ops == UNION {OpsOf(t) : t \in Threads}
  IN  {op.key : op \in ops} \cup {op.dst : op \in ops}

ListingIsFresh ==
  listing.epoch = nextSeq =>
    \A k \in Keys \ InProgress : listing.entries[k] = mem[k]
=============================================================================
