------------------------------- MODULE Journal ------------------------------
(***************************************************************************)
(* The write-ahead journal: src/src/journal/group_commit.rs (the worker,   *)
(* its command channel and its counters), writer.rs (the buffered file)    *)
(* and reader.rs (what a reopen can read back), driven by the writers of   *)
(* api/tree.rs and by a checkpointer.                                      *)
(*                                                                         *)
(* A WAL record is a number r, unique over the whole run, with a key.  Its *)
(* work id, which restarts at every open, is what the counters speak of.   *)
(* The file is the sequence of records handed to the OS; its first         *)
(* `synced` entries survive any crash, the rest may or may not.            *)
(***************************************************************************)
EXTENDS Integers, Sequences, FiniteSets, SequencesExt, FiniteSetsExt

CONSTANTS
  Threads,      \* foreground writers
  Keys,         \* what a record is about; endpoint locks serialise a key
  Options,      \* the configurations a journal is opened with
  TornWrites,   \* whether a crash may leave part of a record in the file
  MaxCrashes    \* bound on crashes and clean restarts

VARIABLES
  th,           \* writers: where they are, their record and its work id
  key,          \* key[r]: the key of record r (sequence, one per record)
  nextWork, queued, flushed, checkpointed,   \* the four counters
  chan,         \* the bounded command channel
  worker,       \* the worker: its place, its batch, its backlog
  pending,      \* WalWriter::pending, records not yet handed to the OS
  file, synced, \* the WAL file and the length of its durable prefix
  ck,           \* the checkpointer
  imaged,       \* records whose effects are durable in the blob store
  acked,        \* records whose writer was told they are durable
  failed,       \* records whose writer was told of an error
  gone,         \* records dropped by a truncation
  lost,         \* records a crash left neither in the file nor in the store
  broken,       \* a reopen refused to replay the file
  crashes, faults,
  opt           \* the configuration of this journal

Sync == opt.sync              \* TreeConfig::wal_sync
QueueDepth == opt.depth       \* JOURNAL_QUEUE_DEPTH
MaxRecords == opt.records     \* bound on the records submitted
MaxFaults == opt.faults       \* bound on failed writes and syncs

jvars == <<nextWork, queued, flushed, checkpointed>>
disk == <<file, synced>>
aux == <<imaged, acked, failed, gone, lost, broken, crashes>>
vars == <<th, key, jvars, chan, worker, pending, disk, ck, aux, faults, opt>>

Torn == 0                       \* part of a record, with no record behind it
NoCmd == [op |-> "none"]
IdleWorker == [pc |-> "idle", batch |-> <<>>, backlog |-> NoCmd, upTo |-> 0]
IdleThread == [pc |-> "idle", rec |-> 0, seq |-> 0]
IdleCk == [pc |-> "idle", obs |-> 0, recs |-> {}]

Records == 1 .. Len(key)
Rids(cmds) == [i \in DOMAIN cmds |-> cmds[i].rec]

\* Threads inside the commit gate: between their mutation and queued_work.
Inside == {t \in Threads : th[t].pc \in {"allocated", "sent"}}
GateHeld == ck.pc \in {"truncating", "truncated"}

\* replay_bytes: a torn record ends the log cleanly only at the very end.
CorruptAt(f) == \E i \in 1 .. Len(f) - 1 : f[i] = Torn
Replayed(f) == IF CorruptAt(f) THEN {} ELSE ToSet(f) \ {Torn}

Init ==
  /\ th = [t \in Threads |-> IdleThread]
  /\ key = <<>>
  /\ nextWork = 0 /\ queued = 0 /\ flushed = 0 /\ checkpointed = 0
  /\ chan = <<>>
  /\ worker = IdleWorker
  /\ pending = <<>>
  /\ file = <<>> /\ synced = 0
  /\ ck = IdleCk
  /\ imaged = {} /\ acked = {} /\ failed = {} /\ gone = {} /\ lost = {}
  /\ broken = FALSE
  /\ crashes = 0 /\ faults = 0
  /\ opt \in Options

-----------------------------------------------------------------------------
(* Journal::submit, called under the endpoint lock and the commit gate *)

\* Mutant of AllocateSeq: no endpoint lock.
AllocateSeqUnlocked(t, k) ==
  /\ ~broken
  /\ th[t].pc = "idle"
  /\ Len(key) < MaxRecords
  /\ ~GateHeld
  /\ key' = Append(key, k)
  /\ nextWork' = nextWork + 1
  /\ th' = [th EXCEPT ![t] = [pc |-> "allocated", rec |-> Len(key) + 1, seq |-> nextWork + 1]]
  /\ UNCHANGED <<opt, queued, flushed, checkpointed, chan, worker, pending, disk, ck, aux, faults>>

AllocateSeq(t, k) ==
  /\ ~broken
  /\ th[t].pc = "idle"
  /\ Len(key) < MaxRecords
  /\ ~GateHeld
  /\ \A u \in Inside : key[th[u].rec] # k
  /\ key' = Append(key, k)
  /\ nextWork' = nextWork + 1
  /\ th' = [th EXCEPT ![t] = [pc |-> "allocated", rec |-> Len(key) + 1, seq |-> nextWork + 1]]
  /\ UNCHANGED <<opt, queued, flushed, checkpointed, chan, worker, pending, disk, ck, aux, faults>>

Send(t) ==
  /\ th[t].pc = "allocated"
  /\ Len(chan) < QueueDepth
  /\ chan' = Append(chan, [op |-> "append", rec |-> th[t].rec, seq |-> th[t].seq])
  /\ th' = [th EXCEPT ![t].pc = "sent"]
  /\ UNCHANGED <<opt, key, jvars, worker, pending, disk, ck, aux, faults>>

\* queued_work moves, the gate and the endpoint lock are left.
Publish(t) ==
  /\ th[t].pc = "sent"
  /\ queued' = Max({queued, th[t].seq})
  /\ th' = [th EXCEPT ![t] = IF Sync THEN [@ EXCEPT !.pc = "waiting"] ELSE IdleThread]
  /\ UNCHANGED <<opt, key, nextWork, flushed, checkpointed, chan, worker, pending, disk, ck,
                 aux, faults>>

\* JournalAck::wait.
Wait(t) ==
  /\ th[t].pc = "waiting"
  /\ th[t].rec \in acked \cup failed
  /\ th' = [th EXCEPT ![t] = IdleThread]
  /\ UNCHANGED <<opt, key, jvars, chan, worker, pending, disk, ck, aux, faults>>

-----------------------------------------------------------------------------
(* run_worker *)

\* The next command: the backlog first, then the channel.
HasNext == worker.backlog # NoCmd \/ chan # <<>>
NextCmd == IF worker.backlog # NoCmd THEN worker.backlog ELSE Head(chan)
TakeNext ==
  chan' = IF worker.backlog # NoCmd THEN chan ELSE Tail(chan)

Recv(op) ==
  /\ worker.pc = "idle"
  /\ HasNext
  /\ NextCmd.op = op
  /\ TakeNext

\* process_append_batch starts with the first record ...
RecvAppend ==
  /\ Recv("append")
  /\ worker' = [IdleWorker EXCEPT !.pc = "collect", !.batch = <<NextCmd>>]
  /\ UNCHANGED <<opt, th, key, jvars, pending, disk, ck, aux, faults>>

\* ... takes further ones while the window is open ...
Collect ==
  /\ worker.pc = "collect"
  /\ chan # <<>>
  /\ chan' = Tail(chan)
  /\ worker' = IF Head(chan).op = "append"
                 THEN [worker EXCEPT !.batch = Append(@, Head(chan))]
                 ELSE [worker EXCEPT !.pc = "write", !.backlog = Head(chan)]
  /\ UNCHANGED <<opt, th, key, jvars, pending, disk, ck, aux, faults>>

\* ... and stops at the deadline or at the byte limit.
CloseWindow ==
  /\ worker.pc = "collect"
  /\ worker' = [worker EXCEPT !.pc = "write"]
  /\ UNCHANGED <<opt, th, key, jvars, chan, pending, disk, ck, aux, faults>>

\* write_append_batch: every record goes to the buffer, which is drained to
\* the OS when it is large (any time, here) and always ahead of a sync.
WriteBatch ==
  /\ worker.pc = "write"
  /\ LET all == pending \o Rids(worker.batch) IN
     \E drain \in BOOLEAN :
       /\ Sync => drain
       /\ file' = IF drain THEN file \o all ELSE file
       /\ pending' = IF drain THEN <<>> ELSE all
  /\ worker' = IF Sync THEN [worker EXCEPT !.pc = "sync"]
                       ELSE [IdleWorker EXCEPT !.backlog = worker.backlog]
  /\ UNCHANGED <<opt, th, key, jvars, chan, synced, ck, aux, faults>>

BatchRecs == {c.rec : c \in ToSet(worker.batch)}
BatchSeq == Max({c.seq : c \in ToSet(worker.batch)})

\* Mutant of RefuseBatch: a failed batch answers nobody.
RefuseBatchSilently ==
  /\ failed' = failed
  /\ worker' = [IdleWorker EXCEPT !.backlog = worker.backlog]
  /\ faults' = faults + 1

\* notify_append_batch with an error: nobody is told when nobody waits.
RefuseBatch ==
  /\ failed' = IF Sync THEN failed \cup BatchRecs ELSE failed
  /\ worker' = [IdleWorker EXCEPT !.backlog = worker.backlog]
  /\ faults' = faults + 1

\* What the file can be after a write of buf failed half way.
PartlyWritten(buf) ==
  {file \o SubSeq(buf, 1, n) : n \in 0 .. Len(buf)}
    \cup {file \o SubSeq(buf, 1, n) \o <<Torn>> : n \in {m \in 0 .. Len(buf) - 1 : TornWrites}}

\* The drain after the i-th record fails: part of the buffer may have reached
\* the file, the buffer is kept, the rest of the batch is never appended.
WriteFails ==
  /\ worker.pc = "write"
  /\ faults < MaxFaults
  /\ \E i \in 1 .. Len(worker.batch) :
       /\ pending' = pending \o Rids(SubSeq(worker.batch, 1, i))
       /\ file' \in PartlyWritten(pending')
  /\ RefuseBatch
  /\ UNCHANGED <<opt, th, key, jvars, chan, synced, ck, imaged, acked, gone, lost, broken, crashes>>

\* Mutant of SyncBatch: the writers are told before the sync.
AckWithoutSync ==
  /\ worker.pc = "sync"
  /\ flushed' = Max({flushed, BatchSeq})
  /\ acked' = acked \cup BatchRecs
  /\ worker' = [IdleWorker EXCEPT !.backlog = worker.backlog]
  /\ UNCHANGED <<opt, th, key, nextWork, queued, checkpointed, chan, pending, disk, ck,
                 imaged, failed, gone, lost, broken, crashes, faults>>

\* sync_data returns: the batch is durable and its writers are told.
SyncBatch ==
  /\ worker.pc = "sync"
  /\ synced' = Len(file)
  /\ flushed' = Max({flushed, BatchSeq})
  /\ acked' = acked \cup BatchRecs
  /\ worker' = [IdleWorker EXCEPT !.backlog = worker.backlog]
  /\ UNCHANGED <<opt, th, key, nextWork, queued, checkpointed, chan, pending, file, ck,
                 imaged, failed, gone, lost, broken, crashes, faults>>

SyncBatchFails ==
  /\ worker.pc = "sync"
  /\ faults < MaxFaults
  /\ RefuseBatch
  /\ UNCHANGED <<opt, th, key, jvars, chan, pending, disk, ck, imaged, acked, gone, lost,
                 broken, crashes>>

\* Flush drains the buffer ...
RecvFlush ==
  /\ Recv("flush")
  /\ file' = file \o pending
  /\ pending' = <<>>
  /\ worker' = [IdleWorker EXCEPT !.pc = "flush", !.upTo = NextCmd.upTo]
  /\ UNCHANGED <<opt, th, key, jvars, synced, ck, aux, faults>>

\* ... and syncs.
FlushDone ==
  /\ worker.pc = "flush"
  /\ synced' = Len(file)
  /\ flushed' = Max({flushed, worker.upTo})
  /\ ck' = [ck EXCEPT !.pc = "flushed"]
  /\ worker' = IdleWorker
  /\ UNCHANGED <<opt, th, key, nextWork, queued, checkpointed, chan, pending, file, aux, faults>>

FlushFails ==
  /\ worker.pc = "flush"
  /\ faults < MaxFaults
  /\ ck' = IdleCk
  /\ worker' = IdleWorker
  /\ faults' = faults + 1
  /\ UNCHANGED <<opt, th, key, jvars, chan, pending, disk, aux>>

\* The drain of a flush fails: the buffer is kept, the caller told.
DrainFails ==
  /\ Recv("flush")
  /\ faults < MaxFaults
  /\ pending # <<>>
  /\ file' \in PartlyWritten(pending)
  /\ ck' = IdleCk
  /\ worker' = IdleWorker
  /\ faults' = faults + 1
  /\ UNCHANGED <<opt, th, key, jvars, pending, synced, aux>>

\* Mutant of RecvTruncate: the buffer is dropped, the file is not cut.
TruncateBufferOnly ==
  /\ Recv("truncate")
  /\ gone' = gone \cup ToSet(file \o pending)
  /\ pending' = <<>>
  /\ ck' = [ck EXCEPT !.pc = "truncated"]
  /\ worker' = IdleWorker
  /\ UNCHANGED <<opt, th, key, jvars, disk, imaged, acked, failed, lost, broken, crashes, faults>>

\* WalWriter::truncate drops the buffer, cuts the file and syncs.
RecvTruncate ==
  /\ Recv("truncate")
  /\ gone' = gone \cup ToSet(file \o pending)
  /\ file' = <<>> /\ synced' = 0
  /\ pending' = <<>>
  /\ ck' = [ck EXCEPT !.pc = "truncated"]
  /\ worker' = IdleWorker
  /\ UNCHANGED <<opt, th, key, jvars, imaged, acked, failed, lost, broken, crashes, faults>>

\* The cut fails after the buffer was dropped; the file keeps its records.
TruncateFails ==
  /\ Recv("truncate")
  /\ faults < MaxFaults
  /\ gone' = gone \cup ToSet(pending)
  /\ pending' = <<>>
  /\ ck' = IdleCk
  /\ worker' = IdleWorker
  /\ faults' = faults + 1
  /\ UNCHANGED <<opt, th, key, jvars, disk, imaged, acked, failed, lost, broken, crashes>>

-----------------------------------------------------------------------------
(* The checkpointer, as round.rs drives the journal *)

\* Under the exclusive commit gate: every record submitted so far has its
\* effects in the dirty blobs that are being captured.
CkObserve ==
  /\ ck.pc = "idle"
  /\ ~broken
  /\ Inside = {}
  /\ ck' = [pc |-> "observed", obs |-> queued, recs |-> Records \ lost]
  /\ UNCHANGED <<opt, th, key, jvars, chan, worker, pending, disk, aux, faults>>

\* flush_up_to returns at once when flushed_work says so.
CkFlushSkipped ==
  /\ ck.pc = "observed"
  /\ ck.obs <= flushed
  /\ ck' = [ck EXCEPT !.pc = "flushed"]
  /\ UNCHANGED <<opt, th, key, jvars, chan, worker, pending, disk, aux, faults>>

CkFlush ==
  /\ ck.pc = "observed"
  /\ ck.obs > flushed
  /\ Len(chan) < QueueDepth
  /\ chan' = Append(chan, [op |-> "flush", upTo |-> ck.obs])
  /\ ck' = [ck EXCEPT !.pc = "flushing"]
  /\ UNCHANGED <<opt, th, key, jvars, worker, pending, disk, aux, faults>>

\* The captured blobs are written and synced.
CkImage ==
  /\ ck.pc = "flushed"
  /\ imaged' = imaged \cup ck.recs
  /\ ck' = IdleCk
  /\ UNCHANGED <<opt, th, key, jvars, chan, worker, pending, disk, acked, failed, gone, lost,
                 broken,
                 crashes, faults>>

\* Nothing dirty under the exclusive gate, which is kept until the answer.
CkTruncate ==
  /\ ck.pc = "idle"
  /\ Inside = {}
  /\ ~broken
  /\ Records \ lost \subseteq imaged
  /\ queued # checkpointed
  /\ Len(chan) < QueueDepth
  /\ chan' = Append(chan, [op |-> "truncate"])
  /\ ck' = [IdleCk EXCEPT !.pc = "truncating", !.obs = queued]
  /\ UNCHANGED <<opt, th, key, jvars, worker, pending, disk, aux, faults>>

CkTruncated ==
  /\ ck.pc = "truncated"
  /\ checkpointed' = Max({checkpointed, ck.obs})
  /\ ck' = IdleCk
  /\ UNCHANGED <<opt, th, key, nextWork, queued, flushed, chan, worker, pending, disk, aux, faults>>

-----------------------------------------------------------------------------
(* Restart: open_or_create over what the file then holds *)

\* Mutant of OpenFlushed: the records found in the file are taken to be durable.
OpenFlushedTrusting(work) == work

\* initial_flushed_work: nothing proves the old bytes were synced.
OpenFlushed(work) == IF work = 0 THEN 0 ELSE work - 1

\* Replay re-applies every complete record; a record that was neither replayed
\* nor imaged never happened.  New records follow the last entry, torn or not.
Reopen(f, durable) ==
  /\ file' = f /\ synced' = durable
  /\ broken' = CorruptAt(f)
  /\ LET work == IF f = <<>> THEN 0 ELSE 1 IN
     /\ nextWork' = work /\ queued' = work
     /\ flushed' = OpenFlushed(work) /\ checkpointed' = 0
  /\ th' = [t \in Threads |-> IdleThread]
  /\ chan' = <<>> /\ pending' = <<>>
  /\ worker' = IdleWorker
  /\ ck' = IdleCk
  /\ lost' = lost \cup (Records \ (imaged \cup gone \cup Replayed(f)))
  /\ crashes' = crashes + 1
  /\ UNCHANGED <<opt, key, imaged, acked, failed, gone, faults>>

\* What a power loss can leave of the file.
CrashFiles ==
  {SubSeq(file, 1, n) : n \in synced .. Len(file)}
    \cup {Append(SubSeq(file, 1, n), Torn) :
            n \in {m \in synced .. Len(file) - 1 : TornWrites}}

PowerLoss ==
  /\ ~broken
  /\ crashes < MaxCrashes
  /\ \E f \in CrashFiles : Reopen(f, Len(f))

\* The process ends, killed or by Drop for Journal, whose Stop comes behind
\* everything queued and drains nothing: the buffer goes, the OS has the file.
ProcessExit ==
  /\ ~broken
  /\ crashes < MaxCrashes
  /\ Reopen(file, synced)

Work ==
  \/ RecvAppend \/ Collect \/ CloseWindow \/ WriteBatch \/ SyncBatch
  \/ RecvFlush \/ FlushDone \/ RecvTruncate

Faults ==
  \/ WriteFails \/ SyncBatchFails \/ FlushFails \/ DrainFails \/ TruncateFails

Next ==
  \/ \E t \in Threads :
       \/ \E k \in Keys : AllocateSeq(t, k)
       \/ Send(t) \/ Publish(t) \/ Wait(t)
  \/ Work
  \/ Faults
  \/ CkObserve \/ CkFlushSkipped \/ CkFlush \/ CkImage \/ CkTruncate \/ CkTruncated
  \/ PowerLoss
  \/ ProcessExit

Spec == Init /\ [][Next]_vars

(***************************************************************************)
(* The worker thread runs, a writer inside the gate finishes its submit    *)
(* and a thread blocked on a full channel is woken when there is room.     *)
(***************************************************************************)
Fairness ==
  /\ WF_vars(Work)
  /\ \A t \in Threads : WF_vars(Send(t)) /\ WF_vars(Publish(t)) /\ WF_vars(Wait(t))
  /\ WF_vars(CkFlush) /\ WF_vars(CkTruncated)

FairSpec == Spec /\ Fairness

-----------------------------------------------------------------------------
(***************************************************************************)
(* "Force all WAL records up to `observed` durable" (group_commit.rs:198): *)
(* without wal_sync, when flush_up_to returns, every record whose effects  *)
(* the checkpoint captured is durable in the file or already truncated, so *)
(* the blob write that follows obeys the write-ahead rule                  *)
(* (buffer_manager/mod.rs:58-60).                                          *)
(***************************************************************************)
FlushMeansDurable ==
  ~Sync /\ ck.pc = "flushed" => ck.recs \subseteq gone \cup ToSet(SubSeq(file, 1, synced))

(***************************************************************************)
(* A write acknowledged under wal_sync survives every crash: whatever the  *)
(* crash leaves of the file, a reopen replays the record, unless its       *)
(* effects were already durable in the store when it was truncated.        *)
(***************************************************************************)
AckedSurvives ==
  /\ ~broken => \A f \in CrashFiles : acked \subseteq imaged \cup Replayed(f)
  /\ broken => acked \subseteq imaged

(***************************************************************************)
(* Records of one key reach the file in the order their writers held the   *)
(* endpoint lock, whatever the interleaving of submits and batches, so     *)
(* replay ends with the newest one (group_commit.rs:157-176, tree.rs:607). *)
(* Only a record whose writer was told of an error can be repeated behind  *)
(* a newer one: a drain that fails half way keeps its buffer for the next. *)
(***************************************************************************)
LogOrder ==
  file \o pending \o (IF worker.pc = "sync" THEN <<>> ELSE Rids(worker.batch))
    \o Rids(SelectSeq(chan, LAMBDA c : c.op = "append"))

SameKeyOrder ==
  \A i, j \in DOMAIN LogOrder :
    /\ i < j
    /\ Torn \notin {LogOrder[i], LogOrder[j]}
    /\ LogOrder[j] \notin failed
    /\ key[LogOrder[i]] = key[LogOrder[j]]
    => LogOrder[i] < LogOrder[j]

(***************************************************************************)
(* When needs_checkpoint says no, the log really is empty: the truncation  *)
(* that set checkpointed_work covered every record up to queued_work, and  *)
(* none slipped in behind it (group_commit.rs:214-230).                    *)
(***************************************************************************)
CleanMeansEmpty ==
  queued = checkpointed /\ Inside = {} /\ ck.pc = "idle" => LogOrder = <<>>

(***************************************************************************)
(* Every writer that waits for its record, and every checkpoint that waits *)
(* for a flush, is answered, with a full channel and failing writes too.   *)
(***************************************************************************)
EveryoneAnswered ==
  /\ \A t \in Threads : th[t].pc \in {"allocated", "waiting"} ~> th[t].pc = "idle"
  /\ ck.pc = "flushing" ~> ck.pc # "flushing"
=============================================================================
