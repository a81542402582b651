------------------------------ MODULE RangeIter ------------------------------
(***************************************************************************)
(* The range iterator of src/src/engine/walker/range.rs over the trees of  *)
(* BlobTree, while calls change them: lower-bound seek, prefix filter,     *)
(* delimiter rollup and restart when a blob on the cursor's path changed.  *)
(*                                                                         *)
(* The iterator reads one node per step, under the shared latch of its     *)
(* blob; a put or a delete may come between any two steps.  A next() is    *)
(* inside the maintenance gate and the tree's mutation gate, so compaction *)
(* and merge come between two of them only.  A stack frame keeps the image *)
(* of the blob it pinned; `stamp` is the content version: the number of    *)
(* the call that changed the blob last.                                    *)
(***************************************************************************)
EXTENDS BlobTree

CONSTANTS
  Scans,      \* what is asked for: prefix, start_after, delimiter, and the calls meanwhile
  MaxByte     \* u8::MAX

VARIABLES
  scan,       \* the builder
  it,         \* the iterator
  stamp,      \* content versions
  steady      \* history: the keys that were there ever since the first next()

scanVars == <<scan, it, stamp, steady>>

NoDelimiter == -1

User(k) == Front(k)

Less(a, b) ==
  LET c == Len(Common(a, b))
  IN  IF c = Len(a) \/ c = Len(b) THEN Len(a) < Len(b) ELSE a[c + 1] < b[c + 1]

-----------------------------------------------------------------------------
(* Lower bounds *)

\* No bound is the inclusive bound at the empty key.
Exclusive(key) == [key |-> key, inclusive |-> FALSE]
Inclusive(key) == [key |-> key, inclusive |-> TRUE]

Allows(bound, key) == Less(bound.key, key) \/ (bound.inclusive /\ key = bound.key)

HasSuccessor(p) == \E i \in DOMAIN p : p[i] # MaxByte

\* The least key above every key that starts with p.
Successor(p) ==
  LET i == Max({j \in DOMAIN p : p[j] # MaxByte})
  IN  Append(SubSeq(p, 1, i - 1), p[i] + 1)

\* key_at_or_past_prefix_successor
PastPrefix(key, p) == HasSuccessor(p) /\ ~Less(key, Successor(p))

SeekIsEmpty == scan.prefix # <<>> /\ ~Less(it.bound.key, scan.prefix)
               /\ PastPrefix(it.bound.key, scan.prefix)

\* effective_seek_start, seek_target
SeekTarget == IF Less(it.bound.key, scan.prefix) THEN scan.prefix ELSE it.bound.key

\* path_seek_relation and, for the path behind a segment, segment_seek_relation
SeekRelation(path, target) ==
  IF IsStrictPrefix(path, target) THEN "seeking"
  ELSE IF Less(path, target) THEN "skip" ELSE "min"

\* Mutant of BoundAfterKey: a restart comes back to the key.
BoundAtKey(key) == Inclusive(key)

BoundAfterKey(key) == Exclusive(key)

-----------------------------------------------------------------------------
(* Rollups *)

\* segment_rollup_len: where the path first meets the delimiter behind the prefix.
Delimiters(path) ==
  IF scan.delimiter = NoDelimiter \/ ~IsPrefix(scan.prefix, path) THEN {}
  ELSE {i \in Len(scan.prefix) + 1 .. Len(path) : path[i] = scan.delimiter}

CanRollUp(path) == Delimiters(path) # {}
RolledUp(path) == SubSeq(path, 1, Min(Delimiters(path)))

\* prepare_segment_rollup
RollsUp(path) == CanRollUp(path) /\ Allows(it.bound, RolledUp(path))

Entry(kind, key, val) == [kind |-> kind, key |-> key, val |-> val]
Skip == Entry("skip", <<>>, 0)

\* project_range_leaf
ProjectLeaf(n) ==
  LET key == User(n.key)
  IN  CASE n.dead -> Skip
        [] ~n.dead /\ ~IsPrefix(scan.prefix, key) ->
             IF Less(key, scan.prefix) THEN Skip ELSE Entry("past", <<>>, 0)
        [] OTHER ->
             IF ~Allows(it.bound, key) THEN Skip
             ELSE IF CanRollUp(key) THEN Entry("leaf rollup", RolledUp(key), 0)
             ELSE Entry("key", key, n.val)

-----------------------------------------------------------------------------
(* The stack *)

Push(stack, g, f, slot, version, bytes) ==
  Append(stack, [guid |-> g, f |-> f, slot |-> slot, version |-> version, next |-> -1,
                 bytes |-> Len(bytes)])

Top == Last(it.stack)
TopNode == Node(Top.f, Top.slot)

\* The frame cleared of what it pushed when it goes.
Pop(i) ==
  [i EXCEPT !.stack = Front(@), !.path = SubSeq(@, 1, Len(@) - Last(i.stack).bytes)]

RECURSIVE PopTo(_, _)
PopTo(i, len) == IF Len(i.path) > len /\ Len(i.stack) > 1 THEN PopTo(Pop(i), len) ELSE i

SetNext(i, next) == [i EXCEPT !.stack[Len(i.stack)].next = next]

\* A pinned blob that was merged away meanwhile never changes again.
IsCurrent(frame) == frame.guid \in DOMAIN blobs => stamp[frame.guid] = frame.version

PathIsStillValid == \A j \in DOMAIN it.stack : IsCurrent(it.stack[j])

Restarted(i) == [i EXCEPT !.stack = <<>>, !.path = <<>>, !.pc = "init"]

\* Down to a child in the same blob.
Into(i, child, bytes, next) ==
  [i EXCEPT !.stack = Push(SetNext(i, next).stack, Top.guid, Top.f, child, Top.version, bytes),
            !.path = @ \o bytes]

Emitting(i, e) == [i EXCEPT !.pc = "emit", !.entry = e]

-----------------------------------------------------------------------------
(* What one turn of the loops makes of the iterator *)

\* next_inner_child_ge, next_inner_child_from: the next byte that has a child.
NextBytes(n, least) == {b \in DOMAIN n.kids : b > Top.next /\ b >= least}

StepInner(i, n, least) ==
  IF NextBytes(n, least) = {} THEN Pop(i)
  ELSE LET b == Min(NextBytes(n, least)) IN Into(i, n.kids[b], <<b>>, b)

\* seek_to_lower_bound
SeekStep ==
  LET n == TopNode
      rel(bytes) == SeekRelation(it.path \o bytes, it.target)
  IN  CASE n.type = "leaf" ->
             IF Less(User(n.key), it.target) THEN Pop(it) ELSE [it EXCEPT !.pc = "advance"]
        [] n.type = "empty" -> Pop(it)
        [] n.type = "prefix" ->
             IF Top.next # -1 \/ rel(n.bytes) = "skip" THEN Pop(it)
             ELSE IF CanRollUp(it.path \o n.bytes) THEN [it EXCEPT !.pc = "advance"]
             ELSE Into(it, n.child, n.bytes, 0)
        [] n.type = "blob" ->
             IF Top.next # -1 \/ rel(<<>>) = "skip" THEN Pop(it)
             ELSE IF CanRollUp(it.path) THEN [it EXCEPT !.pc = "advance"]
             ELSE [SetNext(it, 0) EXCEPT !.pc = "seek cross"]
        [] IsInner(n) ->
             CASE rel(<<>>) = "skip" -> Pop(it)
               [] rel(<<>>) = "min" -> StepInner(it, n, 0)
               [] OTHER -> StepInner(it, n, it.target[Len(it.path) + 1])

\* Mutant of LeafStep: a leaf that is passed over ends the scan.
LeafStepOrDone(i, e) ==
  CASE e.kind \in {"skip", "past"} -> [i EXCEPT !.pc = "done"]
    [] OTHER -> Emitting(SetNext(i, 0), e)

LeafStep(i, e) ==
  CASE e.kind = "skip" -> Pop(i)
    [] e.kind = "past" -> [i EXCEPT !.pc = "done"]
    [] OTHER -> Emitting(SetNext(i, 0), e)

\* advance_to_next_entry
AdvanceStep ==
  LET n == TopNode
      path == it.path \o n.bytes
  IN  CASE n.type = "leaf" ->
             IF Top.next # -1 THEN Pop(it) ELSE LeafStep(it, ProjectLeaf(n))
        [] n.type = "empty" -> Pop(it)
        [] n.type = "prefix" ->
             IF Top.next # -1 THEN Pop(it)
             ELSE IF /\ Top.f.tomb = 0
                     /\ Node(Top.f, n.child).type \notin {"blob", "empty"}
                     /\ RollsUp(path)
             THEN Emitting(SetNext(it, 0), Entry("rollup", RolledUp(path), 0))
             ELSE Into(it, n.child, n.bytes, 0)
        [] n.type = "blob" ->
             IF Top.next # -1 THEN Pop(it) ELSE [SetNext(it, 0) EXCEPT !.pc = "cross"]
        [] IsInner(n) -> StepInner(it, n, 0)

\* A turn that only pops looks at no blob.
ReadsBlob ==
  LET n == TopNode
  IN  CASE n.type = "empty" -> FALSE
        [] n.type \in {"leaf", "prefix", "blob"} -> Top.next = -1
        [] OTHER -> it.pc = "advance" \/ SeekRelation(it.path, it.target) # "skip"

Turn(step) ==
  IF it.stack = <<>> THEN [it EXCEPT !.pc = "done"]
  ELSE IF ReadsBlob /\ ~IsCurrent(Top) THEN Restarted(it)
  ELSE step

-----------------------------------------------------------------------------
(* Actions *)

Idle == [pc |-> "idle", stack |-> <<>>, path |-> <<>>, bound |-> Inclusive(<<>>), target |-> <<>>,
         entry |-> Skip, started |-> FALSE, shown |-> <<>>]

RangeInit ==
  /\ Init
  /\ scan \in Scans
  /\ it = [Idle EXCEPT !.bound = scan.after]
  /\ stamp = [g \in DOMAIN blobs |-> 0]
  /\ steady = {}

Present == {k \in Keys : dict[k] # Absent}

\* RangeIter::next: to where the last call left the cursor.
NextCall ==
  /\ scan.on /\ it.pc = "idle"
  /\ it' = [it EXCEPT !.pc = IF it.stack = <<>> THEN "init" ELSE "advance", !.started = TRUE]
  /\ steady' = IF it.started THEN steady ELSE Present
  /\ UNCHANGED <<vars, scan, stamp>>

InitDescent ==
  /\ it.pc = "init"
  /\ it' = IF SeekIsEmpty THEN [it EXCEPT !.pc = "done"]
           ELSE [it EXCEPT !.stack = Push(<<>>, 0, blobs[0], blobs[0].root, stamp[0], <<>>),
                           !.target = SeekTarget, !.pc = "seek"]
  /\ UNCHANGED <<vars, scan, stamp, steady>>

Seek ==
  /\ it.pc = "seek"
  /\ it' = Turn(SeekStep)
  /\ UNCHANGED <<vars, scan, stamp, steady>>

Advance ==
  /\ it.pc = "advance"
  /\ it' = Turn(AdvanceStep)
  /\ UNCHANGED <<vars, scan, stamp, steady>>

\* The blob behind the edge just read: pinned, looked at for a rollup, entered.
Cross ==
  LET g == TopNode.guid
      f == blobs[g]
  IN  /\ it.pc \in {"cross", "seek cross"}
      /\ g \in DOMAIN blobs
      /\ it' = IF /\ it.pc = "cross" /\ f.tomb = 0 /\ Node(f, f.root).type # "empty"
                  /\ RollsUp(it.path)
               THEN Emitting(it, Entry("rollup", RolledUp(it.path), 0))
               ELSE [it EXCEPT !.stack = Push(@, g, f, f.root, stamp[g], <<>>),
                               !.pc = IF it.pc = "cross" THEN "advance" ELSE "seek"]
      /\ UNCHANGED <<vars, scan, stamp, steady>>

\* What next() returns, and whether the tree has it.
Shown(e) ==
  [key |-> e.key, rollup |-> e.kind # "key",
   fresh |-> e.kind = "key" => dict[Append(e.key, 0)] = e.val]

\* The whole path is validated; then the entry is returned and the bound moves.
Emit ==
  LET e == it.entry
      shown == Append(it.shown, Shown(e))
      popped == IF e.kind = "leaf rollup" THEN PopTo(it, Len(e.key)) ELSE it
  IN  /\ it.pc = "emit"
      /\ it' =
           IF ~PathIsStillValid THEN Restarted(it)
           ELSE IF e.kind = "key"
           THEN [it EXCEPT !.pc = "idle", !.bound = BoundAfterKey(e.key), !.shown = shown]
           ELSE IF HasSuccessor(e.key)
           THEN [popped EXCEPT !.pc = "idle", !.bound = Inclusive(Successor(e.key)), !.shown = shown]
           ELSE [it EXCEPT !.pc = "done", !.shown = shown]
      /\ UNCHANGED <<vars, scan, stamp, steady>>

\* The content versions and the keys that stayed.
Observe ==
  /\ stamp' = IF ~scan.on THEN stamp
              ELSE [g \in DOMAIN blobs' |->
                      IF g \in DOMAIN blobs /\ blobs'[g] = blobs[g] THEN stamp[g] ELSE calls']
  /\ steady' = {k \in steady : dict'[k] # Absent}
  /\ UNCHANGED <<scan, it>>

Between == it.pc \in {"idle", "done"}

Change ==
  /\ calls < scan.calls
  /\ \/ \E k \in scan.keys, v \in scan.values : Put(k, v)
     \/ \E k \in scan.keys : Delete(k)
     \/ \E g \in DOMAIN blobs : Between /\ (Compact(g) \/ Merge(g))
  /\ Observe

RangeNext == NextCall \/ InitDescent \/ Seek \/ Advance \/ Cross \/ Emit \/ Change

RangeSpec == RangeInit /\ [][RangeNext]_<<vars, scanVars>>

-----------------------------------------------------------------------------
(***************************************************************************)
(* "does not re-emit keys or rollups it has already returned"              *)
(* (range.rs:19-20): what a scan returns ascends strictly, through         *)
(* restarts, spillovers, compactions and merges under the cursor, and a    *)
(* key it returns is in the tree with that value at that moment.           *)
(***************************************************************************)
ScanInOrder ==
  /\ \A j \in 2 .. Len(it.shown) : Less(it.shown[j - 1].key, it.shown[j].key)
  /\ \A j \in DOMAIN it.shown : it.shown[j].fresh

Wanted(k) == IsPrefix(scan.prefix, User(k)) /\ Allows(scan.after, User(k))

(***************************************************************************)
(* A scan that ends has returned every key in its range that was there     *)
(* from the first next() on, itself or rolled up, wherever the calls       *)
(* meanwhile moved its leaf (advance_to_next_entry, seek_to_lower_bound).  *)
(***************************************************************************)
ScanMissesNothing ==
  it.pc = "done" => \A k \in steady : Wanted(k) =>
    \E j \in DOMAIN it.shown :
      LET s == it.shown[j]
      IN  IF s.rollup THEN IsPrefix(s.key, User(k)) ELSE s.key = User(k)
=============================================================================
