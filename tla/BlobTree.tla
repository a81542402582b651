------------------------------ MODULE BlobTree -------------------------------
(***************************************************************************)
(* The adaptive radix tree inside the blob frames and across them: the     *)
(* walkers of src/src/engine/walker (insert, erase, lookup), spillover,    *)
(* compaction and merge.                                                   *)
(*                                                                         *)
(* One call is one step.  A walker holds the exclusive latch of every      *)
(* frame it changes, and of the parent until it has the child's, so no     *)
(* other call sees a frame half changed; what readers and the checkpointer *)
(* see in between is the subject of HybridLatch and Checkpoint.  The       *)
(* conditions of put_if_absent and compare_and_put are modelled in Tree.   *)
(*                                                                         *)
(* A key is the sequence of its bytes with the terminator 0 of SearchKey.  *)
(* A value is the number of units its leaf's extent takes, which is all    *)
(* the tree looks at.  An inner node maps bytes to slots; how the four     *)
(* variants lay that map out is left out, how many bytes each can map is   *)
(* not.  Blob nodes have an inline prefix that spillover, the only place   *)
(* that makes new ones, leaves empty: it is left out.                      *)
(***************************************************************************)
EXTENDS BlobFrame, SequencesExt, FiniteSetsExt

CONSTANTS
  Keys,
  Values,
  Guids,                    \* numbers, 0 the root blob; bounds the blobs alive
  Cap,                      \* children an inner node of each variant can have
  PREFIX_MAX_INLINE,
  MAX_SPILLOVER_ATTEMPTS,
  MERGE_RESERVE,
  TargetFill, MinFill,      \* the band of sizes spillover looks for
  Slash,                    \* the byte that ends a path component
  Loads,                    \* sequences of puts the initial trees come from
  MaxCalls                  \* bound on the calls after that

VARIABLES
  blobs,      \* the frames alive, by guid
  dict,       \* what the calls so far amount to: a value for each key, or Absent
  errors,     \* history variable: the errors of the calls, those a batch handles included
  calls

vars == <<blobs, dict, errors, calls>>

Absent == 0

ASSUME TreeAssumption ==
  /\ \A k \in Keys : k # <<>> /\ SelectSeq(k, LAMBDA b : b = 0) = <<0>> /\ Last(k) = 0
  /\ Absent \notin Values
  /\ 0 \in Guids
  /\ MERGE_RESERVE >= SPILLOVER_RESERVATION

Inner == <<"node4", "node16", "node48", "node256">>

LeafNode(k, v) == [type |-> "leaf", key |-> k, val |-> v, dead |-> FALSE]
PrefixNode(bytes, child) == [type |-> "prefix", bytes |-> bytes, child |-> child]
InnerNode(type, kids) == [type |-> type, kids |-> kids]
BlobNode(guid) == [type |-> "blob", guid |-> guid]

IsInner(n) == n.type \in ToSet(Inner)

Smallest(count) == SelectSeq(Inner, LAMBDA t : Cap[t] >= count)[1]

\* The bytes under which an inner node has children, ascending.
Bytes(n) == SetToSortSeq(DOMAIN n.kids, <)

Children(n) ==
  CASE n.type = "prefix" -> {n.child}
    [] IsInner(n)        -> {n.kids[b] : b \in DOMAIN n.kids}
    [] OTHER             -> {}

RECURSIVE Subtree(_, _)
Subtree(f, slot) == {slot} \cup UNION {Subtree(f, c) : c \in Children(Node(f, slot))}

\* The byte at depth d and what follows: keys are compared from there.
Rest(k, d) == SubSeq(k, d + 1, Len(k))

Common(s, t) == LongestCommonPrefix({s, t})

\* Points the edge of `parent` that led to `old` to `new`.
Rewire(f, parent, old, new) ==
  LET n == Node(f, parent)
  IN  IF n.type = "prefix"
      THEN Place(f, parent, PrefixNode(n.bytes, new))
      ELSE Place(f, parent, InnerNode(n.type,
             [b \in DOMAIN n.kids |-> IF n.kids[b] = old THEN new ELSE n.kids[b]]))

-----------------------------------------------------------------------------
(* Writers *)

WriteLeaf(f, k, v) == AllocNode(AllocExtent(f, v), LeafNode(k, v))

\* A chain of prefix nodes that spells `bytes` and ends at `child`, from its end.
RECURSIVE WritePrefixChain(_, _, _)
WritePrefixChain(f, bytes, child) ==
  IF bytes = <<>> THEN [f |-> f, slot |-> child]
  ELSE LET start == Len(bytes) - Min({Len(bytes), PREFIX_MAX_INLINE})
           head == AllocNode(f, PrefixNode(Rest(bytes, start), child))
       IN  WritePrefixChain(head.f, SubSeq(bytes, 1, start), head.slot)

\* A node4 over what was there and a new leaf, below the bytes they share.
Branch(f, shared, byte, slot, k, v, d) ==
  LET leaf == WriteLeaf(f, k, v)
      n4 == AllocNode(leaf.f, InnerNode("node4",
              byte :> slot @@ k[d + Len(shared) + 1] :> leaf.slot))
  IN  WritePrefixChain(n4.f, shared, n4.slot)

\* Mutant of AddChild: the node it grew out of is not given back.
AddChildKeepingOld(f, slot, byte, child) ==
  LET n == Node(f, slot)
      kids == byte :> child @@ n.kids
      larger == AllocNode(f, InnerNode(Smallest(Cardinality(DOMAIN kids)), kids))
  IN  IF ~Ok(f) THEN Nowhere(f)
      ELSE IF Cardinality(DOMAIN kids) <= Cap[n.type]
      THEN [f |-> Place(f, slot, InnerNode(n.type, kids)), slot |-> slot]
      ELSE larger

\* A full node grows to the next variant first.
AddChild(f, slot, byte, child) ==
  LET n == Node(f, slot)
      kids == byte :> child @@ n.kids
      larger == AllocNode(f, InnerNode(Smallest(Cardinality(DOMAIN kids)), kids))
  IN  IF ~Ok(f) THEN Nowhere(f)
      ELSE IF Cardinality(DOMAIN kids) <= Cap[n.type]
      THEN [f |-> Place(f, slot, InnerNode(n.type, kids)), slot |-> slot]
      ELSE [f |-> FreeNode(larger.f, slot), slot |-> larger.slot]

-----------------------------------------------------------------------------
(* Insert: what the walker did to the frame, the slot that now stands for  *)
(* the subtree, and the blob to go on in, if any                           *)

NoBlob == <<>>

Done(a) == [f |-> a.f, slot |-> a.slot, cross |-> NoBlob]

InsertIntoEmptyRoot(f, slot, k, v) ==
  LET leaf == WriteLeaf(f, k, v)
  IN  Done([f |-> FreeNode(leaf.f, slot), slot |-> leaf.slot])

\* Mutant of UpdateLeaf: a value written over the old one leaves the leaf deleted.
UpdateLeafStillDead(f, slot, k, v) ==
  LET n == Node(f, slot)
      leaf == WriteLeaf(f, k, v)
  IN  IF v <= n.val
      THEN Done([f |-> Place(f, slot, [n EXCEPT !.val = v]), slot |-> slot])
      ELSE Done([f |-> FreeNode(leaf.f, slot), slot |-> leaf.slot])

\* The key's own leaf.  A value that fits the old extent is written over it;
\* otherwise a new leaf replaces the old one, whose extent is lost until the
\* next compaction.  A deleted key comes back to life.
UpdateLeaf(f, slot, k, v) ==
  LET n == Node(f, slot)
      counted == IF n.dead THEN [f EXCEPT !.tomb = Max({@ - 1, 0})] ELSE f
      leaf == WriteLeaf(f, k, v)
  IN  IF v <= n.val
      THEN Done([f |-> Place(counted, slot, LeafNode(k, v)), slot |-> slot])
      ELSE Done([f |-> [FreeNode(leaf.f, slot) EXCEPT
                          !.tomb = IF Ok(leaf.f) THEN counted.tomb ELSE @],
                 slot |-> leaf.slot])

SplitLeaf(f, slot, k, v, d) ==
  LET old == Rest(Node(f, slot).key, d)
      shared == Common(old, Rest(k, d))
  IN  Done(Branch(f, shared, old[Len(shared) + 1], slot, k, v, d))

SplitPrefix(f, slot, k, v, d) ==
  LET n == Node(f, slot)
      shared == Common(n.bytes, Rest(k, d))
      tail == WritePrefixChain(f, Rest(n.bytes, Len(shared) + 1), n.child)
      top == Branch(tail.f, shared, n.bytes[Len(shared) + 1], tail.slot, k, v, d)
  IN  Done([f |-> FreeNode(top.f, slot), slot |-> top.slot])

AddLeaf(f, slot, k, v, d) ==
  LET leaf == WriteLeaf(f, k, v)
  IN  Done(AddChild(leaf.f, slot, k[d + 1], leaf.slot))

\* What an insertion into a child amounts to for its parent.
Under(r, parent, child) ==
  IF r.cross # NoBlob \/ ~Ok(r.f) THEN r
  ELSE Done([f |-> Rewire(r.f, parent, child, r.slot), slot |-> parent])

RECURSIVE InsertAtStep(_, _, _, _, _)
InsertAtStep(f, slot, k, v, d) ==
  LET n == Node(f, slot)
  IN  CASE n.type = "empty" -> InsertIntoEmptyRoot(f, slot, k, v)
        [] n.type = "leaf" ->
             IF n.key = k THEN UpdateLeaf(f, slot, k, v) ELSE SplitLeaf(f, slot, k, v, d)
        [] n.type = "prefix" ->
             IF IsPrefix(n.bytes, Rest(k, d))
             THEN Under(InsertAtStep(f, n.child, k, v, d + Len(n.bytes)), slot, n.child)
             ELSE SplitPrefix(f, slot, k, v, d)
        [] n.type = "blob" -> [f |-> f, slot |-> slot, cross |-> <<n.guid, d>>]
        [] IsInner(n) ->
             IF k[d + 1] \in DOMAIN n.kids
             THEN Under(InsertAtStep(f, n.kids[k[d + 1]], k, v, d + 1), slot, n.kids[k[d + 1]])
             ELSE AddLeaf(f, slot, k, v, d)

-----------------------------------------------------------------------------
(* Cloning: the frame cloned into and the slot of the copy, 0 if nothing    *)
(* was worth copying                                                        *)

\* The variant that fits what survived; a lone child keeps its byte as a prefix.
PackInnerNode(f, kids) ==
  CASE DOMAIN kids = {} -> Nowhere(f)
    [] Cardinality(DOMAIN kids) = 1 ->
         LET b == CHOOSE b \in DOMAIN kids : TRUE IN WritePrefixChain(f, <<b>>, kids[b])
    [] OTHER -> AllocNode(f, InnerNode(Smallest(Cardinality(DOMAIN kids)), kids))

\* With `filter` dead leaves are dropped and inner nodes packed; without it the
\* copy has the shape of the original.
RECURSIVE CloneSubtree(_, _, _, _)
CloneSubtree(src, dst, slot, filter) ==
  LET n == Node(src, slot)
      CloneChild(acc, b) ==
        LET c == CloneSubtree(src, acc.f, n.kids[b], filter)
        IN  [f |-> c.f, kids |-> IF c.slot = 0 THEN acc.kids ELSE b :> c.slot @@ acc.kids]
  IN  CASE n.type = "leaf" ->
             IF filter /\ n.dead THEN Nowhere(dst) ELSE AllocNode(AllocExtent(dst, n.val), n)
        [] n.type = "prefix" ->
             LET c == CloneSubtree(src, dst, n.child, filter)
             IN  IF c.slot = 0 THEN c ELSE AllocNode(c.f, PrefixNode(n.bytes, c.slot))
        [] IsInner(n) ->
             LET c == FoldLeft(CloneChild, [f |-> dst, kids |-> <<>>], Bytes(n))
             IN  IF filter THEN PackInnerNode(c.f, c.kids)
                 ELSE AllocNode(c.f, InnerNode(n.type, c.kids))
        [] OTHER -> AllocNode(dst, n)

\* The sentinel of a fresh frame gives way to the root cloned into it.
Reroot(f, slot) == [FreeNode(f, 1) EXCEPT !.root = slot]

MakeBlobFromNode(f, slot) ==
  LET c == CloneSubtree(f, InitFrame, slot, FALSE) IN Reroot(c.f, c.slot)

CompactBlob(f) ==
  LET c == CloneSubtree(f, InitFrame, f.root, TRUE)
      r == IF c.slot = 0 THEN AllocNode(c.f, EmptyRoot) ELSE c
  IN  Reroot(r.f, r.slot)

BlobNeedsCompaction(f) == f.tomb # 0 \/ f.free["leaf"] # <<>>

-----------------------------------------------------------------------------
(* Spillover *)

Units(n) == SIZE_BY_TYPE[n.type] + (IF n.type = "leaf" THEN n.val ELSE 0)

Footprint(f, slot) == MapThenSumSet(LAMBDA s : Units(Node(f, s)), Subtree(f, slot))

Candidate(f, parent, slot, d, byte) ==
  [parent |-> parent, slot |-> slot, depth |-> d, path |-> byte = Slash,
   units |-> Footprint(f, slot), nodes |-> Cardinality(Subtree(f, slot))]

\* The edges below a node, and those inside what is too large to move as it is.
\* Blobs are never moved again.
RECURSIVE Candidates(_, _, _)
Candidates(f, parent, d) ==
  LET n == Node(f, parent)
      edges == CASE n.type = "prefix" ->
                      <<Candidate(f, parent, n.child, d + Len(n.bytes), Last(n.bytes))>>
                 [] IsInner(n) ->
                      [i \in DOMAIN Bytes(n) |->
                         Candidate(f, parent, n.kids[Bytes(n)[i]], d + 1, Bytes(n)[i])]
                 [] OTHER -> <<>>
      Visit(c) == IF Node(f, c.slot).type = "blob" THEN <<>>
                  ELSE <<c>> \o (IF c.units > TargetFill THEN Candidates(f, c.slot, c.depth) ELSE <<>>)
  IN  FlattenSeq([i \in DOMAIN edges |-> Visit(edges[i])])

InBand(c) == c.units \in MinFill .. TargetFill

Off(c) == IF c.units > TargetFill THEN c.units - TargetFill ELSE TargetFill - c.units

CandidateIsBetter(c, best) ==
  IF InBand(c) # InBand(best) THEN InBand(c)
  ELSE IF InBand(c) /\ c.path # best.path THEN c.path
  ELSE IF Off(c) # Off(best) THEN Off(c) < Off(best)
  ELSE IF c.path # best.path THEN c.path
  ELSE IF c.depth # best.depth THEN c.depth < best.depth
  ELSE c.nodes > best.nodes

PickVictim(cs) ==
  FoldLeft(LAMBDA best, c : IF CandidateIsBetter(c, best) THEN c ELSE best, Head(cs), Tail(cs))

RECURSIVE FreeSubtree(_, _)
FreeSubtree(f, slot) ==
  LET n == Node(f, slot)
      below == CASE n.type = "prefix" -> <<n.child>>
                 [] IsInner(n) -> [i \in DOMAIN Bytes(n) |-> n.kids[Bytes(n)[i]]]
                 [] OTHER -> <<>>
  IN  FreeNode(FoldLeft(FreeSubtree, f, below), slot)

Handled(f) == [f EXCEPT !.err = "none"]

\* The new blob is in the buffer manager before the old nodes are given back, and
\* stays there whatever happens to the blob node.
MoveOut(bs, g, victim, new, child) ==
  LET bn == AllocNode(FreeSubtree(bs[g], victim.slot), BlobNode(new))
      rewired == IF Ok(bn.f) THEN Rewire(bn.f, victim.parent, victim.slot, bn.slot) ELSE Handled(bn.f)
  IN  IF ~Ok(child) THEN [blobs |-> bs, result |-> "not moved"]
      ELSE [blobs |-> [bs EXCEPT ![g] = rewired] @@ (new :> child),
            result |-> IF Ok(bn.f) THEN "ok" ELSE "no crossing"]

SpilloverBlob(bs, g) ==
  LET cs == Candidates(bs[g], bs[g].root, 0)
      victim == PickVictim(cs)
  IN  IF cs = <<>> THEN [blobs |-> bs, result |-> "no victim"]
      ELSE IF Guids \subseteq DOMAIN bs THEN [blobs |-> bs, result |-> "out of bounds"]
      ELSE MoveOut(bs, g, victim, Min(Guids \ DOMAIN bs), MakeBlobFromNode(bs[g], victim.slot))

\* A frame that has spilled over is compacted.
Compacted(spilled, g, f) ==
  IF spilled.result # "ok" THEN spilled
  ELSE IF Ok(f) THEN [blobs |-> [spilled.blobs EXCEPT ![g] = f], result |-> "ok"]
  ELSE [blobs |-> spilled.blobs, result |-> "not compacted"]

MakeRoom(spilled, g) == Compacted(spilled, g, CompactBlob(spilled.blobs[g]))

RECURSIVE InsertInBlob(_, _, _, _, _, _), Walked(_, _, _, _, _, _, _), Retry(_, _, _, _, _, _)

\* What the walk r through blob g leads to: an error, the end, the next blob, or
\* another attempt in this one once there is room.
Walked(bs, g, k, v, d, attempt, r) ==
  LET tried == [bs EXCEPT ![g] = Handled(r.f)]
  IN  IF r.f.err = "slots" THEN [blobs |-> tried, result |-> "slots"]
      ELSE IF r.f.err = "space" THEN Retry(MakeRoom(SpilloverBlob(tried, g), g), g, k, v, d, attempt + 1)
      ELSE IF r.cross # NoBlob THEN InsertInBlob(bs, r.cross[1], k, v, r.cross[2], 0)
      ELSE [blobs |-> [bs EXCEPT ![g] = [r.f EXCEPT !.root = r.slot]], result |-> "ok"]

Retry(room, g, k, v, d, attempt) ==
  IF room.result = "ok" THEN InsertInBlob(room.blobs, g, k, v, d, attempt) ELSE room

\* lock_coupled_insert_in_blob
InsertInBlob(bs, g, k, v, d, attempt) ==
  IF attempt = MAX_SPILLOVER_ATTEMPTS THEN [blobs |-> bs, result |-> "exhausted"]
  ELSE Walked(bs, g, k, v, d, attempt, InsertAtStep(bs[g], bs[g].root, k, v, d))

-----------------------------------------------------------------------------
(* Lookup: where the key's leaf is *)

Nothing == <<"nothing">>
Corrupt == <<"corrupt">>
NodeCorrupt == -1    \* Error::NodeCorrupt

RECURSIVE Descend(_, _, _, _, _)
Descend(bs, g, slot, k, d) ==
  LET n == Node(bs[g], slot)
  IN  CASE n.type = "empty" -> Nothing
        [] n.type = "leaf"  -> IF n.key = k THEN <<g, slot>> ELSE Nothing
        [] n.type = "prefix" ->
             IF IsPrefix(n.bytes, Rest(k, d))
             THEN Descend(bs, g, n.child, k, d + Len(n.bytes)) ELSE Nothing
        [] IsInner(n) ->
             IF d < Len(k) /\ k[d + 1] \in DOMAIN n.kids
             THEN Descend(bs, g, n.kids[k[d + 1]], k, d + 1) ELSE Nothing
        [] n.type = "blob" ->
             IF n.guid \in DOMAIN bs THEN Descend(bs, n.guid, bs[n.guid].root, k, d) ELSE Corrupt
        [] OTHER -> Corrupt

Locate(bs, k) == Descend(bs, 0, bs[0].root, k, 0)

Lookup(bs, k) ==
  LET at == Locate(bs, k)
      n == Node(bs[at[1]], at[2])
  IN  CASE at = Nothing -> Absent
        [] at = Corrupt -> NodeCorrupt
        [] OTHER        -> IF n.dead THEN Absent ELSE n.val

-----------------------------------------------------------------------------
(* Merge *)

IsMergeable(f, child) ==
  /\ child.used <= Capacity - f.used - MERGE_RESERVE
  /\ Len(f.body) + Len(child.body) <= MAX_SLOTS
  /\ child.ext = 0
  /\ child.tomb = 0

\* The blob nodes of a frame with their parents, in the order of the walk.
RECURSIVE BlobEdges(_, _, _)
BlobEdges(f, parent, slot) ==
  LET n == Node(f, slot)
  IN  CASE n.type = "blob"   -> <<[parent |-> parent, slot |-> slot]>>
        [] n.type = "prefix" -> BlobEdges(f, slot, n.child)
        [] IsInner(n) -> FlattenSeq([i \in DOMAIN Bytes(n) |-> BlobEdges(f, slot, n.kids[Bytes(n)[i]])])
        [] OTHER -> <<>>

\* merge_blob for one edge of g, if it is mergeable: the child is inlined and dropped.
MergeEdge(bs, g, e) ==
  LET child == Node(bs[g], e.slot).guid
      c == CloneSubtree(bs[child], bs[g], bs[child].root, FALSE)
      freed == FreeNode(c.f, e.slot)
      inlined == IF e.slot = freed.root THEN [freed EXCEPT !.root = c.slot]
                 ELSE Rewire(freed, e.parent, e.slot, c.slot)
  IN  IF ~IsMergeable(bs[g], bs[child]) THEN bs
      ELSE [h \in DOMAIN bs \ {child} |-> IF h = g THEN inlined ELSE bs[h]]

TryMergeChildren(bs, g) ==
  FoldLeft(LAMBDA acc, e : MergeEdge(acc, g, e), bs, BlobEdges(bs[g], 0, bs[g].root))

-----------------------------------------------------------------------------
(* Calls *)

\* The tree a sequence of puts makes of a fresh one.
Load(puts) ==
  FoldLeft(LAMBDA acc, p : InsertInBlob(acc.blobs, 0, p[1], p[2], 0, 0),
           [blobs |-> 0 :> InitFrame, result |-> "ok"], puts)

LoadedDict(puts) ==
  FoldLeft(LAMBDA m, p : [m EXCEPT ![p[1]] = p[2]], [k \in Keys |-> Absent], puts)

Init ==
  /\ \E puts \in Loads :
       /\ \A i \in 1 .. Len(puts) : Load(SubSeq(puts, 1, i)).result = "ok"
       /\ blobs = Load(puts).blobs
       /\ dict = LoadedDict(puts)
  /\ errors = {}
  /\ calls = 0

Called(outcome) ==
  /\ calls < MaxCalls
  /\ calls' = calls + 1
  /\ errors' = errors \cup ({outcome} \ {"ok"})

\* The walk of a put from blob g on, whose keys share their first d bytes.
PutFrom(k, v, g, d) ==
  \E r \in {InsertInBlob(blobs, g, k, v, d, 0)} :
    /\ r.result # "out of bounds"
    /\ Called(r.result)
    /\ blobs' = r.blobs
    /\ dict' = IF r.result = "ok" THEN [dict EXCEPT ![k] = v] ELSE dict

Put(k, v) == PutFrom(k, v, 0, 0)

\* A delete marks the leaf; nothing is rewired.
DeleteFrom(k, g, d) ==
  LET at == Descend(blobs, g, blobs[g].root, k, d)
  IN  /\ at \notin {Nothing, Corrupt}
      /\ ~Node(blobs[at[1]], at[2]).dead
      /\ Called("ok")
      /\ blobs' = [blobs EXCEPT ![at[1]].body[at[2]].dead = TRUE, ![at[1]].tomb = @ + 1]
      /\ dict' = [dict EXCEPT ![k] = Absent]

Delete(k) == DeleteFrom(k, 0, 0)

\* compact_candidate_blob: the frame is only replaced when the rebuild succeeds.
Compact(g) ==
  LET f == CompactBlob(blobs[g])
  IN  /\ BlobNeedsCompaction(blobs[g])
      /\ Called(IF Ok(f) THEN "ok" ELSE "not compacted")
      /\ blobs' = IF Ok(f) THEN [blobs EXCEPT ![g] = f] ELSE blobs
      /\ UNCHANGED dict

\* merge_candidate_parent, and the merge pass of a checkpoint round.
Merge(g) ==
  /\ blobs[g].ext # 0
  /\ Called("ok")
  /\ blobs' = TryMergeChildren(blobs, g)
  /\ UNCHANGED dict

Next ==
  \/ \E k \in Keys, v \in Values : Put(k, v)
  \/ \E k \in Keys : Delete(k)
  \/ \E g \in DOMAIN blobs : Compact(g) \/ Merge(g)

Spec == Init /\ [][Next]_vars

-----------------------------------------------------------------------------
(***************************************************************************)
(* A lookup returns what the calls so far amount to, through splits of     *)
(* leaves and prefixes, growing nodes, reused slots, failed puts,          *)
(* spillovers to other blobs, compactions and merges; no walk ever meets a *)
(* freed slot or a blob that is gone (lookup.rs:322-478).                  *)
(***************************************************************************)
LookupIsDict == \A k \in Keys : Lookup(blobs, k) = dict[k]

Live(f) == Subtree(f, f.root)

LiveOf(f, type) == {s \in Live(f) : Node(f, s).type = type}

DeadLeaves(f) == {s \in LiveOf(f, "leaf") : Node(f, s).dead}

Listed(f) == UNION {ToSet(f.free[t]) : t \in Types}

IsTree(f) ==
  \A s \in Live(f) :
    LET parents == {p \in Live(f) : s \in Children(Node(f, p))}
    IN  Cardinality(parents) = IF s = f.root THEN 0 ELSE 1

FreeListsAreExact(f) ==
  \A t \in Types :
    /\ IsInjective(f.free[t])
    /\ \A s \in ToSet(f.free[t]) : Node(f, s) = [type |-> "freed", was |-> t]

(***************************************************************************)
(* Every frame accounts for its slots and its space.  What hangs below the *)
(* root is a tree; each other slot is on the free list of its type, once,  *)
(* and unless a call has failed no slot is on neither side.  num_ext_blobs *)
(* is the number of blob nodes, which is_mergeable relies on to leave      *)
(* grandchildren alone; tombstone_leaf_cnt never exceeds the dead leaves;  *)
(* and every blob but the root one is referred to by exactly one live blob *)
(* node (blob_frame.rs:322-461, migrate.rs:211-237).                       *)
(***************************************************************************)
FramesAccounted ==
  /\ \A g \in DOMAIN blobs :
       LET f == blobs[g]
       IN  /\ Ok(f)
           /\ IsTree(f)
           /\ FreeListsAreExact(f)
           /\ Live(f) \cap Listed(f) = {}
           /\ errors = {} => Live(f) \cup Listed(f) = DOMAIN f.body
           /\ f.ext = Cardinality(LiveOf(f, "blob"))
           /\ f.tomb <= Cardinality(DeadLeaves(f))
           /\ Footprint(f, f.root) <= f.used /\ f.used <= Capacity
  /\ \A g \in DOMAIN blobs \ {0} :
       Quantify(DOMAIN blobs, LAMBDA h :
         \E s \in LiveOf(blobs[h], "blob") : Node(blobs[h], s).guid = g) = 1

(***************************************************************************)
(* "guaranteeing spillover can always install its emergency crossing"      *)
(* (ARCHITECTURE.md:112): no put fails after it has given the nodes of the *)
(* victim back, which would leave their parent pointing at freed slots.    *)
(***************************************************************************)
CrossingAlwaysInstalled == "no crossing" \notin errors
=============================================================================
