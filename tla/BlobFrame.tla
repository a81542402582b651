------------------------------ MODULE BlobFrame ------------------------------
(***************************************************************************)
(* The blob frame of src/src/store/blob_frame.rs: a slot table of nodes, a *)
(* free list for each node type, and a bump cursor over the data area.     *)
(*                                                                         *)
(* A frame is a record.  Bodies are kept by slot; the bytes of a body and  *)
(* its offset are not modelled, only the space it takes.  Leaf extents     *)
(* have no slot: they are only counted.  Sizes are in units of 8 bytes.    *)
(*                                                                         *)
(* An allocation that finds no room sets `err`, and everything done to the *)
(* frame from there until the error is handled leaves it as it is: that is *)
(* the `?` after every allocation of the callers.                          *)
(***************************************************************************)
EXTENDS Integers, Sequences

CONSTANTS
  Capacity,              \* units in the data area
  MAX_SLOTS,
  SPILLOVER_RESERVATION, \* units kept for a blob node
  SIZE_BY_TYPE           \* units a node of each type takes

Types ==
  {"leaf", "prefix", "blob", "node4", "node16", "node48", "node256", "empty"}

ASSUME FrameAssumption ==
  /\ Capacity \in Nat
  /\ MAX_SLOTS \in Nat
  /\ SIZE_BY_TYPE \in [Types -> Nat \ {0}]
  /\ SPILLOVER_RESERVATION = SIZE_BY_TYPE["blob"]

Ok(f) == f.err = "none"

Node(f, slot) == f.body[slot]

Freed(node) == [type |-> "freed", was |-> node.type]

EmptyRoot == [type |-> "empty"]

Sibling(type) ==
  CASE type = "blob"   -> "prefix"
    [] type = "prefix" -> "blob"
    [] OTHER           -> type

\* The free lists a node of this type can be taken from: its own first, then for
\* the two types of 128 bytes the other one's.
FreeLists(f, type) == SelectSeq(<<type, Sibling(type)>>, LAMBDA t : f.free[t] # <<>>)

\* Mutant of Available: nothing is set aside for the blob node.
AvailableToAll(f, type) == Capacity - f.used

\* Only a blob node may take the last units.
Available(f, type) ==
  LET raw == Capacity - f.used
  IN  IF type = "blob" THEN raw ELSE raw - SPILLOVER_RESERVATION

CountBlob(f, node, n) ==
  IF node.type = "blob" THEN [f EXCEPT !.ext = @ + n] ELSE f

Place(f, slot, node) == [f EXCEPT !.body[slot] = node]

Nowhere(f) == [f |-> f, slot |-> 0]

Reuse(f, list, node) ==
  LET slot == Head(f.free[list])
  IN  [f    |-> CountBlob(Place([f EXCEPT !.free[list] = Tail(@)], slot, node), node, 1),
       slot |-> slot]

Bump(f, node) ==
  LET size == SIZE_BY_TYPE[node.type]
  IN  IF Len(f.body) >= MAX_SLOTS THEN Nowhere([f EXCEPT !.err = "slots"])
      ELSE IF Available(f, node.type) < size THEN Nowhere([f EXCEPT !.err = "space"])
      ELSE [f    |-> CountBlob([f EXCEPT !.body = Append(@, node), !.used = @ + size], node, 1),
            slot |-> Len(f.body) + 1]

\* alloc_node, with the write of the body that follows it everywhere.
AllocNode(f, node) ==
  LET lists == FreeLists(f, node.type)
  IN  IF ~Ok(f) THEN Nowhere(f)
      ELSE IF lists # <<>> THEN Reuse(f, Head(lists), node)
      ELSE Bump(f, node)

FreeNode(f, slot) ==
  LET node == Node(f, slot)
  IN  IF ~Ok(f) THEN f
      ELSE CountBlob([Place(f, slot, Freed(node)) EXCEPT !.free[node.type] = <<slot>> \o @], node, -1)

AllocExtent(f, size) ==
  IF ~Ok(f) THEN f
  ELSE IF Available(f, "leaf") < size THEN [f EXCEPT !.err = "space"]
  ELSE [f EXCEPT !.used = @ + size]

\* BlobFrame::init: an empty tree, whose sentinel takes slot 1.
InitFrame ==
  AllocNode([root |-> 1, body |-> <<>>, free |-> [t \in Types |-> <<>>], used |-> 0,
             ext |-> 0, tomb |-> 0, err |-> "none"], EmptyRoot).f
=============================================================================
