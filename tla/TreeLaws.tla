------------------------------ MODULE TreeLaws ------------------------------
(****************************************************************************)
(* What the proofs about the calls of a tree use of the operators that fold *)
(* over a batch or over the log.  The laws are formulas: TreeProofs and     *)
(* TreeHistoryProofs take them as hypotheses, and TreeTheorems, which has   *)
(* induction at hand, proves each of them and then the theorems.            *)
(****************************************************************************)
EXTENDS Tree

Records == [val : Nat, ver : Nat]
Maps == [Keys -> Records]

WalOps ==
  [kind : {"insert"}, key : Keys, val : Nat]
    \cup [kind : {"erase"}, key : Keys]
    \cup [kind : {"rename"}, key : Keys, dst : Keys, force : BOOLEAN]
WalRecords == [seq : Nat, ops : Seq(WalOps)]

Projections == [verdict : {"pass", "error", "refuse"}, m : Maps, s : Nat]

\* What preflight has projected after some operations.
Start(m, s) == [verdict |-> "pass", m |-> m, s |-> s]
Ahead(m, s, ops) == FoldLeft(PreflightStep, Start(m, s), ops)

\* The keys an operation writes.
KeysOf(op) == {op.key} \cup (IF op.kind = "rename" THEN {op.dst} ELSE {})

\* A forced rename of a key onto itself changes nothing in memory, and replay
\* gives the record a new version.
PlainOps == {op \in Operations : op.kind = "rename" /\ op.key = op.dst => ~op.force}

\* Operations that rename nothing, and what they log.
Keyed == {op \in Operations : op.kind # "rename"}
KeyedOps == [kind : {"insert"}, key : Keys, val : Nat] \cup [kind : {"erase"}, key : Keys]
KeyedRecords == [seq : Nat, ops : Seq(KeyedOps)]

-----------------------------------------------------------------------------
\* A set of naturals that is not empty has a least element.
LeastLaw ==
  \A S : S \subseteq Nat /\ S # {} => \E n \in S : \A m \in S : n <= m

\* Sequence numbers only go up, operation by operation.
SeqTypeLaw ==
  \A s \in Nat, ops \in Seq(Operations) : SeqAfter(s, ops) \in Nat /\ s <= SeqAfter(s, ops)
SeqEmptyLaw ==
  \A s : SeqAfter(s, <<>>) = s
SeqAppendLaw ==
  \A s, ops, op : ops \in Seq(Operations) /\ op \in Operations =>
    SeqAfter(s, Append(ops, op)) = SeqStep(SeqAfter(s, ops), op)
SeqPrefixLaw ==
  \A s \in Nat, ops \in Seq(Operations) : \A i \in 0 .. Len(ops) :
    /\ SeqAfter(s, SubSeq(ops, 1, i)) \in Nat
    /\ s <= SeqAfter(s, SubSeq(ops, 1, i))
    /\ SeqAfter(s, SubSeq(ops, 1, i)) <= SeqAfter(s, ops)

\* A preflight that passes has passed every operation, on the tree that the
\* operations before it make.
AheadTypeLaw ==
  \A m \in Maps, s \in Nat, ops \in Seq(Operations) : Ahead(m, s, ops) \in Projections
AheadEmptyLaw ==
  \A m, s : Ahead(m, s, <<>>) = Start(m, s)
AheadPassesLaw ==
  \A m \in Maps, s \in Nat, ops \in Seq(Operations) : \A i \in 1 .. Len(ops) :
    Ahead(m, s, ops).verdict = "pass" =>
      LET a == Ahead(m, s, SubSeq(ops, 1, i - 1))
      IN  /\ a.verdict = "pass" /\ a.m \in Maps /\ a.s = SeqAfter(s, SubSeq(ops, 1, i - 1))
          /\ Verdict(a.m, ops[i]) = "pass"
          /\ Ahead(m, s, SubSeq(ops, 1, i)).verdict = "pass"
          /\ Ahead(m, s, SubSeq(ops, 1, i)).m = Projected(a.m, ops[i], a.s)
          /\ Ahead(m, s, SubSeq(ops, 1, i)).s = SeqStep(a.s, ops[i])
AheadElsewhereLaw ==
  \A m \in Maps, s \in Nat, k \in Keys, ops \in Seq(Operations) :
    (\A i \in 1 .. Len(ops) : k \notin KeysOf(ops[i])) => Ahead(m, s, ops).m[k] = m[k]

\* A record holds as many operations as its call took sequence numbers.
RecordTypeLaw ==
  \A s \in Nat, ops \in Seq(Operations) :
    /\ Record(ops, s) \in WalRecords /\ Record(ops, s).seq = s
    /\ s + Len(Record(ops, s).ops) = SeqAfter(s, ops)
RecordKeyedLaw ==
  \A s \in Nat, ops \in Seq(Keyed) : Record(ops, s) \in KeyedRecords

\* The log is replayed record by record.
ReplayRecordLaw ==
  \A m \in Maps, r \in WalRecords : ReplayRecord(m, r) \in Maps
ReplayTypeLaw ==
  \A m \in Maps, w \in Seq(WalRecords) : Replay(m, w) \in Maps
ReplayEmptyLaw ==
  \A m : Replay(m, <<>>) = m
ReplayAppendLaw ==
  \A m, w, r : w \in Seq(WalRecords) /\ r \in WalRecords =>
    Replay(m, Append(w, r)) = ReplayRecord(Replay(m, w), r)
NextSeqLaw ==
  \A w \in Seq(WalRecords) : NextSeqAfter(w) \in Nat

\* Replaying the record of a batch that passed its preflight gives the tree
\* the preflight projected, and that of a single operation what it did.
ReplayBatchLaw ==
  \A m \in Maps, s \in Nat, ops \in Seq(PlainOps) :
    Ahead(m, s, ops).verdict = "pass" => ReplayRecord(m, Record(ops, s)) = Ahead(m, s, ops).m
ReplaySingleLaw ==
  \A m \in Maps, s \in Nat, op \in Operations :
    op.kind \notin Asserts /\ (op.kind = "rename" => RenameVerdict(m, op) = "move") =>
      ReplayRecord(m, Record(<<op>>, s)) = Projected(m, op, s)

\* An image that is ahead of the point the log starts at, but not of its end,
\* is brought up to the same record as that point.
CatchUpLaw ==
  \A m, n \in Maps, v, w \in Seq(KeyedRecords), k \in Keys :
    n[k] = Replay(m, v)[k] => Replay(n, v \o w)[k] = Replay(m, v \o w)[k]

Laws ==
  /\ LeastLaw
  /\ SeqTypeLaw /\ SeqEmptyLaw /\ SeqAppendLaw /\ SeqPrefixLaw
  /\ AheadTypeLaw /\ AheadEmptyLaw /\ AheadPassesLaw /\ AheadElsewhereLaw
  /\ RecordTypeLaw /\ RecordKeyedLaw
  /\ ReplayRecordLaw /\ ReplayTypeLaw /\ ReplayEmptyLaw /\ ReplayAppendLaw
  /\ NextSeqLaw
  /\ ReplayBatchLaw /\ ReplaySingleLaw
  /\ CatchUpLaw
=============================================================================
