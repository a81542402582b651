---------------------------- MODULE TreeTheorems ----------------------------
(****************************************************************************)
(* The theorems about Tree, for any threads, keys, calls and bounds.        *)
(*                                                                          *)
(* The first parts prove the laws of TreeLaws by induction over batches and *)
(* logs: what a preflight that passes says of every operation, that         *)
(* replaying the record of a batch does what its preflight projected, and   *)
(* that replay catches up with an image that is ahead of the log's start.   *)
(* The last part applies them to the invariants of TreeProofs and           *)
(* TreeHistoryProofs.                                                       *)
(****************************************************************************)
EXTENDS TreeHistoryProofs, WellFoundedInduction

Pre == INSTANCE FoldProofs WITH Op <- PreflightStep
Num == INSTANCE FoldProofs WITH Op <- SeqStep
Enc == INSTANCE FoldProofs WITH Op <- EncodeStep
Rep == INSTANCE FoldProofs WITH Op <- ReplayOp
Log == INSTANCE FoldProofs WITH Op <- ReplayRecord
Nxt == INSTANCE FoldProofs WITH Op <- NextSeqStep

-----------------------------------------------------------------------------
(* Induction *)

\* A set of naturals that is not empty has a least element.  The library
\* states induction for a predicate P(_), which the provers cannot
\* instantiate; its theorem on least elements has no such parameter.
LEMMA LeastNatural ==
  ASSUME NEW S, S \subseteq Nat, S # {}
  PROVE  \E n \in S : \A m \in S : n <= m
<1> DEFINE R == OpToRel(<, Nat)
<1>1. IsWellFoundedOn(R, Nat)
  BY NatLessThanWellFounded, Zenon
<1>2. \A m, n \in Nat : m < n => <<m, n>> \in R
  BY Zenon DEF OpToRel
<1> HIDE DEF R
<1>3. PICK n \in S : \A m \in S : <<m, n>> \notin R
  BY <1>1, WFMin, Zenon
<1>4. n \in Nat /\ \A m \in S : m \in Nat /\ ~(m < n)
  BY <1>2, <1>3, Zenon
<1>5. \A m \in S : n <= m
  BY <1>4
<1> QED
  BY <1>5, Zenon

\* A set that has 0, and n + 1 with every n, has every natural number.
LEMMA NatSetInduction ==
  ASSUME NEW S, 0 \in S, \A n \in Nat : n \in S => n + 1 \in S
  PROVE  Nat \subseteq S
<1> SUFFICES ASSUME Nat \ S # {}
             PROVE  FALSE
  BY Zenon
<1>1. PICK n \in Nat \ S : \A m \in Nat \ S : n <= m
  <2> DEFINE D == Nat \ S
  <2>1. D \subseteq Nat /\ D # {}
    BY Zenon
  <2> HIDE DEF D
  <2>2. \E n \in D : \A m \in D : n <= m
    BY <2>1, LeastNatural, Zenon
  <2> QED
    BY <2>2, Zenon DEF D
<1>2. n # 0 /\ n - 1 \in Nat /\ ~(n <= n - 1) /\ (n - 1) + 1 = n
  BY <1>1
<1>3. n - 1 \in S
  BY <1>1, <1>2, Zenon
<1> QED
  BY <1>1, <1>2, <1>3, Zenon

\* A set that has <<>>, and s with one more element with every s, has every
\* sequence.
LEMMA SeqSetInduction ==
  ASSUME NEW E, NEW S,
         <<>> \in S,
         \A s \in Seq(E), e \in E : s \in S => Append(s, e) \in S
  PROVE  Seq(E) \subseteq S
<1> DEFINE Short == {n \in Nat : \A s \in Seq(E) : Len(s) = n => s \in S}
<1>1. 0 \in Short
  <2>1. \A s \in Seq(E) : Len(s) = 0 => s = <<>>
    OBVIOUS
  <2> QED
    BY <2>1, Zenon
<1>2. ASSUME NEW n \in Nat, n \in Short
      PROVE  n + 1 \in Short
  <2> SUFFICES ASSUME NEW s \in Seq(E), Len(s) = n + 1
               PROVE  s \in S
    OBVIOUS
  <2> DEFINE r == SubSeq(s, 1, n)
  <2>1. r \in Seq(E) /\ Len(r) = n /\ s[n + 1] \in E
    OBVIOUS
  <2>2. s = Append(r, s[n + 1])
    OBVIOUS
  <2>3. r \in S
    BY <1>2, <2>1, Zenon
  <2> QED
    BY <2>1, <2>2, <2>3, Zenon
<1> HIDE DEF Short
<1>3. Nat \subseteq Short
  BY <1>1, <1>2, NatSetInduction, Zenon
<1>4. ASSUME NEW s \in Seq(E)
      PROVE  s \in S
  <2>1. Len(s) \in Short
    BY <1>3
  <2> QED
    BY <2>1, Zenon DEF Short
<1> QED
  BY <1>4, Zenon

\* The lemmas on folding apply to the folds of Tree.
LEMMA Inductions ==
  /\ Pre!Induction /\ Num!Induction /\ Enc!Induction
  /\ Rep!Induction /\ Log!Induction /\ Nxt!Induction
<1>1. \A S : 0 \in S /\ (\A n \in Nat : n \in S => n + 1 \in S) => Nat \subseteq S
  BY NatSetInduction, Zenon
<1>2. \A E, S : <<>> \in S /\ (\A s \in Seq(E), e \in E : s \in S => Append(s, e) \in S)
        => Seq(E) \subseteq S
  BY SeqSetInduction, Zenon
<1> QED
  BY <1>1, <1>2, Zenon
     DEF Pre!Induction, Num!Induction, Enc!Induction, Rep!Induction, Log!Induction,
         Nxt!Induction

\* The folds of Tree are the ones the lemmas on folding are about.
LEMMA TreeFolds ==
  /\ \A m, s, ops : Ahead(m, s, ops) = Pre!Fold(Start(m, s), ops)
  /\ \A s, ops : SeqAfter(s, ops) = Num!Fold(s, ops)
  /\ \A ops, s : Record(ops, s) = Enc!Fold([seq |-> s, ops |-> <<>>], ops)
  /\ \A m, r : ReplayRecord(m, r) = Rep!Fold([m |-> m, s |-> r.seq], r.ops).m
  /\ \A m, w : Replay(m, w) = Log!Fold(m, w)
  /\ \A w : NextSeqAfter(w) = Nxt!Fold(1, w)
<1>1. \A m, s, ops : Ahead(m, s, ops) = Pre!Fold(Start(m, s), ops)
  BY Zenon DEF Ahead, Pre!Fold, FoldLeft
<1>2. \A s, ops : SeqAfter(s, ops) = Num!Fold(s, ops)
  BY Zenon DEF SeqAfter, Num!Fold, FoldLeft
<1>3. \A ops, s : Record(ops, s) = Enc!Fold([seq |-> s, ops |-> <<>>], ops)
  BY Zenon DEF Record, Enc!Fold, FoldLeft
<1>4. \A m, r : ReplayRecord(m, r) = Rep!Fold([m |-> m, s |-> r.seq], r.ops).m
  BY Zenon DEF ReplayRecord, Rep!Fold, FoldLeft
<1>5. \A m, w : Replay(m, w) = Log!Fold(m, w)
  BY Zenon DEF Replay, Log!Fold, FoldLeft
<1>6. \A w : NextSeqAfter(w) = Nxt!Fold(1, w)
  BY Zenon DEF NextSeqAfter, Nxt!Fold, FoldLeft
<1> QED
  BY <1>1, <1>2, <1>3, <1>4, <1>5, <1>6, Zenon

-----------------------------------------------------------------------------
(* One operation *)

\* Sequence numbers only go up.
LEMMA SeqStepType ==
  ASSUME NEW s \in Nat, NEW op
  PROVE  SeqStep(s, op) \in Nat /\ s <= SeqStep(s, op)
BY DEF SeqStep

\* The sequence numbers of a call are not below the one it starts at.
LEMMA SeqAfterType ==
  ASSUME NEW s \in Nat, NEW ops \in Seq(Operations)
  PROVE  SeqAfter(s, ops) \in Nat /\ s <= SeqAfter(s, ops)
<1> DEFINE T == {n \in Nat : s <= n}
<1>1. s \in T /\ \A n \in T, op \in Operations : SeqStep(n, op) \in T
  BY DEF SeqStep
<1> HIDE DEF T
<1>2. Num!Fold(s, ops) \in T
  BY Inductions, <1>1, Num!FoldType, Zenon
<1> QED
  BY <1>2, TreeFolds, Zenon DEF T

\* Projecting an operation keeps a map a map.
LEMMA ProjectedType ==
  ASSUME NEW m \in Maps, NEW op \in Operations, NEW s \in Nat
  PROVE  Projected(m, op, s) \in Maps /\ Verdict(m, op) \in {"pass", "error", "refuse"}
<1>1. op.key \in Keys /\ op.dst \in Keys
  BY Zenon DEF Operations
<1>2. Verdict(m, op) \in {"pass", "error", "refuse"}
  BY Zenon DEF Verdict
<1>3. Erased(m, op.key) \in Maps /\ m[op.key].val \in Nat
  BY <1>1, ErasedType, Zenon
<1>4. \A q \in Maps, v \in Nat : \A k \in Keys : Inserted(q, k, v, s) \in Maps
  BY InsertedType, Zenon
<1> QED
  BY <1>1, <1>2, <1>3, <1>4 DEF Projected

\* So does a step of preflight.
LEMMA PreflightStepType ==
  ASSUME NEW a \in Projections, NEW op \in Operations
  PROVE  PreflightStep(a, op) \in Projections
<1>1. /\ a.m \in Maps /\ a.s \in Nat /\ a.verdict \in {"pass", "error", "refuse"}
  BY Zenon DEF Projections
<1>2. /\ Projected(a.m, op, a.s) \in Maps
      /\ Verdict(a.m, op) \in {"pass", "error", "refuse"}
      /\ SeqStep(a.s, op) \in Nat
  BY <1>1, ProjectedType, SeqStepType, Zenon
<1> QED
  BY <1>2, Zenon DEF PreflightStep, Projections

\* And the whole preflight.
LEMMA AheadType ==
  ASSUME NEW m \in Maps, NEW s \in Nat, NEW ops \in Seq(Operations)
  PROVE  Ahead(m, s, ops) \in Projections
<1>1. Start(m, s) \in Projections
  BY Zenon DEF Start, Projections
<1>2. Pre!Fold(Start(m, s), ops) \in Projections
  BY Inductions, <1>1, PreflightStepType, Pre!FoldType
<1> QED
  BY <1>2, TreeFolds, Zenon

(* Batches *)

\* Preflight starts from the tree as it is.
LEMMA AheadEmpty ==
  ASSUME NEW m, NEW s
  PROVE  Ahead(m, s, <<>>) = Start(m, s)
BY TreeFolds, Pre!FoldEmpty

\* It looks at one operation after the other.
LEMMA AheadAppend ==
  ASSUME NEW m, NEW s, NEW ops \in Seq(Operations), NEW op \in Operations
  PROVE  Ahead(m, s, Append(ops, op)) = PreflightStep(Ahead(m, s, ops), op)
BY Inductions, TreeFolds, Pre!FoldAppend

\* The numbers preflight derives are the ones the walker calls derive.
LEMMA AheadSeq ==
  ASSUME NEW m \in Maps, NEW s \in Nat, NEW ops \in Seq(Operations)
  PROVE  Ahead(m, s, ops).verdict = "pass" => Ahead(m, s, ops).s = SeqAfter(s, ops)
<1> DEFINE S == {q \in Seq(Operations) :
                   Ahead(m, s, q).verdict = "pass"
                     => Ahead(m, s, q).s = Num!Fold(s, q)}
<1>1. <<>> \in S
  BY Inductions, AheadEmpty, Num!FoldEmpty DEF Start
<1>2. ASSUME NEW q \in Seq(Operations), NEW op \in Operations, q \in S
      PROVE  Append(q, op) \in S
  <2>1. /\ Ahead(m, s, Append(q, op)) = PreflightStep(Ahead(m, s, q), op)
        /\ Num!Fold(s, Append(q, op)) = SeqStep(Num!Fold(s, q), op)
        /\ Ahead(m, s, q) \in Projections
        /\ Append(q, op) \in Seq(Operations)
    BY Inductions, AheadAppend, Num!FoldAppend, AheadType
  <2> SUFFICES ASSUME Ahead(m, s, Append(q, op)).verdict = "pass"
               PROVE  Ahead(m, s, Append(q, op)).s = Num!Fold(s, Append(q, op))
    BY <2>1, Zenon
  <2>2. /\ Ahead(m, s, q).verdict = "pass"
        /\ Verdict(Ahead(m, s, q).m, op) = "pass"
    BY <2>1, Zenon DEF PreflightStep, Projections
  <2>3. Ahead(m, s, Append(q, op)).s = SeqStep(Ahead(m, s, q).s, op)
    BY <2>1, <2>2 DEF PreflightStep
  <2> QED
    BY <1>2, <2>1, <2>2, <2>3, Zenon
<1> HIDE DEF S
<1>3. Seq(Operations) \subseteq S
  BY <1>1, <1>2, SeqSetInduction, Zenon
<1> QED
  BY <1>3, TreeFolds, Zenon DEF S

\* A preflight that has failed stays failed.
LEMMA FailureStays ==
  ASSUME NEW a \in Projections, a.verdict # "pass", NEW ops \in Seq(Operations)
  PROVE  Pre!Fold(a, ops).verdict # "pass"
<1> DEFINE T == {b \in Projections : b.verdict # "pass"}
<1>1. a \in T /\ \A b \in T, op \in Operations : PreflightStep(b, op) \in T
  BY Zenon DEF PreflightStep
<1> HIDE DEF T
<1>2. Pre!Fold(a, ops) \in T
  BY Inductions, <1>1, Pre!FoldType, Zenon
<1> QED
  BY <1>2, Zenon DEF T

\* A preflight that passes has passed every operation, on the tree that the
\* operations before it make.
LEMMA AheadPasses ==
  ASSUME NEW m \in Maps, NEW s \in Nat, NEW ops \in Seq(Operations),
         Ahead(m, s, ops).verdict = "pass", NEW i \in 1 .. Len(ops)
  PROVE  LET a == Ahead(m, s, SubSeq(ops, 1, i - 1))
         IN  /\ a.verdict = "pass" /\ a.m \in Maps /\ a.s = SeqAfter(s, SubSeq(ops, 1, i - 1))
             /\ Verdict(a.m, ops[i]) = "pass"
             /\ Ahead(m, s, SubSeq(ops, 1, i)).verdict = "pass"
             /\ Ahead(m, s, SubSeq(ops, 1, i)).m = Projected(a.m, ops[i], a.s)
             /\ Ahead(m, s, SubSeq(ops, 1, i)).s = SeqStep(a.s, ops[i])
<1> DEFINE p == SubSeq(ops, 1, i - 1)
           q == SubSeq(ops, 1, i)
           r == SubSeq(ops, i + 1, Len(ops))
           a == Ahead(m, s, p)
           b == Ahead(m, s, q)
<1>1. /\ p \in Seq(Operations) /\ q \in Seq(Operations) /\ r \in Seq(Operations)
      /\ ops[i] \in Operations
  OBVIOUS
<1>2. q = Append(p, ops[i]) /\ ops = q \o r
  OBVIOUS
<1> HIDE DEF p, q, r
<1>3. a \in Projections /\ b \in Projections
  BY <1>1, AheadType, Zenon
<1>4. b = PreflightStep(a, ops[i])
  BY <1>1, <1>2, AheadAppend
<1>5. Ahead(m, s, ops) = Pre!Fold(b, r)
  <2>1. \A x, y \in Seq(Operations) :
          Pre!Fold(Start(m, s), x \o y) = Pre!Fold(Pre!Fold(Start(m, s), x), y)
    BY Inductions, Pre!FoldConcat
  <2>2. Pre!Fold(Start(m, s), q \o r) = Pre!Fold(Pre!Fold(Start(m, s), q), r)
    BY <1>1, <2>1, Zenon
  <2> QED
    BY <1>2, <2>2, TreeFolds
<1> HIDE DEF a, b
<1>6. b.verdict = "pass"
  BY <1>1, <1>3, <1>5, FailureStays, Zenon
<1>7. a.verdict = "pass" /\ Verdict(a.m, ops[i]) = "pass"
  BY <1>3, <1>4, <1>6, Zenon DEF PreflightStep, Projections
<1>8. b.m = Projected(a.m, ops[i], a.s) /\ b.s = SeqStep(a.s, ops[i])
  BY <1>4, <1>7, Zenon DEF PreflightStep
<1>9. a.m \in Maps /\ a.s = SeqAfter(s, p)
  BY <1>1, <1>3, <1>7, AheadSeq DEF a, Projections
<1> QED
  BY <1>6, <1>7, <1>8, <1>9, Zenon DEF a, b, p, q

\* What an operation logs is an operation of the log.
LEMMA EncodedType ==
  ASSUME NEW op \in Operations, EmitsWal(op), NEW s \in Nat
  PROVE  Encoded(op, s) \in WalOps
<1>1. /\ op.key \in Keys /\ op.dst \in Keys /\ op.force \in BOOLEAN
      /\ op.kind \in Inserts \/ op.kind \in Erases \/ op.kind = "rename"
  BY Zenon DEF Operations, EmitsWal, Asserts
<1>2. CASE op.kind \in Inserts
  BY <1>1, <1>2, Zenon DEF Encoded, WalOps
<1>3. CASE op.kind \in Erases
  BY <1>1, <1>3, Zenon DEF Encoded, WalOps, Inserts, Erases
<1>4. CASE op.kind = "rename"
  BY <1>1, <1>4, Zenon DEF Encoded, WalOps, Inserts, Erases
<1> QED
  BY <1>1, <1>2, <1>3, <1>4

\* A record is encoded operation by operation.
LEMMA RecordEmpty ==
  ASSUME NEW s
  PROVE  Record(<<>>, s) = [seq |-> s, ops |-> <<>>]
BY Inductions, TreeFolds, Enc!FoldEmpty, Zenon

\* An operation adds what it logs to the record.
LEMMA RecordAppend ==
  ASSUME NEW s, NEW ops \in Seq(Operations), NEW op \in Operations
  PROVE  Record(Append(ops, op), s) = EncodeStep(Record(ops, s), op)
<1>1. \A b : Enc!Fold(b, Append(ops, op)) = EncodeStep(Enc!Fold(b, ops), op)
  BY Inductions, Enc!FoldAppend
<1> QED
  BY <1>1, TreeFolds, Zenon

\* Sequence numbers are counted operation by operation.
LEMMA SeqAfterAppend ==
  ASSUME NEW s, NEW ops \in Seq(Operations), NEW op \in Operations
  PROVE  SeqAfter(s, <<>>) = s /\ SeqAfter(s, Append(ops, op)) = SeqStep(SeqAfter(s, ops), op)
BY Inductions, TreeFolds, Num!FoldEmpty, Num!FoldAppend

\* A record holds as many operations as the call took sequence numbers.
LEMMA RecordType ==
  ASSUME NEW s \in Nat, NEW ops \in Seq(Operations)
  PROVE  /\ Record(ops, s) \in WalRecords /\ Record(ops, s).seq = s
         /\ s + Len(Record(ops, s).ops) = SeqAfter(s, ops)
<1> DEFINE Good(q) == /\ Record(q, s) \in WalRecords /\ Record(q, s).seq = s
                      /\ s + Len(Record(q, s).ops) = SeqAfter(s, q)
           S == {q \in Seq(Operations) : Good(q)}
<1>1. <<>> \in S
  <2>1. SeqAfter(s, <<>>) = s
    BY Inductions, TreeFolds, Num!FoldEmpty
  <2>2. <<>> \in Seq(WalOps) /\ <<>> \in Seq(Operations) /\ Len(<<>>) = 0
    OBVIOUS
  <2>3. [seq |-> s, ops |-> <<>>] \in WalRecords
    BY <2>2, Zenon DEF WalRecords
  <2>4. Good(<<>>)
    BY <2>1, <2>2, <2>3, RecordEmpty
  <2> QED
    BY <2>2, <2>4, Zenon
<1>2. ASSUME NEW q \in Seq(Operations), NEW op \in Operations, q \in S
      PROVE  Append(q, op) \in S
  <2> DEFINE r == Record(q, s)
  <2>1. /\ Record(Append(q, op), s) = EncodeStep(r, op)
        /\ SeqAfter(s, Append(q, op)) = SeqStep(SeqAfter(s, q), op)
        /\ Append(q, op) \in Seq(Operations)
    BY RecordAppend, SeqAfterAppend
  <2>2. r \in WalRecords /\ r.seq = s /\ s + Len(r.ops) = SeqAfter(s, q)
    BY <1>2, Zenon
  <2> HIDE DEF r
  <2>3. CASE ~EmitsWal(op)
    BY <2>1, <2>2, <2>3, Zenon DEF EncodeStep, SeqStep
  <2>4. CASE EmitsWal(op)
    <3> DEFINE e == Encoded(op, r.seq + Len(r.ops))
    <3>1. /\ r.ops \in Seq(WalOps) /\ Len(r.ops) \in Nat /\ r.seq + Len(r.ops) \in Nat
          /\ r = [seq |-> r.seq, ops |-> r.ops]
      BY <2>2 DEF WalRecords
    <3>2. e \in WalOps
      BY <2>4, <3>1, EncodedType, Zenon
    <3> HIDE DEF e
    <3>3. EncodeStep(r, op) = [seq |-> r.seq, ops |-> Append(r.ops, e)]
      BY <2>4, <3>1, Zenon DEF EncodeStep, e
    <3>4. Append(r.ops, e) \in Seq(WalOps) /\ Len(Append(r.ops, e)) = Len(r.ops) + 1
      BY <3>1, <3>2
    <3>5. SeqStep(SeqAfter(s, q), op) = SeqAfter(s, q) + 1
      BY <2>4, Zenon DEF SeqStep
    <3>6. s + (Len(r.ops) + 1) = SeqAfter(s, q) + 1
      BY <2>2, <3>1
    <3>7. [seq |-> r.seq, ops |-> Append(r.ops, e)] \in WalRecords
      BY <2>2, <3>4, Zenon DEF WalRecords
    <3>8. Good(Append(q, op))
      BY <2>1, <2>2, <3>3, <3>4, <3>5, <3>6, <3>7
    <3> QED
      BY <2>1, <3>8, Zenon
  <2> QED
    BY <2>3, <2>4, Zenon
<1> HIDE DEF S
<1>3. Seq(Operations) \subseteq S
  BY <1>1, <1>2, SeqSetInduction, Zenon
<1> QED
  BY <1>3, Zenon DEF S

\* Replaying an operation that went through does what it did.
LEMMA ReplayOpIsProjected ==
  ASSUME NEW m \in Maps, NEW op \in Operations, EmitsWal(op), NEW s \in Nat,
         op.kind = "rename" => /\ RenameVerdict(m, op) # "error"
                               /\ op.key = op.dst => ~op.force
  PROVE  ReplayOp([m |-> m, s |-> s], Encoded(op, s))
           = [m |-> Projected(m, op, s), s |-> s + 1]
<1>1. /\ op.key \in Keys /\ op.dst \in Keys /\ op.force \in BOOLEAN
      /\ op.kind \in Inserts \/ op.kind \in Erases \/ op.kind = "rename"
  BY Zenon DEF Operations, EmitsWal, Asserts
<1>2. CASE op.kind \in Inserts
  <2>1. /\ Encoded(op, s) = [kind |-> "insert", key |-> op.key, val |-> s]
        /\ Projected(m, op, s) = Inserted(m, op.key, s, s)
    BY <1>2, Zenon DEF Encoded, Projected, Inserts, Erases
  <2> QED
    BY <2>1 DEF ReplayOp
<1>3. CASE op.kind \in Erases
  <2>1. /\ Encoded(op, s) = [kind |-> "erase", key |-> op.key]
        /\ Projected(m, op, s) = Erased(m, op.key)
    BY <1>3, Zenon DEF Encoded, Projected, Inserts, Erases
  <2> QED
    BY <2>1 DEF ReplayOp
<1>4. CASE op.kind = "rename"
  <2>1. /\ Encoded(op, s) = [kind |-> "rename", key |-> op.key, dst |-> op.dst,
                             force |-> op.force]
        /\ Projected(m, op, s) =
             IF op.key = op.dst THEN m
             ELSE Inserted(Erased(m, op.key), op.dst, m[op.key].val, s)
    BY <1>4, Zenon DEF Encoded, Projected, Inserts, Erases
  <2>2. /\ Live(m, op.key)
        /\ op.key = op.dst \/ op.force \/ ~Live(m, op.dst)
        /\ op.key = op.dst => ~op.force
    <3>1. RenameVerdict(m, op) # "error" /\ (op.key = op.dst => ~op.force)
      BY <1>4, Zenon
    <3> QED
      BY <1>1, <3>1, Zenon DEF RenameVerdict, Live
  <2> QED
    BY <1>1, <1>4, <2>1, <2>2 DEF ReplayOp
<1> QED
  BY <1>1, <1>2, <1>3, <1>4

\* Replaying the record of a batch that passed its preflight gives the tree
\* that the preflight projected.
LEMMA ReplayBatch ==
  ASSUME NEW m \in Maps, NEW s \in Nat, NEW ops \in Seq(PlainOps),
         Ahead(m, s, ops).verdict = "pass"
  PROVE  ReplayRecord(m, Record(ops, s)) = Ahead(m, s, ops).m
<1> DEFINE Done(q) == Rep!Fold([m |-> m, s |-> s], Record(q, s).ops)
           S == {q \in Seq(PlainOps) :
                   Ahead(m, s, q).verdict = "pass"
                     => Done(q) = [m |-> Ahead(m, s, q).m, s |-> SeqAfter(s, q)]}
<1>0. PlainOps \subseteq Operations /\ \A q \in Seq(PlainOps) : q \in Seq(Operations)
  BY DEF PlainOps
<1>1. <<>> \in S
  <2>1. <<>> \in Seq(PlainOps)
    OBVIOUS
  <2>2. Done(<<>>) = [m |-> m, s |-> s]
    BY Inductions, RecordEmpty, Rep!FoldEmpty
  <2>3. SeqAfter(s, <<>>) = s /\ Ahead(m, s, <<>>).m = m
    BY Inductions, TreeFolds, Num!FoldEmpty, AheadEmpty DEF Start
  <2> QED
    BY <2>1, <2>2, <2>3, Zenon
<1>2. ASSUME NEW q \in Seq(PlainOps), NEW op \in PlainOps, q \in S
      PROVE  Append(q, op) \in S
  <2> DEFINE r == Record(q, s)
             a == Ahead(m, s, q)
             n == SeqAfter(s, q)
  <2>1. q \in Seq(Operations) /\ op \in Operations /\ Append(q, op) \in Seq(PlainOps)
    BY <1>0
  <2>2. /\ Record(Append(q, op), s) = EncodeStep(r, op)
        /\ Ahead(m, s, Append(q, op)) = PreflightStep(a, op)
        /\ SeqAfter(s, Append(q, op)) = SeqStep(n, op)
    BY <2>1, RecordAppend, SeqAfterAppend, AheadAppend, Zenon
  <2>3. /\ r \in WalRecords /\ r.seq = s /\ s + Len(r.ops) = n
        /\ a \in Projections /\ n \in Nat
    BY <2>1, RecordType, AheadType, SeqAfterType, Zenon
  <2> SUFFICES ASSUME Ahead(m, s, Append(q, op)).verdict = "pass"
               PROVE  Done(Append(q, op))
                        = [m |-> Ahead(m, s, Append(q, op)).m,
                           s |-> SeqAfter(s, Append(q, op))]
    BY <2>1, Zenon
  <2>4. a.verdict = "pass" /\ Verdict(a.m, op) = "pass"
    BY <2>2, <2>3, Zenon DEF PreflightStep, Projections
  <2>5. Done(q) = [m |-> a.m, s |-> n] /\ a.s = n
    BY <1>2, <2>1, <2>4, AheadSeq
  <2>6. Ahead(m, s, Append(q, op)).m = Projected(a.m, op, n)
    BY <2>2, <2>4, <2>5 DEF PreflightStep
  <2> HIDE DEF r, a, n
  <2>7. a.m \in Maps
    BY <2>3, Zenon DEF Projections
  <2>8. CASE ~EmitsWal(op)
    <3>1. EncodeStep(r, op) = r /\ SeqStep(n, op) = n
      BY <2>8, Zenon DEF EncodeStep, SeqStep
    <3>2. Projected(a.m, op, n) = a.m
      BY <2>8, Zenon DEF Projected, EmitsWal, Asserts, Inserts, Erases
    <3> QED
      BY <2>2, <2>5, <2>6, <3>1, <3>2, Zenon DEF r
  <2>9. CASE EmitsWal(op)
    <3> DEFINE e == Encoded(op, n)
    <3>1. EncodeStep(r, op).ops = Append(r.ops, e)
      BY <2>3, <2>9, Zenon DEF EncodeStep, WalRecords
    <3>2. SeqStep(n, op) = n + 1
      BY <2>9, Zenon DEF SeqStep
    <3>3. e \in WalOps /\ r.ops \in Seq(WalOps)
      BY <2>1, <2>3, <2>9, EncodedType, Zenon DEF WalRecords
    <3>4. Rep!Fold([m |-> m, s |-> s], Append(r.ops, e))
            = ReplayOp(Rep!Fold([m |-> m, s |-> s], r.ops), e)
      <4> HIDE DEF e
      <4>1. \A b : \A x \in Seq(WalOps), y \in WalOps :
              Rep!Fold(b, Append(x, y)) = ReplayOp(Rep!Fold(b, x), y)
        BY Inductions, Rep!FoldAppend, Zenon
      <4> QED
        BY <3>3, <4>1, Zenon
    <3>5. ReplayOp([m |-> a.m, s |-> n], e) = [m |-> Projected(a.m, op, n), s |-> n + 1]
      <4>1. op.kind = "rename" => /\ RenameVerdict(a.m, op) # "error"
                                  /\ op.key = op.dst => ~op.force
        BY <2>4, Zenon DEF Verdict, PlainOps
      <4> QED
        BY <2>1, <2>3, <2>7, <2>9, <4>1, ReplayOpIsProjected, Zenon
    <3> QED
      BY <2>2, <2>5, <2>6, <3>1, <3>2, <3>4, <3>5, Zenon DEF r
  <2> QED
    BY <2>8, <2>9, Zenon
<1> HIDE DEF S
<1>3. Seq(PlainOps) \subseteq S
  BY <1>1, <1>2, SeqSetInduction, Zenon
<1>4. Record(ops, s).seq = s
  BY <1>0, RecordType, Zenon
<1>5. Done(ops).m = Ahead(m, s, ops).m
  <2>1. ops \in S
    BY <1>3, Zenon
  <2>2. Done(ops) = [m |-> Ahead(m, s, ops).m, s |-> SeqAfter(s, ops)]
    BY <2>1, Zenon DEF S
  <2> QED
    BY <2>2
<1>6. ReplayRecord(m, Record(ops, s)) = Done(ops).m
  BY <1>4, TreeFolds, Zenon
<1> QED
  BY <1>5, <1>6, Zenon

(* The log *)

\* Replaying a record keeps a map a map.
LEMMA ReplayRecordType ==
  ASSUME NEW m \in Maps, NEW r \in WalRecords
  PROVE  ReplayRecord(m, r) \in Maps
<1> DEFINE T == [m : Maps, s : Nat]
<1>1. [m |-> m, s |-> r.seq] \in T /\ r.ops \in Seq(WalOps)
  BY Zenon DEF WalRecords
<1>2. ASSUME NEW a \in T, NEW o \in WalOps
      PROVE  ReplayOp(a, o) \in T
  <2>1. a.m \in Maps /\ a.s \in Nat /\ o.key \in Keys
    BY Zenon DEF WalOps
  <2>2. \A q \in Maps, k \in Keys, v \in Nat :
          Inserted(q, k, v, a.s) \in Maps /\ Erased(q, k) \in Maps /\ q[k].val \in Nat
    BY <2>1, InsertedType, ErasedType, Zenon
  <2>3. CASE o.kind = "insert"
    <3>1. o.val \in Nat
      BY <2>3, Zenon DEF WalOps
    <3>2. ReplayOp(a, o) = [m |-> Inserted(a.m, o.key, o.val, a.s), s |-> a.s + 1]
      BY <2>3, Zenon DEF ReplayOp
    <3> QED
      BY <2>1, <2>2, <3>1, <3>2
  <2>4. CASE o.kind = "erase"
    <3>1. ReplayOp(a, o) = [m |-> Erased(a.m, o.key), s |-> a.s + 1]
      BY <2>4, Zenon DEF ReplayOp
    <3> QED
      BY <2>1, <2>2, <3>1
  <2>5. CASE o.kind = "rename"
    <3>1. o.dst \in Keys
      BY <2>5, Zenon DEF WalOps
    <3> DEFINE q == Inserted(Erased(a.m, o.key), o.dst, a.m[o.key].val, a.s)
    <3>2. q \in Maps
      BY <2>1, <2>2, <3>1
    <3> HIDE DEF q
    <3>3. \/ ReplayOp(a, o) = [m |-> a.m, s |-> a.s + 1]
          \/ ReplayOp(a, o) = [m |-> q, s |-> a.s + 1]
      BY <2>5, Zenon DEF ReplayOp, q
    <3> QED
      BY <2>1, <3>2, <3>3
  <2>6. o.kind \in {"insert", "erase", "rename"}
    BY Zenon DEF WalOps
  <2> QED
    BY <2>3, <2>4, <2>5, <2>6
<1> HIDE DEF T
<1>3. Rep!Fold([m |-> m, s |-> r.seq], r.ops) \in T
  BY Inductions, <1>1, <1>2, Rep!FoldType
<1> QED
  BY <1>3, TreeFolds, Zenon DEF T

\* So does replaying the log.
LEMMA ReplayType ==
  ASSUME NEW m \in Maps, NEW w \in Seq(WalRecords)
  PROVE  Replay(m, w) \in Maps
BY Inductions, ReplayRecordType, Log!FoldType, TreeFolds

\* The log is replayed record by record.
LEMMA ReplayAppend ==
  ASSUME NEW m, NEW w \in Seq(WalRecords), NEW r \in WalRecords
  PROVE  Replay(m, Append(w, r)) = ReplayRecord(Replay(m, w), r)
BY Inductions, Log!FoldAppend, TreeFolds

\* An empty log leaves the tree as it is.
LEMMA ReplayEmpty ==
  ASSUME NEW m
  PROVE  Replay(m, <<>>) = m
BY Inductions, Log!FoldEmpty, TreeFolds

\* The number the tree goes on with after it is opened again.
LEMMA NextSeqType ==
  ASSUME NEW w \in Seq(WalRecords)
  PROVE  NextSeqAfter(w) \in Nat
<1>1. \A n \in Nat, r \in WalRecords : NextSeqStep(n, r) \in Nat
  BY DEF NextSeqStep, WalRecords
<1>2. Nxt!Fold(1, w) \in Nat
  BY Inductions, <1>1, Nxt!FoldType, Zenon
<1> QED
  BY <1>2, TreeFolds, Zenon

\* Replaying the record of a single operation that went through does what the
\* operation did.
LEMMA ReplaySingle ==
  ASSUME NEW m \in Maps, NEW s \in Nat, NEW op \in Operations, op.kind \notin Asserts,
         op.kind = "rename" => RenameVerdict(m, op) = "move"
  PROVE  ReplayRecord(m, Record(<<op>>, s)) = Projected(m, op, s)
<1>1. EmitsWal(op)
  BY Zenon DEF EmitsWal
<1> DEFINE e == Encoded(op, s)
<1>2. Record(<<op>>, s) = [seq |-> s, ops |-> <<e>>]
  <2>1. <<>> \in Seq(Operations) /\ Append(<<>>, op) = <<op>>
    OBVIOUS
  <2>2. \A q \in Seq(Operations) : Record(Append(q, op), s) = EncodeStep(Record(q, s), op)
    BY RecordAppend, Zenon
  <2>3. Record(<<op>>, s) = EncodeStep([seq |-> s, ops |-> <<>>], op)
    BY <2>1, <2>2, RecordEmpty, Zenon
  <2>4. s + Len(<<>>) = s
    OBVIOUS
  <2>5. EncodeStep([seq |-> s, ops |-> <<>>], op) = [seq |-> s, ops |-> Append(<<>>, e)]
    BY <1>1, <2>4, Zenon DEF EncodeStep
  <2> HIDE DEF e
  <2> QED
    BY <2>3, <2>5
<1>3. e \in WalOps
  BY <1>1, EncodedType, Zenon
<1> HIDE DEF e
<1>4. Rep!Fold([m |-> m, s |-> s], <<e>>) = ReplayOp([m |-> m, s |-> s], e)
  <2>1. <<>> \in Seq(WalOps) /\ Append(<<>>, e) = <<e>>
    OBVIOUS
  <2>2. \A b : Rep!Fold(b, Append(<<>>, e)) = ReplayOp(Rep!Fold(b, <<>>), e)
    <3>1. \A b, x : x \in Seq(WalOps) =>
            Rep!Fold(b, Append(x, e)) = ReplayOp(Rep!Fold(b, x), e)
      BY <1>3, Inductions, Rep!FoldAppend
    <3> QED
      BY <2>1, <3>1, Zenon
  <2>3. \A b : Rep!Fold(b, <<>>) = b
    BY Inductions, Rep!FoldEmpty, Zenon
  <2>4. \A b : Rep!Fold(b, <<e>>) = ReplayOp(b, e)
    BY <2>1, <2>2, <2>3, Zenon
  <2> QED
    BY <2>4, Zenon
<1>5. op.kind = "rename" => RenameVerdict(m, op) # "error" /\ op.key # op.dst
  BY Zenon DEF RenameVerdict
<1>6. ReplayOp([m |-> m, s |-> s], e).m = Projected(m, op, s)
  <2>1. ReplayOp([m |-> m, s |-> s], e) = [m |-> Projected(m, op, s), s |-> s + 1]
    BY <1>1, <1>5, ReplayOpIsProjected, Zenon DEF e
  <2> QED
    BY <2>1
<1> QED
  BY <1>2, <1>4, <1>6, TreeFolds

\* Preflight projects nothing onto the keys no operation names.
LEMMA AheadElsewhere ==
  ASSUME NEW m \in Maps, NEW s \in Nat, NEW k \in Keys, NEW ops \in Seq(Operations),
         \A i \in 1 .. Len(ops) : k \notin KeysOf(ops[i])
  PROVE  Ahead(m, s, ops).m[k] = m[k]
<1> DEFINE T == {a \in Projections : a.m[k] = m[k]}
           E == {op \in Operations : k \notin KeysOf(op)}
<1>1. Start(m, s) \in T
  BY Zenon DEF Start, Projections
<1>2. ops \in Seq(E)
  OBVIOUS
<1>3. ASSUME NEW a \in T, NEW op \in E
      PROVE  PreflightStep(a, op) \in T
  <2>1. a \in Projections /\ a.m \in Maps /\ a.m[k] = m[k] /\ op \in Operations
    BY Zenon DEF Projections
  <2>2. PreflightStep(a, op) \in Projections
    BY <2>1, PreflightStepType, Zenon
  <2>3. Projected(a.m, op, a.s)[k] = a.m[k]
    BY <2>1, ProjectedElsewhere
  <2>4. PreflightStep(a, op).m \in {a.m, Projected(a.m, op, a.s)}
    BY <2>1, Zenon DEF PreflightStep, Projections
  <2> QED
    BY <2>1, <2>2, <2>3, <2>4, Zenon
<1> HIDE DEF T, E
<1>4. Pre!Fold(Start(m, s), ops) \in T
  BY <1>1, <1>2, <1>3, Inductions, Pre!FoldType
<1> QED
  BY <1>4, TreeFolds DEF T

\* A prefix of a call takes no more numbers than the call.
LEMMA SeqAfterPrefix ==
  ASSUME NEW s \in Nat, NEW ops \in Seq(Operations), NEW i \in 0 .. Len(ops)
  PROVE  /\ SeqAfter(s, SubSeq(ops, 1, i)) \in Nat
         /\ s <= SeqAfter(s, SubSeq(ops, 1, i))
         /\ SeqAfter(s, SubSeq(ops, 1, i)) <= SeqAfter(s, ops)
<1> DEFINE p == SubSeq(ops, 1, i)
           q == SubSeq(ops, i + 1, Len(ops))
<1>1. p \in Seq(Operations) /\ q \in Seq(Operations) /\ ops = p \o q
  <2>1. p \in Seq(Operations) /\ q \in Seq(Operations)
    OBVIOUS
  <2>2. ASSUME i \in 1 .. Len(ops)
        PROVE  ops = p \o q
    BY <2>2
  <2>3. ASSUME i = 0
        PROVE  ops = p \o q
    <3>1. p = <<>> /\ q = ops
      BY <2>3
    <3>2. <<>> \o ops = ops
      OBVIOUS
    <3> QED
      BY <3>1, <3>2, Zenon
  <2>4. i = 0 \/ i \in 1 .. Len(ops)
    OBVIOUS
  <2> QED
    BY <2>1, <2>2, <2>3, <2>4, Zenon
<1> HIDE DEF p, q
<1>2. SeqAfter(s, p) \in Nat /\ s <= SeqAfter(s, p)
  BY <1>1, SeqAfterType, Zenon
<1>3. Num!Fold(s, p \o q) = Num!Fold(Num!Fold(s, p), q)
  BY <1>1, Inductions, Num!FoldConcat
<1>4. SeqAfter(s, ops) = SeqAfter(SeqAfter(s, p), q)
  BY <1>1, <1>3, TreeFolds, Zenon
<1>5. SeqAfter(s, p) <= SeqAfter(SeqAfter(s, p), q)
  BY <1>1, <1>2, SeqAfterType
<1> QED
  BY <1>2, <1>4, <1>5 DEF p

\* Replaying a log leaves the record of a key alone, or overwrites it.
Leaves(w, k) == \A m \in Maps : Replay(m, w)[k] = m[k]

Overwrites(w, k) == \A m, n \in Maps : Replay(m, w)[k] = Replay(n, w)[k]

\* Replaying one operation overwrites its key and leaves the others alone.
LEMMA ReplayOpAt ==
  ASSUME NEW m \in Maps, NEW s \in Nat, NEW o \in KeyedOps, NEW k \in Keys
  PROVE  LET a == ReplayOp([m |-> m, s |-> s], o)
         IN  /\ a.m \in Maps /\ a.s = s + 1
             /\ k # o.key => a.m[k] = m[k]
             /\ k = o.key => a.m[k] = IF o.kind = "insert" THEN [val |-> o.val, ver |-> s]
                                      ELSE Absent
<1>1. CASE o.kind = "insert"
  <2>1. o.key \in Keys /\ o.val \in Nat
    BY <1>1, Zenon DEF KeyedOps
  <2>2. ReplayOp([m |-> m, s |-> s], o) = [m |-> Inserted(m, o.key, o.val, s), s |-> s + 1]
    BY <1>1, Zenon DEF ReplayOp
  <2>3. Inserted(m, o.key, o.val, s) \in Maps
    BY <2>1, InsertedType, ErasedType, Zenon
  <2>4. Inserted(m, o.key, o.val, s)[k]
          = IF k = o.key THEN [val |-> o.val, ver |-> s] ELSE m[k]
    BY <2>1, Zenon DEF Inserted, Maps
  <2> QED
    BY <1>1, <2>2, <2>3, <2>4
<1>2. CASE o.kind = "erase"
  <2>1. o.key \in Keys
    BY <1>2, Zenon DEF KeyedOps
  <2>2. ReplayOp([m |-> m, s |-> s], o) = [m |-> Erased(m, o.key), s |-> s + 1]
    BY <1>2, Zenon DEF ReplayOp
  <2>3. Erased(m, o.key) \in Maps /\ Erased(m, o.key)[k] = IF k = o.key THEN Absent ELSE m[k]
    BY <2>1, Zenon DEF Erased, Maps, Records, Absent
  <2> QED
    BY <1>2, <2>2, <2>3
<1> QED
  BY <1>1, <1>2, Zenon DEF KeyedOps

\* So does replaying a record ...
LEMMA ReplayRecordAt ==
  ASSUME NEW r \in KeyedRecords, NEW k \in Keys
  PROVE  \/ \A m \in Maps : ReplayRecord(m, r)[k] = m[k]
         \/ \A m, n \in Maps : ReplayRecord(m, r)[k] = ReplayRecord(n, r)[k]
<1> DEFINE F(m, q) == Rep!Fold([m |-> m, s |-> r.seq], q)
           S == {q \in Seq(KeyedOps) :
                   /\ \A m \in Maps : /\ F(m, q).m \in Maps
                                      /\ F(m, q) = [m |-> F(m, q).m, s |-> r.seq + Len(q)]
                   /\ \/ \A m \in Maps : F(m, q).m[k] = m[k]
                      \/ \A m, n \in Maps : F(m, q).m[k] = F(n, q).m[k]}
<1>0. r.seq \in Nat /\ r.ops \in Seq(KeyedOps)
  BY Zenon DEF KeyedRecords
<1>1. <<>> \in S
  <2>1. <<>> \in Seq(KeyedOps) /\ r.seq + Len(<<>>) = r.seq
    BY <1>0
  <2>2. \A m : F(m, <<>>) = [m |-> m, s |-> r.seq]
    BY Inductions, Rep!FoldEmpty, Zenon
  <2> HIDE DEF F
  <2> QED
    BY <2>1, <2>2
<1>2. ASSUME NEW q \in Seq(KeyedOps), NEW o \in KeyedOps, q \in S
      PROVE  Append(q, o) \in S
  <2> DEFINE s == r.seq + Len(q)
  <2>1. \A m : F(m, Append(q, o)) = ReplayOp(F(m, q), o)
    <3>1. \A b : Rep!Fold(b, Append(q, o)) = ReplayOp(Rep!Fold(b, q), o)
      BY Inductions, Rep!FoldAppend
    <3> QED
      BY <3>1, Zenon
  <2>2. s \in Nat /\ s + 1 = r.seq + Len(Append(q, o)) /\ Append(q, o) \in Seq(KeyedOps)
    BY <1>0
  <2> HIDE DEF F
  <2>3. /\ \A m \in Maps : F(m, q).m \in Maps /\ F(m, q) = [m |-> F(m, q).m, s |-> s]
        /\ \/ \A m \in Maps : F(m, q).m[k] = m[k]
           \/ \A m, n \in Maps : F(m, q).m[k] = F(n, q).m[k]
    BY <1>2, Zenon
  <2> HIDE DEF s
  <2> DEFINE G(m) == F(m, Append(q, o))
  <2>4. ASSUME NEW m \in Maps
        PROVE  /\ G(m).m \in Maps /\ G(m) = [m |-> G(m).m, s |-> s + 1]
               /\ k # o.key => G(m).m[k] = F(m, q).m[k]
               /\ k = o.key => G(m).m[k] = IF o.kind = "insert" THEN [val |-> o.val, ver |-> s]
                                           ELSE Absent
    <3>1. G(m) = ReplayOp([m |-> F(m, q).m, s |-> s], o)
      BY <2>1, <2>3, Zenon
    <3>2. \A x : ReplayOp(x, o) = [m |-> ReplayOp(x, o).m, s |-> ReplayOp(x, o).s]
      BY Zenon DEF ReplayOp
    <3> HIDE DEF G
    <3>3. F(m, q).m \in Maps
      BY <2>3, Zenon
    <3>4. /\ G(m).m \in Maps /\ G(m).s = s + 1
          /\ k # o.key => G(m).m[k] = F(m, q).m[k]
          /\ k = o.key => G(m).m[k] = IF o.kind = "insert" THEN [val |-> o.val, ver |-> s]
                                      ELSE Absent
      BY <2>2, <3>1, <3>3, ReplayOpAt
    <3> QED
      BY <3>1, <3>2, <3>4
  <2> HIDE DEF G
  <2>5. CASE k = o.key
    <3>1. \A m, n \in Maps : G(m).m[k] = G(n).m[k]
      BY <2>4, <2>5, Zenon
    <3> QED
      BY <2>2, <2>4, <3>1 DEF G
  <2>6. CASE k # o.key
    <3>1. \/ \A m \in Maps : G(m).m[k] = m[k]
          \/ \A m, n \in Maps : G(m).m[k] = G(n).m[k]
      BY <2>3, <2>4, <2>6
    <3> QED
      BY <2>2, <2>4, <3>1 DEF G
  <2> QED
    BY <2>5, <2>6
<1> HIDE DEF S
<1>3. Seq(KeyedOps) \subseteq S
  BY <1>1, <1>2, SeqSetInduction, Zenon
<1>4. \/ \A m \in Maps : F(m, r.ops).m[k] = m[k]
      \/ \A m, n \in Maps : F(m, r.ops).m[k] = F(n, r.ops).m[k]
  BY <1>0, <1>3, Zenon DEF S
<1>5. \A m : ReplayRecord(m, r) = F(m, r.ops).m
  BY TreeFolds, Zenon
<1> HIDE DEF F
<1> QED
  BY <1>4, <1>5, Zenon

\* ... and a log.
LEMMA ReplayAt ==
  ASSUME NEW w \in Seq(KeyedRecords), NEW k \in Keys
  PROVE  Leaves(w, k) \/ Overwrites(w, k)
<1> DEFINE S == {v \in Seq(KeyedRecords) : Leaves(v, k) \/ Overwrites(v, k)}
<1>1. <<>> \in S
  <2>1. <<>> \in Seq(KeyedRecords)
    OBVIOUS
  <2>2. Leaves(<<>>, k)
    BY ReplayEmpty, Zenon DEF Leaves
  <2> QED
    BY <2>1, <2>2, Zenon
<1>2. ASSUME NEW v \in Seq(KeyedRecords), NEW r \in KeyedRecords, v \in S
      PROVE  Append(v, r) \in S
  <2>1. v \in Seq(WalRecords) /\ r \in WalRecords /\ Append(v, r) \in Seq(KeyedRecords)
    BY KeyedType
  <2>2. \A m \in Maps : /\ Replay(m, v) \in Maps
                        /\ Replay(m, Append(v, r)) = ReplayRecord(Replay(m, v), r)
    BY <2>1, ReplayType, ReplayAppend
  <2>3. Leaves(v, k) \/ Overwrites(v, k)
    BY <1>2, Zenon
  <2>4. CASE \A m \in Maps : ReplayRecord(m, r)[k] = m[k]
    <3>1. \A m \in Maps : Replay(m, Append(v, r))[k] = Replay(m, v)[k]
      BY <2>2, <2>4, Zenon
    <3>2. Leaves(Append(v, r), k) \/ Overwrites(Append(v, r), k)
      BY <2>3, <3>1, Zenon DEF Leaves, Overwrites
    <3> QED
      BY <2>1, <3>2, Zenon
  <2>5. CASE \A m, n \in Maps : ReplayRecord(m, r)[k] = ReplayRecord(n, r)[k]
    <3>1. Overwrites(Append(v, r), k)
      BY <2>2, <2>5, Zenon DEF Overwrites
    <3> QED
      BY <2>1, <3>1, Zenon
  <2> QED
    BY <2>4, <2>5, ReplayRecordAt, Zenon
<1> HIDE DEF S
<1>3. Seq(KeyedRecords) \subseteq S
  BY <1>1, <1>2, SeqSetInduction
<1> QED
  BY <1>3, Zenon DEF S

\* A log is replayed one part after the other.
LEMMA ReplayConcat ==
  ASSUME NEW m, NEW v \in Seq(WalRecords), NEW w \in Seq(WalRecords)
  PROVE  Replay(m, v \o w) = Replay(Replay(m, v), w)
<1>1. Log!Fold(m, v \o w) = Log!Fold(Log!Fold(m, v), w)
  BY Inductions, Log!FoldConcat
<1> QED
  BY <1>1, TreeFolds, Zenon

\* An image that is ahead of the point the log starts at, but not of its end,
\* is brought up to the same record as that point.
LEMMA ReplayCatchesUp ==
  ASSUME NEW m \in Maps, NEW n \in Maps, NEW v \in Seq(KeyedRecords), NEW w \in Seq(KeyedRecords),
         NEW k \in Keys, n[k] = Replay(m, v)[k]
  PROVE  Replay(n, v \o w)[k] = Replay(m, v \o w)[k]
<1>1. v \in Seq(WalRecords) /\ w \in Seq(WalRecords)
  BY KeyedType, Zenon
<1> DEFINE x == Replay(n, v)
           y == Replay(m, v)
<1>2. x \in Maps /\ y \in Maps
  BY <1>1, ReplayType, Zenon
<1>3. Replay(n, v \o w) = Replay(x, w) /\ Replay(m, v \o w) = Replay(y, w)
  BY <1>1, ReplayConcat
<1>4. x[k] = y[k]
  BY ReplayAt, Zenon DEF Leaves, Overwrites
<1> HIDE DEF x, y
<1>5. Replay(x, w)[k] = Replay(y, w)[k]
  BY <1>2, <1>4, ReplayAt DEF Leaves, Overwrites
<1> QED
  BY <1>3, <1>5, Zenon

\* The record of a call that renames nothing.
LEMMA RecordKeyed ==
  ASSUME NEW s \in Nat, NEW ops \in Seq(Keyed)
  PROVE  Record(ops, s) \in KeyedRecords
<1>1. ASSUME NEW r \in KeyedRecords, NEW op \in Keyed
      PROVE  EncodeStep(r, op) \in KeyedRecords
  <2>1. /\ op.key \in Keys /\ r.seq \in Nat /\ r.ops \in Seq(KeyedOps)
        /\ r = [seq |-> r.seq, ops |-> r.ops]
        /\ op.kind \in Inserts \cup Erases \/ ~EmitsWal(op)
    BY Zenon DEF Keyed, Operations, KeyedRecords, EmitsWal
  <2>2. CASE EmitsWal(op)
    <3> DEFINE e == Encoded(op, r.seq + Len(r.ops))
    <3>1. r.seq + Len(r.ops) \in Nat
      BY <2>1
    <3>2. e \in KeyedOps
      BY <2>1, <2>2, <3>1 DEF Encoded, KeyedOps, Inserts, Erases
    <3> HIDE DEF e
    <3>3. EncodeStep(r, op) = [r EXCEPT !.ops = Append(r.ops, e)]
      BY <2>2, Zenon DEF EncodeStep, e
    <3>4. Append(r.ops, e) \in Seq(KeyedOps)
      BY <2>1, <3>2
    <3> QED
      BY <2>1, <3>3, <3>4, Zenon DEF KeyedRecords
  <2>3. CASE ~EmitsWal(op)
    BY <2>3, Zenon DEF EncodeStep
  <2> QED
    BY <2>2, <2>3, Zenon
<1>2. [seq |-> s, ops |-> <<>>] \in KeyedRecords
  BY DEF KeyedRecords
<1>3. Enc!Fold([seq |-> s, ops |-> <<>>], ops) \in KeyedRecords
  BY Inductions, <1>1, <1>2, Enc!FoldType, Zenon
<1> QED
  BY <1>3, TreeFolds, Zenon

-----------------------------------------------------------------------------
(* The theorems *)

\* The operators that fold over a batch or over the log obey the laws the
\* lemmas on steps rest on.
THEOREM LawsHold == Laws
<1>1. LeastLaw
  BY LeastNatural, Zenon DEF LeastLaw
<1>2. SeqTypeLaw
  BY SeqAfterType, Zenon DEF SeqTypeLaw
<1>3. SeqEmptyLaw
  BY TreeFolds, Num!FoldEmpty, Zenon DEF SeqEmptyLaw
<1>4. SeqAppendLaw
  BY SeqAfterAppend, Zenon DEF SeqAppendLaw
<1>5. SeqPrefixLaw
  BY SeqAfterPrefix, Zenon DEF SeqPrefixLaw
<1>6. AheadTypeLaw
  BY AheadType, Zenon DEF AheadTypeLaw
<1>7. AheadEmptyLaw
  BY AheadEmpty, Zenon DEF AheadEmptyLaw
<1>8. AheadPassesLaw
  BY AheadPasses DEF AheadPassesLaw
<1>9. AheadElsewhereLaw
  BY AheadElsewhere, Zenon DEF AheadElsewhereLaw
<1>10. RecordTypeLaw
  BY RecordType, Zenon DEF RecordTypeLaw
<1>11. RecordKeyedLaw
  BY RecordKeyed, Zenon DEF RecordKeyedLaw
<1>12. ReplayRecordLaw
  BY ReplayRecordType, Zenon DEF ReplayRecordLaw
<1>13. ReplayTypeLaw
  BY ReplayType, Zenon DEF ReplayTypeLaw
<1>14. ReplayEmptyLaw
  BY ReplayEmpty, Zenon DEF ReplayEmptyLaw
<1>15. ReplayAppendLaw
  BY ReplayAppend, Zenon DEF ReplayAppendLaw
<1>16. NextSeqLaw
  BY NextSeqType, Zenon DEF NextSeqLaw
<1>17. ReplayBatchLaw
  BY ReplayBatch, Zenon DEF ReplayBatchLaw
<1>18. ReplaySingleLaw
  BY ReplaySingle, Zenon DEF ReplaySingleLaw
<1>19. CatchUpLaw
  BY ReplayCatchesUp, Zenon DEF CatchUpLaw
<1> QED
  BY Zenon, <1>1, <1>2, <1>3, <1>4, <1>5, <1>6, <1>7, <1>8, <1>9, <1>10, <1>11, <1>12,
     <1>13, <1>14, <1>15, <1>16, <1>17, <1>18, <1>19 DEF Laws

\* Calls are where their kind can be, the mutation gate keeps batches and
\* views alone, and an endpoint shard has one holder.
THEOREM ControlInvariant == Spec => []CInv
<1>1. CInv /\ [Next]_vars => CInv'
  BY LawsHold, ControlStep, Zenon
<1> QED
  BY <1>1, ControlInit, PTL DEF Spec

\* Callers that lock endpoint shards never wait for each other in a cycle: a
\* waiting call that no one blocks, or one past its locks, always exists.
THEOREM LocksNeverCycle == Spec => []NoLockCycle
<1>1. CInv => NoLockCycle
  BY LawsHold, NoCycle, Zenon
<1> QED
  BY <1>1, ControlInvariant, PTL

\* Memory is the log with what the calls in progress have done so far.
THEOREM DataInvariant == Spec => [](CInv /\ DInv)
<1>1. CInv /\ DInv /\ [Next]_vars => (CInv /\ DInv)'
  BY LawsHold, ControlStep, DataStep, Zenon
<1>2. Init => CInv /\ DInv
  BY LawsHold, ControlInit, DataInit
<1> QED
  BY <1>1, <1>2, PTL DEF Spec

\* What preflight_batch accepts, the walker calls of the batch carry out: no
\* batch is abandoned half way because a condition of it fails.
THEOREM BatchesNeverFailHalfWay == Spec => []PreflightIsSound
<1>1. DInv => PreflightIsSound
  BY Zenon DEF DInv, PreflightIsSound
<1> QED
  BY <1>1, DataInvariant, PTL

\* The log is the memory: replaying it gives, for every key no call is
\* changing, the record readers see, so the writers of a key log in the order
\* they wrote.  Batches that rename a key onto itself by force are left out.
THEOREM LogIsMemory ==
  ASSUME NoForcedSelfRename
  PROVE  Spec => []LogMatchesMemory
<1>1. CInv /\ DInv => LogMatchesMemory
  BY LawsHold, LogHoldsOutside, Zenon
<1> QED
  BY <1>1, DataInvariant, PTL

\* A view is one state of the tree between calls.
THEOREM ViewsAreCommitted ==
  ASSUME NoForcedSelfRename
  PROVE  Spec => []ViewIsCommitted
<1>1. CInv /\ DInv => ViewIsCommitted
  BY LawsHold, ViewsHold, Zenon
<1> QED
  BY <1>1, DataInvariant, PTL

\* Sequence numbers, tokens and versions are in order in every reachable state.
THEOREM VersionInvariant == Spec => [](CInv /\ DInv /\ VInv)
<1>1. CInv /\ DInv /\ VInv /\ [Next]_vars => (CInv /\ DInv /\ VInv)'
  BY LawsHold, ControlStep, DataStep, VersionStep
<1>2. Init => CInv /\ DInv /\ VInv
  BY LawsHold, ControlInit, DataInit, VersionInit
<1> QED
  BY <1>1, <1>2, PTL DEF Spec

\* While the tree stays open, an operation conditional on a version goes
\* through only if the record has not been written since the caller read it.
THEOREM VersionsAreUnchanged ==
  Spec /\ [](crashes = 0) => VersionMeansUnchanged
<1> DEFINE A == \A t \in Threads :
       pc[t] = "apply" /\ at'[t] > at[t] /\ at[t] <= Len(Ops(t))
         /\ Op(t).kind \in Versioned
           => token[t].fresh
<1>1. CInv /\ DInv /\ VInv /\ crashes = 0 /\ [Next]_vars => [A]_vars
  BY LawsHold, FreshVersion, Zenon DEF Applying
<1>2. VersionMeansUnchanged <=> [][A]_vars
  BY Zenon DEF VersionMeansUnchanged
<1> QED
  BY <1>1, <1>2, VersionInvariant, PTL DEF Spec

\* Without renames, recovery is exact: whatever images reached the store and
\* however much of the unsynced log a crash takes, opening the tree again
\* gives the records of the surviving log.
THEOREM RecoveryGivesTheLog ==
  ASSUME NoRenames
  PROVE  Spec => []RecoveryIsExact
<1>1. CInv /\ DInv /\ RInv /\ [Next]_vars => (CInv /\ DInv /\ RInv)'
  BY LawsHold, ControlStep, DataStep, RecoveryStep
<1>2. Init => CInv /\ DInv /\ RInv
  BY LawsHold, ControlInit, DataInit, RecoveryInit
<1>3. CInv /\ RInv => RecoveryIsExact
  BY LawsHold, RecoveryHolds, Zenon
<1> QED
  BY <1>1, <1>2, <1>3, PTL DEF Spec
=============================================================================
