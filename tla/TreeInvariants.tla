--------------------------- MODULE TreeInvariants ---------------------------
(****************************************************************************)
(* The inductive invariants of Tree that the proofs are about: where calls  *)
(* are and what they lock (CInv), how memory, the log and the calls in      *)
(* progress fit together (DInv), what a version stands for (VInv) and what  *)
(* the images and the surviving log give back (RInv).                       *)
(****************************************************************************)
EXTENDS TreeLaws


-----------------------------------------------------------------------------
(* Control *)

Reqs == [call : {"none", "single", "batch", "view", "list"}, ops : Seq(Operations)]

Pcs ==
  {"idle", "lock", "seq", "probe", "preflight", "apply", "insert", "internal", "ack",
   "capture", "viewed", "consult", "missed", "scan"}

Tokens == [key : Keys, ver : Nat, fresh : BOOLEAN]

Views == UNION {[S -> Records] : S \in SUBSET Keys}

StoreTypeOK ==
  /\ mem \in Maps /\ image \in Maps /\ base \in Maps
  /\ wal \in Seq(WalRecords) /\ durable \in 0 .. Len(wal)
  /\ nextSeq \in Nat
  /\ token \in [Threads -> Tokens \cup {NoToken}]
  /\ torn \in BOOLEAN /\ crashes \in Nat
  /\ opt \in DOMAIN Options

CallTypeOK ==
  /\ pc \in [Threads -> Pcs]
  /\ req \in [Threads -> Reqs]
  /\ got \in [Threads -> Nat] /\ seq \in [Threads -> Nat] /\ at \in [Threads -> Nat]
  /\ moved \in [Threads -> Nat]
  /\ view \in [Threads -> Views]

TypeOK == StoreTypeOK /\ CallTypeOK

\* Where a call of each kind can be, and what it then has.
SinglePcs == {"lock", "seq", "probe", "apply", "insert"}

BatchPcs == {"seq", "preflight", "apply", "insert", "internal", "ack"}

Shards(t) == LockOrder(Ops(t)[1])

Control(t) ==
  /\ req[t].call = "none" => pc[t] \in {"idle", "ack"} /\ Ops(t) = <<>>
  /\ req[t].call = "single" =>
       /\ pc[t] \in SinglePcs
       /\ Len(Ops(t)) = 1 /\ Ops(t)[1].kind \notin Asserts
       /\ got[t] <= Len(Shards(t))
       /\ got[t] = Len(Shards(t)) <=> pc[t] # "lock"
       /\ pc[t] = "probe" => Ops(t)[1].kind = "rename"
  /\ req[t].call = "batch" => pc[t] \in BatchPcs
  /\ req[t].call = "view" => pc[t] \in {"capture", "viewed"} /\ Ops(t) = <<>>
  /\ req[t].call = "list" => pc[t] \in {"consult", "missed", "scan"} /\ Ops(t) = <<>>
  /\ pc[t] = "idle" => got[t] = 0
  /\ pc[t] \notin {"apply", "insert", "internal", "ack"} => at[t] = 1
  /\ pc[t] = "apply" => at[t] \in 1 .. Len(Ops(t)) + 1
  /\ pc[t] = "insert" => at[t] \in 1 .. Len(Ops(t)) /\ Op(t).kind = "rename"
  /\ pc[t] \notin {"capture", "viewed", "scan"} => view[t] = NoView

\* The mutation gate keeps batches and views alone.
GateHolds ==
  \A t, u \in Threads : t # u /\ InGate(t) /\ InGate(u) =>
    {req[t].call, req[u].call} \subseteq {"single", "list"}

\* An endpoint shard has one holder.
ShardsHold ==
  \A t, u \in Threads : t # u => HeldShards(t) \cap HeldShards(u) = {}

CInv ==
  TypeOK /\ (\A t \in Threads : Control(t)) /\ GateHolds /\ ShardsHold

\* A call leaves the fields of other threads alone.
Local(t) ==
  \A u \in Threads \ {t} :
    /\ pc'[u] = pc[u] /\ req'[u] = req[u] /\ got'[u] = got[u]
    /\ at'[u] = at[u] /\ view'[u] = view[u]

Waiting(t) == pc[t] = "lock"

-----------------------------------------------------------------------------
(* Memory and log *)

\* A batch that renames a key onto itself by force moves nothing, but its
\* record is replayed as a move that gives the record a new version.
NoForcedSelfRename ==
  \A o \in DOMAIN Options : \A c \in Options[o].calls :
    c.call = "batch" =>
      \A i \in DOMAIN c.ops :
        ~(c.ops[i].kind = "rename" /\ c.ops[i].key = c.ops[i].dst /\ c.ops[i].force)

Faithful == ~torn /\ NoForcedSelfRename

Writing(t) == pc[t] \in {"apply", "insert"}

\* No call is between its first walker call and its record on this key.
Quiet(k) ==
  \A t \in Threads : Writing(t) => ~IsBatch(t) /\ k \notin KeysOf(Ops(t)[1])

Logged == Replay(base, wal)

LogHolds == Faithful => \A k \in Keys : Quiet(k) => mem[k] = Logged[k]

\* A single call has done nothing yet, or all of its operation, or the first
\* half of a rename, to what is logged.
SingleAt(t) ==
  LET op == Ops(t)[1]
  IN  /\ op.kind = "rename" =>
           RenameVerdict(Logged, op) = "move" /\ moved[t] = Logged[op.key].val
      /\ pc[t] = "insert" => mem[op.key] = Absent
      /\ pc[t] = "apply" /\ at[t] = 1 => \A k \in KeysOf(op) : mem[k] = Logged[k]
      /\ pc[t] = "apply" /\ at[t] = 2 =>
           \A k \in KeysOf(op) : mem[k] = Projected(Logged, op, seq[t])[k]

SingleHolds(t) ==
  Writing(t) /\ ~IsBatch(t) /\ Faithful => SingleAt(t)

\* A batch has carried out a prefix of what its preflight projected from m.
BatchAt(t, m) ==
  LET p == Ahead(m, seq[t], SubSeq(Ops(t), 1, at[t] - 1)).m
  IN  /\ Ahead(m, seq[t], Ops(t)).verdict = "pass"
      /\ pc[t] = "apply" => mem = p
      /\ pc[t] = "insert" =>
           /\ mem = Erased(p, Op(t).key)
           /\ moved[t] = p[Op(t).key].val
           /\ RenameVerdict(p, Op(t)) = "move"
      /\ Faithful => m = Logged

BatchHolds(t) ==
  Writing(t) /\ IsBatch(t) => \E m \in Maps : BatchAt(t, m)

\* A view has copied what is logged.
ViewHolds(t) ==
  req[t].call = "view" =>
    /\ Faithful => \A k \in DOMAIN view[t] : view[t][k] = Logged[k]
    /\ pc[t] = "viewed" => DOMAIN view[t] = Keys

PlainBatches ==
  NoForcedSelfRename =>
    \A t \in Threads : IsBatch(t) => Ops(t) \in Seq(PlainOps)

DInv ==
  /\ LogHolds
  /\ PlainBatches
  /\ \A t \in Threads : /\ pc[t] # "internal"
                        /\ SingleHolds(t)
                        /\ BatchHolds(t)
                        /\ ViewHolds(t)

LocalData(t) ==
  \A u \in Threads \ {t} :
    /\ pc'[u] = pc[u] /\ req'[u] = req[u] /\ at'[u] = at[u]
    /\ view'[u] = view[u] /\ seq'[u] = seq[u] /\ moved'[u] = moved[u]

\* A single call past its locks.
Locked(t) == req[t].call = "single" /\ pc[t] # "lock"

-----------------------------------------------------------------------------
(* Versions *)

\* A call that has taken its sequence numbers and may still write with them.
Numbered(t) == pc[t] \in {"probe", "preflight", "apply", "insert"}

\* The first number that is not the call's, and the versions it cannot write.
End(t) == SeqAfter(seq[t], Ops(t))

Outside(n, t) == n < SeqNow(t) \/ n >= End(t)

\* A call carries the version its caller read.
TokenHolds(t) ==
  \A i \in DOMAIN Ops(t) :
    Ops(t)[i].kind \in Versioned =>
      /\ token[t] # NoToken
      /\ token[t].key = Ops(t)[i].key /\ token[t].ver = Ops(t)[i].ver

\* The versions in memory and with clients have been handed out ...
IssuedHolds ==
  /\ nextSeq >= 1
  /\ \A k \in Keys : mem[k].ver < nextSeq
  /\ \A u \in Threads : token[u] # NoToken => token[u].ver < nextSeq

\* ... and a call in progress has numbers of its own, yet to be used.
NumbersHold(t) ==
  Numbered(t) =>
    /\ seq[t] >= 1 /\ End(t) <= nextSeq
    /\ \A k \in Keys : Outside(mem[k].ver, t)
    /\ \A u \in Threads : token[u] # NoToken => Outside(token[u].ver, t)
    /\ \A u \in Threads \ {t} : Numbered(u) => End(t) <= seq[u] \/ End(u) <= seq[t]

\* A version that went stale is not in memory.
StaleHolds ==
  \A u \in Threads :
    token[u] # NoToken /\ ~token[u].fresh => ~HasVersion(mem, token[u].key, token[u].ver)

VInv ==
  /\ \A t \in Threads : TokenHolds(t)
  /\ crashes = 0 => IssuedHolds /\ StaleHolds /\ \A t \in Threads : NumbersHold(t)

\* What calls may do without writing: give numbers up, move on in them.
KeepsNumbers(u) ==
  Numbered(u)' => /\ Numbered(u) /\ seq'[u] = seq[u] /\ Ops(u)' = Ops(u)
                  /\ SeqNow(u)' \in {SeqNow(u), SeqNow(u) + 1}

-----------------------------------------------------------------------------
(* What reached the store *)

\* Replay skips a rename whose destination an image already holds, so what
\* follows is about trees that are not renamed in.
NoRenames ==
  \A o \in DOMAIN Options : \A c \in Options[o].calls :
    \A i \in DOMAIN c.ops : c.ops[i].kind # "rename"

\* Every image of a blob is, key by key, the state of some point of the log
\* that is on disk.
StoredHolds ==
  ~torn => \A k \in Keys : \E j \in 0 .. durable :
    image[k] = Replay(base, SubSeq(wal, 1, j))[k]

RInv ==
  /\ wal \in Seq(KeyedRecords)
  /\ \A t \in Threads : Ops(t) \in Seq(Keyed)
  /\ StoredHolds

=============================================================================
