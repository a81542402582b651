----------------------------- MODULE TreeProofs -----------------------------
(****************************************************************************)
(* What every step of a tree keeps, for any threads, keys, calls and        *)
(* bounds: where calls are and what they lock (CInv), and how memory, the   *)
(* log and the calls in progress fit together (DInv).  The lemmas that      *)
(* compute with batches or with the log take the laws of TreeLaws as a      *)
(* hypothesis; TreeTheorems proves the laws and states the theorems.        *)
(****************************************************************************)
EXTENDS TreeInvariants, TLAPS


-----------------------------------------------------------------------------
(* Operations and calls *)

\* Inserting keeps a map a map, and changes one key.
LEMMA InsertedType ==
  ASSUME NEW m \in Maps, NEW k \in Keys, NEW v \in Nat, NEW s \in Nat
  PROVE  /\ Inserted(m, k, v, s) \in Maps
         /\ Inserted(m, k, v, s)[k] = [val |-> v, ver |-> s]
         /\ \A j \in Keys \ {k} : Inserted(m, k, v, s)[j] = m[j]
BY DEF Inserted, Maps, Records

\* So does erasing.
LEMMA ErasedType ==
  ASSUME NEW m \in Maps, NEW k \in Keys
  PROVE  /\ Erased(m, k) \in Maps /\ Erased(m, k)[k] = Absent
         /\ \A j \in Keys \ {k} : Erased(m, k)[j] = m[j]
         /\ m[k] \in Records /\ m[k].val \in Nat /\ m[k].ver \in Nat
BY DEF Erased, Maps, Records, Absent

\* What an operation leaves alone, and what it leaves behind.
LEMMA ProjectedAt ==
  ASSUME NEW m \in Maps, NEW op \in Operations, NEW s \in Nat
  PROVE  /\ \A k \in Keys \ KeysOf(op) : Projected(m, op, s)[k] = m[k]
         /\ op.kind \in Inserts => Projected(m, op, s)[op.key] = [val |-> s, ver |-> s]
         /\ op.kind \in Erases => Projected(m, op, s)[op.key] = Absent
         /\ op.kind = "rename" /\ op.key # op.dst =>
              /\ Projected(m, op, s)[op.key] = Absent
              /\ Projected(m, op, s)[op.dst] = [val |-> m[op.key].val, ver |-> s]
<1>1. op.key \in Keys /\ op.dst \in Keys
  BY Zenon DEF Operations
<1>2. CASE op.kind \in Inserts
  <2>1. Projected(m, op, s) = Inserted(m, op.key, s, s)
    BY <1>2, Zenon DEF Projected, Inserts, Erases
  <2> QED
    <3>1. /\ Inserted(m, op.key, s, s)[op.key] = [val |-> s, ver |-> s]
          /\ \A k \in Keys \ {op.key} : Inserted(m, op.key, s, s)[k] = m[k]
      BY <1>1, InsertedType
    <3>2. op.key \in KeysOf(op) /\ op.kind \notin Erases /\ op.kind # "rename"
      BY <1>2, Zenon DEF KeysOf, Inserts, Erases
    <3> QED
      BY <2>1, <3>1, <3>2, Zenon
<1>3. CASE op.kind \in Erases
  <2>1. Projected(m, op, s) = Erased(m, op.key)
    BY <1>3, Zenon DEF Projected, Inserts, Erases
  <2> QED
    <3>1. /\ Erased(m, op.key)[op.key] = Absent
          /\ \A k \in Keys \ {op.key} : Erased(m, op.key)[k] = m[k]
      BY <1>1, ErasedType, Zenon
    <3>2. op.key \in KeysOf(op) /\ op.kind \notin Inserts /\ op.kind # "rename"
      BY <1>3, Zenon DEF KeysOf, Inserts, Erases
    <3> QED
      BY <2>1, <3>1, <3>2, Zenon
<1>4. CASE op.kind = "rename"
  <2> DEFINE e == Erased(m, op.key)
             v == m[op.key].val
  <2>1. Projected(m, op, s) = IF op.key = op.dst THEN m ELSE Inserted(e, op.dst, v, s)
    BY <1>4, Zenon DEF Projected, Inserts, Erases
  <2>2. /\ e \in Maps /\ v \in Nat /\ e[op.key] = Absent
        /\ \A k \in Keys \ {op.key} : e[k] = m[k]
    BY <1>1, ErasedType, Zenon
  <2> HIDE DEF e, v
  <2>3. /\ Inserted(e, op.dst, v, s)[op.dst] = [val |-> v, ver |-> s]
        /\ \A k \in Keys \ {op.dst} : Inserted(e, op.dst, v, s)[k] = e[k]
    BY <1>1, <2>2, InsertedType
  <2> QED
    BY <1>1, <1>4, <2>1, <2>2, <2>3, Zenon DEF KeysOf, Inserts, Erases, v
<1>5. CASE op.kind \notin Inserts \cup Erases \cup {"rename"}
  BY <1>5, Zenon DEF Projected
<1> QED
  BY <1>2, <1>3, <1>4, <1>5, Zenon

\* The first of these, for any sequence number.
LEMMA ProjectedElsewhere ==
  ASSUME NEW m \in Maps, NEW op \in Operations, NEW s, NEW k \in Keys \ KeysOf(op)
  PROVE  Projected(m, op, s)[k] = m[k]
<1>1. op.key \in Keys /\ op.dst \in Keys
  BY Zenon DEF Operations
<1>2. CASE op.kind \in Inserts
  <2>1. Projected(m, op, s) = Inserted(m, op.key, s, s)
    BY <1>2, Zenon DEF Projected, Inserts, Erases
  <2> QED
    BY <1>1, <2>1, Zenon DEF KeysOf, Inserted, Maps
<1>3. CASE op.kind \in Erases
  <2>1. Projected(m, op, s) = Erased(m, op.key)
    BY <1>3, Zenon DEF Projected, Inserts, Erases
  <2> QED
    BY <1>1, <2>1, Zenon DEF KeysOf, Erased, Maps
<1>4. CASE op.kind = "rename"
  <2>1. Projected(m, op, s) = IF op.key = op.dst THEN m
                              ELSE Inserted(Erased(m, op.key), op.dst, m[op.key].val, s)
    BY <1>4, Zenon DEF Projected, Inserts, Erases
  <2>2. k # op.key /\ k # op.dst
    BY <1>4, Zenon DEF KeysOf
  <2> QED
    BY <1>1, <2>1, <2>2, Zenon DEF Inserted, Erased, Maps
<1>5. CASE op.kind \notin Inserts \cup Erases \cup {"rename"}
  BY <1>5, Zenon DEF Projected
<1> QED
  BY <1>2, <1>3, <1>4, <1>5, Zenon

\* The shards of a call are those of its keys, in ascending order.
LEMMA LockOrderType ==
  ASSUME NEW op \in Operations
  PROVE  /\ Len(LockOrder(op)) \in {1, 2}
         /\ \A i \in 1 .. Len(LockOrder(op)) : LockOrder(op)[i] \in 0 .. 255
         /\ Len(LockOrder(op)) = 2 => LockOrder(op)[1] < LockOrder(op)[2]
         /\ \A k \in KeysOf(op) : \E i \in 1 .. Len(LockOrder(op)) : LockOrder(op)[i] = Shard[k]
<1> DEFINE x == Shard[op.key]
           y == Shard[op.dst]
<1>1. x \in 0 .. 255 /\ y \in 0 .. 255
  BY ShardAssumption DEF Operations, ENDPOINT_LOCK_SHARDS
<1>2. LockOrder(op) = IF op.kind = "rename" /\ x # y
                      THEN IF x < y THEN <<x, y>> ELSE <<y, x>> ELSE <<x>>
  BY Zenon DEF LockOrder
<1>3. \A k \in KeysOf(op) : Shard[k] = x \/ (op.kind = "rename" /\ Shard[k] = y)
  BY Zenon DEF KeysOf
<1> HIDE DEF x, y
<1>4. CASE op.kind = "rename" /\ x # y /\ x < y
  <2>1. LockOrder(op) = <<x, y>>
    BY <1>2, <1>4, Zenon
  <2>2. Len(LockOrder(op)) = 2 /\ LockOrder(op)[1] = x /\ LockOrder(op)[2] = y
    BY <2>1
  <2> QED
    BY <1>1, <1>3, <1>4, <2>2
<1>5. CASE op.kind = "rename" /\ x # y /\ ~(x < y)
  <2>1. LockOrder(op) = <<y, x>>
    BY <1>2, <1>5, Zenon
  <2>2. Len(LockOrder(op)) = 2 /\ LockOrder(op)[1] = y /\ LockOrder(op)[2] = x
    BY <2>1
  <2> QED
    BY <1>1, <1>3, <1>5, <2>2
<1>6. CASE ~(op.kind = "rename" /\ x # y)
  <2>1. LockOrder(op) = <<x>>
    BY <1>2, <1>6, Zenon
  <2>2. Len(LockOrder(op)) = 1 /\ LockOrder(op)[1] = x
    BY <2>1
  <2>3. \A k \in KeysOf(op) : Shard[k] = x
    BY <1>3, <1>6, Zenon
  <2> QED
    BY <1>1, <2>2, <2>3
<1> QED
  BY <1>4, <1>5, <1>6, Zenon

\* The fields of a thread with no call.
LEMMA NoCallType ==
  /\ NoCall \in Reqs /\ NoCall.call = "none" /\ NoCall.ops = <<>>
  /\ NoView \in Views /\ DOMAIN NoView = {}
<1>1. NoCall \in Reqs /\ NoCall.call = "none" /\ NoCall.ops = <<>>
  BY DEF NoCall, Reqs
<1>2. NoView \in [{} -> Records] /\ DOMAIN NoView = {}
  BY Zenon DEF NoView
<1>3. NoView \in Views
  BY <1>2, Zenon DEF Views
<1> QED
  BY <1>1, <1>2, <1>3, Zenon

\* The calls of a run are calls of the model.
LEMMA CallsType ==
  ASSUME opt \in DOMAIN Options
  PROVE  /\ \A c \in Calls :
              /\ c.call \in {"single", "batch", "view", "list"} /\ c.ops \in Seq(Operations)
              /\ c = [call |-> c.call, ops |-> c.ops]
              /\ c.call = "single" => Len(c.ops) = 1 /\ c.ops[1].kind \notin Asserts
              /\ c.call \in {"view", "list"} => c.ops = <<>>
         /\ TokenKeys \subseteq Keys
<1>1. \A c \in Calls :
        /\ c \in [call : {"single", "batch", "view", "list"}, ops : Seq(Operations)]
        /\ c.call = "single" => Len(c.ops) = 1 /\ c.ops[1].kind \notin Asserts
        /\ c.call \in {"view", "list"} => c.ops = <<>>
  BY CallAssumption, Zenon DEF Calls
<1>2. \A c \in Calls : \A i \in DOMAIN c.ops : c.ops[i].key \in Keys
  <2>1. \A op \in Operations : op.key \in Keys
    BY Zenon DEF Operations
  <2>2. \A ops \in Seq(Operations) : \A i \in DOMAIN ops : ops[i] \in Operations
    OBVIOUS
  <2> QED
    BY <1>1, <2>1, <2>2, Zenon
<1>3. TokenKeys \subseteq Keys
  BY <1>2 DEF TokenKeys
<1> QED
  BY <1>1, <1>3

\* A call keeps its operations but for the version it asks for.
LEMMA RequestedType ==
  ASSUME StoreTypeOK, NEW t \in Threads, NEW c \in Calls,
         \A i \in DOMAIN c.ops : c.ops[i].kind \in Versioned => token[t] # NoToken
  PROVE  /\ Requested(t, c) \in Reqs /\ Requested(t, c).call = c.call
         /\ Len(Requested(t, c).ops) = Len(c.ops)
         /\ \A i \in DOMAIN c.ops :
              /\ Requested(t, c).ops[i].kind = c.ops[i].kind
              /\ Requested(t, c).ops[i].key = c.ops[i].key
              /\ Requested(t, c).ops[i].dst = c.ops[i].dst
              /\ Requested(t, c).ops[i].force = c.ops[i].force
              /\ c.ops[i].kind \in Versioned => Requested(t, c).ops[i].ver = token[t].ver
<1> DEFINE W(i) == IF c.ops[i].kind \in Versioned
                   THEN [c.ops[i] EXCEPT !.ver = token[t].ver] ELSE c.ops[i]
           w == [i \in DOMAIN c.ops |-> W(i)]
<1>1. /\ c.call \in {"single", "batch", "view", "list"} /\ c.ops \in Seq(Operations)
      /\ c = [call |-> c.call, ops |-> c.ops]
  BY CallsType, Zenon DEF StoreTypeOK
<1>2. DOMAIN c.ops = 1 .. Len(c.ops) /\ \A i \in DOMAIN c.ops : c.ops[i] \in Operations
  BY <1>1
<1>3. ASSUME NEW i \in DOMAIN c.ops
      PROVE  /\ W(i) \in Operations
             /\ W(i).kind = c.ops[i].kind /\ W(i).key = c.ops[i].key
             /\ W(i).dst = c.ops[i].dst /\ W(i).force = c.ops[i].force
             /\ c.ops[i].kind \in Versioned => W(i).ver = token[t].ver
  <2>1. c.ops[i] \in Operations
    BY <1>2, Zenon
  <2>2. c.ops[i].kind \in Versioned => token[t].ver \in Nat
    BY Zenon DEF StoreTypeOK, Tokens
  <2>3. CASE c.ops[i].kind \in Versioned
    BY <2>1, <2>2, <2>3, Zenon DEF Operations
  <2>4. CASE c.ops[i].kind \notin Versioned
    BY <2>1, <2>4, Zenon
  <2> QED
    BY <2>3, <2>4, Zenon
<1>6. Requested(t, c) = [call |-> c.call, ops |-> w]
  <2>1. Requested(t, c) = [c EXCEPT !.ops = w]
    BY Zenon DEF Requested
  <2>2. \A a, b, x : [[call |-> a, ops |-> b] EXCEPT !.ops = x] = [call |-> a, ops |-> x]
    OBVIOUS
  <2> HIDE DEF w
  <2> QED
    BY <1>1, <2>1, <2>2, Zenon
<1> HIDE DEF W
<1>4. w \in Seq(Operations) /\ Len(w) = Len(c.ops)
  BY <1>1, <1>2, <1>3
<1>5. \A i \in DOMAIN c.ops : w[i] = W(i)
  BY Zenon
<1> HIDE DEF w
<1>7. Requested(t, c) \in Reqs
  BY <1>1, <1>4, <1>6 DEF Reqs
<1> QED
  BY <1>3, <1>4, <1>5, <1>6, <1>7

\* The operation a call is at.
LEMMA OpType ==
  ASSUME Laws, CInv, NEW t \in Threads, Applying(t) \/ pc[t] = "insert"
  PROVE  /\ at[t] \in 1 .. Len(Ops(t)) /\ Ops(t) \in Seq(Operations)
         /\ Op(t) \in Operations /\ Op(t).key \in Keys /\ Op(t).dst \in Keys
         /\ SeqNow(t) \in Nat /\ mem[Op(t).key].val \in Nat
         /\ req[t].call \in {"single", "batch"}
         /\ ~IsBatch(t) => at[t] = 1 /\ Len(Ops(t)) = 1
<1>1. TypeOK /\ Control(t)
  BY Zenon DEF CInv
<1>2. Ops(t) \in Seq(Operations) /\ seq[t] \in Nat /\ at[t] \in Nat /\ mem \in Maps
  BY <1>1, Zenon DEF TypeOK, CallTypeOK, StoreTypeOK, Reqs, Ops
<1>3. at[t] \in 1 .. Len(Ops(t))
  BY <1>1, <1>2 DEF Control, Applying
<1>4. Op(t) \in Operations
  BY <1>2, <1>3 DEF Op
<1>5. Op(t).key \in Keys /\ Op(t).dst \in Keys
  BY <1>4, Zenon DEF Operations
<1>6. SubSeq(Ops(t), 1, at[t] - 1) \in Seq(Operations)
  BY <1>2, <1>3
<1>7. SeqNow(t) \in Nat
  BY <1>2, <1>6, Zenon DEF SeqNow, OpSeq, Laws, SeqTypeLaw
<1>8. mem[Op(t).key].val \in Nat
  BY <1>2, <1>5, Zenon DEF Maps, Records
<1>9. req[t].call \in {"single", "batch"}
  BY <1>1, Zenon DEF Control, TypeOK, CallTypeOK, Reqs, Applying
<1>10. ~IsBatch(t) => at[t] = 1 /\ Len(Ops(t)) = 1
  <2>1. req[t].call = "single" => Len(Ops(t)) = 1
    BY <1>1, Zenon DEF Control
  <2>2. ~IsBatch(t) => req[t].call = "single"
    BY <1>9, Zenon DEF IsBatch
  <2>3. Len(Ops(t)) = 1 => at[t] = 1
    BY <1>3
  <2> QED
    BY <2>1, <2>2, <2>3, Zenon
<1> QED
  BY <1>2, <1>3, <1>4, <1>5, <1>7, <1>8, <1>9, <1>10, Zenon

-----------------------------------------------------------------------------
(* Control *)

\* A call that stays where it is keeps its part of the invariant.
LEMMA ControlKeep ==
  ASSUME NEW u \in Threads, Control(u), pc'[u] = pc[u], req'[u] = req[u], got'[u] = got[u],
         at'[u] = at[u], view'[u] = view[u]
  PROVE  Control(u)'
<1>1. Ops(u)' = Ops(u) /\ Op(u)' = Op(u) /\ Shards(u)' = Shards(u)
  BY Zenon DEF Ops, Op, Shards
<1> QED
  BY <1>1, Zenon DEF Control

\* A step of one thread keeps the invariant if it keeps its own part, and the
\* gate and the shards admit what it enters.
LEMMA LocalStep ==
  ASSUME CInv, NEW t \in Threads, TypeOK', Local(t), Control(t)',
         \A u \in Threads \ {t} : InGate(t)' /\ InGate(u) =>
           {req'[t].call, req[u].call} \subseteq {"single", "list"},
         \A u \in Threads \ {t} : HeldShards(t)' \cap HeldShards(u) = {}
  PROVE  CInv'
<1>1. ASSUME NEW u \in Threads \ {t}
      PROVE  Control(u)' /\ (InGate(u)' <=> InGate(u)) /\ HeldShards(u)' = HeldShards(u)
  <2>1. /\ pc'[u] = pc[u] /\ req'[u] = req[u] /\ got'[u] = got[u]
        /\ at'[u] = at[u] /\ view'[u] = view[u]
    BY <1>1, Zenon DEF Local
  <2>2. Control(u)
    BY Zenon DEF CInv
  <2>3. Control(u)'
    BY <2>1, <2>2, ControlKeep, Zenon
  <2>4. InGate(u)' <=> InGate(u)
    BY <2>1, Zenon DEF InGate, IsBatch
  <2>5. HeldShards(u)' = HeldShards(u)
    BY <2>1, Zenon DEF HeldShards, Ops
  <2> QED
    BY <2>3, <2>4, <2>5, Zenon
<1>2. \A u \in Threads : Control(u)'
  BY <1>1, Zenon
<1>3. GateHolds'
  <2>1. ASSUME NEW x \in Threads, NEW y \in Threads, x # y, InGate(x)', InGate(y)'
        PROVE  {req'[x].call, req'[y].call} \subseteq {"single", "list"}
    <3>1. CASE x # t /\ y # t
      <4>1. req'[x] = req[x] /\ req'[y] = req[y] /\ InGate(x) /\ InGate(y)
        BY <1>1, <2>1, <3>1, Zenon DEF Local
      <4> QED
        BY <2>1, <4>1, Zenon DEF CInv, GateHolds
    <3>2. CASE x = t
      BY <1>1, <2>1, <3>2, Zenon DEF Local
    <3>3. CASE y = t
      BY <1>1, <2>1, <3>3 DEF Local
    <3> QED
      BY <3>1, <3>2, <3>3, Zenon
  <2> QED
    BY <2>1, Zenon DEF GateHolds
<1>4. ShardsHold'
  <2>1. ASSUME NEW x \in Threads, NEW y \in Threads, x # y
        PROVE  HeldShards(x)' \cap HeldShards(y)' = {}
    <3>1. CASE x # t /\ y # t
      BY <1>1, <2>1, <3>1, Zenon DEF CInv, ShardsHold
    <3>2. CASE x = t
      BY <1>1, <2>1, <3>2, Zenon
    <3>3. CASE y = t
      BY <1>1, <2>1, <3>3
    <3> QED
      BY <3>1, <3>2, <3>3, Zenon
  <2> QED
    BY <2>1, Zenon DEF ShardsHold
<1> QED
  BY <1>2, <1>3, <1>4, Zenon DEF CInv

\* Most steps enter nothing.
LEMMA KeepStep ==
  ASSUME CInv, NEW t \in Threads, TypeOK', Local(t), Control(t)',
         InGate(t)' => InGate(t) /\ req'[t].call = req[t].call,
         req'[t].call = "single" => req'[t] = req[t] /\ got'[t] = got[t]
  PROVE  CInv'
<1>1. \A u \in Threads \ {t} : InGate(t)' /\ InGate(u) =>
        {req'[t].call, req[u].call} \subseteq {"single", "list"}
  BY Zenon DEF CInv, GateHolds
<1>2. HeldShards(t)' \subseteq HeldShards(t)
  BY Zenon DEF HeldShards, Ops
<1>3. \A u \in Threads \ {t} : HeldShards(t)' \cap HeldShards(u) = {}
  BY <1>2, Zenon DEF CInv, ShardsHold
<1> QED
  BY <1>1, <1>3, LocalStep, Zenon

\* The call returns.
LEMMA ReturnStep ==
  ASSUME CInv, NEW t \in Threads, NEW to \in {"idle", "ack"}, Return(t, to), StoreTypeOK',
         at' \in [Threads -> Nat], \A u \in Threads \ {t} : at'[u] = at[u],
         to = "idle" => at'[t] = 1
  PROVE  CInv'
<1>1. CallTypeOK
  BY Zenon DEF CInv, TypeOK
<1>2. CallTypeOK'
  <2>1. to \in Pcs
    BY Zenon DEF Pcs
  <2>2. pc' \in [Threads -> Pcs]
    BY <1>1, <2>1, Zenon DEF CallTypeOK, Return
  <2>3. req' \in [Threads -> Reqs] /\ view' \in [Threads -> Views]
    BY <1>1, NoCallType, Zenon DEF CallTypeOK, Return
  <2>4. /\ got' \in [Threads -> Nat] /\ seq' \in [Threads -> Nat]
        /\ moved' \in [Threads -> Nat]
    BY <1>1, Zenon DEF CallTypeOK, Return
  <2> QED
    BY <2>2, <2>3, <2>4, Zenon DEF CallTypeOK
<1>3. Local(t)
  BY <1>1, Zenon DEF Local, CallTypeOK, Return
<1>4. /\ pc'[t] = to /\ req'[t] = NoCall /\ got'[t] = 0 /\ view'[t] = NoView
  BY <1>1, Zenon DEF CallTypeOK, Return
<1>5. Control(t)'
  BY <1>4, NoCallType, Zenon DEF Control, Ops
<1>6. ~InGate(t)'
  BY <1>4, NoCallType, Zenon DEF InGate, IsBatch
<1> QED
  BY <1>2, <1>3, <1>4, <1>5, <1>6, NoCallType, KeepStep, Zenon DEF TypeOK

\* A write makes tokens stale.
LEMMA TouchType ==
  ASSUME StoreTypeOK, NEW k, Touch(k)
  PROVE  token' \in [Threads -> Tokens \cup {NoToken}]
BY Zenon DEF StoreTypeOK, Touch, Tokens

\* A step that leaves every call where it is.
LEMMA IdleStep ==
  ASSUME CInv, StoreTypeOK', UNCHANGED callVars
  PROVE  CInv'
<1>1. UNCHANGED <<pc, req, got, seq, at, moved, view>>
  BY Zenon DEF callVars
<1>2. TypeOK'
  BY <1>1, Zenon DEF CInv, TypeOK, CallTypeOK
<1>3. \A t \in Threads : Control(t)'
  BY <1>1, ControlKeep, Zenon DEF CInv
<1>4. GateHolds' /\ ShardsHold'
  BY <1>1 DEF CInv, GateHolds, ShardsHold, InGate, IsBatch, HeldShards, Ops
<1> QED
  BY <1>2, <1>3, <1>4, Zenon DEF CInv

\* A call goes on.
LEMMA MoveStep ==
  ASSUME CInv, StoreTypeOK', NEW t \in Threads, NEW to \in Pcs,
         pc' = [pc EXCEPT ![t] = to], UNCHANGED <<req, got>>,
         seq' \in [Threads -> Nat], moved' \in [Threads -> Nat],
         at' \in [Threads -> Nat], view' \in [Threads -> Views],
         \A u \in Threads \ {t} : at'[u] = at[u] /\ view'[u] = view[u],
         Control(t)', InGate(t)' => InGate(t)
  PROVE  CInv'
<1>1. CallTypeOK
  BY Zenon DEF CInv, TypeOK
<1>2. TypeOK'
  BY <1>1, Zenon DEF TypeOK, CallTypeOK
<1>3. Local(t)
  BY <1>1, Zenon DEF Local, CallTypeOK
<1> QED
  BY <1>2, <1>3, KeepStep, Zenon

\* A walker call that ends its operation keeps the control of its call.
LEMMA AdvanceStep ==
  ASSUME Laws, CInv, StoreTypeOK', NEW t \in Threads, Applying(t), Advance(t)
  PROVE  CInv'
<1>1. CallTypeOK /\ Control(t) /\ pc[t] = "apply"
  BY Zenon DEF CInv, TypeOK, Applying
<1>2. at[t] \in 1 .. Len(Ops(t)) /\ Ops(t) \in Seq(Operations)
  BY OpType, Zenon
<1>3. /\ UNCHANGED <<pc, req, got, seq, moved, view>>
      /\ at' \in [Threads -> Nat] /\ at'[t] = at[t] + 1
      /\ \A u \in Threads \ {t} : at'[u] = at[u]
  BY <1>1 DEF Advance, CallTypeOK
<1>4. TypeOK' /\ Local(t)
  BY <1>1, <1>3, Zenon DEF TypeOK, CallTypeOK, Local
<1>5. Control(t)'
  BY <1>1, <1>2, <1>3 DEF Control, Ops, Op, Shards
<1>6. InGate(t)' => InGate(t)
  BY <1>3, Zenon DEF InGate, IsBatch
<1> QED
  BY <1>3, <1>4, <1>5, <1>6, KeepStep, Zenon

\* So does one whose condition fails.
LEMMA FailStep ==
  ASSUME Laws, CInv, StoreTypeOK', NEW t \in Threads, Applying(t), ConditionFails(t)
  PROVE  CInv'
<1>1. CallTypeOK /\ Control(t) /\ pc[t] = "apply"
  BY Zenon DEF CInv, TypeOK, Applying
<1>2. CASE IsBatch(t)
  <2>1. /\ pc' = [pc EXCEPT ![t] = "internal"]
        /\ UNCHANGED <<req, got, seq, moved, view, at>>
    BY <1>2, Zenon DEF ConditionFails
  <2>2. pc'[t] = "internal" /\ "internal" \in Pcs
    BY <1>1, <2>1, Zenon DEF CallTypeOK, Pcs
  <2>3. Control(t)'
    BY <1>1, <1>2, <2>1, <2>2, Zenon DEF Control, Ops, Op, Shards, IsBatch, BatchPcs
  <2>4. InGate(t)
    BY <1>1, Zenon DEF InGate
  <2> QED
    BY <1>1, <2>1, <2>2, <2>3, <2>4, MoveStep, Zenon DEF CallTypeOK
<1>3. CASE ~IsBatch(t)
  <2>1. Return(t, "idle") /\ UNCHANGED at
    BY <1>3, Zenon DEF ConditionFails
  <2>2. at[t] = 1
    BY <1>3, OpType, Zenon
  <2> QED
    BY <1>1, <2>1, <2>2, ReturnStep, Zenon DEF CallTypeOK
<1> QED
  BY <1>2, <1>3, Zenon

(* Every step keeps the control invariant *)

\* The steps of a call before its first write keep the control invariant.
LEMMA EnterControl ==
  ASSUME Laws, CInv, NEW t \in Threads
  PROVE  /\ (\E k \in TokenKeys : GetVersion(t, k)) => CInv'
         /\ (\E c \in Calls : Call(t, c)) => CInv'
         /\ LockShard(t) => CInv'
         /\ TakeSeq(t) => CInv'
         /\ Probe(t) => CInv'
         /\ PreflightBatch(t) => CInv'
<1>1. StoreTypeOK /\ CallTypeOK /\ Control(t) /\ opt \in DOMAIN Options
  BY Zenon DEF CInv, TypeOK, StoreTypeOK
<1>2. req[t] \in Reqs /\ Ops(t) \in Seq(Operations)
      /\ req[t].call \in {"none", "single", "batch", "view", "list"}
  BY <1>1, Zenon DEF CallTypeOK, Reqs, Ops
<1>3. ASSUME NEW k \in TokenKeys, GetVersion(t, k)
      PROVE  CInv'
  <2>1. k \in Keys
    BY <1>1, CallsType, Zenon
  <2>2. [key |-> k, ver |-> mem[k].ver, fresh |-> TRUE] \in Tokens
    BY <1>1, <2>1, Zenon DEF StoreTypeOK, Maps, Records, Tokens
  <2>3. StoreTypeOK'
    BY <1>1, <1>3, <2>2, Zenon DEF GetVersion, StoreTypeOK, logVars, boundVars, restVars
  <2> QED
    BY <1>3, <2>3, IdleStep, Zenon DEF GetVersion
<1>4. ASSUME NEW c \in Calls, Call(t, c)
      PROVE  CInv'
  <2> DEFINE r == Requested(t, c)
             to == CASE c.call = "single" -> "lock"
                     [] c.call = "batch" -> "seq"
                     [] OTHER -> "capture"
  <2>1. /\ r \in Reqs /\ r.call = c.call /\ Len(r.ops) = Len(c.ops)
        /\ \A i \in DOMAIN c.ops : r.ops[i].kind = c.ops[i].kind
    BY <1>1, <1>4, RequestedType, Zenon DEF Call
  <2>2. /\ c.call \in {"single", "batch", "view"} /\ c.ops \in Seq(Operations)
        /\ c.call = "single" => Len(c.ops) = 1 /\ c.ops[1].kind \notin Asserts
        /\ c.call = "view" => c.ops = <<>>
    BY <1>1, <1>4, CallsType, Zenon DEF Call
  <2>3. /\ pc[t] = "idle" /\ pc' = [pc EXCEPT ![t] = to]
        /\ req' = [req EXCEPT ![t] = r]
        /\ UNCHANGED <<mem, wal, durable, base, image, nextSeq, got, seq, at, moved, view,
                       token, crashes, torn, opt>>
    BY <1>4, Zenon DEF Call, Goto, logVars, boundVars, restVars
  <2>4. /\ c.call = "single" => to = "lock"
        /\ c.call = "batch" => to = "seq"
        /\ c.call = "view" => to = "capture"
    BY Zenon
  <2> HIDE DEF r, to
  <2>5. to \in Pcs
    BY <2>2, <2>4, Zenon DEF Pcs
  <2>6. StoreTypeOK' /\ CallTypeOK'
    BY <1>1, <2>1, <2>3, <2>5, Zenon DEF StoreTypeOK, CallTypeOK
  <2>7. pc'[t] = to /\ req'[t] = r /\ Local(t)
    BY <1>1, <2>3, Zenon DEF CallTypeOK, Local
  <2>8. got'[t] = 0 /\ at'[t] = 1 /\ view'[t] = NoView
    BY <1>1, <2>3, Zenon DEF Control
  <2>9. Control(t)'
    <3>1. r.ops \in Seq(Operations) /\ Ops(t)' = r.ops
      BY <2>1, <2>7, Zenon DEF Reqs, Ops
    <3>2. CASE c.call = "single"
      <4>1. Len(r.ops) = 1 /\ r.ops[1].kind \notin Asserts /\ r.ops[1] \in Operations
        BY <2>1, <2>2, <3>1, <3>2
      <4>2. Len(Shards(t)') \in {1, 2}
        BY <3>1, <4>1, LockOrderType, Zenon DEF Shards
      <4>3. req'[t].call = "single" /\ pc'[t] = "lock"
        BY <2>1, <2>4, <2>7, <3>2, Zenon
      <4>4. Len(Ops(t)') = 1 /\ Ops(t)'[1].kind \notin Asserts
        BY <3>1, <4>1, Zenon
      <4>5. /\ got'[t] <= Len(Shards(t)')
            /\ got'[t] = Len(Shards(t)') <=> pc'[t] # "lock"
        <5>1. \A n \in {1, 2} : 0 <= n /\ 0 # n
          OBVIOUS
        <5> QED
          BY <2>8, <4>2, <4>3, <5>1, Zenon
      <4> QED
        BY <2>8, <4>3, <4>4, <4>5, Zenon DEF Control, SinglePcs
    <3>3. CASE c.call = "batch"
      BY <2>1, <2>4, <2>7, <2>8, <3>1, <3>3, Zenon DEF Control, BatchPcs
    <3>4. CASE c.call = "view"
      <4>1. r.ops = <<>>
        BY <2>1, <2>2, <3>1, <3>4
      <4> QED
        BY <2>1, <2>4, <2>7, <2>8, <3>1, <3>4, <4>1, Zenon DEF Control
    <3> QED
      BY <2>2, <3>2, <3>3, <3>4, Zenon
  <2>10. \A u \in Threads \ {t} : InGate(u) =>
           {req'[t].call, req[u].call} \subseteq {"single", "list"}
    BY <1>4, <2>1, <2>7, Zenon DEF Call, Admitted
  <2>11. HeldShards(t)' = {}
    BY <2>8 DEF HeldShards
  <2> QED
    BY <2>6, <2>7, <2>9, <2>10, <2>11, LocalStep, Zenon DEF TypeOK
<1>5. ASSUME LockShard(t)
      PROVE  CInv'
  <2> DEFINE n == Len(Shards(t))
  <2>1. /\ pc[t] = "lock" /\ req[t].call = "single" /\ Len(Ops(t)) = 1 /\ Ops(t)[1] \in Operations
        /\ Ops(t)[1].kind \notin Asserts
    BY <1>1, <1>2, <1>5 DEF LockShard, Control, BatchPcs
  <2>2. n \in {1, 2} /\ got[t] \in Nat /\ got[t] < n
    <3>1. n \in {1, 2}
      BY <2>1, LockOrderType, Zenon DEF Shards
    <3>2. got[t] \in Nat /\ got[t] <= n /\ got[t] # n
      BY <1>1, <2>1, Zenon DEF Control, CallTypeOK
    <3> QED
      BY <3>1, <3>2
  <2> DEFINE to == IF got[t] + 1 = n THEN "seq" ELSE "lock"
  <2>3. /\ got' = [got EXCEPT ![t] = got[t] + 1] /\ got'[t] = got[t] + 1
        /\ pc' = [pc EXCEPT ![t] = to]
        /\ UNCHANGED <<mem, wal, durable, base, image, nextSeq, req, seq, at, moved, view,
                       token, crashes, torn, opt>>
    BY <1>1, <1>5, Zenon DEF LockShard, Goto, logVars, boundVars, restVars, CallTypeOK, Shards
  <2>4. to \in {"seq", "lock"} /\ to \in Pcs /\ (to = "lock" <=> got[t] + 1 # n)
    BY Zenon DEF Pcs
  <2> HIDE DEF n, to
  <2>5. StoreTypeOK' /\ CallTypeOK'
    BY <1>1, <2>2, <2>3, <2>4 DEF StoreTypeOK, CallTypeOK
  <2>6. pc'[t] = to /\ Local(t) /\ Ops(t)' = Ops(t) /\ Len(Shards(t)') = n
    BY <1>1, <2>3, Zenon DEF CallTypeOK, Local, Ops, Shards, n
  <2>7. Control(t)'
    BY <1>1, <2>1, <2>2, <2>3, <2>4, <2>6 DEF Control, SinglePcs
  <2>8. InGate(t)
    BY <2>1, Zenon DEF InGate
  <2>9. \A u \in Threads \ {t} : InGate(t)' /\ InGate(u) =>
          {req'[t].call, req[u].call} \subseteq {"single", "list"}
    BY <2>3, <2>8, Zenon DEF CInv, GateHolds
  <2>10. ASSUME NEW u \in Threads \ {t}
         PROVE  HeldShards(t)' \cap HeldShards(u) = {}
    <3>1. HeldShards(t)' = {Shards(t)[i] : i \in 1 .. got[t] + 1}
      BY <2>1, <2>3, Zenon DEF HeldShards, Ops, Shards
    <3>2. HeldShards(t) = {Shards(t)[i] : i \in 1 .. got[t]}
      BY <2>1, Zenon DEF HeldShards, Ops, Shards
    <3>3. HeldShards(t) \cap HeldShards(u) = {}
      BY <2>10, Zenon DEF CInv, ShardsHold
    <3>4. Shards(t)[got[t] + 1] \notin HeldShards(u)
      BY <1>5, <2>10, Zenon DEF LockShard, NextShardFree, Shards
    <3>5. \A i \in 1 .. got[t] + 1 : i \in 1 .. got[t] \/ i = got[t] + 1
      BY <2>2
    <3> QED
      BY <3>1, <3>2, <3>3, <3>4, <3>5, Zenon
  <2> QED
    BY <2>5, <2>6, <2>7, <2>9, <2>10, LocalStep, Zenon DEF TypeOK
<1>6. ASSUME TakeSeq(t)
      PROVE  CInv'
  <2> DEFINE to == IF IsBatch(t) THEN "preflight"
                   ELSE IF Ops(t)[1].kind = "rename" THEN "probe" ELSE "apply"
  <2>1. /\ pc[t] = "seq" /\ pc' = [pc EXCEPT ![t] = to] /\ nextSeq' = SeqAfter(nextSeq, Ops(t))
        /\ seq' = [seq EXCEPT ![t] = nextSeq]
        /\ UNCHANGED <<mem, wal, durable, base, image, req, got, at, moved, view,
                       token, crashes, torn, opt>>
    BY <1>6, Zenon DEF TakeSeq, Goto, logVars, boundVars, restVars
  <2>2. /\ to \in Pcs
        /\ IsBatch(t) => to = "preflight"
        /\ ~IsBatch(t) => to \in {"probe", "apply"}
        /\ to = "probe" => Ops(t)[1].kind = "rename"
    BY Zenon DEF Pcs
  <2> HIDE DEF to
  <2>3. req[t].call \in {"single", "batch"} /\ at[t] = 1 /\ view[t] = NoView
    BY <1>1, <1>2, <2>1, Zenon DEF Control
  <2>4. nextSeq \in Nat /\ nextSeq' \in Nat
    BY <1>1, <1>2, <2>1, Zenon DEF StoreTypeOK, Laws, SeqTypeLaw
  <2>5. StoreTypeOK'
    BY <1>1, <2>1, <2>4, Zenon DEF StoreTypeOK
  <2>6. pc'[t] = to /\ Ops(t)' = Ops(t) /\ Shards(t)' = Shards(t)
    BY <1>1, <2>1, Zenon DEF CallTypeOK, Ops, Shards
  <2>7. Control(t)'
    BY <1>1, <1>2, <2>1, <2>2, <2>3, <2>6
    DEF Control, SinglePcs, BatchPcs, IsBatch
  <2>8. InGate(t)
    BY <2>1, Zenon DEF InGate
  <2>9. seq' \in [Threads -> Nat]
    BY <1>1, <2>1, <2>4, Zenon DEF CallTypeOK
  <2> QED
    BY <1>1, <2>1, <2>2, <2>5, <2>7, <2>8, <2>9, MoveStep, Zenon DEF CallTypeOK
<1>7. ASSUME Probe(t)
      PROVE  CInv'
  <2>1. /\ pc[t] = "probe" /\ UNCHANGED at
        /\ UNCHANGED <<mem, wal, durable, base, image, nextSeq, token, crashes, torn, opt>>
    BY <1>7, Zenon DEF Probe, logVars, boundVars, restVars
  <2>2. StoreTypeOK'
    BY <1>1, <2>1, Zenon DEF StoreTypeOK
  <2>3. /\ req[t].call = "single" /\ at[t] = 1 /\ view[t] = NoView
        /\ Len(Ops(t)) = 1 /\ Op(t) \in Operations
    BY <1>1, <1>2, <2>1 DEF Control, BatchPcs, Op
  <2>4. CASE RenameVerdict(mem, Op(t)) = "move"
    <3>1. /\ pc' = [pc EXCEPT ![t] = "apply"] /\ pc'[t] = "apply"
          /\ moved' = [moved EXCEPT ![t] = mem[Op(t).key].val]
          /\ UNCHANGED <<req, got, seq, view>>
      BY <1>1, <1>7, <2>4, Zenon DEF Probe, CallTypeOK
    <3>2. mem[Op(t).key].val \in Nat
      BY <1>1, <2>3, Zenon DEF StoreTypeOK, Maps, Records, Operations
    <3>3. moved' \in [Threads -> Nat]
      BY <1>1, <3>1, <3>2, Zenon DEF CallTypeOK
    <3>4. Control(t)'
      BY <1>1, <2>1, <2>3, <3>1 DEF Control, SinglePcs, Ops, Shards
    <3>5. InGate(t) /\ "apply" \in Pcs
      BY <2>1, Zenon DEF InGate, Pcs
    <3> QED
      BY <1>1, <2>1, <2>2, <3>1, <3>3, <3>4, <3>5, MoveStep, Zenon DEF CallTypeOK
  <2>5. CASE RenameVerdict(mem, Op(t)) # "move"
    <3>1. Return(t, "idle")
      BY <1>7, <2>5, Zenon DEF Probe
    <3> QED
      BY <1>1, <2>1, <2>2, <2>3, <3>1, ReturnStep, Zenon DEF CallTypeOK
  <2> QED
    BY <2>4, <2>5, Zenon
<1>8. ASSUME PreflightBatch(t)
      PROVE  CInv'
  <2>1. /\ pc[t] = "preflight" /\ UNCHANGED at
        /\ UNCHANGED <<mem, wal, durable, base, image, nextSeq, token, crashes, torn, opt>>
    BY <1>8, Zenon DEF PreflightBatch, logVars, boundVars, restVars
  <2>2. StoreTypeOK'
    BY <1>1, <2>1, Zenon DEF StoreTypeOK
  <2>3. req[t].call = "batch" /\ at[t] = 1 /\ view[t] = NoView
    BY <1>1, <1>2, <2>1, Zenon DEF Control, SinglePcs
  <2>4. CASE pc' = [pc EXCEPT ![t] = "apply"] /\ UNCHANGED <<req, got, seq, moved, view>>
    <3>1. pc'[t] = "apply" /\ Ops(t)' = Ops(t)
      BY <1>1, <2>4, Zenon DEF CallTypeOK, Ops
    <3>2. Control(t)'
      BY <1>1, <1>2, <2>1, <2>3, <2>4, <3>1 DEF Control, BatchPcs
    <3>3. InGate(t) /\ "apply" \in Pcs
      BY <2>1, Zenon DEF InGate, Pcs
    <3> QED
      BY <1>1, <2>1, <2>2, <2>4, <3>2, <3>3, MoveStep, Zenon DEF CallTypeOK
  <2>5. CASE Return(t, "idle")
    BY <1>1, <2>1, <2>2, <2>3, <2>5, ReturnStep, Zenon DEF CallTypeOK
  <2> QED
    BY <1>8, <2>4, <2>5, Zenon DEF PreflightBatch, Goto
<1> QED
  BY <1>3, <1>4, <1>5, <1>6, <1>7, <1>8, Zenon

\* The walker calls keep it.
LEMMA ApplyControl ==
  ASSUME Laws, CInv, NEW t \in Threads
  PROVE  /\ ApplyInsert(t) => CInv'
         /\ ApplyErase(t) => CInv'
         /\ ApplyAssert(t) => CInv'
         /\ RenameErase(t) => CInv'
         /\ RenameInsert(t) => CInv'
         /\ RenameStops(t) => CInv'
<1>1. StoreTypeOK /\ CallTypeOK /\ Control(t)
  BY Zenon DEF CInv, TypeOK
<1>2. ASSUME ApplyInsert(t)
      PROVE  CInv'
  <2>1. Applying(t) /\ UNCHANGED <<wal, durable, base, image, nextSeq, crashes, torn, opt>>
    BY <1>2, Zenon DEF ApplyInsert, logVars, boundVars, restVars
  <2>2. Op(t).key \in Keys /\ SeqNow(t) \in Nat
    BY <2>1, OpType, Zenon
  <2>3. CASE Holds(mem, Op(t))
    <3>1. /\ mem' = Inserted(mem, Op(t).key, SeqNow(t), SeqNow(t))
          /\ Touch(Op(t).key) /\ Advance(t)
      BY <1>2, <2>3, Zenon DEF ApplyInsert
    <3>2. mem' \in Maps
      BY <1>1, <2>2, <3>1, InsertedType, Zenon DEF StoreTypeOK
    <3>3. StoreTypeOK'
      BY <1>1, <2>1, <3>1, <3>2, TouchType, Zenon DEF StoreTypeOK
    <3> QED
      BY <2>1, <3>1, <3>3, AdvanceStep, Zenon
  <2>4. CASE ~Holds(mem, Op(t))
    <3>1. ConditionFails(t) /\ UNCHANGED <<mem, token>>
      BY <1>2, <2>4, Zenon DEF ApplyInsert, ConditionFails
    <3>2. StoreTypeOK'
      BY <1>1, <2>1, <3>1, Zenon DEF StoreTypeOK
    <3> QED
      BY <2>1, <3>1, <3>2, FailStep, Zenon
  <2> QED
    BY <2>3, <2>4, Zenon
<1>3. ASSUME ApplyErase(t)
      PROVE  CInv'
  <2>1. Applying(t) /\ UNCHANGED <<wal, durable, base, image, nextSeq, crashes, torn, opt>>
    BY <1>3, Zenon DEF ApplyErase, logVars, boundVars, restVars
  <2>2. Op(t).key \in Keys
    BY <2>1, OpType, Zenon
  <2>3. CASE Holds(mem, Op(t))
    <3>1. mem' = Erased(mem, Op(t).key) /\ Touch(Op(t).key) /\ Advance(t)
      BY <1>3, <2>3, Zenon DEF ApplyErase
    <3>2. mem' \in Maps
      BY <1>1, <2>2, <3>1, ErasedType, Zenon DEF StoreTypeOK
    <3>3. StoreTypeOK'
      BY <1>1, <2>1, <3>1, <3>2, TouchType, Zenon DEF StoreTypeOK
    <3> QED
      BY <2>1, <3>1, <3>3, AdvanceStep, Zenon
  <2>4. CASE UNCHANGED <<mem, token>>
    <3>1. StoreTypeOK'
      BY <1>1, <2>1, <2>4, Zenon DEF StoreTypeOK
    <3>2. CASE Advance(t)
      BY <2>1, <3>1, <3>2, AdvanceStep, Zenon
    <3>3. CASE ConditionFails(t)
      BY <2>1, <3>1, <3>3, FailStep, Zenon
    <3>4. Advance(t) \/ ConditionFails(t)
      BY <1>3, Zenon DEF ApplyErase
    <3> QED
      BY <3>2, <3>3, <3>4, Zenon
  <2>5. Holds(mem, Op(t)) \/ UNCHANGED <<mem, token>>
    BY <1>3, Zenon DEF ApplyErase, ConditionFails
  <2> QED
    BY <2>3, <2>4, <2>5, Zenon
<1>4. ASSUME ApplyAssert(t)
      PROVE  CInv'
  <2>1. /\ Applying(t) /\ Advance(t)
        /\ UNCHANGED <<mem, wal, durable, base, image, nextSeq, token, crashes, torn, opt>>
    BY <1>4, Zenon DEF ApplyAssert, logVars, boundVars, restVars
  <2>2. StoreTypeOK'
    BY <1>1, <2>1, Zenon DEF StoreTypeOK
  <2> QED
    BY <2>1, <2>2, AdvanceStep, Zenon
<1>5. ASSUME RenameErase(t)
      PROVE  CInv'
  <2>1. /\ Applying(t) /\ Op(t).kind = "rename" /\ mem' = Erased(mem, Op(t).key)
        /\ Touch(Op(t).key)
        /\ moved' = [moved EXCEPT ![t] = IF IsBatch(t) THEN mem[Op(t).key].val ELSE moved[t]]
        /\ pc' = [pc EXCEPT ![t] = "insert"]
        /\ UNCHANGED <<wal, durable, base, image, nextSeq, crashes, torn, opt,
                       req, got, seq, at, view>>
    BY <1>5, Zenon DEF RenameErase, logVars, boundVars, restVars
  <2>2. /\ Op(t).key \in Keys /\ mem[Op(t).key].val \in Nat /\ at[t] \in 1 .. Len(Ops(t))
        /\ req[t].call \in {"single", "batch"}
    BY <2>1, OpType, Zenon
  <2>3. mem' \in Maps
    BY <1>1, <2>1, <2>2, ErasedType, Zenon DEF StoreTypeOK
  <2>4. StoreTypeOK'
    BY <1>1, <2>1, <2>3, TouchType, Zenon DEF StoreTypeOK
  <2>5. moved' \in [Threads -> Nat] /\ pc'[t] = "insert" /\ pc[t] = "apply"
    BY <1>1, <2>1, <2>2, Zenon DEF CallTypeOK, Applying
  <2>6. Ops(t)' = Ops(t) /\ Op(t)' = Op(t) /\ Shards(t)' = Shards(t)
    BY <2>1, Zenon DEF Ops, Op, Shards
  <2>7. Control(t)'
    BY <1>1, <2>1, <2>2, <2>5, <2>6, Zenon DEF Control, SinglePcs, BatchPcs
  <2>8. InGate(t) /\ "insert" \in Pcs
    BY <2>5, Zenon DEF InGate, Pcs
  <2> QED
    BY <1>1, <2>1, <2>4, <2>5, <2>7, <2>8, MoveStep, Zenon DEF CallTypeOK
<1>6. ASSUME RenameInsert(t)
      PROVE  CInv'
  <2>1. /\ pc[t] = "insert" /\ pc' = [pc EXCEPT ![t] = "apply"]
        /\ mem' = Inserted(mem, Op(t).dst, moved[t], SeqNow(t))
        /\ Touch(Op(t).dst)
        /\ at' = [at EXCEPT ![t] = at[t] + 1]
        /\ UNCHANGED <<wal, durable, base, image, nextSeq, crashes, torn, opt,
                       req, got, seq, moved, view>>
    BY <1>6, Zenon DEF RenameInsert, Goto, logVars, boundVars, restVars
  <2>2. /\ Op(t).dst \in Keys /\ SeqNow(t) \in Nat /\ at[t] \in 1 .. Len(Ops(t))
        /\ req[t].call \in {"single", "batch"} /\ Ops(t) \in Seq(Operations)
    BY <2>1, OpType, Zenon
  <2>3. mem' \in Maps
    BY <1>1, <2>1, <2>2, InsertedType, Zenon DEF StoreTypeOK, CallTypeOK
  <2>4. StoreTypeOK'
    BY <1>1, <2>1, <2>3, TouchType, Zenon DEF StoreTypeOK
  <2>5. /\ pc'[t] = "apply" /\ at' \in [Threads -> Nat] /\ at'[t] = at[t] + 1
        /\ \A u \in Threads \ {t} : at'[u] = at[u]
    BY <1>1, <2>1 DEF CallTypeOK
  <2>6. Ops(t)' = Ops(t) /\ Shards(t)' = Shards(t)
    BY <2>1, Zenon DEF Ops, Shards
  <2>7. at'[t] \in 1 .. Len(Ops(t)) + 1
    BY <2>2, <2>5
  <2>8. Control(t)'
    BY <1>1, <2>1, <2>2, <2>5, <2>6, <2>7, Zenon DEF Control, SinglePcs, BatchPcs
  <2>9. InGate(t) /\ "apply" \in Pcs
    BY <2>1, Zenon DEF InGate, Pcs
  <2> QED
    BY <1>1, <2>1, <2>4, <2>5, <2>8, <2>9, MoveStep, Zenon DEF CallTypeOK
<1>7. ASSUME RenameStops(t)
      PROVE  CInv'
  <2>1. /\ Advance(t) \/ ConditionFails(t)
        /\ UNCHANGED <<mem, wal, durable, base, image, nextSeq, token, crashes, torn, opt>>
    BY <1>7, Zenon DEF RenameStops, ConditionFails, logVars, boundVars, restVars
  <2>2. StoreTypeOK'
    BY <1>1, <2>1, Zenon DEF StoreTypeOK
  <2>3. Applying(t)
    BY <1>7, Zenon DEF RenameStops
  <2>4. CASE Advance(t)
    BY <2>2, <2>3, <2>4, AdvanceStep, Zenon
  <2>5. CASE ConditionFails(t)
    BY <2>2, <2>3, <2>5, FailStep, Zenon
  <2> QED
    BY <2>1, <2>4, <2>5, Zenon
<1> QED
  BY <1>2, <1>3, <1>4, <1>5, <1>6, <1>7, Zenon

\* The last steps of a writer keep it.
LEMMA EndControl ==
  ASSUME Laws, CInv, NEW t \in Threads
  PROVE  /\ WalkerFails(t) => CInv'
         /\ Submit(t) => CInv'
         /\ Ack(t) => CInv'
<1>1. StoreTypeOK /\ CallTypeOK /\ Control(t)
  BY Zenon DEF CInv, TypeOK
<1>2. req[t] \in Reqs /\ Ops(t) \in Seq(Operations)
      /\ req[t].call \in {"none", "single", "batch", "view", "list"}
  BY <1>1, Zenon DEF CallTypeOK, Reqs, Ops
<1>3. ASSUME WalkerFails(t)
      PROVE  CInv'
  <2>1. /\ Return(t, "idle") /\ at' = [at EXCEPT ![t] = 1]
        /\ torn' = (torn \/ pc[t] = "insert" \/ at[t] > 1)
        /\ UNCHANGED <<mem, wal, durable, base, image, nextSeq, token, crashes, opt>>
    BY <1>3, Zenon DEF WalkerFails, logVars
  <2>2. torn' \in BOOLEAN
    BY <2>1, Zenon
  <2>3. StoreTypeOK'
    BY <1>1, <2>1, <2>2, Zenon DEF StoreTypeOK
  <2>4. /\ at' \in [Threads -> Nat] /\ at'[t] = 1
        /\ \A u \in Threads \ {t} : at'[u] = at[u]
    BY <1>1, <2>1, Zenon DEF CallTypeOK
  <2> QED
    BY <2>1, <2>3, <2>4, ReturnStep, Zenon
<1>4. ASSUME Submit(t)
      PROVE  CInv'
  <2> DEFINE r == Record(Ops(t), seq[t])
             n == IF WalSync THEN Len(wal) + 1 ELSE 1
  <2>1. /\ pc[t] = "apply" /\ wal' = Append(wal, r) /\ at' = [at EXCEPT ![t] = n]
        /\ UNCHANGED <<mem, durable, base, image, nextSeq, token, crashes, torn, opt>>
    BY <1>4, Zenon DEF Submit, boundVars, restVars
  <2>2. r \in WalRecords
    BY <1>1, <1>2, Zenon DEF CallTypeOK, Laws, RecordTypeLaw
  <2>3. n \in Nat /\ (~WalSync => n = 1)
    BY <1>1 DEF StoreTypeOK
  <2> HIDE DEF r, n
  <2>4. wal' \in Seq(WalRecords) /\ Len(wal') = Len(wal) + 1
    BY <1>1, <2>1, <2>2 DEF StoreTypeOK
  <2>5. StoreTypeOK'
    BY <1>1, <2>1, <2>4 DEF StoreTypeOK
  <2>6. /\ at' \in [Threads -> Nat] /\ at'[t] = n
        /\ \A u \in Threads \ {t} : at'[u] = at[u]
    BY <1>1, <2>1, <2>3, Zenon DEF CallTypeOK
  <2>7. CASE IsBatch(t) /\ WalSync
    <3>1. /\ pc' = [pc EXCEPT ![t] = "ack"] /\ pc'[t] = "ack"
          /\ UNCHANGED <<req, got, seq, moved, view>>
      BY <1>1, <1>4, <2>7, Zenon DEF Submit, Goto, CallTypeOK
    <3>2. Control(t)'
      BY <1>1, <2>1, <2>7, <3>1, Zenon DEF Control, BatchPcs, IsBatch, Ops
    <3>3. InGate(t) /\ "ack" \in Pcs
      BY <2>1, Zenon DEF InGate, Pcs
    <3> QED
      BY <1>1, <2>5, <2>6, <3>1, <3>2, <3>3, MoveStep, Zenon DEF CallTypeOK
  <2>8. CASE ~(IsBatch(t) /\ WalSync) /\ WalSync
    <3>1. Return(t, "ack")
      BY <1>4, <2>8, Zenon DEF Submit
    <3> QED
      BY <2>5, <2>6, <3>1, ReturnStep, Zenon
  <2>9. CASE ~WalSync
    <3>1. Return(t, "idle")
      BY <1>4, <2>9, Zenon DEF Submit
    <3> QED
      BY <2>3, <2>5, <2>6, <2>9, <3>1, ReturnStep, Zenon
  <2> QED
    BY <2>7, <2>8, <2>9, Zenon
<1>5. ASSUME Ack(t)
      PROVE  CInv'
  <2>1. /\ Return(t, "idle") /\ at' = [at EXCEPT ![t] = 1]
        /\ UNCHANGED <<mem, wal, durable, base, image, nextSeq, token, crashes, torn, opt>>
    BY <1>5, Zenon DEF Ack, logVars, boundVars, restVars
  <2>2. StoreTypeOK'
    BY <1>1, <2>1, Zenon DEF StoreTypeOK
  <2>3. /\ at' \in [Threads -> Nat] /\ at'[t] = 1
        /\ \A u \in Threads \ {t} : at'[u] = at[u]
    BY <1>1, <2>1, Zenon DEF CallTypeOK
  <2> QED
    BY <2>1, <2>2, <2>3, ReturnStep, Zenon
<1> QED
  BY <1>3, <1>4, <1>5, Zenon

\* The steps of views and listings keep it.
LEMMA ReadControl ==
  ASSUME CInv, NEW t \in Threads
  PROVE  /\ (\E b \in Blobs : CopyBlob(t, b)) => CInv'
         /\ EndCapture(t) => CInv'
         /\ (\E c \in Calls : List(t, c)) => CInv'
         /\ Consult(t) => CInv'
         /\ EpochBefore(t) => CInv'
         /\ EnterScan(t) => CInv'
         /\ (\E b \in Blobs : ScanBlob(t, b)) => CInv'
         /\ StoreListing(t) => CInv'
<1>1. StoreTypeOK /\ CallTypeOK /\ Control(t) /\ opt \in DOMAIN Options
  BY Zenon DEF CInv, TypeOK, StoreTypeOK
<1>2. /\ req[t] \in Reqs /\ view[t] \in Views
      /\ req[t].call \in {"none", "single", "batch", "view", "list"}
  BY <1>1, Zenon DEF CallTypeOK, Reqs
<1>3. ASSUME UNCHANGED <<mem, wal, durable, base, image, nextSeq, token, crashes, torn, opt>>
      PROVE  StoreTypeOK'
  BY <1>1, <1>3, Zenon DEF StoreTypeOK
<1>4. ASSUME NEW b \in Blobs
      PROVE  [k \in DOMAIN view[t] \cup {j \in Keys : BlobOf[j] = b} |->
                IF BlobOf[k] = b THEN mem[k] ELSE view[t][k]] \in Views
  <2>1. PICK S \in SUBSET Keys : view[t] \in [S -> Records]
    BY <1>2, Zenon DEF Views
  <2> DEFINE T == S \cup {j \in Keys : BlobOf[j] = b}
             f == [k \in T |-> IF BlobOf[k] = b THEN mem[k] ELSE view[t][k]]
  <2>2. T \in SUBSET Keys /\ DOMAIN view[t] = S
    BY <2>1, Zenon
  <2>3. f \in [T -> Records]
    BY <1>1, <2>1, Zenon DEF StoreTypeOK, Maps
  <2>4. f \in Views
    BY <2>2, <2>3, Zenon DEF Views
  <2> QED
    BY <2>2, <2>4, Zenon
<1>5. ASSUME NEW b \in Blobs, CopyBlob(t, b)
      PROVE  CInv'
  <2> DEFINE v == [k \in DOMAIN view[t] \cup {j \in Keys : BlobOf[j] = b} |->
                     IF BlobOf[k] = b THEN mem[k] ELSE view[t][k]]
             to == IF DOMAIN view'[t] = Keys THEN "viewed" ELSE "capture"
  <2>1. /\ pc[t] = "capture" /\ view' = [view EXCEPT ![t] = v]
        /\ pc' = [pc EXCEPT ![t] = to]
        /\ UNCHANGED <<mem, wal, durable, base, image, nextSeq, token, crashes, torn, opt>>
        /\ UNCHANGED <<req, got, seq, at, moved>>
    BY <1>5, Zenon DEF CopyBlob, logVars, boundVars, restVars
  <2>2. v \in Views
    BY <1>4, Zenon
  <2>3. to \in {"viewed", "capture"} /\ to \in Pcs
    BY Zenon DEF Pcs
  <2> HIDE DEF v, to
  <2>4. /\ view' \in [Threads -> Views] /\ pc'[t] = to
        /\ \A u \in Threads \ {t} : view'[u] = view[u]
    BY <1>1, <2>1, <2>2, Zenon DEF CallTypeOK
  <2>5. Control(t)'
    BY <1>1, <2>1, <2>3, <2>4, Zenon DEF Control, SinglePcs, BatchPcs, Ops
  <2>6. InGate(t)
    BY <2>1, Zenon DEF InGate
  <2> QED
    BY <1>1, <1>3, <2>1, <2>3, <2>4, <2>5, <2>6, MoveStep, Zenon DEF CallTypeOK
<1>6. ASSUME EndCapture(t)
      PROVE  CInv'
  <2>1. /\ pc[t] = "viewed" /\ Return(t, "idle") /\ UNCHANGED at
        /\ UNCHANGED <<mem, wal, durable, base, image, nextSeq, token, crashes, torn, opt>>
    BY <1>6, Zenon DEF EndCapture, logVars, boundVars, restVars
  <2>2. at[t] = 1
    BY <1>1, <2>1, Zenon DEF Control
  <2> QED
    BY <1>1, <1>3, <2>1, <2>2, ReturnStep, Zenon DEF CallTypeOK
<1>7. ASSUME NEW c \in Calls, List(t, c)
      PROVE  CInv'
  <2>1. /\ pc[t] = "idle" /\ pc' = [pc EXCEPT ![t] = "consult"] /\ c.call = "list"
        /\ req' = [req EXCEPT ![t] = c] /\ seq' = [seq EXCEPT ![t] = nextSeq]
        /\ UNCHANGED <<mem, wal, durable, base, image, nextSeq, token, crashes, torn, opt>>
        /\ UNCHANGED <<got, at, moved, view>>
    BY <1>7, Zenon DEF List, Goto, logVars, boundVars, restVars
  <2>2. c.ops = <<>> /\ c = [call |-> c.call, ops |-> c.ops] /\ c.ops \in Seq(Operations)
    BY <1>1, <2>1, CallsType, Zenon
  <2>3. c \in Reqs /\ "consult" \in Pcs /\ nextSeq \in Nat
    BY <1>1, <2>1, <2>2, Zenon DEF Reqs, Pcs, StoreTypeOK
  <2>4. CallTypeOK'
    BY <1>1, <2>1, <2>3, Zenon DEF CallTypeOK
  <2>5. pc'[t] = "consult" /\ req'[t] = c /\ Local(t)
    BY <1>1, <2>1, Zenon DEF CallTypeOK, Local
  <2>6. Control(t)'
    BY <1>1, <2>1, <2>2, <2>5, Zenon DEF Control, Ops
  <2>7. ~InGate(t)'
    BY <2>5, Zenon DEF InGate
  <2> QED
    BY <1>3, <2>1, <2>4, <2>5, <2>6, <2>7, KeepStep, Zenon DEF TypeOK
<1>8. ASSUME Consult(t)
      PROVE  CInv'
  <2>1. /\ pc[t] = "consult" /\ UNCHANGED at
        /\ UNCHANGED <<mem, wal, durable, base, image, nextSeq, token, crashes, torn, opt>>
    BY <1>8, Zenon DEF Consult, logVars, boundVars, restVars
  <2>2. at[t] = 1
    BY <1>1, <2>1, Zenon DEF Control
  <2>3. CASE Return(t, "idle")
    BY <1>1, <1>3, <2>1, <2>2, <2>3, ReturnStep, Zenon DEF CallTypeOK
  <2>4. CASE pc' = [pc EXCEPT ![t] = "missed"] /\ UNCHANGED <<req, got, seq, moved, view>>
    <3>1. pc'[t] = "missed" /\ "missed" \in Pcs
      BY <1>1, <2>4, Zenon DEF CallTypeOK, Pcs
    <3>2. Control(t)'
      BY <1>1, <2>1, <2>4, <3>1, Zenon DEF Control, SinglePcs, BatchPcs, Ops
    <3>3. ~InGate(t)'
      BY <3>1, Zenon DEF InGate
    <3> QED
      BY <1>1, <1>3, <2>1, <2>4, <3>1, <3>2, <3>3, MoveStep, Zenon DEF CallTypeOK
  <2> QED
    BY <1>8, <2>3, <2>4, Zenon DEF Consult
<1>9. ASSUME EpochBefore(t)
      PROVE  CInv'
  <2>1. /\ pc[t] = "missed" /\ seq' = [seq EXCEPT ![t] = nextSeq] /\ got' = [got EXCEPT ![t] = 1]
        /\ UNCHANGED <<mem, wal, durable, base, image, nextSeq, token, crashes, torn, opt>>
        /\ UNCHANGED <<pc, req, at, moved, view>>
    BY <1>9, Zenon DEF EpochBefore, logVars, boundVars, restVars
  <2>2. CallTypeOK'
    BY <1>1, <2>1, Zenon DEF CallTypeOK, StoreTypeOK
  <2>3. req[t].call = "list" /\ Local(t)
    BY <1>1, <1>2, <2>1, Zenon DEF Control, SinglePcs, BatchPcs, CallTypeOK, Local
  <2>4. Control(t)'
    BY <1>1, <2>1, <2>3, Zenon DEF Control, Ops
  <2>5. ~InGate(t)'
    BY <2>1, Zenon DEF InGate
  <2> QED
    BY <1>3, <2>1, <2>2, <2>3, <2>4, <2>5, KeepStep, Zenon DEF TypeOK
<1>10. ASSUME EnterScan(t)
       PROVE  CInv'
  <2>1. /\ pc[t] = "missed" /\ pc' = [pc EXCEPT ![t] = "scan"] /\ Admitted(t, req[t])
        /\ UNCHANGED <<mem, wal, durable, base, image, nextSeq, token, crashes, torn, opt>>
        /\ UNCHANGED <<req, got, seq, at, moved, view>>
    BY <1>10, Zenon DEF EnterScan, Goto, logVars, boundVars, restVars
  <2>2. CallTypeOK' /\ pc'[t] = "scan"
    BY <1>1, <2>1, Zenon DEF CallTypeOK, Pcs
  <2>3. req[t].call = "list" /\ Local(t)
    BY <1>1, <1>2, <2>1, Zenon DEF Control, SinglePcs, BatchPcs, CallTypeOK, Local
  <2>4. Control(t)'
    BY <1>1, <2>1, <2>2, <2>3, Zenon DEF Control, Ops
  <2>5. \A u \in Threads \ {t} : InGate(t)' /\ InGate(u) =>
          {req'[t].call, req[u].call} \subseteq {"single", "list"}
    BY <2>1, Zenon DEF Admitted
  <2>6. HeldShards(t)' = {}
    BY <2>1, <2>3, Zenon DEF HeldShards
  <2> QED
    BY <1>3, <2>1, <2>2, <2>3, <2>4, <2>5, <2>6, LocalStep, Zenon DEF TypeOK
<1>11. ASSUME NEW b \in Blobs, ScanBlob(t, b)
       PROVE  CInv'
  <2> DEFINE v == [k \in DOMAIN view[t] \cup {j \in Keys : BlobOf[j] = b} |->
                     IF BlobOf[k] = b THEN mem[k] ELSE view[t][k]]
  <2>1. /\ pc[t] = "scan" /\ view' = [view EXCEPT ![t] = v]
        /\ UNCHANGED <<mem, wal, durable, base, image, nextSeq, token, crashes, torn, opt>>
        /\ UNCHANGED <<pc, req, got, seq, at, moved>>
    BY <1>11, Zenon DEF ScanBlob, logVars, boundVars, restVars
  <2>2. v \in Views
    BY <1>4, Zenon
  <2> HIDE DEF v
  <2>3. CallTypeOK' /\ Local(t)
    BY <1>1, <2>1, <2>2, Zenon DEF CallTypeOK, Local
  <2>4. Control(t)'
    BY <1>1, <2>1, Zenon DEF Control, Ops, Op, Shards
  <2>5. InGate(t)' <=> InGate(t)
    BY <2>1, Zenon DEF InGate, IsBatch
  <2> QED
    BY <1>3, <2>1, <2>3, <2>4, <2>5, KeepStep, Zenon DEF TypeOK
<1>12. ASSUME StoreListing(t)
       PROVE  CInv'
  <2>1. /\ pc[t] = "scan" /\ Return(t, "idle") /\ UNCHANGED at
        /\ UNCHANGED <<mem, wal, durable, base, image, nextSeq, token, crashes, torn, opt>>
    BY <1>12, Zenon DEF StoreListing, logVars, boundVars
  <2>2. at[t] = 1
    BY <1>1, <2>1, Zenon DEF Control
  <2> QED
    BY <1>1, <1>3, <2>1, <2>2, ReturnStep, Zenon DEF CallTypeOK
<1> QED
  BY <1>5, <1>6, <1>7, <1>8, <1>9, <1>10, <1>11, <1>12, Zenon

\* The log, the checkpointer and a crash keep it.
LEMMA StoreControl ==
  ASSUME Laws, CInv
  PROVE  /\ Sync => CInv'
         /\ (\E b \in Blobs : FlushBlob(b)) => CInv'
         /\ Truncate => CInv'
         /\ Crash => CInv'
<1>1. StoreTypeOK /\ CallTypeOK
  BY Zenon DEF CInv, TypeOK
<1>2. ASSUME Sync
      PROVE  CInv'
  <2>1. StoreTypeOK'
    BY <1>1, <1>2 DEF Sync, StoreTypeOK, boundVars, restVars
  <2> QED
    BY <1>2, <2>1, IdleStep, Zenon DEF Sync
<1>3. ASSUME NEW b \in Blobs, FlushBlob(b)
      PROVE  CInv'
  <2>1. image' \in Maps
    BY <1>1, <1>3, Zenon DEF FlushBlob, StoreTypeOK, Maps
  <2>2. StoreTypeOK'
    BY <1>1, <1>3, <2>1 DEF FlushBlob, StoreTypeOK, restVars
  <2> QED
    BY <1>3, <2>2, IdleStep, Zenon DEF FlushBlob
<1>4. ASSUME Truncate
      PROVE  CInv'
  <2>1. StoreTypeOK'
    BY <1>1, <1>4 DEF Truncate, StoreTypeOK, boundVars, restVars
  <2>2. /\ UNCHANGED <<pc, req, got, seq, moved, view>>
        /\ at' = [t \in Threads |-> IF pc[t] = "ack" THEN 0 ELSE at[t]]
    BY <1>4, Zenon DEF Truncate
  <2>3. TypeOK'
    BY <1>1, <2>1, <2>2, Zenon DEF TypeOK, CallTypeOK
  <2>4. ASSUME NEW t \in Threads
        PROVE  Control(t)'
    <3>1. Control(t) /\ at'[t] = IF pc[t] = "ack" THEN 0 ELSE at[t]
      BY <2>2, Zenon DEF CInv
    <3>2. Ops(t)' = Ops(t) /\ Shards(t)' = Shards(t)
      BY <2>2, Zenon DEF Ops, Shards
    <3> QED
      BY <2>2, <3>1, <3>2, Zenon DEF Control, Op
  <2>5. GateHolds' /\ ShardsHold'
    BY <2>2 DEF CInv, GateHolds, ShardsHold, InGate, IsBatch, HeldShards, Ops
  <2> QED
    BY <2>3, <2>4, <2>5, Zenon DEF CInv
<1>5. ASSUME Crash
      PROVE  CInv'
  <2>1. /\ wal' \in Seq(WalRecords) /\ durable' \in 0 .. Len(wal')
    <3>1. PICK n \in durable .. Len(wal) : wal' = SubSeq(wal, 1, n) /\ durable' = n
      BY <1>5, Zenon DEF Crash
    <3>2. n \in 0 .. Len(wal)
      BY <1>1 DEF StoreTypeOK
    <3>3. SubSeq(wal, 1, n) \in Seq(WalRecords) /\ Len(SubSeq(wal, 1, n)) = n
      BY <1>1, <3>2 DEF StoreTypeOK
    <3> QED
      BY <3>1, <3>2, <3>3
  <2>2. mem' = Replay(image, wal') /\ nextSeq' = NextSeqAfter(wal')
    BY <1>5, Zenon DEF Crash
  <2>3. mem' \in Maps /\ nextSeq' \in Nat
    BY <1>1, <2>1, <2>2, Zenon DEF StoreTypeOK, Laws, ReplayTypeLaw, NextSeqLaw
  <2>4. StoreTypeOK'
    BY <1>1, <1>5, <2>1, <2>3 DEF Crash, StoreTypeOK
  <2>5. \A t \in Threads : /\ pc'[t] = "idle" /\ req'[t] = NoCall /\ got'[t] = 0
                           /\ at'[t] = 1 /\ view'[t] = NoView
    BY <1>5, Zenon DEF Crash
  <2>6. CallTypeOK'
    BY <1>5, NoCallType, Zenon DEF Crash, CallTypeOK, Pcs
  <2>7. \A t \in Threads : Control(t)'
    BY <2>5, NoCallType, Zenon DEF Control, Ops
  <2>8. GateHolds'
    BY <2>5, Zenon DEF GateHolds, InGate
  <2>9. ShardsHold'
    BY <2>5, NoCallType, Zenon DEF ShardsHold, HeldShards
  <2> QED
    BY <2>4, <2>6, <2>7, <2>8, <2>9, Zenon DEF CInv, TypeOK
<1> QED
  BY <1>2, <1>3, <1>4, <1>5, Zenon

\* Every step keeps the control invariant.
LEMMA ControlStep ==
  ASSUME Laws, CInv, [Next]_vars
  PROVE  CInv'
<1>1. CASE UNCHANGED vars
  <2>1. StoreTypeOK' /\ UNCHANGED callVars
    BY <1>1, Zenon DEF vars, CInv, TypeOK, StoreTypeOK, logVars, boundVars, restVars
  <2> QED
    BY <2>1, IdleStep, Zenon
<1>2. ASSUME NEW t \in Threads,
             \/ \E k \in TokenKeys : GetVersion(t, k)
             \/ \E c \in Calls : Call(t, c)
             \/ LockShard(t) \/ TakeSeq(t) \/ Probe(t) \/ PreflightBatch(t)
      PROVE  CInv'
  BY <1>2, EnterControl, Zenon
<1>3. ASSUME NEW t \in Threads,
             \/ ApplyInsert(t) \/ ApplyErase(t) \/ ApplyAssert(t)
             \/ RenameErase(t) \/ RenameInsert(t) \/ RenameStops(t)
      PROVE  CInv'
  BY <1>3, ApplyControl, Zenon
<1>4. ASSUME NEW t \in Threads, WalkerFails(t) \/ Submit(t) \/ Ack(t)
      PROVE  CInv'
  BY <1>4, EndControl, Zenon
<1>5. ASSUME NEW t \in Threads,
             \/ \E b \in Blobs : CopyBlob(t, b)
             \/ EndCapture(t)
             \/ \E c \in Calls : List(t, c)
             \/ Consult(t) \/ EpochBefore(t) \/ EnterScan(t)
             \/ \E b \in Blobs : ScanBlob(t, b)
             \/ StoreListing(t)
      PROVE  CInv'
  BY <1>5, ReadControl, Zenon
<1>6. CASE Sync \/ (\E b \in Blobs : FlushBlob(b)) \/ Truncate \/ Crash
  BY <1>6, StoreControl, Zenon
<1> QED
  BY <1>1, <1>2, <1>3, <1>4, <1>5, <1>6, Zenon DEF Next

\* It holds at first.
LEMMA ControlInit ==
  Init => CInv
<1> SUFFICES ASSUME Init
             PROVE  CInv
  BY Zenon
<1>1. [k \in Keys |-> Absent] \in Maps
  BY Zenon DEF Maps, Records, Absent
<1>2. StoreTypeOK
  <2>1. wal \in Seq(WalRecords) /\ durable \in 0 .. Len(wal) /\ nextSeq \in Nat
    BY DEF Init
  <2>2. token \in [Threads -> Tokens \cup {NoToken}]
    BY Zenon DEF Init
  <2> QED
    BY <1>1, <2>1, <2>2, Zenon DEF Init, StoreTypeOK
<1>3. CallTypeOK
  BY NoCallType, Zenon DEF Init, CallTypeOK, Pcs
<1>4. \A t \in Threads : /\ pc[t] = "idle" /\ req[t] = NoCall /\ got[t] = 0
                         /\ at[t] = 1 /\ view[t] = NoView
  BY Zenon DEF Init
<1>5. \A t \in Threads : Control(t)
  BY <1>4, NoCallType, Zenon DEF Control, Ops
<1>6. GateHolds
  BY <1>4, Zenon DEF GateHolds, InGate
<1>7. ShardsHold
  BY <1>4, NoCallType, Zenon DEF ShardsHold, HeldShards
<1> QED
  BY <1>2, <1>3, <1>5, <1>6, <1>7, Zenon DEF CInv, TypeOK

\* A call that waits for its second shard holds a lower one.
LEMMA WaitsAbove ==
  ASSUME CInv, NEW t \in Threads, Waiting(t)
  PROVE  /\ got[t] \in {0, 1} /\ Shards(t)[got[t] + 1] \in 0 .. 255
         /\ got[t] = 1 => Shards(t)[1] < Shards(t)[got[t] + 1]
<1>1. Control(t) /\ TypeOK
  BY Zenon DEF CInv
<1>2. req[t].call = "single"
  BY <1>1, Zenon DEF Waiting, Control, BatchPcs, TypeOK, CallTypeOK, Reqs
<1>3. Ops(t) \in Seq(Operations) /\ Len(Ops(t)) = 1 /\ got[t] \in Nat
  BY <1>1, <1>2, Zenon DEF Control, TypeOK, CallTypeOK, Reqs, Ops
<1>4. Ops(t)[1] \in Operations
  BY <1>3
<1>5. /\ Len(Shards(t)) \in {1, 2}
      /\ \A i \in 1 .. Len(Shards(t)) : Shards(t)[i] \in 0 .. 255
      /\ Len(Shards(t)) = 2 => Shards(t)[1] < Shards(t)[2]
  BY <1>4, LockOrderType, Zenon DEF Shards
<1>6. got[t] <= Len(Shards(t)) /\ got[t] # Len(Shards(t))
  BY <1>1, <1>2, Zenon DEF Control, Waiting
<1>7. CASE got[t] = 0
  <2>1. got[t] + 1 = 1 /\ 1 \in 1 .. Len(Shards(t))
    BY <1>5, <1>7
  <2>2. Shards(t)[1] \in 0 .. 255
    BY <1>5, <2>1, Zenon
  <2> QED
    BY <1>7, <2>1, <2>2
<1>8. CASE got[t] # 0
  <2>1. got[t] = 1 /\ Len(Shards(t)) = 2
    BY <1>3, <1>5, <1>6, <1>8
  <2> QED
    BY <1>5, <2>1
<1> QED
  BY <1>7, <1>8, Zenon

\* Shards are locked in ascending order, so the waiting call that waits for
\* the highest shard is not part of a cycle.
LEMMA NoCycle ==
  ASSUME Laws
  PROVE  CInv => NoLockCycle
<1> DEFINE W(t) == Shards(t)[got[t] + 1]
           L == {t \in Threads : Waiting(t)}
           S == {255 - W(t) : t \in L}
<1> SUFFICES ASSUME CInv, NEW o \in Threads, Waiting(o),
                    \A t \in Threads : InGate(t) =>
                      Waiting(t) /\ \E u \in Threads \ {t} : W(t) \in HeldShards(u)
             PROVE  FALSE
  BY Zenon DEF NoLockCycle, NextShardFree, Shards, Waiting
<1>1. \A t \in L : /\ got[t] \in {0, 1} /\ W(t) \in 0 .. 255
                   /\ got[t] = 1 => Shards(t)[1] < W(t)
  BY WaitsAbove, Zenon
<1>2. S \in SUBSET Nat /\ 255 - W(o) \in S
  <2>1. \A x \in 0 .. 255 : 255 - x \in Nat
    OBVIOUS
  <2> HIDE DEF W
  <2> QED
    BY <1>1, <2>1, Zenon
<1>3. PICK n \in S : \A m \in S : n <= m
  <2> HIDE DEF S
  <2> QED
    BY <1>2, Zenon DEF Laws, LeastLaw
<1>4. PICK t \in L : n = 255 - W(t)
  BY Zenon
<1>5. PICK u \in Threads \ {t} : W(t) \in HeldShards(u)
  <2>1. InGate(t)
    BY Zenon DEF InGate, Waiting
  <2> QED
    BY <2>1, Zenon
<1>6. req[u].call = "single" /\ \E i \in 1 .. got[u] : W(t) = Shards(u)[i]
  BY <1>5, Zenon DEF HeldShards, Shards
<1>7. Waiting(u)
  <2>1. pc[u] \in SinglePcs
    BY <1>6, Zenon DEF CInv, Control
  <2>2. InGate(u)
    BY <2>1, Zenon DEF InGate, SinglePcs
  <2> QED
    BY <2>2, Zenon
<1>8. W(t) < W(u) /\ W(u) \in 0 .. 255 /\ W(t) \in 0 .. 255
  <2>1. got[u] \in {0, 1} /\ W(u) \in 0 .. 255 /\ (got[u] = 1 => Shards(u)[1] < W(u))
    BY <1>1, <1>7, Zenon
  <2>2. got[u] = 1 /\ W(t) = Shards(u)[1]
    BY <1>6, <2>1
  <2>3. W(t) \in 0 .. 255
    BY <1>1, Zenon
  <2> QED
    BY <2>1, <2>2, <2>3, Zenon
<1>9. n <= 255 - W(u)
  <2>1. 255 - W(u) \in S
    BY <1>7, Zenon
  <2> HIDE DEF W, S
  <2> QED
    BY <1>3, <2>1, Zenon
<1>10. \A x, y \in 0 .. 255 : x < y => ~(255 - x <= 255 - y)
  OBVIOUS
<1> HIDE DEF W, L
<1> QED
  BY <1>4, <1>8, <1>9, <1>10, Zenon

-----------------------------------------------------------------------------
(* Data *)

\* A sequence of one operation.
LEMMA OneOp ==
  \A q \in Seq(Operations) : Len(q) = 1 => q[1] \in Operations /\ q = <<q[1]>>
OBVIOUS

\* A single call has one operation, on its keys.
LEMMA SingleType ==
  ASSUME CInv, NEW t \in Threads, req[t].call = "single"
  PROVE  /\ Ops(t) \in Seq(Operations) /\ Len(Ops(t)) = 1 /\ Ops(t)[1] \in Operations
         /\ Ops(t) = <<Ops(t)[1]>> /\ Ops(t)[1].kind \notin Asserts
         /\ InGate(t) /\ KeysOf(Ops(t)[1]) \subseteq Keys
<1>1. Control(t) /\ TypeOK
  BY Zenon DEF CInv
<1>2. Ops(t) \in Seq(Operations)
  BY <1>1, Zenon DEF TypeOK, CallTypeOK, Reqs, Ops
<1>3. Len(Ops(t)) = 1 /\ Ops(t)[1].kind \notin Asserts /\ pc[t] \in SinglePcs
  BY <1>1, Zenon DEF Control
<1>4. \A q \in Seq(Operations) : Len(q) = 1 => q[1] \in Operations /\ q = <<q[1]>>
  BY OneOp, Zenon
<1>5. InGate(t)
  BY <1>3, Zenon DEF InGate, SinglePcs
<1>6. KeysOf(Ops(t)[1]) \subseteq Keys
  BY <1>2, <1>3, <1>4, Zenon DEF KeysOf, Operations
<1> QED
  BY <1>2, <1>3, <1>4, <1>5, <1>6, Zenon

\* Two calls past their locks write different keys.
LEMMA KeysDisjoint ==
  ASSUME CInv, NEW t \in Threads, NEW u \in Threads, t # u, Locked(t), Locked(u)
  PROVE  KeysOf(Ops(t)[1]) \cap KeysOf(Ops(u)[1]) = {}
<1>1. ASSUME NEW x \in Threads, Locked(x), NEW k \in KeysOf(Ops(x)[1])
      PROVE  Shard[k] \in HeldShards(x)
  <2>1. req[x].call = "single" /\ Control(x) /\ pc[x] # "lock"
    BY <1>1, Zenon DEF CInv, Locked
  <2>2. got[x] = Len(Shards(x))
    BY <2>1, Zenon DEF Control
  <2>3. \E i \in 1 .. Len(Shards(x)) : Shards(x)[i] = Shard[k]
    BY <1>1, <2>1, SingleType, LockOrderType, Zenon DEF Shards
  <2>4. HeldShards(x) = {Shards(x)[i] : i \in 1 .. got[x]}
    BY <2>1, Zenon DEF HeldShards, Shards
  <2> QED
    BY <2>2, <2>3, <2>4, Zenon
<1>2. HeldShards(t) \cap HeldShards(u) = {}
  BY Zenon DEF CInv, ShardsHold
<1> QED
  BY <1>1, <1>2, Zenon

\* Who writes is inside the gate; a batch there is alone.
LEMMA WriterType ==
  ASSUME CInv, NEW t \in Threads, Writing(t)
  PROVE  /\ InGate(t)
         /\ IsBatch(t) \/ Locked(t)
         /\ \A u \in Threads \ {t} : InGate(u) =>
              /\ ~IsBatch(t) /\ ~IsBatch(u) /\ req[u].call # "view"
              /\ req[t].call = "single"
<1>1. Control(t) /\ TypeOK
  BY Zenon DEF CInv
<1>2. InGate(t)
  BY Zenon DEF InGate, Writing
<1>3. req[t].call \in {"single", "batch"}
  BY <1>1, Zenon DEF Control, Writing, TypeOK, CallTypeOK, Reqs
<1>4. IsBatch(t) \/ Locked(t)
  BY <1>3, Zenon DEF IsBatch, Locked, Writing
<1>5. \A u \in Threads \ {t} : InGate(u) =>
        {req[t].call, req[u].call} \subseteq {"single", "list"}
  BY <1>2, Zenon DEF CInv, GateHolds
<1> QED
  BY <1>2, <1>3, <1>4, <1>5, Zenon DEF IsBatch

\* Nobody else writes the keys of a call past its locks.
LEMMA LockedQuiet ==
  ASSUME CInv, NEW t \in Threads, Locked(t), NEW k \in KeysOf(Ops(t)[1]),
         NEW u \in Threads \ {t}, Writing(u)
  PROVE  ~IsBatch(u) /\ k \notin KeysOf(Ops(u)[1])
<1>1. InGate(t)
  BY SingleType, Zenon DEF Locked
<1>2. ~IsBatch(u) /\ Locked(u)
  BY <1>1, WriterType, Zenon
<1>3. KeysOf(Ops(t)[1]) \cap KeysOf(Ops(u)[1]) = {}
  BY <1>2, KeysDisjoint, Zenon
<1> QED
  BY <1>2, <1>3, Zenon

\* A step of one thread that leaves memory and log alone keeps the invariant
\* if it keeps its own part, and what becomes quiet is logged.
LEMMA DataKeep ==
  ASSUME CInv, DInv, NEW t \in Threads, LocalData(t),
         UNCHANGED <<mem, base, wal>>, torn => torn',
         Faithful' => \A k \in Keys : Quiet(k)' /\ ~Quiet(k) => mem[k] = Logged[k],
         NoForcedSelfRename /\ IsBatch(t)' => Ops(t)' \in Seq(PlainOps),
         pc'[t] # "internal", SingleHolds(t)', BatchHolds(t)', ViewHolds(t)'
  PROVE  DInv'
<1>1. Faithful' => Faithful
  BY Zenon DEF Faithful
<1>2. Logged' = Logged
  BY Zenon DEF Logged
<1>3. LogHolds'
  BY <1>1, <1>2, Zenon DEF DInv, LogHolds
<1>4. ASSUME NEW u \in Threads \ {t}
      PROVE  /\ pc'[u] # "internal" /\ SingleHolds(u)' /\ BatchHolds(u)' /\ ViewHolds(u)'
             /\ NoForcedSelfRename /\ IsBatch(u)' => Ops(u)' \in Seq(PlainOps)
  <2>1. /\ pc'[u] = pc[u] /\ req'[u] = req[u] /\ at'[u] = at[u]
        /\ view'[u] = view[u] /\ seq'[u] = seq[u] /\ moved'[u] = moved[u]
    BY Zenon DEF LocalData
  <2>2. pc[u] # "internal" /\ SingleHolds(u) /\ BatchHolds(u) /\ ViewHolds(u)
    BY Zenon DEF DInv
  <2>3. Ops(u)' = Ops(u) /\ (IsBatch(u)' <=> IsBatch(u)) /\ (Writing(u)' <=> Writing(u))
        /\ Op(u)' = Op(u)
    BY <2>1, Zenon DEF Ops, IsBatch, Writing, Op
  <2>4. SingleHolds(u)'
    <3>1. SingleAt(u) => SingleAt(u)'
      BY <1>2, <2>1, <2>3, Zenon DEF SingleAt
    <3> QED
      BY <1>1, <2>2, <2>3, <3>1, Zenon DEF SingleHolds
  <2>5. BatchHolds(u)'
    <3>1. SUFFICES ASSUME Writing(u), IsBatch(u), NEW m \in Maps, BatchAt(u, m)
                   PROVE  BatchAt(u, m)'
      BY <2>2, <2>3, Zenon DEF BatchHolds
    <3> QED
      BY <1>1, <1>2, <2>1, <2>3, <3>1, Zenon DEF BatchAt
  <2>6. ViewHolds(u)'
    BY <1>1, <1>2, <2>1, <2>2, Zenon DEF ViewHolds
  <2>7. NoForcedSelfRename /\ IsBatch(u)' => Ops(u)' \in Seq(PlainOps)
    BY <2>3, Zenon DEF DInv, PlainBatches
  <2> QED
    BY <2>1, <2>2, <2>4, <2>5, <2>6, <2>7, Zenon
<1>5. PlainBatches'
  BY <1>4, Zenon DEF PlainBatches
<1> QED
  BY <1>3, <1>4, <1>5, Zenon DEF DInv

\* A step that leaves the keys of a thread as quiet as they were.
LEMMA QuietKeep ==
  ASSUME NEW t \in Threads, LocalData(t), NEW k \in Keys, Quiet(k)',
         Writing(t) => ~IsBatch(t) /\ k \notin KeysOf(Ops(t)[1])
  PROVE  Quiet(k)
<1>1. \A u \in Threads \ {t} :
        /\ Writing(u)' <=> Writing(u)
        /\ IsBatch(u)' <=> IsBatch(u)
        /\ Ops(u)' = Ops(u)
  BY Zenon DEF LocalData, Writing, IsBatch, Ops
<1> QED
  BY <1>1, Zenon DEF Quiet

\* A call writes its keys, or all of them if it is a batch.
LEMMA DataWrite ==
  ASSUME CInv, DInv, NEW t \in Threads, LocalData(t), Writing(t), Writing(t)',
         UNCHANGED <<base, wal, torn, req>>,
         ~IsBatch(t) => \A k \in Keys \ KeysOf(Ops(t)[1]) : mem'[k] = mem[k],
         view'[t] = view[t], SingleHolds(t)', BatchHolds(t)'
  PROVE  DInv'
<1>1. Logged' = Logged /\ (Faithful' <=> Faithful)
  BY Zenon DEF Logged, Faithful
<1>2. \A u \in Threads : /\ Writing(u)' <=> Writing(u)
                         /\ IsBatch(u)' <=> IsBatch(u)
                         /\ Ops(u)' = Ops(u)
  BY Zenon DEF LocalData, Writing, IsBatch, Ops
<1>3. \A k \in Keys : Quiet(k)' <=> Quiet(k)
  BY <1>2, Zenon DEF Quiet
<1>4. \A k \in Keys : Quiet(k) => ~IsBatch(t) /\ k \notin KeysOf(Ops(t)[1])
  BY Zenon DEF Quiet
<1>5. LogHolds'
  BY <1>1, <1>3, <1>4, Zenon DEF DInv, LogHolds
<1>6. PlainBatches'
  BY <1>2, Zenon DEF DInv, PlainBatches
<1>7. ASSUME NEW u \in Threads \ {t}
      PROVE  pc'[u] # "internal" /\ SingleHolds(u)' /\ BatchHolds(u)' /\ ViewHolds(u)'
  <2>1. /\ pc'[u] = pc[u] /\ req'[u] = req[u] /\ at'[u] = at[u]
        /\ view'[u] = view[u] /\ seq'[u] = seq[u] /\ moved'[u] = moved[u]
    BY Zenon DEF LocalData
  <2>2. pc[u] # "internal" /\ SingleHolds(u) /\ ViewHolds(u)
    BY Zenon DEF DInv
  <2>3. CASE Writing(u)
    <3>1. InGate(u)
      BY <2>3, WriterType, Zenon
    <3>2. ~IsBatch(t) /\ ~IsBatch(u) /\ Locked(t) /\ Locked(u)
      BY <2>3, <3>1, WriterType, Zenon
    <3>3. /\ KeysOf(Ops(t)[1]) \cap KeysOf(Ops(u)[1]) = {}
          /\ KeysOf(Ops(u)[1]) \subseteq Keys
      BY <3>2, KeysDisjoint, SingleType, Zenon DEF Locked
    <3>4. \A k \in KeysOf(Ops(u)[1]) : mem'[k] = mem[k]
      BY <3>2, <3>3, Zenon
    <3>5. Ops(u)[1].key \in KeysOf(Ops(u)[1])
      BY Zenon DEF KeysOf
    <3>6. SingleHolds(u)'
      <4>1. SingleAt(u) => SingleAt(u)'
        BY <1>1, <1>2, <2>1, <3>4, <3>5, Zenon DEF SingleAt
      <4> QED
        BY <1>1, <1>2, <2>2, <4>1, Zenon DEF SingleHolds
    <3>7. BatchHolds(u)'
      BY <1>2, <3>2, Zenon DEF BatchHolds
    <3>8. ViewHolds(u)'
      BY <1>1, <2>1, <2>2, Zenon DEF ViewHolds
    <3> QED
      BY <2>1, <2>2, <3>6, <3>7, <3>8, Zenon
  <2>4. CASE ~Writing(u)
    <3>1. SingleHolds(u)' /\ BatchHolds(u)'
      BY <1>2, <2>4, Zenon DEF SingleHolds, SingleAt, BatchHolds
    <3>2. ViewHolds(u)'
      BY <1>1, <2>1, <2>2, Zenon DEF ViewHolds
    <3> QED
      BY <2>1, <2>2, <3>1, <3>2, Zenon
  <2> QED
    BY <2>3, <2>4, Zenon
<1>8. pc'[t] # "internal" /\ ViewHolds(t)'
  <2>1. pc'[t] \in {"apply", "insert"} /\ req'[t] = req[t]
    BY Zenon DEF Writing
  <2>2. req[t].call # "view"
    BY WriterType, Zenon DEF IsBatch, Locked
  <2> QED
    BY <2>1, <2>2, Zenon DEF ViewHolds
<1> QED
  BY <1>5, <1>6, <1>7, <1>8, Zenon DEF DInv

\* A step that leaves memory, log and calls alone.
LEMMA DataSame ==
  ASSUME DInv, UNCHANGED <<mem, base, wal, torn, callVars>>
  PROVE  DInv'
<1>1. UNCHANGED <<pc, req, got, seq, at, moved, view>>
  BY Zenon DEF callVars
<1>2. Logged' = Logged /\ (Faithful' <=> Faithful)
  BY Zenon DEF Logged, Faithful
<1>3. \A t \in Threads : /\ Writing(t)' <=> Writing(t)
                         /\ IsBatch(t)' <=> IsBatch(t)
                         /\ Ops(t)' = Ops(t) /\ Op(t)' = Op(t)
  BY <1>1, Zenon DEF Writing, IsBatch, Ops, Op
<1>4. \A k \in Keys : Quiet(k)' <=> Quiet(k)
  BY <1>3, Zenon DEF Quiet
<1>5. LogHolds' /\ PlainBatches'
  BY <1>2, <1>3, <1>4, Zenon DEF DInv, LogHolds, PlainBatches
<1>6. ASSUME NEW t \in Threads
      PROVE  pc'[t] # "internal" /\ SingleHolds(t)' /\ BatchHolds(t)' /\ ViewHolds(t)'
  <2>1. pc[t] # "internal" /\ SingleHolds(t) /\ BatchHolds(t) /\ ViewHolds(t)
    BY Zenon DEF DInv
  <2>2. SingleHolds(t)'
    BY <1>1, <1>2, <1>3, <2>1, Zenon DEF SingleHolds, SingleAt
  <2>3. \A m \in Maps : BatchAt(t, m) => BatchAt(t, m)'
    BY <1>1, <1>2, <1>3, Zenon DEF BatchAt
  <2>4. BatchHolds(t)'
    BY <1>3, <2>1, <2>3, Zenon DEF BatchHolds
  <2>5. ViewHolds(t)'
    BY <1>1, <1>2, <2>1, Zenon DEF ViewHolds
  <2> QED
    BY <1>1, <2>1, <2>2, <2>4, <2>5, Zenon
<1> QED
  BY <1>5, <1>6, Zenon DEF DInv

\* A step of a call that is not writing, before or after.
LEMMA DataOutside ==
  ASSUME CInv, DInv, NEW t \in Threads, LocalData(t),
         UNCHANGED <<mem, base, wal, torn>>, ~Writing(t), ~Writing(t)',
         pc'[t] # "internal",
         NoForcedSelfRename /\ IsBatch(t)' => Ops(t)' \in Seq(PlainOps),
         ViewHolds(t)'
  PROVE  DInv'
<1>1. \A k \in Keys : Quiet(k)' => Quiet(k)
  BY QuietKeep, Zenon
<1>2. SingleHolds(t)' /\ BatchHolds(t)'
  BY Zenon DEF SingleHolds, SingleAt, BatchHolds
<1> QED
  BY <1>1, <1>2, DataKeep, Zenon

\* A call that returns has no part of the invariant left.
LEMMA ReturnData ==
  ASSUME CInv, NEW t \in Threads, NEW to \in {"idle", "ack"}, Return(t, to),
         \A u \in Threads \ {t} : at'[u] = at[u]
  PROVE  /\ LocalData(t) /\ ~Writing(t)' /\ pc'[t] = to /\ pc'[t] # "internal"
         /\ NoForcedSelfRename /\ IsBatch(t)' => Ops(t)' \in Seq(PlainOps)
         /\ SingleHolds(t)' /\ BatchHolds(t)' /\ ViewHolds(t)'
<1>1. CallTypeOK
  BY Zenon DEF CInv, TypeOK
<1>2. LocalData(t)
  BY <1>1, Zenon DEF CallTypeOK, Return, LocalData
<1>3. pc'[t] = to /\ req'[t] = NoCall
  BY <1>1, Zenon DEF CallTypeOK, Return
<1>4. ~Writing(t)' /\ ~IsBatch(t)' /\ req'[t].call # "view"
  BY <1>3, NoCallType, Zenon DEF Writing, IsBatch
<1> QED
  BY <1>2, <1>3, <1>4, Zenon DEF SingleHolds, SingleAt, BatchHolds, ViewHolds

\* A call that is not writing returns.
LEMMA ReturnOutside ==
  ASSUME CInv, DInv, NEW t \in Threads, NEW to \in {"idle", "ack"}, Return(t, to),
         \A u \in Threads \ {t} : at'[u] = at[u],
         UNCHANGED <<mem, base, wal, torn>>, ~Writing(t)
  PROVE  DInv'
BY ReturnData, DataOutside, Zenon

\* Moving on inside a call that is not writing.
LEMMA MoveOutside ==
  ASSUME CInv, DInv, NEW t \in Threads, LocalData(t),
         UNCHANGED <<mem, base, wal, torn>>, ~Writing(t), ~Writing(t)',
         pc'[t] # "internal", req'[t] = req[t], req[t].call # "view"
  PROVE  DInv'
<1>1. NoForcedSelfRename /\ IsBatch(t)' => Ops(t)' \in Seq(PlainOps)
  BY Zenon DEF DInv, PlainBatches, IsBatch, Ops
<1>2. ViewHolds(t)'
  BY Zenon DEF ViewHolds
<1> QED
  BY <1>1, <1>2, DataOutside, Zenon

\* A call past its locks sees, on its keys, what is logged.
LEMMA LockedLogged ==
  ASSUME CInv, DInv, Faithful, NEW t \in Threads, Locked(t), ~Writing(t)
  PROVE  \A k \in KeysOf(Ops(t)[1]) : k \in Keys /\ mem[k] = Logged[k]
<1>1. SUFFICES ASSUME NEW k \in KeysOf(Ops(t)[1])
               PROVE  k \in Keys /\ mem[k] = Logged[k]
  BY Zenon
<1>2. k \in Keys
  BY SingleType, Zenon DEF Locked
<1>3. Quiet(k)
  BY LockedQuiet, Zenon DEF Quiet
<1> QED
  BY <1>2, <1>3, Zenon DEF DInv, LogHolds

\* A batch inside the gate sees what is logged.
LEMMA AloneLogged ==
  ASSUME CInv, DInv, Faithful, NEW t \in Threads, InGate(t), ~Writing(t),
         IsBatch(t) \/ req[t].call = "view"
  PROVE  \A k \in Keys : mem[k] = Logged[k]
<1>1. \A u \in Threads : ~Writing(u)
  BY WriterType, Zenon DEF CInv, GateHolds, IsBatch
<1>2. \A k \in Keys : Quiet(k)
  BY <1>1, Zenon DEF Quiet
<1> QED
  BY <1>2, Zenon DEF DInv, LogHolds

\* Maps that agree on the keys of an operation.
LEMMA VerdictLocal ==
  ASSUME NEW m, NEW n, NEW op, op.kind = "rename",
         \A k \in KeysOf(op) : m[k] = n[k]
  PROVE  RenameVerdict(m, op) = RenameVerdict(n, op) /\ m[op.key] = n[op.key]
<1>1. m[op.key] = n[op.key] /\ m[op.dst] = n[op.dst]
  BY Zenon DEF KeysOf
<1> QED
  BY <1>1, Zenon DEF RenameVerdict, Live

(* Every step keeps the data invariant *)

\* The calls a client makes are plain if the calls it may make are.
LEMMA RequestedPlain ==
  ASSUME CInv, NoForcedSelfRename, NEW t \in Threads, NEW c \in Calls, c.call = "batch",
         \A i \in DOMAIN c.ops : c.ops[i].kind \in Versioned => token[t] # NoToken
  PROVE  Requested(t, c).ops \in Seq(PlainOps)
<1> DEFINE q == Requested(t, c).ops
<1>1. StoreTypeOK /\ opt \in DOMAIN Options
  BY Zenon DEF CInv, TypeOK, StoreTypeOK
<1>2. /\ Requested(t, c) \in Reqs /\ Len(q) = Len(c.ops)
      /\ \A i \in DOMAIN c.ops : /\ q[i].kind = c.ops[i].kind /\ q[i].key = c.ops[i].key
                                 /\ q[i].dst = c.ops[i].dst /\ q[i].force = c.ops[i].force
  BY <1>1, RequestedType, Zenon
<1>3. c.ops \in Seq(Operations)
  BY <1>1, CallsType, Zenon
<1>4. \A i \in DOMAIN c.ops :
        ~(c.ops[i].kind = "rename" /\ c.ops[i].key = c.ops[i].dst /\ c.ops[i].force)
  BY <1>1, Zenon DEF NoForcedSelfRename, Calls
<1>5. q \in Seq(Operations)
  BY <1>2, Zenon DEF Reqs
<1> HIDE DEF q
<1>6. \A i \in 1 .. Len(q) : q[i] \in PlainOps
  BY <1>2, <1>3, <1>4, <1>5 DEF PlainOps
<1>7. q \in Seq(PlainOps)
  BY <1>5, <1>6
<1> QED
  BY <1>7, Zenon DEF q

\* The steps of a call before its first write keep the data invariant.
LEMMA EnterData ==
  ASSUME Laws, CInv, DInv, CInv', NEW t \in Threads
  PROVE  /\ (\E k \in TokenKeys : GetVersion(t, k)) => DInv'
         /\ (\E c \in Calls : Call(t, c)) => DInv'
         /\ LockShard(t) => DInv'
         /\ TakeSeq(t) => DInv'
         /\ Probe(t) => DInv'
         /\ PreflightBatch(t) => DInv'
<1>1. StoreTypeOK /\ CallTypeOK /\ Control(t) /\ opt \in DOMAIN Options
  BY Zenon DEF CInv, TypeOK, StoreTypeOK
<1>2. req[t] \in Reqs /\ Ops(t) \in Seq(Operations)
      /\ req[t].call \in {"none", "single", "batch", "view", "list"}
  BY <1>1, Zenon DEF CallTypeOK, Reqs, Ops
<1>3. ASSUME NEW k \in TokenKeys, GetVersion(t, k)
      PROVE  DInv'
  BY <1>3, DataSame, Zenon DEF GetVersion, logVars, restVars
<1>4. ASSUME NEW c \in Calls, Call(t, c)
      PROVE  DInv'
  <2> DEFINE r == Requested(t, c)
  <2>1. r.call = c.call
    BY <1>1, <1>4, RequestedType, Zenon DEF Call
  <2>2. c.call \in {"single", "batch", "view"}
    BY <1>1, <1>4, CallsType, Zenon DEF Call
  <2>3. /\ pc[t] = "idle" /\ pc'[t] \in {"lock", "seq", "capture"}
        /\ req'[t] = r /\ view'[t] = view[t] /\ LocalData(t)
        /\ UNCHANGED <<mem, base, wal, torn>>
    BY <1>1, <1>4, <2>2, Zenon DEF Call, Goto, logVars, restVars, CallTypeOK, LocalData
  <2>4. view[t] = NoView
    BY <1>1, <2>3, Zenon DEF Control
  <2>5. NoForcedSelfRename /\ c.call = "batch" => r.ops \in Seq(PlainOps)
    BY <1>4, RequestedPlain, Zenon DEF Call
  <2> HIDE DEF r
  <2>6. ViewHolds(t)'
    BY <2>3, <2>4, NoCallType, Zenon DEF ViewHolds
  <2>7. NoForcedSelfRename /\ IsBatch(t)' => Ops(t)' \in Seq(PlainOps)
    BY <2>1, <2>3, <2>5, Zenon DEF IsBatch, Ops
  <2>8. ~Writing(t) /\ ~Writing(t)' /\ pc'[t] # "internal"
    BY <2>3, Zenon DEF Writing
  <2> QED
    BY <2>3, <2>6, <2>7, <2>8, DataOutside, Zenon
<1>5. CASE LockShard(t)
  <2>1. /\ pc[t] = "lock" /\ pc'[t] \in {"lock", "seq"} /\ req'[t] = req[t] /\ LocalData(t)
        /\ UNCHANGED <<mem, base, wal, torn>>
    BY <1>1, <1>5, Zenon DEF LockShard, Goto, logVars, restVars, CallTypeOK, LocalData
  <2>2. ~Writing(t) /\ ~Writing(t)' /\ pc'[t] # "internal" /\ req[t].call # "view"
    BY <1>1, <2>1, Zenon DEF Writing, Control
  <2> QED
    BY <2>1, <2>2, MoveOutside, Zenon
<1>6. CASE TakeSeq(t)
  <2>1. /\ pc[t] = "seq" /\ req'[t] = req[t] /\ at'[t] = at[t] /\ LocalData(t)
        /\ pc'[t] = IF IsBatch(t) THEN "preflight"
                    ELSE IF Ops(t)[1].kind = "rename" THEN "probe" ELSE "apply"
        /\ UNCHANGED <<mem, base, wal, torn>>
    BY <1>1, <1>6, Zenon DEF TakeSeq, Goto, logVars, restVars, CallTypeOK, LocalData
  <2>2. ~Writing(t) /\ req[t].call \in {"single", "batch"} /\ at[t] = 1
    BY <1>1, <1>2, <2>1, Zenon DEF Writing, Control
  <2>3. CASE IsBatch(t) \/ Ops(t)[1].kind = "rename"
    <3>1. ~Writing(t)' /\ pc'[t] # "internal"
      BY <2>1, <2>3, Zenon DEF Writing
    <3> QED
      BY <2>1, <2>2, <3>1, MoveOutside, Zenon
  <2>4. CASE ~IsBatch(t) /\ Ops(t)[1].kind # "rename"
    <3>1. pc'[t] = "apply" /\ Locked(t)
      BY <2>1, <2>2, <2>4, Zenon DEF Locked, IsBatch
    <3>2. Faithful => \A k \in KeysOf(Ops(t)[1]) : mem[k] = Logged[k]
      BY <2>2, <3>1, LockedLogged, Zenon
    <3>3. Ops(t)' = Ops(t) /\ ~IsBatch(t)' /\ (Faithful' <=> Faithful) /\ Logged' = Logged
      BY <2>1, <2>4, Zenon DEF Ops, IsBatch, Faithful, Logged
    <3>4. SingleHolds(t)'
      BY <2>1, <2>2, <2>4, <3>1, <3>2, <3>3 DEF SingleHolds, SingleAt
    <3>5. BatchHolds(t)' /\ ViewHolds(t)'
      BY <2>1, <2>2, <3>3, Zenon DEF BatchHolds, ViewHolds
    <3>6. \A k \in Keys : Quiet(k)' => Quiet(k)
      BY <2>1, <2>2, QuietKeep, Zenon
    <3> QED
      BY <2>1, <3>1, <3>3, <3>4, <3>5, <3>6, DataKeep, Zenon
  <2> QED
    BY <2>3, <2>4, Zenon
<1>7. CASE Probe(t)
  <2>1. /\ pc[t] = "probe" /\ at' = at
        /\ UNCHANGED <<mem, base, wal, torn>>
    BY <1>7, Zenon DEF Probe, logVars, restVars
  <2>2. /\ ~Writing(t) /\ req[t].call = "single" /\ at[t] = 1 /\ Ops(t)[1].kind = "rename"
        /\ Op(t) = Ops(t)[1] /\ Locked(t)
    BY <1>1, <1>2, <2>1, Zenon DEF Writing, Control, BatchPcs, Op, Locked
  <2>3. CASE RenameVerdict(mem, Op(t)) # "move"
    BY <1>7, <2>1, <2>2, <2>3, ReturnOutside, Zenon DEF Probe
  <2>4. CASE RenameVerdict(mem, Op(t)) = "move"
    <3>1. /\ pc'[t] = "apply" /\ req' = req /\ at'[t] = 1 /\ LocalData(t)
          /\ moved'[t] = mem[Ops(t)[1].key].val
      BY <1>1, <1>7, <2>1, <2>2, <2>4 DEF Probe, CallTypeOK, LocalData
    <3>2. Faithful => \A k \in KeysOf(Ops(t)[1]) : mem[k] = Logged[k]
      BY <2>2, LockedLogged, Zenon
    <3>3. Faithful => /\ RenameVerdict(Logged, Ops(t)[1]) = "move"
                      /\ mem[Ops(t)[1].key] = Logged[Ops(t)[1].key]
      BY <2>2, <2>4, <3>2, VerdictLocal
    <3>4. Ops(t)' = Ops(t) /\ ~IsBatch(t)' /\ (Faithful' <=> Faithful) /\ Logged' = Logged
      BY <2>1, <2>2, <3>1, Zenon DEF Ops, IsBatch, Faithful, Logged
    <3>5. SingleHolds(t)'
      BY <2>1, <3>1, <3>2, <3>3, <3>4 DEF SingleHolds, SingleAt
    <3>6. BatchHolds(t)' /\ ViewHolds(t)'
      BY <2>2, <3>1, <3>4, Zenon DEF BatchHolds, ViewHolds
    <3>7. \A k \in Keys : Quiet(k)' => Quiet(k)
      BY <2>2, <3>1, QuietKeep, Zenon
    <3> QED
      BY <2>1, <3>1, <3>4, <3>5, <3>6, <3>7, DataKeep, Zenon
  <2> QED
    BY <2>3, <2>4, Zenon
<1>8. CASE PreflightBatch(t)
  <2>1. /\ pc[t] = "preflight" /\ at' = at
        /\ UNCHANGED <<mem, base, wal, torn>>
    BY <1>8, Zenon DEF PreflightBatch, logVars, restVars
  <2>2. ~Writing(t) /\ IsBatch(t) /\ at[t] = 1 /\ InGate(t)
    BY <1>1, <1>2, <2>1, Zenon DEF Writing, Control, SinglePcs, IsBatch, InGate
  <2>3. CASE Return(t, "idle")
    BY <2>1, <2>2, <2>3, ReturnOutside, Zenon
  <2>4. CASE /\ Preflight(mem, Ops(t), seq[t]) = "pass"
             /\ Goto(t, "preflight", "apply") /\ UNCHANGED <<req, got, seq, moved, view>>
    <3>1. pc'[t] = "apply" /\ LocalData(t)
      BY <1>1, <2>1, <2>4, Zenon DEF Goto, CallTypeOK, LocalData
    <3>2. Ops(t)' = Ops(t) /\ IsBatch(t)' /\ (Faithful' <=> Faithful) /\ Logged' = Logged
      BY <2>1, <2>2, <2>4, Zenon DEF Ops, IsBatch, Faithful, Logged
    <3>3. mem \in Maps /\ Logged \in Maps
      BY <1>1, Zenon DEF StoreTypeOK, Logged, Laws, ReplayTypeLaw
    <3>4. Faithful => mem = Logged
      <4>1. Faithful => \A k \in Keys : mem[k] = Logged[k]
        BY <2>2, AloneLogged, Zenon
      <4> QED
        BY <3>3, <4>1 DEF Maps
    <3>5. Ahead(mem, seq[t], Ops(t)).verdict = "pass"
      BY <2>4, Zenon DEF Preflight, Ahead, Start
    <3>6. SubSeq(Ops(t), 1, 0) = <<>>
      BY <1>2
    <3>7. Ahead(mem, seq[t], SubSeq(Ops(t), 1, 0)).m = mem
      <4>1. Ahead(mem, seq[t], <<>>) = Start(mem, seq[t])
        BY Zenon DEF Laws, AheadEmptyLaw
      <4>2. Ahead(mem, seq[t], SubSeq(Ops(t), 1, 0)) = Start(mem, seq[t])
        BY <3>6, <4>1, Zenon
      <4> QED
        BY <4>2 DEF Start
    <3>8. BatchAt(t, mem)'
      BY <2>1, <2>2, <2>4, <3>1, <3>2, <3>4, <3>5, <3>7 DEF BatchAt
    <3>9. SingleHolds(t)' /\ BatchHolds(t)' /\ ViewHolds(t)'
      BY <2>1, <2>2, <2>4, <3>2, <3>3, <3>8, Zenon DEF SingleHolds, SingleAt, BatchHolds, ViewHolds, IsBatch
    <3>10. \A k \in Keys : Quiet(k)' => Quiet(k)
      BY <2>2, <3>1, QuietKeep, Zenon
    <3>11. NoForcedSelfRename => Ops(t)' \in Seq(PlainOps)
      BY <2>2, <3>2, Zenon DEF DInv, PlainBatches
    <3> QED
      BY <2>1, <3>1, <3>9, <3>10, <3>11, DataKeep, Zenon
  <2> QED
    BY <1>8, <2>3, <2>4, Zenon DEF PreflightBatch
<1> QED
  BY <1>3, <1>4, <1>5, <1>6, <1>7, <1>8, Zenon

\* What passes preflight passes the walker.
LEMMA VerdictHolds ==
  ASSUME NEW m, NEW op \in Operations, Verdict(m, op) = "pass"
  PROVE  /\ op.kind \in Inserts => Holds(m, op)
         /\ op.kind \in Erases => op.kind = "delete" \/ Holds(m, op)
         /\ op.kind = "rename" => RenameVerdict(m, op) # "error"
<1>1. ASSUME op.kind \in {"putIfAbsent", "compareAndPut", "deleteIfVersion"}
      PROVE  Holds(m, op)
  BY <1>1, Zenon DEF Verdict
<1>2. op.kind = "put" => Holds(m, op)
  BY Zenon DEF Holds, Versioned
<1>3. op.kind = "rename" => RenameVerdict(m, op) # "error"
  BY Zenon DEF Verdict
<1> QED
  BY <1>1, <1>2, <1>3, Zenon DEF Inserts, Erases

\* The next operation of a batch meets the tree its preflight projected.
LEMMA BatchNow ==
  ASSUME Laws, CInv, NEW t \in Threads, Writing(t), IsBatch(t), at[t] <= Len(Ops(t)),
         NEW m \in Maps, BatchAt(t, m)
  PROVE  LET p == Ahead(m, seq[t], SubSeq(Ops(t), 1, at[t] - 1)).m
         IN  /\ p \in Maps /\ Verdict(p, Op(t)) = "pass"
             /\ Ahead(m, seq[t], SubSeq(Ops(t), 1, at[t])).m = Projected(p, Op(t), SeqNow(t))
<1>1. Control(t) /\ CallTypeOK
  BY Zenon DEF CInv, TypeOK
<1>2. at[t] \in 1 .. Len(Ops(t))
  BY <1>1 DEF Control, Writing
<1>3. Ops(t) \in Seq(Operations) /\ seq[t] \in Nat
  BY <1>1, Zenon DEF CallTypeOK, Reqs, Ops
<1>4. Ahead(m, seq[t], Ops(t)).verdict = "pass"
  BY Zenon DEF BatchAt
<1>5. LET a == Ahead(m, seq[t], SubSeq(Ops(t), 1, at[t] - 1))
      IN  /\ a.m \in Maps /\ a.s = SeqAfter(seq[t], SubSeq(Ops(t), 1, at[t] - 1))
          /\ Verdict(a.m, Ops(t)[at[t]]) = "pass"
          /\ Ahead(m, seq[t], SubSeq(Ops(t), 1, at[t])).m = Projected(a.m, Ops(t)[at[t]], a.s)
  <2>1. AheadPassesLaw
    BY Zenon DEF Laws
  <2> QED
    BY <1>2, <1>3, <1>4, <2>1 DEF AheadPassesLaw
<1> QED
  BY <1>5, Zenon DEF Op, SeqNow, OpSeq

\* A batch has carried out one more operation.
LEMMA BatchAdvance ==
  ASSUME Laws, CInv, DInv, NEW t \in Threads, LocalData(t), Writing(t), IsBatch(t),
         UNCHANGED <<base, wal, torn, req>>, view'[t] = view[t], seq'[t] = seq[t],
         pc'[t] = "apply", at[t] <= Len(Ops(t)), at'[t] = at[t] + 1,
         NEW m \in Maps, BatchAt(t, m),
         mem' = Projected(Ahead(m, seq[t], SubSeq(Ops(t), 1, at[t] - 1)).m, Op(t), SeqNow(t))
  PROVE  DInv'
<1>1. mem' = Ahead(m, seq[t], SubSeq(Ops(t), 1, at[t])).m
  BY BatchNow, Zenon
<1>2. /\ Ops(t)' = Ops(t) /\ IsBatch(t)' /\ (Faithful' <=> Faithful) /\ Logged' = Logged
      /\ Writing(t)'
  BY Zenon DEF Ops, IsBatch, Faithful, Logged, Writing
<1>3. at[t] \in Nat /\ at'[t] - 1 = at[t]
  <2>1. at[t] \in Nat
    BY Zenon DEF CInv, TypeOK, CallTypeOK
  <2>2. \A n \in Nat : \A j : j = n + 1 => j - 1 = n
    OBVIOUS
  <2> QED
    BY <2>1, <2>2, Zenon
<1>4. Ahead(m, seq[t], Ops(t)).verdict = "pass" /\ (Faithful => m = Logged)
  BY Zenon DEF BatchAt
<1>5. BatchAt(t, m)'
  BY <1>1, <1>2, <1>3, <1>4, Zenon DEF BatchAt
<1>6. SingleHolds(t)' /\ BatchHolds(t)'
  BY <1>2, <1>5, Zenon DEF SingleHolds, SingleAt, BatchHolds
<1> QED
  BY <1>2, <1>6, DataWrite, Zenon

\* A single call takes one sequence number.
LEMMA SingleNow ==
  ASSUME Laws, CInv, NEW t \in Threads, Writing(t), ~IsBatch(t), at[t] <= Len(Ops(t))
  PROVE  /\ Locked(t) /\ at[t] = 1 /\ Op(t) = Ops(t)[1] /\ SeqNow(t) = seq[t]
         /\ Op(t) \in Operations /\ Op(t).kind \notin Asserts /\ seq[t] \in Nat
<1>1. Locked(t) /\ Control(t) /\ CallTypeOK
  BY WriterType, Zenon DEF CInv, TypeOK
<1>2. /\ Ops(t) \in Seq(Operations) /\ Len(Ops(t)) = 1 /\ Ops(t)[1] \in Operations
      /\ Ops(t)[1].kind \notin Asserts
  BY <1>1, SingleType, Zenon DEF Locked
<1>3. at[t] = 1 /\ seq[t] \in Nat
  BY <1>1, <1>2 DEF Control, Writing, CallTypeOK
<1>4. SubSeq(Ops(t), 1, 0) = <<>>
  BY <1>2
<1>5. SeqAfter(seq[t], <<>>) = seq[t]
  BY Zenon DEF Laws, SeqEmptyLaw
<1>6. SeqNow(t) = SeqAfter(seq[t], SubSeq(Ops(t), 1, 0))
  BY <1>3 DEF SeqNow, OpSeq
<1>7. SeqNow(t) = seq[t]
  BY <1>4, <1>5, <1>6, Zenon
<1> QED
  BY <1>1, <1>2, <1>3, <1>7, Zenon DEF Op

\* A single call has carried out its operation.
LEMMA SingleDone ==
  ASSUME Laws, CInv, DInv, NEW t \in Threads, LocalData(t), Writing(t), ~IsBatch(t),
         UNCHANGED <<base, wal, torn, req>>, view'[t] = view[t], seq'[t] = seq[t],
         moved'[t] = moved[t],
         pc'[t] = "apply", at[t] <= Len(Ops(t)), at'[t] = at[t] + 1,
         \A k \in Keys \ KeysOf(Op(t)) : mem'[k] = mem[k],
         Faithful => \A k \in KeysOf(Op(t)) : mem'[k] = Projected(Logged, Op(t), seq[t])[k]
  PROVE  DInv'
<1>1. /\ Ops(t)' = Ops(t) /\ ~IsBatch(t)' /\ (Faithful' <=> Faithful) /\ Logged' = Logged
      /\ Writing(t)'
  BY Zenon DEF Ops, IsBatch, Faithful, Logged, Writing
<1>2. Op(t) = Ops(t)[1] /\ at'[t] = 2
  BY SingleNow
<1>3. SingleHolds(t)
  BY Zenon DEF DInv
<1>4. SingleHolds(t)'
  <2> SUFFICES ASSUME Faithful'
               PROVE  SingleAt(t)'
    BY <1>1, Zenon DEF SingleHolds
  <2>1. Faithful /\ SingleAt(t)
    BY <1>1, <1>3, Zenon DEF SingleHolds
  <2>2. Ops(t)[1]' = Op(t) /\ "apply" # "insert" /\ 2 # 1
    BY <1>1, <1>2
  <2>3. Op(t).kind = "rename" =>
          RenameVerdict(Logged, Op(t)) = "move" /\ moved[t] = Logged[Op(t).key].val
    BY <1>2, <2>1, Zenon DEF SingleAt
  <2> QED
    BY <1>1, <1>2, <2>1, <2>2, <2>3, Zenon DEF SingleAt
<1>5. BatchHolds(t)'
  BY <1>1, Zenon DEF BatchHolds
<1> QED
  BY <1>1, <1>2, <1>4, <1>5, DataWrite, Zenon

\* A call whose condition fails has done nothing.
LEMMA SingleUndone ==
  ASSUME Laws, CInv, DInv, NEW t \in Threads, Writing(t), pc[t] = "apply", at[t] = 1,
         Return(t, "idle"), \A u \in Threads \ {t} : at'[u] = at[u],
         UNCHANGED <<mem, base, wal, torn>>
  PROVE  DInv'
<1>1. LocalData(t) /\ pc'[t] # "internal" /\ ~Writing(t)'
      /\ (NoForcedSelfRename /\ IsBatch(t)' => Ops(t)' \in Seq(PlainOps))
      /\ SingleHolds(t)' /\ BatchHolds(t)' /\ ViewHolds(t)'
  BY ReturnData, Zenon
<1>2. ASSUME Faithful', NEW k \in Keys, Quiet(k)', ~Quiet(k)
      PROVE  mem[k] = Logged[k]
  <2>1. Faithful
    BY <1>2, Zenon DEF Faithful
  <2>2. CASE IsBatch(t)
    <3>1. PICK m \in Maps : BatchAt(t, m)
      BY <2>2, Zenon DEF DInv, BatchHolds
    <3>2. Ops(t) \in Seq(Operations)
      BY Zenon DEF CInv, TypeOK, CallTypeOK, Reqs, Ops
    <3>3. SubSeq(Ops(t), 1, 0) = <<>>
      BY <3>2
    <3>4. Ahead(m, seq[t], <<>>) = Start(m, seq[t])
      BY Zenon DEF Laws, AheadEmptyLaw
    <3>5. Ahead(m, seq[t], SubSeq(Ops(t), 1, 0)) = Start(m, seq[t])
      BY <3>3, <3>4, Zenon
    <3>6. mem = m /\ m = Logged
      <4>1. Start(m, seq[t]).m = m /\ at[t] - 1 = 0
        BY DEF Start
      <4>2. /\ mem = Ahead(m, seq[t], SubSeq(Ops(t), 1, at[t] - 1)).m
            /\ m = Logged
        BY <2>1, <3>1, Zenon DEF BatchAt
      <4> QED
        BY <3>5, <4>1, <4>2, Zenon
    <3> QED
      BY <3>6, Zenon
  <2>3. CASE ~IsBatch(t)
    <3>1. ~(k \notin KeysOf(Ops(t)[1]))
      BY <1>1, <1>2, <2>3, QuietKeep, Zenon
    <3> QED
      BY <2>1, <2>3, <3>1, Zenon DEF DInv, SingleHolds, SingleAt
  <2> QED
    BY <2>2, <2>3, Zenon
<1> QED
  BY <1>1, <1>2, DataKeep, Zenon

\* The walker calls that insert, erase or assert keep it.
LEMMA ApplyData ==
  ASSUME Laws, CInv, DInv, NEW t \in Threads
  PROVE  /\ ApplyInsert(t) => DInv'
         /\ ApplyErase(t) => DInv'
         /\ ApplyAssert(t) => DInv'
<1>1. StoreTypeOK /\ CallTypeOK /\ Logged \in Maps
  BY Zenon DEF CInv, TypeOK, StoreTypeOK, Logged, Laws, ReplayTypeLaw
<1>2. mem \in Maps
  BY <1>1, Zenon DEF StoreTypeOK
<1>3. ASSUME Applying(t)
      PROVE  /\ Writing(t) /\ at[t] <= Len(Ops(t)) /\ Op(t) \in Operations
             /\ Op(t).key \in Keys /\ SeqNow(t) \in Nat /\ pc[t] = "apply"
  BY <1>3, OpType, Zenon DEF Applying, Writing
<1>4. ASSUME Advance(t), Applying(t)
      PROVE  /\ LocalData(t) /\ UNCHANGED req /\ view'[t] = view[t] /\ seq'[t] = seq[t]
             /\ moved'[t] = moved[t] /\ pc'[t] = "apply" /\ at'[t] = at[t] + 1
  BY <1>1, <1>4, Zenon DEF Advance, Applying, CallTypeOK, LocalData
<1>5. ASSUME ConditionFails(t), Applying(t), ~IsBatch(t), UNCHANGED <<base, wal, torn>>
      PROVE  DInv'
  <2>1. at[t] = 1 /\ Return(t, "idle") /\ UNCHANGED <<mem, at>>
    BY <1>3, <1>5, SingleNow, Zenon DEF ConditionFails
  <2> QED
    BY <1>3, <1>5, <2>1, SingleUndone, Zenon
<1>6. ASSUME Applying(t), IsBatch(t)
      PROVE  \E m \in Maps :
               /\ BatchAt(t, m) /\ Verdict(mem, Op(t)) = "pass"
               /\ mem = Ahead(m, seq[t], SubSeq(Ops(t), 1, at[t] - 1)).m
  <2>1. PICK m \in Maps : BatchAt(t, m)
    BY <1>3, <1>6, Zenon DEF DInv, BatchHolds
  <2>2. mem = Ahead(m, seq[t], SubSeq(Ops(t), 1, at[t] - 1)).m
    BY <1>3, <1>6, <2>1, Zenon DEF BatchAt
  <2>3. Verdict(mem, Op(t)) = "pass"
    BY <1>3, <1>6, <2>1, <2>2, BatchNow, Zenon
  <2> QED
    BY <2>1, <2>2, <2>3, Zenon
<1>7. ASSUME Applying(t), IsBatch(t), Advance(t), UNCHANGED <<base, wal, torn>>,
             mem' = Projected(mem, Op(t), SeqNow(t))
      PROVE  DInv'
  <2>1. PICK m \in Maps : /\ BatchAt(t, m)
                          /\ mem = Ahead(m, seq[t], SubSeq(Ops(t), 1, at[t] - 1)).m
    BY <1>6, <1>7, Zenon
  <2>2. mem' = Projected(Ahead(m, seq[t], SubSeq(Ops(t), 1, at[t] - 1)).m, Op(t), SeqNow(t))
    BY <1>7, <2>1, Zenon
  <2> QED
    BY <1>3, <1>4, <1>7, <2>1, <2>2, BatchAdvance, Zenon
<1>8. CASE ApplyInsert(t)
  <2>1. Applying(t) /\ Op(t).kind \in Inserts /\ UNCHANGED <<base, wal, torn>>
    BY <1>8, Zenon DEF ApplyInsert, logVars, restVars
  <2>2. CASE ~Holds(mem, Op(t))
    <3>1. ConditionFails(t)
      BY <1>8, <2>2, Zenon DEF ApplyInsert
    <3>2. ~IsBatch(t)
      BY <1>3, <1>6, <2>1, <2>2, VerdictHolds, Zenon
    <3> QED
      BY <1>5, <2>1, <3>1, <3>2, Zenon
  <2>3. CASE Holds(mem, Op(t))
    <3>1. mem' = Inserted(mem, Op(t).key, SeqNow(t), SeqNow(t)) /\ Advance(t)
      BY <1>8, <2>3, Zenon DEF ApplyInsert
    <3>2. CASE IsBatch(t)
      <4>1. mem' = Projected(mem, Op(t), SeqNow(t))
        BY <2>1, <3>1, Zenon DEF Projected, Inserts, Erases
      <4> QED
        BY <1>7, <2>1, <3>1, <3>2, <4>1, Zenon
    <3>3. CASE ~IsBatch(t)
      <4>1. SeqNow(t) = seq[t] /\ seq[t] \in Nat
        BY <1>3, <2>1, <3>3, SingleNow, Zenon
      <4>2. /\ \A k \in Keys \ {Op(t).key} : mem'[k] = mem[k]
            /\ mem'[Op(t).key] = [val |-> seq[t], ver |-> seq[t]]
        BY <1>2, <1>3, <2>1, <3>1, <4>1, InsertedType
      <4>3. KeysOf(Op(t)) = {Op(t).key}
        BY <2>1, Zenon DEF KeysOf, Inserts
      <4>4. Projected(Logged, Op(t), seq[t])[Op(t).key] = [val |-> seq[t], ver |-> seq[t]]
        <5>1. Logged \in Maps /\ Op(t) \in Operations /\ Op(t).kind \in Inserts
          BY <1>1, <1>3, <2>1, Zenon
        <5> QED
          BY <4>1, <5>1, ProjectedAt, Zenon
      <4>5. /\ \A k \in Keys \ KeysOf(Op(t)) : mem'[k] = mem[k]
            /\ \A k \in KeysOf(Op(t)) : mem'[k] = Projected(Logged, Op(t), seq[t])[k]
        BY <4>2, <4>3, <4>4, Zenon
      <4> QED
        BY <1>3, <1>4, <2>1, <3>1, <3>3, <4>5, SingleDone, Zenon
    <3> QED
      BY <3>2, <3>3, Zenon
  <2> QED
    BY <2>2, <2>3, Zenon
<1>9. CASE ApplyErase(t)
  <2>1. Applying(t) /\ Op(t).kind \in Erases /\ UNCHANGED <<base, wal, torn>>
    BY <1>9, Zenon DEF ApplyErase, logVars, restVars
  <2>2. Projected(mem, Op(t), SeqNow(t)) = Erased(mem, Op(t).key)
    BY <2>1, Zenon DEF Projected, Inserts, Erases
  <2>3. CASE Holds(mem, Op(t))
    <3>1. mem' = Erased(mem, Op(t).key) /\ Advance(t)
      BY <1>9, <2>3, Zenon DEF ApplyErase
    <3>2. CASE IsBatch(t)
      BY <1>7, <2>1, <2>2, <3>1, <3>2, Zenon
    <3>3. CASE ~IsBatch(t)
      <4>1. seq[t] \in Nat
        BY <1>3, <2>1, <3>3, SingleNow, Zenon
      <4>2. /\ \A k \in Keys \ {Op(t).key} : mem'[k] = mem[k]
            /\ mem'[Op(t).key] = Absent
        BY <1>2, <1>3, <2>1, <3>1, Zenon DEF Erased, Maps
      <4>3. KeysOf(Op(t)) = {Op(t).key}
        BY <2>1, Zenon DEF KeysOf, Erases
      <4>4. Projected(Logged, Op(t), seq[t])[Op(t).key] = Absent
        <5>1. Projected(Logged, Op(t), seq[t]) = Erased(Logged, Op(t).key)
          BY <2>1, Zenon DEF Projected, Inserts, Erases
        <5> QED
          BY <1>1, <1>3, <2>1, <5>1, Zenon DEF Erased, Maps
      <4>5. /\ \A k \in Keys \ KeysOf(Op(t)) : mem'[k] = mem[k]
            /\ \A k \in KeysOf(Op(t)) : mem'[k] = Projected(Logged, Op(t), seq[t])[k]
        BY <4>2, <4>3, <4>4, Zenon
      <4> QED
        BY <1>3, <1>4, <2>1, <3>1, <3>3, <4>5, SingleDone, Zenon
    <3> QED
      BY <3>2, <3>3, Zenon
  <2>4. CASE ~Holds(mem, Op(t)) /\ IsBatch(t) /\ Op(t).kind = "delete"
    <3>1. mem' = mem /\ Advance(t)
      BY <1>9, <2>4, Zenon DEF ApplyErase
    <3>2. mem[Op(t).key] = Absent
      BY <2>4, Zenon DEF Holds, Live, Versioned
    <3>3. Erased(mem, Op(t).key) = mem
      BY <1>2, <1>3, <2>1, <3>2, Zenon DEF Erased, Maps
    <3> QED
      BY <1>7, <2>1, <2>2, <2>4, <3>1, <3>3, Zenon
  <2>5. CASE ~Holds(mem, Op(t)) /\ ~(IsBatch(t) /\ Op(t).kind = "delete")
    <3>1. ConditionFails(t)
      BY <1>9, <2>5, Zenon DEF ApplyErase
    <3>2. ~IsBatch(t)
      BY <1>3, <1>6, <2>1, <2>5, VerdictHolds, Zenon
    <3> QED
      BY <1>5, <2>1, <3>1, <3>2, Zenon
  <2> QED
    BY <2>3, <2>4, <2>5, Zenon
<1>10. CASE ApplyAssert(t)
  <2>1. Applying(t) /\ Op(t).kind \in Asserts /\ Advance(t) /\ UNCHANGED <<mem, base, wal, torn>>
    BY <1>10, Zenon DEF ApplyAssert, EmitsWal, logVars, restVars
  <2>2. IsBatch(t)
    BY <1>3, <2>1, SingleNow, Zenon
  <2>3. Projected(mem, Op(t), SeqNow(t)) = mem
    BY <2>1, Zenon DEF Projected, Inserts, Erases, Asserts
  <2> QED
    BY <1>7, <2>1, <2>2, <2>3, Zenon
<1> QED
  BY <1>8, <1>9, <1>10, Zenon

\* The halves of a rename keep it.
LEMMA RenameData ==
  ASSUME Laws, CInv, DInv, NEW t \in Threads
  PROVE  /\ RenameErase(t) => DInv'
         /\ RenameInsert(t) => DInv'
         /\ RenameStops(t) => DInv'
<1>1. StoreTypeOK /\ CallTypeOK /\ Control(t) /\ Logged \in Maps
  BY Zenon DEF CInv, TypeOK, StoreTypeOK, Logged, Laws, ReplayTypeLaw
<1>2. mem \in Maps
  BY <1>1, Zenon DEF StoreTypeOK
<1>3. ASSUME Applying(t) \/ pc[t] = "insert"
      PROVE  /\ Writing(t) /\ at[t] <= Len(Ops(t)) /\ Op(t) \in Operations
             /\ Op(t).key \in Keys /\ Op(t).dst \in Keys /\ SeqNow(t) \in Nat
             /\ mem[Op(t).key].val \in Nat
  BY <1>3, OpType DEF Applying, Writing
<1>4. CASE RenameErase(t)
  <2>1. /\ Applying(t) /\ Op(t).kind = "rename"
        /\ IsBatch(t) => RenameVerdict(mem, Op(t)) = "move"
        /\ mem' = Erased(mem, Op(t).key)
        /\ UNCHANGED <<base, wal, torn, req, seq, at, view>>
    BY <1>4, Zenon DEF RenameErase, logVars, restVars
  <2>2. /\ pc'[t] = "insert" /\ LocalData(t)
        /\ moved'[t] = IF IsBatch(t) THEN mem[Op(t).key].val ELSE moved[t]
    BY <1>1, <1>4, Zenon DEF RenameErase, CallTypeOK, LocalData
  <2>3. /\ Ops(t)' = Ops(t) /\ (IsBatch(t)' <=> IsBatch(t)) /\ (Faithful' <=> Faithful)
        /\ Logged' = Logged /\ Writing(t)' /\ Op(t)' = Op(t)
    BY <2>1, <2>2, Zenon DEF Ops, Op, IsBatch, Faithful, Logged, Writing
  <2>4. /\ mem'[Op(t).key] = Absent
        /\ \A k \in Keys \ KeysOf(Op(t)) : mem'[k] = mem[k]
    BY <1>2, <1>3, <2>1, Zenon DEF Erased, Maps, KeysOf
  <2>5. CASE IsBatch(t)
    <3>1. PICK m \in Maps : BatchAt(t, m)
      BY <1>3, <2>1, <2>5, Zenon DEF DInv, BatchHolds
    <3>2. mem = Ahead(m, seq[t], SubSeq(Ops(t), 1, at[t] - 1)).m
      BY <2>1, <3>1, Zenon DEF BatchAt, Applying
    <3>3. BatchAt(t, m)'
      BY <2>1, <2>2, <2>3, <2>5, <3>1, <3>2, Zenon DEF BatchAt
    <3>4. SingleHolds(t)' /\ BatchHolds(t)'
      BY <2>3, <2>5, <3>3, Zenon DEF SingleHolds, SingleAt, BatchHolds
    <3> QED
      BY <1>3, <2>1, <2>2, <2>3, <2>5, <3>4, DataWrite, Zenon
  <2>6. CASE ~IsBatch(t)
    <3>1. Op(t) = Ops(t)[1] /\ at[t] = 1
      BY <1>3, <2>1, <2>6, SingleNow, Zenon
    <3>2. SingleHolds(t)
      BY Zenon DEF DInv
    <3>3. SingleHolds(t)'
      BY <1>3, <2>1, <2>2, <2>3, <2>4, <2>6, <3>1, <3>2, Zenon DEF SingleHolds, SingleAt
    <3>4. BatchHolds(t)'
      BY <2>3, <2>6, Zenon DEF BatchHolds
    <3> QED
      BY <1>3, <2>1, <2>2, <2>3, <2>4, <2>6, <3>1, <3>3, <3>4, DataWrite, Zenon
  <2> QED
    BY <2>5, <2>6, Zenon
<1>5. CASE RenameInsert(t)
  <2>1. /\ pc[t] = "insert" /\ mem' = Inserted(mem, Op(t).dst, moved[t], SeqNow(t))
        /\ UNCHANGED <<base, wal, torn, req, seq, moved, view>>
    BY <1>5, Zenon DEF RenameInsert, Goto, logVars, restVars
  <2>2. pc'[t] = "apply" /\ LocalData(t) /\ at'[t] = at[t] + 1
    BY <1>1, <1>5, Zenon DEF RenameInsert, Goto, CallTypeOK, LocalData
  <2>3. Op(t).kind = "rename" /\ moved[t] \in Nat
    BY <1>1, <2>1, Zenon DEF Control, CallTypeOK
  <2>4. CASE IsBatch(t)
    <3>1. PICK m \in Maps : BatchAt(t, m)
      BY <1>3, <2>1, <2>4, Zenon DEF DInv, BatchHolds
    <3> DEFINE p == Ahead(m, seq[t], SubSeq(Ops(t), 1, at[t] - 1)).m
    <3>2. /\ mem = Erased(p, Op(t).key) /\ moved[t] = p[Op(t).key].val
          /\ RenameVerdict(p, Op(t)) = "move"
      BY <2>1, <3>1, Zenon DEF BatchAt
    <3> HIDE DEF p
    <3>3. Op(t).key # Op(t).dst
      BY <3>2, Zenon DEF RenameVerdict
    <3>4. Projected(p, Op(t), SeqNow(t))
            = Inserted(Erased(p, Op(t).key), Op(t).dst, p[Op(t).key].val, SeqNow(t))
      BY <2>3, <3>3, Zenon DEF Projected, Inserts, Erases
    <3>5. mem' = Projected(p, Op(t), SeqNow(t))
      BY <2>1, <3>2, <3>4, Zenon
    <3> QED
      BY <1>3, <2>1, <2>2, <2>4, <3>1, <3>5, BatchAdvance, Zenon DEF p
  <2>5. CASE ~IsBatch(t)
    <3>1. Op(t) = Ops(t)[1] /\ SeqNow(t) = seq[t] /\ seq[t] \in Nat
      BY <1>3, <2>1, <2>5, SingleNow, Zenon
    <3>2. SingleHolds(t)
      BY Zenon DEF DInv
    <3>3. Faithful => /\ RenameVerdict(Logged, Op(t)) = "move"
                      /\ moved[t] = Logged[Op(t).key].val /\ mem[Op(t).key] = Absent
      BY <1>3, <2>1, <2>3, <2>5, <3>1, <3>2, Zenon DEF SingleHolds, SingleAt
    <3>4. Faithful => Op(t).key # Op(t).dst
      BY <3>3, Zenon DEF RenameVerdict
    <3>5. /\ mem'[Op(t).dst] = [val |-> moved[t], ver |-> seq[t]]
          /\ \A k \in Keys \ {Op(t).dst} : mem'[k] = mem[k]
      BY <1>2, <1>3, <2>1, <2>3, <3>1, InsertedType
    <3>6. KeysOf(Op(t)) = {Op(t).key, Op(t).dst}
      BY <2>3, Zenon DEF KeysOf
    <3>7. Op(t).key # Op(t).dst =>
            /\ Projected(Logged, Op(t), seq[t])[Op(t).key] = Absent
            /\ Projected(Logged, Op(t), seq[t])[Op(t).dst]
                 = [val |-> Logged[Op(t).key].val, ver |-> seq[t]]
      <4>1. Logged \in Maps /\ Op(t) \in Operations /\ Op(t).kind = "rename"
        BY <1>1, <1>3, <2>1, <2>3, Zenon
      <4> QED
        BY <3>1, <4>1, ProjectedAt, Zenon
    <3>8. Faithful => \A k \in KeysOf(Op(t)) : mem'[k] = Projected(Logged, Op(t), seq[t])[k]
      BY <1>3, <2>1, <3>3, <3>4, <3>5, <3>6, <3>7, Zenon
    <3>9. \A k \in Keys \ KeysOf(Op(t)) : mem'[k] = mem[k]
      BY <3>5, <3>6, Zenon
    <3> QED
      BY <1>3, <2>1, <2>2, <2>5, <3>8, <3>9, SingleDone, Zenon
  <2> QED
    BY <2>4, <2>5, Zenon
<1>6. CASE RenameStops(t)
  <2>1. /\ Applying(t) /\ Op(t).kind = "rename" /\ IsBatch(t) /\ pc[t] = "apply"
        /\ UNCHANGED <<base, wal, torn>>
    BY <1>6, Zenon DEF RenameStops, Applying, logVars, restVars
  <2>2. PICK m \in Maps : BatchAt(t, m)
    BY <1>3, <2>1, Zenon DEF DInv, BatchHolds
  <2>3. mem = Ahead(m, seq[t], SubSeq(Ops(t), 1, at[t] - 1)).m
    BY <2>1, <2>2, Zenon DEF BatchAt
  <2>4. Verdict(mem, Op(t)) = "pass"
    BY <1>3, <2>1, <2>2, <2>3, BatchNow, Zenon
  <2>5. RenameVerdict(mem, Op(t)) = "nothing"
    BY <1>3, <1>6, <2>1, <2>4, VerdictHolds, Zenon DEF RenameStops, RenameVerdict
  <2>6. mem' = mem /\ Advance(t)
    BY <1>6, <2>5, Zenon DEF RenameStops
  <2>7. Op(t).key = Op(t).dst
    BY <2>5, Zenon DEF RenameVerdict
  <2>8. Projected(mem, Op(t), SeqNow(t)) = mem
    BY <2>1, <2>7, Zenon DEF Projected, Inserts, Erases
  <2>9. /\ LocalData(t) /\ UNCHANGED req /\ view'[t] = view[t] /\ seq'[t] = seq[t]
        /\ pc'[t] = "apply" /\ at'[t] = at[t] + 1
    BY <1>1, <2>1, <2>6, Zenon DEF Advance, CallTypeOK, LocalData
  <2> QED
    BY <1>3, <2>1, <2>2, <2>3, <2>6, <2>8, <2>9, BatchAdvance, Zenon
<1> QED
  BY <1>4, <1>5, <1>6, Zenon

\* What an operation does to its keys depends on nothing else.
LEMMA ProjectedLocal ==
  ASSUME NEW m \in Maps, NEW n \in Maps, NEW op \in Operations, NEW s \in Nat,
         op.kind \notin Asserts, \A k \in KeysOf(op) : m[k] = n[k]
  PROVE  \A k \in KeysOf(op) : Projected(m, op, s)[k] = Projected(n, op, s)[k]
<1>1. op.key \in Keys /\ op.dst \in Keys
  BY Zenon DEF Operations
<1>2. op.kind \in Inserts \/ op.kind \in Erases \/ op.kind = "rename"
  BY Zenon DEF Operations
<1>3. CASE op.kind \in Inserts
  <2>1. KeysOf(op) = {op.key}
    BY <1>3, Zenon DEF KeysOf, Inserts
  <2>2. /\ Projected(m, op, s) = Inserted(m, op.key, s, s)
        /\ Projected(n, op, s) = Inserted(n, op.key, s, s)
    BY <1>3, Zenon DEF Projected, Inserts, Erases
  <2>3. Inserted(m, op.key, s, s)[op.key] = Inserted(n, op.key, s, s)[op.key]
    BY <1>1, Zenon DEF Inserted, Maps
  <2> QED
    BY <2>1, <2>2, <2>3, Zenon
<1>4. CASE op.kind \in Erases
  <2>1. KeysOf(op) = {op.key}
    BY <1>4, Zenon DEF KeysOf, Erases
  <2>2. /\ Projected(m, op, s) = Erased(m, op.key)
        /\ Projected(n, op, s) = Erased(n, op.key)
    BY <1>4, Zenon DEF Projected, Inserts, Erases
  <2>3. Erased(m, op.key)[op.key] = Erased(n, op.key)[op.key]
    BY <1>1, Zenon DEF Erased, Maps
  <2> QED
    BY <2>1, <2>2, <2>3, Zenon
<1>5. CASE op.kind = "rename" /\ op.key = op.dst
  <2>1. Projected(m, op, s) = m /\ Projected(n, op, s) = n
    BY <1>5, Zenon DEF Projected, Inserts, Erases
  <2> QED
    BY <2>1, Zenon
<1>6. CASE op.kind = "rename" /\ op.key # op.dst
  <2>1. KeysOf(op) = {op.key, op.dst}
    BY <1>6, Zenon DEF KeysOf
  <2>2. /\ Projected(m, op, s) = Inserted(Erased(m, op.key), op.dst, m[op.key].val, s)
        /\ Projected(n, op, s) = Inserted(Erased(n, op.key), op.dst, n[op.key].val, s)
    BY <1>6, Zenon DEF Projected, Inserts, Erases
  <2>3. \A k \in {op.key, op.dst} :
          Inserted(Erased(m, op.key), op.dst, m[op.key].val, s)[k]
            = Inserted(Erased(n, op.key), op.dst, n[op.key].val, s)[k]
    BY <1>1, <1>6, <2>1, Zenon DEF Inserted, Erased, Maps
  <2> QED
    BY <2>1, <2>2, <2>3
<1> QED
  BY <1>2, <1>3, <1>4, <1>5, <1>6, Zenon

\* A call logs what it did and stops writing.
LEMMA DataLog ==
  ASSUME Laws, CInv, DInv, NEW t \in Threads, LocalData(t), Writing(t), ~Writing(t)',
         UNCHANGED <<mem, base, torn>>, Logged' \in Maps,
         NoForcedSelfRename /\ IsBatch(t)' => Ops(t)' \in Seq(PlainOps),
         pc'[t] # "internal", ViewHolds(t)',
         Faithful /\ IsBatch(t) => mem = Logged',
         Faithful /\ ~IsBatch(t) =>
           /\ \A k \in KeysOf(Ops(t)[1]) : mem[k] = Logged'[k]
           /\ \A k \in Keys \ KeysOf(Ops(t)[1]) : Logged'[k] = Logged[k]
  PROVE  DInv'
<1>1. Faithful' <=> Faithful
  BY Zenon DEF Faithful
<1>2. Logged \in Maps
  BY Zenon DEF CInv, TypeOK, StoreTypeOK, Logged, Laws, ReplayTypeLaw
<1>3. LogHolds'
  <2> SUFFICES ASSUME Faithful, NEW k \in Keys, Quiet(k)'
               PROVE  mem[k] = Logged'[k]
    BY <1>1, Zenon DEF LogHolds
  <2>1. CASE IsBatch(t) \/ k \in KeysOf(Ops(t)[1])
    BY <2>1, Zenon
  <2>2. CASE ~IsBatch(t) /\ k \notin KeysOf(Ops(t)[1])
    <3>1. Quiet(k)
      BY <2>2, QuietKeep, Zenon
    <3> QED
      BY <2>2, <3>1, Zenon DEF DInv, LogHolds
  <2> QED
    BY <2>1, <2>2, Zenon
<1>4. ASSUME NEW u \in Threads \ {t}
      PROVE  /\ pc'[u] # "internal" /\ SingleHolds(u)' /\ BatchHolds(u)' /\ ViewHolds(u)'
             /\ NoForcedSelfRename /\ IsBatch(u)' => Ops(u)' \in Seq(PlainOps)
  <2>1. /\ pc'[u] = pc[u] /\ req'[u] = req[u] /\ at'[u] = at[u]
        /\ view'[u] = view[u] /\ seq'[u] = seq[u] /\ moved'[u] = moved[u]
    BY Zenon DEF LocalData
  <2>2. pc[u] # "internal" /\ SingleHolds(u) /\ Control(u) /\ CallTypeOK
    BY Zenon DEF DInv, CInv, TypeOK
  <2>3. Ops(u)' = Ops(u) /\ (IsBatch(u)' <=> IsBatch(u)) /\ (Writing(u)' <=> Writing(u))
    BY <2>1, Zenon DEF Ops, IsBatch, Writing
  <2>4. req[u].call # "view"
    <3>1. req[u].call = "view" => InGate(u)
      BY <2>2, Zenon DEF Control, InGate
    <3> QED
      BY <3>1, WriterType, Zenon
  <2>5. Writing(u) => ~IsBatch(u) /\ ~IsBatch(t) /\ Locked(u) /\ Locked(t)
    BY WriterType, Zenon
  <2>6. BatchHolds(u)' /\ ViewHolds(u)'
    BY <2>1, <2>3, <2>4, <2>5, Zenon DEF BatchHolds, ViewHolds
  <2>7. ASSUME Writing(u), Faithful
        PROVE  SingleHolds(u)'
    <3> DEFINE op == Ops(u)[1]
    <3>1. KeysOf(op) \cap KeysOf(Ops(t)[1]) = {}
      BY <2>5, <2>7, KeysDisjoint, Zenon
    <3>2. op \in Operations /\ op.kind \notin Asserts /\ KeysOf(op) \subseteq Keys
      BY <2>5, <2>7, SingleType, Zenon DEF Locked
    <3> HIDE DEF op
    <3>3. \A k \in KeysOf(op) : Logged'[k] = Logged[k]
      BY <2>5, <2>7, <3>1, <3>2, Zenon
    <3>4. op.kind = "rename" => /\ RenameVerdict(Logged', op) = RenameVerdict(Logged, op)
                                /\ Logged'[op.key] = Logged[op.key]
      <4>1. op.kind = "rename" =>
              Logged'[op.key] = Logged[op.key] /\ Logged'[op.dst] = Logged[op.dst]
        BY <3>3, Zenon DEF KeysOf
      <4> QED
        BY <4>1, Zenon DEF RenameVerdict, Live
    <3>5. seq[u] \in Nat
      BY <2>2, Zenon DEF CallTypeOK
    <3>6. \A k \in KeysOf(op) : Projected(Logged', op, seq[u])[k] = Projected(Logged, op, seq[u])[k]
      BY <1>2, <3>2, <3>3, <3>5, ProjectedLocal, Zenon
    <3> QED
      <4>1. SingleAt(u)
        BY <2>2, <2>5, <2>7, Zenon DEF SingleHolds
      <4>2. SingleAt(u)'
        BY <2>1, <2>3, <3>3, <3>4, <3>6, <4>1, Zenon DEF SingleAt, op
      <4> QED
        BY <4>2, Zenon DEF SingleHolds
  <2>8. SingleHolds(u)'
    BY <1>1, <2>3, <2>7, Zenon DEF SingleHolds, SingleAt
  <2>9. NoForcedSelfRename /\ IsBatch(u)' => Ops(u)' \in Seq(PlainOps)
    BY <2>3, Zenon DEF DInv, PlainBatches
  <2> QED
    BY <2>1, <2>2, <2>6, <2>8, <2>9, Zenon
<1>5. SingleHolds(t)' /\ BatchHolds(t)'
  BY Zenon DEF SingleHolds, SingleAt, BatchHolds
<1>6. PlainBatches'
  BY <1>4, Zenon DEF PlainBatches
<1> QED
  BY <1>3, <1>4, <1>5, <1>6, Zenon DEF DInv

\* The last steps of a writer keep it.
LEMMA EndData ==
  ASSUME Laws, CInv, DInv, NEW t \in Threads
  PROVE  /\ WalkerFails(t) => DInv'
         /\ Submit(t) => DInv'
         /\ Ack(t) => DInv'
<1>1. StoreTypeOK /\ CallTypeOK /\ Control(t)
  BY Zenon DEF CInv, TypeOK
<1>2. Ops(t) \in Seq(Operations) /\ seq[t] \in Nat
  BY <1>1, Zenon DEF CallTypeOK, Reqs, Ops
<1>3. CASE WalkerFails(t)
  <2>1. /\ Writing(t) /\ Return(t, "idle") /\ \A u \in Threads \ {t} : at'[u] = at[u]
        /\ torn' = (torn \/ pc[t] = "insert" \/ at[t] > 1)
        /\ UNCHANGED <<mem, base, wal>>
    BY <1>1, <1>3, Zenon DEF WalkerFails, Writing, CallTypeOK, logVars
  <2>2. CASE torn'
    <3>1. ~Faithful'
      BY <2>2, Zenon DEF Faithful
    <3> QED
      BY <2>1, <2>2, <3>1, ReturnData, DataKeep, Zenon
  <2>3. CASE ~torn'
    <3>1. pc[t] = "apply" /\ ~(at[t] > 1) /\ torn' = torn
      BY <1>1, <2>1, <2>3, Zenon DEF Writing, StoreTypeOK
    <3>2. at[t] = 1
      BY <1>1, <3>1 DEF Control
    <3> QED
      BY <2>1, <3>1, <3>2, SingleUndone, Zenon
  <2> QED
    BY <2>2, <2>3, Zenon
<1>4. CASE Submit(t)
  <2> DEFINE r == Record(Ops(t), seq[t])
  <2>1. /\ pc[t] = "apply" /\ Writing(t) /\ at[t] > Len(Ops(t)) /\ wal' = Append(wal, r)
        /\ UNCHANGED <<mem, base, torn>>
        /\ \A u \in Threads \ {t} : at'[u] = at[u]
    BY <1>1, <1>4, Zenon DEF Submit, Writing, CallTypeOK, restVars
  <2>2. r \in WalRecords
    BY <1>2, Zenon DEF Laws, RecordTypeLaw
  <2> HIDE DEF r
  <2>3. Logged' = ReplayRecord(Logged, r) /\ Logged \in Maps /\ Logged' \in Maps
    BY <1>1, <2>1, <2>2 DEF StoreTypeOK, Logged, Laws, ReplayAppendLaw, ReplayTypeLaw,
       ReplayRecordLaw
  <2>4. /\ LocalData(t) /\ ~Writing(t)' /\ pc'[t] # "internal" /\ ViewHolds(t)'
        /\ NoForcedSelfRename /\ IsBatch(t)' => Ops(t)' \in Seq(PlainOps)
    <3>1. CASE IsBatch(t) /\ WalSync
      <4>1. /\ pc'[t] = "ack" /\ req' = req /\ LocalData(t)
        BY <1>1, <1>4, <2>1, <3>1, Zenon DEF Submit, Goto, CallTypeOK, LocalData
      <4>2. ~Writing(t)' /\ ViewHolds(t)'
        BY <3>1, <4>1, Zenon DEF Writing, ViewHolds, IsBatch
      <4> QED
        BY <4>1, <4>2, Zenon DEF DInv, PlainBatches, IsBatch, Ops
    <3>2. CASE ~(IsBatch(t) /\ WalSync)
      <4>1. Return(t, IF WalSync THEN "ack" ELSE "idle")
        BY <1>4, <3>2, Zenon DEF Submit
      <4> QED
        BY <2>1, <4>1, ReturnData, Zenon
    <3> QED
      BY <3>1, <3>2, Zenon
  <2>5. at[t] = Len(Ops(t)) + 1
    BY <1>1, <1>2, <2>1 DEF Control
  <2>6. ASSUME Faithful, IsBatch(t)
        PROVE  mem = Logged'
    <3>1. PICK m \in Maps : BatchAt(t, m)
      BY <2>1, <2>6, Zenon DEF DInv, BatchHolds
    <3>2. at[t] - 1 = Len(Ops(t)) /\ SubSeq(Ops(t), 1, Len(Ops(t))) = Ops(t)
      BY <1>2, <2>5
    <3>3. mem = Ahead(m, seq[t], SubSeq(Ops(t), 1, at[t] - 1)).m
      BY <2>1, <3>1, Zenon DEF BatchAt
    <3>4. mem = Ahead(m, seq[t], Ops(t)).m
      BY <3>2, <3>3, Zenon
    <3>5. Ahead(m, seq[t], Ops(t)).verdict = "pass" /\ m = Logged
      BY <2>6, <3>1, Zenon DEF BatchAt
    <3>6. Ops(t) \in Seq(PlainOps)
      BY <2>6, Zenon DEF DInv, PlainBatches, Faithful
    <3>7. ReplayRecord(m, r) = Ahead(m, seq[t], Ops(t)).m
      BY <1>2, <3>5, <3>6, Zenon DEF r, Laws, ReplayBatchLaw
    <3> QED
      BY <2>3, <3>4, <3>5, <3>7, Zenon
  <2>7. ASSUME Faithful, ~IsBatch(t)
        PROVE  /\ \A k \in KeysOf(Ops(t)[1]) : mem[k] = Logged'[k]
               /\ \A k \in Keys \ KeysOf(Ops(t)[1]) : Logged'[k] = Logged[k]
    <3> DEFINE op == Ops(t)[1]
    <3>1. Locked(t)
      BY <2>1, <2>7, WriterType, Zenon
    <3>2. /\ Len(Ops(t)) = 1 /\ op \in Operations /\ Ops(t) = <<op>>
          /\ op.kind \notin Asserts
      BY <3>1, SingleType, Zenon DEF Locked
    <3>3. at[t] = 2
      BY <2>5, <3>2
    <3>4. SingleHolds(t)
      BY Zenon DEF DInv
    <3>5. /\ op.kind = "rename" => RenameVerdict(Logged, op) = "move"
          /\ \A k \in KeysOf(op) : mem[k] = Projected(Logged, op, seq[t])[k]
      BY <2>1, <2>7, <3>3, <3>4, Zenon DEF SingleHolds, SingleAt
    <3> HIDE DEF op
    <3>6. r = Record(<<op>>, seq[t])
      BY <3>2, Zenon DEF r
    <3>7. Logged' = Projected(Logged, op, seq[t])
      BY <1>2, <2>3, <3>2, <3>5, <3>6, Zenon DEF Laws, ReplaySingleLaw
    <3>8. \A k \in Keys \ KeysOf(op) : Logged'[k] = Logged[k]
      BY <2>3, <3>2, <3>7, ProjectedElsewhere
    <3> QED
      BY <3>5, <3>7, <3>8, Zenon DEF op
  <2> QED
    BY <2>1, <2>3, <2>4, <2>6, <2>7, DataLog, Zenon
<1>5. CASE Ack(t)
  <2>1. /\ ~Writing(t) /\ Return(t, "idle") /\ \A u \in Threads \ {t} : at'[u] = at[u]
        /\ UNCHANGED <<mem, base, wal, torn>>
    BY <1>1, <1>5, Zenon DEF Ack, Writing, CallTypeOK, logVars, restVars
  <2> QED
    BY <2>1, ReturnOutside, Zenon
<1> QED
  BY <1>3, <1>4, <1>5, Zenon

\* The steps of views and listings keep it.
LEMMA ReadData ==
  ASSUME CInv, DInv, NEW t \in Threads
  PROVE  /\ (\E b \in Blobs : CopyBlob(t, b)) => DInv'
         /\ EndCapture(t) => DInv'
         /\ (\E c \in Calls : List(t, c)) => DInv'
         /\ Consult(t) => DInv'
         /\ EpochBefore(t) => DInv'
         /\ EnterScan(t) => DInv'
         /\ (\E b \in Blobs : ScanBlob(t, b)) => DInv'
         /\ StoreListing(t) => DInv'
<1>1. StoreTypeOK /\ CallTypeOK /\ Control(t)
  BY Zenon DEF CInv, TypeOK
<1>2. req[t].call \in {"none", "single", "batch", "view", "list"}
  BY <1>1, Zenon DEF CallTypeOK, Reqs
<1>3. ASSUME NEW b \in Blobs, CopyBlob(t, b)
      PROVE  DInv'
  <2> DEFINE D == DOMAIN view[t] \cup {j \in Keys : BlobOf[j] = b}
  <2>1. /\ pc[t] = "capture" /\ pc'[t] \in {"viewed", "capture"}
        /\ pc'[t] = "viewed" => DOMAIN view'[t] = Keys
        /\ view'[t] = [k \in D |-> IF BlobOf[k] = b THEN mem[k] ELSE view[t][k]]
        /\ req' = req /\ LocalData(t)
        /\ UNCHANGED <<mem, base, wal, torn>>
    BY <1>1, <1>3, Zenon DEF CopyBlob, CallTypeOK, LocalData, logVars, restVars
  <2>2. req[t].call = "view" /\ InGate(t) /\ ~Writing(t) /\ ~Writing(t)'
    BY <1>1, <1>2, <2>1, Zenon DEF Control, SinglePcs, BatchPcs, InGate, Writing
  <2>3. DOMAIN view[t] \subseteq Keys
    BY <1>1 DEF CallTypeOK, Views
  <2>4. Faithful => \A k \in Keys : mem[k] = Logged[k]
    BY <2>2, AloneLogged, Zenon
  <2>5. Faithful => \A k \in DOMAIN view[t] : view[t][k] = Logged[k]
    BY <2>2, Zenon DEF DInv, ViewHolds
  <2>6. Logged' = Logged /\ (Faithful' <=> Faithful)
    BY <2>1, Zenon DEF Logged, Faithful
  <2>7. Faithful => \A k \in D : view'[t][k] = Logged[k]
    BY <2>1, <2>3, <2>4, <2>5, Zenon
  <2>8. DOMAIN view'[t] = D
    BY <2>1, Zenon
  <2> HIDE DEF D
  <2>9. ViewHolds(t)'
    BY <2>1, <2>6, <2>7, <2>8, Zenon DEF ViewHolds
  <2>10. ~IsBatch(t)' /\ pc'[t] # "internal"
    BY <2>1, <2>2, Zenon DEF IsBatch
  <2> QED
    BY <2>1, <2>2, <2>9, <2>10, DataOutside, Zenon
<1>4. CASE EndCapture(t)
  BY <1>4, ReturnOutside, Zenon DEF EndCapture, Writing, logVars, restVars
<1>5. ASSUME NEW c \in Calls, List(t, c)
      PROVE  DInv'
  <2>1. /\ pc[t] = "idle" /\ pc'[t] = "consult" /\ req'[t] = c /\ c.call = "list"
        /\ LocalData(t) /\ UNCHANGED <<mem, base, wal, torn>>
    BY <1>1, <1>5, Zenon DEF List, Goto, CallTypeOK, LocalData, logVars, restVars
  <2>2. /\ ~Writing(t) /\ ~Writing(t)' /\ ~IsBatch(t)' /\ ViewHolds(t)'
        /\ pc'[t] # "internal"
    BY <2>1, Zenon DEF Writing, IsBatch, ViewHolds
  <2> QED
    BY <2>1, <2>2, DataOutside, Zenon
<1>6. CASE Consult(t)
  <2>1. /\ pc[t] = "consult" /\ ~Writing(t) /\ at' = at
        /\ UNCHANGED <<mem, base, wal, torn>>
    BY <1>6, Zenon DEF Consult, Writing, logVars, restVars
  <2>2. CASE Return(t, "idle")
    BY <2>1, <2>2, ReturnOutside, Zenon
  <2>3. CASE pc' = [pc EXCEPT ![t] = "missed"] /\ UNCHANGED <<req, got, seq, moved, view>>
    <3>1. /\ pc'[t] = "missed" /\ LocalData(t) /\ req'[t] = req[t] /\ req[t].call # "view"
      BY <1>1, <2>1, <2>3, Zenon DEF CallTypeOK, LocalData, Control
    <3>2. ~Writing(t)' /\ pc'[t] # "internal"
      BY <3>1, Zenon DEF Writing
    <3> QED
      BY <2>1, <3>1, <3>2, MoveOutside, Zenon
  <2> QED
    BY <1>6, <2>2, <2>3, Zenon DEF Consult
<1>7. ASSUME \/ EpochBefore(t) \/ EnterScan(t) \/ \E b \in Blobs : ScanBlob(t, b)
      PROVE  DInv'
  <2>1. /\ pc[t] \in {"missed", "scan"} /\ pc'[t] \in {"missed", "scan"}
        /\ LocalData(t) /\ req'[t] = req[t]
        /\ UNCHANGED <<mem, base, wal, torn>>
    <3>1. CASE EpochBefore(t)
      BY <1>1, <3>1, Zenon DEF EpochBefore, CallTypeOK, LocalData, logVars, restVars
    <3>2. CASE EnterScan(t)
      BY <1>1, <3>2, Zenon DEF EnterScan, Goto, CallTypeOK, LocalData, logVars, restVars
    <3>3. CASE \E b \in Blobs : ScanBlob(t, b)
      BY <1>1, <3>3, Zenon DEF ScanBlob, CallTypeOK, LocalData, logVars, restVars
    <3> QED
      BY <1>7, <3>1, <3>2, <3>3, Zenon
  <2>2. ~Writing(t) /\ ~Writing(t)' /\ pc'[t] # "internal" /\ req[t].call # "view"
    BY <1>1, <2>1, Zenon DEF Writing, Control
  <2> QED
    BY <2>1, <2>2, MoveOutside, Zenon
<1>8. CASE StoreListing(t)
  BY <1>8, ReturnOutside, Zenon DEF StoreListing, Writing, logVars
<1> QED
  BY <1>3, <1>4, <1>5, <1>6, <1>7, <1>8, Zenon

\* The log, the checkpointer and a crash keep it.
LEMMA StoreData ==
  ASSUME Laws, CInv, DInv
  PROVE  /\ Sync => DInv'
         /\ (\E b \in Blobs : FlushBlob(b)) => DInv'
         /\ Truncate => DInv'
         /\ Crash => DInv'
<1>1. StoreTypeOK /\ CallTypeOK
  BY Zenon DEF CInv, TypeOK
<1>2. CASE Sync
  BY <1>2, DataSame, Zenon DEF Sync, restVars
<1>3. ASSUME NEW b \in Blobs, FlushBlob(b)
      PROVE  DInv'
  BY <1>3, DataSame, Zenon DEF FlushBlob, restVars
<1>4. CASE Truncate
  <2>1. /\ wal' = <<>> /\ base' = mem
        /\ UNCHANGED <<mem, torn, pc, req, seq, moved, view>>
        /\ \A t \in Threads : ~Writing(t)
    BY <1>4, Zenon DEF Truncate, CommitGateFree, Writing, restVars
  <2>2. Logged' = mem /\ (Faithful' <=> Faithful)
    BY <2>1, Zenon DEF Logged, Faithful, Laws, ReplayEmptyLaw
  <2>3. Faithful => \A k \in Keys : mem[k] = Logged[k]
    BY <2>1, Zenon DEF DInv, LogHolds, Quiet
  <2>4. LogHolds' /\ PlainBatches'
    BY <2>1, <2>2, Zenon DEF DInv, LogHolds, PlainBatches, IsBatch, Ops
  <2>5. ASSUME NEW t \in Threads
        PROVE  pc'[t] # "internal" /\ SingleHolds(t)' /\ BatchHolds(t)' /\ ViewHolds(t)'
    <3>1. pc[t] # "internal" /\ ViewHolds(t) /\ DOMAIN view[t] \subseteq Keys
      BY <1>1 DEF DInv, CallTypeOK, Views
    <3>2. ~Writing(t)'
      BY <2>1, Zenon DEF Writing
    <3>3. ViewHolds(t)'
      BY <2>1, <2>2, <2>3, <3>1, Zenon DEF ViewHolds
    <3> QED
      BY <2>1, <3>1, <3>2, <3>3, Zenon DEF SingleHolds, SingleAt, BatchHolds
  <2> QED
    BY <2>4, <2>5, Zenon DEF DInv
<1>5. CASE Crash
  <2>1. /\ mem' = Replay(image, wal') /\ base' = image
        /\ \A t \in Threads : pc'[t] = "idle" /\ req'[t] = NoCall
    BY <1>5, Zenon DEF Crash
  <2>2. mem' = Logged'
    BY <2>1, Zenon DEF Logged
  <2>3. \A t \in Threads : ~Writing(t)' /\ ~IsBatch(t)' /\ req'[t].call # "view"
    BY <2>1, NoCallType, Zenon DEF Writing, IsBatch
  <2>4. LogHolds' /\ PlainBatches'
    BY <2>2, <2>3, Zenon DEF LogHolds, PlainBatches
  <2> QED
    BY <2>1, <2>3, <2>4, Zenon DEF DInv, SingleHolds, BatchHolds, ViewHolds
<1> QED
  BY <1>2, <1>3, <1>4, <1>5, Zenon

\* Every step keeps the data invariant.
LEMMA DataStep ==
  ASSUME Laws, CInv, CInv', DInv, [Next]_vars
  PROVE  DInv'
<1>1. CASE UNCHANGED vars
  BY <1>1, DataSame, Zenon DEF vars, logVars, restVars
<1>2. ASSUME NEW t \in Threads,
             \/ \E k \in TokenKeys : GetVersion(t, k)
             \/ \E c \in Calls : Call(t, c)
             \/ LockShard(t) \/ TakeSeq(t) \/ Probe(t) \/ PreflightBatch(t)
      PROVE  DInv'
  BY <1>2, EnterData, Zenon
<1>3. ASSUME NEW t \in Threads,
             \/ ApplyInsert(t) \/ ApplyErase(t) \/ ApplyAssert(t)
             \/ RenameErase(t) \/ RenameInsert(t) \/ RenameStops(t)
      PROVE  DInv'
  BY <1>3, ApplyData, RenameData, Zenon
<1>4. ASSUME NEW t \in Threads, WalkerFails(t) \/ Submit(t) \/ Ack(t)
      PROVE  DInv'
  BY <1>4, EndData, Zenon
<1>5. ASSUME NEW t \in Threads,
             \/ \E b \in Blobs : CopyBlob(t, b)
             \/ EndCapture(t)
             \/ \E c \in Calls : List(t, c)
             \/ Consult(t) \/ EpochBefore(t) \/ EnterScan(t)
             \/ \E b \in Blobs : ScanBlob(t, b)
             \/ StoreListing(t)
      PROVE  DInv'
  BY <1>5, ReadData, Zenon
<1>6. CASE Sync \/ (\E b \in Blobs : FlushBlob(b)) \/ Truncate \/ Crash
  BY <1>6, StoreData, Zenon
<1> QED
  BY <1>1, <1>2, <1>3, <1>4, <1>5, <1>6, Zenon DEF Next

\* It holds at first.
LEMMA DataInit ==
  ASSUME Laws
  PROVE  Init => DInv
<1> SUFFICES ASSUME Init
             PROVE  DInv
  BY Zenon
<1>1. base = mem /\ wal = <<>> /\ \A t \in Threads : pc[t] = "idle" /\ req[t] = NoCall
  BY Zenon DEF Init
<1>2. Logged = mem
  BY <1>1, Zenon DEF Logged, Laws, ReplayEmptyLaw
<1>3. \A t \in Threads : ~Writing(t) /\ ~IsBatch(t) /\ req[t].call # "view"
  BY <1>1, NoCallType, Zenon DEF Writing, IsBatch
<1>4. LogHolds /\ PlainBatches
  BY <1>2, <1>3, Zenon DEF LogHolds, PlainBatches
<1> QED
  BY <1>1, <1>3, <1>4, Zenon DEF DInv, SingleHolds, BatchHolds, ViewHolds

\* If no call failed half way, replaying the log gives back every record that
\* no call is changing.
LEMMA LogHoldsOutside ==
  ASSUME Laws
  PROVE  NoForcedSelfRename /\ CInv /\ DInv => LogMatchesMemory
<1> SUFFICES ASSUME NoForcedSelfRename, CInv, DInv, ~torn, NEW k \in Keys \ Changing
             PROVE  mem[k] = Replay(base, wal)[k]
  BY Zenon DEF LogMatchesMemory
<1>1. ASSUME NEW t \in Threads, Writing(t), ~IsBatch(t)
      PROVE  k \notin KeysOf(Ops(t)[1])
  <2>1. Locked(t)
    BY <1>1, WriterType, Zenon
  <2>2. Ops(t) \in Seq(Operations) /\ Len(Ops(t)) = 1
    BY <2>1, SingleType, Zenon DEF Locked
  <2>3. Ops(t)[1] \in OpsOf(t)
    <3>1. 1 \in DOMAIN Ops(t)
      BY <2>2
    <3> QED
      BY <3>1, Zenon DEF OpsOf
  <2>4. {Ops(t)[1].key, Ops(t)[1].dst} \subseteq Changing
    BY <1>1, <2>3, Zenon DEF Changing, Writing
  <2> QED
    BY <2>4, Zenon DEF KeysOf
<1>2. Faithful
  BY Zenon DEF Faithful
<1>3. CASE \A t \in Threads : Writing(t) => ~IsBatch(t)
  <2>1. Quiet(k)
    BY <1>1, <1>3, Zenon DEF Quiet
  <2> QED
    BY <1>2, <2>1, Zenon DEF DInv, LogHolds, Logged
<1>4. ASSUME NEW t \in Threads, Writing(t), IsBatch(t)
      PROVE  mem[k] = Replay(base, wal)[k]
  <2>1. PICK m \in Maps : BatchAt(t, m)
    BY <1>4, Zenon DEF DInv, BatchHolds
  <2>2. Control(t) /\ Ops(t) \in Seq(Operations) /\ seq[t] \in Nat
    BY Zenon DEF CInv, TypeOK, CallTypeOK, Reqs, Ops
  <2>3. at[t] \in 1 .. Len(Ops(t)) + 1
    BY <1>4, <2>2 DEF Control, Writing
  <2>4. ASSUME NEW i \in 1 .. Len(Ops(t))
        PROVE  k \notin KeysOf(Ops(t)[i]) /\ k # Ops(t)[i].key
    <3>1. Ops(t)[i] \in OpsOf(t)
      BY <2>2 DEF OpsOf
    <3>2. {Ops(t)[i].key, Ops(t)[i].dst} \subseteq Changing
      BY <1>4, <3>1, Zenon DEF Changing, Writing
    <3> QED
      BY <3>2, Zenon DEF KeysOf
  <2> DEFINE q == SubSeq(Ops(t), 1, at[t] - 1)
             p == Ahead(m, seq[t], q).m
  <2>5. /\ q \in Seq(Operations)
        /\ \A i \in 1 .. Len(q) : i \in 1 .. Len(Ops(t)) /\ q[i] = Ops(t)[i]
    BY <2>2, <2>3
  <2>6. \A i \in 1 .. Len(q) : k \notin KeysOf(q[i])
    BY <2>4, <2>5, Zenon
  <2> HIDE DEF q
  <2>7. p[k] = m[k] /\ p \in Maps
    <3>1. p[k] = m[k]
      BY <2>2, <2>5, <2>6, Zenon DEF Laws, AheadElsewhereLaw
    <3>2. Ahead(m, seq[t], q) \in Projections
      BY <2>2, <2>5, Zenon DEF Laws, AheadTypeLaw
    <3> QED
      BY <3>1, <3>2, Zenon DEF Projections
  <2>8. m = Logged /\ (pc[t] = "apply" => mem = p)
        /\ (pc[t] = "insert" => mem = Erased(p, Op(t).key))
    BY <1>2, <2>1, Zenon DEF BatchAt, q
  <2> HIDE DEF p
  <2>9. CASE pc[t] = "apply"
    BY <2>7, <2>8, <2>9, Zenon DEF Logged
  <2>10. CASE pc[t] = "insert"
    <3>1. at[t] \in 1 .. Len(Ops(t))
      BY <2>2, <2>10, Zenon DEF Control
    <3>2. k # Op(t).key
      BY <2>4, <3>1, Zenon DEF Op
    <3>3. Erased(p, Op(t).key)[k] = p[k]
      BY <2>7, <3>2, Zenon DEF Erased, Maps
    <3> QED
      BY <2>7, <2>8, <2>10, <3>3, Zenon DEF Logged
  <2> QED
    BY <1>4, <2>9, <2>10, Zenon DEF Writing
<1> QED
  BY <1>3, <1>4, Zenon

\* A view that is captured is what the log says, whole: no part of a batch or
\* of a rename shows in it.
LEMMA ViewsHold ==
  ASSUME Laws
  PROVE  NoForcedSelfRename /\ CInv /\ DInv => ViewIsCommitted
<1> SUFFICES ASSUME NoForcedSelfRename, CInv, DInv, ~torn, NEW t \in Threads,
                    pc[t] = "viewed"
             PROVE  view[t] = Logged
  BY Zenon DEF ViewIsCommitted, Logged
<1>1. Control(t) /\ StoreTypeOK /\ CallTypeOK
  BY Zenon DEF CInv, TypeOK
<1>2. req[t].call = "view"
  BY <1>1, Zenon DEF Control, CallTypeOK, Reqs, SinglePcs, BatchPcs
<1>3. /\ DOMAIN view[t] = Keys
      /\ \A k \in DOMAIN view[t] : view[t][k] = Logged[k]
  BY <1>2, Zenon DEF DInv, ViewHolds, Faithful
<1>4. Logged \in Maps
  BY <1>1, Zenon DEF StoreTypeOK, Logged, Laws, ReplayTypeLaw
<1>5. view[t] \in [DOMAIN view[t] -> Records]
  BY <1>1 DEF CallTypeOK, Views
<1> QED
  BY <1>3, <1>4, <1>5 DEF Maps
=============================================================================
