-------------------------- MODULE TreeHistoryProofs --------------------------
(****************************************************************************)
(* What every step of a tree keeps of its past, on top of the invariants of *)
(* TreeProofs: a version stands for the record it was read from (VInv), and *)
(* the images and the surviving log give the records back (RInv).           *)
(****************************************************************************)
EXTENDS TreeProofs


-----------------------------------------------------------------------------
(* Versions *)

\* The numbers of a call, one operation after the other.
LEMMA SeqAfterNext ==
  ASSUME Laws, NEW s \in Nat, NEW ops \in Seq(Operations), NEW i \in 1 .. Len(ops)
  PROVE  SeqAfter(s, SubSeq(ops, 1, i)) = SeqStep(SeqAfter(s, SubSeq(ops, 1, i - 1)), ops[i])
<1> DEFINE p == SubSeq(ops, 1, i - 1)
<1>1. p \in Seq(Operations) /\ ops[i] \in Operations /\ SubSeq(ops, 1, i) = Append(p, ops[i])
  OBVIOUS
<1> HIDE DEF p
<1>2. SeqAfter(s, Append(p, ops[i])) = SeqStep(SeqAfter(s, p), ops[i])
  BY <1>1, Zenon DEF Laws, SeqAppendLaw
<1> QED
  BY <1>1, <1>2, Zenon DEF p

\* The number a call is at lies among its own.
LEMMA NumberType ==
  ASSUME Laws, CInv, NEW t \in Threads, Numbered(t)
  PROVE  /\ seq[t] \in Nat /\ SeqNow(t) \in Nat /\ End(t) \in Nat
         /\ seq[t] <= SeqNow(t) /\ SeqNow(t) <= End(t)
         /\ at[t] \in 1 .. Len(Ops(t)) + 1
         /\ at[t] <= Len(Ops(t)) /\ EmitsWal(Op(t)) => SeqNow(t) + 1 <= End(t)
<1>1. Control(t) /\ Ops(t) \in Seq(Operations) /\ seq[t] \in Nat
  BY Zenon DEF CInv, TypeOK, CallTypeOK, Reqs, Ops
<1>2. at[t] \in 1 .. Len(Ops(t)) + 1
  BY <1>1 DEF Control, Numbered
<1>3. at[t] - 1 \in 0 .. Len(Ops(t))
  BY <1>1, <1>2
<1>4. End(t) \in Nat
  BY <1>1, Zenon DEF End, Laws, SeqTypeLaw
<1>5. SeqNow(t) \in Nat /\ seq[t] <= SeqNow(t) /\ SeqNow(t) <= End(t)
  BY <1>1, <1>3, Zenon DEF SeqNow, OpSeq, End, Laws, SeqPrefixLaw
<1>6. ASSUME at[t] <= Len(Ops(t)), EmitsWal(Op(t))
      PROVE  SeqNow(t) + 1 <= End(t)
  <2>1. at[t] \in 1 .. Len(Ops(t)) /\ at[t] \in 0 .. Len(Ops(t))
    BY <1>2, <1>6
  <2>2. SeqAfter(seq[t], SubSeq(Ops(t), 1, at[t])) = SeqStep(SeqNow(t), Op(t))
    BY <1>1, <2>1, SeqAfterNext, Zenon DEF SeqNow, OpSeq, Op
  <2>3. SeqAfter(seq[t], SubSeq(Ops(t), 1, at[t])) <= End(t)
    BY <1>1, <2>1, Zenon DEF End, Laws, SeqPrefixLaw
  <2> QED
    BY <1>6, <2>2, <2>3, Zenon DEF SeqStep
<1> QED
  BY <1>1, <1>2, <1>4, <1>5, <1>6, Zenon

\* The number a call is at after one more operation.
LEMMA NumberNext ==
  ASSUME Laws, CInv, NEW t \in Threads, Numbered(t), at[t] <= Len(Ops(t)),
         at'[t] = at[t] + 1, req'[t] = req[t], seq'[t] = seq[t]
  PROVE  SeqNow(t)' = SeqStep(SeqNow(t), Op(t))
<1>1. Ops(t) \in Seq(Operations) /\ seq[t] \in Nat /\ Ops(t)' = Ops(t)
  BY Zenon DEF CInv, TypeOK, CallTypeOK, Reqs, Ops
<1>2. at[t] \in 1 .. Len(Ops(t)) /\ at'[t] - 1 = at[t]
  BY NumberType
<1>3. SeqAfter(seq[t], SubSeq(Ops(t), 1, at[t])) = SeqStep(SeqNow(t), Op(t))
  BY <1>1, <1>2, SeqAfterNext, Zenon DEF SeqNow, OpSeq, Op
<1> QED
  BY <1>1, <1>2, <1>3, Zenon DEF SeqNow, OpSeq

\* A step that writes nothing and takes no number.
LEMMA VersionKeep ==
  ASSUME Laws, CInv, CInv', VInv, UNCHANGED <<mem, nextSeq, token, crashes>>,
         \A u \in Threads : TokenHolds(u)' /\ KeepsNumbers(u)
  PROVE  VInv'
<1> SUFFICES ASSUME crashes = 0
             PROVE  (IssuedHolds /\ StaleHolds /\ \A t \in Threads : NumbersHold(t))'
  BY Zenon DEF VInv
<1>1. IssuedHolds /\ StaleHolds /\ \A t \in Threads : NumbersHold(t)
  BY Zenon DEF VInv
<1>2. IssuedHolds' /\ StaleHolds'
  BY <1>1, Zenon DEF IssuedHolds, StaleHolds, HasVersion, Live
<1>3. ASSUME NEW t \in Threads, Numbered(t)'
      PROVE  NumbersHold(t)'
  <2>1. /\ Numbered(t) /\ seq'[t] = seq[t] /\ Ops(t)' = Ops(t)
        /\ SeqNow(t)' \in {SeqNow(t), SeqNow(t) + 1} /\ End(t)' = End(t)
    BY <1>3, Zenon DEF KeepsNumbers, End
  <2>2. SeqNow(t) \in Nat
    BY <2>1, NumberType, Zenon
  <2>3. \A n \in Nat : Outside(n, t) => Outside(n, t)'
    BY <2>1, <2>2 DEF Outside
  <2>4. NumbersHold(t)
    BY <1>1, Zenon
  <2>5. \A k \in Keys : mem[k].ver \in Nat /\ mem'[k] = mem[k]
    BY Zenon DEF CInv, TypeOK, StoreTypeOK, Maps, Records
  <2>6. \A u \in Threads : token[u] # NoToken => token[u].ver \in Nat
    BY Zenon DEF CInv, TypeOK, StoreTypeOK, Tokens
  <2>7. \A u \in Threads \ {t} : Numbered(u)' =>
          Numbered(u) /\ seq'[u] = seq[u] /\ End(u)' = End(u)
    BY Zenon DEF KeepsNumbers, End
  <2> QED
    BY <2>1, <2>3, <2>4, <2>5, <2>6, <2>7, Zenon DEF NumbersHold
<1>4. \A t \in Threads : NumbersHold(t)'
  BY <1>3, Zenon DEF NumbersHold
<1> QED
  BY <1>2, <1>4, Zenon

\* A call writes a key: with its current number, which it then leaves, or not
\* at all.
LEMMA VersionWrite ==
  ASSUME Laws, CInv, CInv', VInv, UNCHANGED <<nextSeq, crashes>>,
         NEW t \in Threads, Numbered(t), KeepsNumbers(t),
         \A u \in Threads \ {t} : KeepsNumbers(u),
         \A u \in Threads : Ops(u)' = Ops(u),
         NEW k \in Keys, Touch(k), \A j \in Keys \ {k} : mem'[j] = mem[j],
         \/ mem'[k] = Absent
         \/ /\ mem'[k].ver = SeqNow(t) /\ at[t] <= Len(Ops(t)) /\ EmitsWal(Op(t))
            /\ Numbered(t)' => SeqNow(t)' = SeqNow(t) + 1
  PROVE  VInv'
<1>1. token \in [Threads -> Tokens \cup {NoToken}] /\ mem \in Maps /\ nextSeq \in Nat
      /\ mem' \in Maps
  BY Zenon DEF CInv, TypeOK, StoreTypeOK
<1>2. \A u \in Threads : token[u] # NoToken =>
        /\ token[u].ver \in Nat /\ token[u].key \in Keys
        /\ token'[u].key = token[u].key /\ token'[u].ver = token[u].ver
        /\ token[u].key # k => token'[u] = token[u]
  BY <1>1, Zenon DEF Tokens, Touch
<1>3. \A u \in Threads : token[u] = NoToken => token'[u] = NoToken
  BY <1>1, Zenon DEF Touch
<1>4. \A u \in Threads : TokenHolds(u)'
  <2>1. ASSUME NEW u \in Threads, token[u] # NoToken
        PROVE  token'[u] # NoToken
    BY <1>1, <2>1, TokenAssumption, Zenon DEF Touch, Tokens
  <2> QED
    BY <1>2, <2>1 DEF VInv, TokenHolds
<1>5. ASSUME crashes = 0
      PROVE  (IssuedHolds /\ StaleHolds /\ \A u \in Threads : NumbersHold(u))'
  <2>1. IssuedHolds /\ StaleHolds /\ \A u \in Threads : NumbersHold(u)
    BY <1>5, Zenon DEF VInv
  <2>2. /\ SeqNow(t) \in Nat /\ End(t) \in Nat /\ seq[t] \in Nat /\ seq[t] <= SeqNow(t)
        /\ SeqNow(t) <= End(t)
        /\ at[t] <= Len(Ops(t)) /\ EmitsWal(Op(t)) => SeqNow(t) + 1 <= End(t)
    BY NumberType, Zenon
  <2>3. seq[t] >= 1 /\ End(t) <= nextSeq
    BY <2>1, Zenon DEF NumbersHold
  <2>4. \A j \in Keys : mem[j].ver \in Nat /\ mem'[j].ver \in Nat
    BY <1>1, Zenon DEF Maps, Records
  <2>5. mem'[k].ver < nextSeq
    BY <1>1, <2>1, <2>2, <2>3 DEF IssuedHolds, Absent
  <2>6. IssuedHolds'
    BY <1>2, <1>3, <2>1, <2>5, Zenon DEF IssuedHolds
  <2>7. ASSUME NEW u \in Threads, token'[u] # NoToken, ~token'[u].fresh
        PROVE  ~HasVersion(mem', token'[u].key, token'[u].ver)
    <3>1. token[u] # NoToken
      BY <1>3, <2>7, Zenon
    <3>2. Outside(token[u].ver, t)
      BY <2>1, <3>1, Zenon DEF NumbersHold
    <3>3. CASE token[u].key = k
      BY <1>2, <2>2, <3>1, <3>2, <3>3 DEF HasVersion, Live, Outside
    <3>4. CASE token[u].key # k
      BY <1>2, <2>1, <2>7, <3>1, <3>4 DEF StaleHolds, HasVersion, Live
    <3> QED
      BY <3>3, <3>4, Zenon
  <2>8. ASSUME NEW u \in Threads, Numbered(u)'
        PROVE  NumbersHold(u)'
    <3>1. /\ Numbered(u) /\ seq'[u] = seq[u] /\ Ops(u)' = Ops(u)
          /\ SeqNow(u)' \in {SeqNow(u), SeqNow(u) + 1} /\ End(u)' = End(u)
      BY <2>8, Zenon DEF KeepsNumbers, End
    <3>2. /\ SeqNow(u) \in Nat /\ End(u) \in Nat /\ seq[u] \in Nat /\ seq[u] <= SeqNow(u)
      BY <3>1, NumberType, Zenon
    <3>3. \A n \in Nat : Outside(n, u) => Outside(n, u)'
      BY <3>1, <3>2 DEF Outside
    <3>4. NumbersHold(u)
      BY <2>1, Zenon
    <3>5. Outside(mem[k].ver, u)'
      <4>1. CASE mem'[k] = Absent
        BY <3>1, <3>2, <3>4, <4>1 DEF Absent, Outside, NumbersHold
      <4>2. CASE mem'[k] # Absent /\ u = t
        BY <2>2, <2>8, <4>2 DEF Outside
      <4>3. CASE mem'[k] # Absent /\ u # t
        <5>1. End(t) <= seq[u] \/ End(u) <= seq[t]
          BY <2>1, <3>1, <4>3, Zenon DEF NumbersHold
        <5> QED
          BY <2>2, <3>1, <3>2, <4>3, <5>1 DEF Outside
      <4> QED
        BY <4>1, <4>2, <4>3, Zenon
    <3>6. \A j \in Keys : Outside(mem[j].ver, u)'
      BY <2>4, <3>1, <3>3, <3>4, <3>5, Zenon DEF NumbersHold
    <3>7. \A w \in Threads : token'[w] # NoToken => Outside(token[w].ver, u)'
      BY <1>2, <1>3, <3>1, <3>3, <3>4, Zenon DEF NumbersHold
    <3>8. \A w \in Threads \ {u} : Numbered(w)' =>
            Numbered(w) /\ seq'[w] = seq[w] /\ End(w)' = End(w)
      BY Zenon DEF KeepsNumbers, End
    <3> QED
      BY <3>1, <3>4, <3>6, <3>7, <3>8, Zenon DEF NumbersHold
  <2>9. StaleHolds'
    BY <2>7, Zenon DEF StaleHolds
  <2>10. \A u \in Threads : NumbersHold(u)'
    BY <2>8, Zenon DEF NumbersHold
  <2> QED
    BY <2>6, <2>9, <2>10, Zenon
<1> QED
  BY <1>4, <1>5, Zenon DEF VInv

\* The other calls are where they were.
LEMMA OthersKeep ==
  ASSUME CInv, NEW t \in Threads, LocalData(t)
  PROVE  \A u \in Threads \ {t} : KeepsNumbers(u) /\ Ops(u)' = Ops(u)
<1>1. SUFFICES ASSUME NEW u \in Threads \ {t}
               PROVE  KeepsNumbers(u) /\ Ops(u)' = Ops(u)
  BY Zenon
<1>2. pc'[u] = pc[u] /\ req'[u] = req[u] /\ at'[u] = at[u] /\ seq'[u] = seq[u]
  BY Zenon DEF LocalData
<1>3. Ops(u)' = Ops(u) /\ SeqNow(u)' = SeqNow(u) /\ (Numbered(u)' <=> Numbered(u))
  BY <1>2, Zenon DEF Ops, SeqNow, OpSeq, Numbered
<1> QED
  BY <1>2, <1>3, Zenon DEF KeepsNumbers

\* A step of one call that writes nothing keeps the version invariant.
LEMMA VersionMove ==
  ASSUME Laws, CInv, CInv', VInv, UNCHANGED <<mem, nextSeq, token, crashes>>,
         NEW t \in Threads, LocalData(t), TokenHolds(t)', KeepsNumbers(t)
  PROVE  VInv'
<1>1. \A u \in Threads : KeepsNumbers(u)
  BY OthersKeep, Zenon
<1>2. \A u \in Threads \ {t} : TokenHolds(u)'
  BY OthersKeep DEF VInv, TokenHolds
<1> QED
  BY <1>1, <1>2, VersionKeep, Zenon

\* So does one that returns.
LEMMA VersionReturn ==
  ASSUME Laws, CInv, CInv', VInv, UNCHANGED <<mem, nextSeq, token, crashes>>,
         NEW t \in Threads, NEW to \in {"idle", "ack"}, Return(t, to),
         \A u \in Threads \ {t} : at'[u] = at[u]
  PROVE  VInv'
<1>1. pc'[t] = to /\ req'[t] = NoCall /\ LocalData(t)
  BY Zenon DEF CInv, TypeOK, CallTypeOK, Return, LocalData
<1>2. Ops(t)' = <<>>
  BY <1>1, NoCallType, Zenon DEF Ops
<1>3. TokenHolds(t)' /\ KeepsNumbers(t)
  BY <1>1, <1>2 DEF TokenHolds, KeepsNumbers, Numbered
<1> QED
  BY <1>1, <1>3, VersionMove, Zenon

\* A call goes on without taking numbers or writing.
LEMMA VersionStay ==
  ASSUME Laws, CInv, CInv', VInv, UNCHANGED <<mem, nextSeq, token, crashes>>,
         NEW t \in Threads, LocalData(t), req'[t] = req[t],
         Numbered(t)' => /\ Numbered(t) /\ seq'[t] = seq[t]
                         /\ SeqNow(t)' \in {SeqNow(t), SeqNow(t) + 1}
  PROVE  VInv'
<1>1. Ops(t)' = Ops(t)
  BY Zenon DEF Ops
<1>2. TokenHolds(t)'
  BY <1>1, Zenon DEF VInv, TokenHolds
<1>3. KeepsNumbers(t)
  BY <1>1, Zenon DEF KeepsNumbers
<1> QED
  BY <1>2, <1>3, VersionMove, Zenon

\* The steps of a call before its first write keep it.
LEMMA EnterVersion ==
  ASSUME Laws, CInv, CInv', VInv, NEW t \in Threads
  PROVE  /\ (\E k \in TokenKeys : GetVersion(t, k)) => VInv'
         /\ (\E c \in Calls : Call(t, c)) => VInv'
         /\ LockShard(t) => VInv'
         /\ TakeSeq(t) => VInv'
         /\ Probe(t) => VInv'
         /\ PreflightBatch(t) => VInv'
<1>1. StoreTypeOK /\ CallTypeOK /\ Control(t) /\ opt \in DOMAIN Options
  BY Zenon DEF CInv, TypeOK, StoreTypeOK
<1>2. Ops(t) \in Seq(Operations) /\ req[t].call \in {"none", "single", "batch", "view", "list"}
  BY <1>1, Zenon DEF CallTypeOK, Reqs, Ops
<1>3. ASSUME NEW k \in TokenKeys, GetVersion(t, k)
      PROVE  VInv'
  <2> DEFINE v == [key |-> k, ver |-> mem[k].ver, fresh |-> TRUE]
  <2>1. /\ pc[t] = "idle" /\ token' = [token EXCEPT ![t] = v]
        /\ UNCHANGED <<mem, nextSeq, crashes, pc, req, seq, at>>
    BY <1>3, Zenon DEF GetVersion, callVars, boundVars
  <2>2. token'[t] = v /\ \A u \in Threads \ {t} : token'[u] = token[u]
    BY <1>1, <2>1, Zenon DEF StoreTypeOK
  <2>3. v.ver = mem[k].ver /\ v.fresh /\ k \in Keys
    BY <1>1, CallsType, Zenon
  <2> HIDE DEF v
  <2>4. req[t].call = "none" /\ Ops(t) = <<>>
    BY <1>1, <1>2, <2>1, Zenon DEF Control, SinglePcs, BatchPcs
  <2>5. \A u \in Threads : /\ Ops(u)' = Ops(u) /\ SeqNow(u)' = SeqNow(u) /\ End(u)' = End(u)
                           /\ Numbered(u)' <=> Numbered(u)
    BY <2>1, Zenon DEF Ops, SeqNow, OpSeq, End, Numbered
  <2>6. \A u \in Threads : TokenHolds(u)'
    BY <2>2, <2>4, <2>5 DEF VInv, TokenHolds
  <2>7. ASSUME crashes = 0
        PROVE  (IssuedHolds /\ StaleHolds /\ \A u \in Threads : NumbersHold(u))'
    <3>1. IssuedHolds /\ StaleHolds /\ \A u \in Threads : NumbersHold(u)
      BY <2>7, Zenon DEF VInv
    <3>2. IssuedHolds'
      BY <2>1, <2>2, <2>3, <3>1 DEF IssuedHolds
    <3>3. StaleHolds'
      BY <2>1, <2>2, <2>3, <3>1 DEF StaleHolds, HasVersion, Live
    <3>4. ASSUME NEW u \in Threads
          PROVE  NumbersHold(u)'
      <4>1. NumbersHold(u) /\ \A n : Outside(n, u)' <=> Outside(n, u)
        BY <2>5, <3>1, Zenon DEF Outside
      <4>2. Numbered(u) => \A w \in Threads : token'[w] # NoToken => Outside(token'[w].ver, u)
        BY <2>2, <2>3, <4>1, Zenon DEF NumbersHold
      <4> QED
        BY <2>1, <2>5, <4>1, <4>2, Zenon DEF NumbersHold
    <3> QED
      BY <3>2, <3>3, <3>4, Zenon
  <2> QED
    BY <2>1, <2>6, <2>7, Zenon DEF VInv
<1>4. ASSUME NEW c \in Calls, Call(t, c)
      PROVE  VInv'
  <2> DEFINE r == Requested(t, c)
  <2>1. /\ \A i \in DOMAIN c.ops : c.ops[i].kind \in Versioned =>
             token[t] # NoToken /\ token[t].key = c.ops[i].key
        /\ c.call \in {"single", "batch", "view"}
    BY <1>1, <1>4, CallsType, Zenon DEF Call
  <2>2. /\ r \in Reqs /\ Len(r.ops) = Len(c.ops) /\ c.ops \in Seq(Operations)
        /\ \A i \in DOMAIN c.ops : r.ops[i].kind = c.ops[i].kind /\ r.ops[i].key = c.ops[i].key
    BY <1>1, <2>1, RequestedType, CallsType
  <2>3. ASSUME NEW i \in DOMAIN c.ops, c.ops[i].kind \in Versioned
        PROVE  r.ops[i].ver = token[t].ver
    BY <1>1, <2>1, <2>3, RequestedType, Zenon
  <2>4. /\ pc[t] = "idle" /\ pc'[t] \in {"lock", "seq", "capture"} /\ req'[t] = r
        /\ LocalData(t) /\ UNCHANGED <<mem, nextSeq, token, crashes>>
    BY <1>1, <1>4, <2>1, Zenon DEF Call, Goto, CallTypeOK, LocalData, boundVars
  <2>5. KeepsNumbers(t)
    BY <2>4, Zenon DEF KeepsNumbers, Numbered
  <2> HIDE DEF r
  <2>6. Ops(t)' = r.ops /\ DOMAIN r.ops = DOMAIN c.ops
    BY <2>2, <2>4 DEF Ops, Reqs
  <2>7. TokenHolds(t)'
    BY <2>1, <2>2, <2>3, <2>4, <2>6 DEF TokenHolds
  <2> QED
    BY <2>4, <2>5, <2>7, VersionMove, Zenon
<1>5. CASE LockShard(t)
  <2>1. /\ pc'[t] \in {"lock", "seq"} /\ req'[t] = req[t] /\ LocalData(t)
        /\ UNCHANGED <<mem, nextSeq, token, crashes>>
    BY <1>1, <1>5, Zenon DEF LockShard, Goto, CallTypeOK, LocalData, boundVars
  <2>2. ~Numbered(t)'
    BY <2>1, Zenon DEF Numbered
  <2> QED
    BY <2>1, <2>2, VersionStay, Zenon
<1>6. CASE TakeSeq(t)
  <2>1. /\ pc[t] = "seq" /\ req'[t] = req[t] /\ at'[t] = at[t] /\ seq'[t] = nextSeq
        /\ nextSeq' = SeqAfter(nextSeq, Ops(t)) /\ LocalData(t)
        /\ UNCHANGED <<mem, token, crashes>>
    BY <1>1, <1>6, Zenon DEF TakeSeq, Goto, CallTypeOK, LocalData, boundVars
  <2>2. nextSeq \in Nat /\ nextSeq' \in Nat /\ nextSeq <= nextSeq'
    BY <1>1, <1>2, <2>1, Zenon DEF StoreTypeOK, Laws, SeqTypeLaw
  <2>3. at[t] = 1 /\ SubSeq(Ops(t), 1, 0) = <<>> /\ Ops(t)' = Ops(t)
    BY <1>1, <1>2, <2>1 DEF Control, Ops
  <2>4. SeqAfter(nextSeq, <<>>) = nextSeq
    BY Zenon DEF Laws, SeqEmptyLaw
  <2>5. SeqNow(t)' = SeqAfter(nextSeq, SubSeq(Ops(t), 1, 0)) /\ End(t)' = nextSeq'
    BY <2>1, <2>3 DEF SeqNow, OpSeq, End
  <2>6. SeqNow(t)' = nextSeq
    BY <2>3, <2>4, <2>5, Zenon
  <2>7. \A u \in Threads \ {t} : /\ Ops(u)' = Ops(u) /\ SeqNow(u)' = SeqNow(u)
                                 /\ End(u)' = End(u) /\ seq'[u] = seq[u]
                                 /\ Numbered(u)' <=> Numbered(u)
    <3>1. SUFFICES ASSUME NEW u \in Threads \ {t}
                   PROVE  /\ Ops(u)' = Ops(u) /\ SeqNow(u)' = SeqNow(u)
                          /\ End(u)' = End(u) /\ seq'[u] = seq[u]
                          /\ Numbered(u)' <=> Numbered(u)
      BY Zenon
    <3>2. pc'[u] = pc[u] /\ req'[u] = req[u] /\ at'[u] = at[u] /\ seq'[u] = seq[u]
      BY <2>1, Zenon DEF LocalData
    <3> QED
      BY <3>2, Zenon DEF Ops, SeqNow, OpSeq, End, Numbered
  <2>8. \A u \in Threads : TokenHolds(u)'
    BY <2>1, <2>3, <2>7 DEF VInv, TokenHolds
  <2>9. ASSUME crashes = 0
        PROVE  (IssuedHolds /\ StaleHolds /\ \A u \in Threads : NumbersHold(u))'
    <3>1. IssuedHolds /\ StaleHolds /\ \A u \in Threads : NumbersHold(u)
      BY <2>9, Zenon DEF VInv
    <3>2. /\ \A k \in Keys : mem[k].ver \in Nat
          /\ \A u \in Threads : token[u] # NoToken => token[u].ver \in Nat
      BY <1>1, Zenon DEF StoreTypeOK, Maps, Records, Tokens
    <3>3. \A u \in Threads : Numbered(u) => End(u) \in Nat
      BY NumberType, Zenon
    <3>4. IssuedHolds' /\ StaleHolds'
      BY <2>1, <2>2, <3>1, <3>2 DEF IssuedHolds, StaleHolds, HasVersion, Live
    <3>5. NumbersHold(t)'
      <4>1. \A n \in Nat : n < nextSeq => Outside(n, t)'
        BY <2>6, Zenon DEF Outside
      <4>2. \A u \in Threads \ {t} : Numbered(u)' => End(u)' <= seq'[t]
        BY <2>1, <2>7, <3>1, Zenon DEF NumbersHold
      <4> QED
        BY <2>1, <2>2, <2>5, <3>1, <3>2, <4>1, <4>2 DEF NumbersHold, IssuedHolds
    <3>6. ASSUME NEW u \in Threads \ {t}, Numbered(u)
          PROVE  NumbersHold(u)'
      <4>1. NumbersHold(u) /\ \A n : Outside(n, u)' <=> Outside(n, u)
        BY <2>7, <3>1, Zenon DEF Outside
      <4>2. End(u) <= nextSeq'
        BY <2>2, <3>3, <3>6, <4>1 DEF NumbersHold
      <4>3. \A w \in Threads \ {u} : Numbered(w)' => End(u)' <= seq'[w] \/ End(w)' <= seq'[u]
        BY <2>1, <2>7, <3>6, <4>1, Zenon DEF NumbersHold
      <4> QED
        BY <2>1, <2>7, <3>6, <4>1, <4>2, <4>3, Zenon DEF NumbersHold
    <3>7. \A u \in Threads : NumbersHold(u)'
      BY <2>7, <3>5, <3>6, Zenon DEF NumbersHold
    <3> QED
      BY <3>4, <3>7, Zenon
  <2> QED
    BY <2>1, <2>8, <2>9, Zenon DEF VInv
<1>7. CASE Probe(t)
  <2>1. pc[t] = "probe" /\ at' = at /\ UNCHANGED <<mem, nextSeq, token, crashes>>
    BY <1>7, Zenon DEF Probe, boundVars
  <2>2. CASE Return(t, "idle")
    BY <2>1, <2>2, VersionReturn, Zenon
  <2>3. CASE pc' = [pc EXCEPT ![t] = "apply"] /\ UNCHANGED <<req, got, seq, view>>
             /\ moved' = [moved EXCEPT ![t] = mem[Op(t).key].val]
    <3>1. LocalData(t) /\ Numbered(t)
      BY <1>1, <2>1, <2>3, Zenon DEF CallTypeOK, LocalData, Numbered
    <3>2. SeqNow(t)' = SeqNow(t)
      BY <2>1, <2>3, Zenon DEF SeqNow, OpSeq, Ops
    <3> QED
      BY <2>1, <2>3, <3>1, <3>2, VersionStay, Zenon
  <2> QED
    BY <1>7, <2>2, <2>3, Zenon DEF Probe
<1>8. CASE PreflightBatch(t)
  <2>1. pc[t] = "preflight" /\ at' = at /\ UNCHANGED <<mem, nextSeq, token, crashes>>
    BY <1>8, Zenon DEF PreflightBatch, boundVars
  <2>2. CASE Return(t, "idle")
    BY <2>1, <2>2, VersionReturn, Zenon
  <2>3. CASE Goto(t, "preflight", "apply") /\ UNCHANGED <<req, got, seq, moved, view>>
    <3>1. LocalData(t) /\ Numbered(t)
      BY <1>1, <2>1, <2>3, Zenon DEF Goto, CallTypeOK, LocalData, Numbered
    <3>2. SeqNow(t)' = SeqNow(t)
      BY <2>1, <2>3, Zenon DEF SeqNow, OpSeq, Ops
    <3> QED
      BY <2>1, <2>3, <3>1, <3>2, VersionStay, Zenon
  <2> QED
    BY <1>8, <2>2, <2>3, Zenon DEF PreflightBatch
<1> QED
  BY <1>3, <1>4, <1>5, <1>6, <1>7, <1>8, Zenon

\* One operation of a call is done: the call moves on in its numbers.
LEMMA AdvanceNumbers ==
  ASSUME Laws, CInv, NEW t \in Threads, Applying(t), Advance(t)
  PROVE  /\ Numbered(t) /\ KeepsNumbers(t) /\ LocalData(t)
         /\ req' = req /\ \A u \in Threads : Ops(u)' = Ops(u)
         /\ SeqNow(t)' = SeqStep(SeqNow(t), Op(t))
<1>1. at \in [Threads -> Nat]
  BY Zenon DEF CInv, TypeOK, CallTypeOK
<1>2. /\ pc[t] = "apply" /\ at[t] <= Len(Ops(t)) /\ at'[t] = at[t] + 1
      /\ UNCHANGED <<pc, req, seq, view, moved>>
      /\ \A u \in Threads \ {t} : at'[u] = at[u]
  BY <1>1, Zenon DEF Applying, Advance
<1>3. Numbered(t) /\ LocalData(t) /\ \A u \in Threads : Ops(u)' = Ops(u)
  BY <1>2, Zenon DEF Numbered, LocalData, Ops
<1>4. SeqNow(t)' = SeqStep(SeqNow(t), Op(t))
  BY <1>2, <1>3, NumberNext, Zenon
<1>5. KeepsNumbers(t)
  BY <1>2, <1>3, <1>4, Zenon DEF KeepsNumbers, SeqStep
<1> QED
  BY <1>2, <1>3, <1>4, <1>5, Zenon

\* A condition that fails gives the numbers up.
LEMMA FailVersion ==
  ASSUME Laws, CInv, CInv', VInv, UNCHANGED <<nextSeq, crashes>>, NEW t \in Threads,
         ConditionFails(t)
  PROVE  VInv'
<1>1. UNCHANGED <<mem, at, token>>
  BY Zenon DEF ConditionFails
<1>2. CASE Return(t, "idle")
  BY <1>1, <1>2, VersionReturn, Zenon
<1>3. CASE pc' = [pc EXCEPT ![t] = "internal"] /\ UNCHANGED <<req, got, seq, moved, view>>
  <2>1. LocalData(t) /\ ~Numbered(t)'
    BY <1>1, <1>3, Zenon DEF CInv, TypeOK, CallTypeOK, LocalData, Numbered
  <2> QED
    BY <1>1, <1>3, <2>1, VersionStay, Zenon
<1> QED
  BY <1>2, <1>3, Zenon DEF ConditionFails

\* The walker calls use the numbers of their call, each once.
LEMMA ApplyVersion ==
  ASSUME Laws, CInv, CInv', VInv, NEW t \in Threads
  PROVE  /\ ApplyInsert(t) => VInv'
         /\ ApplyErase(t) => VInv'
         /\ ApplyAssert(t) => VInv'
<1>1. ASSUME Applying(t)
      PROVE  Op(t) \in Operations /\ at[t] <= Len(Ops(t)) /\ mem \in Maps
  BY <1>1, OpType, Zenon DEF CInv, TypeOK, StoreTypeOK, Applying
<1>2. CASE ApplyInsert(t)
  <2>1. Applying(t) /\ Op(t).kind \in Inserts /\ UNCHANGED <<nextSeq, crashes>>
    BY <1>2, Zenon DEF ApplyInsert, boundVars
  <2>2. CASE Holds(mem, Op(t))
    <3> DEFINE k == Op(t).key
    <3>1. mem' = Inserted(mem, k, SeqNow(t), SeqNow(t)) /\ Touch(k) /\ Advance(t)
      BY <1>2, <2>2, Zenon DEF ApplyInsert
    <3>2. /\ Numbered(t) /\ KeepsNumbers(t) /\ LocalData(t) /\ \A u \in Threads : Ops(u)' = Ops(u)
          /\ SeqNow(t)' = SeqStep(SeqNow(t), Op(t))
      BY <2>1, <3>1, AdvanceNumbers, Zenon
    <3>3. EmitsWal(Op(t)) /\ k \in Keys
      BY <1>1, <2>1, Zenon DEF EmitsWal, Inserts, Asserts, Operations
    <3>4. mem'[k].ver = SeqNow(t) /\ \A j \in Keys \ {k} : mem'[j] = mem[j]
      BY <1>1, <2>1, <3>1, <3>3, Zenon DEF Inserted, Maps
    <3>5. SeqNow(t)' = SeqNow(t) + 1
      BY <3>2, <3>3, Zenon DEF SeqStep
    <3>6. \A u \in Threads \ {t} : KeepsNumbers(u)
      BY <3>2, OthersKeep, Zenon
    <3> HIDE DEF k
    <3> QED
      BY <1>1, <2>1, <3>1, <3>2, <3>3, <3>4, <3>5, <3>6, VersionWrite, Zenon
  <2>3. CASE ~Holds(mem, Op(t))
    BY <1>2, <2>1, <2>3, FailVersion, Zenon DEF ApplyInsert
  <2> QED
    BY <2>2, <2>3, Zenon
<1>3. CASE ApplyErase(t)
  <2>1. Applying(t) /\ Op(t).kind \in Erases /\ UNCHANGED <<nextSeq, crashes>>
    BY <1>3, Zenon DEF ApplyErase, boundVars
  <2>2. CASE Holds(mem, Op(t))
    <3> DEFINE k == Op(t).key
    <3>1. mem' = Erased(mem, k) /\ Touch(k) /\ Advance(t)
      BY <1>3, <2>2, Zenon DEF ApplyErase
    <3>2. /\ Numbered(t) /\ KeepsNumbers(t) /\ LocalData(t)
          /\ \A u \in Threads : Ops(u)' = Ops(u)
      BY <2>1, <3>1, AdvanceNumbers, Zenon
    <3>3. k \in Keys
      BY <1>1, <2>1, Zenon DEF Operations
    <3>4. mem'[k] = Absent /\ \A j \in Keys \ {k} : mem'[j] = mem[j]
      BY <1>1, <2>1, <3>1, <3>3, Zenon DEF Erased, Maps
    <3>5. \A u \in Threads \ {t} : KeepsNumbers(u)
      BY <3>2, OthersKeep, Zenon
    <3> HIDE DEF k
    <3> QED
      BY <2>1, <3>1, <3>2, <3>3, <3>4, <3>5, VersionWrite, Zenon
  <2>3. CASE Advance(t) /\ UNCHANGED <<mem, token>>
    <3>1. /\ Numbered(t) /\ KeepsNumbers(t) /\ LocalData(t) /\ req' = req
      BY <2>1, <2>3, AdvanceNumbers, Zenon
    <3>2. TokenHolds(t)'
      BY <2>3, <3>1, Zenon DEF VInv, TokenHolds, Ops
    <3> QED
      BY <2>1, <2>3, <3>1, <3>2, VersionMove, Zenon
  <2>4. CASE ConditionFails(t)
    BY <2>1, <2>4, FailVersion, Zenon
  <2> QED
    BY <1>3, <2>2, <2>3, <2>4, Zenon DEF ApplyErase
<1>4. CASE ApplyAssert(t)
  <2>1. Applying(t) /\ Advance(t) /\ UNCHANGED <<mem, nextSeq, token, crashes>>
    BY <1>4, Zenon DEF ApplyAssert, boundVars
  <2>2. /\ Numbered(t) /\ KeepsNumbers(t) /\ LocalData(t) /\ req' = req
    BY <2>1, AdvanceNumbers, Zenon
  <2>3. TokenHolds(t)'
    BY <2>1, <2>2, Zenon DEF VInv, TokenHolds, Ops
  <2> QED
    BY <2>1, <2>2, <2>3, VersionMove, Zenon
<1> QED
  BY <1>2, <1>3, <1>4, Zenon

\* A rename writes its destination with its number, and erases its source
\* with none.
LEMMA RenameVersion ==
  ASSUME Laws, CInv, CInv', VInv, NEW t \in Threads
  PROVE  /\ RenameErase(t) => VInv'
         /\ RenameInsert(t) => VInv'
         /\ RenameStops(t) => VInv'
<1>1. mem \in Maps /\ CallTypeOK /\ Control(t)
  BY Zenon DEF CInv, TypeOK, StoreTypeOK
<1>2. CASE RenameErase(t)
  <2> DEFINE k == Op(t).key
  <2>1. /\ Applying(t) /\ mem' = Erased(mem, k) /\ Touch(k)
        /\ pc' = [pc EXCEPT ![t] = "insert"]
        /\ moved' = [moved EXCEPT ![t] = IF IsBatch(t) THEN mem[Op(t).key].val ELSE @]
        /\ UNCHANGED <<nextSeq, crashes, req, seq, at, view>>
    BY <1>2, Zenon DEF RenameErase, boundVars
  <2>2. k \in Keys
    BY <2>1, OpType, Zenon DEF Operations
  <2>3. mem'[k] = Absent /\ \A j \in Keys \ {k} : mem'[j] = mem[j]
    BY <1>1, <2>1, <2>2, Zenon DEF Erased, Maps
  <2>4. Numbered(t) /\ LocalData(t) /\ \A u \in Threads : Ops(u)' = Ops(u)
    BY <1>1, <2>1, Zenon DEF CallTypeOK, Applying, Numbered, LocalData, Ops
  <2>5. KeepsNumbers(t)
    BY <2>1, <2>4, Zenon DEF KeepsNumbers, SeqNow, OpSeq
  <2>6. \A u \in Threads \ {t} : KeepsNumbers(u)
    BY <2>4, OthersKeep, Zenon
  <2> HIDE DEF k
  <2> QED
    BY <2>1, <2>2, <2>3, <2>4, <2>5, <2>6, VersionWrite, Zenon
<1>3. CASE RenameInsert(t)
  <2> DEFINE k == Op(t).dst
  <2>1. /\ pc[t] = "insert" /\ pc' = [pc EXCEPT ![t] = "apply"]
        /\ mem' = Inserted(mem, k, moved[t], SeqNow(t)) /\ Touch(k)
        /\ at' = [at EXCEPT ![t] = @ + 1]
        /\ UNCHANGED <<nextSeq, crashes, req, seq, moved, view>>
    BY <1>3, Zenon DEF RenameInsert, Goto, boundVars
  <2>2. /\ at[t] \in 1 .. Len(Ops(t)) /\ Op(t).kind = "rename" /\ Ops(t) \in Seq(Operations)
        /\ at[t] \in Nat
    BY <1>1, <2>1, Zenon DEF Control, CallTypeOK, Reqs, Ops, Op
  <2>3. k \in Keys /\ EmitsWal(Op(t))
    <3>1. Op(t) \in Operations
      BY <2>2 DEF Op
    <3> QED
      BY <2>2, <3>1, Zenon DEF Operations, EmitsWal, Asserts
  <2>4. mem'[k].ver = SeqNow(t) /\ \A j \in Keys \ {k} : mem'[j] = mem[j]
    BY <1>1, <2>1, <2>3, Zenon DEF Inserted, Maps
  <2>5. Numbered(t) /\ LocalData(t) /\ at'[t] = at[t] + 1 /\ \A u \in Threads : Ops(u)' = Ops(u)
    BY <1>1, <2>1, Zenon DEF CallTypeOK, Numbered, LocalData, Ops
  <2>6. SeqNow(t)' = SeqStep(SeqNow(t), Op(t))
    BY <2>1, <2>2, <2>5, NumberNext
  <2>7. SeqNow(t)' = SeqNow(t) + 1
    BY <2>3, <2>6, Zenon DEF SeqStep
  <2>8. KeepsNumbers(t)
    BY <2>1, <2>5, <2>7, Zenon DEF KeepsNumbers
  <2>9. \A u \in Threads \ {t} : KeepsNumbers(u)
    BY <2>5, OthersKeep, Zenon
  <2>10. at[t] <= Len(Ops(t))
    BY <2>2
  <2> HIDE DEF k
  <2> QED
    BY <2>1, <2>3, <2>4, <2>5, <2>7, <2>8, <2>9, <2>10, VersionWrite
<1>4. CASE RenameStops(t)
  <2>1. Applying(t) /\ UNCHANGED <<nextSeq, crashes>>
    BY <1>4, Zenon DEF RenameStops, boundVars
  <2>2. CASE Advance(t) /\ UNCHANGED <<mem, token>>
    <3>1. /\ Numbered(t) /\ KeepsNumbers(t) /\ LocalData(t) /\ req' = req
      BY <2>1, <2>2, AdvanceNumbers, Zenon
    <3>2. TokenHolds(t)'
      BY <2>2, <3>1, Zenon DEF VInv, TokenHolds, Ops
    <3> QED
      BY <2>1, <2>2, <3>1, <3>2, VersionMove, Zenon
  <2>3. CASE ConditionFails(t)
    BY <2>1, <2>3, FailVersion, Zenon
  <2> QED
    BY <1>4, <2>2, <2>3, Zenon DEF RenameStops
<1> QED
  BY <1>2, <1>3, <1>4, Zenon

\* A call that ends gives up the numbers it has not used.
LEMMA EndVersion ==
  ASSUME Laws, CInv, CInv', VInv, NEW t \in Threads
  PROVE  /\ WalkerFails(t) => VInv'
         /\ Submit(t) => VInv'
         /\ Ack(t) => VInv'
<1>1. CallTypeOK
  BY Zenon DEF CInv, TypeOK
<1>2. CASE WalkerFails(t)
  <2>1. /\ Return(t, "idle") /\ UNCHANGED <<mem, nextSeq, token, crashes>>
        /\ \A u \in Threads \ {t} : at'[u] = at[u]
    BY <1>1, <1>2, Zenon DEF WalkerFails, CallTypeOK
  <2> QED
    BY <2>1, VersionReturn, Zenon
<1>3. CASE Submit(t)
  <2>1. /\ UNCHANGED <<mem, nextSeq, token, crashes>>
        /\ \A u \in Threads \ {t} : at'[u] = at[u]
    BY <1>1, <1>3, Zenon DEF Submit, CallTypeOK, boundVars
  <2>2. CASE IsBatch(t) /\ WalSync
    <3>1. Goto(t, "apply", "ack") /\ UNCHANGED <<req, got, seq, moved, view>>
      BY <1>3, <2>2, Zenon DEF Submit
    <3>2. LocalData(t) /\ ~Numbered(t)'
      BY <1>1, <2>1, <3>1, Zenon DEF Goto, CallTypeOK, LocalData, Numbered
    <3> QED
      BY <2>1, <3>1, <3>2, VersionStay, Zenon
  <2>3. CASE ~(IsBatch(t) /\ WalSync)
    <3>1. Return(t, IF WalSync THEN "ack" ELSE "idle")
      BY <1>3, <2>3, Zenon DEF Submit
    <3> QED
      BY <2>1, <3>1, VersionReturn, Zenon
  <2> QED
    BY <2>2, <2>3, Zenon
<1>4. CASE Ack(t)
  <2>1. /\ Return(t, "idle") /\ UNCHANGED <<mem, nextSeq, token, crashes>>
        /\ \A u \in Threads \ {t} : at'[u] = at[u]
    BY <1>1, <1>4, Zenon DEF Ack, CallTypeOK, boundVars
  <2> QED
    BY <2>1, VersionReturn, Zenon
<1> QED
  BY <1>2, <1>3, <1>4, Zenon

\* Views and listings have no numbers to write with.
LEMMA ReadVersion ==
  ASSUME Laws, CInv, CInv', VInv, NEW t \in Threads
  PROVE  /\ (\E b \in Blobs : CopyBlob(t, b)) => VInv'
         /\ EndCapture(t) => VInv'
         /\ (\E c \in Calls : List(t, c)) => VInv'
         /\ Consult(t) => VInv'
         /\ EpochBefore(t) => VInv'
         /\ EnterScan(t) => VInv'
         /\ (\E b \in Blobs : ScanBlob(t, b)) => VInv'
         /\ StoreListing(t) => VInv'
<1>1. CallTypeOK /\ opt \in DOMAIN Options
  BY Zenon DEF CInv, TypeOK, StoreTypeOK
<1>2. ASSUME NEW b \in Blobs, CopyBlob(t, b)
      PROVE  VInv'
  <2>1. /\ pc'[t] \in {"viewed", "capture"} /\ req'[t] = req[t] /\ LocalData(t)
        /\ UNCHANGED <<mem, nextSeq, token, crashes>>
    BY <1>1, <1>2, Zenon DEF CopyBlob, CallTypeOK, LocalData, boundVars
  <2>2. ~Numbered(t)'
    BY <2>1, Zenon DEF Numbered
  <2> QED
    BY <2>1, <2>2, VersionStay, Zenon
<1>3. CASE EndCapture(t)
  BY <1>3, VersionReturn, Zenon DEF EndCapture, boundVars
<1>4. ASSUME NEW c \in Calls, List(t, c)
      PROVE  VInv'
  <2>1. /\ pc'[t] = "consult" /\ req'[t] = c /\ LocalData(t)
        /\ UNCHANGED <<mem, nextSeq, token, crashes>>
    BY <1>1, <1>4, Zenon DEF List, Goto, CallTypeOK, LocalData, boundVars
  <2>2. Ops(t)' = <<>>
    BY <1>1, <1>4, <2>1, CallsType, Zenon DEF List, Ops
  <2>3. TokenHolds(t)' /\ KeepsNumbers(t)
    BY <2>1, <2>2 DEF TokenHolds, KeepsNumbers, Numbered
  <2> QED
    BY <2>1, <2>3, VersionMove, Zenon
<1>5. CASE Consult(t)
  <2>1. at' = at /\ UNCHANGED <<mem, nextSeq, token, crashes>>
    BY <1>5, Zenon DEF Consult, boundVars
  <2>2. CASE Return(t, "idle")
    BY <2>1, <2>2, VersionReturn, Zenon
  <2>3. CASE pc' = [pc EXCEPT ![t] = "missed"] /\ UNCHANGED <<req, got, seq, moved, view>>
    <3>1. LocalData(t) /\ ~Numbered(t)'
      BY <1>1, <2>1, <2>3, Zenon DEF CallTypeOK, LocalData, Numbered
    <3> QED
      BY <2>1, <2>3, <3>1, VersionStay, Zenon
  <2> QED
    BY <1>5, <2>2, <2>3, Zenon DEF Consult
<1>6. CASE EpochBefore(t) \/ EnterScan(t) \/ (\E b \in Blobs : ScanBlob(t, b))
  <2>1. /\ pc'[t] \in {"missed", "scan"} /\ req'[t] = req[t] /\ LocalData(t)
        /\ UNCHANGED <<mem, nextSeq, token, crashes>>
    <3>1. CASE EpochBefore(t)
      BY <1>1, <3>1, Zenon DEF EpochBefore, CallTypeOK, LocalData, boundVars
    <3>2. CASE EnterScan(t)
      BY <1>1, <3>2, Zenon DEF EnterScan, Goto, CallTypeOK, LocalData, boundVars
    <3>3. ASSUME NEW b \in Blobs, ScanBlob(t, b)
          PROVE  /\ pc'[t] = "scan" /\ req'[t] = req[t] /\ LocalData(t)
                 /\ UNCHANGED <<mem, nextSeq, token, crashes>>
      BY <1>1, <3>3, Zenon DEF ScanBlob, CallTypeOK, LocalData, boundVars
    <3> QED
      BY <1>6, <3>1, <3>2, <3>3, Zenon
  <2>2. ~Numbered(t)'
    BY <2>1, Zenon DEF Numbered
  <2> QED
    BY <2>1, <2>2, VersionStay, Zenon
<1>7. CASE StoreListing(t)
  BY <1>7, VersionReturn, Zenon DEF StoreListing, boundVars
<1> QED
  BY <1>2, <1>3, <1>4, <1>5, <1>6, <1>7, Zenon

\* What leaves memory and the calls alone.
LEMMA VersionSame ==
  ASSUME Laws, CInv, CInv', VInv, UNCHANGED <<mem, nextSeq, token, crashes, pc, req, seq>>,
         \A u \in Threads : Numbered(u) => at'[u] = at[u]
  PROVE  VInv'
<1>1. \A u \in Threads : TokenHolds(u)'
  BY Zenon DEF VInv, TokenHolds, Ops
<1>2. \A u \in Threads : KeepsNumbers(u)
  BY Zenon DEF KeepsNumbers, Numbered, SeqNow, OpSeq, Ops
<1> QED
  BY <1>1, <1>2, VersionKeep, Zenon

\* The store does not touch memory while the tree is open.
LEMMA StoreVersion ==
  ASSUME Laws, CInv, CInv', VInv
  PROVE  /\ Sync => VInv'
         /\ (\E b \in Blobs : FlushBlob(b)) => VInv'
         /\ Truncate => VInv'
         /\ Crash => VInv'
<1>1. CASE Sync
  BY <1>1, VersionSame, Zenon DEF Sync, callVars, boundVars
<1>2. ASSUME NEW b \in Blobs, FlushBlob(b)
      PROVE  VInv'
  BY <1>2, VersionSame, Zenon DEF FlushBlob, callVars
<1>3. CASE Truncate
  <2>1. /\ UNCHANGED <<mem, nextSeq, token, crashes, pc, req, seq>>
        /\ \A u \in Threads : Numbered(u) => at'[u] = at[u]
    BY <1>3, Zenon DEF Truncate, boundVars, Numbered
  <2> QED
    BY <2>1, VersionSame, Zenon
<1>4. CASE Crash
  <2>1. crashes' = crashes + 1 /\ crashes \in Nat /\ \A u \in Threads : req'[u] = NoCall
    BY <1>4, Zenon DEF Crash, CInv, TypeOK, StoreTypeOK
  <2>2. \A u \in Threads : Ops(u)' = <<>>
    BY <2>1, NoCallType, Zenon DEF Ops
  <2>3. \A u \in Threads : TokenHolds(u)'
    BY <2>2 DEF TokenHolds
  <2> QED
    BY <2>1, <2>3 DEF VInv
<1> QED
  BY <1>1, <1>2, <1>3, <1>4, Zenon

\* Every step keeps the versions in order.
LEMMA VersionStep ==
  ASSUME Laws, CInv, CInv', VInv, [Next]_vars
  PROVE  VInv'
<1>1. CASE UNCHANGED vars
  BY <1>1, VersionSame, Zenon DEF vars, callVars, boundVars
<1>2. ASSUME NEW t \in Threads,
             \/ \E k \in TokenKeys : GetVersion(t, k)
             \/ \E c \in Calls : Call(t, c)
             \/ LockShard(t) \/ TakeSeq(t) \/ Probe(t) \/ PreflightBatch(t)
      PROVE  VInv'
  BY <1>2, EnterVersion, Zenon
<1>3. ASSUME NEW t \in Threads,
             \/ ApplyInsert(t) \/ ApplyErase(t) \/ ApplyAssert(t)
             \/ RenameErase(t) \/ RenameInsert(t) \/ RenameStops(t)
      PROVE  VInv'
  BY <1>3, ApplyVersion, RenameVersion, Zenon
<1>4. ASSUME NEW t \in Threads, WalkerFails(t) \/ Submit(t) \/ Ack(t)
      PROVE  VInv'
  BY <1>4, EndVersion, Zenon
<1>5. ASSUME NEW t \in Threads,
             \/ \E b \in Blobs : CopyBlob(t, b)
             \/ EndCapture(t)
             \/ \E c \in Calls : List(t, c)
             \/ Consult(t) \/ EpochBefore(t) \/ EnterScan(t)
             \/ \E b \in Blobs : ScanBlob(t, b)
             \/ StoreListing(t)
      PROVE  VInv'
  BY <1>5, ReadVersion, Zenon
<1>6. CASE Sync \/ (\E b \in Blobs : FlushBlob(b)) \/ Truncate \/ Crash
  BY <1>6, StoreVersion, Zenon
<1> QED
  BY <1>1, <1>2, <1>3, <1>4, <1>5, <1>6, Zenon DEF Next

\* No call has a number yet, and no client a version.
LEMMA VersionInit ==
  Init => VInv
<1> SUFFICES ASSUME Init
             PROVE  VInv
  BY Zenon
<1>1. /\ nextSeq = 1 /\ mem = [k \in Keys |-> Absent]
      /\ \A t \in Threads : pc[t] = "idle" /\ req[t] = NoCall /\ token[t] = NoToken
  BY Zenon DEF Init
<1>2. \A t \in Threads : Ops(t) = <<>> /\ ~Numbered(t)
  BY <1>1, NoCallType, Zenon DEF Ops, Numbered
<1>3. \A k \in Keys : mem[k].ver = 0
  BY <1>1, Zenon DEF Absent
<1> QED
  BY <1>1, <1>2, <1>3 DEF VInv, TokenHolds, IssuedHolds, StaleHolds, NumbersHold

\* A conditional operation that goes through finds the version it asks for in
\* memory: the walker checks it for an insert and an erase; for an assertion
\* the preflight has, and no other call wrote since.
LEMMA ConditionMet ==
  ASSUME Laws, CInv, DInv, NEW t \in Threads, Applying(t), Op(t).kind \in Versioned,
         ApplyInsert(t) \/ ApplyErase(t) \/ ApplyAssert(t), at'[t] # at[t]
  PROVE  HasVersion(mem, Op(t).key, Op(t).ver)
<1>1. Op(t) \in Operations /\ Control(t) /\ CallTypeOK /\ pc[t] = "apply"
  BY OpType, Zenon DEF CInv, TypeOK, Applying
<1>2. ~ConditionFails(t)
  BY Zenon DEF ConditionFails
<1>3. CASE ApplyInsert(t) \/ ApplyErase(t)
  <2>1. Op(t).kind # "delete"
    BY Zenon DEF Versioned
  <2>2. Holds(mem, Op(t))
    BY <1>2, <1>3, <2>1, Zenon DEF ApplyInsert, ApplyErase
  <2> QED
    BY <2>2, Zenon DEF Holds, Versioned
<1>4. CASE ApplyAssert(t)
  <2>1. Op(t).kind = "assertVersion"
    BY <1>4, Zenon DEF ApplyAssert, EmitsWal, Asserts, Versioned
  <2>2. Writing(t) /\ at[t] <= Len(Ops(t))
    BY <1>1, Zenon DEF Writing, Applying
  <2>3. IsBatch(t)
    <3>1. SUFFICES ASSUME Locked(t)
                   PROVE  FALSE
      BY <2>2, WriterType, Zenon
    <3>2. Len(Ops(t)) = 1 /\ Ops(t)[1].kind \notin Asserts
      BY <1>1, <3>1, Zenon DEF Control, Locked
    <3>3. at[t] = 1
      BY <3>1, OpType, Zenon DEF Locked, IsBatch
    <3> QED
      BY <2>1, <3>2, <3>3, Zenon DEF Op, Asserts
  <2>4. PICK m \in Maps : BatchAt(t, m)
    BY <2>2, <2>3, Zenon DEF DInv, BatchHolds
  <2>5. Verdict(Ahead(m, seq[t], SubSeq(Ops(t), 1, at[t] - 1)).m, Op(t)) = "pass"
    BY <2>2, <2>3, <2>4, BatchNow, Zenon
  <2>6. mem = Ahead(m, seq[t], SubSeq(Ops(t), 1, at[t] - 1)).m
    BY <1>1, <2>4, Zenon DEF BatchAt
  <2>7. Verdict(mem, Op(t)) = "pass"
    BY <2>5, <2>6, Zenon
  <2>8. Holds(mem, Op(t))
    BY <2>1, <2>7, Zenon DEF Verdict
  <2> QED
    BY <2>1, <2>8, Zenon DEF Holds, Versioned
<1> QED
  BY <1>3, <1>4, Zenon

\* Only its own walker calls move a call on, and a conditional operation is
\* an insert, an erase or an assertion.
LEMMA OnlyWalker ==
  ASSUME Laws, CInv, [Next]_vars, NEW t \in Threads, Applying(t), at'[t] > at[t],
         Op(t).kind \in Versioned
  PROVE  ApplyInsert(t) \/ ApplyErase(t) \/ ApplyAssert(t)
<1>1. CallTypeOK /\ pc[t] = "apply" /\ at[t] \in 1 .. Len(Ops(t)) /\ at[t] \in Nat
  BY OpType, Zenon DEF CInv, TypeOK, CallTypeOK, Applying
<1>2. ~UNCHANGED at
  BY <1>1
<1>3. ASSUME NEW u \in Threads \ {t}, at' = [at EXCEPT ![u] = at'[u]]
      PROVE  FALSE
  BY <1>1, <1>3 DEF CallTypeOK
<1>4. ASSUME NEW u \in Threads,
             \/ \E k \in TokenKeys : GetVersion(u, k)
             \/ \E c \in Calls : Call(u, c)
             \/ LockShard(u) \/ TakeSeq(u) \/ Probe(u) \/ PreflightBatch(u)
             \/ RenameErase(u)
             \/ \E b \in Blobs : CopyBlob(u, b)
             \/ EndCapture(u)
             \/ \E c \in Calls : List(u, c)
             \/ Consult(u) \/ EpochBefore(u) \/ EnterScan(u)
             \/ \E b \in Blobs : ScanBlob(u, b)
             \/ StoreListing(u)
      PROVE  UNCHANGED at
  BY <1>4, Zenon DEF GetVersion, Call, LockShard, TakeSeq, Probe, PreflightBatch, RenameErase,
              CopyBlob, EndCapture, List, Consult, EpochBefore, EnterScan, ScanBlob,
              StoreListing, callVars
<1>5. ASSUME NEW u \in Threads, RenameInsert(u) \/ RenameStops(u) \/ WalkerFails(u) \/ Submit(u) \/ Ack(u)
      PROVE  FALSE
  <2>1. CASE u # t
    BY <1>1, <1>5, <2>1 DEF RenameInsert, RenameStops, WalkerFails, Submit, Ack, Advance,
                           ConditionFails, CallTypeOK
  <2>2. CASE u = t
    <3>1. ~RenameInsert(t) /\ ~Submit(t) /\ ~Ack(t)
      BY <1>1 DEF RenameInsert, Goto, Submit, Ack
    <3>2. ~RenameStops(t)
      BY Zenon DEF RenameStops, Versioned
    <3>3. ~WalkerFails(t)
      BY <1>1 DEF WalkerFails, CallTypeOK
    <3> QED
      BY <1>5, <2>2, <3>1, <3>2, <3>3, Zenon
  <2> QED
    BY <2>1, <2>2, Zenon
<1>6. ASSUME NEW u \in Threads \ {t}, ApplyInsert(u) \/ ApplyErase(u) \/ ApplyAssert(u)
      PROVE  FALSE
  BY <1>1, <1>6 DEF ApplyInsert, ApplyErase, ApplyAssert, Advance, ConditionFails, CallTypeOK
<1>7. CASE UNCHANGED vars \/ Sync \/ (\E b \in Blobs : FlushBlob(b))
  BY <1>2, <1>7, Zenon DEF vars, callVars, Sync, FlushBlob
<1>8. ~Truncate /\ ~Crash
  BY <1>1 DEF Truncate, CommitGateFree, Crash
<1> QED
  BY <1>2, <1>4, <1>5, <1>6, <1>7, <1>8, Zenon DEF Next

\* What a version stands for has not been written since, as long as the tree
\* has not been opened again: a restart on an empty log hands the numbers out
\* a second time.
LEMMA FreshVersion ==
  ASSUME Laws, CInv, DInv, VInv, crashes = 0, [Next]_vars, NEW t \in Threads, Applying(t),
         at'[t] > at[t], Op(t).kind \in Versioned
  PROVE  token[t].fresh
<1>1. HasVersion(mem, Op(t).key, Op(t).ver)
  <2>1. at[t] \in Nat
    BY Zenon DEF CInv, TypeOK, CallTypeOK
  <2> QED
    BY <2>1, OnlyWalker, ConditionMet
<1>2. at[t] \in DOMAIN Ops(t)
  BY OpType
<1>3. token[t] # NoToken /\ token[t].key = Op(t).key /\ token[t].ver = Op(t).ver
  BY <1>2, Zenon DEF VInv, TokenHolds, Op
<1>4. StaleHolds /\ token[t].fresh \in BOOLEAN
  BY <1>3, Zenon DEF VInv, CInv, TypeOK, StoreTypeOK, Tokens
<1> QED
  BY <1>1, <1>3, <1>4, Zenon DEF StaleHolds

-----------------------------------------------------------------------------
(* Recovery *)

\* They are records of the log.
LEMMA KeyedType ==
  /\ KeyedOps \subseteq WalOps /\ KeyedRecords \subseteq WalRecords
  /\ \A w \in Seq(KeyedRecords) : w \in Seq(WalRecords)
<1>1. KeyedOps \subseteq WalOps
  BY Zenon DEF KeyedOps, WalOps
<1>2. ASSUME NEW r \in KeyedRecords
      PROVE  r \in WalRecords
  <2>1. r.ops \in Seq(KeyedOps) /\ r.seq \in Nat /\ r = [seq |-> r.seq, ops |-> r.ops]
    BY Zenon DEF KeyedRecords
  <2>2. r.ops \in Seq(WalOps)
    BY <1>1, <2>1
  <2> QED
    BY <2>1, <2>2, Zenon DEF WalRecords
<1> QED
  BY <1>1, <1>2

\* The log grows at its end and its durable part only grows: the images stay
\* at points of it.
LEMMA RecoveryKeep ==
  ASSUME CInv, RInv, UNCHANGED <<base, image>>, torn => torn',
         durable' \in Nat, durable <= durable',
         \/ wal' = wal
         \/ \E r \in KeyedRecords : wal' = Append(wal, r),
         \A t \in Threads : Ops(t)' \in Seq(Keyed)
  PROVE  RInv'
<1>1. durable \in 0 .. Len(wal) /\ wal \in Seq(KeyedRecords)
  BY Zenon DEF CInv, TypeOK, StoreTypeOK, RInv
<1>2. wal' \in Seq(KeyedRecords)
  BY <1>1
<1>3. \A j \in 0 .. durable : SubSeq(wal', 1, j) = SubSeq(wal, 1, j)
  <2>1. ASSUME NEW r \in KeyedRecords, wal' = Append(wal, r), NEW j \in 0 .. durable
        PROVE  SubSeq(wal', 1, j) = SubSeq(wal, 1, j)
    BY <1>1, <2>1
  <2> QED
    BY <2>1, Zenon
<1>4. StoredHolds'
  <2> SUFFICES ASSUME ~torn', NEW k \in Keys
               PROVE  \E j \in 0 .. durable' : image'[k] = Replay(base', SubSeq(wal', 1, j))[k]
    BY Zenon DEF StoredHolds
  <2>1. PICK j \in 0 .. durable : image[k] = Replay(base, SubSeq(wal, 1, j))[k]
    BY Zenon DEF RInv, StoredHolds
  <2>2. j \in 0 .. durable'
    BY <1>1
  <2>3. image'[k] = Replay(base', SubSeq(wal', 1, j))[k]
    BY <1>3, <2>1, Zenon
  <2> QED
    BY <2>2, <2>3, Zenon
<1> QED
  BY <1>2, <1>4, Zenon DEF RInv

\* A call ends, or goes on as it was made.
LEMMA OpsKeyed ==
  ASSUME CInv, RInv, NEW t \in Threads, req' = req \/ req' = [req EXCEPT ![t] = NoCall]
  PROVE  \A u \in Threads : Ops(u)' \in Seq(Keyed)
<1>1. req \in [Threads -> Reqs]
  BY Zenon DEF CInv, TypeOK, CallTypeOK
<1>2. ASSUME NEW u \in Threads
      PROVE  req'[u] = req[u] \/ req'[u] = NoCall
  BY <1>1, Zenon
<1>3. ASSUME NEW u \in Threads
      PROVE  Ops(u)' = Ops(u) \/ Ops(u)' = <<>>
  BY <1>2, NoCallType, Zenon DEF Ops
<1>4. <<>> \in Seq(Keyed)
  OBVIOUS
<1> QED
  BY <1>3, <1>4, Zenon DEF RInv

\* No call that is made renames.
LEMMA CallKeyed ==
  ASSUME NoRenames, CInv, RInv, NEW t \in Threads, NEW c \in Calls, Call(t, c) \/ List(t, c)
  PROVE  \A u \in Threads : Ops(u)' \in Seq(Keyed)
<1>1. StoreTypeOK /\ CallTypeOK /\ opt \in DOMAIN Options
  BY Zenon DEF CInv, TypeOK, StoreTypeOK
<1>2. /\ c.ops \in Seq(Operations)
      /\ c.call \in {"view", "list"} => c.ops = <<>>
      /\ \A i \in DOMAIN c.ops : c.ops[i].kind # "rename"
  BY <1>1, CallsType, Zenon DEF NoRenames, Calls
<1>3. CASE List(t, c)
  <2>1. req' = [req EXCEPT ![t] = c] /\ c.ops = <<>>
    BY <1>2, <1>3, Zenon DEF List
  <2>2. \A u \in Threads : Ops(u)' = Ops(u) \/ Ops(u)' = <<>>
    BY <1>1, <2>1, Zenon DEF CallTypeOK, Ops
  <2>3. <<>> \in Seq(Keyed)
    OBVIOUS
  <2> QED
    BY <2>2, <2>3, Zenon DEF RInv
<1>4. CASE Call(t, c)
  <2> DEFINE r == Requested(t, c)
  <2>1. /\ r.ops \in Seq(Operations) /\ Len(r.ops) = Len(c.ops)
        /\ \A i \in DOMAIN c.ops : r.ops[i].kind = c.ops[i].kind
    BY <1>1, <1>4, RequestedType, Zenon DEF Call, Reqs
  <2>2. req' = [req EXCEPT ![t] = r]
    BY <1>4, Zenon DEF Call
  <2> HIDE DEF r
  <2>3. \A u \in Threads : Ops(u)' = Ops(u) \/ Ops(u)' = r.ops
    BY <1>1, <2>2, Zenon DEF CallTypeOK, Ops
  <2>4. \A i \in 1 .. Len(r.ops) : r.ops[i] \in Keyed
    BY <1>2, <2>1 DEF Keyed
  <2>5. r.ops \in Seq(Keyed)
    BY <2>1, <2>4
  <2> QED
    BY <2>3, <2>5, Zenon DEF RInv
<1> QED
  BY <1>3, <1>4, Zenon

\* What a thread does leaves the images at points of the log.
LEMMA ThreadRecovery ==
  ASSUME Laws, NoRenames, CInv, RInv, NEW t \in Threads
  PROVE  /\ (\E k \in TokenKeys : GetVersion(t, k)) \/ LockShard(t) \/ TakeSeq(t)
              \/ ApplyAssert(t) \/ RenameErase(t) \/ RenameInsert(t)
              \/ (\E b \in Blobs : CopyBlob(t, b)) \/ EpochBefore(t) \/ EnterScan(t)
              \/ (\E b \in Blobs : ScanBlob(t, b)) => RInv'
         /\ (\E c \in Calls : Call(t, c) \/ List(t, c)) => RInv'
         /\ Probe(t) \/ PreflightBatch(t) \/ ApplyInsert(t) \/ ApplyErase(t) \/ RenameStops(t)
              \/ WalkerFails(t) \/ Ack(t) \/ EndCapture(t) \/ Consult(t) \/ StoreListing(t)
              => RInv'
         /\ Submit(t) => RInv'
<1>1. durable \in Nat /\ torn \in BOOLEAN
  BY DEF CInv, TypeOK, StoreTypeOK
<1>2. ASSUME \/ \E k \in TokenKeys : GetVersion(t, k)
             \/ LockShard(t) \/ TakeSeq(t) \/ ApplyAssert(t) \/ RenameErase(t) \/ RenameInsert(t)
             \/ \E b \in Blobs : CopyBlob(t, b)
             \/ EpochBefore(t) \/ EnterScan(t)
             \/ \E b \in Blobs : ScanBlob(t, b)
      PROVE  RInv'
  <2>1. UNCHANGED <<req, wal, durable, base, image, torn>>
    BY <1>2, Zenon DEF GetVersion, LockShard, TakeSeq, ApplyAssert, RenameErase, RenameInsert, CopyBlob,
                EpochBefore, EnterScan, ScanBlob, Advance, callVars, logVars, restVars
  <2>2. \A u \in Threads : Ops(u)' \in Seq(Keyed)
    BY <2>1, OpsKeyed, Zenon
  <2> QED
    BY <1>1, <2>1, <2>2, RecoveryKeep
<1>3. ASSUME NEW c \in Calls, Call(t, c) \/ List(t, c)
      PROVE  RInv'
  <2>1. UNCHANGED <<wal, durable, base, image, torn>>
    BY <1>3, Zenon DEF Call, List, logVars, restVars
  <2> QED
    BY <1>1, <1>3, <2>1, CallKeyed, RecoveryKeep
<1>4. ASSUME \/ Probe(t) \/ PreflightBatch(t) \/ ApplyInsert(t) \/ ApplyErase(t) \/ RenameStops(t)
             \/ WalkerFails(t) \/ Ack(t) \/ EndCapture(t) \/ Consult(t) \/ StoreListing(t)
      PROVE  RInv'
  <2>1. UNCHANGED <<wal, durable, base, image>> /\ (torn => torn')
    <3>1. CASE WalkerFails(t)
      <4>1. UNCHANGED <<wal, durable, base, image>>
        BY <3>1, Zenon DEF WalkerFails, logVars
      <4>2. torn => torn'
        BY <3>1, Zenon DEF WalkerFails
      <4> QED
        BY <4>1, <4>2, Zenon
    <3>2. CASE ~WalkerFails(t)
      <4>1. UNCHANGED <<wal, durable, base, image>>
        BY <1>4, <3>2, Zenon DEF Probe, PreflightBatch, ApplyInsert, ApplyErase, RenameStops, Ack,
                                 EndCapture, Consult, StoreListing, logVars
      <4>2. UNCHANGED torn
        BY <1>4, <3>2, Zenon DEF Probe, PreflightBatch, ApplyInsert, ApplyErase, RenameStops, Ack,
                                 EndCapture, Consult, StoreListing, restVars
      <4> QED
        BY <4>1, <4>2, Zenon
    <3> QED
      BY <3>1, <3>2, Zenon
  <2>2. req' = req \/ req' = [req EXCEPT ![t] = NoCall]
    BY <1>4, Zenon DEF Probe, PreflightBatch, ApplyInsert, ApplyErase, RenameStops, WalkerFails, Ack,
                EndCapture, Consult, StoreListing, ConditionFails, Advance, Return
  <2>3. \A u \in Threads : Ops(u)' \in Seq(Keyed)
    BY <2>2, OpsKeyed, Zenon
  <2> QED
    BY <1>1, <2>1, <2>3, RecoveryKeep
<1>5. CASE Submit(t)
  <2>1. UNCHANGED <<durable, base, image, torn>> /\ wal' = Append(wal, Record(Ops(t), seq[t]))
    BY <1>5, Zenon DEF Submit, restVars
  <2>2. req' = req \/ req' = [req EXCEPT ![t] = NoCall]
    BY <1>5, Zenon DEF Submit, Return
  <2>3. \A u \in Threads : Ops(u)' \in Seq(Keyed)
    BY <2>2, OpsKeyed, Zenon
  <2>4. Record(Ops(t), seq[t]) \in KeyedRecords
    BY Zenon DEF RInv, CInv, TypeOK, CallTypeOK, Laws, RecordKeyedLaw
  <2> QED
    BY <1>1, <2>1, <2>3, <2>4, RecoveryKeep
<1> QED
  BY <1>2, <1>3, <1>4, <1>5, Zenon

\* A checkpoint takes an image of a blob when no call is writing, and drops
\* the log when every image is the memory; a restart starts a log over.
LEMMA StoreRecovery ==
  ASSUME Laws, NoRenames, CInv, CInv', DInv, RInv
  PROVE  /\ Sync => RInv'
         /\ (\E b \in Blobs : FlushBlob(b)) => RInv'
         /\ Truncate => RInv'
         /\ Crash => RInv'
<1>1. StoreTypeOK /\ wal \in Seq(KeyedRecords) /\ durable \in 0 .. Len(wal) /\ durable \in Nat
  BY DEF CInv, TypeOK, StoreTypeOK, RInv
<1>2. CASE Sync
  <2>1. UNCHANGED <<req, base, image, wal, torn>> /\ durable' = Len(wal)
    BY <1>2, Zenon DEF Sync, callVars, restVars
  <2>2. \A u \in Threads : Ops(u)' \in Seq(Keyed)
    BY <2>1, Zenon DEF RInv, Ops
  <2> QED
    BY <1>1, <2>1, <2>2, RecoveryKeep
<1>3. ASSUME NEW b \in Blobs, FlushBlob(b)
      PROVE  RInv'
  <2>1. /\ UNCHANGED <<req, base, wal, torn>> /\ durable' = Len(wal)
        /\ image' = [k \in Keys |-> IF BlobOf[k] = b THEN mem[k] ELSE image[k]]
        /\ \A t \in Threads : ~Writing(t)
    BY <1>3, Zenon DEF FlushBlob, callVars, restVars, CommitGateFree, Writing
  <2>2. \A u \in Threads : Ops(u)' \in Seq(Keyed)
    BY <2>1, Zenon DEF RInv, Ops
  <2>3. ASSUME ~torn, NEW k \in Keys
        PROVE  \E j \in 0 .. Len(wal) : image'[k] = Replay(base, SubSeq(wal, 1, j))[k]
    <3>1. CASE BlobOf[k] = b
      <4>1. NoForcedSelfRename
        BY Zenon DEF NoRenames, NoForcedSelfRename
      <4>2. mem[k] = Replay(base, wal)[k]
        BY <2>1, <2>3, <4>1 DEF DInv, LogHolds, Faithful, Quiet, Logged
      <4>3. SubSeq(wal, 1, Len(wal)) = wal /\ Len(wal) \in 0 .. Len(wal)
        BY <1>1
      <4> QED
        BY <2>1, <3>1, <4>2, <4>3, Zenon
    <3>2. CASE BlobOf[k] # b
      <4>1. PICK j \in 0 .. durable : image[k] = Replay(base, SubSeq(wal, 1, j))[k]
        BY <2>3, Zenon DEF RInv, StoredHolds
      <4>2. j \in 0 .. Len(wal)
        BY <1>1
      <4> QED
        BY <2>1, <3>2, <4>1, <4>2, Zenon
    <3> QED
      BY <3>1, <3>2, Zenon
  <2>4. StoredHolds'
    BY <2>1, <2>3, Zenon DEF StoredHolds
  <2> QED
    BY <1>1, <2>1, <2>2, <2>4, Zenon DEF RInv
<1>4. CASE Truncate \/ Crash
  <2>1. /\ base' = image /\ image' = image /\ durable' \in Nat /\ torn' = torn
        /\ wal' \in Seq(KeyedRecords)
    <3>1. CASE Truncate
      BY <3>1 DEF Truncate, restVars
    <3>2. CASE Crash
      <4>1. PICK n \in durable .. Len(wal) : wal' = SubSeq(wal, 1, n) /\ durable' = n
        BY <3>2, Zenon DEF Crash
      <4> QED
        BY <1>1, <3>2, <4>1 DEF Crash
    <3> QED
      BY <1>4, <3>1, <3>2, Zenon
  <2>2. \A k \in Keys : image'[k] = Replay(base', SubSeq(wal', 1, 0))[k]
    <3>1. SubSeq(wal', 1, 0) = <<>>
      BY <2>1
    <3>2. Replay(base', <<>>) = base'
      BY Zenon DEF Laws, ReplayEmptyLaw
    <3>3. Replay(base', SubSeq(wal', 1, 0)) = image'
      BY <2>1, <3>1, <3>2, Zenon
    <3> QED
      BY <3>3, Zenon
  <2>3. StoredHolds'
    BY <2>1, <2>2 DEF StoredHolds
  <2>4. \A u \in Threads : Ops(u)' \in Seq(Keyed)
    <3>1. CASE Truncate
      BY <3>1, Zenon DEF Truncate, RInv, Ops
    <3>2. CASE Crash
      <4>1. \A u \in Threads : Ops(u)' = <<>>
        BY <3>2, NoCallType, Zenon DEF Crash, Ops
      <4>2. <<>> \in Seq(Keyed)
        OBVIOUS
      <4> QED
        BY <4>1, <4>2, Zenon
    <3> QED
      BY <1>4, <3>1, <3>2, Zenon
  <2> QED
    BY <2>1, <2>3, <2>4, Zenon DEF RInv
<1> QED
  BY <1>2, <1>3, <1>4, Zenon

\* Every step keeps the images at points of the log.
LEMMA RecoveryStep ==
  ASSUME Laws, NoRenames, CInv, CInv', DInv, RInv, [Next]_vars
  PROVE  RInv'
<1>1. CASE UNCHANGED vars
  <2>1. UNCHANGED <<req, wal, durable, base, image, torn>>
    BY <1>1, Zenon DEF vars, callVars, logVars, restVars
  <2>2. \A u \in Threads : Ops(u)' \in Seq(Keyed)
    BY <2>1, Zenon DEF RInv, Ops
  <2>3. durable \in Nat
    BY DEF CInv, TypeOK, StoreTypeOK
  <2> QED
    BY <2>1, <2>2, <2>3, RecoveryKeep
<1>2. ASSUME NEW t \in Threads,
             \/ \E k \in TokenKeys : GetVersion(t, k)
             \/ \E c \in Calls : Call(t, c)
             \/ LockShard(t) \/ TakeSeq(t) \/ Probe(t) \/ PreflightBatch(t)
             \/ ApplyInsert(t) \/ ApplyErase(t) \/ ApplyAssert(t)
             \/ RenameErase(t) \/ RenameInsert(t) \/ RenameStops(t)
             \/ WalkerFails(t) \/ Submit(t) \/ Ack(t)
             \/ \E b \in Blobs : CopyBlob(t, b)
             \/ EndCapture(t)
             \/ \E c \in Calls : List(t, c)
             \/ Consult(t) \/ EpochBefore(t) \/ EnterScan(t)
             \/ \E b \in Blobs : ScanBlob(t, b)
             \/ StoreListing(t)
      PROVE  RInv'
  BY <1>2, ThreadRecovery, Zenon
<1>3. CASE Sync \/ (\E b \in Blobs : FlushBlob(b)) \/ Truncate \/ Crash
  BY <1>3, StoreRecovery, Zenon
<1> QED
  BY <1>1, <1>2, <1>3, Zenon DEF Next

\* The images and the log of a new tree are empty.
LEMMA RecoveryInit ==
  ASSUME Laws
  PROVE  Init => RInv
<1> SUFFICES ASSUME Init
             PROVE  RInv
  BY Zenon
<1>1. wal = <<>> /\ durable = 0 /\ base = image /\ \A t \in Threads : req[t] = NoCall
  BY Zenon DEF Init
<1>2. \A t \in Threads : Ops(t) = <<>>
  BY <1>1, NoCallType, Zenon DEF Ops
<1>3. <<>> \in Seq(Keyed) /\ <<>> \in Seq(KeyedRecords) /\ SubSeq(<<>>, 1, 0) = <<>>
  OBVIOUS
<1>4. Replay(base, <<>>) = base
  BY Zenon DEF Laws, ReplayEmptyLaw
<1>5. Replay(base, SubSeq(wal, 1, 0)) = image
  BY <1>1, <1>3, <1>4, Zenon
<1>6. StoredHolds
  BY <1>1, <1>5 DEF StoredHolds
<1>7. wal \in Seq(KeyedRecords) /\ \A t \in Threads : Ops(t) \in Seq(Keyed)
  BY <1>1, <1>2, <1>3, Zenon
<1> QED
  BY <1>6, <1>7, Zenon DEF RInv

\* Replaying what a crash left of the log, over images from different points
\* of it, gives what it gives over the records it started from.
LEMMA RecoveryHolds ==
  ASSUME Laws
  PROVE  CInv /\ RInv => RecoveryIsExact
<1> SUFFICES ASSUME CInv, RInv, ~torn, NEW n \in durable .. Len(wal)
             PROVE  Replay(image, SubSeq(wal, 1, n)) = Replay(base, SubSeq(wal, 1, n))
  BY Zenon DEF RecoveryIsExact
<1> DEFINE u == SubSeq(wal, 1, n)
<1>1. /\ image \in Maps /\ base \in Maps /\ durable \in 0 .. Len(wal)
      /\ wal \in Seq(KeyedRecords)
  BY Zenon DEF CInv, TypeOK, StoreTypeOK, RInv
<1>2. u \in Seq(KeyedRecords) /\ Len(u) = n /\ n \in Nat
  BY <1>1
<1>3. Replay(image, u) \in Maps /\ Replay(base, u) \in Maps
  BY <1>1, <1>2, KeyedType, Zenon DEF Laws, ReplayTypeLaw
<1>4. ASSUME NEW k \in Keys
      PROVE  Replay(image, u)[k] = Replay(base, u)[k]
  <2>1. PICK j \in 0 .. durable : image[k] = Replay(base, SubSeq(wal, 1, j))[k]
    BY Zenon DEF RInv, StoredHolds
  <2> DEFINE v == SubSeq(wal, 1, j)
             w == SubSeq(wal, j + 1, n)
  <2>2. j \in 0 .. n /\ n \in 0 .. Len(wal)
    BY <1>1, <2>1
  <2>3. v \in Seq(KeyedRecords) /\ w \in Seq(KeyedRecords)
    BY <1>1, <2>2
  <2>4. u = v \o w
    <3>1. ASSUME j \in 1 .. n
          PROVE  u = v \o w
      BY <1>1, <2>2, <3>1
    <3>2. ASSUME j = 0
          PROVE  u = v \o w
      <4>1. v = <<>> /\ w = u
        BY <1>1, <2>2, <3>2
      <4>2. <<>> \o u = u
        BY <1>2
      <4> QED
        BY <4>1, <4>2, Zenon
    <3>3. j = 0 \/ j \in 1 .. n
      BY <2>2
    <3> QED
      BY <3>1, <3>2, <3>3, Zenon
  <2> HIDE DEF u, v, w
  <2>5. image[k] = Replay(base, v)[k]
    BY <2>1, Zenon DEF v
  <2>6. Replay(image, v \o w)[k] = Replay(base, v \o w)[k]
    BY <1>1, <2>3, <2>5 DEF Laws, CatchUpLaw
  <2> QED
    BY <2>4, <2>6, Zenon
<1> HIDE DEF u
<1>5. Replay(image, u) = Replay(base, u)
  BY <1>3, <1>4 DEF Maps
<1> QED
  BY <1>5, Zenon DEF u
=============================================================================
