----------------------------- MODULE FoldProofs -----------------------------
(****************************************************************************)
(* What folding a sequence computes, for any step Op: the modules that      *)
(* replay a log or check a batch operation by operation fold one of their   *)
(* operators over a sequence, and instantiate this module with it.          *)
(****************************************************************************)
EXTENDS Integers, Sequences

CONSTANT Op(_, _)

Fold(b, s) ==
  LET f[i \in 0 .. Len(s)] == IF i = 0 THEN b ELSE Op(f[i - 1], s[i])
  IN  f[Len(s)]

\* The lemmas take induction over the naturals and over sequences as a
\* hypothesis, so that this module stays small wherever it is instantiated.
\* A module that uses them proves it.
Induction ==
  /\ \A S : 0 \in S /\ (\A n \in Nat : n \in S => n + 1 \in S) => Nat \subseteq S
  /\ \A E, S : <<>> \in S /\ (\A s \in Seq(E), e \in E : s \in S => Append(s, e) \in S)
       => Seq(E) \subseteq S

\* Nothing to fold leaves the start.
LEMMA FoldEmpty ==
  ASSUME NEW b
  PROVE  Fold(b, <<>>) = b
<1> DEFINE Solves(f) == f = [i \in 0 .. Len(<<>>) |-> IF i = 0 THEN b ELSE Op(f[i - 1], <<>>[i])]
           f0 == CHOOSE f : Solves(f)
<1>1. Solves([i \in 0 .. Len(<<>>) |-> b])
  OBVIOUS
<1>2. Solves(f0)
  <2> HIDE DEF Solves
  <2> QED
    BY <1>1
<1>3. Fold(b, <<>>) = f0[Len(<<>>)]
  BY DEF Fold
<1> HIDE DEF f0
<1> QED
  BY <1>2, <1>3

\* One more element is one more step: the recursion of Fold has a solution,
\* and two sequences with a common prefix have the same results on it.
LEMMA FoldAppend ==
  ASSUME Induction, NEW E, NEW b, NEW s \in Seq(E), NEW e \in E
  PROVE  Fold(b, Append(s, e)) = Op(Fold(b, s), e)
<1> DEFINE Body(f, r, i) == IF i = 0 THEN b ELSE Op(f[i - 1], r[i])
           Solves(f, r, n) == f = [i \in 0 .. n |-> Body(f, r, i)]
           Fn(r) == CHOOSE f : Solves(f, r, Len(r))
<1>1. \A r : \A n \in Nat : \E f : Solves(f, r, n)
  <2> SUFFICES ASSUME NEW r
               PROVE  \A n \in Nat : \E f : Solves(f, r, n)
    OBVIOUS
  <2> DEFINE Good == {n \in Nat : \E f : Solves(f, r, n)}
  <2>1. 0 \in Good
    <3>1. Solves([i \in 0 .. 0 |-> b], r, 0)
      OBVIOUS
    <3> QED
      BY <3>1
  <2>2. ASSUME NEW n \in Nat, n \in Good
        PROVE  n + 1 \in Good
    <3>1. PICK f : Solves(f, r, n)
      BY <2>2
    <3> DEFINE g == [i \in 0 .. n + 1 |-> Body(f, r, i)]
    <3>2. ASSUME NEW i \in 0 .. n
          PROVE  g[i] = f[i]
      <4>1. f[i] = Body(f, r, i) /\ g[i] = Body(f, r, i)
        <5> HIDE DEF Body
        <5> QED
          BY <3>1
      <4> QED
        BY <4>1
    <3>3. ASSUME NEW i \in 0 .. n + 1
          PROVE  Body(f, r, i) = Body(g, r, i)
      <4>1. i # 0 => i - 1 \in 0 .. n
        OBVIOUS
      <4> HIDE DEF g
      <4> QED
        BY <3>2, <4>1
    <3>4. Solves(g, r, n + 1)
      <4> HIDE DEF Body
      <4> QED
        BY <3>3
    <3> HIDE DEF Solves
    <3> QED
      BY <3>4
  <2> HIDE DEF Good
  <2>3. Nat \subseteq Good
    BY <2>1, <2>2 DEF Induction
  <2> QED
    BY <2>3 DEF Good
<1>2. ASSUME NEW r \in Seq(E)
      PROVE  /\ Fold(b, r) = Fn(r)[Len(r)] /\ Fn(r)[0] = b
             /\ \A i \in 1 .. Len(r) : Fn(r)[i] = Op(Fn(r)[i - 1], r[i])
  <2>1. Len(r) \in Nat
    OBVIOUS
  <2>2. Solves(Fn(r), r, Len(r))
    <3> HIDE DEF Solves
    <3> QED
      BY <1>1, <2>1
  <2>3. Fold(b, r) = Fn(r)[Len(r)]
    BY DEF Fold
  <2> HIDE DEF Fn
  <2>4. \A i \in 0 .. Len(r) : Fn(r)[i] = Body(Fn(r), r, i)
    <3> HIDE DEF Body
    <3> QED
      BY <2>2
  <2> QED
    BY <2>1, <2>3, <2>4
<1> HIDE DEF Fn
<1> DEFINE t == Append(s, e)
<1>3. /\ t \in Seq(E) /\ Len(t) = Len(s) + 1 /\ Len(s) \in Nat
      /\ t[Len(s) + 1] = e /\ \A k \in 1 .. Len(s) : s[k] = t[k]
  OBVIOUS
<1> HIDE DEF t
<1> DEFINE Same == {k \in Nat : k <= Len(s) => Fn(s)[k] = Fn(t)[k]}
<1>4. Fn(s)[0] = b /\ Fn(t)[0] = b
  BY <1>2, <1>3
<1>5. /\ \A i \in 1 .. Len(s) : Fn(s)[i] = Op(Fn(s)[i - 1], s[i])
      /\ \A i \in 1 .. Len(t) : Fn(t)[i] = Op(Fn(t)[i - 1], t[i])
  BY <1>2, <1>3
<1>6. 0 \in Same
  BY <1>4
<1>7. ASSUME NEW k \in Nat, k \in Same
      PROVE  k + 1 \in Same
  <2> SUFFICES ASSUME k + 1 <= Len(s)
               PROVE  Fn(s)[k + 1] = Fn(t)[k + 1]
    OBVIOUS
  <2>1. k + 1 \in 1 .. Len(s) /\ k + 1 \in 1 .. Len(t) /\ (k + 1) - 1 = k
    BY <1>3
  <2>2. Fn(s)[k + 1] = Op(Fn(s)[k], s[k + 1]) /\ Fn(t)[k + 1] = Op(Fn(t)[k], t[k + 1])
    BY <1>5, <2>1
  <2>3. Fn(s)[k] = Fn(t)[k] /\ s[k + 1] = t[k + 1]
    BY <1>3, <1>7, <2>1
  <2> QED
    BY <2>2, <2>3
<1>8. Nat \subseteq Same
  <2> HIDE DEF Same
  <2> QED
    BY <1>6, <1>7 DEF Induction
<1>9. Fn(s)[Len(s)] = Fn(t)[Len(s)]
  BY <1>3, <1>8
<1>10. Fn(t)[Len(t)] = Op(Fn(t)[Len(s)], e)
  BY <1>3, <1>5
<1>11. Fold(b, s) = Fn(s)[Len(s)] /\ Fold(b, t) = Fn(t)[Len(t)]
  BY <1>2, <1>3
<1> QED
  BY <1>9, <1>10, <1>11 DEF t

\* What every step preserves, the fold has.
LEMMA FoldType ==
  ASSUME Induction, NEW E, NEW T, NEW b \in T, NEW s \in Seq(E),
         \A a \in T, e \in E : Op(a, e) \in T
  PROVE  Fold(b, s) \in T
<1> DEFINE Good == {r \in Seq(E) : Fold(b, r) \in T}
<1>1. <<>> \in Good
  BY FoldEmpty
<1>2. ASSUME NEW r \in Seq(E), NEW e \in E, r \in Good
      PROVE  Append(r, e) \in Good
  <2>1. Append(r, e) \in Seq(E)
    OBVIOUS
  <2>2. Fold(b, Append(r, e)) = Op(Fold(b, r), e)
    BY FoldAppend
  <2> QED
    BY <1>2, <2>1, <2>2
<1>3. Seq(E) \subseteq Good
  <2> HIDE DEF Good
  <2> QED
    BY <1>1, <1>2 DEF Induction
<1> QED
  BY <1>3

\* The fold of two parts is the fold of the second from where the first ends.
LEMMA FoldConcat ==
  ASSUME Induction, NEW E, NEW b, NEW s \in Seq(E), NEW t \in Seq(E)
  PROVE  Fold(b, s \o t) = Fold(Fold(b, s), t)
<1> DEFINE Good == {r \in Seq(E) : Fold(b, s \o r) = Fold(Fold(b, s), r)}
<1>1. <<>> \in Good
  <2>1. s \o <<>> = s /\ <<>> \in Seq(E)
    OBVIOUS
  <2> QED
    BY <2>1, FoldEmpty
<1>2. ASSUME NEW r \in Seq(E), NEW e \in E, r \in Good
      PROVE  Append(r, e) \in Good
  <2>1. /\ Append(r, e) \in Seq(E) /\ s \o r \in Seq(E)
        /\ s \o Append(r, e) = Append(s \o r, e)
    OBVIOUS
  <2>2. Fold(b, Append(s \o r, e)) = Op(Fold(b, s \o r), e)
    <3>1. \A q \in Seq(E) : Fold(b, Append(q, e)) = Op(Fold(b, q), e)
      BY FoldAppend
    <3> QED
      BY <2>1, <3>1
  <2>3. Fold(Fold(b, s), Append(r, e)) = Op(Fold(Fold(b, s), r), e)
    BY FoldAppend
  <2> QED
    BY <1>2, <2>1, <2>2, <2>3
<1>3. Seq(E) \subseteq Good
  <2> HIDE DEF Good
  <2> QED
    BY <1>1, <1>2 DEF Induction
<1> QED
  BY <1>3
=============================================================================
