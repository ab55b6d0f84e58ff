---------------------------- MODULE ChainsProofs ----------------------------
(***************************************************************************)
(* What Chain computes on linked nodes.  The recursive function inside it  *)
(* is determined by its equation: the prefixes of the chain satisfy it, and *)
(* the least argument at which another solution differs does not exist.    *)
(***************************************************************************)
EXTENDS Chains, WellFoundedInduction, FiniteSetTheorems, TLAPS

\* A non-empty set of naturals has a least element.
LEMMA MinNat == ASSUME NEW T \in SUBSET Nat, T # {} PROVE \E m \in T : \A k \in T : m <= k
<1> DEFINE R == {ss \in Nat \X Nat : ss[1] < ss[2]}
<1>1. IsWellFoundedOn(R, Nat)
  BY NatLessThanWellFounded, Zenon DEF OpToRel
<1>2. \A a, b \in Nat : b < a => <<b, a>> \in R
  OBVIOUS
<1> HIDE DEF R
<1>3. PICK x \in T : \A y \in T : ~(<<y, x>> \in R)
  BY <1>1, WFMin
<1>4. ASSUME NEW y \in T PROVE x <= y
  <2>1. x \in Nat /\ y \in Nat
    OBVIOUS
  <2>2. ~(y < x)
    BY <2>1, <1>2, <1>3, Zenon
  <2>3. QED BY <2>1, <2>2
<1>5. QED BY <1>4

\* q is a path along next whose last node is not met before its end
Linked(next, q) ==
    \A i \in 1 .. Len(q) - 1 : q[i] # q[Len(q)] /\ q[i] \in DOMAIN next /\ next[q[i]] = q[i + 1]

\* The nodes of a path are read off from its ends.
LEMMA ChainIs ==
    ASSUME NEW S, NEW next, NEW n \in Nat, NEW q \in Seq(S), Len(q) \in 1 .. n + 1, Linked(next, q)
    PROVE  Chain(next, q[1], q[Len(q)], n) = q
<1> DEFINE from == q[1]
           to == q[Len(q)]
           F(c, k) == IF k = 0 THEN <<from>>
                      ELSE LET s == c[k - 1]
                               e == s[Len(s)]
                           IN  IF e = to \/ e \notin DOMAIN next THEN s ELSE Append(s, next[e])
           m(k) == IF k < Len(q) THEN k + 1 ELSE Len(q)
           P(k) == [i \in 1 .. m(k) |-> q[i]]
           d == [k \in 0 .. n |-> P(k)]
<1>0. Len(q) \in Nat /\ Len(q) > 0 /\ q = [i \in 1 .. Len(q) |-> q[i]] /\ \A i \in 1 .. Len(q) : q[i] \in S
  OBVIOUS
<1>1. ASSUME NEW k \in 0 .. n PROVE m(k) \in 1 .. Len(q) /\ P(k) \in Seq(S) /\ Len(P(k)) = m(k) /\ P(k)[m(k)] = q[m(k)]
  <2>1. m(k) \in 1 .. Len(q)
    BY <1>0
  <2> HIDE DEF m
  <2>2. QED BY <1>0, <2>1
<1>2. ASSUME NEW c, NEW k \in 0 .. n, k # 0 => c[k - 1] = P(k - 1) PROVE F(c, k) = P(k)
  <2>1. CASE k = 0
    <3>1. m(k) = 1
      BY <1>0, <2>1
    <3> HIDE DEF m
    <3>2. P(k) = <<q[1]>>
      BY <3>1
    <3>3. QED BY <2>1, <3>2
  <2>2. CASE k # 0
    <3>1. k - 1 \in 0 .. n
      BY <2>2
    <3>2. c[k - 1] = P(k - 1) /\ Len(P(k - 1)) = m(k - 1) /\ P(k - 1)[m(k - 1)] = q[m(k - 1)]
      BY <1>1, <1>2, <2>2, <3>1
    <3>3. F(c, k) = IF q[m(k - 1)] = to \/ q[m(k - 1)] \notin DOMAIN next THEN P(k - 1)
                    ELSE Append(P(k - 1), next[q[m(k - 1)]])
      <4> HIDE DEF P, m, to
      <4> QED BY <2>2, <3>2
    <3>4. CASE m(k - 1) = Len(q)
      <4>1. m(k) = Len(q)
        BY <1>0, <3>4
      <4>2. QED BY <3>3, <3>4, <4>1
    <3>5. CASE m(k - 1) # Len(q)
      <4>1. m(k - 1) = k /\ m(k) = k + 1 /\ k \in 1 .. Len(q) - 1
        BY <1>0, <2>2, <3>5
      <4>2. q[k] # to /\ q[k] \in DOMAIN next /\ next[q[k]] = q[k + 1]
        BY <4>1 DEF Linked
      <4>3. F(c, k) = Append(P(k - 1), q[k + 1])
        <5> HIDE DEF F, P, to
        <5> QED BY <3>3, <4>1, <4>2
      <4>4. Append(P(k - 1), q[k + 1]) = P(k)
        <5>1. P(k - 1) = [i \in 1 .. k |-> q[i]] /\ P(k) = [i \in 1 .. k + 1 |-> q[i]]
          BY <4>1
        <5>2. [i \in 1 .. k |-> q[i]] \in Seq(S) /\ q[k + 1] \in S
          BY <1>0, <4>1
        <5> HIDE DEF P
        <5>3. QED BY <5>1, <5>2
      <4>5. QED BY <4>3, <4>4
    <3>6. QED BY <3>4, <3>5
  <2>3. QED BY <2>1, <2>2
<1>3. d = [k \in 0 .. n |-> F(d, k)]
  <2>1. ASSUME NEW k \in 0 .. n PROVE F(d, k) = P(k)
    <3>1. k # 0 => d[k - 1] = P(k - 1)
      <4> HIDE DEF P
      <4> QED OBVIOUS
    <3> HIDE DEF d, F, P
    <3>2. QED BY <3>1, <1>2
  <2> HIDE DEF F, P
  <2>2. QED BY <2>1
<1>4. ASSUME NEW c, c = [k \in 0 .. n |-> F(c, k)] PROVE c[n] = P(n)
  <2> DEFINE T == {k \in 0 .. n : c[k] # P(k)}
  <2>1. T \in SUBSET Nat
    <3> HIDE DEF P
    <3> QED OBVIOUS
  <2>2. CASE T # {}
    <3>1. PICK j \in T : \A k \in T : j <= k
      BY <2>1, <2>2, MinNat
    <3>2. j \in 0 .. n /\ c[j] # P(j) /\ (j # 0 => c[j - 1] = P(j - 1))
      <4> HIDE DEF P
      <4>1. j \in 0 .. n /\ c[j] # P(j)
        OBVIOUS
      <4>2. ASSUME j # 0 PROVE c[j - 1] = P(j - 1)
        <5>1. j - 1 \in 0 .. n /\ ~(j <= j - 1)
          BY <4>1, <4>2
        <5>2. QED BY <5>1, <3>1
      <4>3. QED BY <4>1, <4>2
    <3>3. F(c, j) = P(j)
      <4> HIDE DEF F, P
      <4> QED BY <3>2, <1>2
    <3>4. c[j] = F(c, j)
      <4> HIDE DEF F
      <4> QED BY <1>4, <3>2
    <3>5. QED BY <3>2, <3>3, <3>4
  <2>3. CASE T = {}
    <3> HIDE DEF P
    <3> QED BY <2>3
  <2>4. QED BY <2>2, <2>3
<1>5. P(n) = q
  <2>1. m(n) = Len(q)
    BY <1>0
  <2> HIDE DEF m
  <2>2. QED BY <1>0, <2>1
<1>6. Chain(next, from, to, n) = (CHOOSE c : c = [k \in 0 .. n |-> F(c, k)])[n]
  BY DEF Chain
<1> DEFINE cc == CHOOSE c : c = [k \in 0 .. n |-> F(c, k)]
<1>7. cc = [k \in 0 .. n |-> F(cc, k)]
  <2> HIDE DEF F, d
  <2> QED BY <1>3
<1>8. cc[n] = P(n)
  <2> HIDE DEF F, P, cc
  <2> QED BY <1>4, <1>7
<1>9. QED BY <1>5, <1>6, <1>8

-----------------------------------------------------------------------------
Among(n, s) == \E i \in 1 .. Len(s) : n = s[i]
Distinct(s) == \A i, j \in 1 .. Len(s) : s[i] = s[j] => i = j

\* The indices of a sequence are finitely many.
LEMMA Interval == \A n \in Nat : IsFiniteSet(1 .. n) /\ Cardinality(1 .. n) = n
<1> SUFFICES ASSUME NEW n \in Nat PROVE IsFiniteSet(1 .. n) /\ Cardinality(1 .. n) = n
  OBVIOUS
<1>1. IsFiniteSet(1 .. n)
  BY FS_Interval
<1>2. Cardinality(1 .. n) = n
  BY FS_Interval
<1>3. QED BY <1>1, <1>2

\* A sequence without repetitions is no longer than its set has members.
LEMMA DistinctBound ==
    ASSUME NEW S, IsFiniteSet(S), NEW s \in Seq(S), Distinct(s)
    PROVE  Len(s) <= Cardinality(S)
<1> DEFINE I == 1 .. Len(s)
<1>1. s \in Injection(I, S)
  BY DEF Distinct, Injection, IsInjective
<1>2. Cardinality(I) <= Cardinality(S)
  BY <1>1, FS_Injection
<1>3. Cardinality(I) = Len(s)
  BY Interval
<1>4. QED BY <1>2, <1>3

\* If it holds every member it has just that length.
LEMMA DistinctAll ==
    ASSUME NEW S, IsFiniteSet(S), NEW s \in Seq(S), Distinct(s), \A n \in S : Among(n, s)
    PROVE  Len(s) = Cardinality(S)
<1> DEFINE I == 1 .. Len(s)
<1>1. s \in [I -> S] /\ Len(s) \in Nat
  OBVIOUS
<1>2. IsFiniteSet(I) /\ Cardinality(I) = Len(s)
  BY <1>1, Interval
<1>3. s \in Surjection(I, S)
  BY <1>1 DEF Surjection, Among
<1>4. Cardinality(S) <= Cardinality(I)
  BY <1>2, <1>3, FS_Surjection
<1>5. Cardinality(S) \in Nat
  BY FS_CardinalityType
<1>6. QED BY <1>1, <1>2, <1>4, <1>5, DistinctBound

\* The front of a sequence and what follows it.
LEMMA Split ==
    ASSUME NEW S, NEW q \in Seq(S), NEW k \in 0 .. Len(q)
    PROVE  /\ SubSeq(q, 1, k) \in Seq(S) /\ Len(SubSeq(q, 1, k)) = k
           /\ \A i \in 1 .. k : SubSeq(q, 1, k)[i] = q[i]
           /\ SubSeq(q, k + 1, Len(q)) \in Seq(S) /\ Len(SubSeq(q, k + 1, Len(q))) = Len(q) - k
           /\ \A i \in 1 .. Len(q) - k : SubSeq(q, k + 1, Len(q))[i] = q[k + i]
OBVIOUS

\* Two sequences, one after the other.
LEMMA Joins ==
    ASSUME NEW S, NEW s \in Seq(S), NEW t \in Seq(S)
    PROVE  /\ s \o t \in Seq(S) /\ Len(s \o t) = Len(s) + Len(t)
           /\ \A i \in 1 .. Len(s) : (s \o t)[i] = s[i]
           /\ \A i \in Len(s) + 1 .. Len(s) + Len(t) : (s \o t)[i] = t[i - Len(s)]
           /\ \A n : Among(n, s \o t) <=> Among(n, s) \/ Among(n, t)
           /\ Distinct(s) /\ Distinct(t) /\ (\A i \in 1 .. Len(t) : ~Among(t[i], s)) => Distinct(s \o t)
<1> DEFINE u == s \o t
<1>1. /\ Len(s) \in Nat /\ Len(t) \in Nat /\ u \in Seq(S) /\ Len(u) = Len(s) + Len(t)
      /\ \A i \in 1 .. Len(s) : u[i] = s[i]
      /\ \A i \in Len(s) + 1 .. Len(s) + Len(t) : u[i] = t[i - Len(s)]
  OBVIOUS
<1> HIDE DEF u
<1>2. ASSUME NEW n, Among(n, s) \/ Among(n, t) PROVE Among(n, u)
  <2>1. CASE Among(n, s)
    BY <1>1, <2>1 DEF Among
  <2>2. CASE Among(n, t)
    <3>1. PICK i \in 1 .. Len(t) : n = t[i]
      BY <2>2 DEF Among
    <3>2. i + Len(s) \in Len(s) + 1 .. Len(s) + Len(t) /\ (i + Len(s)) - Len(s) = i /\ i + Len(s) \in 1 .. Len(u)
      BY <1>1
    <3>3. u[i + Len(s)] = n
      BY <1>1, <3>1, <3>2
    <3>4. QED BY <3>2, <3>3 DEF Among
  <2>3. QED BY <1>2, <2>1, <2>2
<1>3. ASSUME NEW n, Among(n, u) PROVE Among(n, s) \/ Among(n, t)
  <2>1. PICK i \in 1 .. Len(u) : n = u[i]
    BY <1>3 DEF Among
  <2>2. CASE i <= Len(s)
    BY <1>1, <2>1, <2>2 DEF Among
  <2>3. CASE ~(i <= Len(s))
    <3>1. i \in Len(s) + 1 .. Len(s) + Len(t) /\ i - Len(s) \in 1 .. Len(t)
      BY <1>1, <2>3
    <3>2. QED BY <1>1, <2>1, <3>1 DEF Among
  <2>4. QED BY <2>2, <2>3
<1>4. ASSUME Distinct(s), Distinct(t), \A i \in 1 .. Len(t) : ~Among(t[i], s), NEW i \in 1 .. Len(u), NEW j \in 1 .. Len(u), u[i] = u[j]
      PROVE  i = j
  <2>1. CASE i <= Len(s) /\ j <= Len(s)
    BY <1>1, <1>4, <2>1 DEF Distinct
  <2>2. ASSUME NEW a \in 1 .. Len(u), NEW c \in 1 .. Len(u), a <= Len(s), ~(c <= Len(s)) PROVE u[a] # u[c]
    <3>1. c \in Len(s) + 1 .. Len(s) + Len(t) /\ c - Len(s) \in 1 .. Len(t) /\ a \in 1 .. Len(s)
      BY <1>1, <2>2
    <3>2. u[a] = s[a] /\ u[c] = t[c - Len(s)]
      BY <1>1, <3>1
    <3>3. QED BY <1>4, <3>1, <3>2 DEF Among
  <2>3. CASE ~(i <= Len(s)) /\ ~(j <= Len(s))
    <3>1. /\ i \in Len(s) + 1 .. Len(s) + Len(t) /\ i - Len(s) \in 1 .. Len(t)
          /\ j \in Len(s) + 1 .. Len(s) + Len(t) /\ j - Len(s) \in 1 .. Len(t)
      BY <1>1, <2>3
    <3>2. t[i - Len(s)] = t[j - Len(s)]
      BY <1>1, <1>4, <3>1
    <3>3. i - Len(s) = j - Len(s)
      BY <1>4, <3>1, <3>2 DEF Distinct
    <3>4. QED BY <1>1, <3>3
  <2>4. QED BY <1>4, <2>1, <2>2, <2>3
<1>5. Distinct(s) /\ Distinct(t) /\ (\A i \in 1 .. Len(t) : ~Among(t[i], s)) => Distinct(u)
  BY <1>4 DEF Distinct
<1>6. QED BY <1>1, <1>2, <1>3, <1>5 DEF u

\* The front of a path without repetitions, read off from its ends.
LEMMA PathIs ==
    ASSUME NEW S, NEW next, NEW n \in Nat, NEW q \in Seq(S), Distinct(q), Len(q) <= n + 1,
           \A i \in 1 .. Len(q) - 1 : q[i] \in DOMAIN next /\ next[q[i]] = q[i + 1], NEW k \in 1 .. Len(q)
    PROVE  Chain(next, q[1], q[k], n) = SubSeq(q, 1, k) /\ Linked(next, SubSeq(q, 1, k))
<1>1. Len(q) \in Nat /\ k \in 0 .. Len(q) /\ k \in Nat /\ k >= 1 /\ k <= n + 1
  OBVIOUS
<1>2. PICK t \in Seq(S) : t = SubSeq(q, 1, k) /\ Len(t) = k /\ \A i \in 1 .. k : t[i] = q[i]
  <2>1. SubSeq(q, 1, k) \in Seq(S) /\ Len(SubSeq(q, 1, k)) = k /\ \A i \in 1 .. k : SubSeq(q, 1, k)[i] = q[i]
    BY <1>1, Split
  <2>2. QED BY <2>1, Zenon
<1>3. Linked(next, t)
  <2>1. ASSUME NEW i \in 1 .. Len(t) - 1 PROVE t[i] # t[Len(t)] /\ t[i] \in DOMAIN next /\ next[t[i]] = t[i + 1]
    <3>1. i \in 1 .. k /\ i + 1 \in 1 .. k /\ k \in 1 .. k /\ i # k /\ i \in 1 .. Len(q) - 1 /\ i \in 1 .. Len(q)
      BY <1>1, <1>2
    <3>2. q[i] # q[k]
      BY <3>1 DEF Distinct
    <3>3. QED BY <1>2, <3>1, <3>2
  <2>2. QED BY <2>1 DEF Linked
<1>4. t[1] = q[1] /\ t[Len(t)] = q[k] /\ Len(t) \in 1 .. n + 1
  BY <1>1, <1>2
<1>5. Chain(next, t[1], t[Len(t)], n) = t
  BY <1>3, <1>4, ChainIs
<1>6. QED BY <1>2, <1>3, <1>4, <1>5
=============================================================================
