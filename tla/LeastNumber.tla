---------------------------- MODULE LeastNumber ----------------------------
(***************************************************************************)
(* The least-number principle for a set of naturals, and what rests on it  *)
(* about Retained.  It stands alone: next to SequencesExt the provers do   *)
(* not see through OpToRel.                                                *)
(***************************************************************************)
EXTENDS Vec, WellFoundedInduction, TLAPS

\* Among metrics there is a smallest one, so that the route `ip route get`
\* answers with (Best of HostNet) is one of the table.
LEMMA LeastNatural ==
  ASSUME NEW M \in SUBSET Nat, M # {}
  PROVE  \E m \in M : \A k \in M : m <= k
<1> DEFINE R == {p \in Nat \X Nat : p[1] < p[2]}
<1>1. IsWellFoundedOn(R, Nat)
  BY NatLessThanWellFounded DEF OpToRel
<1> HIDE DEF R
<1>2. PICK m \in M : \A k \in M : <<k, m>> \notin R
  BY <1>1, WFMin
<1>3. \A k \in M : m <= k
  <2> TAKE k \in M
  <2>1. k \in Nat /\ m \in Nat /\ <<k, m>> \in Nat \X Nat
    OBVIOUS
  <2>2. <<k, m>>[1] = k /\ <<k, m>>[2] = m
    OBVIOUS
  <2>3. ~(k < m)
    BY <1>2, <2>1, <2>2, Zenon DEF R
  <2> QED
    BY <2>1, <2>3
<1> QED
  BY <1>3

-----------------------------------------------------------------------------
(* What Retained computes.                                                 *)

\* r holds the elements of q at the positions of K up to n, in their order:
\* p tells where an element of r comes from.
ComesFrom(r, q, K, n, p) ==
  /\ p \in [1 .. Len(r) -> K \cap 1 .. n]
  /\ \A j \in 1 .. Len(r) : r[j] = q[p[j]]
  /\ \A i, j \in 1 .. Len(r) : i < j => p[i] < p[j]
  /\ \A k \in K \cap 1 .. n : \E j \in 1 .. Len(r) : p[j] = k

\* The function of Retained, up to n.
RetainStep(q, K, r, n) == IF n \in K THEN Append(r, q[n]) ELSE r
Computes(g, q, K, n) ==
  g[0] = <<>> /\ \A i \in 1 .. n : g[i] = RetainStep(q, K, g[i - 1], i)

\* One position more keeps the order and adds the element if it is wanted.
LEMMA RetainStepIs ==
  ASSUME NEW S, NEW q \in Seq(S), NEW K, NEW n \in 1 .. Len(q), NEW r \in Seq(S)
  PROVE  /\ RetainStep(q, K, r, n) \in Seq(S)
         /\ (\E p : ComesFrom(r, q, K, n - 1, p)) => (\E p : ComesFrom(RetainStep(q, K, r, n), q, K, n, p))
<1>1. q[n] \in S /\ Append(r, q[n]) \in Seq(S)
  OBVIOUS
<1>2. RetainStep(q, K, r, n) \in Seq(S)
  BY <1>1 DEF RetainStep
<1>3. ASSUME NEW p, ComesFrom(r, q, K, n - 1, p) PROVE \E x : ComesFrom(RetainStep(q, K, r, n), q, K, n, x)
  <2>1. CASE n \notin K
    <3>1. ComesFrom(r, q, K, n, p)
      BY <1>3, <2>1 DEF ComesFrom
    <3> QED
      BY <3>1, <2>1 DEF RetainStep
  <2>2. CASE n \in K
    <3> DEFINE s == Append(r, q[n])
               x == [j \in 1 .. Len(r) + 1 |-> IF j = Len(r) + 1 THEN n ELSE p[j]]
    <3>1. Len(s) = Len(r) + 1 /\ Len(r) \in Nat /\ s[Len(r) + 1] = q[n] /\ \A j \in 1 .. Len(r) : s[j] = r[j]
      OBVIOUS
    <3>2. /\ p \in [1 .. Len(r) -> K \cap 1 .. n - 1]
          /\ \A j \in 1 .. Len(r) : r[j] = q[p[j]]
          /\ \A i, j \in 1 .. Len(r) : i < j => p[i] < p[j]
          /\ \A k \in K \cap 1 .. n - 1 : \E j \in 1 .. Len(r) : p[j] = k
      BY <1>3 DEF ComesFrom
    <3> HIDE DEF s
    <3>3. x \in [1 .. Len(s) -> K \cap 1 .. n]
      BY <3>1, <3>2, <2>2
    <3>4. x[Len(s)] = n /\ \A j \in 1 .. Len(r) : x[j] = p[j]
      BY <3>1
    <3> HIDE DEF x
    <3>5. \A j \in 1 .. Len(s) : s[j] = q[x[j]]
      BY <3>1, <3>2, <3>4
    <3>6. \A i, j \in 1 .. Len(s) : i < j => x[i] < x[j]
      <4> SUFFICES ASSUME NEW i \in 1 .. Len(s), NEW j \in 1 .. Len(s), i < j PROVE x[i] < x[j]
        OBVIOUS
      <4>1. i \in 1 .. Len(r) /\ x[i] = p[i] /\ p[i] \in 1 .. n - 1
        BY <3>1, <3>2, <3>4
      <4>2. CASE j = Len(s)
        BY <4>1, <4>2, <3>4
      <4>3. CASE j # Len(s)
        <5>1. j \in 1 .. Len(r) /\ x[j] = p[j]
          BY <4>3, <3>1, <3>4
        <5>2. p[i] < p[j]
          BY <5>1, <4>1, <3>2
        <5> QED
          BY <5>1, <5>2, <4>1
      <4> QED
        BY <4>2, <4>3
    <3>7. \A k \in K \cap 1 .. n : \E j \in 1 .. Len(s) : x[j] = k
      <4> SUFFICES ASSUME NEW k \in K \cap 1 .. n PROVE \E j \in 1 .. Len(s) : x[j] = k
        OBVIOUS
      <4>1. CASE k = n
        BY <4>1, <3>1, <3>4
      <4>2. CASE k # n
        <5>1. PICK j \in 1 .. Len(r) : p[j] = k
          BY <4>2, <3>2
        <5> QED
          BY <5>1, <3>1, <3>4
      <4> QED
        BY <4>1, <4>2
    <3>8. ComesFrom(s, q, K, n, x)
      BY <3>3, <3>5, <3>6, <3>7 DEF ComesFrom
    <3> QED
      BY <3>8, <2>2 DEF RetainStep, s
  <2> QED
    BY <2>1, <2>2
<1> QED
  BY <1>2, <1>3

\* The recursion of Retained has a solution.
LEMMA Computed ==
  ASSUME NEW S, NEW q \in Seq(S), NEW K
  PROVE  \E g \in [0 .. Len(q) -> Seq(S)] : Computes(g, q, K, Len(q))
<1> DEFINE Bad == {n \in 0 .. Len(q) : ~\E g \in [0 .. n -> Seq(S)] : Computes(g, q, K, n)}
<1>0. Len(q) \in 0 .. Len(q) /\ Bad \in SUBSET Nat
  OBVIOUS
<1>1. SUFFICES ASSUME Bad # {} PROVE FALSE
  BY <1>0
<1>2. PICK n \in Bad : \A k \in Bad : n <= k
  <2> HIDE DEF Bad
  <2> QED
    BY <1>0, <1>1, LeastNatural
<1>n. n \in 0 .. Len(q)
  OBVIOUS
<1>3. n # 0
  <2> DEFINE g == [i \in 0 .. 0 |-> <<>>]
  <2>1. g \in [0 .. 0 -> Seq(S)] /\ Computes(g, q, K, 0)
    BY DEF Computes
  <2> QED
    BY <2>1
<1>4. n - 1 \in 0 .. Len(q) /\ n \in 1 .. Len(q)
  BY <1>n, <1>3
<1>b. n - 1 \notin Bad
  <2> HIDE DEF Bad
  <2> QED
    BY <1>2, <1>4
<1>5. PICK g \in [0 .. n - 1 -> Seq(S)] : Computes(g, q, K, n - 1)
  BY <1>4, <1>b
<1> DEFINE h == [i \in 0 .. n |-> IF i = n THEN RetainStep(q, K, g[n - 1], n) ELSE g[i]]
<1>6. RetainStep(q, K, g[n - 1], n) \in Seq(S)
  <2>1. n - 1 \in 0 .. n - 1
    BY <1>4
  <2>2. g[n - 1] \in Seq(S)
    BY <2>1
  <2> HIDE DEF Bad
  <2> QED
    BY <1>4, <2>2, RetainStepIs
<1>7. h \in [0 .. n -> Seq(S)]
  BY <1>4, <1>6
<1>8. h[0] = <<>>
  BY <1>4, <1>5 DEF Computes
<1>9. ASSUME NEW i \in 1 .. n PROVE h[i] = RetainStep(q, K, h[i - 1], i)
  <2>1. h[i - 1] = g[i - 1]
    BY <1>4
  <2>2. CASE i = n
    BY <2>1, <2>2, <1>4
  <2>3. CASE i # n
    <3>1. h[i] = g[i] /\ i \in 1 .. n - 1
      BY <2>3, <1>4
    <3>2. g[i] = RetainStep(q, K, g[i - 1], i)
      BY <3>1, <1>5 DEF Computes
    <3> HIDE DEF h
    <3> QED
      BY <3>1, <3>2, <2>1
  <2> QED
    BY <2>2, <2>3
<1>10. Computes(h, q, K, n)
  <2> HIDE DEF h
  <2> QED
    BY <1>8, <1>9 DEF Computes
<1> QED
  BY <1>7, <1>10, <1>2

\* What is retained (Vec::retain): exactly the elements at the positions of K,
\* each once and in their order.
LEMMA RetainedIs ==
  ASSUME NEW S, NEW q \in Seq(S), NEW K
  PROVE  Retained(q, K) \in Seq(S) /\ \E p : ComesFrom(Retained(q, K), q, K, Len(q), p)
<1> DEFINE F(g) == [n \in 0 .. Len(q) |->
               IF n = 0 THEN <<>> ELSE IF n \in K THEN Append(g[n - 1], q[n]) ELSE g[n - 1]]
<1>1. PICK g \in [0 .. Len(q) -> Seq(S)] : Computes(g, q, K, Len(q))
  BY Computed
<1>2. g = F(g)
  <2>1. ASSUME NEW n \in 0 .. Len(q) PROVE g[n] = F(g)[n]
    <3>1. CASE n = 0
      BY <3>1, <1>1 DEF Computes
    <3>2. CASE n # 0
      <4>1. n \in 1 .. Len(q)
        BY <3>2
      <4>2. g[n] = RetainStep(q, K, g[n - 1], n)
        BY <4>1, <1>1 DEF Computes
      <4> QED
        BY <4>1, <4>2 DEF RetainStep
    <3> QED
      BY <3>1, <3>2
  <2>2. DOMAIN g = 0 .. Len(q) /\ DOMAIN F(g) = 0 .. Len(q) /\ g = [n \in DOMAIN g |-> g[n]]
    OBVIOUS
  <2> QED
    BY <2>1, <2>2
<1> DEFINE f == CHOOSE f : f = F(f)
<1>3. f = F(f)
  BY <1>2
<1>4. Retained(q, K) = f[Len(q)]
  BY DEF Retained
<1>5. f[0] = <<>> /\ \A n \in 1 .. Len(q) : f[n] = RetainStep(q, K, f[n - 1], n)
  <2> HIDE DEF f
  <2>1. f[0] = <<>>
    BY <1>3
  <2>2. ASSUME NEW n \in 1 .. Len(q) PROVE f[n] = RetainStep(q, K, f[n - 1], n)
    <3>1. n \in 0 .. Len(q) /\ n # 0
      OBVIOUS
    <3> QED
      BY <1>3, <3>1 DEF RetainStep
  <2> QED
    BY <2>1, <2>2
<1> HIDE DEF f
<1> DEFINE Good(n) == f[n] \in Seq(S) /\ \E p : ComesFrom(f[n], q, K, n, p)
           Bad == {n \in 0 .. Len(q) : ~Good(n)}
<1>6. Bad = {}
  <2>1. SUFFICES ASSUME Bad # {} PROVE FALSE
    OBVIOUS
  <2>0. Bad \in SUBSET Nat
    OBVIOUS
  <2>2. PICK n \in Bad : \A k \in Bad : n <= k
    <3> HIDE DEF Bad
    <3> QED
      BY <2>0, <2>1, LeastNatural
  <2>3. n \in 0 .. Len(q) /\ ~Good(n)
    OBVIOUS
  <2>4. n # 0
    <3> DEFINE p == [j \in 1 .. 0 |-> 0]
    <3>1. ComesFrom(<<>>, q, K, 0, p)
      <4>1. Len(<<>>) = 0 /\ 1 .. 0 = {} /\ p \in [1 .. 0 -> K \cap 1 .. 0]
        OBVIOUS
      <4> QED
        BY <4>1 DEF ComesFrom
    <3>2. <<>> \in Seq(S)
      OBVIOUS
    <3> QED
      BY <3>1, <3>2, <2>3, <1>5
  <2>5. n - 1 \in 0 .. Len(q) /\ n \in 1 .. Len(q)
    BY <2>3, <2>4
  <2>6. n - 1 \notin Bad
    <3> HIDE DEF Bad
    <3> QED
      BY <2>2, <2>5
  <2>7. Good(n - 1)
    BY <2>5, <2>6
  <2>8. f[n] = RetainStep(q, K, f[n - 1], n)
    BY <1>5, <2>5
  <2> QED
    BY <2>3, <2>5, <2>7, <2>8, RetainStepIs
<1>7. Good(Len(q))
  <2>1. Len(q) \in 0 .. Len(q)
    OBVIOUS
  <2> QED
    BY <1>6, <2>1
<1> QED
  BY <1>4, <1>7

\* p numbers the positions after N up to L with 1 to R, in their order.
NumbersOff(p, R, N, L) ==
  /\ \A j \in 1 .. R : p[j] \in N + 1 .. L
  /\ \A i, j \in 1 .. R : i < j => p[i] < p[j]
  /\ \A k \in N + 1 .. L : \E j \in 1 .. R : p[j] = k

\* Positions that come one after the other up to the last are a shift.
LEMMA ShiftedPositions ==
  ASSUME NEW N \in Nat, NEW L \in Nat, N <= L, NEW R \in Nat,
         NEW p, NumbersOff(p, R, N, L)
  PROVE  R = L - N /\ \A j \in 1 .. R : p[j] = N + j
<1> USE DEF NumbersOff
<1> DEFINE Bad == {j \in 1 .. R : p[j] # N + j}
<1>1. Bad = {}
  <2> SUFFICES ASSUME Bad # {} PROVE FALSE
    OBVIOUS
  <2>0. Bad \in SUBSET Nat
    OBVIOUS
  <2>1. PICK j \in Bad : \A k \in Bad : j <= k
    <3> HIDE DEF Bad
    <3> QED
      BY <2>0, LeastNatural
  <2>2. j \in 1 .. R /\ p[j] # N + j /\ p[j] \in N + 1 .. L
    OBVIOUS
  <2>3. \A i \in 1 .. R : i < j => p[i] = N + i
    BY <2>1, <2>2
  <2>4. p[j] > N + j
    <3>1. CASE j = 1
      BY <2>2, <3>1
    <3>2. CASE j # 1
      <4>1. j - 1 \in 1 .. R /\ j - 1 < j
        BY <2>2, <3>2
      <4>2. p[j - 1] = N + (j - 1) /\ p[j - 1] < p[j]
        BY <2>2, <2>3, <4>1
      <4>3. p[j] \in Nat /\ j \in Nat
        BY <2>2
      <4>4. N + (j - 1) < p[j]
        BY <4>2
      <4> HIDE DEF Bad
      <4> QED
        BY <2>2, <4>3, <4>4
    <3> QED
      BY <3>1, <3>2
  <2>5. N + j \in N + 1 .. L
    BY <2>2, <2>4
  <2>6. PICK i \in 1 .. R : p[i] = N + j
    BY <2>5
  <2>7. CASE i < j
    BY <2>2, <2>3, <2>6, <2>7
  <2>8. CASE i = j
    BY <2>2, <2>6, <2>8
  <2>9. CASE i > j
    <3>1. p[j] < p[i]
      BY <2>2, <2>9
    <3> QED
      BY <2>2, <2>4, <2>6, <3>1
  <2> QED
    BY <2>2, <2>7, <2>8, <2>9
<1>2. \A j \in 1 .. R : p[j] = N + j
  BY <1>1
<1>3. R <= L - N
  <2>1. CASE R = 0
    BY <2>1
  <2>2. CASE R # 0
    <3>1. R \in 1 .. R
      BY <2>2
    <3>2. p[R] = N + R /\ p[R] \in N + 1 .. L
      BY <1>2, <3>1
    <3> QED
      BY <3>2
  <2> QED
    BY <2>1, <2>2
<1>4. ~(R < L - N)
  <2> SUFFICES ASSUME R < L - N PROVE FALSE
    OBVIOUS
  <2>1. N + (R + 1) \in N + 1 .. L
    OBVIOUS
  <2>2. PICK j \in 1 .. R : p[j] = N + (R + 1)
    BY <2>1
  <2>3. p[j] = N + j
    BY <1>2
  <2> QED
    BY <2>2, <2>3
<1> QED
  BY <1>2, <1>3, <1>4

\* What is retained of a list when only its beginning goes.
LEMMA RetainedEnd ==
  ASSUME NEW S, NEW q \in Seq(S), NEW K, NEW N \in 0 .. Len(q),
         \A k \in 1 .. Len(q) : k \in K <=> k > N
  PROVE  LET r == Retained(q, K)
         IN  /\ r \in Seq(S) /\ Len(r) = Len(q) - N
             /\ \A j \in 1 .. Len(r) : r[j] = q[N + j]
<1> DEFINE r == Retained(q, K)
<1>1. r \in Seq(S)
  BY RetainedIs
<1>2. PICK p : ComesFrom(r, q, K, Len(q), p)
  BY RetainedIs
<1>3. Len(r) \in Nat /\ Len(q) \in Nat /\ N \in Nat /\ N <= Len(q)
  BY <1>1
<1>4. K \cap 1 .. Len(q) = N + 1 .. Len(q)
  BY <1>3
<1> HIDE DEF r
<1>5. /\ p \in [1 .. Len(r) -> N + 1 .. Len(q)]
      /\ \A j \in 1 .. Len(r) : r[j] = q[p[j]]
      /\ \A i, j \in 1 .. Len(r) : i < j => p[i] < p[j]
      /\ \A k \in N + 1 .. Len(q) : \E j \in 1 .. Len(r) : p[j] = k
  BY <1>2, <1>4 DEF ComesFrom
<1>6. Len(r) = Len(q) - N /\ \A j \in 1 .. Len(r) : p[j] = N + j
  <2>1. PICK R : R = Len(r)
    OBVIOUS
  <2>2. PICK L : L = Len(q)
    OBVIOUS
  <2>3. N \in Nat /\ L \in Nat /\ N <= L /\ R \in Nat
    BY <1>3, <2>1, <2>2
  <2>4. NumbersOff(p, R, N, L)
    BY <1>5, <2>1, <2>2 DEF NumbersOff
  <2>5. R = L - N /\ \A j \in 1 .. R : p[j] = N + j
    BY <2>3, <2>4, ShiftedPositions
  <2> QED
    BY <2>1, <2>2, <2>5
<1> QED
  BY <1>1, <1>5, <1>6 DEF r

=============================================================================
