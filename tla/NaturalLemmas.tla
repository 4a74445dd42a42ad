--------------------------- MODULE NaturalLemmas ---------------------------
(***************************************************************************)
(* Facts about natural numbers that the other proofs use: least and        *)
(* greatest elements, induction and recursion, powers of two, quotient and *)
(* remainder.                                                              *)
(***************************************************************************)
EXTENDS Integers, Sequences, FiniteSets, FiniteSetsExt, TLAPS,
        WellFoundedInduction, FiniteSetTheorems, SequenceTheorems
-----------------------------------------------------------------------------
(* Least and greatest elements.                                            *)

(* Min of a nonempty set of naturals is its least element. *)
LEMMA MinIsLeast ==
  ASSUME NEW S \in SUBSET Nat, S # {}
  PROVE  Min(S) \in S /\ \A y \in S : Min(S) <= y
<1> DEFINE Less == {ss \in Nat \X Nat : ss[1] < ss[2]}
<1>1. IsWellFoundedOn(Less, Nat)
  BY NatLessThanWellFounded DEF OpToRel
<1>2. \A p, q \in Nat : p < q => <<p, q>> \in Less
  OBVIOUS
<1> HIDE DEF Less
<1>3. PICK m \in S : \A y \in S : ~ (<<y, m>> \in Less)
  BY <1>1, WFMin
<1>4. ASSUME NEW y \in S PROVE m <= y
  <2>1. ~ (y < m)
    BY <1>2, <1>3, Zenon
  <2> QED BY <2>1
<1> QED BY <1>3, <1>4 DEF Min

(* Numbers f[1], ..., f[m] are bounded, or there would be a least m for    *)
(* which they are not.                                                     *)
LEMMA NumbersBounded ==
  ASSUME NEW len \in Nat, NEW f \in [1..len -> Nat]
  PROVE  \E b \in Nat : \A k \in 1..len : f[k] <= b
<1> DEFINE Bounded(m) == \E b \in Nat : \A k \in 1..m : f[k] <= b
           Bad == {m \in 0..len : ~Bounded(m)}
<1>1. Bad \in SUBSET Nat
  OBVIOUS
<1>2. Bounded(0)
  BY 0 \in Nat
<1>3. ASSUME NEW m \in 1..len, Bounded(m - 1)
      PROVE  Bounded(m)
  <2>1. PICK b \in Nat : \A k \in 1..(m - 1) : f[k] <= b
    BY <1>3
  <2>2. f[m] \in Nat
    OBVIOUS
  <2>3. CASE f[m] <= b
    <3>1. \A k \in 1..m : f[k] <= b
      BY <2>1, <2>3
    <3> QED BY <3>1
  <2>4. CASE b < f[m]
    <3>1. \A k \in 1..m : f[k] <= f[m]
      BY <2>1, <2>2, <2>4
    <3> QED BY <2>2, <3>1
  <2> QED BY <2>2, <2>3, <2>4
<1> HIDE DEF Bounded
<1>4. ASSUME NEW m \in Bad, \A k \in Bad : m <= k
      PROVE  FALSE
  <2>1. m \in 1..len /\ ~Bounded(m)
    BY <1>2
  <2>2. m - 1 \in 0..len /\ ~ (m <= m - 1)
    BY <2>1
  <2>3. Bounded(m - 1)
    BY <1>4, <2>2
  <2> QED BY <1>3, <2>1, <2>3
<1> HIDE DEF Bad
<1>5. Bad = {}
  BY <1>1, <1>4, MinIsLeast
<1>6. Bounded(len)
  BY <1>5 DEF Bad
<1> QED BY <1>6 DEF Bounded

LEMMA FiniteIsBounded ==
  ASSUME NEW S \in SUBSET Nat, IsFiniteSet(S)
  PROVE  \E b \in Nat : \A y \in S : y <= b
<1>1. PICK n \in Nat : ExistsBijection(1..n, S)
  BY FS_NatBijection
<1>2. PICK f : f \in Bijection(1..n, S)
  BY <1>1 DEF ExistsBijection
<1>3. f \in [1..n -> Nat] /\ \A y \in S : \E k \in 1..n : f[k] = y
  BY <1>2 DEF Bijection, Injection, Surjection
<1> QED BY <1>3, NumbersBounded

(* Max of a nonempty finite set of naturals is its greatest element.       *)
LEMMA MaxIsGreatest ==
  ASSUME NEW S \in SUBSET Nat, IsFiniteSet(S), S # {}
  PROVE  Max(S) \in S /\ \A y \in S : y <= Max(S)
<1> DEFINE Bounds == {b \in Nat : \A y \in S : y <= b}
<1>1. Bounds \in SUBSET Nat /\ Bounds # {}
  BY FiniteIsBounded
<1>2. PICK b \in Bounds : \A c \in Bounds : b <= c
  BY <1>1, MinIsLeast
<1>3. b \in S
  <2> SUFFICES ASSUME b \notin S PROVE FALSE
    OBVIOUS
  <2>1. \A y \in S : y <= b - 1 /\ b - 1 \in Nat
    BY <1>2
  <2>2. b - 1 \in Bounds
    BY <2>1
  <2> QED BY <1>2, <2>2
<1> QED BY <1>2, <1>3 DEF Max
-----------------------------------------------------------------------------
(* Induction and recursion.                                                *)

(* Induction: a set of naturals with 0 and with the successor of every     *)
(* member has them all, or there would be a least one missing.             *)
LEMMA AllNaturals ==
  ASSUME NEW G \in SUBSET Nat, 0 \in G, \A n \in G : n + 1 \in G
  PROVE  G = Nat
<1> DEFINE Bad == Nat \ G
<1>1. Bad \in SUBSET Nat
  OBVIOUS
<1>2. ASSUME NEW m \in Bad, \A k \in Bad : m <= k
      PROVE  FALSE
  <2>1. m - 1 \in Nat /\ m - 1 + 1 = m /\ ~ (m <= m - 1)
    OBVIOUS
  <2>2. m - 1 \in G
    BY <1>2, <2>1
  <2>3. m - 1 + 1 \in G
    BY <2>2
  <2> QED BY <2>1, <2>3
<1> HIDE DEF Bad
<1>3. Bad = {}
  BY <1>1, <1>2, MinIsLeast
<1> QED BY <1>3 DEF Bad

(* A function on 0..N whose values are given by those of smaller arguments *)
(* exists.                                                                 *)
StepsBack(fa, N) == \A k \in 1..N : fa[k] \in 0..(k - 1)
StepsIn(g, N, S) == \A k \in 1..N : \A s \in S : g[<<k, s>>] \in S
Follows(f, N, S, c, fa, g) ==
  /\ f \in [0..N -> S] /\ f[0] = c
  /\ \A k \in 1..N : f[k] = g[<<k, f[fa[k]]>>]

LEMMA RecursionExists ==
  ASSUME NEW N \in Nat, NEW S, NEW c \in S, NEW fa, StepsBack(fa, N),
         NEW g, StepsIn(g, N, S)
  PROVE  \E f : Follows(f, N, S, c, fa, g)
<1> DEFINE Up(m) == \E f : Follows(f, m, S, c, fa, g)
           G == {m \in Nat : m <= N => Up(m)}
<1>1. Up(0)
  <2> DEFINE f == [k \in 0..0 |-> c]
  <2>1. f \in [0..0 -> S] /\ f[0] = c /\ 1..0 = {}
    OBVIOUS
  <2>2. Follows(f, 0, S, c, fa, g)
    BY <2>1 DEF Follows
  <2> QED BY <2>2
<1>2. ASSUME NEW n \in Nat, NEW m \in 1..N, m = n + 1, Up(n)
      PROVE  Up(m)
  <2>1. PICK f : Follows(f, n, S, c, fa, g)
    BY <1>2
  <2> DEFINE d == g[<<m, f[fa[m]]>>]
             h == [k \in 0..m |-> IF k = m THEN d ELSE f[k]]
  <2>2. fa[m] \in 0..n
    BY <1>2 DEF StepsBack
  <2>3. d \in S
    BY <2>1, <2>2 DEF Follows, StepsIn
  <2> HIDE DEF d
  <2>4. h \in [0..m -> S] /\ h[0] = c /\ h[m] = d
    BY <1>2, <2>1, <2>3 DEF Follows
  <2>5. ASSUME NEW k \in 1..m
        PROVE  h[k] = g[<<k, h[fa[k]]>>]
    <3> DEFINE j == fa[k]
    <3>1. j \in 0..m /\ j # m
      BY DEF StepsBack
    <3> HIDE DEF j
    <3>2. h[j] = f[j]
      BY <3>1
    <3>3. CASE k = m
      <4> HIDE DEF h
      <4> QED BY <2>4, <3>2, <3>3 DEF d, j
    <3>4. CASE k # m
      <4>1. k \in 1..n /\ h[k] = f[k]
        BY <1>2, <3>4
      <4>2. f[k] = g[<<k, f[j]>>]
        BY <2>1, <4>1 DEF Follows, j
      <4> HIDE DEF h
      <4> QED BY <3>2, <4>1, <4>2 DEF j
    <3> QED BY <3>3, <3>4
  <2> HIDE DEF h
  <2>6. Follows(h, m, S, c, fa, g)
    BY <2>4, <2>5 DEF Follows
  <2> QED BY <2>6
<1> HIDE DEF Up
<1>3. ASSUME NEW n \in G PROVE n + 1 \in G
  BY <1>2
<1>4. G = Nat
  BY <1>1, <1>3, AllNaturals
<1>5. Up(N)
  BY <1>4
<1> QED BY <1>5 DEF Up

LEMMA StepsExist ==
  ASSUME NEW N \in Nat, NEW S, NEW c \in S, NEW g, StepsIn(g, N, S)
  PROVE  \E f \in [0..N -> S] :
           f[0] = c /\ \A k \in 1..N : f[k] = g[<<k, f[k - 1]>>]
<1> DEFINE fa == [k \in 1..N |-> k - 1]
<1>1. StepsBack(fa, N) /\ \A k \in 1..N : fa[k] = k - 1
  BY DEF StepsBack
<1> HIDE DEF fa
<1>2. PICK f : Follows(f, N, S, c, fa, g)
  BY <1>1, RecursionExists
<1>3. \A k \in 1..N : f[k] = g[<<k, f[k - 1]>>]
  BY <1>1, <1>2 DEF Follows
<1> QED BY <1>2, <1>3 DEF Follows

-----------------------------------------------------------------------------
(* Powers of two.                                                          *)

(* 2^n, as the number of subsets of 1..n. *)
LEMMA PowNat ==
  ASSUME NEW n \in Nat
  PROVE  /\ 2^n \in Nat \ {0}
         /\ IsFiniteSet(1..n) /\ Cardinality(SUBSET (1..n)) = 2^n
         /\ IsFiniteSet(SUBSET (1..n))
<1>1. IsFiniteSet(1..n) /\ Cardinality(1..n) = n
  BY FS_Interval
<1>2. IsFiniteSet(SUBSET (1..n)) /\ Cardinality(SUBSET (1..n)) = 2^n
  BY <1>1, FS_SUBSET, Zenon
<1>3. 2^n \in Nat
  BY <1>2, FS_CardinalityType
<1>4. 2^n # 0
  BY <1>2, FS_EmptySet
<1> QED
  BY <1>1, <1>2, <1>3, <1>4

LEMMA PowDouble ==
  ASSUME NEW n \in Nat
  PROVE  2^(n + 1) = 2 * 2^n
<1> DEFINE S == SUBSET (1..n)
           T == {A \in SUBSET (1..(n + 1)) : n + 1 \in A}
<1>1. IsFiniteSet(S) /\ Cardinality(S) = 2^n /\ 2^n \in Nat
  BY PowNat
<1>2. IsFiniteSet(T) /\ Cardinality(T) = Cardinality(S)
  <2> DEFINE f == [A \in S |-> A \cup {n + 1}]
  <2>1. f \in [S -> T]
    OBVIOUS
  <2>2. \A A, B \in S : f[A] = f[B] => A = B
    OBVIOUS
  <2>3. ASSUME NEW B \in T PROVE \E A \in S : f[A] = B
    <3>1. B \ {n + 1} \in S
      OBVIOUS
    <3>2. f[B \ {n + 1}] = B
      BY <3>1
    <3> QED BY <3>1, <3>2
  <2>4. f \in Bijection(S, T)
    BY <2>1, <2>2, <2>3 DEF Bijection, Injection, Surjection, IsInjective
  <2> HIDE DEF f, S, T
  <2> QED BY <2>4, <1>1, FS_Bijection DEF ExistsBijection
<1>3. S \cup T = SUBSET (1..(n + 1)) /\ S \cap T = {}
  OBVIOUS
<1>4. Cardinality(SUBSET (1..(n + 1))) = 2^(n + 1)
  BY PowNat
<1> HIDE DEF S, T
<1>5. Cardinality(S \cap T) = 0
  <2>1. Cardinality({}) = 0
    BY FS_EmptySet
  <2> QED BY <1>3, <2>1, Zenon
<1>6. Cardinality(S \cup T) = Cardinality(S) + Cardinality(T) - Cardinality(S \cap T)
  BY <1>1, <1>2, FS_Union, Zenon
<1>7. Cardinality(S \cup T) = 2^(n + 1)
  BY <1>3, <1>4, Zenon
<1>8. 2^(n + 1) = Cardinality(S) + Cardinality(T) - 0
  BY <1>5, <1>6, <1>7, Zenon
<1>9. Cardinality(T) = 2^n /\ Cardinality(S) = 2^n /\ 2^n \in Nat
  BY <1>1, <1>2, Zenon
<1> DEFINE m == 2^n
<1>10. 2^(n + 1) = m + m - 0 /\ m \in Nat
  BY <1>8, <1>9, Zenon
<1> HIDE DEF m
<1>11. m + m - 0 = 2 * m
  BY <1>10
<1> QED
  BY <1>10, <1>11, Zenon DEF m

(* A set of n elements has no more subsets than a set of m >= n. *)
LEMMA PowMono ==
  ASSUME NEW n \in Nat, NEW m \in Nat, n <= m
  PROVE  2^n <= 2^m
<1>1. SUBSET (1..n) \in SUBSET (SUBSET (1..m))
  OBVIOUS
<1>2. Cardinality(SUBSET (1..n)) <= Cardinality(SUBSET (1..m))
  BY <1>1, PowNat, FS_Subset
<1> QED
  BY <1>2, PowNat

(* Half of a number below 2^n. *)
LEMMA PowHalf ==
  ASSUME NEW n \in Nat \ {0}, NEW a \in Nat, a < 2^n
  PROVE  a \div 2 < 2^(n - 1)
<1> DEFINE m == 2^(n - 1)
<1>1. n - 1 \in Nat /\ n - 1 + 1 = n
  OBVIOUS
<1>2. 2^n = 2 * m /\ m \in Nat
  BY <1>1, PowDouble, PowNat
<1>3. a < 2 * m
  BY <1>2
<1> HIDE DEF m
<1>4. a \div 2 < m
  BY <1>2, <1>3
<1> QED
  BY <1>4 DEF m

LEMMA PowSmall == 2^0 = 1 /\ 2^1 = 2
<1>1. 0 \in Nat /\ 2^0 = Cardinality(SUBSET (1..0))
  BY PowNat
<1>2. SUBSET (1..0) = {{}}
  OBVIOUS
<1>3. 2^0 = 1
  BY <1>1, <1>2, FS_Singleton
<1>4. 2^(0 + 1) = 2 * 2^0
  BY PowDouble
<1> QED
  BY <1>3, <1>4
-----------------------------------------------------------------------------
(* Quotient and remainder.                                                 *)

LEMMA DivMod ==
  ASSUME NEW m \in Nat, NEW n \in Nat \ {0}
  PROVE  m \div n \in Nat /\ m % n \in 0..(n - 1) /\ m = n * (m \div n) + (m % n)
OBVIOUS

LEMMA DivModOf ==
  ASSUME NEW n \in Nat \ {0}, NEW k \in Nat, NEW q \in 0..(n - 1)
  PROVE  (n * k + q) \div n = k /\ (n * k + q) % n = q
<1> DEFINE m == n * k + q
           d == m \div n
           e == m % n
<1>1. n * k \in Nat /\ m \in Nat
  OBVIOUS
<1>2. d \in Nat /\ e \in 0..(n - 1) /\ m = n * d + e
  BY <1>1, DivMod
<1> HIDE DEF d, e
<1>3. n * k + q = n * d + e
  BY <1>2
<1>4. CASE d < k
  <2>1. n * (d + 1) <= n * k
    BY <1>2, <1>4
  <2>2. n * (d + 1) = n * d + n
    BY <1>2
  <2> QED BY <1>1, <1>2, <1>3, <2>1, <2>2
<1>5. CASE k < d
  <2>1. n * (k + 1) <= n * d
    BY <1>2, <1>5
  <2>2. n * (k + 1) = n * k + n
    OBVIOUS
  <2> QED BY <1>1, <1>2, <1>3, <2>1, <2>2
<1>6. CASE d = k
  BY <1>1, <1>2, <1>3, <1>6 DEF d, e
<1> QED BY <1>2, <1>4, <1>5, <1>6

LEMMA ModPlus ==
  ASSUME NEW n \in Nat \ {0}, NEW a \in Nat, NEW b \in Nat
  PROVE  ((a % n) + b) % n = (a + b) % n
<1> DEFINE k == a \div n
           q == a % n
           d == (q + b) \div n
           e == (q + b) % n
<1>1. k \in Nat /\ q \in 0..(n - 1) /\ a = n * k + q
  BY DivMod
<1>2. d \in Nat /\ e \in 0..(n - 1) /\ q + b = n * d + e
  <2>1. q + b \in Nat
    BY <1>1
  <2> QED BY <2>1, DivMod
<1> HIDE DEF k, q, d, e
<1>3. a + b = n * (k + d) + e
  BY <1>1, <1>2
<1>4. (n * (k + d) + e) % n = e
  <2>1. k + d \in Nat
    BY <1>1, <1>2
  <2> QED BY <1>2, <2>1, DivModOf
<1>5. (a + b) % n = (q + b) % n
  BY <1>3, <1>4 DEF e
<1> QED BY <1>5 DEF q

(* Dividing twice. *)
LEMMA DivTwice ==
  ASSUME NEW y \in Nat, NEW a \in Nat \ {0}, NEW b \in Nat \ {0}
  PROVE  (y \div a) \div b = y \div (a * b)
<1> DEFINE q == y \div a
           r == y % a
           s == q \div b
           t == q % b
           u == a * t + r
<1>1. q \in Nat /\ r \in 0..(a - 1) /\ y = a * q + r
  BY DivMod
<1>2. s \in Nat /\ t \in 0..(b - 1) /\ q = b * s + t
  BY <1>1, DivMod
<1> HIDE DEF q, r, s, t
<1>3. a * t \in Nat /\ a * t <= a * (b - 1)
  BY <1>2
<1>4. a * (b - 1) = a * b - a /\ a * b \in Nat
  OBVIOUS
<1>5. u \in 0..(a * b - 1) /\ a * b \in Nat \ {0}
  BY <1>1, <1>3, <1>4
<1>6. a * q = a * (b * s) + a * t
  BY <1>2
<1>7. a * (b * s) = (a * b) * s
  BY <1>2
<1>8. y = (a * b) * s + u
  BY <1>1, <1>2, <1>4, <1>6, <1>7
<1> DEFINE n == a * b
<1> HIDE DEF u, n
<1>9. n \in Nat \ {0} /\ u \in 0..(n - 1) /\ y = n * s + u
  BY <1>5, <1>8 DEF n
<1>10. (n * s + u) \div n = s
  BY <1>2, <1>9, DivModOf
<1> QED BY <1>9, <1>10 DEF n, s, q

LEMMA DivPow ==
  ASSUME NEW y \in Nat, NEW m \in Nat
  PROVE  /\ y \div 2^m \in Nat /\ y \div 2^(m + 1) \in Nat
         /\ y \div 2^(m + 1) = (y \div 2^m) \div 2
         /\ y \div 2^m = 2 * (y \div 2^(m + 1)) + ((y \div 2^m) % 2)
<1> DEFINE a == 2^m
           c == 2^(m + 1)
           d == y \div a
           e == y \div c
<1>1. a \in Nat \ {0} /\ c = a * 2
  <2>1. c = 2 * a /\ a \in Nat \ {0}
    BY PowNat, PowDouble
  <2> HIDE DEF a, c
  <2> QED BY <2>1
<1> HIDE DEF a, c
<1>2. d \in Nat /\ d \div 2 = y \div (a * 2)
  BY <1>1, DivTwice
<1>3. e = d \div 2
  BY <1>1, <1>2
<1> HIDE DEF d, e
<1>4. d = 2 * (d \div 2) + (d % 2) /\ d \div 2 \in Nat
  BY <1>2
<1>5. d \in Nat /\ e \in Nat /\ e = d \div 2 /\ d = 2 * e + (d % 2)
  BY <1>2, <1>3, <1>4
<1> QED
  BY <1>5 DEF a, c, d, e
=============================================================================
