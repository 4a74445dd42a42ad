---------------------------- MODULE PathProofs ----------------------------
(***************************************************************************)
(* Theorems about paths and numbers, for every width of a word:            *)
(*  - CPath64.tla: nodes as numbers and as paths, addresses, random leaves;*)
(*  - IntPath.tla (Ints!): paths as ints, of common.cpp.                   *)
(*                                                                         *)
(* What a recursive function computes is proved by induction: a set of     *)
(* naturals with 0 and the successors of its members has all of them       *)
(* (AllNaturals), and the function exists because the one that goes up to  *)
(* n can be continued (RecursionExists, StepsExist).                       *)
(***************************************************************************)
EXTENDS MCPaths, NaturalLemmas
-----------------------------------------------------------------------------
(* Paths of bits. *)
Bits01 == {0, 1}
BitPath == Seq(Bits01)

LEMMA FatherFacts ==
  ASSUME NEW n \in Numbers \ {0}
  PROVE  /\ Father(n) \in Numbers /\ Father(n) < n
         /\ n = 2 * Father(n) + 2 - (n % 2)
         /\ (n + 1) % 2 = 1 - (n % 2) /\ n % 2 \in Bits01
<1>1. 2^Width \in Nat \ {0}
  BY WidthAssumption, PowNat
<1> DEFINE T == 2^Width
<1>2. T \in Nat \ {0} /\ n \in 1..(T - 1)
  BY <1>1 DEF Numbers
<1> HIDE DEF T
<1>3. (n - 1) % T = n - 1
  <2>1. n - 1 \in 0..(T - 1) /\ 0 \in Nat /\ T * 0 + (n - 1) = n - 1
    BY <1>2
  <2> QED BY <1>2, <2>1, DivModOf
<1>4. Father(n) = (n - 1) \div 2
  BY <1>3 DEF Father, Wrap, T
<1> DEFINE f == (n - 1) \div 2
<1>5. f \in Nat /\ f < n /\ f \in 0..(T - 1) /\ n = 2 * f + 2 - (n % 2)
      /\ (n + 1) % 2 = 1 - (n % 2) /\ n % 2 \in {0, 1}
  BY <1>2
<1> QED
  BY <1>4, <1>5 DEF Numbers, T, Bits01

LEMMA ChildFacts ==
  ASSUME NEW n \in Nat, NEW b \in Bits01, 2 * n + 2 < 2^Width
  PROVE  /\ n \in Numbers /\ Wrap(2 * n + b + 1) = 2 * n + b + 1
         /\ 2 * n + b + 1 \in Numbers \ {0}
         /\ Father(2 * n + b + 1) = n /\ (2 * n + b + 2) % 2 = b
         /\ LeftChild(n) = 2 * n + 1 /\ RightChild(n) = 2 * n + 2
<1>1. 2^Width \in Nat \ {0}
  BY WidthAssumption, PowNat
<1> DEFINE T == 2^Width
           c == 2 * n + b + 1
<1>2. T \in Nat \ {0} /\ 2 * n + 2 < T
  BY <1>1
<1> HIDE DEF T
<1>3. \A m \in 0..(T - 1) : m % T = m
  <2> SUFFICES ASSUME NEW m \in 0..(T - 1) PROVE m % T = m
    OBVIOUS
  <2>1. 0 \in Nat /\ T * 0 + m = m
    BY <1>2
  <2> QED BY <1>2, <2>1, DivModOf
<1>4. n \in 0..(T - 1) /\ c \in 0..(T - 1) /\ c # 0
      /\ 2 * n + 1 \in 0..(T - 1) /\ 2 * n + 2 \in 0..(T - 1)
  BY <1>2 DEF Bits01
<1>5. (c - 1) \div 2 = n /\ c - 1 \in 0..(T - 1) /\ (2 * n + b + 2) % 2 = b
  <2>1. CASE b = 0
    BY <1>2, <1>4, <2>1
  <2>2. CASE b = 1
    BY <1>2, <1>4, <2>2
  <2> QED BY <2>1, <2>2 DEF Bits01
<1>6. Father(c) = n
  BY <1>3, <1>5 DEF Father, Wrap, T
<1>7. Wrap(c) = c /\ Wrap(2 * n + 1) = 2 * n + 1 /\ Wrap(2 * n + 2) = 2 * n + 2
  BY <1>3, <1>4 DEF Wrap, T
<1>8. Numbers = 0..(T - 1)
  BY DEF Numbers, T
<1>9. n \in Numbers /\ c \in Numbers \ {0}
  BY <1>4, <1>8
<1>10. LeftChild(n) = 2 * n + 1 /\ RightChild(n) = 2 * n + 2
  BY <1>7 DEF LeftChild, RightChild
<1>11. (2 * n + b + 2) % 2 = b
  BY <1>5
<1> HIDE DEF c
<1>12. n \in Numbers /\ Wrap(c) = c /\ c \in Numbers \ {0} /\ Father(c) = n
  BY <1>6, <1>7, <1>9
<1> QED
  BY <1>10, <1>11, <1>12 DEF c

(* NumberToPath is what its recursion says: the father's path and one bit. *)
LEMMA NumberToPathIs ==
  /\ NumberToPath(0) = <<>>
  /\ \A n \in Numbers : NumberToPath(n) \in BitPath
  /\ \A n \in Numbers \ {0} :
       NumberToPath(n) = Append(NumberToPath(Father(n)), (n + 1) % 2)
<1> DEFINE path == CHOOSE path : path = [k \in Numbers |->
                      IF k = 0 THEN <<>> ELSE Append(path[Father(k)], (k + 1) % 2)]
           N == 2^Width - 1
           fa == [k \in 1..N |-> Father(k)]
           g == [e \in (1..N) \X BitPath |-> Append(e[2], (e[1] + 1) % 2)]
<1>1. \A n : NumberToPath(n) = path[n]
  BY DEF NumberToPath
<1>2. N \in Nat /\ Numbers = 0..N /\ Numbers \ {0} = 1..N /\ 0 \in Numbers
  <2>1. 2^Width \in Nat \ {0}
    BY WidthAssumption, PowNat
  <2> DEFINE T == 2^Width
  <2> HIDE DEF T
  <2>2. N = T - 1 /\ Numbers = 0..(T - 1) /\ T \in Nat \ {0}
    BY <2>1 DEF T, Numbers
  <2> HIDE DEF N
  <2> QED BY <2>2
<1> HIDE DEF N
<1>3. <<>> \in BitPath
  BY DEF BitPath
<1>4. \A k \in 1..N : Father(k) \in 0..N /\ Father(k) < k /\ (k + 1) % 2 \in Bits01
  BY <1>2, FatherFacts DEF Bits01
<1>5. StepsBack(fa, N)
  BY <1>4 DEF StepsBack
<1>6. StepsIn(g, N, BitPath)
  <2>1. \A k \in 1..N : \A s \in BitPath : Append(s, (k + 1) % 2) \in BitPath
    BY <1>4 DEF BitPath
  <2>2. \A k \in 1..N : \A s \in BitPath : g[<<k, s>>] = Append(s, (k + 1) % 2)
    OBVIOUS
  <2> QED BY <2>1, <2>2 DEF StepsIn
<1>8. PICK f : Follows(f, N, BitPath, <<>>, fa, g)
  <2> HIDE DEF g, fa
  <2> QED BY <1>2, <1>3, <1>5, <1>6, RecursionExists
<1>9. \A k \in 1..N : f[k] = Append(f[Father(k)], (k + 1) % 2)
  BY <1>4, <1>8 DEF Follows
<1>10. f = [k \in Numbers |->
              IF k = 0 THEN <<>> ELSE Append(f[Father(k)], (k + 1) % 2)]
  BY <1>2, <1>8, <1>9 DEF Follows
<1>11. path = [k \in Numbers |->
              IF k = 0 THEN <<>> ELSE Append(path[Father(k)], (k + 1) % 2)]
  BY <1>10
<1> HIDE DEF path
<1>12. path[0] = <<>> /\ \A k \in Numbers \ {0} : path[k] = Append(path[Father(k)], (k + 1) % 2)
  BY <1>2, <1>11
<1>13. \A k \in Numbers : path[k] \in BitPath
  <2> DEFINE G == {n \in Nat : \A k \in Numbers : k <= n => path[k] \in BitPath}
  <2>1. 0 \in G
    BY <1>2, <1>3, <1>12
  <2>2. ASSUME NEW n \in G PROVE n + 1 \in G
    <3> SUFFICES ASSUME NEW k \in Numbers, k <= n + 1, k # 0 PROVE path[k] \in BitPath
      BY <1>3, <1>12
    <3>1. Father(k) \in Numbers /\ Father(k) < k /\ (k + 1) % 2 \in Bits01
      BY FatherFacts DEF Bits01
    <3>2. Father(k) <= n
      BY <1>2, <3>1
    <3>3. path[Father(k)] \in BitPath
      BY <3>1, <3>2
    <3>4. Append(path[Father(k)], (k + 1) % 2) \in BitPath
      <4> DEFINE q == path[Father(k)]
                 d == (k + 1) % 2
      <4> HIDE DEF q, d
      <4>1. q \in BitPath /\ d \in Bits01
        BY <3>1, <3>3 DEF q, d
      <4>2. Append(q, d) \in BitPath
        BY <4>1 DEF BitPath
      <4> QED BY <4>2 DEF q, d
    <3> QED BY <1>12, <3>4
  <2>3. G = Nat
    BY <2>1, <2>2, AllNaturals
  <2>4. ASSUME NEW k \in Numbers PROVE path[k] \in BitPath
    <3>1. k \in Nat /\ k <= k
      BY <1>2
    <3>2. k \in G
      BY <2>3, <3>1
    <3> QED BY <3>1, <3>2
  <2> QED BY <2>4
<1> QED
  BY <1>1, <1>12, <1>13

(* A path's number and its value as a binary number, bit by bit.           *)
LEMMA PathToNumberIs ==
  ASSUME NEW p \in BitPath
  PROVE  \E f \in [0..Len(p) -> Numbers] :
           /\ f[0] = 0 /\ PathToNumber(p) = f[Len(p)]
           /\ \A k \in 1..Len(p) :
                f[k] = IF p[k] = 0 THEN LeftChild(f[k - 1]) ELSE RightChild(f[k - 1])
<1> DEFINE number == CHOOSE number : number = [k \in 0..Len(p) |->
                       IF k = 0 THEN 0
                       ELSE IF p[k] = 0 THEN LeftChild(number[k - 1])
                       ELSE RightChild(number[k - 1])]
           N == Len(p)
           g == [e \in (1..N) \X Numbers |->
                   IF p[e[1]] = 0 THEN LeftChild(e[2]) ELSE RightChild(e[2])]
<1>1. PathToNumber(p) = number[N]
  BY DEF PathToNumber
<1>2. N \in Nat
  BY DEF BitPath
<1>3. 0 \in Numbers /\ \A n \in Numbers : LeftChild(n) \in Numbers /\ RightChild(n) \in Numbers
  <2>1. 2^Width \in Nat \ {0}
    BY WidthAssumption, PowNat
  <2> DEFINE T == 2^Width
  <2> HIDE DEF T
  <2>2. T \in Nat \ {0} /\ Numbers = 0..(T - 1)
    BY <2>1 DEF T, Numbers
  <2>3. \A m \in Nat : Wrap(m) \in 0..(T - 1)
    BY <2>2 DEF Wrap, T
  <2> QED BY <2>2, <2>3 DEF LeftChild, RightChild
<1>4. StepsIn(g, N, Numbers)
  BY <1>3 DEF StepsIn
<1>5. PICK f \in [0..N -> Numbers] :
        f[0] = 0 /\ \A k \in 1..N : f[k] = g[<<k, f[k - 1]>>]
  <2> HIDE DEF g
  <2> QED BY <1>2, <1>3, <1>4, StepsExist
<1>6. \A k \in 1..N : f[k] = IF p[k] = 0 THEN LeftChild(f[k - 1]) ELSE RightChild(f[k - 1])
  <2> SUFFICES ASSUME NEW k \in 1..N
               PROVE  f[k] = IF p[k] = 0 THEN LeftChild(f[k - 1]) ELSE RightChild(f[k - 1])
    OBVIOUS
  <2>1. <<k, f[k - 1]>> \in (1..N) \X Numbers
    BY <1>2, <1>5
  <2> QED BY <1>5, <2>1
<1>7. f = [k \in 0..N |-> IF k = 0 THEN 0
                          ELSE IF p[k] = 0 THEN LeftChild(f[k - 1])
                          ELSE RightChild(f[k - 1])]
  <2>1. \A k \in 0..N : k = 0 \/ k \in 1..N
    BY <1>2
  <2> QED BY <1>5, <1>6, <2>1
<1>8. number = [k \in 0..N |-> IF k = 0 THEN 0
                          ELSE IF p[k] = 0 THEN LeftChild(number[k - 1])
                          ELSE RightChild(number[k - 1])]
  BY <1>7
<1> HIDE DEF number
<1>9. ASSUME NEW k \in 1..N
      PROVE  number[k] = IF p[k] = 0 THEN LeftChild(number[k - 1])
                         ELSE RightChild(number[k - 1])
  <2>1. k \in 0..N /\ k # 0
    BY <1>2
  <2> QED BY <1>8, <2>1
<1>10. number[0] = 0
  BY <1>2, <1>8
<1>11. \A k \in 0..N : number[k] \in Numbers
  <2> DEFINE G == {n \in Nat : n <= N => number[n] \in Numbers}
  <2>1. 0 \in G
    BY <1>3, <1>10
  <2>2. ASSUME NEW n \in G PROVE n + 1 \in G
    <3> SUFFICES ASSUME n + 1 <= N PROVE number[n + 1] \in Numbers
      OBVIOUS
    <3>1. n + 1 \in 1..N /\ number[n] \in Numbers /\ n + 1 - 1 = n
      BY <1>2
    <3> QED BY <1>3, <1>9, <3>1
  <2>3. G = Nat
    BY <2>1, <2>2, AllNaturals
  <2> QED BY <2>3
<1>12. number \in [0..N -> Numbers]
  BY <1>8, <1>11
<1> QED
  BY <1>1, <1>9, <1>10, <1>12

(* The number of a node tells its level: 2^k - 1 to 2^(k + 1) - 2.         *)
LEMMA NumberOfLevel ==
  ASSUME NEW n \in Numbers, NEW k, k = Len(NumberToPath(n))
  PROVE  k \in Nat /\ 2^k \in Nat \ {0} /\ 2^k - 1 <= n /\ n <= 2 * 2^k - 2
<1> DEFINE Lv(m) == LET j == Len(NumberToPath(m)) IN 2^j - 1 <= m /\ m <= 2 * 2^j - 2
           G == {b \in Nat : \A m \in Numbers : m <= b => Lv(m)}
<1>0. \A m \in Numbers : m \in Nat /\ NumberToPath(m) \in BitPath
                         /\ Len(NumberToPath(m)) \in Nat
  BY NumberToPathIs, PowNat, WidthAssumption DEF Numbers, BitPath
<1>9. Lv(0)
  <2>1. Len(NumberToPath(0)) = 0
    BY NumberToPathIs
  <2> DEFINE j == Len(NumberToPath(0))
  <2>2. j = 0 /\ 2^j = 1
    BY <2>1, PowSmall
  <2> QED BY <2>2
<1>1. 0 \in G
  <2> HIDE DEF Lv
  <2>2. \A m \in Numbers : m <= 0 => m = 0
    BY <1>0
  <2> QED BY <1>9, <2>2
<1>2. ASSUME NEW b \in G PROVE b + 1 \in G
  <2> SUFFICES ASSUME NEW m \in Numbers, m <= b + 1, m # 0 PROVE Lv(m)
    <3>1. b + 1 \in Nat
      OBVIOUS
    <3> HIDE DEF Lv
    <3> QED BY <1>9, <3>1
  <2> DEFINE f == Father(m)
             j == Len(NumberToPath(f))
             e == 2^j
  <2>1. f \in Numbers /\ f < m /\ m = 2 * f + 2 - (m % 2) /\ m % 2 \in {0, 1}
        /\ (m + 1) % 2 \in {0, 1}
    BY FatherFacts DEF Bits01
  <2>2. f <= b /\ f \in Nat /\ m \in Nat
    BY <1>0, <2>1
  <2>3. Lv(f)
    BY <2>1, <2>2
  <2>4. Len(NumberToPath(m)) = j + 1 /\ j \in Nat
    <3>1. NumberToPath(f) \in BitPath
      BY <1>0, <2>1
    <3>2. NumberToPath(m) = Append(NumberToPath(f), (m + 1) % 2)
      BY NumberToPathIs
    <3> HIDE DEF f
    <3> QED BY <3>1, <3>2 DEF BitPath
  <2>5. e \in Nat \ {0} /\ 2^(j + 1) = 2 * e
    BY <2>4, PowNat, PowDouble
  <2>6. e - 1 <= f /\ f <= 2 * e - 2
    BY <2>3
  <2> HIDE DEF e, f
  <2>7. 2 * e - 1 <= m /\ m <= 2 * (2 * e) - 2
    BY <2>1, <2>2, <2>5, <2>6
  <2> QED BY <2>4, <2>5, <2>7
<1> HIDE DEF Lv
<1>3. G = Nat
  BY <1>1, <1>2, AllNaturals
<1>4. Lv(n)
  <2>1. n \in Nat /\ n <= n
    BY <1>0
  <2>2. n \in G
    BY <1>3, <2>1
  <2> QED BY <2>1, <2>2
<1>5. k \in Nat /\ 2^k \in Nat \ {0}
  BY <1>0, PowNat
<1> QED
  BY <1>4, <1>5 DEF Lv

LEMMA PowOrder ==
  ASSUME NEW m \in Nat, NEW n \in Nat, 2^m < 2^n
  PROVE  m < n
<1>1. n <= m => 2^n <= 2^m
  BY PowMono
<1>2. 2^m \in Nat /\ 2^n \in Nat
  BY PowNat
<1> DEFINE a == 2^m
           b == 2^n
<1>3. a \in Nat /\ b \in Nat /\ a < b /\ (n <= m => b <= a)
  BY <1>1, <1>2
<1> HIDE DEF a, b
<1> QED
  BY <1>3

(* Every node number but the last has a path of fewer than Width bits.     *)
LEMMA LevelFits ==
  ASSUME NEW n \in 0..(2^Width - 2)
  PROVE  n \in Numbers /\ n \in Nat /\ NumberToPath(n) \in BitPath
         /\ Len(NumberToPath(n)) \in 0..(Width - 1)
<1>1. 2^Width \in Nat \ {0} /\ Width \in Nat
  BY WidthAssumption, PowNat
<1> DEFINE T == 2^Width
           k == Len(NumberToPath(n))
           e == 2^k
<1>2. n \in Numbers /\ n \in Nat
  BY <1>1 DEF Numbers
<1>3. NumberToPath(n) \in BitPath
  BY <1>2, NumberToPathIs
<1>4. k \in Nat /\ e \in Nat \ {0} /\ e - 1 <= n /\ n <= T - 2 /\ T \in Nat
  BY <1>1, <1>2, NumberOfLevel
<1> HIDE DEF T, e, k
<1>5. e < T
  BY <1>2, <1>4
<1>6. k < Width
  BY <1>1, <1>4, <1>5, PowOrder DEF e, T
<1>7. k \in 0..(Width - 1)
  BY <1>1, <1>4, <1>6
<1> QED
  BY <1>2, <1>3, <1>7 DEF k

(* Nodes with the same path are the same.                                  *)
LEMMA PathInjective ==
  ASSUME NEW n \in Numbers, NEW m \in Numbers, NumberToPath(n) = NumberToPath(m)
  PROVE  n = m
<1> DEFINE Inj(k) == \A i, j \in Numbers :
                       i <= k /\ NumberToPath(i) = NumberToPath(j) => i = j
           G == {k \in Nat : Inj(k)}
<1>0. \A i \in Numbers : i \in Nat /\ NumberToPath(i) \in BitPath
  BY NumberToPathIs, PowNat, WidthAssumption DEF Numbers
<1>1. ASSUME NEW i \in Numbers \ {0}
      PROVE  /\ Father(i) \in Numbers /\ (i + 1) % 2 = 1 - (i % 2)
             /\ NumberToPath(i) # <<>>
             /\ Len(NumberToPath(i)) = Len(NumberToPath(Father(i))) + 1
             /\ Front(NumberToPath(i)) = NumberToPath(Father(i))
             /\ Last(NumberToPath(i)) = (i + 1) % 2
  <2> DEFINE q == NumberToPath(Father(i))
             d == (i + 1) % 2
  <2>1. Father(i) \in Numbers /\ d = 1 - (i % 2) /\ d \in Bits01
    BY FatherFacts DEF Bits01
  <2>2. q \in BitPath /\ NumberToPath(i) = Append(q, d)
    BY <1>0, <2>1, NumberToPathIs
  <2> HIDE DEF q, d
  <2>3. Append(q, d) # <<>> /\ Len(Append(q, d)) = Len(q) + 1
        /\ Last(Append(q, d)) = d
    BY <2>1, <2>2 DEF BitPath, Last
  <2>4. Front(Append(q, d)) = q
    BY <2>1, <2>2 DEF BitPath, Front
  <2> QED BY <2>1, <2>2, <2>3, <2>4 DEF q, d
<1>2. 0 \in G
  <2>1. ASSUME NEW i \in Numbers, NEW j \in Numbers, i <= 0,
               NumberToPath(i) = NumberToPath(j)
        PROVE  i = j
    <3>1. i = 0
      BY <1>0, <2>1
    <3>2. NumberToPath(j) = <<>>
      BY <2>1, <3>1, NumberToPathIs
    <3> QED BY <1>1, <3>1, <3>2
  <2> QED BY <2>1
<1>3. ASSUME NEW k \in G PROVE k + 1 \in G
  <2> SUFFICES ASSUME NEW i \in Numbers, NEW j \in Numbers, i <= k + 1,
                      NumberToPath(i) = NumberToPath(j)
               PROVE  i = j
    OBVIOUS
  <2>1. CASE i = 0
    <3>1. NumberToPath(j) = <<>>
      BY <2>1, NumberToPathIs
    <3> QED BY <1>1, <2>1, <3>1
  <2>2. CASE i # 0
    <3>1. j # 0
      BY <1>1, <2>2, NumberToPathIs
    <3>2. NumberToPath(Father(i)) = NumberToPath(Father(j))
          /\ (i + 1) % 2 = (j + 1) % 2
      BY <1>1, <2>2, <3>1
    <3>3. Father(i) \in Numbers /\ Father(i) < i /\ Father(j) \in Numbers
          /\ i = 2 * Father(i) + 2 - (i % 2) /\ (i + 1) % 2 = 1 - (i % 2)
          /\ j = 2 * Father(j) + 2 - (j % 2) /\ (j + 1) % 2 = 1 - (j % 2)
          /\ i % 2 \in {0, 1} /\ j % 2 \in {0, 1}
      BY <2>2, <3>1, FatherFacts DEF Bits01
    <3>4. Father(i) <= k
      BY <1>0, <3>3
    <3>5. Father(i) = Father(j)
      BY <3>2, <3>3, <3>4
    <3>6. i % 2 = j % 2
      BY <3>2, <3>3
    <3> QED BY <3>3, <3>5, <3>6
  <2> QED BY <2>1, <2>2
<1> HIDE DEF Inj
<1>4. G = Nat
  BY <1>2, <1>3, AllNaturals
<1>5. Inj(n)
  BY <1>0, <1>4
<1> QED
  BY <1>0, <1>5 DEF Inj

LEMMA BinaryIs ==
  ASSUME NEW p \in BitPath
  PROVE  \E f \in [0..Len(p) -> Nat] :
           /\ f[0] = 0 /\ Binary(p) = f[Len(p)]
           /\ \A k \in 1..Len(p) : f[k] = 2 * f[k - 1] + p[k]
<1> DEFINE binary == CHOOSE binary : binary = [k \in 0..Len(p) |->
                       IF k = 0 THEN 0 ELSE 2 * binary[k - 1] + p[k]]
           N == Len(p)
           g == [e \in (1..N) \X Nat |-> 2 * e[2] + p[e[1]]]
<1>1. Binary(p) = binary[N]
  BY DEF Binary
<1>2. N \in Nat /\ \A k \in 1..N : p[k] \in Nat
  BY DEF BitPath, Bits01
<1>3. StepsIn(g, N, Nat)
  BY <1>2 DEF StepsIn
<1>4. PICK f \in [0..N -> Nat] :
        f[0] = 0 /\ \A k \in 1..N : f[k] = g[<<k, f[k - 1]>>]
  <2> DEFINE S == Nat
  <2>0. N \in Nat
    BY <1>2
  <2>1. StepsIn(g, N, S)
    <3> HIDE DEF g
    <3> QED BY <1>3
  <2>3. 0 \in S
    OBVIOUS
  <2> HIDE DEF g, S, N
  <2>2. \E f \in [0..N -> S] : f[0] = 0 /\ \A k \in 1..N : f[k] = g[<<k, f[k - 1]>>]
    BY <2>0, <2>1, <2>3, StepsExist
  <2> QED BY <2>2 DEF S
<1>5. ASSUME NEW k \in 1..N PROVE f[k] = 2 * f[k - 1] + p[k]
  <2>1. <<k, f[k - 1]>> \in (1..N) \X Nat
    BY <1>2, <1>4
  <2> QED BY <1>4, <2>1
<1>6. f = [k \in 0..N |-> IF k = 0 THEN 0 ELSE 2 * f[k - 1] + p[k]]
  <2>1. \A k \in 0..N : k = 0 \/ k \in 1..N
    BY <1>2
  <2> QED BY <1>4, <1>5, <2>1
<1>7. binary = [k \in 0..N |-> IF k = 0 THEN 0 ELSE 2 * binary[k - 1] + p[k]]
  BY <1>6
<1> HIDE DEF binary
<1>8. ASSUME NEW k \in 1..N PROVE binary[k] = 2 * binary[k - 1] + p[k]
  <2>1. k \in 0..N /\ k # 0
    BY <1>2
  <2> QED BY <1>7, <2>1
<1>9. binary[0] = 0
  BY <1>2, <1>7
<1>10. \A k \in 0..N : binary[k] \in Nat
  <2> DEFINE G == {n \in Nat : n <= N => binary[n] \in Nat}
  <2>1. 0 \in G
    BY <1>9
  <2>2. ASSUME NEW n \in G PROVE n + 1 \in G
    <3> SUFFICES ASSUME n + 1 <= N PROVE binary[n + 1] \in Nat
      OBVIOUS
    <3>1. n + 1 \in 1..N /\ binary[n] \in Nat /\ n + 1 - 1 = n /\ p[n + 1] \in Nat
      BY <1>2
    <3> QED BY <1>8, <3>1
  <2>3. G = Nat
    BY <2>1, <2>2, AllNaturals
  <2> QED BY <2>3
<1>11. binary \in [0..N -> Nat]
  BY <1>7, <1>10
<1> QED
  BY <1>1, <1>8, <1>9, <1>11

(* A path of fewer than Width bits has the number 2^Len - 1 plus the path  *)
(* read in binary, and that number's path is the path.                     *)
LEMMA NumberOfPath ==
  ASSUME NEW p \in BitPath, Len(p) < Width
  PROVE  LET e == 2^Len(p)
         IN /\ e \in Nat \ {0}
            /\ Binary(p) \in 0..(e - 1)
            /\ PathToNumber(p) = e - 1 + Binary(p)
            /\ PathToNumber(p) \in 0..(2^Width - 2)
            /\ NumberToPath(PathToNumber(p)) = p
<1> DEFINE N == Len(p)
           T == 2^Width
<1>1. N \in Nat /\ Width \in Nat /\ \A k \in 1..N : p[k] \in Bits01
  BY WidthAssumption DEF BitPath
<1>2. PICK f \in [0..N -> Numbers] :
        /\ f[0] = 0 /\ PathToNumber(p) = f[N]
        /\ \A k \in 1..N :
             f[k] = IF p[k] = 0 THEN LeftChild(f[k - 1]) ELSE RightChild(f[k - 1])
  BY PathToNumberIs
<1>3. PICK b \in [0..N -> Nat] :
        /\ b[0] = 0 /\ Binary(p) = b[N]
        /\ \A k \in 1..N : b[k] = 2 * b[k - 1] + p[k]
  BY BinaryIs
<1> DEFINE Ok(k) == /\ b[k] \in 0..(2^k - 1)
                    /\ f[k] = 2^k - 1 + b[k]
                    /\ NumberToPath(f[k]) = SubSeq(p, 1, k)
           G == {k \in Nat : k <= N => Ok(k)}
<1>4. 0 \in G
  <2>1. SubSeq(p, 1, 0) = <<>>
    BY DEF BitPath
  <2>2. b[0] = 0 /\ f[0] = 0 /\ 2^0 = 1 /\ NumberToPath(0) = <<>>
    BY <1>2, <1>3, PowSmall, NumberToPathIs
  <2>3. b[0] \in 0..(2^0 - 1) /\ f[0] = 2^0 - 1 + b[0]
    BY <2>2
  <2>4. Ok(0)
    BY <2>1, <2>2, <2>3
  <2> QED BY <2>4
<1>5. ASSUME NEW n \in G PROVE n + 1 \in G
  <2> SUFFICES ASSUME n + 1 <= N PROVE Ok(n + 1)
    OBVIOUS
  <2> DEFINE e == 2^n
             c == f[n]
             d == p[n + 1]
             v == 2 * c + d + 1
  <2>1. n \in Nat /\ n + 1 \in 1..N /\ n + 1 - 1 = n /\ n \in 0..N
    BY <1>1
  <2>2. Ok(n)
    BY <1>1
  <2>3. e \in Nat \ {0} /\ 2^(n + 1) = 2 * e /\ d \in Bits01 /\ b[n] \in 0..(e - 1)
        /\ c = e - 1 + b[n] /\ c \in Nat
    <3>1. e \in Nat \ {0}
      BY <2>1, PowNat
    <3>2. 2^(n + 1) = 2 * e
      BY <2>1, PowDouble
    <3>3. d \in Bits01
      BY <1>1, <2>1
    <3>4. b[n] \in 0..(e - 1) /\ c = e - 1 + b[n]
      BY <2>1, <2>2
    <3> HIDE DEF e, c
    <3>5. c \in Nat
      BY <3>1, <3>4
    <3> QED BY <3>1, <3>2, <3>3, <3>4, <3>5
  <2>4. 2 * e <= T - 1 + 1 /\ T \in Nat /\ 2 * (2 * e) <= T
    <3>1. 2^(n + 1 + 1) = 2 * 2^(n + 1) /\ n + 1 + 1 \in Nat
      BY <2>1, PowDouble
    <3>2. n + 1 + 1 <= Width
      BY <1>1, <2>1
    <3>3. 2^(n + 1 + 1) <= T /\ T \in Nat
      BY <1>1, <3>1, <3>2, PowMono, PowNat
    <3> HIDE DEF e, T
    <3> QED BY <2>3, <3>1, <3>3
  <2>5. 2 * c + 2 < T
    <3> HIDE DEF e, T, c
    <3> QED BY <2>3, <2>4
  <2>6. /\ v \in Numbers \ {0} /\ Father(v) = c /\ (v + 1) % 2 = d
        /\ LeftChild(c) = 2 * c + 1 /\ RightChild(c) = 2 * c + 2
    <3> HIDE DEF c, d
    <3>1. (2 * c + d + 2) % 2 = d /\ v + 1 = 2 * c + d + 2
      BY <2>3, <2>5, ChildFacts DEF Bits01, T
    <3> QED BY <2>3, <2>5, <3>1, ChildFacts DEF T
  <2>7. f[n + 1] = v
    <3>1. f[n + 1] = IF d = 0 THEN LeftChild(c) ELSE RightChild(c)
      BY <1>2, <2>1
    <3>2. d = 0 \/ d = 1
      BY <2>3 DEF Bits01
    <3>3. c \in Nat
      BY <2>3
    <3> HIDE DEF c, d, e, T
    <3>4. v = IF d = 0 THEN 2 * c + 1 ELSE 2 * c + 2
      BY <3>2, <3>3
    <3> HIDE DEF v
    <3> QED BY <2>6, <3>1, <3>4
  <2>8. b[n + 1] = 2 * b[n] + d
    BY <1>3, <2>1
  <2>9. b[n + 1] \in 0..(2^(n + 1) - 1) /\ v = 2^(n + 1) - 1 + b[n + 1]
    <3> DEFINE w == 2^(n + 1)
               b1 == b[n]
               b2 == b[n + 1]
    <3>1. w = 2 * e /\ e \in Nat \ {0} /\ b1 \in 0..(e - 1) /\ c = e - 1 + b1
          /\ b2 = 2 * b1 + d /\ d \in {0, 1}
      BY <2>3, <2>8 DEF Bits01
    <3> HIDE DEF e, c, d, w, b1, b2
    <3>2. b2 \in 0..(w - 1) /\ v = w - 1 + b2
      BY <3>1
    <3> QED BY <3>2 DEF w, b2
  <2>10. NumberToPath(v) = SubSeq(p, 1, n + 1)
    <3>1. NumberToPath(v) = Append(SubSeq(p, 1, n), d)
      <4> HIDE DEF v, c, d
      <4> QED BY <2>2, <2>6, NumberToPathIs DEF c
    <3>2. SubSeq(p, 1, n + 1) = Append(SubSeq(p, 1, n), d)
      BY <1>1, <2>1 DEF BitPath
    <3> QED BY <3>1, <3>2
  <2> HIDE DEF v
  <2> QED BY <2>7, <2>9, <2>10
<1>6. G = Nat
  <2> HIDE DEF Ok
  <2> QED BY <1>4, <1>5, AllNaturals
<1>7. Ok(N)
  <2> HIDE DEF Ok
  <2> QED BY <1>1, <1>6
<1>8. SubSeq(p, 1, N) = p
  BY DEF BitPath
<1> DEFINE e == 2^N
<1>9. e \in Nat \ {0} /\ 2 * e <= T /\ T \in Nat
  <2>1. 2^(N + 1) = 2 * e /\ N + 1 <= Width /\ N + 1 \in Nat
    BY <1>1, PowDouble
  <2>2. 2^(N + 1) <= T
    BY <1>1, <2>1, PowMono
  <2> QED BY <1>1, <2>1, <2>2, PowNat
<1>10. /\ Binary(p) \in 0..(e - 1) /\ PathToNumber(p) = e - 1 + Binary(p)
       /\ NumberToPath(PathToNumber(p)) = p
  BY <1>2, <1>3, <1>7, <1>8
<1> HIDE DEF e, T
<1>11. PathToNumber(p) \in 0..(T - 2)
  BY <1>9, <1>10
<1> QED
  BY <1>9, <1>10, <1>11 DEF e, T

(* The bits of the number in binary are those of the path.                 *)
LEMMA BitsOfBinary ==
  ASSUME NEW p \in BitPath, NEW h, h = Len(p) + 1
  PROVE  P(Binary(p), h, h) = p
<1> DEFINE N == Len(p)
           v == Binary(p)
<1>1. N \in Nat /\ \A k \in 1..N : p[k] \in {0, 1}
  BY DEF BitPath, Bits01
<1>2. PICK b \in [0..N -> Nat] :
        /\ b[0] = 0 /\ v = b[N]
        /\ \A k \in 1..N : b[k] = 2 * b[k - 1] + p[k]
  BY BinaryIs
<1> HIDE DEF v
<1>3. v \in Nat
  BY <1>1, <1>2
<1>4. \A k \in 1..N : b[k] \div 2 = b[k - 1] /\ b[k] % 2 = p[k]
  <2> SUFFICES ASSUME NEW k \in 1..N PROVE b[k] \div 2 = b[k - 1] /\ b[k] % 2 = p[k]
    OBVIOUS
  <2>1. b[k - 1] \in Nat /\ p[k] \in 0..(2 - 1) /\ b[k] = 2 * b[k - 1] + p[k]
    BY <1>1, <1>2
  <2> QED BY <2>1
<1> DEFINE G == {j \in Nat : j <= N => v \div 2^j = b[N - j]}
<1>5. 0 \in G
  BY <1>1, <1>2, <1>3, PowSmall
<1>6. ASSUME NEW j \in G PROVE j + 1 \in G
  <2> SUFFICES ASSUME j + 1 <= N PROVE v \div 2^(j + 1) = b[N - (j + 1)]
    OBVIOUS
  <2>1. v \div 2^(j + 1) = (v \div 2^j) \div 2
    BY <1>3, DivPow
  <2>2. v \div 2^j = b[N - j] /\ N - j \in 1..N /\ N - j - 1 = N - (j + 1)
    BY <1>1
  <2> QED BY <1>4, <2>1, <2>2
<1>7. G = Nat
  BY <1>5, <1>6, AllNaturals
<1>8. ASSUME NEW k \in 1..N
      PROVE  (v \div 2^(h - 1 - k)) % 2 = p[k]
  <2>1. h - 1 - k \in Nat /\ h - 1 - k <= N /\ N - (h - 1 - k) = k
    BY <1>1
  <2>2. v \div 2^(h - 1 - k) = b[k]
    BY <1>7, <2>1
  <2> QED BY <1>4, <2>2
<1>9. h - 1 = N
  BY <1>1
<1>10. P(v, h, h) = [k \in 1..N |-> p[k]]
  BY <1>8, <1>9 DEF P
<1> QED
  BY <1>10 DEF v, BitPath

(* And a number below 2^(h - 1) is its bits read in binary.                *)
LEMMA BinaryOfBits ==
  ASSUME NEW h \in Nat \ {0}, NEW y \in 0..(2^(h - 1) - 1)
  PROVE  P(y, h, h) \in BitPath /\ Len(P(y, h, h)) = h - 1 /\ Binary(P(y, h, h)) = y
<1> DEFINE N == h - 1
           p == P(y, h, h)
<1>1. N \in Nat /\ 2^N \in Nat \ {0} /\ y \in Nat /\ y < 2^N
  BY PowNat
<1>2. p = [k \in 1..N |-> (y \div 2^(N - k)) % 2]
  BY DEF P
<1>3. \A k \in 1..N : y \div 2^(N - k) \in Nat
  BY <1>1, DivPow
<1>4. p \in BitPath /\ Len(p) = N
  <2>1. \A k \in 1..N : (y \div 2^(N - k)) % 2 \in Bits01
    BY <1>3 DEF Bits01
  <2> HIDE DEF p, N
  <2> QED BY <1>1, <1>2, <2>1 DEF BitPath
<1> HIDE DEF p
<1>5. PICK b \in [0..N -> Nat] :
        /\ b[0] = 0 /\ Binary(p) = b[N]
        /\ \A k \in 1..N : b[k] = 2 * b[k - 1] + p[k]
  BY <1>4, BinaryIs
<1> DEFINE G == {k \in Nat : k <= N => b[k] = y \div 2^(N - k)}
<1>6. 0 \in G
  <2>1. y \div 2^N = 0
    <3> DEFINE e == 2^N
    <3>1. e \in Nat \ {0} /\ y \in 0..(e - 1) /\ e * 0 + y = y /\ 0 \in Nat
      BY <1>1
    <3> HIDE DEF e
    <3>2. y \div e = 0
      BY <3>1, DivModOf
    <3> QED BY <3>2 DEF e
  <2> QED BY <1>1, <1>5, <2>1
<1>7. ASSUME NEW k \in G PROVE k + 1 \in G
  <2> SUFFICES ASSUME k + 1 <= N PROVE b[k + 1] = y \div 2^(N - (k + 1))
    OBVIOUS
  <2> DEFINE m == N - (k + 1)
  <2>1. m \in Nat /\ m + 1 = N - k /\ k + 1 \in 1..N /\ k + 1 - 1 = k
    BY <1>1
  <2>2. b[k] = y \div 2^(m + 1)
    BY <2>1
  <2>3. b[k + 1] = 2 * b[k] + p[k + 1] /\ p[k + 1] = (y \div 2^m) % 2
    BY <1>2, <1>5, <2>1
  <2> HIDE DEF m
  <2>4. y \div 2^m = 2 * (y \div 2^(m + 1)) + ((y \div 2^m) % 2)
    BY <1>1, <2>1, DivPow
  <2>5. b[k + 1] = y \div 2^m
    BY <2>2, <2>3, <2>4
  <2> QED BY <2>5 DEF m
<1>8. G = Nat
  BY <1>6, <1>7, AllNaturals
<1>9. b[N] = y
  <2>1. b[N] = y \div 2^(N - N) /\ N - N = 0
    <3>1. N \in Nat /\ N <= N /\ N - N = 0
      BY <1>1
    <3>2. N \in G
      BY <1>8, <3>1
    <3> HIDE DEF N
    <3> QED BY <3>1, <3>2
  <2> QED BY <1>1, <2>1, PowSmall
<1> QED
  BY <1>4, <1>5, <1>9 DEF p

(* Appended last bits come off again.                                      *)
LEMMA AppendFacts ==
  ASSUME NEW q \in BitPath, NEW d \in Bits01
  PROVE  /\ Append(q, d) \in BitPath /\ Append(q, d) # <<>>
         /\ Len(Append(q, d)) = Len(q) + 1
         /\ Front(Append(q, d)) = q /\ Last(Append(q, d)) = d
<1>1. Append(q, d) \in BitPath /\ Append(q, d) # <<>> /\ Len(Append(q, d)) = Len(q) + 1
      /\ Last(Append(q, d)) = d
  BY DEF BitPath, Last
<1>2. Front(Append(q, d)) = q
  BY DEF BitPath, Front
<1> QED BY <1>1, <1>2

(* The two children of a node that are nodes too.                          *)
LEMMA ChildPaths ==
  ASSUME NEW n \in Nat, NEW b \in Bits01, 2 * n + 2 < 2^Width
  PROVE  NumberToPath(2 * n + b + 1) = Append(NumberToPath(n), b)
<1> DEFINE c == 2 * n + b + 1
<1>1. c \in Numbers \ {0} /\ Father(c) = n /\ (2 * n + b + 2) % 2 = b
  BY ChildFacts
<1>2. c + 1 = 2 * n + b + 2
  BY DEF Bits01
<1> HIDE DEF c
<1>3. (c + 1) % 2 = b
  BY <1>1, <1>2
<1>4. NumberToPath(c) = Append(NumberToPath(n), b)
  BY <1>1, <1>3, NumberToPathIs
<1> QED BY <1>4 DEF c

(* A node above the last level has its children among the numbers.         *)
LEMMA ChildrenFit ==
  ASSUME NEW n \in 0..(2^Width - 2), Len(NumberToPath(n)) < Width - 1
  PROVE  n \in Nat /\ 2 * n + 2 < 2^Width
<1> DEFINE k == Len(NumberToPath(n))
           e == 2^k
           T == 2^Width
<1>1. n \in Numbers /\ n \in Nat /\ k \in Nat /\ k + 1 \in Nat /\ k + 1 + 1 \in Nat
      /\ k + 1 + 1 <= Width /\ Width \in Nat
  BY LevelFits, WidthAssumption
<1>2. e \in Nat /\ n <= 2 * e - 2
  BY <1>1, NumberOfLevel
<1>3. 2^(k + 1) = 2 * e /\ 2^(k + 1 + 1) = 2 * 2^(k + 1)
  BY <1>1, PowDouble
<1>4. 2^(k + 1 + 1) <= T /\ T \in Nat
  BY <1>1, PowMono, PowNat
<1> HIDE DEF e, T, k
<1>5. 2 * (2 * e) <= T
  BY <1>3, <1>4
<1>6. 2 * n + 2 < T
  BY <1>1, <1>2, <1>4, <1>5
<1> QED BY <1>1, <1>6 DEF T

LEMMA NodeNumbers ==
  ASSUME value \in 0..(2^Width - 2)
  PROVE  NumbersArePaths
<1> DEFINE path == NumberToPath(value)
<1>1. value \in Numbers /\ value \in Nat /\ path \in BitPath /\ Len(path) \in 0..(Width - 1)
  BY LevelFits
<1>2. PathToNumber(path) = value
  <2>1. Width \in Nat /\ Len(path) < Width
    BY <1>1, WidthAssumption
  <2>2. PathToNumber(path) \in 0..(2^Width - 2) /\ NumberToPath(PathToNumber(path)) = path
    BY <1>1, <2>1, NumberOfPath
  <2>3. PathToNumber(path) \in Numbers
    BY <2>2, LevelFits
  <2> QED BY <1>1, <2>2, <2>3, PathInjective
<1>3. ASSUME value # 0
      PROVE  /\ NumberToPath(Father(value)) = Front(path)
             /\ NumberToPath(Sibiling(value)) = Append(Front(path), 1 - Last(path))
  <2> DEFINE f == Father(value)
             d == (value + 1) % 2
             q == NumberToPath(f)
  <2>1. value \in Numbers \ {0}
    BY <1>1, <1>3
  <2>2. f \in Numbers /\ f < value /\ value = 2 * f + 2 - (value % 2)
        /\ d = 1 - (value % 2) /\ value % 2 \in {0, 1} /\ d \in Bits01 /\ 1 - d = value % 2
    BY <2>1, FatherFacts DEF Bits01
  <2>3. q \in BitPath /\ path = Append(q, d)
    BY <2>1, <2>2, NumberToPathIs
  <2>4. Front(path) = q /\ Last(path) = d
    <3> HIDE DEF q, d, path
    <3> QED BY <2>2, <2>3, AppendFacts
  <2>5. f \in Nat /\ 2 * f + 2 < 2^Width
    <3>1. f \in 0..(2^Width - 2) /\ Len(path) = Len(q) + 1
      <4>1. 2^Width \in Nat
        BY WidthAssumption, PowNat
      <4> DEFINE T == 2^Width
      <4>2. T \in Nat /\ f \in 0..(T - 1) /\ f < value /\ value \in 0..(T - 2)
        BY <2>2, <4>1 DEF Numbers
      <4> HIDE DEF T, f
      <4>3. f \in 0..(T - 2)
        BY <4>2
      <4> HIDE DEF q, d, path
      <4> QED BY <2>2, <2>3, <4>3, AppendFacts DEF T
    <3>2. Len(q) < Width - 1 /\ Len(q) \in Nat
      BY <1>1, <2>3, <3>1, WidthAssumption DEF BitPath
    <3> QED BY <3>1, <3>2, ChildrenFit
  <2> DEFINE b == value % 2
  <2>6. b \in Bits01 /\ 1 - d = b /\ (b = 1 \/ b = 0)
    BY <2>2 DEF Bits01
  <2>7. Sibiling(value) = 2 * f + b + 1
    <3>1. Sibiling(value) = IF b = 1 THEN Wrap(2 * f + 2) ELSE Wrap(2 * f + 1)
      BY DEF Sibiling
    <3>2. Wrap(2 * f + 2) = 2 * f + 2 /\ Wrap(2 * f + 1) = 2 * f + 1
      <4>1. LeftChild(f) = 2 * f + 1 /\ RightChild(f) = 2 * f + 2
        BY <2>5, <2>6, ChildFacts
      <4> QED BY <4>1 DEF LeftChild, RightChild
    <3> HIDE DEF b
    <3>3. CASE b = 1
      <4> HIDE DEF f
      <4> QED BY <2>5, <3>1, <3>2, <3>3
    <3>4. CASE b = 0
      <4> HIDE DEF f
      <4> QED BY <2>5, <3>1, <3>2, <3>4
    <3> QED BY <2>6, <3>3, <3>4
  <2>8. NumberToPath(2 * f + b + 1) = Append(q, b)
    <3> HIDE DEF b, f
    <3>1. NumberToPath(2 * f + b + 1) = Append(NumberToPath(f), b)
      BY <2>5, <2>6, ChildPaths
    <3> QED BY <3>1
  <2> QED BY <2>4, <2>6, <2>7, <2>8
<1>4. ASSUME Len(path) < Width - 1
      PROVE  /\ NumberToPath(LeftChild(value)) = Append(path, 0)
             /\ NumberToPath(RightChild(value)) = Append(path, 1)
  <2>1. value \in Nat /\ 2 * value + 2 < 2^Width
    BY <1>4, ChildrenFit
  <2>2. 0 \in Bits01 /\ 1 \in Bits01
    BY DEF Bits01
  <2>3. LeftChild(value) = 2 * value + 1 /\ RightChild(value) = 2 * value + 2
    BY <2>1, <2>2, ChildFacts
  <2>4. NumberToPath(2 * value + 0 + 1) = Append(path, 0)
        /\ NumberToPath(2 * value + 1 + 1) = Append(path, 1)
    BY <2>1, <2>2, ChildPaths
  <2>5. 2 * value + 0 + 1 = 2 * value + 1 /\ 2 * value + 1 + 1 = 2 * value + 2
    BY <2>1
  <2> QED BY <2>3, <2>4, <2>5
<1> QED
  BY <1>2, <1>3, <1>4 DEF NumbersArePaths

(* CPath64: a node's number and its path determine each other, and father, *)
(* sibling and children by number are those by path, in words of any width *)
(* and for every node up to the last but one number.                       *)
THEOREM NumbersPaths == Spec => []NumbersArePaths
<1> DEFINE Range64 == value \in 0..(2^Width - 2)
<1>1. Init => Range64
  BY DEF Init
<1>2. Range64 /\ [Next]_vars => Range64'
  BY DEF Next, Down, AtLeaf, vars
<1>3. Range64 => NumbersArePaths
  BY NodeNumbers
<1> QED
  BY <1>1, <1>2, <1>3, PTL DEF Spec

(* The beginning of a leaf's path down to a level.                         *)
LEMMA PathOfLeaf ==
  ASSUME NEW h \in Nat \ {0}, NEW y \in Nat, NEW level \in 1..h
  PROVE  P(y, level, h) \in BitPath /\ Len(P(y, level, h)) = level - 1
<1>1. \A k \in 1..(level - 1) : (y \div 2^(h - 1 - k)) % 2 \in Bits01
  <2> SUFFICES ASSUME NEW k \in 1..(level - 1)
               PROVE  (y \div 2^(h - 1 - k)) % 2 \in Bits01
    OBVIOUS
  <2> DEFINE e == h - 1 - k
             d == y \div 2^e
  <2>1. e \in Nat
    OBVIOUS
  <2>2. d \in Nat
    BY <2>1, DivPow
  <2> HIDE DEF d, e
  <2>3. d % 2 \in {0, 1}
    BY <2>2
  <2> QED BY <2>3 DEF d, e, Bits01
<1>2. level - 1 \in Nat
  OBVIOUS
<1> DEFINE b == [k \in 1..(level - 1) |-> (y \div 2^(h - 1 - k)) % 2]
<1>3. b \in [1..(level - 1) -> Bits01]
  BY <1>1
<1>4. P(y, level, h) = b
  BY DEF P
<1> HIDE DEF b
<1>5. b \in Seq(Bits01) /\ Len(b) = level - 1
  BY <1>2, <1>3
<1> QED BY <1>4, <1>5 DEF BitPath

LEMMA LeafRoundTrip ==
  ASSUME NEW h \in 1..Width, NEW y \in 0..(2^(h - 1) - 1)
  PROVE  GetLeaf(LoadLeaf(h, y)) = y
<1> DEFINE p == P(y, h, h)
<1>1. h \in Nat \ {0} /\ h - 1 < Width
  BY WidthAssumption
<1>2. p \in BitPath /\ Len(p) = h - 1 /\ Binary(p) = y
  BY <1>1, BinaryOfBits
<1> HIDE DEF p
<1>3. NumberToPath(PathToNumber(p)) = p
  BY <1>1, <1>2, NumberOfPath
<1>4. LoadLeaf(h, y) = PathToNumber(p)
  BY DEF LoadLeaf, p
<1> QED BY <1>2, <1>3, <1>4 DEF GetLeaf

LEMMA AncestorTest ==
  ASSUME NEW q \in BitPath, NEW n \in Numbers, NEW level \in Nat \ {0},
         Len(q) = level - 1
  PROVE  (q = AtLevelPath(n, level)) <=> IsPrefix(q, NumberToPath(n))
<1> DEFINE p == NumberToPath(n)
<1>1. p \in BitPath /\ Len(p) \in Nat
  BY NumberToPathIs DEF BitPath
<1> HIDE DEF p
<1>2. CASE level > Len(p) + 1
  <2>1. AtLevelPath(n, level) = <<-1>>
    BY <1>2 DEF AtLevelPath, NotSupported, p
  <2>2. q # <<-1>>
    <3>1. \A k \in 1..Len(q) : q[k] \in Bits01
      BY DEF BitPath
    <3>2. ASSUME q = <<-1>> PROVE FALSE
      <4>1. Len(q) = 1 /\ q[1] = -1
        BY <3>2
      <4>2. -1 \in Bits01
        BY <3>1, <4>1
      <4> QED BY <4>2 DEF Bits01
    <3> QED BY <3>2
  <2>3. ~IsPrefix(q, p)
    BY <1>1, <1>2 DEF IsPrefix
  <2> QED BY <2>1, <2>2, <2>3 DEF p
<1>3. CASE level <= Len(p) + 1
  <2>1. AtLevelPath(n, level) = SubSeq(p, 1, level - 1)
    BY <1>1, <1>3 DEF AtLevelPath, p
  <2>2. SubSeq(q, 1, Len(q)) = q /\ Len(q) <= Len(p)
    BY <1>1, <1>3 DEF BitPath
  <2>3. IsPrefix(q, p) <=> q = SubSeq(p, 1, level - 1)
    BY <2>2 DEF IsPrefix
  <2> QED BY <2>1, <2>3 DEF p
<1> QED BY <1>1, <1>2, <1>3

(* The node and the height are arguments.                                  *)
NodeInv ==
  /\ value \in 0..(2^Width - 2)
  /\ height \in 1..Width

LEMMA NodeStep == NodeInv /\ [Next]_vars => NodeInv'
BY DEF NodeInv, Next, Down, AtLeaf, vars

LEMMA NodeInit == Init => NodeInv
<1> SUFFICES ASSUME Init PROVE NodeInv
  OBVIOUS
<1>1. value \in 0..(2^Width - 2)
  BY DEF Init
<1> DEFINE k == Len(NumberToPath(value))
<1>2. k \in Nat
  BY <1>1, LevelFits
<1>3. height \in (k + 1)..Width
  BY DEF Init
<1> HIDE DEF k
<1>4. height \in 1..Width
  BY <1>2, <1>3
<1> QED BY <1>1, <1>4 DEF NodeInv

(* The eviction compares the path to a leaf, cut at a level, with the      *)
(* block's node at that level: equal exactly when that bucket is an        *)
(* ancestor of the node, for nodes above the level too; and every leaf     *)
(* comes back from LoadLeaf and GetLeaf.                                   *)
THEOREM EvictionPaths == Spec => []EvictionComparesPaths
<1>1. NodeInv => EvictionComparesPaths
  <2> SUFFICES ASSUME NodeInv, NEW x \in 0..(2^(height - 1) - 1)
               PROVE  /\ GetLeaf(LoadLeaf(height, x)) = x
                      /\ \A level \in 1..height :
                           (P(x, level, height) = AtLevelPath(value, level))
                             <=> IsPrefix(P(x, level, height), NumberToPath(value))
    BY DEF EvictionComparesPaths
  <2>1. height \in 1..Width /\ height \in Nat \ {0} /\ height - 1 \in Nat
        /\ value \in Numbers
    BY WidthAssumption, LevelFits DEF NodeInv
  <2>2. x \in Nat
    BY <2>1, PowNat
  <2>3. ASSUME NEW level \in 1..height
        PROVE  (P(x, level, height) = AtLevelPath(value, level))
                 <=> IsPrefix(P(x, level, height), NumberToPath(value))
    <3>1. height \in Nat \ {0}
      BY <2>1
    <3>2. P(x, level, height) \in BitPath /\ Len(P(x, level, height)) = level - 1
      BY <2>2, <3>1, PathOfLeaf
    <3>3. level \in Nat \ {0} /\ value \in Numbers
      BY <2>1
    <3> QED BY <3>2, <3>3, AncestorTest
  <2>4. GetLeaf(LoadLeaf(height, x)) = x
    BY <2>1, LeafRoundTrip
  <2> QED BY <2>3, <2>4
<1> QED
  BY <1>1, NodeInit, NodeStep, PTL DEF Spec

(* Up to Mantissa levels the double that pow gives is exact.               *)
THEOREM AddressRange == Spec => [](height <= Mantissa => AddressesFit)
<1>1. NodeInv => (height <= Mantissa => AddressesFit)
  <2> SUFFICES ASSUME NodeInv, height <= Mantissa PROVE AddressesFit
    OBVIOUS
  <2> DEFINE e == 2^(height - 1)
  <2>1. height \in Nat \ {0} /\ height - 1 \in Nat /\ height - 1 + 1 = height
    BY WidthAssumption DEF NodeInv
  <2>2. e \in Nat \ {0} /\ 2^height = 2 * e
    BY <2>1, PowNat, PowDouble
  <2>3. Capacity = 2 * e - 1
    BY <2>2 DEF Capacity, PowMinus1
  <2>4. \A a \in 0..(2 * e - 1) : a \div (2 * e) = 0
    <3> HIDE DEF e
    <3> SUFFICES ASSUME NEW a \in 0..(2 * e - 1) PROVE a \div (2 * e) = 0
      OBVIOUS
    <3>1. 2 * e \in Nat \ {0} /\ 0 \in Nat /\ (2 * e) * 0 + a = a
      BY <2>2
    <3> QED BY <3>1, DivModOf
  <2>5. (2 * e - 1) \div 2 = e - 1
    <3> HIDE DEF e
    <3> QED BY <2>2
  <2>6. height - 1 + 1 = height /\ height - height + 1 = 1 /\ 2^1 = 2
    BY <2>1, PowSmall
  <2>7. \A a \in 0..Capacity : a \div 2^(height - 1 + 1) = 0
    BY <2>2, <2>3, <2>4, <2>6
  <2>8. Capacity \div 2^(height - height + 1) = 2^(height - 1) - 1
    BY <2>3, <2>5, <2>6
  <2> QED BY <2>7, <2>8 DEF AddressesFit
<1> QED
  BY <1>1, NodeInit, NodeStep, PTL DEF Spec

(* Beginnings of paths. *)
LEMMA PrefixFacts ==
  ASSUME NEW p \in BitPath
  PROVE  /\ IsPrefix(p, p)
         /\ \A q \in BitPath : \A d \in Bits01 :
              IsPrefix(p, q) => IsPrefix(p, Append(q, d))
<1>1. IsPrefix(p, p)
  BY DEF BitPath, IsPrefix
<1>2. ASSUME NEW q \in BitPath, NEW d \in Bits01, IsPrefix(p, q)
      PROVE  IsPrefix(p, Append(q, d))
  <2>1. Len(p) \in Nat /\ Len(q) \in Nat /\ Len(p) <= Len(q)
        /\ SubSeq(p, 1, Len(p)) = SubSeq(q, 1, Len(p))
    BY <1>2 DEF BitPath, IsPrefix
  <2>2. Len(Append(q, d)) = Len(q) + 1
        /\ SubSeq(Append(q, d), 1, Len(p)) = SubSeq(q, 1, Len(p))
    BY <2>1 DEF BitPath
  <2> QED BY <2>1, <2>2 DEF IsPrefix
<1> QED BY <1>1, <1>2

(* One comparison tells whether a node of the walk is a leaf.              *)
LEMMA LeafStarts ==
  ASSUME NEW n \in 0..(2^Width - 2), NEW h \in 1..Width,
         Len(NumberToPath(n)) <= h - 1
  PROVE  LET k == Len(NumberToPath(n))
         IN /\ n < 2^(h - 1) - 1 => k < h - 1
            /\ n >= 2^(h - 1) - 1 => k = h - 1
<1> DEFINE k == Len(NumberToPath(n))
           e == 2^k
           a == 2^(h - 1)
<1>1. n \in Numbers /\ n \in Nat /\ k \in Nat /\ h - 1 \in Nat /\ k + 1 \in Nat /\ k <= h - 1
  BY LevelFits, WidthAssumption
<1>2. e \in Nat \ {0} /\ e - 1 <= n /\ n <= 2 * e - 2
  BY <1>1, NumberOfLevel
<1>3. a \in Nat \ {0} /\ 2^(k + 1) = 2 * e
  BY <1>1, PowNat, PowDouble
<1>4. e < a => k < h - 1
  BY <1>1, PowOrder
<1>5. a < 2^(k + 1) => h - 1 < k + 1
  BY <1>1, PowOrder
<1> HIDE DEF k
<1>6. ASSUME n < a - 1 PROVE k < h - 1
  <2> HIDE DEF e, a
  <2>1. e < a
    BY <1>1, <1>2, <1>3, <1>6
  <2> QED BY <1>4, <2>1
<1>7. ASSUME n >= a - 1 PROVE k = h - 1
  <2> HIDE DEF e, a
  <2>1. a < 2^(k + 1)
    BY <1>1, <1>2, <1>3, <1>7
  <2>2. h - 1 < k + 1
    BY <1>5, <2>1
  <2> QED BY <1>1, <2>2
<1> QED BY <1>6, <1>7 DEF k

LEMMA LeafOfWalk ==
  ASSUME NEW n \in 0..(2^Width - 2), NEW h \in 1..Width,
         Len(NumberToPath(n)) = h - 1
  PROVE  LET y == Wrap(n - (2^(h - 1) - 1))
         IN  y \in 0..(2^(h - 1) - 1) /\ P(y, h, h) = NumberToPath(n)
<1> DEFINE p == NumberToPath(n)
           e == 2^(h - 1)
           T == 2^Width
<1>1. p \in BitPath /\ Len(p) = h - 1 /\ n \in Numbers /\ n \in Nat
  BY LevelFits
<1>2. h - 1 \in Nat /\ h - 1 < Width
  BY WidthAssumption
<1>3. /\ e \in Nat \ {0} /\ Binary(p) \in 0..(e - 1)
      /\ PathToNumber(p) = e - 1 + Binary(p)
      /\ PathToNumber(p) \in 0..(T - 2)
      /\ NumberToPath(PathToNumber(p)) = p
  <2> HIDE DEF p
  <2> QED BY <1>1, <1>2, NumberOfPath
<1>4. PathToNumber(p) = n
  <2>1. PathToNumber(p) \in Numbers
    BY <1>3, LevelFits
  <2> QED BY <1>1, <1>3, <2>1, PathInjective
<1>5. T \in Nat \ {0}
  BY WidthAssumption, PowNat
<1> DEFINE b == Binary(p)
<1>6. n = e - 1 + b /\ b \in 0..(e - 1) /\ n \in 0..(T - 2)
  BY <1>3, <1>4
<1>7. P(b, h, h) = p
  <2>1. h = Len(p) + 1
    BY <1>1, <1>2
  <2> HIDE DEF p
  <2> QED BY <1>1, <2>1, BitsOfBinary
<1> HIDE DEF b, e, T, p
<1>8. n - (e - 1) = b /\ b \in 0..(T - 1) /\ b \in Nat
  BY <1>3, <1>5, <1>6
<1>9. b % T = b
  <2>1. 0 \in Nat /\ T * 0 + b = b
    BY <1>5, <1>8
  <2> QED BY <1>5, <1>8, <2>1, DivModOf
<1>10. Wrap(n - (e - 1)) = b
  BY <1>8, <1>9 DEF Wrap, T
<1> QED BY <1>6, <1>7, <1>10 DEF e, p

(* The loop of MapToRandomLeaf keeps to nodes below the given one and goes *)
(* down until the first comparison with the leaves fails.                  *)
Exact == height <= Mantissa + 1

WalkInv ==
  /\ NodeInv
  /\ Exact => /\ newValue \in 0..(2^Width - 2)
              /\ IsPrefix(NumberToPath(value), NumberToPath(newValue))
              /\ Len(NumberToPath(newValue)) <= height - 1
              /\ LeafBelowNode
  /\ pc \in {"walk", "done"}

LEMMA WalkInit == Init => WalkInv
<1> SUFFICES ASSUME Init PROVE WalkInv
  OBVIOUS
<1>1. NodeInv /\ newValue = value /\ pc = "walk" /\ value \in 0..(2^Width - 2)
  BY NodeInit DEF Init
<1>2. NumberToPath(value) \in BitPath /\ Len(NumberToPath(value)) \in Nat
  BY <1>1, LevelFits
<1>3. IsPrefix(NumberToPath(value), NumberToPath(newValue))
  BY <1>1, <1>2, PrefixFacts
<1>4. Len(NumberToPath(newValue)) <= height - 1
  <2> DEFINE k == Len(NumberToPath(value))
  <2>1. height \in (k + 1)..Width /\ k \in Nat
    BY <1>2 DEF Init
  <2> HIDE DEF k
  <2>2. k <= height - 1
    BY <2>1, WidthAssumption
  <2> QED BY <1>1, <2>2 DEF k
<1>5. LeafBelowNode
  BY <1>1 DEF LeafBelowNode
<1> QED BY <1>1, <1>3, <1>4, <1>5 DEF WalkInv

LEMMA WalkDown == WalkInv /\ Down => WalkInv'
<1> SUFFICES ASSUME WalkInv, Down PROVE WalkInv'
  OBVIOUS
<1>1. NodeInv' /\ pc' \in {"walk", "done"} /\ value' = value /\ height' = height
      /\ pc = "walk" /\ pc' = "walk"
  BY DEF WalkInv, NodeInv, Down
<1>2. ASSUME Exact
      PROVE  /\ newValue' \in 0..(2^Width - 2)
             /\ IsPrefix(NumberToPath(value), NumberToPath(newValue'))
             /\ Len(NumberToPath(newValue')) <= height - 1
  <2> DEFINE n == newValue
             q == NumberToPath(n)
             p == NumberToPath(value)
  <2>1. n \in 0..(2^Width - 2) /\ IsPrefix(p, q) /\ Len(q) <= height - 1
        /\ height \in 1..Width /\ value \in 0..(2^Width - 2)
    BY <1>2 DEF WalkInv, NodeInv
  <2>2. height - 1 \in Nat /\ height - 1 <= Mantissa
    BY <1>2, <2>1, WidthAssumption DEF Exact
  <2>3. n < 2^(height - 1) - 1
    BY <2>2 DEF Down, StartLeafNode, PowMinus1
  <2>4. Len(q) < height - 1
    BY <2>1, <2>3, LeafStarts
  <2>5. Len(q) < Width - 1 /\ q \in BitPath /\ p \in BitPath /\ Len(q) \in Nat
    <3>1. q \in BitPath /\ p \in BitPath /\ Len(q) \in Nat
      BY <2>1, LevelFits
    <3> HIDE DEF n, q, p
    <3>2. Len(q) < Width - 1
      BY <2>1, <2>4, <3>1, WidthAssumption
    <3> QED BY <3>1, <3>2
  <2>6. n \in Nat /\ 2 * n + 2 < 2^Width
    BY <2>1, <2>5, ChildrenFit
  <2>7. PICK bit \in Bits01 : newValue' = Wrap(2 * n + bit + 1)
    BY DEF Down, Child, Bits01
  <2> DEFINE c == 2 * n + bit + 1
  <2>8. newValue' = c /\ NumberToPath(c) = Append(q, bit)
    <3> HIDE DEF n
    <3>1. Wrap(c) = c
      BY <2>6, ChildFacts
    <3>2. NumberToPath(c) = Append(q, bit)
      BY <2>6, ChildPaths
    <3> QED BY <2>7, <3>1, <3>2
  <2>9. c \in 0..(2^Width - 2)
    <3> DEFINE T == 2^Width
               e == 2^(Width - 1)
    <3>0. Width - 1 \in Nat /\ Width - 1 + 1 = Width
      BY WidthAssumption
    <3>1. T = 2 * e /\ e \in Nat /\ 2 * n + 2 < T /\ n \in Nat /\ bit \in {0, 1}
      BY <2>6, <3>0, PowNat, PowDouble DEF Bits01
    <3> HIDE DEF T, n, e
    <3>2. c \in 0..(T - 2)
      BY <3>1
    <3> QED BY <3>2 DEF T
  <2>10. IsPrefix(p, Append(q, bit)) /\ Len(Append(q, bit)) <= height - 1
    <3> HIDE DEF p, q
    <3>1. IsPrefix(p, Append(q, bit))
      BY <2>1, <2>5, PrefixFacts
    <3>2. Len(Append(q, bit)) = Len(q) + 1
      BY <2>5, AppendFacts
    <3> QED BY <2>2, <2>4, <2>5, <3>1, <3>2
  <2> HIDE DEF c
  <2> QED BY <2>8, <2>9, <2>10
<1>3. LeafBelowNode'
  BY <1>1 DEF LeafBelowNode
<1>4. Exact' => Exact
  BY <1>1 DEF Exact
<1> QED
  BY <1>1, <1>2, <1>3, <1>4 DEF WalkInv

LEMMA WalkAtLeaf == WalkInv /\ AtLeaf => WalkInv'
<1> SUFFICES ASSUME WalkInv, AtLeaf PROVE WalkInv'
  OBVIOUS
<1>1. NodeInv' /\ pc' \in {"walk", "done"} /\ value' = value /\ height' = height
      /\ newValue' = newValue
  BY DEF WalkInv, NodeInv, AtLeaf
<1>2. ASSUME Exact PROVE LeafBelowNode'
  <2> DEFINE n == newValue
             y == Wrap(n - (2^(height - 1) - 1))
  <2>1. n \in 0..(2^Width - 2) /\ Len(NumberToPath(n)) <= height - 1
        /\ IsPrefix(NumberToPath(value), NumberToPath(n)) /\ height \in 1..Width
    BY <1>2 DEF WalkInv, NodeInv
  <2>2. height - 1 \in Nat /\ height - 1 <= Mantissa
    BY <1>2, <2>1, WidthAssumption DEF Exact
  <2>3. StartLeafNode = 2^(height - 1) - 1
    BY <2>2 DEF StartLeafNode, PowMinus1
  <2>4. n >= 2^(height - 1) - 1 /\ leaf' = y
    BY <2>3 DEF AtLeaf
  <2>5. Len(NumberToPath(n)) = height - 1
    BY <2>1, <2>4, LeafStarts
  <2>6. y \in 0..(2^(height - 1) - 1) /\ P(y, height, height) = NumberToPath(n)
    BY <2>1, <2>5, LeafOfWalk
  <2>7. y < 2^(height - 1)
    <3> DEFINE e == 2^(height - 1)
    <3>1. y \in 0..(e - 1) /\ e \in Nat
      BY <2>2, <2>6, PowNat
    <3> HIDE DEF e, y
    <3>2. y < e
      BY <3>1
    <3> QED BY <3>2 DEF e
  <2> HIDE DEF y, n
  <2> QED BY <1>1, <2>1, <2>4, <2>6, <2>7 DEF LeafBelowNode
<1>3. Exact' => Exact
  BY <1>1 DEF Exact
<1> QED
  BY <1>1, <1>2, <1>3 DEF WalkInv

(* MapToRandomLeaf: the leaf is one of the tree's and below the node, for  *)
(* every choice of bits, as long as the first leaf's number is an exact    *)
(* double.                                                                 *)
THEOREM RandomLeaf == Spec => [](height <= Mantissa + 1 => LeafBelowNode)
<1>1. WalkInv /\ [Next]_vars => WalkInv'
  <2>1. WalkInv /\ UNCHANGED vars => WalkInv'
    BY DEF WalkInv, NodeInv, Exact, LeafBelowNode, vars
  <2> QED BY <2>1, WalkDown, WalkAtLeaf DEF Next
<1>2. WalkInv => (height <= Mantissa + 1 => LeafBelowNode)
  BY DEF WalkInv, Exact
<1> QED
  BY <1>1, <1>2, WalkInit, PTL DEF Spec
-----------------------------------------------------------------------------
(* IntPath.  Its integers have W bits. *)

(* A number built bit by bit from the top is below 2^N and has these bits. *)
LEMMA BitsFromTop ==
  ASSUME NEW N \in Nat, NEW f \in [0..N -> Nat], f[0] = 0, NEW p,
         \A k \in 1..N : p[k] \in {0, 1} /\ f[k] = 2 * f[k - 1] + p[k]
  PROVE  /\ f[N] \in 0..(2^N - 1)
         /\ \A j \in 0..N : f[N] \div 2^j = f[N - j]
         /\ \A j \in 0..(N - 1) : (f[N] \div 2^j) % 2 = p[N - j]
<1> DEFINE Below(k) == f[k] \in 0..(2^k - 1)
           A == {k \in Nat : k <= N => Below(k)}
<1>1. 0 \in A
  BY PowSmall
<1>2. ASSUME NEW k \in A PROVE k + 1 \in A
  <2> SUFFICES ASSUME k + 1 <= N PROVE Below(k + 1)
    OBVIOUS
  <2> DEFINE e == 2^k
             g == f[k]
             h == f[k + 1]
             d == p[k + 1]
  <2>1. k \in Nat /\ k + 1 \in 1..N /\ k + 1 - 1 = k /\ Below(k)
    OBVIOUS
  <2>2. e \in Nat \ {0} /\ 2^(k + 1) = 2 * e
    BY <2>1, PowNat, PowDouble
  <2>3. g \in 0..(e - 1) /\ d \in {0, 1} /\ h = 2 * g + d
    BY <2>1
  <2> HIDE DEF e, g, h, d
  <2>4. h \in 0..(2 * e - 1)
    BY <2>2, <2>3
  <2> QED BY <2>2, <2>4 DEF h
<1>3. A = Nat
  <2> HIDE DEF Below
  <2> QED BY <1>1, <1>2, AllNaturals
<1>4. f[N] \in 0..(2^N - 1)
  BY <1>3
<1>5. \A k \in 1..N : f[k] \div 2 = f[k - 1] /\ f[k] % 2 = p[k]
  <2> SUFFICES ASSUME NEW k \in 1..N PROVE f[k] \div 2 = f[k - 1] /\ f[k] % 2 = p[k]
    OBVIOUS
  <2> DEFINE g == f[k]
             h == f[k - 1]
             d == p[k]
  <2>1. h \in Nat /\ d \in {0, 1} /\ g = 2 * h + d
    OBVIOUS
  <2> HIDE DEF g, h, d
  <2>2. d = 0 => g \div 2 = h /\ g % 2 = d
    BY <2>1
  <2>3. d = 1 => g \div 2 = h /\ g % 2 = d
    BY <2>1
  <2>4. g \div 2 = h /\ g % 2 = d
    BY <2>1, <2>2, <2>3
  <2> QED BY <2>4 DEF g, h, d
<1> DEFINE v == f[N]
           G == {j \in Nat : j <= N => v \div 2^j = f[N - j]}
<1>6. v \in Nat
  OBVIOUS
<1>7. 0 \in G
  BY <1>6, PowSmall
<1>8. ASSUME NEW j \in G PROVE j + 1 \in G
  <2> SUFFICES ASSUME j + 1 <= N PROVE v \div 2^(j + 1) = f[N - (j + 1)]
    OBVIOUS
  <2>1. j \in Nat /\ j <= N /\ N - j \in 1..N /\ N - j - 1 = N - (j + 1)
    OBVIOUS
  <2>2. v \div 2^j = f[N - j]
    BY <2>1
  <2>3. v \div 2^(j + 1) = (v \div 2^j) \div 2
    BY <1>6, <2>1, DivPow
  <2> QED BY <1>5, <2>1, <2>2, <2>3
<1>9. G = Nat
  BY <1>7, <1>8, AllNaturals
<1>10. \A j \in 0..N : v \div 2^j = f[N - j]
  <2> SUFFICES ASSUME NEW j \in 0..N PROVE v \div 2^j = f[N - j]
    OBVIOUS
  <2>1. j \in Nat /\ j <= N
    OBVIOUS
  <2>2. j \in G
    BY <1>9, <2>1
  <2> QED BY <2>1, <2>2
<1>11. \A j \in 0..(N - 1) : (v \div 2^j) % 2 = p[N - j]
  BY <1>5, <1>10
<1> QED BY <1>4, <1>10, <1>11

(* The word with given bits has them, and two words with the same bits     *)
(* from place n up agree there.                                            *)
Bitmap == [Ints!Bits -> {0, 1}]

LEMMA WordBits ==
  ASSUME W \in Nat \ {0}, NEW b \in Bitmap
  PROVE  /\ Ints!WordOf(b) \in Ints!Words
         /\ \A n \in Ints!Bits : Ints!getBit(Ints!WordOf(b), n) = b[n]
<1> DEFINE word == CHOOSE word : word = [k \in 0..W |->
                     IF k = 0 THEN 0 ELSE 2 * word[k - 1] + b[W - k]]
           p == [k \in 1..W |-> b[W - k]]
           g == [e \in (1..W) \X Nat |-> 2 * e[2] + p[e[1]]]
<1>1. Ints!WordOf(b) = word[W]
  BY DEF Ints!WordOf
<1>2. \A k \in 1..W : p[k] \in {0, 1} /\ p[k] = b[W - k]
  <2>1. \A k \in 1..W : W - k \in Ints!Bits
    BY DEF Ints!Bits
  <2> QED BY <2>1 DEF Bitmap
<1> HIDE DEF p
<1>3. StepsIn(g, W, Nat)
  BY <1>2 DEF StepsIn
<1>4. PICK f \in [0..W -> Nat] :
        f[0] = 0 /\ \A k \in 1..W : f[k] = g[<<k, f[k - 1]>>]
  <2> DEFINE S == Nat
  <2>1. StepsIn(g, W, S)
    <3> HIDE DEF g
    <3> QED BY <1>3
  <2>2. 0 \in S /\ W \in Nat
    OBVIOUS
  <2> HIDE DEF g, S
  <2>3. \E f \in [0..W -> S] : f[0] = 0 /\ \A k \in 1..W : f[k] = g[<<k, f[k - 1]>>]
    BY <2>1, <2>2, StepsExist
  <2> QED BY <2>3 DEF S
<1>5. ASSUME NEW k \in 1..W PROVE f[k] = 2 * f[k - 1] + b[W - k]
  <2>1. <<k, f[k - 1]>> \in (1..W) \X Nat
    BY <1>4
  <2> QED BY <1>2, <1>4, <2>1
<1>6. f = [k \in 0..W |-> IF k = 0 THEN 0 ELSE 2 * f[k - 1] + b[W - k]]
  <2>1. \A k \in 0..W : k = 0 \/ k \in 1..W
    OBVIOUS
  <2> QED BY <1>4, <1>5, <2>1
<1>7. word = [k \in 0..W |-> IF k = 0 THEN 0 ELSE 2 * word[k - 1] + b[W - k]]
  BY <1>6
<1> HIDE DEF word
<1>8. ASSUME NEW k \in 1..W PROVE word[k] = 2 * word[k - 1] + p[k]
  <2>1. k \in 0..W /\ k # 0
    OBVIOUS
  <2> QED BY <1>2, <1>7, <2>1
<1>9. word[0] = 0
  BY <1>7
<1>10. \A k \in 0..W : word[k] \in Nat
  <2> DEFINE G == {n \in Nat : n <= W => word[n] \in Nat}
  <2>1. 0 \in G
    BY <1>9
  <2>2. ASSUME NEW n \in G PROVE n + 1 \in G
    <3> SUFFICES ASSUME n + 1 <= W PROVE word[n + 1] \in Nat
      OBVIOUS
    <3>1. n + 1 \in 1..W /\ word[n] \in Nat /\ n + 1 - 1 = n
      OBVIOUS
    <3>2. p[n + 1] \in Nat
      BY <1>2, <3>1
    <3> QED BY <1>8, <3>1, <3>2
  <2>3. G = Nat
    BY <2>1, <2>2, AllNaturals
  <2> QED BY <2>3
<1>11. word \in [0..W -> Nat]
  BY <1>7, <1>10
<1>12. word[W] \in 0..(2^W - 1) /\ \A j \in 0..(W - 1) : (word[W] \div 2^j) % 2 = p[W - j]
  BY <1>2, <1>8, <1>9, <1>11, BitsFromTop
<1>13. \A n \in Ints!Bits : p[W - n] = b[n]
  <2>1. \A n \in 0..(W - 1) : W - n \in 1..W /\ W - (W - n) = n
    OBVIOUS
  <2> QED BY <1>2, <2>1 DEF Ints!Bits
<1> QED
  BY <1>1, <1>12, <1>13 DEF Ints!Words, Ints!Bits, Ints!getBit

LEMMA BitIs01 ==
  ASSUME NEW v \in Nat, NEW n \in Nat
  PROVE  Ints!getBit(v, n) \in {0, 1}
<1> DEFINE d == v \div 2^n
<1>1. d \in Nat
  BY DivPow
<1> HIDE DEF d
<1>2. d % 2 \in {0, 1}
  BY <1>1
<1> QED BY <1>2 DEF d, Ints!getBit

LEMMA EqualAbove ==
  ASSUME W \in Nat \ {0}, NEW v \in Ints!Words, NEW w \in Ints!Words, NEW n \in 0..W
  PROVE  (v \div 2^n = w \div 2^n)
           <=> \A k \in n..(W - 1) : Ints!getBit(v, k) = Ints!getBit(w, k)
<1> DEFINE Same(m) == (v \div 2^m = w \div 2^m)
                        <=> \A k \in m..(W - 1) : Ints!getBit(v, k) = Ints!getBit(w, k)
           G == {m \in Nat : m <= W => Same(W - m)}
<1>1. v \in Nat /\ w \in Nat /\ 2^W \in Nat \ {0} /\ v \in 0..(2^W - 1) /\ w \in 0..(2^W - 1)
  BY PowNat DEF Ints!Words
<1>2. v \div 2^W = 0 /\ w \div 2^W = 0
  <2> DEFINE T == 2^W
  <2>1. T \in Nat \ {0} /\ v \in 0..(T - 1) /\ w \in 0..(T - 1) /\ 0 \in Nat
        /\ T * 0 + v = v /\ T * 0 + w = w
    BY <1>1
  <2> HIDE DEF T
  <2>2. v \div T = 0 /\ w \div T = 0
    BY <2>1, DivModOf
  <2> QED BY <2>2 DEF T
<1>3. 0 \in G
  BY <1>2
<1>4. ASSUME NEW m \in G PROVE m + 1 \in G
  <2> SUFFICES ASSUME m + 1 <= W PROVE Same(W - (m + 1))
    OBVIOUS
  <2> DEFINE j == W - (m + 1)
             a == v \div 2^j
             b == w \div 2^j
             a1 == v \div 2^(j + 1)
             b1 == w \div 2^(j + 1)
  <2>1. j \in Nat /\ j + 1 = W - m /\ m <= W /\ j \in 0..(W - 1)
    OBVIOUS
  <2>2. Same(j + 1)
    BY <2>1
  <2>3. /\ a \in Nat /\ a1 \in Nat /\ a1 = a \div 2 /\ a = 2 * a1 + (a % 2)
        /\ b \in Nat /\ b1 \in Nat /\ b1 = b \div 2 /\ b = 2 * b1 + (b % 2)
    BY <1>1, <2>1, DivPow
  <2>4. Ints!getBit(v, j) = a % 2 /\ Ints!getBit(w, j) = b % 2
    BY DEF Ints!getBit
  <2>5. a = b <=> a1 = b1 /\ a % 2 = b % 2
    <3> HIDE DEF a, b, a1, b1
    <3>1. a = b => a1 = b1 /\ a % 2 = b % 2
      BY <2>3
    <3>2. a1 = b1 /\ a % 2 = b % 2 => a = b
      BY <2>3
    <3> QED BY <3>1, <3>2
  <2>6. a1 = b1 <=> \A k \in (j + 1)..(W - 1) : Ints!getBit(v, k) = Ints!getBit(w, k)
    BY <2>2
  <2> HIDE DEF a, b, a1, b1, j
  <2>7. \A k : k \in j..(W - 1) <=> k = j \/ k \in (j + 1)..(W - 1)
    BY <2>1
  <2>8. a = b <=> \A k \in j..(W - 1) : Ints!getBit(v, k) = Ints!getBit(w, k)
    BY <2>4, <2>5, <2>6, <2>7
  <2> QED BY <2>8 DEF a, b, j
<1>5. G = Nat
  <2> HIDE DEF Same
  <2> QED BY <1>3, <1>4, AllNaturals
<1>6. W - n \in Nat /\ W - (W - n) = n /\ W - n <= W
  OBVIOUS
<1>7. Same(n)
  <2> HIDE DEF Same
  <2>1. W - n \in G
    BY <1>5, <1>6
  <2> QED BY <1>6, <2>1
<1> QED BY <1>7

(* Words with the same bits are equal. *)
LEMMA SameBits ==
  ASSUME W \in Nat \ {0}, NEW v \in Ints!Words, NEW w \in Ints!Words,
         \A k \in Ints!Bits : Ints!getBit(v, k) = Ints!getBit(w, k)
  PROVE  v = w
<1>1. v \in Nat /\ w \in Nat /\ 2^0 = 1
  BY PowNat, PowSmall DEF Ints!Words
<1>2. v \div 2^0 = w \div 2^0
  <2>1. 0 \in 0..W /\ Ints!Bits = 0..(W - 1)
    BY DEF Ints!Bits
  <2> QED BY <2>1, EqualAbove
<1>3. v \div 1 = v /\ w \div 1 = w
  BY <1>1
<1> QED BY <1>1, <1>2, <1>3

(* The length of an int path: the place below which all bits are alike.    *)
LEMMA IntsMin ==
  ASSUME NEW S \in SUBSET Nat, S # {}
  PROVE  Ints!Min(S) \in S /\ \A y \in S : Ints!Min(S) <= y
<1>1. Ints!Min(S) = Min(S)
  BY DEF Ints!Min, Min
<1> QED BY <1>1, MinIsLeast

LEMMA LengthIs ==
  ASSUME W \in Nat \ {0}, NEW v \in Ints!Words, NEW len, len = Ints!GetIntPathLength(v)
  PROVE  /\ len \in 0..(W - 1)
         /\ \A n \in 0..(W - 1) : n < W - len => Ints!getBit(v, n) = Ints!getBit(v, 0)
         /\ len # 0 => Ints!getBit(v, W - len) # Ints!getBit(v, 0)
<1> DEFINE others == {n \in Ints!Bits : Ints!getBit(v, n) # Ints!getBit(v, 0)}
           m == Ints!Min(others)
<1>1. len = IF others = {} THEN 0 ELSE W - m
  BY DEF Ints!GetIntPathLength
<1>2. others \in SUBSET Nat /\ Ints!Bits = 0..(W - 1)
  BY DEF Ints!Bits
<1>3. ASSUME others = {}
      PROVE  len = 0 /\ \A n \in 0..(W - 1) : Ints!getBit(v, n) = Ints!getBit(v, 0)
  BY <1>1, <1>2, <1>3
<1>4. ASSUME others # {}
      PROVE  /\ len = W - m /\ m \in 1..(W - 1)
             /\ Ints!getBit(v, m) # Ints!getBit(v, 0)
             /\ \A n \in 0..(W - 1) : n < m => Ints!getBit(v, n) = Ints!getBit(v, 0)
  <2>1. m \in others /\ \A y \in others : m <= y
    <3> HIDE DEF others
    <3> QED BY <1>2, <1>4, IntsMin
  <2>2. m \in 0..(W - 1) /\ Ints!getBit(v, m) # Ints!getBit(v, 0)
    BY <1>2, <2>1
  <2>3. m # 0
    BY <2>2
  <2>4. ASSUME NEW n \in 0..(W - 1), n < m PROVE Ints!getBit(v, n) = Ints!getBit(v, 0)
    <3>1. n \notin others
      <4> HIDE DEF others, m
      <4>1. ~ (m <= n)
        BY <2>2, <2>4
      <4> QED BY <2>1, <4>1
    <3> QED BY <1>2, <3>1
  <2>5. m \in 1..(W - 1)
    <3> HIDE DEF m
    <3> QED BY <2>2, <2>3
  <2> QED BY <1>1, <1>4, <2>2, <2>4, <2>5
<1> HIDE DEF others, m
<1>5. CASE others = {}
  BY <1>3, <1>5
<1>6. CASE others # {}
  <2>1. len = W - m /\ m \in 1..(W - 1)
    BY <1>4, <1>6
  <2>2. W - len = m /\ len \in 0..(W - 1)
    BY <2>1
  <2> QED BY <1>4, <1>6, <2>2
<1> QED BY <1>5, <1>6

LEMMA LengthOf ==
  ASSUME W \in Nat \ {0}, NEW v \in Ints!Words, NEW len \in 0..(W - 1), NEW c,
         \A n \in 0..(W - 1) : n < W - len => Ints!getBit(v, n) = c,
         len # 0 => Ints!getBit(v, W - len) # c
  PROVE  Ints!GetIntPathLength(v) = len
<1> DEFINE k == Ints!GetIntPathLength(v)
<1>1. /\ k \in 0..(W - 1)
      /\ \A n \in 0..(W - 1) : n < W - k => Ints!getBit(v, n) = Ints!getBit(v, 0)
      /\ k # 0 => Ints!getBit(v, W - k) # Ints!getBit(v, 0)
  BY LengthIs
<1>2. Ints!getBit(v, 0) = c
  <2>1. 0 \in 0..(W - 1) /\ 0 < W - len
    OBVIOUS
  <2> QED BY <2>1
<1> HIDE DEF k
<1>3. ~ (k < len)
  <2> SUFFICES ASSUME k < len PROVE FALSE
    OBVIOUS
  <2>1. W - len \in 0..(W - 1) /\ W - len < W - k /\ len # 0
    BY <1>1
  <2> QED BY <1>1, <1>2, <2>1
<1>4. ~ (len < k)
  <2> SUFFICES ASSUME len < k PROVE FALSE
    OBVIOUS
  <2>1. W - k \in 0..(W - 1) /\ W - k < W - len /\ k # 0
    BY <1>1
  <2> QED BY <1>1, <1>2, <2>1
<1> QED BY <1>1, <1>3, <1>4 DEF k

(* An int path as a sequence of bits, and back.                            *)
LEMMA PathOfInt ==
  ASSUME W \in Nat \ {0}, NEW v \in Ints!Words
  PROVE  LET p == Ints!IntToPath(v)
         IN  /\ p \in Seq(Bits01) /\ Len(p) = Ints!GetIntPathLength(v)
             /\ Len(p) \in 0..(W - 1)
             /\ \A n \in 1..Len(p) : p[n] = Ints!getBit(v, W - n)
<1> DEFINE k == Ints!GetIntPathLength(v)
           p == [n \in 1..k |-> Ints!getBit(v, W - n)]
<1>1. k \in 0..(W - 1)
  BY LengthIs
<1>2. Ints!IntToPath(v) = p
  BY DEF Ints!IntToPath
<1> HIDE DEF k
<1>3. \A n \in 1..k : W - n \in Nat
  BY <1>1
<1>4. v \in Nat
  BY PowNat DEF Ints!Words
<1>5. p \in [1..k -> Bits01] /\ \A n \in 1..k : p[n] = Ints!getBit(v, W - n)
  BY <1>3, <1>4, BitIs01 DEF Bits01
<1> HIDE DEF p
<1>6. p \in Seq(Bits01) /\ Len(p) = k
  BY <1>1, <1>5
<1> QED BY <1>1, <1>2, <1>5, <1>6 DEF k

LEMMA IntOfPath ==
  ASSUME W \in Nat \ {0}, NEW p \in Seq(Bits01), Len(p) \in 1..(W - 1)
  PROVE  /\ Ints!PathToInt(p) \in Ints!Words
         /\ \A n \in 0..(W - 1) : Ints!getBit(Ints!PathToInt(p), n) =
              IF W - n <= Len(p) THEN p[W - n] ELSE 1 - p[Len(p)]
<1> DEFINE b == [n \in Ints!Bits |-> IF W - n <= Len(p) THEN p[W - n] ELSE 1 - p[Len(p)]]
<1>1. Ints!Bits = 0..(W - 1)
  BY DEF Ints!Bits
<1>2. b \in Bitmap
  <2> SUFFICES ASSUME NEW n \in 0..(W - 1)
               PROVE  (IF W - n <= Len(p) THEN p[W - n] ELSE 1 - p[Len(p)]) \in {0, 1}
    BY <1>1 DEF Bitmap
  <2>1. \A j \in 1..Len(p) : p[j] \in {0, 1}
    BY DEF Bits01
  <2>2. W - n \in Nat \ {0} /\ Len(p) \in 1..Len(p)
    OBVIOUS
  <2>3. W - n <= Len(p) => p[W - n] \in {0, 1}
    BY <2>1, <2>2
  <2>4. p[Len(p)] \in {0, 1}
    BY <2>1, <2>2
  <2> QED BY <2>3, <2>4
<1>3. Ints!PathToInt(p) = Ints!WordOf(b)
  <2>1. p # <<>> /\ Ints!Last(p) = p[Len(p)]
    BY DEF Ints!Last
  <2> QED BY <2>1 DEF Ints!PathToInt
<1>4. Ints!WordOf(b) \in Ints!Words
      /\ \A n \in Ints!Bits : Ints!getBit(Ints!WordOf(b), n) = b[n]
  <2> HIDE DEF b
  <2> QED BY <1>2, WordBits
<1> QED BY <1>1, <1>3, <1>4

LEMMA ZeroIsEmpty ==
  ASSUME W \in Nat \ {0}
  PROVE  0 \in Ints!Words /\ Ints!IntToPath(0) = <<>>
<1>1. 0 \in Ints!Words
  <2> DEFINE T == 2^W
  <2>1. T \in Nat \ {0} /\ Ints!Words = 0..(T - 1)
    BY PowNat DEF Ints!Words
  <2> HIDE DEF T
  <2> QED BY <2>1
<1>2. \A n \in Nat : Ints!getBit(0, n) = 0
  <2> SUFFICES ASSUME NEW n \in Nat PROVE Ints!getBit(0, n) = 0
    OBVIOUS
  <2> DEFINE e == 2^n
  <2>1. e \in Nat \ {0}
    BY PowNat
  <2> HIDE DEF e
  <2>2. 0 \div e = 0
    <3>1. 0 \in Nat /\ 0 \in 0..(e - 1) /\ e * 0 + 0 = 0
      BY <2>1
    <3> QED BY <2>1, <3>1, DivModOf
  <2>3. Ints!getBit(0, n) = (0 \div e) % 2
    BY DEF e, Ints!getBit
  <2> QED BY <2>2, <2>3
<1>3. Ints!GetIntPathLength(0) = 0
  <2>1. 0 \in 0..(W - 1) /\ \A n \in 0..(W - 1) : Ints!getBit(0, n) = 0
    BY <1>2
  <2> QED BY <1>1, <2>1, LengthOf
<1> QED BY <1>1, <1>3, PathOfInt

LEMMA RoundTrip ==
  ASSUME W \in Nat \ {0}, NEW p \in Seq(Bits01), Len(p) < W
  PROVE  Ints!PathToInt(p) \in Ints!Words /\ Ints!IntToPath(Ints!PathToInt(p)) = p
<1>1. CASE p = <<>>
  BY <1>1, ZeroIsEmpty DEF Ints!PathToInt
<1>2. CASE p # <<>>
  <2> DEFINE v == Ints!PathToInt(p)
             L == Len(p)
             q == Ints!IntToPath(v)
  <2>1. L \in 1..(W - 1) /\ \A n \in 1..L : p[n] \in {0, 1}
    BY <1>2 DEF Bits01
  <2>2. v \in Ints!Words
        /\ \A n \in 0..(W - 1) : Ints!getBit(v, n) = IF W - n <= L THEN p[W - n] ELSE 1 - p[L]
    BY <2>1, IntOfPath
  <2> HIDE DEF v
  <2>3. Ints!GetIntPathLength(v) = L
    <3> DEFINE c == 1 - p[L]
    <3>0. p[L] # c /\ p[L] \in {0, 1}
      <4>1. L \in 1..L
        BY <2>1
      <4>2. p[L] \in {0, 1}
        BY <2>1, <4>1
      <4> QED BY <4>2
    <3> HIDE DEF c, L
    <3>1. \A n \in 0..(W - 1) : n < W - L => ~ (W - n <= L)
      BY <2>1
    <3>2. \A n \in 0..(W - 1) : n < W - L => Ints!getBit(v, n) = c
      BY <2>2, <3>1 DEF c
    <3>3. W - L \in 0..(W - 1) /\ W - (W - L) = L /\ L <= L /\ L \in 0..(W - 1)
      BY <2>1
    <3>4. Ints!getBit(v, W - L) # c
      BY <2>2, <3>0, <3>3
    <3> QED BY <2>2, <3>2, <3>3, <3>4, LengthOf
  <2>4. q \in Seq(Bits01) /\ Len(q) = L /\ \A n \in 1..L : q[n] = Ints!getBit(v, W - n)
    BY <2>2, <2>3, PathOfInt
  <2>5. ASSUME NEW n \in 1..L PROVE q[n] = p[n]
    <3> HIDE DEF q, L
    <3>1. W - n \in 0..(W - 1) /\ W - (W - n) = n /\ n <= L
      BY <2>1
    <3> QED BY <2>2, <2>4, <3>1
  <2>6. q = p
    <3> HIDE DEF q
    <3> QED BY <2>4, <2>5
  <2> QED BY <2>2, <2>6 DEF v
<1> QED BY <1>1, <1>2

(* Cutting an int after n bits of its path.                                *)
LEMMA CutInt ==
  ASSUME W \in Nat \ {0}, NEW v \in Ints!Words, NEW p, p = Ints!IntToPath(v),
         NEW n \in 1..Len(p)
  PROVE  Ints!PathSubStringInt(v, n) = Ints!PathToInt(SubSeq(p, 1, n))
<1>1. p \in Seq(Bits01) /\ Len(p) \in 0..(W - 1)
      /\ \A k \in 1..Len(p) : p[k] = Ints!getBit(v, W - k)
  BY PathOfInt
<1> DEFINE q == SubSeq(p, 1, n)
<1>2. q \in Seq(Bits01) /\ Len(q) = n /\ \A k \in 1..n : q[k] = p[k]
  BY <1>1
<1> HIDE DEF q
<1> DEFINE b == [k \in Ints!Bits |-> IF k < W - n THEN 1 - Ints!getBit(v, W - n)
                                                  ELSE Ints!getBit(v, k)]
<1>3. n \in 1..(W - 1) /\ Ints!Bits = 0..(W - 1) /\ W - n \in Nat /\ v \in Nat
  BY <1>1, PowNat DEF Ints!Bits, Ints!Words
<1>4. b \in Bitmap
  <2>1. \A k \in 0..(W - 1) : Ints!getBit(v, k) \in {0, 1}
    BY <1>3, BitIs01
  <2>2. Ints!getBit(v, W - n) \in {0, 1}
    BY <1>3, BitIs01
  <2>3. 1 - Ints!getBit(v, W - n) \in {0, 1}
    BY <2>2
  <2> QED BY <1>3, <2>1, <2>3 DEF Bitmap
<1>5. Ints!PathSubStringInt(v, n) = Ints!WordOf(b)
  BY DEF Ints!PathSubStringInt
<1> DEFINE w == Ints!WordOf(b)
           x == Ints!PathToInt(q)
<1>6. w \in Ints!Words /\ \A k \in Ints!Bits : Ints!getBit(w, k) = b[k]
  <2> HIDE DEF b
  <2> QED BY <1>4, WordBits
<1>7. x \in Ints!Words /\ \A k \in 0..(W - 1) : Ints!getBit(x, k) =
                            IF W - k <= n THEN q[W - k] ELSE 1 - q[n]
  BY <1>2, <1>3, IntOfPath
<1>8. ASSUME NEW k \in 0..(W - 1)
      PROVE  b[k] = IF W - k <= n THEN q[W - k] ELSE 1 - q[n]
  <2>1. b[k] = IF k < W - n THEN 1 - Ints!getBit(v, W - n) ELSE Ints!getBit(v, k)
    BY <1>3
  <2>2. q[n] = Ints!getBit(v, W - n)
    <3>1. n \in 1..n /\ n \in 1..Len(p)
      BY <1>3
    <3> QED BY <1>1, <1>2, <3>1
  <2>3. CASE k < W - n
    <3>1. ~ (W - k <= n)
      BY <1>3, <2>3
    <3> QED BY <2>1, <2>2, <2>3, <3>1
  <2>4. CASE ~ (k < W - n)
    <3>1. W - k <= n /\ W - k \in 1..n /\ W - (W - k) = k /\ W - k \in 1..Len(p)
      BY <1>1, <1>3, <2>4
    <3>2. q[W - k] = Ints!getBit(v, k)
      BY <1>1, <1>2, <3>1
    <3> QED BY <2>1, <2>4, <3>1, <3>2
  <2> QED BY <2>3, <2>4
<1>9. w = x
  <2> HIDE DEF b, q, w, x
  <2>1. ASSUME NEW k \in Ints!Bits PROVE Ints!getBit(w, k) = Ints!getBit(x, k)
    <3>1. k \in 0..(W - 1)
      BY DEF Ints!Bits
    <3>2. Ints!getBit(x, k) = b[k]
      BY <1>7, <1>8, <3>1
    <3> QED BY <1>6, <3>2
  <2>2. w \in Ints!Words /\ x \in Ints!Words
    BY <1>6, <1>7
  <2> QED BY <2>1, <2>2, SameBits
<1> QED BY <1>5, <1>9 DEF q

(* The callers put words into the vector, nothing else.                    *)
IntsInv == paths \in Seq(Ints!Words)

LEMMA IntsInit == Ints!Init => IntsInv
BY DEF Ints!Init, IntsInv

LEMMA IntsStep == IntsInv /\ [Ints!Call]_paths => IntsInv'
BY DEF Ints!Call, IntsInv

LEMMA StringsAre ==
  ASSUME W \in Nat \ {0}, IntsInv
  PROVE  /\ DOMAIN Ints!Strings = 1..Len(paths) /\ Len(paths) \in Nat
         /\ \A k \in 1..Len(paths) :
              /\ paths[k] \in Ints!Words
              /\ Ints!Strings[k] = Ints!IntToPath(paths[k])
              /\ Ints!Strings[k] \in Seq(Bits01)
              /\ Len(Ints!Strings[k]) = Ints!GetIntPathLength(paths[k])
              /\ Len(Ints!Strings[k]) \in 0..(W - 1)
         /\ Ints!Range(Ints!Strings) = {Ints!Strings[k] : k \in 1..Len(paths)}
<1>1. DOMAIN paths = 1..Len(paths) /\ Len(paths) \in Nat
      /\ \A k \in 1..Len(paths) : paths[k] \in Ints!Words
  BY DEF IntsInv
<1>2. DOMAIN Ints!Strings = 1..Len(paths)
      /\ \A k \in 1..Len(paths) : Ints!Strings[k] = Ints!IntToPath(paths[k])
  BY <1>1 DEF Ints!Strings
<1>3. Ints!Range(Ints!Strings) = {Ints!Strings[k] : k \in 1..Len(paths)}
  BY <1>2 DEF Ints!Range
<1> QED BY <1>1, <1>2, <1>3, PathOfInt

(* common.cpp: a path comes back from its int, and the beginning of an int *)
(* path is the int of the beginning, for ints of any width.                *)
THEOREM PathsComeBack == Ints!Spec => []PathsSurvive
<1> SUFFICES ASSUME W \in Nat \ {0} PROVE Ints!Spec => []PathsSurvive
  BY WordAssumption
<1>1. IntsInv => PathsSurvive
  <2> SUFFICES ASSUME IntsInv, NEW p \in Ints!Range(Ints!Strings)
               PROVE  /\ Ints!IntToPath(Ints!PathToInt(p)) = p
                      /\ \A n \in 1..Len(p) :
                           Ints!PathSubStringInt(Ints!PathToInt(p), n)
                             = Ints!PathToInt(SubSeq(p, 1, n))
    BY DEF PathsSurvive, Ints!PathsSurvive
  <2>1. p \in Seq(Bits01) /\ Len(p) < W
    BY StringsAre
  <2> DEFINE v == Ints!PathToInt(p)
  <2>2. v \in Ints!Words /\ Ints!IntToPath(v) = p
    BY <2>1, RoundTrip
  <2> HIDE DEF v
  <2>3. \A n \in 1..Len(p) : Ints!PathSubStringInt(v, n) = Ints!PathToInt(SubSeq(p, 1, n))
    BY <2>2, CutInt
  <2> QED BY <2>2, <2>3 DEF v
<1> QED
  BY <1>1, IntsInit, IntsStep, PTL DEF Ints!Spec

LEMMA PrefixIs ==
  ASSUME NEW p \in Seq(Bits01), NEW q \in Seq(Bits01)
  PROVE  Ints!IsPrefix(p, q)
           <=> Len(p) <= Len(q) /\ \A k \in 1..Len(p) : p[k] = q[k]
<1>1. ASSUME Len(p) <= Len(q)
      PROVE  SubSeq(p, 1, Len(p)) = SubSeq(q, 1, Len(p))
               <=> \A k \in 1..Len(p) : p[k] = q[k]
  <2> DEFINE a == SubSeq(p, 1, Len(p))
             b == SubSeq(q, 1, Len(p))
  <2>1. a \in Seq(Bits01) /\ Len(a) = Len(p) /\ \A k \in 1..Len(p) : a[k] = p[k]
    OBVIOUS
  <2>2. b \in Seq(Bits01) /\ Len(b) = Len(p) /\ \A k \in 1..Len(p) : b[k] = q[k]
    BY <1>1
  <2> HIDE DEF a, b
  <2>3. a = b => \A k \in 1..Len(p) : p[k] = q[k]
    BY <2>1, <2>2
  <2>4. (\A k \in 1..Len(p) : p[k] = q[k]) => a = b
    BY <2>1, <2>2
  <2> QED BY <2>3, <2>4 DEF a, b
<1> QED BY <1>1 DEF Ints!IsPrefix

(* What the XOR and the shift compare.                                     *)
LEMMA DifferIs ==
  ASSUME W \in Nat \ {0}, NEW v \in Ints!Words, NEW w \in Ints!Words,
         NEW p, p = Ints!IntToPath(v), NEW q, q = Ints!IntToPath(w),
         NEW j \in 1..(W - 1), j <= Len(p), j <= Len(q)
  PROVE  Ints!DifferAbove(v, w, W - j) <=> ~ \A k \in 1..j : p[k] = q[k]
<1> DEFINE n == W - j
<1>1. n \in 0..W /\ n \in Nat /\ n < W
  OBVIOUS
<1>2. n % W = n
  <2>1. 0 \in Nat /\ n \in 0..(W - 1) /\ W * 0 + n = n
    BY <1>1
  <2> QED BY <2>1, DivModOf
<1>3. (v \div 2^n = w \div 2^n)
        <=> \A k \in n..(W - 1) : Ints!getBit(v, k) = Ints!getBit(w, k)
  BY <1>1, EqualAbove
<1>4. /\ Len(p) \in Nat /\ \A k \in 1..Len(p) : p[k] = Ints!getBit(v, W - k)
      /\ Len(q) \in Nat /\ \A k \in 1..Len(q) : q[k] = Ints!getBit(w, W - k)
  BY PathOfInt
<1>5. \A k \in 1..j : k \in 1..Len(p) /\ k \in 1..Len(q) /\ W - k \in n..(W - 1)
  BY <1>4
<1>6. ASSUME \A k \in n..(W - 1) : Ints!getBit(v, k) = Ints!getBit(w, k)
      PROVE  \A k \in 1..j : p[k] = q[k]
  BY <1>4, <1>5, <1>6
<1>7. ASSUME \A k \in 1..j : p[k] = q[k],
             NEW k \in n..(W - 1)
      PROVE  Ints!getBit(v, k) = Ints!getBit(w, k)
  <2>1. W - k \in 1..j /\ W - (W - k) = k
    BY <1>1
  <2>2. p[W - k] = Ints!getBit(v, k) /\ q[W - k] = Ints!getBit(w, k)
    BY <1>4, <1>5, <2>1
  <2> QED BY <1>7, <2>1, <2>2
<1>8. Ints!DifferAbove(v, w, n) <=> ~ (v \div 2^n = w \div 2^n)
  BY <1>2 DEF Ints!DifferAbove
<1> QED BY <1>3, <1>6, <1>7, <1>8

(* The longest and the first of a length. *)
LEMMA LensAre ==
  ASSUME W \in Nat \ {0}, IntsInv
  PROVE  /\ \A k \in 1..Len(paths) : /\ Ints!Lens(paths)[k] \in 0..(W - 1)
                                     /\ Ints!Lens(paths)[k] = Len(Ints!Strings[k])
         /\ Ints!Range(Ints!Lens(paths)) = {Len(Ints!Strings[k]) : k \in 1..Len(paths)}
         /\ Ints!Range(Ints!Lens(paths)) \in SUBSET (0..(W - 1))
         /\ Ints!Range(Ints!Lens(paths)) \in SUBSET Nat
         /\ IsFiniteSet(Ints!Range(Ints!Lens(paths)))
<1>1. DOMAIN paths = 1..Len(paths)
  BY DEF IntsInv
<1>2. DOMAIN Ints!Lens(paths) = 1..Len(paths)
      /\ \A k \in 1..Len(paths) : Ints!Lens(paths)[k] = Ints!GetIntPathLength(paths[k])
  BY <1>1 DEF Ints!Lens
<1>3. \A k \in 1..Len(paths) : /\ Ints!Lens(paths)[k] \in 0..(W - 1)
                               /\ Ints!Lens(paths)[k] = Len(Ints!Strings[k])
  BY <1>2, StringsAre
<1>4. Ints!Range(Ints!Lens(paths)) = {Len(Ints!Strings[k]) : k \in 1..Len(paths)}
  BY <1>2, <1>3 DEF Ints!Range
<1>5. Ints!Range(Ints!Lens(paths)) \in SUBSET (0..(W - 1))
  BY <1>3, <1>4
<1>6. 0..(W - 1) \in SUBSET Nat
  OBVIOUS
<1>7. IsFiniteSet(0..(W - 1))
  BY FS_Interval
<1>8. IsFiniteSet(Ints!Range(Ints!Lens(paths)))
  BY <1>5, <1>7, FS_Subset
<1> QED BY <1>3, <1>4, <1>5, <1>6, <1>8

LEMMA FirstIs ==
  ASSUME W \in Nat \ {0}, IntsInv, NEW len, NEW i0 \in 1..Len(paths),
         Len(Ints!Strings[i0]) = len
  PROVE  \E k \in 1..Len(paths) :
           Ints!FirstOf(paths, len) = paths[k] /\ Len(Ints!Strings[k]) = len
<1> DEFINE S == {k \in 1..Len(paths) : Len(Ints!Strings[k]) = len}
<1>1. S \in SUBSET Nat /\ S # {}
  <2>1. Len(paths) \in Nat
    BY DEF IntsInv
  <2> QED BY <2>1
<1>2. S = {k \in DOMAIN paths : Ints!Lens(paths)[k] = len}
  BY LensAre DEF IntsInv
<1>3. Ints!FirstOf(paths, len) = paths[Ints!Min(S)]
  BY <1>2 DEF Ints!FirstOf
<1>4. Ints!Min(S) \in S
  <2> HIDE DEF S
  <2> QED BY <1>1, IntsMin
<1> QED BY <1>3, <1>4

LEMMA LongestIs ==
  ASSUME W \in Nat \ {0}, IntsInv, paths # <<>>,
         NEW top, top = Ints!Max(Ints!Range(Ints!Lens(paths)))
  PROVE  /\ top \in 0..(W - 1)
         /\ \E k \in 1..Len(paths) : Len(Ints!Strings[k]) = top
         /\ \A k \in 1..Len(paths) : Len(Ints!Strings[k]) <= top
<1> DEFINE S == Ints!Range(Ints!Lens(paths))
<1>1. S = {Len(Ints!Strings[k]) : k \in 1..Len(paths)} /\ S \in SUBSET Nat
      /\ IsFiniteSet(S) /\ S \in SUBSET (0..(W - 1))
  BY LensAre
<1>2. S # {}
  <2>1. 1 \in 1..Len(paths)
    BY DEF IntsInv
  <2> QED BY <1>1, <2>1
<1>3. top = Max(S)
  BY DEF Ints!Max, Max
<1> HIDE DEF S
<1>4. top \in S /\ \A y \in S : y <= top
  BY <1>1, <1>2, <1>3, MaxIsGreatest
<1> QED BY <1>1, <1>4

(* The overlap, with the longest path for witness.                         *)
LEMMA OverlapIs ==
  ASSUME W \in Nat \ {0}, IntsInv, paths # <<>>
  PROVE  LET s == Ints!Strings
         IN \E k0 \in 1..Len(paths) :
              /\ \A k \in 1..Len(paths) : Len(s[k]) <= Len(s[k0])
              /\ LET way == \A k \in 1..Len(paths) :
                              s[k] # <<>> /\ Ints!IsPrefix(s[k], s[k0])
                 IN Ints!IntToPath(Ints!GetOverlapPath(paths)) =
                      IF way THEN s[k0] ELSE <<>>
<1> DEFINE s == Ints!Strings
           top == Ints!Max(Ints!Range(Ints!Lens(paths)))
           first == Ints!FirstOf(paths, top)
<1>1. top \in 0..(W - 1) /\ \A k \in 1..Len(paths) : Len(s[k]) <= top
  BY LongestIs
<1>2. PICK k1 \in 1..Len(paths) : Len(s[k1]) = top
  BY LongestIs
<1>3. PICK k0 \in 1..Len(paths) : first = paths[k0] /\ Len(s[k0]) = top
  BY <1>2, FirstIs
<1> DEFINE Differs(k) == Ints!DifferAbove(paths[k], first, W - Ints!Lens(paths)[k])
           way == \A k \in 1..Len(paths) : s[k] # <<>> /\ Ints!IsPrefix(s[k], s[k0])
<1>4. Ints!GetOverlapPath(paths) = IF \E k \in 1..Len(paths) : Differs(k) THEN 0 ELSE first
  <2>1. DOMAIN paths = 1..Len(paths)
    BY DEF IntsInv
  <2> QED BY <2>1 DEF Ints!GetOverlapPath
<1>5. \A k \in 1..Len(paths) :
        /\ paths[k] \in Ints!Words /\ s[k] = Ints!IntToPath(paths[k])
        /\ s[k] \in Seq(Bits01) /\ Len(s[k]) \in 0..(W - 1)
        /\ Ints!Lens(paths)[k] = Len(s[k])
  BY StringsAre, LensAre
<1> HIDE DEF top, first, s
<1>6. ASSUME NEW k \in 1..Len(paths), s[k] # <<>>
      PROVE  Differs(k) <=> ~ Ints!IsPrefix(s[k], s[k0])
  <2> DEFINE j == Len(s[k])
  <2>1. s[k] \in Seq(Bits01) /\ s[k0] \in Seq(Bits01) /\ j \in 1..(W - 1) /\ j <= Len(s[k0])
    BY <1>1, <1>3, <1>5, <1>6
  <2>2. Ints!DifferAbove(paths[k], first, W - j) <=> ~ \A i \in 1..j : s[k][i] = s[k0][i]
    <3>1. paths[k] \in Ints!Words /\ first \in Ints!Words
          /\ s[k] = Ints!IntToPath(paths[k]) /\ s[k0] = Ints!IntToPath(first)
      BY <1>3, <1>5
    <3> DEFINE v == paths[k]
               p == s[k]
               q == s[k0]
    <3>2. j <= Len(p) /\ j <= Len(q) /\ j \in 1..(W - 1)
      BY <2>1
    <3> HIDE DEF v, p, q, j
    <3>3. Ints!DifferAbove(v, first, W - j) <=> ~ \A i \in 1..j : p[i] = q[i]
      BY <3>1, <3>2, DifferIs DEF v, p, q
    <3> QED BY <3>3 DEF v, p, q
  <2>3. Ints!IsPrefix(s[k], s[k0]) <=> \A i \in 1..j : s[k][i] = s[k0][i]
    BY <2>1, PrefixIs
  <2> QED BY <1>5, <2>2, <2>3
<1>7. CASE way
  <2>1. \A k \in 1..Len(paths) : ~Differs(k)
    BY <1>6, <1>7
  <2>2. Ints!GetOverlapPath(paths) = first
    BY <1>4, <2>1
  <2>3. Ints!IntToPath(Ints!GetOverlapPath(paths)) = s[k0]
    BY <1>3, <1>5, <2>2
  <2> QED BY <1>1, <1>3, <1>7, <2>3 DEF s
<1>8. CASE ~way
  <2>1. Ints!IntToPath(0) = <<>>
    BY ZeroIsEmpty
  <2>2. Ints!IntToPath(Ints!GetOverlapPath(paths)) = <<>>
    <3>1. CASE \E k \in 1..Len(paths) : Differs(k)
      BY <1>4, <2>1, <3>1
    <3>2. CASE ~ \E k \in 1..Len(paths) : Differs(k)
      <4>1. PICK k \in 1..Len(paths) : s[k] = <<>>
        BY <1>6, <1>8, <3>2
      <4>2. Ints!DifferAbove(paths[k], first, W) <=> paths[k] # first
        <5> DEFINE v == paths[k]
        <5>1. W % W = 0 /\ 2^0 = 1
          <6>1. 1 \in Nat /\ 0 \in 0..(W - 1) /\ W * 1 + 0 = W
            OBVIOUS
          <6> QED BY <6>1, DivModOf, PowSmall
        <5>2. v \in Nat /\ first \in Nat
          BY <1>3, <1>5, PowNat DEF Ints!Words
        <5> HIDE DEF v
        <5>3. v \div 1 = v /\ first \div 1 = first
          BY <5>2
        <5>4. Ints!DifferAbove(v, first, W) <=> v # first
          BY <5>1, <5>3 DEF Ints!DifferAbove
        <5> QED BY <5>4 DEF v
      <4>3. Ints!Lens(paths)[k] = 0 /\ W - 0 = W
        BY <1>5, <4>1
      <4>4. paths[k] = first
        BY <3>2, <4>2, <4>3
      <4>5. Ints!IntToPath(first) = <<>>
        BY <1>5, <4>1, <4>4
      <4> QED BY <1>4, <3>2, <4>5
    <3> QED BY <3>1, <3>2
  <2> QED BY <1>1, <1>3, <1>8, <2>2 DEF s
<1> QED BY <1>7, <1>8

(* Prefixes of the same length are the same. *)
LEMMA PrefixSame ==
  ASSUME NEW p \in Seq(Bits01), NEW q \in Seq(Bits01), Ints!IsPrefix(p, q), Len(p) = Len(q)
  PROVE  p = q
<1>1. \A k \in 1..Len(p) : p[k] = q[k]
  BY PrefixIs
<1> QED BY <1>1

(* The version on strings answers the same. *)
LEMMA OldIs ==
  ASSUME W \in Nat \ {0}, IntsInv, NEW k0 \in 1..Len(paths),
         \A k \in 1..Len(paths) : Len(Ints!Strings[k]) <= Len(Ints!Strings[k0])
  PROVE  LET s == Ints!Strings
             way == \A k \in 1..Len(paths) :
                      s[k] # <<>> /\ Ints!IsPrefix(s[k], s[k0])
         IN Ints!IntToPath(Ints!GetOverlapPath_old(paths)) =
              IF way THEN s[k0] ELSE <<>>
<1> DEFINE s == Ints!Strings
           N == Len(paths)
           top == Len(s[k0])
           way == \A k \in 1..N : s[k] # <<>> /\ Ints!IsPrefix(s[k], s[k0])
           column(c) == {s[k][c] : k \in {i \in 1..N : c <= Len(s[i])}}
           S == {k \in 1..N : Ints!Lens(paths)[k] = top}
           mixed == (\E k \in 1..N : s[k] = <<>>) \/ (\E c \in 1..top : column(c) = Bits01)
<1>1. DOMAIN paths = 1..N /\ paths # <<>> /\ N \in Nat
  BY DEF IntsInv
<1>2. /\ \A k \in 1..N : /\ s[k] \in Seq(Bits01) /\ Len(s[k]) \in 0..(W - 1)
                         /\ Ints!Lens(paths)[k] = Len(s[k])
      /\ \A k \in 1..N : Len(s[k]) <= top
  BY StringsAre, LensAre
<1>3. Ints!Max(Ints!Range(Ints!Lens(paths))) = top
  <2> DEFINE m == Ints!Max(Ints!Range(Ints!Lens(paths)))
  <2>1. m \in 0..(W - 1) /\ \A k \in 1..N : Len(s[k]) <= m
    BY <1>1, LongestIs
  <2>2. PICK k \in 1..N : Len(s[k]) = m
    BY <1>1, LongestIs
  <2>3. m <= top /\ top <= m /\ top \in 0..(W - 1)
    BY <1>2, <2>1, <2>2
  <2> HIDE DEF m, top
  <2> QED BY <2>1, <2>3 DEF m
<1>4. Ints!GetOverlapPath_old(paths) =
        IF mixed THEN 0 ELSE Ints!PathToInt(s[Ints!Min(S)])
  <2>1. Ints!Strings = [i \in DOMAIN paths |-> Ints!IntToPath(paths[i])]
    BY DEF Ints!Strings
  <2>2. Ints!Bit = Bits01
    BY DEF Ints!Bit, Bits01
  <2>3. {i \in 1..N : Len(s[i]) = top} = S
    BY <1>2
  <2> DEFINE longest == Ints!Max(Ints!Range(Ints!Lens(paths)))
  <2>4. Ints!GetOverlapPath_old(paths) =
          IF (\E i \in 1..N : s[i] = <<>>) \/ (\E c \in 1..longest : column(c) = Bits01)
          THEN 0
          ELSE Ints!PathToInt(s[Ints!Min({i \in 1..N : Len(s[i]) = longest})])
    <3> HIDE DEF longest
    <3> QED BY <1>1, <2>1, <2>2 DEF Ints!GetOverlapPath_old, longest
  <2> QED BY <1>3, <2>3, <2>4
<1> HIDE DEF s
<1>5. PICK k1 \in 1..N : s[Ints!Min(S)] = s[k1] /\ Len(s[k1]) = top
  <2>0. k0 \in S
    BY <1>2
  <2>1. S \in SUBSET Nat /\ S # {}
    BY <1>1, <2>0
  <2>2. Ints!Min(S) \in S
    <3> HIDE DEF S
    <3> QED BY <2>1, IntsMin
  <2> QED BY <1>2, <2>2
<1>6. ASSUME way PROVE ~mixed
  <2>1. \A k \in 1..N : s[k] # <<>>
    BY <1>6
  <2>2. ASSUME NEW c \in 1..top PROVE column(c) # Bits01
    <3>1. \A k \in 1..N : c <= Len(s[k]) => s[k][c] = s[k0][c]
      <4> SUFFICES ASSUME NEW k \in 1..N, c <= Len(s[k]) PROVE s[k][c] = s[k0][c]
        OBVIOUS
      <4>1. s[k] \in Seq(Bits01) /\ s[k0] \in Seq(Bits01) /\ Ints!IsPrefix(s[k], s[k0])
        BY <1>2, <1>6
      <4>2. c \in 1..Len(s[k])
        BY <1>2
      <4> QED BY <4>1, <4>2, PrefixIs
    <3>2. column(c) \subseteq {s[k0][c]}
      BY <3>1
    <3>3. ~ (Bits01 \subseteq {s[k0][c]})
      BY DEF Bits01
    <3> HIDE DEF column
    <3> QED BY <3>2, <3>3
  <2> QED BY <2>1, <2>2
<1>7. ASSUME ~mixed PROVE way
  <2> SUFFICES ASSUME NEW k \in 1..N PROVE s[k] # <<>> /\ Ints!IsPrefix(s[k], s[k0])
    OBVIOUS
  <2>1. s[k] # <<>>
    BY <1>7
  <2>2. ASSUME NEW c \in 1..Len(s[k]) PROVE s[k][c] = s[k0][c]
    <3>1. c \in 1..top /\ c <= Len(s[k]) /\ c <= Len(s[k0])
      BY <1>2
    <3>2. s[k][c] \in column(c) /\ s[k0][c] \in column(c)
      BY <3>1
    <3>3. s[k][c] \in Bits01 /\ s[k0][c] \in Bits01
      <4>1. c \in 1..Len(s[k0])
        BY <1>2, <3>1
      <4>2. s[k] \in Seq(Bits01) /\ s[k0] \in Seq(Bits01)
        BY <1>2
      <4> QED BY <4>1, <4>2
    <3>4. \A x \in column(c) : x \in Bits01
      <4> SUFFICES ASSUME NEW i \in 1..N, c <= Len(s[i]) PROVE s[i][c] \in Bits01
        OBVIOUS
      <4>1. s[i] \in Seq(Bits01) /\ c \in 1..Len(s[i])
        BY <1>2
      <4> QED BY <4>1
    <3>5. column(c) # Bits01
      BY <1>7, <3>1
    <3> HIDE DEF column
    <3> QED BY <3>2, <3>3, <3>4, <3>5 DEF Bits01
  <2>3. s[k] \in Seq(Bits01) /\ s[k0] \in Seq(Bits01) /\ Len(s[k]) <= Len(s[k0])
    BY <1>2
  <2> QED BY <2>1, <2>2, <2>3, PrefixIs
<1>8. CASE way
  <2>1. Ints!GetOverlapPath_old(paths) = Ints!PathToInt(s[k1])
    BY <1>4, <1>5, <1>6, <1>8
  <2>2. Len(s[k1]) < W /\ s[k1] \in Seq(Bits01) /\ s[k0] \in Seq(Bits01)
    BY <1>2
  <2>3. Ints!IntToPath(Ints!PathToInt(s[k1])) = s[k1]
    BY <2>2, RoundTrip
  <2>4. s[k1] = s[k0]
    <3>1. Ints!IsPrefix(s[k1], s[k0])
      BY <1>8
    <3> QED BY <1>5, <2>2, <3>1, PrefixSame
  <2> QED BY <1>8, <2>1, <2>3, <2>4 DEF s
<1>9. CASE ~way
  <2>1. Ints!GetOverlapPath_old(paths) = 0
    BY <1>4, <1>7, <1>9
  <2> QED BY <1>9, <2>1, ZeroIsEmpty DEF s
<1> QED BY <1>8, <1>9

(* GetOverlapPath answers with the longest path when every path is on the  *)
(* way to it and with 0 otherwise, and so does the version on strings, for *)
(* ints of any width and any number of paths.                              *)
THEOREM OverlapFound == Ints!Spec => []OverlapIsLongest
<1> SUFFICES ASSUME W \in Nat \ {0} PROVE Ints!Spec => []OverlapIsLongest
  BY WordAssumption
<1>1. IntsInv => OverlapIsLongest
  <2> SUFFICES ASSUME IntsInv, paths # <<>>
               PROVE  LET result == Ints!IntToPath(Ints!GetOverlapPath(paths))
                          onTheWay == {p \in Ints!Range(Ints!Strings) :
                                         \A q \in Ints!Range(Ints!Strings) :
                                           q # <<>> /\ Ints!IsPrefix(q, p)}
                      IN  /\ IF onTheWay = {} THEN result = <<>> ELSE result \in onTheWay
                          /\ result = Ints!IntToPath(Ints!GetOverlapPath_old(paths))
    BY DEF OverlapIsLongest, Ints!OverlapIsLongest
  <2> DEFINE s == Ints!Strings
             N == Len(paths)
             result == Ints!IntToPath(Ints!GetOverlapPath(paths))
             onTheWay == {p \in Ints!Range(Ints!Strings) :
                            \A q \in Ints!Range(Ints!Strings) :
                              q # <<>> /\ Ints!IsPrefix(q, p)}
  <2>1. PICK k0 \in 1..N :
          /\ \A k \in 1..N : Len(s[k]) <= Len(s[k0])
          /\ result = IF \A k \in 1..N : s[k] # <<>> /\ Ints!IsPrefix(s[k], s[k0])
                      THEN s[k0] ELSE <<>>
    BY OverlapIs
  <2> DEFINE way == \A k \in 1..N : s[k] # <<>> /\ Ints!IsPrefix(s[k], s[k0])
  <2>2. result = Ints!IntToPath(Ints!GetOverlapPath_old(paths))
    BY <2>1, OldIs
  <2>3. /\ Ints!Range(s) = {s[k] : k \in 1..N}
        /\ \A k \in 1..N : s[k] \in Seq(Bits01) /\ Len(s[k]) \in Nat
    BY StringsAre
  <2> HIDE DEF s, result
  <2>4. onTheWay = {p \in {s[k] : k \in 1..N} : \A k \in 1..N : s[k] # <<>> /\ Ints!IsPrefix(s[k], p)}
    BY <2>3 DEF s
  <2>5. CASE way
    <3>1. s[k0] \in onTheWay
      BY <2>4, <2>5
    <3>2. result = s[k0]
      BY <2>1, <2>5
    <3> HIDE DEF onTheWay
    <3> QED BY <2>2, <3>1, <3>2 DEF result, onTheWay
  <2>6. CASE ~way
    <3>1. ASSUME NEW k \in 1..N,
                 \A i \in 1..N : s[i] # <<>> /\ Ints!IsPrefix(s[i], s[k])
          PROVE  FALSE
      <4>1. Ints!IsPrefix(s[k0], s[k]) /\ s[k] \in Seq(Bits01) /\ s[k0] \in Seq(Bits01)
        BY <2>3, <3>1
      <4>2. Len(s[k0]) = Len(s[k])
        BY <2>1, <2>3, <4>1, PrefixIs
      <4>3. s[k0] = s[k]
        BY <4>1, <4>2, PrefixSame
      <4> QED BY <2>6, <3>1, <4>3
    <3>2. onTheWay = {}
      BY <2>4, <3>1
    <3>3. result = <<>>
      BY <2>1, <2>6
    <3> HIDE DEF onTheWay
    <3> QED BY <2>2, <3>2, <3>3 DEF result, onTheWay
  <2> QED BY <2>5, <2>6
<1> QED
  BY <1>1, IntsInit, IntsStep, PTL DEF Ints!Spec

(* The common beginning, with the first of the shortest paths for witness. *)
LEMMA CommonIs ==
  ASSUME W \in Nat \ {0}, IntsInv, Len(paths) # 1,
         NEW i0 \in 1..Len(paths), Ints!Strings[i0] # <<>>
  PROVE  LET s == Ints!Strings
             first(k) == \A i \in 1..Len(paths) : s[i] # <<>> => Len(s[k]) <= Len(s[i])
             same(k) == {j \in 1..Len(s[k]) : \A i \in 1..Len(paths) :
                           s[i] # <<>> => \A c \in 1..j : s[i][c] = s[k][c]}
         IN \E k \in 1..Len(paths) :
              /\ s[k] # <<>> /\ first(k)
              /\ Ints!IntToPath(Ints!GetOverlapedLongestPath(paths)) =
                   IF same(k) = {} THEN <<>> ELSE SubSeq(s[k], 1, Max(same(k)))
<1> DEFINE s == Ints!Strings
           N == Len(paths)
           lens == Ints!Range(Ints!Lens(paths)) \ {0}
           min == Ints!Min(lens)
           f == Ints!FirstOf(paths, min)
<1>1. DOMAIN paths = 1..N /\ N \in Nat
  BY DEF IntsInv
<1>2. \A k \in 1..N : /\ s[k] \in Seq(Bits01) /\ Len(s[k]) \in 0..(W - 1)
                      /\ Ints!Lens(paths)[k] = Len(s[k])
                      /\ paths[k] \in Ints!Words /\ s[k] = Ints!IntToPath(paths[k])
  BY StringsAre, LensAre
<1>3. lens = {Len(s[k]) : k \in 1..N} \ {0} /\ lens \in SUBSET Nat
  BY LensAre
<1>4. \A k \in 1..N : Len(s[k]) = 0 <=> s[k] = <<>>
  BY <1>2
<1>5. lens # {}
  BY <1>3, <1>4
<1>6. min \in lens /\ \A y \in lens : min <= y
  <2> HIDE DEF lens
  <2> QED BY <1>3, <1>5, IntsMin
<1>7. PICK k1 \in 1..N : Len(s[k1]) = min /\ min # 0
  <2> HIDE DEF min
  <2> QED BY <1>3, <1>6
<1>8. PICK k \in 1..N : f = paths[k] /\ Len(s[k]) = min
  <2> HIDE DEF min
  <2> QED BY <1>7, FirstIs
<1>9. s[k] # <<>> /\ \A i \in 1..N : s[i] # <<>> => Len(s[k]) <= Len(s[i])
  <2> HIDE DEF min, lens
  <2>1. \A i \in 1..N : s[i] # <<>> => Len(s[i]) \in lens
    BY <1>3, <1>4
  <2> QED BY <1>4, <1>6, <1>7, <1>8, <2>1
<1> DEFINE same == {j \in 1..min : \A i \in 1..N : Ints!Lens(paths)[i] > 0 =>
                      ~Ints!DifferAbove(paths[i], f, W - j)}
           same2 == {j \in 1..Len(s[k]) : \A i \in 1..N :
                       s[i] # <<>> => \A c \in 1..j : s[i][c] = s[k][c]}
<1>10. Ints!GetOverlapedLongestPath(paths) =
         IF same = {} THEN 0 ELSE Ints!PathSubStringInt(f, Ints!Max(same))
  <2> HIDE DEF min
  <2>1. {j \in 1..min : \A i \in DOMAIN paths : Ints!Lens(paths)[i] > 0 =>
             ~Ints!DifferAbove(paths[i], f, W - j)} = same
    BY <1>1
  <2> HIDE DEF same
  <2> QED BY <1>5, <2>1 DEF Ints!GetOverlapedLongestPath, min
<1> HIDE DEF s, min, f, lens
<1>11. min \in 1..(W - 1)
  BY <1>2, <1>7
<1>12. same = same2
  <2> SUFFICES ASSUME NEW j \in 1..min, NEW i \in 1..N, s[i] # <<>>
               PROVE  ~Ints!DifferAbove(paths[i], f, W - j)
                        <=> \A c \in 1..j : s[i][c] = s[k][c]
    <3>1. \A i \in 1..N : Ints!Lens(paths)[i] > 0 <=> s[i] # <<>>
      BY <1>2, <1>4
    <3> QED BY <1>8, <3>1
  <2> DEFINE v == paths[i]
             p == s[i]
             q == s[k]
  <2>1. v \in Ints!Words /\ f \in Ints!Words /\ p = Ints!IntToPath(v) /\ q = Ints!IntToPath(f)
    BY <1>2, <1>8
  <2>2. j \in 1..(W - 1) /\ j <= Len(p) /\ j <= Len(q)
    <3>1. Len(q) <= Len(p) /\ Len(q) = min /\ Len(p) \in Nat
      BY <1>2, <1>8, <1>9
    <3> HIDE DEF p, q
    <3> QED BY <1>11, <3>1
  <2> HIDE DEF v, p, q
  <2>3. Ints!DifferAbove(v, f, W - j) <=> ~ \A c \in 1..j : p[c] = q[c]
    BY <2>1, <2>2, DifferIs
  <2> QED BY <2>3 DEF v, p, q
<1>13. same2 # {} => Ints!Max(same2) = Max(same2) /\ Max(same2) \in 1..Len(s[k])
  <2> DEFINE T == 1..Len(s[k])
  <2>0. Len(s[k]) \in Int /\ T \in SUBSET Nat
    BY <1>2
  <2>1. IsFiniteSet(T) /\ same2 \in SUBSET T
    BY <2>0, FS_Interval
  <2>2. IsFiniteSet(same2) /\ same2 \in SUBSET Nat
    <3> HIDE DEF same2, T
    <3>1. IsFiniteSet(same2)
      BY <2>1, FS_Subset
    <3> QED BY <2>0, <2>1, <3>1
  <2> HIDE DEF same2
  <2>3. same2 # {} => Max(same2) \in same2
    BY <2>2, MaxIsGreatest
  <2> QED BY <2>1, <2>3 DEF Ints!Max, Max
<1>14. Ints!IntToPath(Ints!GetOverlapedLongestPath(paths)) =
         IF same2 = {} THEN <<>> ELSE SubSeq(s[k], 1, Max(same2))
  <2>1. CASE same2 = {}
    BY <1>10, <1>12, <2>1, ZeroIsEmpty
  <2>2. CASE same2 # {}
    <3> DEFINE n == Max(same2)
               p == s[k]
    <3> HIDE DEF same2
    <3>1. n \in 1..Len(p) /\ Ints!GetOverlapedLongestPath(paths) = Ints!PathSubStringInt(f, n)
      <4> HIDE DEF same
      <4> QED BY <1>10, <1>12, <1>13, <2>2
    <3>2. f \in Ints!Words /\ p = Ints!IntToPath(f) /\ p \in Seq(Bits01) /\ Len(p) \in 0..(W - 1)
      BY <1>2, <1>8
    <3> HIDE DEF n, p
    <3>3. Ints!PathSubStringInt(f, n) = Ints!PathToInt(SubSeq(p, 1, n))
      BY <3>1, <3>2, CutInt
    <3>4. SubSeq(p, 1, n) \in Seq(Bits01) /\ Len(SubSeq(p, 1, n)) < W
      BY <3>1, <3>2
    <3>5. Ints!IntToPath(Ints!PathToInt(SubSeq(p, 1, n))) = SubSeq(p, 1, n)
      BY <3>4, RoundTrip
    <3> QED BY <2>2, <3>1, <3>3, <3>5 DEF n, p
  <2> QED BY <2>1, <2>2
<1> HIDE DEF same
<1> QED BY <1>9, <1>14 DEF s

(* GetOverlapedLongestPath answers with the longest common beginning of    *)
(* the paths that are not empty, for ints of any width and any vector.     *)
THEOREM BeginningFound == Ints!Spec => []CommonBeginning
<1> SUFFICES ASSUME W \in Nat \ {0} PROVE Ints!Spec => []CommonBeginning
  BY WordAssumption
<1>1. IntsInv => CommonBeginning
  <2> SUFFICES ASSUME IntsInv, paths # <<>>
               PROVE  LET nonempty == Ints!Range(Ints!Strings) \ {<<>>}
                          common(p) == \A q \in nonempty : Ints!IsPrefix(p, q)
                          result == Ints!IntToPath(Ints!GetOverlapedLongestPath(paths))
                      IN  IF nonempty = {} THEN result = <<>>
                          ELSE /\ common(result)
                               /\ \A q \in nonempty :
                                    Len(result) < Len(q)
                                      => ~common(SubSeq(q, 1, Len(result) + 1))
    BY DEF CommonBeginning, Ints!CommonBeginning
  <2> DEFINE s == Ints!Strings
             N == Len(paths)
             nonempty == Ints!Range(Ints!Strings) \ {<<>>}
             common(p) == \A q \in nonempty : Ints!IsPrefix(p, q)
             result == Ints!IntToPath(Ints!GetOverlapedLongestPath(paths))
             Goal == IF nonempty = {} THEN result = <<>>
                     ELSE /\ common(result)
                          /\ \A q \in nonempty :
                               Len(result) < Len(q)
                                 => ~common(SubSeq(q, 1, Len(result) + 1))
  <2>1. /\ Ints!Range(s) = {s[k] : k \in 1..N} /\ N \in Nat /\ N # 0
        /\ \A k \in 1..N : s[k] \in Seq(Bits01) /\ Len(s[k]) \in Nat
                           /\ s[k] = Ints!IntToPath(paths[k])
    BY StringsAre DEF IntsInv
  <2>2. nonempty = {s[k] : k \in {i \in 1..N : s[i] # <<>>}}
    BY <2>1
  <2> HIDE DEF s
  <2>3. CASE N = 1
    <3>1. result = s[1]
      BY <2>1, <2>3 DEF Ints!GetOverlapedLongestPath
    <3>2. 1 \in 1..N /\ \A k \in 1..N : k = 1
      BY <2>3
    <3>3. nonempty = {s[1]} \ {<<>>}
      BY <2>2, <3>2
    <3>4. s[1] \in Seq(Bits01) /\ Len(s[1]) \in Nat
      BY <2>1, <3>2
    <3> HIDE DEF result, nonempty
    <3>5. Ints!IsPrefix(s[1], s[1]) /\ ~ (Len(s[1]) < Len(s[1]))
      BY <3>4, PrefixIs
    <3>6. Goal
      BY <3>1, <3>3, <3>5
    <3> QED BY <3>6 DEF result, nonempty
  <2>4. CASE N # 1 /\ nonempty = {}
    <3>1. \A k \in 1..N : s[k] = <<>>
      BY <2>2, <2>4
    <3>2. Ints!Range(Ints!Lens(paths)) \ {0} = {}
      <4>1. \A k \in 1..N : Len(s[k]) = 0
        BY <3>1
      <4> QED BY <4>1, LensAre DEF s
    <3>3. Ints!GetOverlapedLongestPath(paths) = 0
      BY <2>4, <3>2 DEF Ints!GetOverlapedLongestPath
    <3>4. result = <<>>
      BY <3>3, ZeroIsEmpty
    <3> HIDE DEF result, nonempty
    <3>5. Goal
      BY <2>4, <3>4
    <3> QED BY <3>5 DEF result, nonempty
  <2>5. CASE N # 1 /\ nonempty # {}
    <3>1. PICK i0 \in 1..N : s[i0] # <<>>
      BY <2>2, <2>5
    <3> DEFINE Same(k) == {j \in 1..Len(s[k]) : \A i \in 1..N :
                             s[i] # <<>> => \A c \in 1..j : s[i][c] = s[k][c]}
    <3>2. PICK k \in 1..N :
            /\ s[k] # <<>> /\ \A i \in 1..N : s[i] # <<>> => Len(s[k]) <= Len(s[i])
            /\ result = IF Same(k) = {} THEN <<>> ELSE SubSeq(s[k], 1, Max(Same(k)))
      BY <2>5, <3>1, CommonIs DEF s
    <3> DEFINE same == Same(k)
               p == s[k]
    <3>3. p \in Seq(Bits01) /\ p # <<>> /\ Len(p) \in Nat /\ p \in nonempty
      BY <2>1, <2>2, <3>2
    <3>4. \A q \in nonempty : q \in Seq(Bits01) /\ Len(q) \in Nat /\ Len(p) <= Len(q)
      BY <2>1, <2>2, <3>2
    <3>5. \A j \in 1..Len(p) :
            j \in same <=> \A q \in nonempty : \A c \in 1..j : q[c] = p[c]
      BY <2>2
    <3>6. same \in SUBSET (1..Len(p)) /\ same \in SUBSET Nat /\ IsFiniteSet(same)
      <4> DEFINE T == 1..Len(p)
      <4>1. same \in SUBSET T
        OBVIOUS
      <4> HIDE DEF same, p
      <4>2. Len(p) \in Int /\ T \in SUBSET Nat
        BY <3>3
      <4>3. IsFiniteSet(T)
        BY <4>2, FS_Interval
      <4>4. IsFiniteSet(same)
        <5> HIDE DEF T
        <5> QED BY <4>1, <4>3, FS_Subset
      <4> QED BY <4>1, <4>2, <4>4
    <3> DEFINE n == Len(result)
    <3>7. /\ n \in 0..Len(p) /\ result = SubSeq(p, 1, n)
          /\ n # 0 => n \in same
          /\ n + 1 \notin same
      <4> HIDE DEF same, p, result, nonempty, n
      <4>1. CASE same = {}
        <5>1. result = <<>>
          BY <3>2, <4>1 DEF same, p
        <5>2. n = 0
          BY <5>1 DEF n
        <5> QED BY <3>3, <4>1, <5>1, <5>2
      <4>2. CASE same # {}
        <5> DEFINE m == Max(same)
        <5>1. result = SubSeq(p, 1, m)
          BY <3>2, <4>2 DEF same, p
        <5>2. m \in same /\ \A y \in same : y <= m
          BY <3>6, <4>2, MaxIsGreatest
        <5>3. m \in 1..Len(p)
          BY <3>6, <5>2
        <5> HIDE DEF m
        <5>4. n = m
          BY <3>3, <5>1, <5>3 DEF n
        <5>5. ~ (n + 1 <= n)
          BY <5>3, <5>4
        <5> QED BY <5>1, <5>2, <5>3, <5>4, <5>5
      <4> QED BY <4>1, <4>2
    <3>8. result \in Seq(Bits01) /\ \A c \in 1..n : result[c] = p[c]
      <4> HIDE DEF result, p, n, same
      <4> QED BY <3>3, <3>7
    <3> HIDE DEF same, p, result, nonempty
    <3>9. common(result)
      <4> SUFFICES ASSUME NEW q \in nonempty PROVE Ints!IsPrefix(result, q)
        OBVIOUS
      <4>1. q \in Seq(Bits01) /\ n <= Len(q)
        BY <3>3, <3>4, <3>7
      <4>2. \A c \in 1..n : q[c] = p[c]
        <5> HIDE DEF n
        <5> QED BY <3>5, <3>7
      <4> QED BY <3>8, <4>1, <4>2, PrefixIs
    <3>10. ASSUME NEW q \in nonempty, n < Len(q), common(SubSeq(q, 1, n + 1))
           PROVE  FALSE
      <4> DEFINE z == SubSeq(q, 1, n + 1)
      <4>1. q \in Seq(Bits01) /\ n \in Nat /\ Len(q) \in Nat
        BY <3>3, <3>4, <3>7
      <4>2. z \in Seq(Bits01) /\ Len(z) = n + 1 /\ \A c \in 1..(n + 1) : z[c] = q[c]
        <5> HIDE DEF n
        <5> QED BY <3>10, <4>1
      <4>3. \A r \in nonempty : Ints!IsPrefix(z, r)
        BY <3>10
      <4> HIDE DEF z, n
      <4>4. \A r \in nonempty : n + 1 <= Len(r) /\ \A c \in 1..(n + 1) : z[c] = r[c]
        <5> SUFFICES ASSUME NEW r \in nonempty
                     PROVE  n + 1 <= Len(r) /\ \A c \in 1..(n + 1) : z[c] = r[c]
          OBVIOUS
        <5>1. r \in Seq(Bits01) /\ Ints!IsPrefix(z, r)
          BY <3>4, <4>3
        <5> QED BY <4>2, <5>1, PrefixIs
      <4>5. n + 1 \in 1..Len(p)
        BY <3>3, <4>1, <4>4
      <4>6. \A r \in nonempty : \A c \in 1..(n + 1) : r[c] = p[c]
        BY <3>3, <4>4
      <4> QED BY <3>5, <3>7, <4>5, <4>6
    <3>11. Goal
      BY <2>5, <3>9, <3>10
    <3> QED BY <3>11 DEF result, nonempty
  <2> QED BY <2>3, <2>4, <2>5
<1> QED
  BY <1>1, IntsInit, IntsStep, PTL DEF Ints!Spec
=============================================================================
