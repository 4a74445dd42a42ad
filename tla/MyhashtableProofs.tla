------------------------- MODULE MyhashtableProofs -------------------------
(***************************************************************************)
(* Theorems about Myhashtable.tla, for every set of keys, hash words,      *)
(* number of slots and probe limit, and for tables of every number of      *)
(* buckets: the table is a map, through saving, loading and cut-off files. *)
(***************************************************************************)
EXTENDS Myhashtable, NaturalLemmas
-----------------------------------------------------------------------------
(* Slots of the probe sequence.                                            *)

LEMMA AddrType ==
  ASSUME NEW k \in Key \cup {ZeroKey}, NEW i \in Nat
  PROVE  addr(k, i) \in Slots
<1>1. C \in Nat \ {0} /\ Word[k] \in Nat \X Nat \X Nat
  BY HashtableAssumption
<1>2. 1 + (i % 2) \in {1, 2}
  OBVIOUS
<1>3. Word[k][1 + (i % 2)] \in Nat
  BY <1>1, <1>2
<1>4. i * i \in Nat
  OBVIOUS
<1> DEFINE n == Word[k][1 + (i % 2)] + i * i
<1>5. n \in Nat
  BY <1>3, <1>4
<1> HIDE DEF n
<1>6. n % C \in 0..(C - 1)
  BY <1>1, <1>5
<1> QED BY <1>6 DEF addr, Slots, n

(* The table of n buckets b, apart from the variables: a file holds one    *)
(* too.                                                                    *)
Home(n, k) == Word[k][3] % n
At(n, b, k, i) == b[Home(n, k)][addr(k, i)]
Stops(n, b, k) == {i \in 0..LastProbe : At(n, b, k, i).key \in {k, ZeroKey}}
Stored(n, b) == {e \in (0..(n - 1)) \X Slots :
                   b[e[1]][e[2]].key \in Key \ {ZeroKey}}

(* The probe at which the search for k ends with k.                        *)
Finds(n, b, k, i) ==
  /\ i \in 0..LastProbe
  /\ At(n, b, k, i).key = k
  /\ \A h \in 0..LastProbe : h < i => At(n, b, k, h).key \notin {k, ZeroKey}

FoundAll(n, b) ==
  \A e \in Stored(n, b) : \E i : Finds(n, b, b[e[1]][e[2]].key, i)
                                 /\ e = <<Home(n, b[e[1]][e[2]].key),
                                          addr(b[e[1]][e[2]].key, i)>>

LEMMA HomeType ==
  ASSUME NEW n \in Nat \ {0}, NEW k \in Key \cup {ZeroKey}
  PROVE  Home(n, k) \in 0..(n - 1)
<1>1. Word[k][3] \in Nat
  BY HashtableAssumption
<1> QED BY <1>1 DEF Home

(* Only the slots of the buckets below n count.                            *)
LEMMA SameTable ==
  ASSUME NEW n \in Nat \ {0}, NEW b, NEW c,
         \A i \in 0..(n - 1), s \in Slots : b[i][s] = c[i][s]
  PROVE  /\ Stored(n, b) = Stored(n, c)
         /\ FoundAll(n, b) => FoundAll(n, c)
<1>1. Stored(n, b) = Stored(n, c)
  BY DEF Stored
<1>2. ASSUME NEW k \in Key, NEW i \in 0..LastProbe
      PROVE  At(n, b, k, i) = At(n, c, k, i)
  <2>1. Home(n, k) \in 0..(n - 1) /\ addr(k, i) \in Slots
    BY HomeType, AddrType, HashtableAssumption
  <2> QED BY <2>1 DEF At
<1>3. ASSUME NEW k \in Key, NEW i, Finds(n, b, k, i)
      PROVE  Finds(n, c, k, i)
  BY <1>2, <1>3 DEF Finds
<1>4. ASSUME FoundAll(n, b), NEW e \in Stored(n, c)
      PROVE  \E i : Finds(n, c, c[e[1]][e[2]].key, i)
                    /\ e = <<Home(n, c[e[1]][e[2]].key),
                             addr(c[e[1]][e[2]].key, i)>>
  <2>1. e \in Stored(n, b) /\ b[e[1]][e[2]].key = c[e[1]][e[2]].key
        /\ c[e[1]][e[2]].key \in Key
    BY <1>1, <1>4 DEF Stored
  <2> QED BY <1>3, <1>4, <2>1 DEF FoundAll
<1> QED BY <1>1, <1>4 DEF FoundAll

LEMMA StoredFinite ==
  ASSUME NEW n \in Nat, NEW b
  PROVE  IsFiniteSet(Stored(n, b))
<1>1. C \in Nat \ {0}
  BY HashtableAssumption
<1>2. IsFiniteSet(0..(n - 1)) /\ IsFiniteSet(0..(C - 1))
  BY <1>1, FS_Interval
<1>3. IsFiniteSet((0..(n - 1)) \X Slots)
  BY <1>2, FS_Product DEF Slots
<1>4. Stored(n, b) \subseteq (0..(n - 1)) \X Slots
  BY DEF Stored
<1> QED BY <1>3, <1>4, FS_Subset

(* What the operations look up is what Finds says.                         *)
LookedUp(k) ==
  /\ \A i : Finds(bucketCounter, bucket, k, i) =>
       /\ ContainsKey(k) /\ i = Min(Ends(k))
       /\ ReadValue(k) = At(bucketCounter, bucket, k, i).value
  /\ ContainsKey(k) => Finds(bucketCounter, bucket, k, Min(Ends(k)))

AllLookedUp == \A k \in Key \ {ZeroKey} : LookedUp(k)

LEMMA Lookup == AllLookedUp
<1> SUFFICES ASSUME NEW k \in Key \ {ZeroKey}
             PROVE  LookedUp(k)
  BY DEF AllLookedUp
<1> DEFINE n == bucketCounter
           b == bucket
<1>1. Ends(k) = Stops(n, b, k) /\ \A i : pData(k, i) = At(n, b, k, i)
  BY DEF Ends, Stops, pData, At, bucketNumber, Home
<1>2. LastProbe \in Nat
  BY HashtableAssumption
<1>3. Stops(n, b, k) \in SUBSET Nat
  BY <1>2 DEF Stops
<1>4. ASSUME NEW i, Finds(n, b, k, i)
      PROVE  /\ ContainsKey(k) /\ i = Min(Ends(k))
             /\ ReadValue(k) = At(n, b, k, i).value
  <2>1. i \in Stops(n, b, k) /\ \A h \in Stops(n, b, k) : ~(h < i)
    BY <1>4 DEF Finds, Stops
  <2>2. i = Min(Ends(k))
    <3>1. Min(Stops(n, b, k)) \in Stops(n, b, k) /\ Min(Stops(n, b, k)) <= i
      BY <1>3, <2>1, MinIsLeast
    <3> QED BY <1>1, <1>3, <2>1, <3>1
  <2> QED BY <1>1, <1>4, <2>1, <2>2 DEF ContainsKey, ReadValue, Finds
<1>5. ASSUME ContainsKey(k)
      PROVE  Finds(n, b, k, Min(Ends(k)))
  <2>1. /\ Min(Ends(k)) \in Stops(n, b, k)
        /\ \A h \in Stops(n, b, k) : Min(Ends(k)) <= h
    BY <1>1, <1>3, <1>5, MinIsLeast DEF ContainsKey
  <2>2. At(n, b, k, Min(Ends(k))).key = k
    BY <1>1, <1>5 DEF ContainsKey
  <2> QED BY <1>2, <2>1, <2>2 DEF Finds, Stops
<1> QED BY <1>4, <1>5 DEF LookedUp

-----------------------------------------------------------------------------
(* Add, in a table where every entry is found: k is put where the search   *)
(* for it stopped.                                                         *)
Put(n, b, c, k, v, p) ==
  /\ p \in 0..LastProbe
  /\ At(n, b, k, p).key \in {k, ZeroKey}
  /\ \A h \in 0..LastProbe : h < p => At(n, b, k, h).key \notin {k, ZeroKey}
  /\ \A i \in 0..(n - 1), s \in Slots :
       c[i][s] = IF i = Home(n, k) /\ s = addr(k, p)
                   THEN [key |-> k, value |-> v] ELSE b[i][s]

LEMMA FindsOnce ==
  ASSUME NEW n, NEW b, NEW k, NEW i, NEW h, Finds(n, b, k, i), Finds(n, b, k, h)
  PROVE  i = h
BY HashtableAssumption DEF Finds

LEMMA PutSelf ==
  ASSUME NEW n \in Nat \ {0}, NEW b, NEW c, NEW k \in Key \ {ZeroKey}, NEW v,
         NEW p, Put(n, b, c, k, v, p)
  PROVE  Finds(n, c, k, p) /\ At(n, c, k, p).value = v
<1>1. /\ LastProbe \in Nat /\ p \in 0..LastProbe /\ Home(n, k) \in 0..(n - 1)
  BY HashtableAssumption, HomeType DEF Put
<1>2. \A h \in 0..LastProbe : addr(k, h) \in Slots
  BY <1>1, AddrType
<1>3. At(n, c, k, p) = [key |-> k, value |-> v]
  BY <1>1, <1>2 DEF At, Put
<1>4. ASSUME NEW h \in 0..LastProbe, h < p
      PROVE  At(n, c, k, h).key \notin {k, ZeroKey}
  <2>1. At(n, b, k, h).key \notin {k, ZeroKey} /\ At(n, b, k, p).key \in {k, ZeroKey}
    BY <1>4 DEF Put
  <2>2. addr(k, h) # addr(k, p)
    BY <2>1 DEF At
  <2>3. At(n, c, k, h) = At(n, b, k, h)
    BY <1>1, <1>2, <2>2 DEF At, Put
  <2> QED BY <2>1, <2>3
<1> QED BY <1>1, <1>3, <1>4 DEF Finds

LEMMA PutKeeps ==
  ASSUME NEW n \in Nat \ {0}, NEW b, NEW c, NEW k \in Key, NEW v, NEW p,
         Put(n, b, c, k, v, p), NEW o \in Key \ {ZeroKey, k}, NEW i,
         Finds(n, b, o, i)
  PROVE  Finds(n, c, o, i) /\ At(n, c, o, i) = At(n, b, o, i)
<1>1. /\ LastProbe \in Nat /\ p \in 0..LastProbe /\ i \in 0..LastProbe
      /\ Home(n, o) \in 0..(n - 1)
  BY HashtableAssumption, HomeType DEF Put, Finds
<1>2. \A h \in 0..LastProbe : addr(o, h) \in Slots
  BY <1>1, AddrType
<1>3. At(n, b, k, p).key \in {k, ZeroKey}
  BY DEF Put
<1>4. ASSUME NEW h \in 0..LastProbe
      PROVE  \/ At(n, c, o, h) = At(n, b, o, h)
             \/ At(n, c, o, h).key = k /\ At(n, b, o, h).key \in {k, ZeroKey}
  <2>1. CASE Home(n, o) = Home(n, k) /\ addr(o, h) = addr(k, p)
    BY <1>1, <1>2, <1>3, <2>1 DEF At, Put
  <2>2. CASE ~(Home(n, o) = Home(n, k) /\ addr(o, h) = addr(k, p))
    BY <1>1, <1>2, <2>2 DEF At, Put
  <2> QED BY <2>1, <2>2
<1>5. At(n, c, o, i) = At(n, b, o, i)
  BY <1>1, <1>4 DEF Finds
<1>6. ASSUME NEW h \in 0..LastProbe, h < i
      PROVE  At(n, c, o, h).key \notin {o, ZeroKey}
  <2>1. At(n, b, o, h).key \notin {o, ZeroKey}
    BY <1>6 DEF Finds
  <2> QED BY <1>4, <2>1
<1> QED BY <1>1, <1>5, <1>6 DEF Finds

LEMMA PutAdds ==
  ASSUME NEW n \in Nat \ {0}, NEW b, NEW c, NEW k \in Key, NEW v, NEW p,
         Put(n, b, c, k, v, p), FoundAll(n, b), NEW o \in Key \ {ZeroKey, k},
         NEW i, Finds(n, c, o, i)
  PROVE  Finds(n, b, o, i)
<1>1. /\ LastProbe \in Nat /\ i \in 0..LastProbe /\ Home(n, o) \in 0..(n - 1)
  BY HashtableAssumption, HomeType DEF Finds
<1>2. addr(o, i) \in Slots
  BY <1>1, AddrType
<1>3. At(n, c, o, i).key = o
  BY DEF Finds
<1>4. At(n, b, o, i).key = o
  BY <1>1, <1>2, <1>3 DEF At, Put
<1> DEFINE e == <<Home(n, o), addr(o, i)>>
<1>5. e \in Stored(n, b) /\ b[e[1]][e[2]].key = o
  BY <1>1, <1>2, <1>4 DEF Stored, At
<1>6. PICK h : Finds(n, b, o, h)
  BY <1>5 DEF FoundAll
<1>7. Finds(n, c, o, h)
  BY <1>6, PutKeeps
<1> QED BY <1>6, <1>7, FindsOnce

LEMMA PutFound ==
  ASSUME NEW n \in Nat \ {0}, NEW b, NEW c, NEW k \in Key, NEW v, NEW p,
         Put(n, b, c, k, v, p), FoundAll(n, b)
  PROVE  FoundAll(n, c)
<1>1. ASSUME NEW e \in Stored(n, c), NEW o, o = c[e[1]][e[2]].key
      PROVE  \E i : Finds(n, c, o, i) /\ e = <<Home(n, o), addr(o, i)>>
  <2>1. e \in (0..(n - 1)) \X Slots /\ o \in Key \ {ZeroKey}
    BY <1>1 DEF Stored
  <2>2. CASE e[1] = Home(n, k) /\ e[2] = addr(k, p)
    <3>1. o = k
      BY <1>1, <2>1, <2>2 DEF Put
    <3>2. Finds(n, c, k, p)
      BY <2>1, <3>1, PutSelf
    <3>3. e = <<Home(n, k), addr(k, p)>>
      BY <2>1, <2>2
    <3> QED BY <3>1, <3>2, <3>3
  <2>3. CASE ~(e[1] = Home(n, k) /\ e[2] = addr(k, p))
    <3>1. b[e[1]][e[2]].key = o
      BY <1>1, <2>1, <2>3 DEF Put
    <3>2. e \in Stored(n, b)
      BY <2>1, <3>1 DEF Stored
    <3>3. PICK i : Finds(n, b, o, i) /\ e = <<Home(n, o), addr(o, i)>>
      BY <3>1, <3>2 DEF FoundAll
    <3>4. CASE o = k
      <4>1. i = p
        BY <3>3, <3>4, HashtableAssumption DEF Finds, Put
      <4> QED BY <2>3, <3>3, <3>4, <4>1
    <3>5. CASE o # k
      BY <2>1, <3>3, <3>5, PutKeeps
    <3> QED BY <3>4, <3>5
  <2> QED BY <2>2, <2>3
<1> QED BY <1>1 DEF FoundAll

(* One entry more, if the key is new and not zero.                         *)
LEMMA PutCounts ==
  ASSUME NEW n \in Nat \ {0}, NEW b, NEW c, NEW k \in Key, NEW v, NEW p,
         Put(n, b, c, k, v, p)
  PROVE  Cardinality(Stored(n, c)) =
           Cardinality(Stored(n, b))
             + IF At(n, b, k, p).key = k THEN 0 ELSE 1
<1> DEFINE e == <<Home(n, k), addr(k, p)>>
<1>1. /\ LastProbe \in Nat /\ p \in 0..LastProbe /\ Home(n, k) \in 0..(n - 1)
      /\ At(n, b, k, p).key \in {k, ZeroKey}
  BY HashtableAssumption, HomeType DEF Put
<1>2. e \in (0..(n - 1)) \X Slots
  BY <1>1, AddrType
<1>3. c[e[1]][e[2]].key = k /\ b[e[1]][e[2]] = At(n, b, k, p)
  BY <1>1, <1>2 DEF At, Put
<1>4. ASSUME NEW f \in (0..(n - 1)) \X Slots, f # e
      PROVE  c[f[1]][f[2]] = b[f[1]][f[2]]
  <2>1. ~(f[1] = Home(n, k) /\ f[2] = addr(k, p))
    BY <1>4
  <2> QED BY <1>4, <2>1 DEF Put
<1> HIDE DEF e
<1>5. CASE At(n, b, k, p).key = k
  <2>1. Stored(n, c) = Stored(n, b)
    BY <1>2, <1>3, <1>4, <1>5 DEF Stored
  <2> QED BY <1>5, <2>1, StoredFinite, FS_CardinalityType
<1>6. CASE At(n, b, k, p).key # k
  <2>1. k # ZeroKey /\ At(n, b, k, p).key = ZeroKey
    BY <1>1, <1>6
  <2>2. Stored(n, c) = Stored(n, b) \cup {e} /\ e \notin Stored(n, b)
    BY <1>2, <1>3, <1>4, <2>1 DEF Stored
  <2> QED BY <1>6, <2>2, StoredFinite, FS_AddElement
<1> QED BY <1>5, <1>6

-----------------------------------------------------------------------------
(* Types.  A bucket of the file has all its slots, except that the last    *)
(* one of a file that was cut off may have only its first ones.            *)
Part == UNION {[D -> Slot] : D \in SUBSET Slots}
File == [count : Nat, M : Nat, buckets : Seq(Part), cut : BOOLEAN]

FileInv ==
  /\ file \in File
  /\ file = NoFile \/ file.count # 0
  /\ Len(file.buckets) <= file.count
  /\ \A i \in 1..Len(file.buckets) :
       i < Len(file.buckets) \/ saving => DOMAIN file.buckets[i] = Slots
  /\ saving => file.count = bucketCounter

BucketsInv ==
  /\ bucketCounter \in Nat \ {0} /\ M \in Nat
  /\ saving \in BOOLEAN /\ cut \in BOOLEAN
  /\ bucket = [i \in DOMAIN bucket |-> bucket[i]]
  /\ 0..(bucketCounter - 1) \subseteq DOMAIN bucket
  /\ DOMAIN bucket \subseteq Nat
  /\ \A i \in DOMAIN bucket : bucket[i] \in [Slots -> Slot]

TypeInv == BucketsInv /\ FileInv

LEMMA PartType ==
  ASSUME NEW D \in SUBSET Slots, NEW f \in [D -> Slot]
  PROVE  f \in Part
BY Zenon DEF Part

LEMMA PartOf ==
  ASSUME NEW f \in Part
  PROVE  DOMAIN f \subseteq Slots /\ \A s \in DOMAIN f : f[s] \in Slot
BY DEF Part

LEMMA TypeOKHolds ==
  ASSUME TypeInv
  PROVE  TypeOK
<1>1. file.buckets \in Seq(Part) /\ DOMAIN file.buckets = 1..Len(file.buckets)
  BY DEF TypeInv, FileInv, File
<1>2. \A i \in DOMAIN file.buckets : file.buckets[i] \in Part
  BY <1>1
<1>3. \A i \in DOMAIN file.buckets : \A s \in DOMAIN file.buckets[i] :
        s \in Slots /\ file.buckets[i][s] \in Slot
  BY <1>2, PartOf
<1> QED BY <1>3 DEF TypeInv, BucketsInv, FileInv, File, TypeOK

LEMMA EmptyBucketType == EmptyBucket \in [Slots -> Slot]
BY HashtableAssumption DEF EmptyBucket, Slot

LEMMA NoFileType == NoFile \in File
BY DEF NoFile, File

(* What a killed process leaves of the file it was writing.                *)
LEMMA FirstBucketsAre ==
  ASSUME TypeInv, saving, NEW n \in 0..(Len(file.buckets) - 1), NEW m \in 0..C
  PROVE  /\ FirstBuckets(n, m) \in Seq(Part)
         /\ Len(FirstBuckets(n, m)) <= Len(file.buckets)
         /\ \A i \in 1..Len(FirstBuckets(n, m)) :
              /\ i < Len(FirstBuckets(n, m)) =>
                   DOMAIN FirstBuckets(n, m)[i] = Slots
              /\ \A s \in DOMAIN FirstBuckets(n, m)[i] :
                   FirstBuckets(n, m)[i][s] = file.buckets[i][s]
<1> DEFINE B == file.buckets
           W == SubSeq(B, 1, n)
           r == [s \in 0..(m - 1) |-> B[n + 1][s]]
<1>1. B \in Seq(Part) /\ Len(B) \in Nat /\ n \in Nat /\ n + 1 \in 1..Len(B)
  BY DEF TypeInv, FileInv, File
<1>2. \A i \in 1..Len(B) : B[i] \in Part /\ DOMAIN B[i] = Slots
  BY <1>1 DEF TypeInv, FileInv
<1>3. \A i \in 1..n : B[i] \in Part
  BY <1>1, <1>2
<1>4. W \in Seq(Part) /\ Len(W) = n /\ \A i \in 1..n : W[i] = B[i]
  BY <1>1, <1>3, SubSeqProperties
<1>5. r \in Part
  <2>1. C \in Nat /\ 0..(m - 1) \in SUBSET Slots
    BY HashtableAssumption DEF Slots
  <2>2. \A s \in Slots : B[n + 1][s] \in Slot
    BY <1>1, <1>2, PartOf
  <2>3. r \in [0..(m - 1) -> Slot]
    BY <2>1, <2>2
  <2> QED BY <2>1, <2>3, PartType
<1> DEFINE F == IF m = 0 THEN W ELSE Append(W, r)
<1>6. F = FirstBuckets(n, m)
  BY DEF FirstBuckets
<1>7. \A s \in DOMAIN r : r[s] = B[n + 1][s]
  OBVIOUS
<1>8. n <= Len(B) /\ n + 1 <= Len(B)
  BY <1>1
<1> HIDE DEF W, r, B
<1>9. CASE m = 0
  BY <1>1, <1>2, <1>4, <1>6, <1>8, <1>9 DEF B
<1>10. CASE m # 0
  <2>1. F = Append(W, r)
    BY <1>10
  <2> HIDE DEF F
  <2>2. /\ F \in Seq(Part) /\ Len(F) = n + 1
        /\ (\A i \in 1..n : F[i] = W[i]) /\ F[n + 1] = r
    BY <1>4, <1>5, <2>1, AppendProperties
  <2>3. ASSUME NEW i \in 1..Len(F)
        PROVE  /\ i < Len(F) => DOMAIN F[i] = Slots
               /\ \A s \in DOMAIN F[i] : F[i][s] = B[i][s]
    <3>1. CASE i \in 1..n
      BY <1>1, <1>2, <1>4, <2>2, <3>1
    <3>2. CASE i = n + 1
      BY <1>1, <1>7, <2>2, <3>2
    <3> QED BY <1>1, <2>2, <3>1, <3>2
  <2> QED BY <1>6, <1>8, <2>2, <2>3 DEF B
<1> QED BY <1>9, <1>10

-----------------------------------------------------------------------------
LEMMA InitType ==
  ASSUME Init
  PROVE  TypeInv
<1>1. PICK n \in Counts : /\ bucketCounter = n /\ M = 0
                          /\ bucket = [i \in 0..(n - 1) |-> EmptyBucket]
  BY DEF Init
<1>2. n \in Nat \ {0}
  BY HashtableAssumption
<1>3. BucketsInv
  <2>1. bucketCounter \in Nat \ {0} /\ M \in Nat
        /\ 0..(bucketCounter - 1) \subseteq DOMAIN bucket /\ DOMAIN bucket \subseteq Nat
        /\ \A i \in DOMAIN bucket : bucket[i] \in [Slots -> Slot]
    BY <1>1, <1>2, EmptyBucketType
  <2>2. bucket = [i \in DOMAIN bucket |-> bucket[i]]
    BY <1>1
  <2>3. saving \in BOOLEAN /\ cut \in BOOLEAN
    BY Zenon DEF Init
  <2> QED BY <2>1, <2>2, <2>3 DEF BucketsInv
<1>4. file = NoFile /\ saving = FALSE
  BY Zenon DEF Init
<1>5. file.buckets = <<>> /\ Len(file.buckets) = 0 /\ file.count = 0
  BY <1>4 DEF NoFile
<1>6. FileInv
  BY <1>4, <1>5, NoFileType DEF FileInv
<1> QED BY <1>3, <1>6 DEF TypeInv

LEMMA AddType ==
  ASSUME TypeInv, NEW k \in Key, NEW v \in Value, Add(k, v)
  PROVE  TypeInv'
<1>1. [key |-> k, value |-> v] \in Slot
  BY DEF Slot
<1>2. Counted(k) \in Nat
  BY DEF Counted
<1> DEFINE x == bucketNumber(k)
           y == AddedAt(k)
           c == [key |-> k, value |-> v]
<1>3. bucket' = [bucket EXCEPT ![x][y] = c] /\ M' = M + Counted(k)
      /\ UNCHANGED <<bucketCounter, file, saving, cut>>
  BY DEF Add
<1> HIDE DEF x, y, c
<1>4. DOMAIN bucket' = DOMAIN bucket
      /\ bucket' = [i \in DOMAIN bucket' |-> bucket'[i]]
  BY <1>3
<1>5. ASSUME NEW i \in DOMAIN bucket
      PROVE  bucket'[i] \in [Slots -> Slot]
  <2>1. bucket[i] \in [Slots -> Slot]
    BY DEF TypeInv, BucketsInv
  <2>2. bucket'[i] = IF i = x THEN [bucket[i] EXCEPT ![y] = c] ELSE bucket[i]
    BY <1>3
  <2> QED BY <1>1, <2>1, <2>2 DEF c
<1>6. BucketsInv'
  BY <1>2, <1>3, <1>4, <1>5 DEF TypeInv, BucketsInv
<1>7. FileInv'
  BY <1>3 DEF TypeInv, FileInv
<1> QED BY <1>6, <1>7 DEF TypeInv

LEMMA SaveToFileType ==
  ASSUME TypeInv, SaveToFile
  PROVE  TypeInv'
<1>1. file'.buckets = <<>> /\ file'.count = bucketCounter /\ saving' = TRUE
      /\ UNCHANGED <<bucketCounter, M, bucket, cut>>
  BY DEF SaveToFile
<1>2. file' \in File
  BY DEF SaveToFile, TypeInv, BucketsInv, File
<1>3. FileInv'
  BY <1>1, <1>2 DEF TypeInv, BucketsInv, FileInv
<1> QED BY <1>1, <1>3 DEF TypeInv, BucketsInv

(* The next bucket is written.                                             *)
LEMMA SavedBucket ==
  ASSUME TypeInv, SaveBucket
  PROVE  LET B == file.buckets
         IN  /\ file'.count = file.count /\ file'.M = file.M
             /\ file'.cut = file.cut
             /\ file'.buckets \in Seq(Part)
             /\ Len(file'.buckets) = Len(B) + 1
             /\ \A i \in 1..Len(B) : file'.buckets[i] = B[i]
             /\ file'.buckets[Len(B) + 1] = bucket[Len(B)]
             /\ bucket[Len(B)] \in [Slots -> Slot]
             /\ Len(B) \in Nat /\ Len(B) < bucketCounter
<1> DEFINE B == file.buckets
           r == bucket[Len(B)]
<1>1. file \in File /\ B \in Seq(Part) /\ Len(B) \in Nat
  BY DEF TypeInv, FileInv, File
<1>2. Len(B) \in 0..(bucketCounter - 1)
  BY <1>1 DEF SaveBucket, TypeInv, BucketsInv
<1>3. r \in [Slots -> Slot]
  BY <1>2 DEF TypeInv, BucketsInv
<1>4. r \in Part
  BY <1>3, PartType
<1>5. file' = [file EXCEPT !.buckets = Append(B, r)]
  BY DEF SaveBucket
<1> HIDE DEF r
<1>6. /\ file'.count = file.count /\ file'.M = file.M /\ file'.cut = file.cut
      /\ file'.buckets = Append(B, r)
  BY <1>1, <1>5 DEF File
<1> HIDE DEF B
<1>7. /\ Append(B, r) \in Seq(Part) /\ Len(Append(B, r)) = Len(B) + 1
      /\ \A i \in 1..Len(B) : Append(B, r)[i] = B[i]
      /\ Append(B, r)[Len(B) + 1] = r
  BY <1>1, <1>4, AppendProperties
<1>8. Len(B) \in Nat /\ Len(B) < bucketCounter
  BY <1>2 DEF TypeInv, BucketsInv
<1>9. /\ file'.buckets \in Seq(Part) /\ Len(file'.buckets) = Len(B) + 1
      /\ \A i \in 1..Len(B) : file'.buckets[i] = B[i]
      /\ file'.buckets[Len(B) + 1] = r
  BY <1>6, <1>7, Zenon
<1> QED BY <1>3, <1>6, <1>8, <1>9 DEF B, r

LEMMA SaveBucketType ==
  ASSUME TypeInv, SaveBucket
  PROVE  TypeInv'
<1>1. file \in File
  BY DEF TypeInv, FileInv
<1>2. file' = [file EXCEPT !.buckets =
                           Append(file.buckets, bucket[Len(file.buckets)])]
  BY DEF SaveBucket
<1>3. file' \in File
  <2>1. file'.buckets = Append(file.buckets, bucket[Len(file.buckets)])
    BY <1>1, <1>2 DEF File
  <2>2. file'.buckets \in Seq(Part)
    BY SavedBucket
  <2> QED BY <1>1, <1>2, <2>1, <2>2 DEF File
<1>4. UNCHANGED <<bucketCounter, M, bucket, saving, cut>> /\ saving
  BY DEF SaveBucket
<1>5. ASSUME NEW i \in 1..Len(file'.buckets)
      PROVE  DOMAIN file'.buckets[i] = Slots
  <2>1. i \in 1..Len(file.buckets) \/ i = Len(file.buckets) + 1
    BY SavedBucket
  <2> QED BY <1>4, <2>1, SavedBucket DEF TypeInv, FileInv
<1>6. FileInv'
  BY <1>1, <1>3, <1>4, <1>5, SavedBucket DEF TypeInv, BucketsInv, FileInv
<1> QED BY <1>4, <1>6 DEF TypeInv, BucketsInv

LEMMA CloseFileType ==
  ASSUME TypeInv, CloseFile
  PROVE  TypeInv'
BY DEF TypeInv, BucketsInv, FileInv, CloseFile

LEMMA ConstructType ==
  ASSUME NEW count \in Counts, Construct(count)
  PROVE  /\ bucketCounter' = count /\ M' = 0
         /\ bucketCounter' \in Nat \ {0} /\ M' \in Nat
         /\ bucket' = [i \in DOMAIN bucket' |-> bucket'[i]]
         /\ DOMAIN bucket' = 0..(count - 1)
         /\ \A i \in DOMAIN bucket' : bucket'[i] = EmptyBucket
<1>1. count \in Nat \ {0}
  BY HashtableAssumption
<1>2. bucketCounter' = count /\ M' = 0
      /\ bucket' = [i \in 0..(count - 1) |-> EmptyBucket]
  BY DEF Construct
<1> QED BY <1>1, <1>2

LEMMA RestartType ==
  ASSUME TypeInv, NEW count \in Counts, Restart(count)
  PROVE  TypeInv'
<1>1. Construct(count) /\ saving' = FALSE /\ cut' = FALSE
  BY DEF Restart
<1>2. BucketsInv'
  <2>1. 0..(bucketCounter' - 1) \subseteq DOMAIN bucket'
        /\ DOMAIN bucket' \subseteq Nat
        /\ \A i \in DOMAIN bucket' : bucket'[i] \in [Slots -> Slot]
    BY <1>1, ConstructType, EmptyBucketType
  <2> QED BY <1>1, <2>1, ConstructType DEF BucketsInv
<1>3. file \in File
  BY DEF TypeInv, FileInv
<1>4. CASE saving /\ \E n \in 0..(Len(file.buckets) - 1), m \in 0..C :
             file' = [file EXCEPT !.buckets = FirstBuckets(n, m)]
  <2>1. PICK n \in 0..(Len(file.buckets) - 1), m \in 0..C :
          file' = [file EXCEPT !.buckets = FirstBuckets(n, m)]
    BY <1>4
  <2>2. file'.buckets = FirstBuckets(n, m) /\ file'.count = file.count
    BY <1>3, <2>1 DEF File
  <2>3. file' \in File
    BY <1>3, <1>4, <2>1, FirstBucketsAre DEF File
  <2>4. file'.count # 0
    BY <1>4, <2>2 DEF TypeInv, FileInv, BucketsInv
  <2>5. Len(file'.buckets) <= file'.count
    <3>1. Len(file.buckets) \in Nat /\ file.count \in Nat
          /\ Len(file.buckets) <= file.count /\ Len(file'.buckets) \in Nat
      BY <1>3, <2>3 DEF File, TypeInv, FileInv
    <3>2. Len(file'.buckets) <= Len(file.buckets)
      BY <1>4, <2>2, FirstBucketsAre
    <3> QED BY <2>2, <3>1, <3>2
  <2>6. \A i \in 1..Len(file'.buckets) :
          i < Len(file'.buckets) => DOMAIN file'.buckets[i] = Slots
    BY <1>4, <2>2, FirstBucketsAre
  <2>7. FileInv'
    BY <1>1, <2>3, <2>4, <2>5, <2>6 DEF FileInv
  <2> QED BY <1>2, <2>7 DEF TypeInv
<1>5. CASE (saving => file.buckets = <<>>) /\ file' = file
  BY <1>1, <1>2, <1>5 DEF TypeInv, FileInv
<1> QED BY <1>4, <1>5 DEF Restart

LEMMA LoadedType ==
  ASSUME TypeInv, LoadFromFile, NEW i \in Nat, i < file.count
  PROVE  Loaded(i) \in [Slots -> Slot]
<1>1. file \in File /\ file.buckets \in Seq(Part) /\ Len(file.buckets) \in Nat
      /\ file.count \in Nat
  BY DEF TypeInv, FileInv, File
<1>2. ASSUME NEW s \in Slots, i < Len(file.buckets),
             s \in DOMAIN file.buckets[i + 1]
      PROVE  file.buckets[i + 1][s] \in Slot
  <2>1. file.buckets[i + 1] \in Part
    BY <1>1, <1>2
  <2> QED BY <1>2, <2>1, PartOf
<1>3. ASSUME NEW s \in Slots,
             ~ (i < Len(file.buckets) /\ s \in DOMAIN file.buckets[i + 1])
      PROVE  bucket[i][s] \in Slot
  <2>1. CutOff
    <3>1. CASE Len(file.buckets) < file.count
      BY <3>1 DEF CutOff
    <3>2. CASE ~ (Len(file.buckets) < file.count)
      <4>1. Len(file.buckets) = file.count /\ i < Len(file.buckets)
        BY <1>1, <3>2 DEF TypeInv, FileInv
      <4>2. s \notin DOMAIN file.buckets[i + 1]
        BY <1>3, <4>1
      <4>3. i + 1 \in 1..Len(file.buckets)
            /\ (i + 1 < Len(file.buckets) \/ i + 1 = Len(file.buckets))
        BY <1>1, <4>1
      <4>4. i + 1 = Len(file.buckets)
        BY <1>3, <4>2, <4>3 DEF TypeInv, FileInv
      <4>5. DOMAIN file.buckets[Len(file.buckets)] # Slots
        BY <1>3, <4>2, <4>4
      <4> QED BY <4>5 DEF CutOff, Last
    <3> QED BY <3>1, <3>2
  <2>2. i \in 0..(file.count - 1)
    BY <1>1
  <2>3. i \in DOMAIN bucket
    BY <2>1, <2>2 DEF LoadFromFile
  <2> QED BY <1>3, <2>3 DEF TypeInv, BucketsInv
<1> QED BY <1>2, <1>3 DEF Loaded

LEMMA LoadFromFileType ==
  ASSUME TypeInv, LoadFromFile
  PROVE  TypeInv'
<1>1. /\ bucketCounter' = file.count /\ M' = file.M
      /\ bucket' = [i \in Allocated |->
                      IF i < file.count THEN Loaded(i) ELSE bucket[i]]
      /\ UNCHANGED <<file, saving>> /\ ~saving
  BY DEF LoadFromFile, LoadedCounter
<1>2. cut' \in BOOLEAN
  BY DEF LoadFromFile
<1>3. file.count \in Nat \ {0} /\ file.M \in Nat
  BY DEF TypeInv, FileInv, File, LoadFromFile
<1>4. Allocated = DOMAIN bucket \cup 0..(file.count - 1) /\ Allocated \subseteq Nat
  BY <1>3 DEF Allocated, TypeInv, BucketsInv
<1>5. ASSUME NEW i \in Allocated
      PROVE  bucket'[i] \in [Slots -> Slot]
  <2>1. CASE i < file.count
    BY <1>1, <1>4, <1>5, <2>1, LoadedType
  <2>2. CASE ~ (i < file.count)
    BY <1>1, <1>3, <1>4, <2>2 DEF TypeInv, BucketsInv
  <2> QED BY <2>1, <2>2
<1>6. DOMAIN bucket' = Allocated
      /\ bucket' = [i \in DOMAIN bucket' |-> bucket'[i]]
  BY <1>1
<1>7. BucketsInv'
  BY <1>1, <1>2, <1>3, <1>4, <1>5, <1>6 DEF TypeInv, BucketsInv
<1>8. FileInv'
  BY <1>1 DEF TypeInv, FileInv
<1> QED BY <1>7, <1>8 DEF TypeInv

LEMMA NextType ==
  ASSUME TypeInv, [Next]_vars
  PROVE  TypeInv'
<1>1. CASE UNCHANGED vars
  BY <1>1 DEF vars, TypeInv, BucketsInv, FileInv
<1> QED BY <1>1, AddType, SaveToFileType, SaveBucketType, CloseFileType,
           RestartType, LoadFromFileType DEF Next

LEMMA TypeInvHolds == Spec => []TypeInv
BY InitType, NextType, PTL DEF Spec

(* A table that is saved, loaded or cut off at any point stays one: its    *)
(* buckets are whole, and the file holds buckets of its own table.         *)
THEOREM TypeCorrect == Spec => []TypeOK
BY TypeInvHolds, TypeOKHolds, PTL

-----------------------------------------------------------------------------
(* The table is found by its probes and counted by M; so is the one in a   *)
(* file that is whole.                                                     *)
Good(n, b, m) == FoundAll(n, b) /\ m = Cardinality(Stored(n, b))

FileTable == [i \in Nat |-> file.buckets[i + 1]]
Whole == ~CutOff /\ ~file.cut

TableInv ==
  /\ ~cut => Good(bucketCounter, bucket, M)
  /\ saving => /\ file.M = M /\ file.cut = cut
               /\ \A i \in 1..Len(file.buckets) : file.buckets[i] = bucket[i - 1]
  /\ ~saving /\ file # NoFile /\ Whole => Good(file.count, FileTable, file.M)

LEMMA GoodSame ==
  ASSUME NEW n \in Nat \ {0}, NEW b, NEW c, NEW m, Good(n, b, m),
         \A i \in 0..(n - 1), s \in Slots : b[i][s] = c[i][s]
  PROVE  Good(n, c, m)
BY SameTable DEF Good

(* A whole file has all its slots.                                         *)
AllSlots ==
  /\ Len(file.buckets) = file.count /\ file.count \in Nat
  /\ \A i \in 1..file.count : DOMAIN file.buckets[i] = Slots

LEMMA NotCutOff == FileInv /\ ~CutOff => AllSlots
<1> SUFFICES ASSUME FileInv, ~CutOff
             PROVE  AllSlots
  OBVIOUS
<1>1. Len(file.buckets) \in Nat /\ file.count \in Nat
  BY DEF FileInv, File
<1>2. Len(file.buckets) = file.count
  BY <1>1 DEF FileInv, CutOff
<1>3. DOMAIN file.buckets[Len(file.buckets)] = Slots
  BY DEF CutOff, Last
<1>4. \A i \in 1..file.count : i < file.count \/ i = Len(file.buckets)
  BY <1>1, <1>2
<1>5. ASSUME NEW i \in 1..file.count
      PROVE  DOMAIN file.buckets[i] = Slots
  BY <1>2, <1>3, <1>4 DEF FileInv
<1> QED BY <1>1, <1>2, <1>5 DEF AllSlots

LEMMA EmptyTable ==
  ASSUME NEW n \in Nat \ {0}, NEW b, \A i \in 0..(n - 1) : b[i] = EmptyBucket
  PROVE  Good(n, b, 0)
<1>1. Stored(n, b) = {}
  <2>1. ASSUME NEW i \in 0..(n - 1), NEW s \in Slots
        PROVE  b[i][s].key = ZeroKey
    BY DEF EmptyBucket
  <2> QED BY <2>1 DEF Stored
<1> QED BY <1>1, FS_EmptySet DEF Good, FoundAll

LEMMA InitTable ==
  ASSUME Init
  PROVE  TableInv
<1>1. PICK n \in Counts : /\ bucketCounter = n /\ M = 0
                          /\ bucket = [i \in 0..(n - 1) |-> EmptyBucket]
  BY DEF Init
<1>2. n \in Nat \ {0}
  BY HashtableAssumption
<1>3. Good(bucketCounter, bucket, M)
  <2>1. \A i \in 0..(n - 1) : bucket[i] = EmptyBucket
    BY <1>1
  <2> QED BY <1>1, <1>2, <2>1, EmptyTable
<1>4. file = NoFile /\ saving = FALSE
  BY Zenon DEF Init
<1> QED BY <1>3, <1>4 DEF TableInv

(* Add is a Put, at the probe where the search ended.                      *)
LEMMA AddPuts ==
  ASSUME BucketsInv, NEW k \in Key, NEW v \in Value, Add(k, v)
  PROVE  /\ Put(bucketCounter, bucket, bucket', k, v, Min(Ends(k)))
         /\ Counted(k) = IF At(bucketCounter, bucket, k, Min(Ends(k))).key = k
                           THEN 0 ELSE 1
<1> DEFINE n == bucketCounter
           b == bucket
           p == Min(Ends(k))
<1>1. Ends(k) = Stops(n, b, k) /\ \A i : pData(k, i) = At(n, b, k, i)
  BY DEF Ends, Stops, pData, At, bucketNumber, Home
<1>2. LastProbe \in Nat
  BY HashtableAssumption
<1>3. Stops(n, b, k) \in SUBSET Nat /\ Stops(n, b, k) # {}
  BY <1>1, <1>2 DEF Stops, Add
<1>4. Min(Stops(n, b, k)) \in Stops(n, b, k)
      /\ \A h \in Stops(n, b, k) : Min(Stops(n, b, k)) <= h
  BY <1>3, MinIsLeast
<1>5. p = Min(Stops(n, b, k)) /\ p \in 0..LastProbe
      /\ At(n, b, k, p).key \in {k, ZeroKey}
  BY <1>1, <1>4 DEF Stops
<1>6. ASSUME NEW h \in 0..LastProbe, h < p
      PROVE  At(n, b, k, h).key \notin {k, ZeroKey}
  BY <1>2, <1>4, <1>5, <1>6 DEF Stops
<1>7. Home(n, k) \in 0..(n - 1) /\ addr(k, p) \in Slots
  BY <1>5, HomeType, AddrType DEF BucketsInv
<1>8. bucket' = [b EXCEPT ![Home(n, k)][addr(k, p)] =
                             [key |-> k, value |-> v]]
  BY DEF Add, bucketNumber, Home, AddedAt
<1> DEFINE r == [key |-> k, value |-> v]
           x == Home(n, k)
           y == addr(k, p)
<1>9. ASSUME NEW i \in 0..(n - 1), NEW s \in Slots
      PROVE  bucket'[i][s] = IF i = x /\ s = y THEN r ELSE b[i][s]
  <2>1. i \in DOMAIN b /\ b[i] \in [Slots -> Slot]
    BY DEF BucketsInv
  <2>2. bucket' = [b EXCEPT ![x][y] = r]
    BY <1>8
  <2> HIDE DEF r, x, y
  <2> QED BY <2>1, <2>2
<1>10. Counted(k) = IF At(n, b, k, p).key = k THEN 0 ELSE 1
  BY <1>1, <1>3 DEF Counted, ContainsKey
<1> QED BY <1>5, <1>6, <1>9, <1>10 DEF Put

LEMMA AddTable ==
  ASSUME TypeInv, TableInv, NEW k \in Key, NEW v \in Value, Add(k, v)
  PROVE  TableInv'
<1>1. UNCHANGED <<bucketCounter, file, saving, cut>> /\ ~saving
      /\ M' = M + Counted(k)
  BY DEF Add
<1>2. BucketsInv /\ bucketCounter \in Nat \ {0}
  BY DEF TypeInv, BucketsInv
<1>3. ASSUME ~cut
      PROVE  Good(bucketCounter, bucket', M')
  <2>1. FoundAll(bucketCounter, bucket)
        /\ M = Cardinality(Stored(bucketCounter, bucket))
    BY <1>3 DEF TableInv, Good
  <2>2. FoundAll(bucketCounter, bucket')
    BY <1>2, <2>1, AddPuts, PutFound
  <2>3. M' = Cardinality(Stored(bucketCounter, bucket'))
    BY <1>1, <1>2, <2>1, AddPuts, PutCounts
  <2> QED BY <2>2, <2>3 DEF Good
<1>4. FileTable' = FileTable /\ Whole' = Whole
  BY <1>1 DEF FileTable, Whole, CutOff
<1> QED BY <1>1, <1>3, <1>4 DEF TableInv

LEMMA SaveToFileTable ==
  ASSUME TypeInv, TableInv, SaveToFile
  PROVE  TableInv'
<1>1. /\ file'.M = M /\ file'.cut = cut /\ file'.buckets = <<>>
      /\ saving' = TRUE /\ UNCHANGED <<bucketCounter, M, bucket, cut>>
  BY DEF SaveToFile
<1>2. Len(file'.buckets) = 0
  BY <1>1
<1> QED BY <1>1, <1>2 DEF TableInv

LEMMA SaveBucketTable ==
  ASSUME TypeInv, TableInv, SaveBucket
  PROVE  TableInv'
<1>1. saving /\ UNCHANGED <<bucketCounter, M, bucket, saving, cut>>
  BY DEF SaveBucket
<1>2. ASSUME NEW i \in 1..Len(file'.buckets)
      PROVE  file'.buckets[i] = bucket[i - 1]
  <2>1. i \in 1..Len(file.buckets)
        \/ (i = Len(file.buckets) + 1 /\ i - 1 = Len(file.buckets))
    BY SavedBucket
  <2> QED BY <1>1, <2>1, SavedBucket DEF TableInv
<1>3. file.M = M /\ file.cut = cut
  BY <1>1 DEF TableInv
<1> QED BY <1>1, <1>2, <1>3, SavedBucket DEF TableInv

(* The file that was written last is the table.                            *)
LEMMA SavedFile ==
  ASSUME TypeInv, TableInv, saving, ~CutOff, ~file.cut
  PROVE  Good(file.count, FileTable, file.M)
<1>1. /\ file.count = bucketCounter /\ bucketCounter \in Nat \ {0}
      /\ file.M = M /\ ~cut
      /\ \A i \in 1..Len(file.buckets) : file.buckets[i] = bucket[i - 1]
  BY DEF TypeInv, FileInv, BucketsInv, TableInv
<1>2. Len(file.buckets) = bucketCounter
  BY <1>1, NotCutOff DEF TypeInv, AllSlots
<1>3. ASSUME NEW i \in 0..(bucketCounter - 1), NEW s \in Slots
      PROVE  bucket[i][s] = FileTable[i][s]
  <2>1. i \in Nat /\ i + 1 \in 1..Len(file.buckets) /\ (i + 1) - 1 = i
    BY <1>1, <1>2
  <2> QED BY <1>1, <2>1 DEF FileTable
<1>4. Good(bucketCounter, bucket, M)
  BY <1>1 DEF TableInv
<1> QED BY <1>1, <1>3, <1>4, GoodSame

LEMMA CloseFileTable ==
  ASSUME TypeInv, TableInv, CloseFile
  PROVE  TableInv'
<1>1. saving /\ saving' = FALSE /\ UNCHANGED <<bucketCounter, M, bucket, file, cut>>
  BY DEF CloseFile
<1>2. FileTable' = FileTable /\ Whole' = Whole
  BY <1>1 DEF FileTable, Whole, CutOff
<1>3. Whole => Good(file.count, FileTable, file.M)
  BY <1>1, SavedFile DEF Whole
<1> QED BY <1>1, <1>2, <1>3 DEF TableInv

LEMMA RestartTable ==
  ASSUME TypeInv, TableInv, NEW count \in Counts, Restart(count)
  PROVE  TableInv'
<1>1. Construct(count) /\ saving' = FALSE /\ cut' = FALSE
  BY DEF Restart
<1>2. Good(bucketCounter', bucket', M')
  <2>1. \A i \in 0..(bucketCounter' - 1) : bucket'[i] = EmptyBucket
    BY <1>1, ConstructType
  <2> QED BY <1>1, <2>1, ConstructType, EmptyTable
<1>3. file \in File /\ TypeInv'
  BY RestartType DEF TypeInv, FileInv
<1>4. CASE saving /\ \E n \in 0..(Len(file.buckets) - 1), m \in 0..C :
             file' = [file EXCEPT !.buckets = FirstBuckets(n, m)]
  <2>1. PICK n \in 0..(Len(file.buckets) - 1), m \in 0..C :
          file' = [file EXCEPT !.buckets = FirstBuckets(n, m)]
    BY <1>4
  <2>2. /\ file'.buckets = FirstBuckets(n, m) /\ file'.count = file.count
        /\ file'.M = file.M /\ file'.cut = file.cut
    BY <1>3, <2>1 DEF File
  <2>3. ASSUME Whole'
        PROVE  Good(file.count, FileTable', file.M)
    <3>1. /\ file.count = bucketCounter /\ bucketCounter \in Nat \ {0}
          /\ file.M = M /\ ~cut
          /\ \A i \in 1..Len(file.buckets) : file.buckets[i] = bucket[i - 1]
      BY <1>4, <2>2, <2>3 DEF TypeInv, FileInv, BucketsInv, TableInv, Whole
    <3>2. Len(file'.buckets) = bucketCounter
          /\ \A i \in 1..bucketCounter : DOMAIN file'.buckets[i] = Slots
      <4>1. AllSlots'
        <5>1. FileInv' /\ ~CutOff'
          BY <1>3, <2>3 DEF TypeInv, Whole
        <5>2. FileInv' /\ ~CutOff' => AllSlots'
          BY NotCutOff, PTL
        <5> QED BY <5>1, <5>2
      <4> QED BY <2>2, <3>1, <4>1 DEF AllSlots
    <3>3. Len(file.buckets) \in Nat /\ bucketCounter <= Len(file.buckets)
      BY <1>3, <1>4, <2>2, <3>2, FirstBucketsAre DEF File
    <3>4. ASSUME NEW i \in 0..(bucketCounter - 1), NEW s \in Slots
          PROVE  bucket[i][s] = FileTable'[i][s]
      <4>1. i \in Nat /\ i + 1 \in 1..bucketCounter /\ (i + 1) - 1 = i
            /\ i + 1 \in 1..Len(file.buckets)
        BY <3>1, <3>3
      <4>2. file'.buckets[i + 1][s] = file.buckets[i + 1][s]
        <5>1. \A j \in 1..Len(file'.buckets) : \A t \in DOMAIN file'.buckets[j] :
                file'.buckets[j][t] = file.buckets[j][t]
          BY <1>4, <2>2, FirstBucketsAre
        <5> QED BY <3>2, <4>1, <5>1
      <4>3. file.buckets[i + 1] = bucket[i]
        BY <3>1, <4>1
      <4>4. FileTable'[i] = file'.buckets[i + 1]
        BY <4>1 DEF FileTable
      <4> QED BY <4>2, <4>3, <4>4
    <3>5. Good(bucketCounter, bucket, M)
      BY <3>1 DEF TableInv
    <3> QED BY <3>1, <3>4, <3>5, GoodSame
  <2> QED BY <1>1, <1>2, <2>2, <2>3 DEF TableInv
<1>5. CASE (saving => file.buckets = <<>>) /\ file' = file
  <2>1. CASE saving
    <3>1. file.buckets = <<>> /\ Len(file.buckets) = 0 /\ file.count # 0
          /\ file.count \in Nat
      BY <1>3, <1>5, <2>1 DEF TypeInv, FileInv, BucketsInv, File
    <3>2. CutOff'
      BY <1>5, <3>1 DEF CutOff
    <3> QED BY <1>1, <1>2, <3>2 DEF TableInv, Whole
  <2>2. CASE ~saving
    <3>1. FileTable' = FileTable /\ Whole' = Whole
      BY <1>5 DEF FileTable, Whole, CutOff
    <3> QED BY <1>1, <1>2, <1>5, <2>2, <3>1 DEF TableInv
  <2> QED BY <2>1, <2>2 DEF TypeInv, BucketsInv
<1> QED BY <1>4, <1>5 DEF Restart

LEMMA LoadFromFileTable ==
  ASSUME TypeInv, TableInv, LoadFromFile
  PROVE  TableInv'
<1>1. /\ bucketCounter' = file.count /\ M' = file.M
      /\ bucket' = [i \in Allocated |->
                      IF i < file.count THEN Loaded(i) ELSE bucket[i]]
      /\ UNCHANGED <<file, saving>> /\ ~saving /\ file # NoFile
      /\ cut' = (file.cut \/ CutOff)
  BY DEF LoadFromFile, LoadedCounter
<1>2. FileTable' = FileTable /\ Whole' = Whole
  BY <1>1 DEF FileTable, Whole, CutOff
<1>3. ASSUME ~cut'
      PROVE  Good(bucketCounter', bucket', M')
  <2>1. ~CutOff /\ ~file.cut
    BY <1>1, <1>3
  <2>2. Good(file.count, FileTable, file.M)
    BY <1>1, <2>1 DEF TableInv, Whole
  <2>3. /\ Len(file.buckets) = file.count /\ file.count \in Nat \ {0}
        /\ \A i \in 1..file.count : DOMAIN file.buckets[i] = Slots
    BY <1>1, <2>1, NotCutOff DEF TypeInv, FileInv, AllSlots
  <2>4. ASSUME NEW i \in 0..(file.count - 1), NEW s \in Slots
        PROVE  FileTable[i][s] = bucket'[i][s]
    <3>1. i \in Nat /\ i < file.count /\ i + 1 \in 1..file.count
      BY <2>3
    <3>2. i \in Allocated
      BY DEF Allocated
    <3>3. bucket'[i] = Loaded(i)
      BY <1>1, <3>1, <3>2
    <3>4. Loaded(i)[s] = file.buckets[i + 1][s]
      BY <2>3, <3>1 DEF Loaded
    <3>5. FileTable[i] = file.buckets[i + 1]
      BY <3>1 DEF FileTable
    <3> QED BY <3>3, <3>4, <3>5
  <2>5. Good(file.count, bucket', file.M)
    BY <2>2, <2>3, <2>4, GoodSame
  <2> QED BY <1>1, <2>5
<1> QED BY <1>1, <1>2, <1>3 DEF TableInv

LEMMA NextTable ==
  ASSUME TypeInv, TableInv, [Next]_vars
  PROVE  TableInv'
<1>1. CASE UNCHANGED vars
  <2>1. FileTable' = FileTable /\ Whole' = Whole
    BY <1>1 DEF vars, FileTable, Whole, CutOff
  <2> QED BY <1>1, <2>1 DEF vars, TableInv
<1> QED BY <1>1, AddTable, SaveToFileTable, SaveBucketTable, CloseFileTable,
           RestartTable, LoadFromFileTable DEF Next

LEMMA TableInvHolds == Spec => [](TypeInv /\ TableInv)
<1>1. Init => TypeInv /\ TableInv
  BY InitType, InitTable
<1>2. TypeInv /\ TableInv /\ [Next]_vars => (TypeInv /\ TableInv)'
  BY NextType, NextTable
<1> QED BY <1>1, <1>2, PTL DEF Spec

-----------------------------------------------------------------------------
(* In a table that was never cut off every entry is at the probe where     *)
(* ReadValue and ContainsKey look for its key, so that no key has two      *)
(* entries: also after the table was saved and loaded, whichever process   *)
(* was killed on the way.                                                  *)
THEOREM AllEntriesFound == Spec => []EntriesAreFound
<1>1. TypeInv /\ TableInv => EntriesAreFound
  <2> SUFFICES ASSUME TableInv, ~cut, NEW e \in Entries,
                      NEW k, k = bucket[e[1]][e[2]].key
               PROVE  ContainsKey(k)
                      /\ e = <<bucketNumber(k), addr(k, Min(Ends(k)))>>
    BY DEF EntriesAreFound
  <2>1. e \in Stored(bucketCounter, bucket) /\ k \in Key \ {ZeroKey}
    BY DEF Entries, Stored
  <2>2. PICK i : Finds(bucketCounter, bucket, k, i)
                 /\ e = <<Home(bucketCounter, k), addr(k, i)>>
    BY <2>1 DEF TableInv, Good, FoundAll
  <2>3. ContainsKey(k) /\ i = Min(Ends(k))
    BY <2>1, <2>2, Lookup DEF AllLookedUp, LookedUp
  <2> QED BY <2>2, <2>3 DEF Home, bucketNumber
<1> QED BY <1>1, TableInvHolds, PTL

(* M is the number of entries, through overwriting, saving and loading.    *)
THEOREM EntriesCounted == Spec => []CountsEntries
<1>1. TypeInv /\ TableInv => CountsEntries
  BY DEF TableInv, Good, CountsEntries, Entries, Stored
<1> QED BY <1>1, TableInvHolds, PTL

LEMMA AddSeen ==
  ASSUME TypeInv, TableInv, ~cut, NEW k \in Key, NEW v \in Value, Add(k, v),
         NEW o \in Key \ {ZeroKey}
  PROVE  Seen(o)' = IF o = k THEN <<v>> ELSE Seen(o)
<1> DEFINE n == bucketCounter
           p == Min(Ends(k))
<1>1. n \in Nat \ {0} /\ FoundAll(n, bucket) /\ UNCHANGED bucketCounter
      /\ Put(n, bucket, bucket', k, v, p)
  BY AddPuts DEF TypeInv, BucketsInv, TableInv, Good, Add
<1>2. LookedUp(o) /\ LookedUp(o)'
  <2>1. AllLookedUp'
    BY Lookup, PTL
  <2> QED BY <2>1, Lookup DEF AllLookedUp
<1>3. ASSUME NEW i, Finds(n, bucket', o, i)
      PROVE  Seen(o)' = <<At(n, bucket', o, i).value>>
  BY <1>1, <1>2, <1>3 DEF LookedUp, Seen
<1>4. CASE o = k
  <2>1. Finds(n, bucket', k, p) /\ At(n, bucket', k, p).value = v
    BY <1>1, <1>4, PutSelf
  <2> QED BY <1>3, <1>4, <2>1
<1>5. CASE o # k /\ ContainsKey(o)
  <2> DEFINE i == Min(Ends(o))
  <2>1. Finds(n, bucket, o, i)
    BY <1>2, <1>5 DEF LookedUp
  <2> HIDE DEF i
  <2>2. Finds(n, bucket', o, i) /\ At(n, bucket', o, i) = At(n, bucket, o, i)
    BY <1>1, <1>5, <2>1, PutKeeps
  <2>3. Seen(o) = <<At(n, bucket, o, i).value>>
    BY <1>2, <1>5, <2>1 DEF LookedUp, Seen
  <2> QED BY <1>3, <1>5, <2>2, <2>3
<1>6. CASE o # k /\ ~ContainsKey(o)
  <2>1. ~ContainsKey(o)'
    <3> SUFFICES ASSUME ContainsKey(o)' PROVE FALSE
      OBVIOUS
    <3>1. PICK i : Finds(n, bucket', o, i)
      BY <1>1, <1>2 DEF LookedUp
    <3>2. Finds(n, bucket, o, i)
      BY <1>1, <1>6, <3>1, PutAdds
    <3> QED BY <1>2, <1>6, <3>2 DEF LookedUp
  <2> QED BY <1>6, <2>1 DEF Seen
<1> QED BY <1>4, <1>5, <1>6

(* Add sets the value of its key and is seen by no other key, whichever    *)
(* probes they share; the zero key changes nothing.                        *)
THEOREM AddIsAnUpdate == Spec => AddSetsOneKey
<1>1. TypeInv /\ TableInv /\ [Next]_vars =>
        [\A k \in Key, v \in Value : ~cut /\ Add(k, v) =>
           \A o \in Key \ {ZeroKey} :
             Seen(o)' = IF o = k THEN <<v>> ELSE Seen(o)]_vars
  BY AddSeen
<1> QED BY <1>1, TableInvHolds, PTL DEF Spec, AddSetsOneKey

=============================================================================
