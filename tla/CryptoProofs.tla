---------------------------- MODULE CryptoProofs ----------------------------
(***************************************************************************)
(* Theorems about what LLORAM.h asks of cryptography, for every size of    *)
(* groups, blocks and words, every key and every text:                     *)
(*  - Blake2.tla: the last block always waits in the buffer, and however a *)
(*    message is cut into Updates, the digest is the one of the whole;     *)
(*  - BucketTail.tla (Bucket!): what ToETail encrypts comes back from      *)
(*    ToTail, equal ciphertext blocks are a round of the counter apart,    *)
(*    and the ciphertext fits.                                             *)
(***************************************************************************)
EXTENDS MCCrypto, NaturalLemmas
-----------------------------------------------------------------------------
(* The counter after n bytes.                                              *)
CounterAt(n) == <<n % WordRange, (n \div WordRange) % WordRange>>

(* The carry is found from the low word alone, also when it comes to 0.    *)
LEMMA CounterStep ==
  ASSUME NEW n \in Nat, NEW count \in 0..BlockSize, t = CounterAt(n)
  PROVE  IncrementCounter(count) = CounterAt(n + count)
<1> DEFINE k == n \div WordRange
           q == n % WordRange
           t0 == (q + count) % WordRange
           t1 == ((k % WordRange) + (IF t0 < count THEN 1 ELSE 0)) % WordRange
<1>1. WordRange \in Nat \ {0} /\ count < WordRange /\ count \in Nat
  BY Blake2Assumption
<1>2. k \in Nat /\ q \in 0..(WordRange - 1) /\ n = WordRange * k + q
  BY <1>1, DivMod
<1>3. IncrementCounter(count) = <<t0, t1>>
  BY DEF IncrementCounter, CounterAt
<1> HIDE DEF k, q
<1>4. CASE q + count < WordRange
  <2> DEFINE e == q + count
  <2>1. e \in 0..(WordRange - 1) /\ n + count = WordRange * k + e
    BY <1>1, <1>2, <1>4
  <2> HIDE DEF e
  <2>2. (n + count) \div WordRange = k /\ (n + count) % WordRange = e
    BY <1>1, <1>2, <2>1, DivModOf
  <2> USE DEF e
  <2>3. t0 = q + count /\ ~(t0 < count)
    BY <1>1, <1>2, <1>4
  <2>4. ((k % WordRange) + 0) % WordRange = k % WordRange
    <3>1. k + 0 = k
      BY <1>2
    <3> QED BY <1>1, <1>2, <3>1, ModPlus
  <2>5. t1 = k % WordRange
    <3>1. (IF t0 < count THEN 1 ELSE 0) = 0
      BY <2>3
    <3> QED BY <2>4, <3>1, Zenon
  <2> HIDE DEF t0, t1
  <2> QED BY <1>3, <2>2, <2>3, <2>5, Zenon DEF CounterAt
<1>5. CASE q + count >= WordRange
  <2> DEFINE e == (q + count) - WordRange
  <2>1. /\ e \in 0..(WordRange - 1) /\ e < count
        /\ WordRange * (k + 1) = WordRange * k + WordRange
        /\ k + 1 \in Nat
    BY <1>1, <1>2, <1>5
  <2>2. n + count = WordRange * (k + 1) + e
    BY <1>1, <1>2, <2>1
  <2>3. q + count = WordRange * 1 + e
    BY <1>1, <1>2
  <2> HIDE DEF e
  <2>4. (n + count) \div WordRange = k + 1 /\ (n + count) % WordRange = e
    BY <1>1, <2>1, <2>2, DivModOf
  <2>5. t0 = e
    BY <1>1, <2>1, <2>3, DivModOf
  <2>6. ((k % WordRange) + 1) % WordRange = (k + 1) % WordRange
    BY <1>1, <1>2, ModPlus
  <2>7. t1 = (k + 1) % WordRange
    <3>1. (IF t0 < count THEN 1 ELSE 0) = 1
      BY <2>1, <2>5, Zenon
    <3> QED BY <2>6, <3>1, Zenon
  <2> HIDE DEF t0, t1
  <2> QED BY <1>3, <2>4, <2>5, <2>7, Zenon DEF CounterAt
<1> QED BY <1>1, <1>2, <1>4, <1>5
-----------------------------------------------------------------------------
(* The state: blocks compressed so far with their counters and no flag, a  *)
(* buffer that is not empty if a block was compressed.                     *)
Block == [1..BlockSize -> Byte]
Entry == [block : Block, t : Nat \X Nat, f : BOOLEAN \X BOOLEAN]

StateType ==
  /\ m_key \in Block \cup {<<>>} /\ treeMode \in BOOLEAN
  /\ h \in Seq(Entry) /\ buffer \in Block /\ length \in 0..BlockSize
  /\ input \in Seq(Byte) /\ pc \in {"idle", "update", "blocks"}

CounterInv ==
  /\ t = CounterAt(Len(h) * BlockSize)
  /\ \A k \in 1..Len(h) :
       h[k].t = CounterAt(k * BlockSize) /\ h[k].f = <<FALSE, FALSE>>

WaitInv ==
  /\ pc = "idle" => input = <<>>
  /\ pc = "blocks" => length = 0 /\ input # <<>> /\ h # <<>>
  /\ pc # "blocks" /\ h # <<>> => length > 0

Inv == StateType /\ CounterInv /\ WaitInv

LEMMA SizeType == BlockSize \in Nat \ {0} /\ WordRange \in Nat \ {0} /\ 0 \in Byte
BY Blake2Assumption

LEMMA PaddedType ==
  ASSUME NEW m \in Seq(Byte)
  PROVE  Padded(m) \in Block
<1>1. \A k \in 1..BlockSize : k <= Len(m) => m[k] \in Byte
  BY SizeType, LenProperties
<1> QED BY <1>1, SizeType DEF Padded, Block

LEMMA BlockIsSeq == \A b \in Block : b \in Seq(Byte) /\ Len(b) = BlockSize
<1> SUFFICES ASSUME NEW b \in Block PROVE b \in Seq(Byte) /\ Len(b) = BlockSize
  OBVIOUS
<1> QED BY SizeType DEF Block

LEMMA KeyType ==
  ASSUME StateType
  PROVE  m_key \in Seq(Byte) /\ Len(m_key) \in 0..BlockSize
<1>1. CASE m_key = <<>>
  BY <1>1, SizeType
<1>2. CASE m_key \in Block
  BY <1>2, SizeType, BlockIsSeq
<1> QED BY <1>1, <1>2 DEF StateType

(* Compressing a block appends it with the counter after it.               *)
LEMMA CompressStep ==
  ASSUME Inv, NEW b \in Block, Compress(b, BlockSize, <<FALSE, FALSE>>)
  PROVE  /\ h' \in Seq(Entry) /\ Len(h') = Len(h) + 1 /\ h' # <<>>
         /\ CounterInv'
         /\ \E e \in Entry : e.block = b /\ h' = Append(h, e)
<1> DEFINE n == Len(h)
           e == [block |-> b, t |-> t', f |-> <<FALSE, FALSE>>]
<1>1. n \in Nat /\ h \in Seq(Entry) /\ BlockSize \in Nat \ {0}
  BY SizeType DEF Inv, StateType
<1>2. n * BlockSize \in Nat /\ (n + 1) * BlockSize = n * BlockSize + BlockSize
  BY <1>1
<1>3. t' = CounterAt((n + 1) * BlockSize)
  <2>1. t = CounterAt(n * BlockSize) /\ BlockSize \in 0..BlockSize
    BY <1>1 DEF Inv, CounterInv
  <2> QED BY <1>2, <2>1, CounterStep DEF Compress
<1>4. t' \in Nat \X Nat
  <2>1. \A m \in Nat : CounterAt(m) \in Nat \X Nat
    BY SizeType, DivMod DEF CounterAt
  <2>2. (n + 1) * BlockSize \in Nat
    BY <1>1, <1>2
  <2> QED BY <1>3, <2>1, <2>2
<1>5. h' = Append(h, e) /\ e \in Entry /\ e.block = b /\ e.t = t' /\ e.f = <<FALSE, FALSE>>
  BY <1>4 DEF Compress, Entry
<1> HIDE DEF e
<1>6. /\ h' \in Seq(Entry) /\ Len(h') = n + 1 /\ h' # <<>>
      /\ \A k \in 1..(n + 1) : h'[k] = IF k = n + 1 THEN e ELSE h[k]
  <2>1. \A k \in 1..(n + 1) : k \in 1..n \/ k = n + 1
    BY <1>1
  <2>2. n + 1 \notin 1..n
    BY <1>1
  <2> QED BY <1>1, <1>5, <2>1, <2>2, AppendProperties
<1>7. ASSUME NEW k \in 1..(n + 1)
      PROVE  h'[k].t = CounterAt(k * BlockSize) /\ h'[k].f = <<FALSE, FALSE>>
  <2>1. CASE k = n + 1
    BY <1>3, <1>5, <1>6, <2>1
  <2>2. CASE k # n + 1
    <3>1. k \in 1..n /\ h'[k] = h[k]
      BY <1>1, <1>6, <2>2
    <3> QED BY <3>1 DEF Inv, CounterInv
  <2> QED BY <2>1, <2>2
<1>8. CounterInv'
  BY <1>3, <1>6, <1>7 DEF CounterInv, CounterAt
<1> QED BY <1>5, <1>6, <1>8

LEMMA Cut ==
  ASSUME NEW s \in Seq(Byte), NEW k \in 0..Len(s)
  PROVE  /\ SubSeq(s, 1, k) \in Seq(Byte) /\ Len(SubSeq(s, 1, k)) = k
         /\ \A i \in 1..k : SubSeq(s, 1, k)[i] = s[i]
         /\ SubSeq(s, k + 1, Len(s)) \in Seq(Byte)
         /\ Len(SubSeq(s, k + 1, Len(s))) = Len(s) - k
         /\ \A i \in 1..(Len(s) - k) : SubSeq(s, k + 1, Len(s))[i] = s[k + i]
<1>1. Len(s) \in Nat /\ \A i \in 1..Len(s) : s[i] \in Byte
  BY LenProperties
<1>2. k \in Int /\ k + 1 \in Int /\ 1 \in Int /\ Len(s) \in Int
  BY <1>1
<1>3. /\ \A i \in 1..k : s[i] \in Byte
      /\ \A i \in (k + 1)..Len(s) : s[i] \in Byte
  BY <1>1
<1>4. /\ SubSeq(s, 1, k) \in Seq(Byte)
      /\ Len(SubSeq(s, 1, k)) = IF 1 <= k THEN k - 1 + 1 ELSE 0
      /\ \A i \in 1..(k - 1 + 1) : SubSeq(s, 1, k)[i] = s[1 + i - 1]
  BY <1>2, <1>3, SubSeqProperties
<1>5. /\ SubSeq(s, k + 1, Len(s)) \in Seq(Byte)
      /\ Len(SubSeq(s, k + 1, Len(s))) =
           IF k + 1 <= Len(s) THEN Len(s) - (k + 1) + 1 ELSE 0
      /\ \A i \in 1..(Len(s) - (k + 1) + 1) :
           SubSeq(s, k + 1, Len(s))[i] = s[(k + 1) + i - 1]
  BY <1>2, <1>3, SubSeqProperties
<1>6. \A i \in 1..k : SubSeq(s, 1, k)[i] = s[i]
  <2> SUFFICES ASSUME NEW i \in 1..k PROVE SubSeq(s, 1, k)[i] = s[i]
    OBVIOUS
  <2>1. i \in 1..(k - 1 + 1) /\ 1 + i - 1 = i
    OBVIOUS
  <2> QED BY <1>4, <2>1
<1>7. \A i \in 1..(Len(s) - k) : SubSeq(s, k + 1, Len(s))[i] = s[k + i]
  <2> SUFFICES ASSUME NEW i \in 1..(Len(s) - k)
               PROVE  SubSeq(s, k + 1, Len(s))[i] = s[k + i]
    OBVIOUS
  <2>1. i \in 1..(Len(s) - (k + 1) + 1) /\ (k + 1) + i - 1 = k + i
    BY <1>1
  <2> QED BY <1>5, <2>1
<1>8. Len(SubSeq(s, 1, k)) = k /\ Len(SubSeq(s, k + 1, Len(s))) = Len(s) - k
  BY <1>1, <1>4, <1>5
<1> QED BY <1>4, <1>5, <1>6, <1>7, <1>8

(* What CompleteBlock and CopyTail put in the buffer.                      *)
Filled(s) ==
  [k \in 1..BlockSize |->
     IF length < k /\ k <= length + Len(s) THEN s[k - length] ELSE buffer[k]]

LEMMA FilledType ==
  ASSUME StateType, NEW s \in Seq(Byte)
  PROVE  Filled(s) \in Block
<1>1. ASSUME NEW k \in 1..BlockSize, length < k, k <= length + Len(s)
      PROVE  s[k - length] \in Byte
  <2>1. Len(s) \in Nat /\ length \in Nat /\ BlockSize \in Nat
    BY SizeType, LenProperties DEF StateType
  <2>2. k - length \in 1..Len(s)
    BY <1>1, <2>1
  <2> QED BY <2>2, ElementOfSeq
<1>2. \A k \in 1..BlockSize : buffer[k] \in Byte
  BY DEF StateType, Block
<1> QED BY <1>1, <1>2 DEF Filled, Block

LEMMA RestartedInv ==
  ASSUME Inv, NEW b \in Block, Restarted(b), pc = "idle",
         UNCHANGED <<m_key, input, pc>>, treeMode' \in BOOLEAN
  PROVE  Inv'
<1>1. /\ m_key \in Block \cup {<<>>} /\ Len(m_key) \in 0..BlockSize
      /\ BlockSize \in Nat \ {0} /\ WordRange \in Nat \ {0}
  BY SizeType, KeyType DEF Inv, StateType
<1>2. t' = <<0, 0>> /\ h' = <<>> /\ length' = Len(m_key) /\ buffer' \in Block
  BY <1>1 DEF Restarted
<1>3. StateType'
  BY <1>1, <1>2 DEF Inv, StateType
<1>4. Len(h') = 0 /\ 0 * BlockSize = 0
  BY <1>1, <1>2
<1>5. 0 % WordRange = 0 /\ 0 \div WordRange = 0
  BY <1>1
<1>6. CounterInv'
  BY <1>2, <1>4, <1>5 DEF CounterInv, CounterAt
<1>7. WaitInv'
  BY <1>2 DEF Inv, WaitInv
<1> QED BY <1>3, <1>6, <1>7 DEF Inv

LEMMA InvInit == Init => Inv
<1> SUFFICES ASSUME Init PROVE Inv
  OBVIOUS
<1>1. m_key \in Block \cup {<<>>}
  <2>1. PICK key \in Keys : m_key = UncheckedSetKey(key)
    BY DEF Init
  <2>2. PICK n \in 0..BlockSize : key \in [1..n -> Byte]
    BY <2>1, Blake2Assumption
  <2>3. key \in Seq(Byte)
    BY <2>2, SizeType
  <2> QED BY <2>1, <2>3, PaddedType DEF UncheckedSetKey
<1>2. BlockSize \in Nat \ {0} /\ WordRange \in Nat \ {0}
  BY SizeType
<1>3. Len(m_key) \in 0..BlockSize
  <2>1. CASE m_key = <<>>
    BY <1>2, <2>1
  <2>2. CASE m_key \in Block
    BY <1>2, <2>2, BlockIsSeq
  <2> QED BY <1>1, <2>1, <2>2
<1>4. buffer \in Block
  BY <1>1 DEF Init, Block
<1>5. StateType
  BY <1>1, <1>3, <1>4 DEF Init, StateType
<1>6. 0 * BlockSize = 0 /\ 0 % WordRange = 0 /\ 0 \div WordRange = 0 /\ Len(h) = 0
  BY <1>2 DEF Init
<1>7. CounterInv
  BY <1>6 DEF Init, CounterInv, CounterAt
<1> QED BY <1>5, <1>7 DEF Init, Inv, WaitInv

LEMMA CompleteBlockFills ==
  ASSUME Inv, CompleteBlock
  PROVE  /\ BlockSize - length \in 0..Len(input)
         /\ BlockSize - length < Len(input)
         /\ buffer' = Filled(input)
         /\ input' = SubSeq(input, (BlockSize - length) + 1, Len(input))
<1>1. /\ length \in 0..BlockSize /\ BlockSize \in Nat /\ Len(input) \in Nat
      /\ length + Len(input) > BlockSize
  BY SizeType, LenProperties DEF Inv, StateType, CompleteBlock, TooLong
<1>2. ASSUME NEW k \in 1..BlockSize
      PROVE  (IF k <= length THEN buffer[k] ELSE input[k - length]) = Filled(input)[k]
  BY <1>1 DEF Filled
<1>3. buffer' = [k \in 1..BlockSize |-> IF k <= length THEN buffer[k]
                                                     ELSE input[k - length]]
  BY DEF CompleteBlock
<1>4. buffer' = Filled(input)
  BY <1>2, <1>3 DEF Filled
<1> QED BY <1>1, <1>4 DEF CompleteBlock

LEMMA CompleteBlockInv == Inv /\ CompleteBlock => Inv'
<1> SUFFICES ASSUME Inv, CompleteBlock PROVE Inv'
  OBVIOUS
<1>1. /\ StateType /\ input \in Seq(Byte) /\ BlockSize - length \in 0..Len(input)
      /\ BlockSize - length < Len(input)
      /\ buffer' = Filled(input)
      /\ input' = SubSeq(input, (BlockSize - length) + 1, Len(input))
  BY CompleteBlockFills DEF Inv, StateType
<1>2. buffer' \in Block
  BY <1>1, FilledType
<1>3. h' \in Seq(Entry) /\ h' # <<>> /\ CounterInv'
  BY <1>2, CompressStep DEF CompleteBlock
<1>4. input' \in Seq(Byte) /\ Len(input') = Len(input) - (BlockSize - length)
  BY <1>1, Cut
<1>5. input' # <<>>
  <2>1. Len(input) \in Nat /\ length \in Int /\ BlockSize \in Int
    BY <1>1, SizeType, LenProperties DEF StateType
  <2>2. Len(input') # 0
    BY <1>1, <1>4, <2>1
  <2> QED BY <2>2
<1>6. length' = 0 /\ pc' = "blocks" /\ UNCHANGED <<m_key, treeMode>>
  BY DEF CompleteBlock
<1> QED BY <1>1, <1>2, <1>3, <1>4, <1>5, <1>6, SizeType DEF Inv, StateType, WaitInv

LEMMA CompressInputInv == Inv /\ CompressInput => Inv'
<1> SUFFICES ASSUME Inv, CompressInput PROVE Inv'
  OBVIOUS
<1>1. /\ StateType /\ input \in Seq(Byte) /\ Len(input) \in Nat
      /\ BlockSize \in Nat \ {0} /\ BlockSize \in 0..Len(input)
      /\ BlockSize < Len(input)
      /\ pc = "blocks" /\ length = 0
  BY SizeType, LenProperties DEF Inv, StateType, WaitInv, CompressInput
<1>2. SubSeq(input, 1, BlockSize) \in Block
  BY <1>1, Cut, LenProperties DEF Block
<1>3. h' \in Seq(Entry) /\ h' # <<>> /\ CounterInv'
  BY <1>2, CompressStep DEF CompressInput
<1>4. input' \in Seq(Byte) /\ Len(input') = Len(input) - BlockSize
  BY <1>1, Cut DEF CompressInput
<1>5. input' # <<>>
  <2>1. Len(input') # 0
    BY <1>1, <1>4
  <2> QED BY <2>1
<1>6. UNCHANGED <<m_key, treeMode, buffer, length, pc>>
  BY DEF CompressInput
<1> QED BY <1>1, <1>3, <1>4, <1>5, <1>6 DEF Inv, StateType, WaitInv

LEMMA CopyTailFills ==
  ASSUME Inv, CopyTail
  PROVE  /\ length + Len(input) \in 0..BlockSize
         /\ buffer' = Filled(input) /\ length' = length + Len(input)
         /\ input' = <<>> /\ pc' = "idle" /\ UNCHANGED <<m_key, treeMode, h, t>>
         /\ h # <<>> => length' > 0
<1>1. /\ length \in 0..BlockSize /\ BlockSize \in Nat /\ Len(input) \in Nat
      /\ input \in Seq(Byte)
  BY SizeType, LenProperties DEF Inv, StateType
<1>2. CASE pc = "update" /\ ~TooLong
  <2>1. length + Len(input) <= BlockSize
    BY <1>1, <1>2 DEF TooLong
  <2>2. h # <<>> => length > 0
    BY <1>2 DEF Inv, WaitInv
  <2> QED BY <1>1, <2>1, <2>2 DEF CopyTail, Filled
<1>3. CASE pc = "blocks" /\ Len(input) <= BlockSize
  <2>1. length = 0 /\ input # <<>>
    BY <1>3 DEF Inv, WaitInv
  <2>2. Len(input) > 0
    BY <1>1, <2>1, EmptySeq
  <2> QED BY <1>1, <1>3, <2>1, <2>2 DEF CopyTail, Filled
<1> QED BY <1>2, <1>3 DEF CopyTail

LEMMA CopyTailInv == Inv /\ CopyTail => Inv'
<1> SUFFICES ASSUME Inv, CopyTail PROVE Inv'
  OBVIOUS
<1>1. buffer' \in Block
  BY CopyTailFills, FilledType DEF Inv, StateType
<1>2. StateType'
  BY <1>1, CopyTailFills, EmptySeq DEF Inv, StateType
<1>3. CounterInv'
  BY CopyTailFills DEF Inv, CounterInv, CounterAt
<1>4. WaitInv'
  BY CopyTailFills DEF WaitInv
<1> QED BY <1>2, <1>3, <1>4 DEF Inv

(* The bytes given since the last restart, with compressed blocks hh and   *)
(* the first ll bytes of bb waiting.                                       *)
Message(hh, ll, bb) ==
  [n \in 1..(Len(hh) * BlockSize + ll) |->
     IF n <= Len(hh) * BlockSize
       THEN hh[(n - 1) \div BlockSize + 1].block[((n - 1) % BlockSize) + 1]
       ELSE bb[n - Len(hh) * BlockSize]]

LEMMA AbsorbedIs == Absorbed = Message(h, length, buffer)
BY DEF Absorbed, Message

LEMMA MessageType ==
  ASSUME NEW hh \in Seq(Entry), NEW bb \in Block, NEW ll \in 0..BlockSize
  PROVE  /\ Message(hh, ll, bb) \in Seq(Byte)
         /\ Len(hh) \in Nat /\ Len(hh) * BlockSize \in Nat
         /\ Len(Message(hh, ll, bb)) = Len(hh) * BlockSize + ll
<1> DEFINE d == Len(hh) * BlockSize
<1>1. Len(hh) \in Nat /\ BlockSize \in Nat \ {0} /\ ll \in Nat
  BY SizeType, LenProperties
<1>2. d \in Nat /\ d + ll \in Nat
  BY <1>1
<1>3. ASSUME NEW n \in 1..(d + ll), n <= d
      PROVE  hh[(n - 1) \div BlockSize + 1].block[((n - 1) % BlockSize) + 1] \in Byte
  <2> DEFINE k == (n - 1) \div BlockSize
             q == (n - 1) % BlockSize
  <2>1. n - 1 \in Nat
    BY <1>2
  <2>2. k \in Nat /\ q \in 0..(BlockSize - 1) /\ n - 1 = BlockSize * k + q
    BY <1>1, <2>1, DivMod
  <2>3. k < Len(hh)
    <3> SUFFICES ASSUME k >= Len(hh) PROVE FALSE
      BY <1>1, <2>2
    <3>1. BlockSize * k >= BlockSize * Len(hh)
      BY <1>1, <2>2
    <3> QED BY <1>1, <1>2, <1>3, <2>2, <3>1
  <2>4. k + 1 \in 1..Len(hh) /\ q + 1 \in 1..BlockSize
    BY <1>1, <2>2, <2>3
  <2>5. hh[k + 1] \in Entry
    BY <2>4, ElementOfSeq
  <2> QED BY <2>4, <2>5 DEF Entry, Block
<1>4. ASSUME NEW n \in 1..(d + ll), ~(n <= d)
      PROVE  bb[n - d] \in Byte
  <2>1. n - d \in 1..BlockSize
    BY <1>1, <1>2, <1>4
  <2> QED BY <2>1 DEF Block
<1>5. Message(hh, ll, bb) \in [1..(d + ll) -> Byte]
  BY <1>3, <1>4 DEF Message
<1> HIDE DEF d
<1>6. Message(hh, ll, bb) \in Seq(Byte) /\ Len(Message(hh, ll, bb)) = d + ll
  BY <1>2, <1>5
<1> QED BY <1>1, <1>2, <1>6 DEF d

LEMMA AbsorbedType ==
  ASSUME StateType
  PROVE  Absorbed \in Seq(Byte) /\ Len(Absorbed) = Len(h) * BlockSize + length
         /\ Len(Absorbed) \in Nat
<1>1. h \in Seq(Entry) /\ buffer \in Block /\ length \in 0..BlockSize
  BY DEF StateType
<1>2. length \in Nat
  BY <1>1, SizeType
<1> QED BY <1>1, <1>2, AbsorbedIs, MessageType

LEMMA InputsType ==
  ASSUME StateType, NEW m \in Inputs
  PROVE  m \in Seq(Byte) /\ m \in Hash!Bytes
<1>1. PICK n \in 0..(MaxMessage - Len(Absorbed)) : m \in [1..n -> Byte]
  BY DEF Inputs
<1>2. MaxMessage \in Nat /\ Len(Absorbed) \in Nat
  BY AbsorbedType, Blake2Assumption
<1>3. n \in 0..MaxMessage /\ n \in Nat
  BY <1>2
<1> QED BY <1>1, <1>3 DEF Hash!Bytes

LEMMA InvNext == Inv /\ [Next]_vars => Inv'
<1> SUFFICES ASSUME Inv, [Next]_vars PROVE Inv'
  OBVIOUS
<1>1. CASE \E m \in Inputs : Update(m)
  <2>1. PICK m \in Inputs : Update(m)
    BY <1>1
  <2>2. m \in Seq(Byte)
    BY <2>1, InputsType DEF Inv
  <2>3. /\ pc = "idle" /\ pc' = "update" /\ input' = m
        /\ UNCHANGED <<m_key, treeMode, h, t, buffer, length>>
    BY <2>1 DEF Update, state
  <2>4. StateType' /\ WaitInv'
    BY <2>2, <2>3 DEF Inv, StateType, WaitInv
  <2>5. CounterInv'
    BY <2>3 DEF Inv, CounterInv, CounterAt
  <2> QED BY <2>4, <2>5 DEF Inv
<1>2. CASE \E size \in Sizes : TruncatedFinal(size)
  <2>1. LastBlock \in Block
    <3>1. buffer \in Seq(Byte) /\ Len(buffer) = BlockSize /\ length \in 0..Len(buffer)
      BY BlockIsSeq DEF Inv, StateType
    <3>2. SubSeq(buffer, 1, length) \in Seq(Byte)
      BY <3>1, Cut
    <3> QED BY <3>2, PaddedType DEF LastBlock
  <2>2. treeMode' \in BOOLEAN
    BY <1>2 DEF TruncatedFinal, Inv, StateType
  <2> QED BY <1>2, <2>1, <2>2, RestartedInv DEF TruncatedFinal
<1>3. CASE Restart
  <2>1. buffer \in Block /\ treeMode' \in BOOLEAN
    BY <1>3 DEF Restart, Inv, StateType
  <2> QED BY <1>3, <2>1, RestartedInv DEF Restart
<1>4. CASE (\E mode \in BOOLEAN : SetTreeMode(mode)) \/ (\E size \in Sizes : Refused(size))
           \/ UNCHANGED vars
  <2>1. UNCHANGED <<m_key, h, t, buffer, length, input, pc>> /\ treeMode' \in BOOLEAN
    BY <1>4 DEF SetTreeMode, Refused, vars, state, Inv, StateType
  <2> QED BY <2>1 DEF Inv, StateType, CounterInv, CounterAt, WaitInv
<1> QED
  BY <1>1, <1>2, <1>3, <1>4, CompleteBlockInv, CompressInputInv, CopyTailInv
     DEF Next, Step

LEMMA InvHolds == Spec => []Inv
BY InvInit, InvNext, PTL DEF Spec

(* Update compresses a block only when more bytes follow, so that the last *)
(* one is there to be flagged; t counts the bytes compressed, its carries  *)
(* included.                                                               *)
THEOREM LastBlockIsKept == Spec => []LastBlockWaits
<1>1. Inv => LastBlockWaits
  BY DEF Inv, WaitInv, CounterInv, CounterAt, LastBlockWaits
<1> QED BY <1>1, InvHolds, PTL

-----------------------------------------------------------------------------
(* The bytes of a message, block by block.                                 *)
LEMMA MessageBlock ==
  ASSUME NEW hh \in Seq(Entry), NEW bb \in Block, NEW ll \in 0..BlockSize,
         NEW k \in 1..Len(hh), NEW i \in 1..BlockSize
  PROVE  /\ (k - 1) * BlockSize + i \in 1..(Len(hh) * BlockSize)
         /\ Message(hh, ll, bb)[(k - 1) * BlockSize + i] = hh[k].block[i]
<1> DEFINE d == Len(hh) * BlockSize
           n == (k - 1) * BlockSize + i
           j == k - 1
           q == i - 1
<1>1. /\ Len(hh) \in Nat /\ BlockSize \in Nat \ {0} /\ ll \in Nat /\ d \in Nat
      /\ j \in Nat /\ q \in 0..(BlockSize - 1) /\ j + 1 <= Len(hh)
  BY SizeType, MessageType
<1>2. n - 1 = BlockSize * j + q
  BY <1>1
<1>3. BlockSize * (j + 1) <= d
  BY <1>1
<1>4. BlockSize * (j + 1) = BlockSize * j + BlockSize /\ BlockSize * j \in Nat
  BY <1>1
<1>5. n \in 1..d
  BY <1>1, <1>2, <1>3, <1>4
<1>6. (BlockSize * j + q) \div BlockSize = j /\ (BlockSize * j + q) % BlockSize = q
  BY <1>1, DivModOf
<1>7. n \in 1..(d + ll) /\ n <= d
  BY <1>1, <1>5
<1> HIDE DEF n, d
<1>8. Message(hh, ll, bb)[n] =
        hh[(n - 1) \div BlockSize + 1].block[((n - 1) % BlockSize) + 1]
  BY <1>7 DEF Message, d
<1>9. (n - 1) \div BlockSize = j /\ (n - 1) % BlockSize = q
  BY <1>2, <1>6
<1>10. j + 1 = k /\ q + 1 = i
  OBVIOUS
<1>11. Message(hh, ll, bb)[n] = hh[k].block[i]
  BY <1>8, <1>9, <1>10
<1> QED BY <1>5, <1>11 DEF n, d

LEMMA MessageRest ==
  ASSUME NEW hh \in Seq(Entry), NEW bb \in Block, NEW ll \in 0..BlockSize,
         NEW i \in 1..ll
  PROVE  Message(hh, ll, bb)[Len(hh) * BlockSize + i] = bb[i]
<1> DEFINE d == Len(hh) * BlockSize
<1>1. d \in Nat /\ ll \in Nat
  BY SizeType, MessageType
<1>2. Message(hh, ll, bb) =
        [n \in 1..(d + ll) |->
           IF n <= d THEN hh[(n - 1) \div BlockSize + 1].block[((n - 1) % BlockSize) + 1]
                     ELSE bb[n - d]]
  BY DEF Message
<1> HIDE DEF d
<1>3. d + i \in 1..(d + ll) /\ ~(d + i <= d) /\ (d + i) - d = i
  BY <1>1
<1>4. Message(hh, ll, bb)[d + i] = bb[(d + i) - d]
  BY <1>2, <1>3
<1> QED BY <1>3, <1>4 DEF d

(* Every place below the compressed bytes is in one block.                 *)
LEMMA PlaceInBlock ==
  ASSUME NEW len \in Nat, NEW n \in 1..(len * BlockSize)
  PROVE  \E k \in 1..len, i \in 1..BlockSize : n = (k - 1) * BlockSize + i
<1> DEFINE k == (n - 1) \div BlockSize
           q == (n - 1) % BlockSize
<1>1. BlockSize \in Nat \ {0} /\ n - 1 \in Nat
  BY SizeType
<1>2. k \in Nat /\ q \in 0..(BlockSize - 1) /\ n - 1 = BlockSize * k + q
  BY <1>1, DivMod
<1> HIDE DEF k, q
<1>3. k < len
  <2> SUFFICES ASSUME k >= len PROVE FALSE
    BY <1>2
  <2>1. BlockSize * k >= BlockSize * len /\ BlockSize * len = len * BlockSize
    BY <1>1, <1>2
  <2> QED BY <1>1, <1>2, <2>1
<1>4. k + 1 \in 1..len /\ q + 1 \in 1..BlockSize
  BY <1>1, <1>2, <1>3
<1>5. n = ((k + 1) - 1) * BlockSize + (q + 1)
  BY <1>1, <1>2
<1> QED BY <1>4, <1>5, Zenon

(* A full block that waits and one that was compressed are the same bytes. *)
LEMMA MessageCompressed ==
  ASSUME NEW hh \in Seq(Entry), NEW e \in Entry, NEW bb \in Block
  PROVE  Message(Append(hh, e), 0, bb) = Message(hh, BlockSize, e.block)
<1> DEFINE g == Append(hh, e)
           A == Message(g, 0, bb)
           C == Message(hh, BlockSize, e.block)
           d == Len(hh) * BlockSize
<1>1. BlockSize \in Nat \ {0} /\ Len(hh) \in Nat /\ d \in Nat /\ e.block \in Block
      /\ 0 \in 0..BlockSize /\ BlockSize \in 0..BlockSize
  BY SizeType, MessageType DEF Entry
<1>2. /\ g \in Seq(Entry) /\ Len(g) = Len(hh) + 1 /\ g[Len(hh) + 1] = e
      /\ \A k \in 1..Len(hh) : g[k] = hh[k]
  BY AppendProperties
<1>3. Len(g) * BlockSize = d + BlockSize
  BY <1>1, <1>2
<1> HIDE DEF g, d
<1>4. /\ A \in Seq(Byte) /\ Len(A) = Len(g) * BlockSize + 0
      /\ C \in Seq(Byte) /\ Len(C) = Len(hh) * BlockSize + BlockSize
  BY <1>1, <1>2, MessageType
<1>5. Len(A) = d + BlockSize /\ Len(C) = d + BlockSize /\ Len(A) = Len(g) * BlockSize
  BY <1>1, <1>3, <1>4 DEF d
<1> HIDE DEF A, C
<1>6. ASSUME NEW n \in 1..Len(A) PROVE A[n] = C[n]
  <2>1. Len(g) \in Nat /\ n \in 1..(Len(g) * BlockSize)
    BY <1>1, <1>2, <1>5, <1>6
  <2> DEFINE len == Len(g)
  <2>a. len \in Nat /\ n \in 1..(len * BlockSize)
    BY <2>1
  <2>2. PICK k \in 1..Len(g), i \in 1..BlockSize : n = (k - 1) * BlockSize + i
    <3> HIDE DEF len
    <3>1. \E k \in 1..len, i \in 1..BlockSize : n = (k - 1) * BlockSize + i
      BY <2>a, PlaceInBlock, Zenon
    <3> QED BY <3>1 DEF len
  <2>3. A[n] = g[k].block[i]
    <3>1. g \in Seq(Entry) /\ 0 \in 0..BlockSize
      BY <1>1, <1>2
    <3>2. Message(g, 0, bb)[(k - 1) * BlockSize + i] = g[k].block[i]
      BY <3>1, <2>2, MessageBlock
    <3> QED BY <3>2, <2>2 DEF A
  <2>4. CASE k \in 1..Len(hh)
    <3>1. C[n] = hh[k].block[i]
      BY <1>1, <2>2, <2>4, MessageBlock DEF C
    <3> QED BY <1>2, <2>3, <2>4, <3>1
  <2>5. CASE k \notin 1..Len(hh)
    <3>1. k = Len(hh) + 1
      BY <1>1, <1>2, <2>2, <2>5
    <3>2. k - 1 = Len(hh)
      BY <1>1, <3>1
    <3>3. n = Len(hh) * BlockSize + i
      BY <2>2, <3>2
    <3>4. C[n] = e.block[i]
      BY <1>1, <3>3, MessageRest DEF C
    <3> QED BY <1>2, <2>3, <3>1, <3>4
  <2> QED BY <2>4, <2>5
<1>7. A = C
  BY <1>4, <1>5, <1>6, SeqEqual
<1> QED BY <1>7 DEF A, C, g

(* Bytes that move from the input to the buffer stay where they are in the *)
(* message.                                                                *)
LEMMA MessageFilled ==
  ASSUME NEW hh \in Seq(Entry), NEW bb \in Block, NEW b2 \in Block,
         NEW ll \in 0..BlockSize, NEW s \in Seq(Byte), NEW k \in 0..Len(s),
         ll + k <= BlockSize,
         \A i \in 1..ll : b2[i] = bb[i],
         \A i \in 1..k : b2[ll + i] = s[i]
  PROVE  Message(hh, ll, bb) \o s =
         Message(hh, ll + k, b2) \o SubSeq(s, k + 1, Len(s))
<1> DEFINE d == Len(hh) * BlockSize
           A == Message(hh, ll, bb)
           C == Message(hh, ll + k, b2)
           r == SubSeq(s, k + 1, Len(s))
           y == A \o s
           z == C \o r
<1>1. /\ BlockSize \in Nat \ {0} /\ Len(hh) \in Nat /\ d \in Nat /\ ll \in Nat
      /\ k \in Nat /\ Len(s) \in Nat /\ ll + k \in 0..BlockSize
  BY SizeType, MessageType, LenProperties
<1>2. /\ A \in Seq(Byte) /\ Len(A) = d + ll
      /\ C \in Seq(Byte) /\ Len(C) = d + (ll + k)
  BY <1>1, MessageType
<1>3. /\ r \in Seq(Byte) /\ Len(r) = Len(s) - k
      /\ \A i \in 1..(Len(s) - k) : r[i] = s[k + i]
  BY Cut
<1>4. ASSUME NEW n \in 1..d PROVE A[n] = C[n]
  <2>1. PICK j \in 1..Len(hh), i \in 1..BlockSize : n = (j - 1) * BlockSize + i
    BY <1>1, PlaceInBlock
  <2>2. A[n] = hh[j].block[i]
    BY <1>1, <2>1, MessageBlock DEF A
  <2>3. C[n] = hh[j].block[i]
    <3> DEFINE l2 == ll + k
    <3>1. l2 \in 0..BlockSize
      BY <1>1
    <3> HIDE DEF l2
    <3>2. Message(hh, l2, b2)[(j - 1) * BlockSize + i] = hh[j].block[i]
      BY <3>1, <2>1, MessageBlock
    <3> QED BY <2>1, <3>2 DEF C, l2
  <2> QED BY <2>2, <2>3
<1>5. \A i \in 1..ll : A[d + i] = bb[i]
  BY MessageRest
<1>6. \A i \in 1..(ll + k) : C[d + i] = b2[i]
  BY <1>1, MessageRest
<1> HIDE DEF A, C, r, d
<1>7. /\ y \in Seq(Byte) /\ Len(y) = d + ll + Len(s)
      /\ \A n \in 1..(d + ll + Len(s)) : y[n] = IF n <= d + ll THEN A[n] ELSE s[n - (d + ll)]
  <2>1. Len(A) + Len(s) = d + ll + Len(s)
    BY <1>1, <1>2
  <2>2. \A n \in 1..(Len(A) + Len(s)) : y[n] = IF n <= Len(A) THEN A[n] ELSE s[n - Len(A)]
    BY <1>2, ConcatProperties
  <2>3. y \in Seq(Byte) /\ Len(y) = Len(A) + Len(s)
    BY <1>2, ConcatProperties
  <2> QED BY <1>2, <2>1, <2>2, <2>3, Zenon
<1>8. /\ z \in Seq(Byte) /\ Len(z) = d + ll + Len(s)
      /\ \A n \in 1..(d + ll + Len(s)) :
           z[n] = IF n <= d + (ll + k) THEN C[n] ELSE r[n - (d + (ll + k))]
  <2>1. Len(C) + Len(r) = d + ll + Len(s)
    <3>1. Len(C) = d + (ll + k) /\ Len(r) = Len(s) - k
      BY <1>2, <1>3
    <3> QED BY <1>1, <3>1
  <2>2. \A n \in 1..(Len(C) + Len(r)) : z[n] = IF n <= Len(C) THEN C[n] ELSE r[n - Len(C)]
    BY <1>2, <1>3, ConcatProperties
  <2>3. z \in Seq(Byte) /\ Len(z) = Len(C) + Len(r)
    BY <1>2, <1>3, ConcatProperties
  <2> QED BY <1>2, <2>1, <2>2, <2>3, Zenon
<1> HIDE DEF y, z
<1>9. ASSUME NEW n \in 1..(d + ll + Len(s)) PROVE y[n] = z[n]
  <2>1. CASE n <= d
    <3>1. n \in 1..d /\ n <= d + ll /\ n <= d + (ll + k)
      BY <1>1, <2>1
    <3> QED BY <1>4, <1>7, <1>8, <3>1
  <2>2. CASE n > d /\ n <= d + ll
    <3>1. n - d \in 1..ll /\ n - d \in 1..(ll + k) /\ n = d + (n - d) /\ n <= d + (ll + k)
      BY <1>1, <2>2
    <3>2. A[n] = bb[n - d] /\ C[n] = b2[n - d]
      BY <1>5, <1>6, <3>1
    <3> QED BY <1>7, <1>8, <2>2, <3>1, <3>2
  <2>3. CASE n > d + ll /\ n <= d + (ll + k)
    <3>1. PICK i \in 1..k : n - (d + ll) = i
      <4>1. n - (d + ll) \in 1..k
        BY <1>1, <2>3
      <4> QED BY <4>1
    <3>2. /\ ll + i \in 1..(ll + k) /\ n = d + (ll + i)
          /\ ~(n <= d + ll) /\ n \in 1..(d + ll + Len(s))
      BY <1>1, <2>3, <3>1
    <3>3. y[n] = s[n - (d + ll)]
      BY <1>7, <3>2, Zenon
    <3>4. z[n] = C[n]
      BY <1>8, <2>3, <3>2, Zenon
    <3>5. C[d + (ll + i)] = b2[ll + i]
      BY <1>6, <3>2, Zenon
    <3>6. b2[ll + i] = s[i]
      BY <3>1
    <3> QED BY <3>1, <3>2, <3>3, <3>4, <3>5, <3>6, Zenon
  <2>4. CASE n > d + (ll + k)
    <3>1. PICK i \in 1..(Len(s) - k) : n - (d + (ll + k)) = i
      <4>1. n - (d + (ll + k)) \in 1..(Len(s) - k)
        BY <1>1, <2>4
      <4> QED BY <4>1
    <3>2. /\ n - (d + ll) = k + i /\ n \in 1..(d + ll + Len(s))
          /\ ~(n <= d + ll) /\ ~(n <= d + (ll + k))
      BY <1>1, <2>4, <3>1
    <3>3. y[n] = s[n - (d + ll)]
      BY <1>7, <3>2, Zenon
    <3>4. z[n] = r[n - (d + (ll + k))]
      BY <1>8, <3>2, Zenon
    <3>5. r[i] = s[k + i]
      BY <1>3, <3>1
    <3> QED BY <3>1, <3>2, <3>3, <3>4, <3>5, Zenon
  <2> QED BY <1>1, <2>1, <2>2, <2>3, <2>4
<1>10. y = z
  BY <1>7, <1>8, <1>9, SeqEqual
<1> QED BY <1>10 DEF y, z, A, C, r

(* Update moves bytes of the message, and neither loses nor repeats one.   *)
LEMMA FilledMoves ==
  ASSUME StateType, NEW k \in 0..Len(input), length + k <= BlockSize
  PROVE  Message(h, length, buffer) \o input =
         Message(h, length + k, Filled(input)) \o SubSeq(input, k + 1, Len(input))
<1>1. /\ h \in Seq(Entry) /\ buffer \in Block /\ length \in 0..BlockSize
      /\ input \in Seq(Byte) /\ Filled(input) \in Block
      /\ length \in Nat /\ BlockSize \in Nat /\ Len(input) \in Nat
  BY FilledType, SizeType, LenProperties DEF StateType
<1>2. ASSUME NEW i \in 1..length PROVE Filled(input)[i] = buffer[i]
  <2>1. i \in 1..BlockSize /\ ~(length < i)
    BY <1>1
  <2> QED BY <2>1 DEF Filled
<1>3. ASSUME NEW i \in 1..k PROVE Filled(input)[length + i] = input[i]
  <2>1. /\ length + i \in 1..BlockSize /\ length < length + i
        /\ length + i <= length + Len(input) /\ (length + i) - length = i
    BY <1>1
  <2>2. Filled(input)[length + i] = input[(length + i) - length]
    BY <2>1 DEF Filled
  <2> QED BY <2>1, <2>2
<1> QED BY <1>1, <1>2, <1>3, MessageFilled

LEMMA CompleteBlockKeeps ==
  ASSUME Inv, CompleteBlock
  PROVE  (Absorbed \o input)' = Absorbed \o input
<1> DEFINE k == BlockSize - length
<1>1. /\ StateType /\ k \in 0..Len(input) /\ length + k = BlockSize
      /\ buffer' = Filled(input) /\ buffer' \in Block
      /\ input' = SubSeq(input, k + 1, Len(input))
      /\ h \in Seq(Entry) /\ length' = 0
  <2>1. length \in Nat /\ BlockSize \in Nat
    BY SizeType DEF Inv, StateType
  <2>2. Filled(input) \in Block
    BY FilledType DEF Inv, StateType
  <2>3. StateType /\ h \in Seq(Entry) /\ length' = 0
    BY DEF Inv, StateType, CompleteBlock
  <2>4. /\ k \in 0..Len(input) /\ buffer' = Filled(input)
        /\ input' = SubSeq(input, k + 1, Len(input))
    BY CompleteBlockFills
  <2> QED BY <2>1, <2>2, <2>3, <2>4
<1> HIDE DEF k
<1>2. PICK e \in Entry : e.block = buffer' /\ h' = Append(h, e)
  BY <1>1, CompressStep DEF CompleteBlock
<1>3. Message(h, length, buffer) \o input = Message(h, BlockSize, buffer') \o input'
  <2>1. length + k <= BlockSize
    BY <1>1, SizeType
  <2>2. Message(h, length, buffer) \o input =
        Message(h, length + k, Filled(input)) \o SubSeq(input, k + 1, Len(input))
    BY <1>1, <2>1, FilledMoves
  <2> QED BY <1>1, <2>2, Zenon
<1>4. Message(h', 0, buffer') = Message(h, BlockSize, buffer')
  <2>1. Message(Append(h, e), 0, buffer') = Message(h, BlockSize, e.block)
    BY <1>1, MessageCompressed
  <2> QED BY <1>2, <2>1, Zenon
<1>5. Absorbed' = Message(h', 0, buffer')
  BY <1>1 DEF Absorbed, Message
<1> QED BY <1>3, <1>4, <1>5, AbsorbedIs, Zenon

LEMMA CompressInputKeeps ==
  ASSUME Inv, CompressInput
  PROVE  (Absorbed \o input)' = Absorbed \o input
<1> DEFINE b == SubSeq(input, 1, BlockSize)
<1>1. /\ h \in Seq(Entry) /\ buffer \in Block /\ buffer' = buffer
      /\ input \in Seq(Byte) /\ Len(input) \in Nat
      /\ BlockSize \in Nat \ {0} /\ BlockSize \in 0..Len(input)
      /\ length = 0 /\ length' = 0 /\ 0 \in 0..BlockSize
      /\ input' = SubSeq(input, BlockSize + 1, Len(input))
  BY SizeType, LenProperties DEF Inv, StateType, WaitInv, CompressInput
<1>2. b \in Block /\ \A i \in 1..BlockSize : b[i] = input[i]
  BY <1>1, Cut, LenProperties DEF Block
<1>3. PICK e \in Entry : e.block = b /\ h' = Append(h, e)
  BY <1>2, CompressStep DEF CompressInput
<1> HIDE DEF b
<1>4. Message(h, 0, buffer) \o input = Message(h, BlockSize, b) \o input'
  <2>1. 0 + BlockSize = BlockSize /\ 0 + BlockSize <= BlockSize
    BY <1>1
  <2>2. (\A i \in 1..0 : b[i] = buffer[i]) /\ (\A i \in 1..BlockSize : b[0 + i] = input[i])
    BY <1>1, <1>2
  <2>3. Message(h, 0, buffer) \o input =
        Message(h, 0 + BlockSize, b) \o SubSeq(input, BlockSize + 1, Len(input))
    BY <1>1, <1>2, <2>1, <2>2, MessageFilled
  <2> QED BY <1>1, <2>1, <2>3, Zenon
<1>5. Message(h', 0, buffer) = Message(h, BlockSize, b)
  <2>1. Message(Append(h, e), 0, buffer) = Message(h, BlockSize, e.block)
    BY <1>1, MessageCompressed
  <2> QED BY <1>3, <2>1, Zenon
<1>6. Absorbed' = Message(h', 0, buffer) /\ Absorbed = Message(h, 0, buffer)
  BY <1>1 DEF Absorbed, Message
<1> QED BY <1>4, <1>5, <1>6, Zenon

LEMMA CopyTailKeeps ==
  ASSUME Inv, CopyTail
  PROVE  (Absorbed \o input)' = Absorbed \o input
<1>1. /\ StateType /\ input \in Seq(Byte) /\ Len(input) \in Nat /\ length \in Nat
      /\ Len(input) \in 0..Len(input) /\ length + Len(input) <= BlockSize
      /\ buffer' = Filled(input) /\ length' = length + Len(input) /\ input' = <<>>
      /\ h' = h
  <2>1. Len(input) \in Nat /\ length \in Nat /\ BlockSize \in Nat
    BY SizeType, LenProperties DEF Inv, StateType
  <2> QED BY <2>1, CopyTailFills DEF Inv, StateType
<1>2. SubSeq(input, Len(input) + 1, Len(input)) = <<>>
  BY <1>1, Cut, EmptySeq
<1>3. Message(h, length, buffer) \o input =
      Message(h, length + Len(input), Filled(input))
        \o SubSeq(input, Len(input) + 1, Len(input))
  BY <1>1, FilledMoves
<1>4. Absorbed' = Message(h, length + Len(input), Filled(input))
  BY <1>1 DEF Absorbed, Message
<1> QED BY <1>1, <1>2, <1>3, <1>4, AbsorbedIs, Zenon

(* What the object begins with is the key's block.                         *)
LEMMA KeyBlock ==
  ASSUME Inv, NEW bb, m_key # <<>> => bb = m_key
  PROVE  Message(<<>>, Len(m_key), bb) = m_key
<1>1. /\ m_key \in Seq(Byte) /\ Len(m_key) \in Nat /\ BlockSize \in Nat \ {0}
  BY SizeType, KeyType, LenProperties DEF Inv, StateType
<1>2. Len(<<>>) * BlockSize = 0 /\ 0 + Len(m_key) = Len(m_key)
  BY <1>1
<1>3. ASSUME NEW n \in 1..Len(m_key)
      PROVE  ~(n <= 0) /\ n - 0 = n /\ bb[n] = m_key[n]
  <2>1. m_key # <<>>
    BY <1>1, <1>3
  <2> QED BY <2>1
<1>4. Message(<<>>, Len(m_key), bb) = [n \in 1..Len(m_key) |-> m_key[n]]
  BY <1>2, <1>3 DEF Message
<1> QED BY <1>1, <1>4, SeqEqual

LEMMA RestartedKeeps ==
  ASSUME Inv, NEW b, Restarted(b), input = <<>>, UNCHANGED <<m_key, input>>
  PROVE  (Absorbed \o input)' = m_key
<1>1. m_key \in Seq(Byte)
  BY KeyType DEF Inv, StateType
<1>2. /\ h' = <<>> /\ length' = Len(m_key) /\ input' = <<>>
      /\ m_key # <<>> => buffer' = m_key
  BY DEF Restarted
<1>3. Absorbed' = Message(<<>>, Len(m_key), buffer')
  BY <1>2 DEF Absorbed, Message
<1>4. Absorbed' = m_key
  BY <1>2, <1>3, KeyBlock
<1> QED BY <1>1, <1>2, <1>4, ConcatEmptySeq

(* The bytes of a message after the first a.                               *)
LEMMA Slice ==
  ASSUME NEW m \in Seq(Byte), NEW a \in Nat, NEW c \in Nat, a + c <= Len(m)
  PROVE  /\ SubSeq(m, a + 1, a + c) \in Seq(Byte) /\ Len(SubSeq(m, a + 1, a + c)) = c
         /\ \A i \in 1..c : SubSeq(m, a + 1, a + c)[i] = m[a + i]
<1>1. Len(m) \in Nat /\ \A i \in 1..Len(m) : m[i] \in Byte
  BY LenProperties
<1>2. a + 1 \in Int /\ a + c \in Int /\ \A i \in (a + 1)..(a + c) : m[i] \in Byte
  BY <1>1
<1>3. /\ SubSeq(m, a + 1, a + c) \in Seq(Byte)
      /\ Len(SubSeq(m, a + 1, a + c)) =
           IF a + 1 <= a + c THEN (a + c) - (a + 1) + 1 ELSE 0
      /\ \A i \in 1..((a + c) - (a + 1) + 1) :
           SubSeq(m, a + 1, a + c)[i] = m[(a + 1) + i - 1]
  BY <1>2, SubSeqProperties
<1>4. \A i \in 1..c : SubSeq(m, a + 1, a + c)[i] = m[a + i]
  <2> SUFFICES ASSUME NEW i \in 1..c PROVE SubSeq(m, a + 1, a + c)[i] = m[a + i]
    OBVIOUS
  <2>1. i \in 1..((a + c) - (a + 1) + 1) /\ (a + 1) + i - 1 = a + i
    OBVIOUS
  <2> QED BY <1>3, <2>1
<1>5. Len(SubSeq(m, a + 1, a + c)) = c
  BY <1>3
<1> QED BY <1>3, <1>4, <1>5

(* Padded depends on the bytes that are there alone.                       *)
LEMMA PaddedEqual ==
  ASSUME NEW m \in Seq(Byte), NEW n \in Seq(Byte), Len(m) = Len(n),
         \A i \in 1..Len(m) : m[i] = n[i]
  PROVE  Padded(m) = Padded(n)
BY SeqEqual

LEMMA PaddedFull ==
  ASSUME NEW m \in Seq(Byte), NEW b \in Block, Len(m) = BlockSize,
         \A i \in 1..BlockSize : m[i] = b[i]
  PROVE  Padded(m) = b
<1>1. \A k \in 1..BlockSize : k <= Len(m)
  BY SizeType
<1>2. Padded(m) = [k \in 1..BlockSize |-> b[k]]
  BY <1>1 DEF Padded
<1> QED BY <1>2 DEF Block

(* DigestOf with its number of blocks.                                     *)
DigestIn(m, mode, blocks) ==
  [k \in 1..blocks |->
     LET upTo == IF k < blocks THEN k * BlockSize ELSE Len(m)
     IN [block |-> Padded(SubSeq(m, (k - 1) * BlockSize + 1, upTo)),
         t |-> CounterAt(upTo),
         f |-> <<k = blocks, k = blocks /\ mode>>]]

LEMMA DigestBlocks ==
  ASSUME NEW m, NEW mode
  PROVE  DigestOf(m, mode) =
         DigestIn(m, mode, Max({1, (Len(m) + BlockSize - 1) \div BlockSize}))
BY DEF DigestOf, DigestIn, CounterAt

LEMMA MaxOfPair ==
  ASSUME NEW a \in Nat, NEW b \in Nat, NEW c \in {a, b}, a <= c, b <= c
  PROVE  Max({a, b}) = c
<1>1. IsFiniteSet({a, b})
  <2>1. IsFiniteSet({} \cup {a}) /\ {a} \cup {b} = {a, b} /\ {} \cup {a} = {a}
    BY FS_EmptySet, FS_AddElement
  <2> QED BY <2>1, FS_AddElement
<1>2. {a, b} \in SUBSET Nat /\ {a, b} # {}
  OBVIOUS
<1>3. Max({a, b}) \in {a, b} /\ \A y \in {a, b} : y <= Max({a, b})
  BY <1>1, <1>2, MaxIsGreatest
<1> QED BY <1>3

(* The last block waits, so there is one block more than were compressed.  *)
LEMMA BlockCount ==
  ASSUME Inv, pc = "idle"
  PROVE  Max({1, (Len(Absorbed) + BlockSize - 1) \div BlockSize}) = Len(h) + 1
<1> DEFINE n == Len(h)
           d == (Len(Absorbed) + BlockSize - 1) \div BlockSize
<1>1. /\ BlockSize \in Nat \ {0} /\ n \in Nat /\ length \in 0..BlockSize
      /\ Len(Absorbed) = n * BlockSize + length
      /\ h # <<>> => length > 0
  BY SizeType, AbsorbedType DEF Inv, StateType, WaitInv
<1>2. CASE length > 0
  <2> DEFINE q == length - 1
  <2>1. /\ q \in 0..(BlockSize - 1)
        /\ Len(Absorbed) + BlockSize - 1 = BlockSize * (n + 1) + q
        /\ n + 1 \in Nat
    BY <1>1, <1>2
  <2> HIDE DEF q
  <2>2. (BlockSize * (n + 1) + q) \div BlockSize = n + 1
    BY <1>1, <2>1, DivModOf
  <2>3. d = n + 1
    BY <2>1, <2>2, Zenon
  <2> HIDE DEF d
  <2>4. Max({1, d}) = n + 1
    <3>1. d \in Nat /\ n + 1 \in {1, d} /\ 1 <= n + 1 /\ d <= n + 1
      BY <1>1, <2>3
    <3> QED BY <3>1, MaxOfPair
  <2> QED BY <2>4 DEF d
<1>3. CASE length = 0
  <2>1. h = <<>> /\ n = 0
    BY <1>1, <1>3
  <2>2. /\ Len(Absorbed) + BlockSize - 1 = BlockSize * 0 + (BlockSize - 1)
        /\ BlockSize - 1 \in 0..(BlockSize - 1)
    BY <1>1, <1>3, <2>1
  <2>3. (BlockSize * 0 + (BlockSize - 1)) \div BlockSize = 0
    BY <1>1, <2>2, DivModOf
  <2>4. d = 0
    BY <2>2, <2>3, Zenon
  <2> HIDE DEF d
  <2>5. Max({1, d}) = 1
    <3>1. d \in Nat /\ 1 \in {1, d} /\ 1 <= 1 /\ d <= 1
      BY <2>4
    <3> QED BY <3>1, MaxOfPair
  <2> QED BY <2>1, <2>5 DEF d
<1> QED BY <1>1, <1>2, <1>3

(* What TruncatedFinal gives is the digest of the whole message.           *)
LEMMA DigestGiven ==
  ASSUME Inv, pc = "idle", NEW mode \in BOOLEAN
  PROVE  DigestOf(Absorbed, mode) =
         Append(h, [block |-> LastBlock, t |-> IncrementCounter(length),
                    f |-> <<TRUE, mode>>])
<1> DEFINE n == Len(h)
           M == Absorbed
           x == [block |-> LastBlock, t |-> IncrementCounter(length),
                 f |-> <<TRUE, mode>>]
           D == DigestIn(M, mode, n + 1)
<1>1. /\ BlockSize \in Nat \ {0} /\ n \in Nat /\ n * BlockSize \in Nat
      /\ length \in 0..BlockSize /\ length \in Nat
      /\ M \in Seq(Byte) /\ Len(M) = n * BlockSize + length /\ Len(M) \in Nat
      /\ h \in Seq(Entry) /\ buffer \in Block
  BY SizeType, AbsorbedType DEF Inv, StateType
<1>2. DigestOf(M, mode) = D
  BY BlockCount, DigestBlocks
<1>3. ASSUME NEW k \in 1..n PROVE D[k] = h[k]
  <2>1. /\ k \in 1..(n + 1) /\ k < n + 1 /\ k # n + 1 /\ k - 1 \in Nat
        /\ k * BlockSize = (k - 1) * BlockSize + BlockSize
        /\ (k - 1) * BlockSize \in Nat
    BY <1>1
  <2>2. k * BlockSize <= Len(M)
    <3>1. k * BlockSize <= n * BlockSize
      BY <1>1
    <3>2. k * BlockSize \in Nat
      BY <1>1
    <3> QED BY <1>1, <3>1, <3>2
  <2> DEFINE a == (k - 1) * BlockSize
             c == SubSeq(M, a + 1, a + BlockSize)
  <2>3. D[k] = [block |-> Padded(SubSeq(M, a + 1, k * BlockSize)),
                t |-> CounterAt(k * BlockSize), f |-> <<FALSE, FALSE>>]
    BY <2>1 DEF DigestIn
  <2>4. /\ c \in Seq(Byte) /\ Len(c) = BlockSize
        /\ \A i \in 1..BlockSize : c[i] = M[a + i]
    <3> HIDE DEF a
    <3>1. a + BlockSize <= Len(M) /\ BlockSize \in Nat /\ a \in Nat
      BY <1>1, <2>1, <2>2 DEF a
    <3> QED BY <1>1, <3>1, Slice
  <2>5. \A i \in 1..BlockSize : M[a + i] = h[k].block[i]
    BY <1>1, AbsorbedIs, MessageBlock
  <2>6. h[k] \in Entry /\ h[k].block \in Block
    <3>1. h[k] \in Entry
      BY <1>1, ElementOfSeq
    <3> QED BY <3>1 DEF Entry
  <2>7. Padded(c) = h[k].block
    <3> HIDE DEF a, c
    <3> QED BY <2>4, <2>5, <2>6, PaddedFull
  <2>8. h[k].t = CounterAt(k * BlockSize) /\ h[k].f = <<FALSE, FALSE>>
    BY DEF Inv, CounterInv
  <2>9. h[k] = [block |-> h[k].block, t |-> h[k].t, f |-> h[k].f]
    BY <2>6 DEF Entry
  <2>10. SubSeq(M, a + 1, k * BlockSize) = c
    BY <2>1
  <2> HIDE DEF D, c, a
  <2> QED BY <2>3, <2>7, <2>8, <2>9, <2>10, Zenon
<1>4. D[n + 1] = x
  <2> DEFINE a == n * BlockSize
             c == SubSeq(M, a + 1, a + length)
             w == SubSeq(buffer, 1, length)
  <2>1. n + 1 \in 1..(n + 1) /\ ~(n + 1 < n + 1) /\ (n + 1) - 1 = n
    BY <1>1
  <2>2. D[n + 1] = [block |-> Padded(SubSeq(M, a + 1, Len(M))),
                    t |-> CounterAt(Len(M)), f |-> <<TRUE, mode>>]
    <3>1. D[n + 1] = [block |-> Padded(SubSeq(M, ((n + 1) - 1) * BlockSize + 1, Len(M))),
                      t |-> CounterAt(Len(M)), f |-> <<n + 1 = n + 1, n + 1 = n + 1 /\ mode>>]
      BY <2>1, Zenon DEF DigestIn
    <3>2. <<n + 1 = n + 1, n + 1 = n + 1 /\ mode>> = <<TRUE, mode>>
      <4>1. CASE mode = TRUE
        BY <4>1
      <4>2. CASE mode = FALSE
        BY <4>2
      <4> QED BY <4>1, <4>2
    <3> QED BY <2>1, <3>1, <3>2, Zenon
  <2>3. /\ c \in Seq(Byte) /\ Len(c) = length
        /\ \A i \in 1..length : c[i] = M[a + i]
    <3> HIDE DEF a
    <3>1. a + length <= Len(M) /\ a \in Nat
      BY <1>1 DEF a
    <3> QED BY <1>1, <3>1, Slice
  <2>4. /\ w \in Seq(Byte) /\ Len(w) = length /\ \A i \in 1..length : w[i] = buffer[i]
    <3>1. buffer \in Seq(Byte) /\ length \in 0..Len(buffer)
      BY <1>1, BlockIsSeq
    <3> QED BY <3>1, Cut
  <2>5. \A i \in 1..length : M[a + i] = buffer[i]
    BY <1>1, AbsorbedIs, MessageRest
  <2>6. Padded(c) = LastBlock
    <3> HIDE DEF a, c, w
    <3>1. Padded(c) = Padded(w)
      BY <2>3, <2>4, <2>5, PaddedEqual
    <3> QED BY <3>1 DEF LastBlock, w
  <2>7. CounterAt(Len(M)) = IncrementCounter(length)
    <3>1. t = CounterAt(n * BlockSize)
      BY DEF Inv, CounterInv
    <3> QED BY <1>1, <3>1, CounterStep
  <2>8. SubSeq(M, a + 1, Len(M)) = c
    BY <1>1
  <2> HIDE DEF D, c, a
  <2> QED BY <2>2, <2>6, <2>7, <2>8, Zenon
<1>5. D = Append(h, x)
  <2>1. D = [k \in 1..(n + 1) |-> D[k]]
    BY DEF DigestIn
  <2> HIDE DEF D, x, M
  <2>2. ASSUME NEW k \in 1..(n + 1) PROVE D[k] = Append(h, x)[k]
    <3>1. CASE k \in 1..n
      BY <1>1, <1>3, <3>1
    <3>2. CASE k = n + 1
      BY <1>1, <1>4, <3>2
    <3> QED BY <1>1, <3>1, <3>2
  <2>3. Append(h, x) = [k \in 1..(n + 1) |-> Append(h, x)[k]]
    <3> DEFINE y == Append(h, x)
    <3>1. h \in Seq(Entry \cup {x}) /\ x \in Entry \cup {x}
      BY <1>1
    <3>2. y \in Seq(Entry \cup {x}) /\ Len(y) = n + 1
      BY <3>1, AppendProperties
    <3> HIDE DEF y, n
    <3>3. y = [k \in 1..Len(y) |-> y[k]]
      BY <3>2
    <3> QED BY <3>2, <3>3 DEF y
  <2> QED BY <2>1, <2>2, <2>3
<1> QED BY <1>2, <1>5

-----------------------------------------------------------------------------
LEMMA HashInit == Init => Hash!Init
<1> SUFFICES ASSUME Init PROVE Hash!Init
  OBVIOUS
<1>1. Inv /\ m_key \in Seq(Byte)
  BY InvInit, KeyType DEF Inv, StateType
<1>2. /\ h = <<>> /\ length = Len(m_key) /\ input = <<>>
      /\ m_key # <<>> => buffer = m_key
  BY DEF Init
<1>3. Absorbed = Message(<<>>, Len(m_key), buffer)
  BY <1>2, AbsorbedIs
<1>4. Absorbed = m_key
  BY <1>1, <1>2, <1>3, KeyBlock
<1>5. Absorbed \o input = m_key
  BY <1>1, <1>2, <1>4, ConcatEmptySeq
<1> QED BY <1>5 DEF Init, Hash!Init

(* Each step is one of the hash function's, or none.                       *)
LEMMA HashNext ==
  ASSUME Inv, [Next]_vars
  PROVE  [Hash!Next]_(Hash!vars)
<1>1. Absorbed \in Seq(Byte) /\ input \in Seq(Byte)
  BY AbsorbedType DEF Inv, StateType
<1>2. pc = "idle" => Absorbed \o input = Absorbed /\ input = <<>>
  BY <1>1, ConcatEmptySeq DEF Inv, WaitInv
<1>3. CASE \E m \in Inputs : Update(m)
  <2>1. PICK m \in Inputs : Update(m)
    BY <1>3
  <2>2. /\ pc = "idle" /\ pc' = "update" /\ input' = m
        /\ UNCHANGED <<m_key, treeMode, h, buffer, length, hash>>
    BY <2>1 DEF Update, state
  <2>3. m \in Hash!Bytes
    BY <2>1, InputsType DEF Inv
  <2>4. Absorbed' = Absorbed
    BY <2>2 DEF Absorbed
  <2>5. (Absorbed \o input)' = (Absorbed \o input) \o m
    BY <1>2, <2>2, <2>4, Zenon
  <2>6. Hash!Update(m)
    BY <2>2, <2>5 DEF Hash!Update
  <2> QED BY <2>3, <2>6 DEF Hash!Next
<1>4. CASE CompleteBlock
  <2>1. /\ pc # "idle" /\ pc' # "idle" /\ UNCHANGED <<m_key, treeMode, hash>>
    BY <1>4 DEF CompleteBlock
  <2> QED BY <1>4, <2>1, CompleteBlockKeeps DEF Hash!vars
<1>5. CASE CompressInput
  <2>1. /\ pc # "idle" /\ pc' # "idle" /\ UNCHANGED <<m_key, treeMode, hash>>
    BY <1>5 DEF CompressInput
  <2> QED BY <1>5, <2>1, CompressInputKeeps DEF Hash!vars
<1>6. CASE CopyTail
  <2>1. /\ pc # "idle" /\ pc' = "idle" /\ UNCHANGED <<m_key, treeMode, hash>>
    BY <1>6 DEF CopyTail
  <2>2. Hash!Return
    BY <1>6, <2>1, CopyTailKeeps DEF Hash!Return
  <2> QED BY <2>2 DEF Hash!Next
<1>7. CASE \E size \in Sizes : TruncatedFinal(size)
  <2>1. PICK size \in Sizes : TruncatedFinal(size)
    BY <1>7
  <2>2. /\ pc = "idle" /\ size <= DigestSize /\ Restarted(LastBlock)
        /\ hash' = [size |-> size,
                    value |-> Append(h, [block |-> LastBlock,
                                         t |-> IncrementCounter(length),
                                         f |-> <<TRUE, treeMode>>])]
        /\ UNCHANGED <<m_key, treeMode, input, pc>>
    BY <2>1 DEF TruncatedFinal
  <2>3. size \in 0..DigestSize
    BY <2>2, Blake2Assumption
  <2>4. hash' = [size |-> size, value |-> DigestOf(Absorbed \o input, treeMode)]
    <3>1. treeMode \in BOOLEAN
      BY DEF Inv, StateType
    <3>2. DigestOf(Absorbed, treeMode) =
          Append(h, [block |-> LastBlock, t |-> IncrementCounter(length),
                     f |-> <<TRUE, treeMode>>])
      BY <2>2, <3>1, DigestGiven
    <3> QED BY <1>2, <2>2, <3>2, Zenon
  <2>5. (Absorbed \o input)' = m_key
    BY <1>2, <2>2, RestartedKeeps
  <2>6. Hash!TruncatedFinal(size)
    BY <2>2, <2>4, <2>5 DEF Hash!TruncatedFinal
  <2> QED BY <2>3, <2>6 DEF Hash!Next
<1>8. CASE Restart
  <2>1. /\ pc = "idle" /\ Restarted(buffer)
        /\ UNCHANGED <<m_key, treeMode, input, pc, hash>>
    BY <1>8 DEF Restart
  <2>2. (Absorbed \o input)' = m_key
    BY <1>2, <2>1, RestartedKeeps
  <2>3. Hash!Restart
    BY <2>1, <2>2 DEF Hash!Restart
  <2> QED BY <2>3 DEF Hash!Next
<1>9. CASE \E mode \in BOOLEAN : SetTreeMode(mode)
  <2>1. PICK mode \in BOOLEAN : SetTreeMode(mode)
    BY <1>9
  <2>2. /\ pc = "idle" /\ treeMode' = mode
        /\ UNCHANGED <<m_key, h, buffer, length, input, pc, hash>>
    BY <2>1 DEF SetTreeMode, state
  <2>3. Absorbed' = Absorbed
    BY <2>2 DEF Absorbed
  <2>4. Hash!SetTreeMode(mode)
    BY <2>2, <2>3 DEF Hash!SetTreeMode
  <2> QED BY <2>4 DEF Hash!Next
<1>10. CASE (\E size \in Sizes : Refused(size)) \/ UNCHANGED vars
  <2>1. UNCHANGED <<m_key, treeMode, h, buffer, length, input, pc, hash>>
    BY <1>10 DEF Refused, vars, state
  <2>2. Absorbed' = Absorbed
    BY <2>1 DEF Absorbed
  <2> QED BY <2>1, <2>2 DEF Hash!vars
<1> QED
  BY <1>3, <1>4, <1>5, <1>6, <1>7, <1>8, <1>9, <1>10 DEF Next, Step

(* However a message is cut into Updates, whatever an earlier message left *)
(* in the buffer and whenever the counter carries, TruncatedFinal gives    *)
(* the digest of the bytes since the last restart: the safety part of      *)
(* IsHashFunction.                                                         *)
THEOREM ImplementsHashFunction == Spec => Hash!Init /\ [][Hash!Next]_(Hash!vars)
<1>1. Inv /\ [Next]_vars => [Hash!Next]_(Hash!vars)
  BY HashNext
<1> QED BY <1>1, HashInit, InvHolds, PTL DEF Spec
-----------------------------------------------------------------------------
(* BucketTail. *)

(* Concatenation, taken as a whole.                                        *)
Joined(p, q) == p \o q

LEMMA JoinedIs ==
  ASSUME NEW A, NEW p \in Seq(A), NEW q \in Seq(A)
  PROVE  /\ Joined(p, q) \in Seq(A) /\ Len(Joined(p, q)) = Len(p) + Len(q)
         /\ \A x \in 1..Len(p) : Joined(p, q)[x] = p[x]
         /\ \A x \in 1..Len(q) : Joined(p, q)[Len(p) + x] = q[x]
BY DEF Joined

LEMMA JoinedEmpty ==
  ASSUME NEW A, NEW q \in Seq(A)
  PROVE  Joined(<<>>, q) = q
BY DEF Joined

LEMMA StepsFromEmpty ==
  ASSUME NEW n \in Nat, NEW S, NEW c \in S, NEW g, StepsIn(g, n, S), c = <<>>
  PROVE  \E f \in [0..n -> S] :
           f[0] = <<>> /\ \A k \in 1..n : f[k] = g[<<k, f[k - 1]>>]
<1>1. \E f \in [0..n -> S] : f[0] = c /\ \A k \in 1..n : f[k] = g[<<k, f[k - 1]>>]
  BY StepsExist
<1> QED BY <1>1

(* FlattenSeq puts the parts one behind the other.                         *)
LEMMA FlattenIs ==
  ASSUME NEW A, NEW s \in Seq(Seq(A))
  PROVE  \E f \in [0..Len(s) -> Seq(A)] :
           /\ f[0] = <<>> /\ Bucket!FlattenSeq(s) = f[Len(s)]
           /\ \A k \in 1..Len(s) : f[k] = Joined(f[k - 1], s[k])
<1> DEFINE N == Len(s)
           S == Seq(A)
           g == [e \in (1..N) \X S |-> Joined(e[2], s[e[1]])]
           flatten == CHOOSE flatten : flatten =
             [i \in 1..N |-> IF i = 1 THEN s[i] ELSE Joined(flatten[i - 1], s[i])]
<1>1. N \in Nat /\ \A k \in 1..N : s[k] \in S
  OBVIOUS
<1>2. <<>> \in S /\ \A x, y \in S : Joined(x, y) \in S
  BY DEF Joined
<1>3. StepsIn(g, N, S)
  <2> HIDE DEF S, N
  <2> QED BY <1>1, <1>2 DEF StepsIn
<1>4. PICK f \in [0..N -> S] : f[0] = <<>> /\ \A k \in 1..N : f[k] = g[<<k, f[k - 1]>>]
  <2>1. N \in Nat /\ <<>> \in S
    BY <1>1, <1>2
  <2> HIDE DEF g, S, N, flatten
  <2> QED BY <1>3, <2>1, StepsFromEmpty
<1>5. ASSUME NEW k \in 1..N PROVE f[k] = Joined(f[k - 1], s[k])
  <2>1. k - 1 \in 0..N
    BY <1>1
  <2>2. f[k - 1] \in S
    <3> HIDE DEF S, g
    <3> QED BY <1>4, <2>1
  <2>3. g[<<k, f[k - 1]>>] = Joined(f[k - 1], s[k])
    <3> HIDE DEF S
    <3> QED BY <2>2
  <2> HIDE DEF g
  <2> QED BY <1>4, <2>3
<1> HIDE DEF g
<1>6. CASE N = 0
  <2>1. Bucket!FlattenSeq(s) = s /\ s = <<>>
    BY <1>6 DEF Bucket!FlattenSeq
  <2> QED BY <1>4, <1>5, <1>6, <2>1
<1>7. CASE N # 0
  <2>1. Bucket!FlattenSeq(s) = flatten[N]
    BY <1>7 DEF Bucket!FlattenSeq, Joined
  <2> DEFINE less == [i \in 1..N |-> f[i]]
  <2>2. \A i \in 1..N : f[i] = IF i = 1 THEN s[i] ELSE Joined(f[i - 1], s[i])
    <3> SUFFICES ASSUME NEW i \in 1..N, i = 1 PROVE f[i] = s[i]
      BY <1>5
    <3>0. 1 \in 1..N /\ 1 - 1 = 0
      BY <1>1, <1>7
    <3>1. f[1] = Joined(f[0], s[1]) /\ s[1] \in Seq(A)
      BY <1>1, <1>5, <3>0
    <3>2. Joined(<<>>, s[1]) = s[1]
      BY <3>1, JoinedEmpty
    <3> QED BY <1>4, <3>1, <3>2
  <2>3. less = [i \in 1..N |-> IF i = 1 THEN s[i] ELSE Joined(less[i - 1], s[i])]
    <3>1. \A i \in 1..N : i # 1 => i - 1 \in 1..N
      BY <1>1
    <3> QED BY <2>2, <3>1
  <2>4. flatten = [i \in 1..N |-> IF i = 1 THEN s[i] ELSE Joined(flatten[i - 1], s[i])]
    <3> HIDE DEF less
    <3> QED BY <2>3
  <2> HIDE DEF flatten
  <2>5. \A i \in 1..N : flatten[i] = IF i = 1 THEN s[i] ELSE Joined(flatten[i - 1], s[i])
    BY <2>4
  <2> DEFINE G == {k \in Nat : k + 1 <= N => flatten[k + 1] = f[k + 1]}
  <2>6. 0 \in G
    BY <1>1, <1>7, <2>2, <2>5
  <2>7. ASSUME NEW k \in G PROVE k + 1 \in G
    <3> SUFFICES ASSUME k + 1 + 1 <= N PROVE flatten[k + 1 + 1] = f[k + 1 + 1]
      OBVIOUS
    <3>1. k + 1 + 1 \in 1..N /\ k + 1 + 1 # 1 /\ k + 1 + 1 - 1 = k + 1
          /\ flatten[k + 1] = f[k + 1]
      BY <1>1
    <3> QED BY <2>2, <2>5, <3>1
  <2>8. G = Nat
    BY <2>6, <2>7, AllNaturals
  <2>9. N - 1 \in Nat /\ N - 1 + 1 = N /\ N <= N
    BY <1>1, <1>7
  <2>10. flatten[N] = f[N]
    <3>1. N - 1 \in G
      BY <2>8, <2>9
    <3> QED BY <2>9, <3>1
  <2> QED BY <1>4, <1>5, <2>1, <2>10
<1> QED BY <1>6, <1>7

LEMMA FlattenAppend ==
  ASSUME NEW A, NEW s \in Seq(Seq(A)), NEW y \in Seq(A)
  PROVE  /\ Bucket!FlattenSeq(s) \in Seq(A)
         /\ Bucket!FlattenSeq(Append(s, y)) = Joined(Bucket!FlattenSeq(s), y)
<1> DEFINE N == Len(s)
           u == Append(s, y)
<1>1. N \in Nat /\ u \in Seq(Seq(A)) /\ Len(u) = N + 1 /\ u[N + 1] = y
      /\ \A k \in 1..N : u[k] = s[k]
  OBVIOUS
<1> HIDE DEF u
<1>2. PICK f \in [0..N -> Seq(A)] :
        /\ f[0] = <<>> /\ Bucket!FlattenSeq(s) = f[N]
        /\ \A k \in 1..N : f[k] = Joined(f[k - 1], s[k])
  BY FlattenIs
<1>3. PICK g \in [0..Len(u) -> Seq(A)] :
        /\ g[0] = <<>> /\ Bucket!FlattenSeq(u) = g[Len(u)]
        /\ \A k \in 1..Len(u) : g[k] = Joined(g[k - 1], u[k])
  BY <1>1, FlattenIs
<1> DEFINE G == {k \in Nat : k <= N => g[k] = f[k]}
<1>4. 0 \in G
  BY <1>2, <1>3
<1>5. ASSUME NEW k \in G PROVE k + 1 \in G
  <2> SUFFICES ASSUME k + 1 <= N PROVE g[k + 1] = f[k + 1]
    OBVIOUS
  <2> DEFINE q == k + 1
  <2>1. q \in 1..N /\ q \in 1..Len(u) /\ q - 1 = k
    BY <1>1
  <2>2. g[k] = f[k]
    BY <2>1
  <2> HIDE DEF q, N
  <2>3. g[q] = Joined(g[q - 1], u[q])
    BY <1>3, <2>1
  <2>4. u[q] = s[q]
    BY <1>1, <2>1
  <2>5. f[q] = Joined(f[q - 1], s[q])
    BY <1>2, <2>1
  <2>6. g[q] = f[q]
    BY <2>1, <2>2, <2>3, <2>4, <2>5
  <2> QED BY <2>6 DEF q
<1>6. G = Nat
  <2>1. G \in SUBSET Nat /\ 0 \in G /\ \A k \in G : k + 1 \in G
    BY <1>4, <1>5
  <2> HIDE DEF G
  <2> QED BY <2>1, AllNaturals
<1>7. g[N] = f[N]
  <2>1. N \in G
    <3> HIDE DEF G, N
    <3> QED BY <1>1, <1>6
  <2>2. N <= N
    BY <1>1
  <2> HIDE DEF N
  <2> QED BY <2>1, <2>2
<1>8. N + 1 \in 1..(N + 1) /\ N + 1 - 1 = N
  BY <1>1
<1>9. g[N + 1] = Joined(f[N], y)
  <2> HIDE DEF N
  <2>1. g[N + 1] = Joined(g[N + 1 - 1], u[N + 1])
    BY <1>1, <1>3, <1>8
  <2> QED BY <1>1, <1>7, <1>8, <2>1
<1>10. Bucket!FlattenSeq(u) = Joined(Bucket!FlattenSeq(s), y)
  BY <1>1, <1>2, <1>3, <1>9
<1>11. Bucket!FlattenSeq(s) \in Seq(A)
  <2>1. N \in 0..N
    BY <1>1
  <2> HIDE DEF N
  <2>2. f[N] \in Seq(A)
    BY <2>1
  <2> QED BY <1>2, <2>2
<1> QED BY <1>10, <1>11 DEF u

LEMMA FlattenEmpty == Bucket!FlattenSeq(<<>>) = <<>>
BY DEF Bucket!FlattenSeq

LEMMA TimesMono ==
  ASSUME NEW a \in Nat, NEW b \in Nat, NEW c \in Nat, a <= b
  PROVE  a * c <= b * c
<1>1. b - a \in Nat /\ b = a + (b - a)
  OBVIOUS
<1> DEFINE d == b - a
<1>2. b * c = a * c + d * c /\ d * c \in Nat /\ a * c \in Nat
  <2> HIDE DEF d
  <2>1. (a + d) * c = a * c + d * c
    BY <1>1 DEF d
  <2>2. d * c \in Nat /\ a * c \in Nat
    BY <1>1 DEF d
  <2> QED BY <1>1, <2>1, <2>2 DEF d
<1> QED BY <1>2

LEMMA TimesStep ==
  ASSUME NEW k \in Nat, NEW c \in Nat
  PROVE  (k + 1) * c = k * c + c /\ k * c \in Nat
OBVIOUS

(* Parts of the same length are found by their number.                     *)
LEMMA FlattenEqual ==
  ASSUME NEW A, NEW s \in Seq(Seq(A)), NEW c \in Nat \ {0},
         \A k \in 1..Len(s) : Len(s[k]) = c
  PROVE  /\ Bucket!FlattenSeq(s) \in Seq(A)
         /\ Len(Bucket!FlattenSeq(s)) = Len(s) * c
         /\ \A k \in 1..Len(s) : \A j \in 1..c :
              Bucket!FlattenSeq(s)[(k - 1) * c + j] = s[k][j]
<1> DEFINE N == Len(s)
<1>1. PICK f \in [0..N -> Seq(A)] :
        /\ f[0] = <<>> /\ Bucket!FlattenSeq(s) = f[N]
        /\ \A k \in 1..N : f[k] = Joined(f[k - 1], s[k])
  BY FlattenIs
<1>2. N \in Nat /\ \A k \in 1..N : s[k] \in Seq(A) /\ Len(s[k]) = c
  OBVIOUS
<1> DEFINE Good(k) == /\ Len(f[k]) = k * c
                      /\ \A i \in 1..k : \A j \in 1..c : f[k][(i - 1) * c + j] = s[i][j]
           G == {k \in Nat : k <= N => Good(k)}
<1>3. 0 \in G
  BY <1>1
<1>4. ASSUME NEW k \in G PROVE k + 1 \in G
  <2> SUFFICES ASSUME k + 1 <= N PROVE Good(k + 1)
    OBVIOUS
  <2> DEFINE p == f[k]
             q == s[k + 1]
             kc == k * c
  <2>1. k \in Nat /\ k + 1 \in 1..N /\ k + 1 - 1 = k /\ k \in 0..N /\ Good(k)
    BY <1>2
  <2>2. p \in Seq(A) /\ q \in Seq(A) /\ Len(q) = c /\ f[k + 1] = Joined(p, q)
    <3>1. f[k + 1] = Joined(f[k + 1 - 1], s[k + 1])
      BY <1>1, <2>1
    <3>2. f[k + 1 - 1] = f[k]
      BY <2>1
    <3>3. f[k] \in Seq(A)
      BY <1>1, <2>1
    <3> QED BY <1>2, <2>1, <3>1, <3>2, <3>3
  <2>3. Len(p) = kc /\ kc \in Nat /\ (k + 1) * c = kc + c
    BY <2>1, TimesStep
  <2>4. \A i \in 1..k : \A j \in 1..c : p[(i - 1) * c + j] = s[i][j]
    BY <2>1
  <2> HIDE DEF p, q, kc
  <2>5. /\ Len(Joined(p, q)) = kc + c
        /\ \A x \in 1..kc : Joined(p, q)[x] = p[x]
        /\ \A j \in 1..c : Joined(p, q)[kc + j] = q[j]
    <3>1. p \in Seq(A) /\ q \in Seq(A)
      BY <2>2
    <3>2. Len(Joined(p, q)) = Len(p) + Len(q)
      BY <3>1, JoinedIs
    <3>3. \A x \in 1..Len(p) : Joined(p, q)[x] = p[x]
      BY <3>1, JoinedIs
    <3>4. \A x \in 1..Len(q) : Joined(p, q)[Len(p) + x] = q[x]
      BY <3>1, JoinedIs
    <3> QED BY <2>2, <2>3, <3>2, <3>3, <3>4
  <2>6. ASSUME NEW i \in 1..(k + 1), NEW j \in 1..c
        PROVE  Joined(p, q)[(i - 1) * c + j] = s[i][j]
    <3> DEFINE ic == (i - 1) * c
    <3>1. CASE i = k + 1
      <4>1. ic = kc
        BY <3>1, <2>1 DEF kc
      <4> HIDE DEF ic
      <4>2. Joined(p, q)[kc + j] = q[j]
        BY <2>5
      <4>3. Joined(p, q)[ic + j] = s[i][j]
        BY <3>1, <4>1, <4>2 DEF q
      <4> QED BY <4>3 DEF ic
    <3>2. CASE i # k + 1
      <4>1. i \in 1..k /\ i - 1 \in Nat /\ i - 1 + 1 = i /\ i \in Nat
        BY <2>1, <3>2
      <4>2. i * c = ic + c /\ ic \in Nat
        BY <4>1, TimesStep
      <4>3. i * c <= kc
        BY <2>1, <4>1, TimesMono DEF kc
      <4>4. ic + c <= kc
        BY <4>2, <4>3
      <4> HIDE DEF ic
      <4>5. ic + j \in 1..kc
        BY <2>3, <4>2, <4>4
      <4>6. p[ic + j] = s[i][j]
        BY <2>4, <4>1 DEF ic
      <4> QED BY <2>5, <4>5, <4>6 DEF ic
    <3> QED BY <3>1, <3>2
  <2>7. Len(f[k + 1]) = (k + 1) * c
    BY <2>2, <2>3, <2>5
  <2>8. \A i \in 1..(k + 1) : \A j \in 1..c : f[k + 1][(i - 1) * c + j] = s[i][j]
    <3> DEFINE w == Joined(p, q)
    <3>1. f[k + 1] = w /\ \A i \in 1..(k + 1) : \A j \in 1..c : w[(i - 1) * c + j] = s[i][j]
      BY <2>2, <2>6
    <3> HIDE DEF w
    <3> QED BY <3>1
  <2> QED BY <2>7, <2>8
<1>5. G = Nat
  <2> HIDE DEF Good
  <2> QED BY <1>3, <1>4, AllNaturals
<1>6. Good(N)
  <2> HIDE DEF Good
  <2> QED BY <1>2, <1>5
<1>7. f[N] \in Seq(A)
  <2>1. N \in 0..N
    BY <1>2
  <2> HIDE DEF N
  <2> QED BY <1>1, <2>1
<1>8. Bucket!FlattenSeq(s) = f[N]
  BY <1>1
<1> HIDE DEF N
<1>9. /\ Len(f[N]) = N * c
      /\ \A k \in 1..N : \A j \in 1..c : f[N][(k - 1) * c + j] = s[k][j]
  BY <1>6
<1> QED BY <1>7, <1>8, <1>9 DEF N

(* What the sizes must satisfy: those of BucketTail's assumption.          *)
TailSizes ==
  /\ GroupSize \in Nat \ {0} /\ CounterSize \in Nat \ {0} /\ CounterRange \in Nat \ {0}
  /\ MaskSize \in Nat \ {0} /\ RawBlock \in Nat \ {0} /\ Z_block \in Nat \ {0} /\ MaxBlocks \in Nat
  /\ 0 \in Byte /\ GroupSize <= RawBlock

LEMMA SizesHold == TailSizes
BY TailsAssumption DEF Bucket!TailAssumption, TailSizes

Encrypted == [group : [1..GroupSize -> Byte], counter : Nat]

(* The first n groups of the buffer b, encrypted. *)
Encrypts(cipher, b, n) ==
  /\ cipher \in Seq(Encrypted) /\ Len(cipher) = n
  /\ \A k \in 1..n : \A j \in 1..GroupSize :
       cipher[k].group[j] = LET x == (k - 1) * GroupSize + j
                            IN  IF x <= Len(b) THEN b[x] ELSE 0

Buffer(tail) == tail.M \o Bucket!FlattenSeq(tail.blocks)

LEMMA PlaceOf ==
  ASSUME NEW c \in Nat \ {0}, NEW n \in Nat, NEW x \in 1..(n * c)
  PROVE  \E k \in 1..n : \E j \in 1..c : x = (k - 1) * c + j
<1> DEFINE q == (x - 1) \div c
           r == (x - 1) % c
           nc == n * c
<1>1. nc \in Nat /\ x \in 1..nc /\ x - 1 \in Nat
  OBVIOUS
<1>2. q \in Nat /\ r \in 0..(c - 1) /\ x - 1 = c * q + r
  BY <1>1, DivMod
<1>3. c * q = q * c
  OBVIOUS
<1> HIDE DEF q, r
<1>4. ~ (n <= q)
  <2> SUFFICES ASSUME n <= q PROVE FALSE
    OBVIOUS
  <2>1. n * c <= q * c
    BY <1>2, TimesMono
  <2> DEFINE qc == q * c
  <2>2. nc <= qc /\ qc \in Nat /\ x - 1 = qc + r
    BY <1>2, <1>3, <2>1
  <2> HIDE DEF nc, qc
  <2> QED BY <1>1, <1>2, <2>2
<1>5. q + 1 \in 1..n /\ r + 1 \in 1..c /\ (q + 1) - 1 = q
  BY <1>2, <1>4
<1>6. x = ((q + 1) - 1) * c + (r + 1)
  <2> DEFINE qc == q * c
  <2>1. x - 1 = qc + r /\ qc \in Nat
    BY <1>2, <1>3
  <2>2. ((q + 1) - 1) * c = qc
    BY <1>5
  <2> HIDE DEF qc
  <2>3. x = qc + (r + 1)
    BY <1>2, <2>1
  <2> QED BY <2>2, <2>3
<1> QED BY <1>5, <1>6

(* Decryption gives the buffer and what fills the last group.              *)
LEMMA DecryptIs ==
  ASSUME TailSizes, NEW b \in Seq(Byte), NEW n \in Nat, NEW cipher,
         Encrypts(cipher, b, n), Len(b) <= n * GroupSize
  PROVE  /\ Bucket!Decrypt(cipher) \in Seq(Byte)
         /\ Len(Bucket!Decrypt(cipher)) = n * GroupSize
         /\ \A x \in 1..Len(b) : Bucket!Decrypt(cipher)[x] = b[x]
<1> DEFINE s == [k \in DOMAIN cipher |-> cipher[k].group]
           F == Bucket!FlattenSeq(s)
<1>1. cipher \in Seq(Encrypted) /\ Len(cipher) = n /\ DOMAIN cipher = 1..n
  BY DEF Encrypts
<1>2. \A k \in 1..n : cipher[k].group \in [1..GroupSize -> Byte]
  <2> SUFFICES ASSUME NEW k \in 1..n PROVE cipher[k].group \in [1..GroupSize -> Byte]
    OBVIOUS
  <2>1. cipher[k] \in Encrypted
    BY <1>1
  <2> DEFINE e == cipher[k]
  <2> HIDE DEF e
  <2>2. ASSUME e \in Encrypted PROVE e.group \in [1..GroupSize -> Byte]
    BY <2>2 DEF Encrypted
  <2> QED BY <2>1, <2>2 DEF e
<1>3. \A k \in 1..n : cipher[k].group \in Seq(Byte) /\ Len(cipher[k].group) = GroupSize
  <2> SUFFICES ASSUME NEW k \in 1..n
               PROVE  cipher[k].group \in Seq(Byte) /\ Len(cipher[k].group) = GroupSize
    OBVIOUS
  <2> DEFINE g == cipher[k].group
  <2>1. g \in [1..GroupSize -> Byte] /\ GroupSize \in Nat
    BY <1>2 DEF TailSizes
  <2> HIDE DEF g
  <2>2. g \in Seq(Byte) /\ Len(g) = GroupSize
    BY <2>1
  <2> QED BY <2>2 DEF g
<1>4. s \in [1..n -> Seq(Byte)] /\ \A k \in 1..n : s[k] = cipher[k].group
  BY <1>1, <1>3
<1> HIDE DEF s
<1>5. s \in Seq(Seq(Byte)) /\ Len(s) = n /\ \A k \in 1..Len(s) : Len(s[k]) = GroupSize
  <2>1. s \in Seq(Seq(Byte)) /\ Len(s) = n
    BY <1>4
  <2> QED BY <1>3, <1>4, <2>1
<1>6. /\ F \in Seq(Byte) /\ Len(F) = n * GroupSize
      /\ \A k \in 1..n : \A j \in 1..GroupSize : F[(k - 1) * GroupSize + j] = s[k][j]
  <2>1. GroupSize \in Nat \ {0}
    BY DEF TailSizes
  <2> QED BY <1>5, <2>1, FlattenEqual
<1>7. Bucket!Decrypt(cipher) = F
  BY DEF Bucket!Decrypt, s
<1> HIDE DEF F
<1>8. ASSUME NEW x \in 1..Len(b) PROVE F[x] = b[x]
  <2> DEFINE nc == n * GroupSize
  <2>0. GroupSize \in Nat \ {0} /\ nc \in Nat /\ Len(b) <= nc /\ Len(b) \in Nat
    BY DEF TailSizes
  <2>1. x \in 1..(n * GroupSize) /\ x <= Len(b)
    <3> HIDE DEF nc
    <3>1. x \in 1..nc /\ x <= Len(b)
      BY <2>0
    <3> QED BY <3>1 DEF nc
  <2>2. PICK k \in 1..n, j \in 1..GroupSize : x = (k - 1) * GroupSize + j
    BY <2>0, <2>1, PlaceOf
  <2>3. F[x] = s[k][j]
    BY <1>6, <2>2
  <2>4. s[k][j] = IF x <= Len(b) THEN b[x] ELSE 0
    BY <1>4, <2>2 DEF Encrypts
  <2> QED BY <2>1, <2>3, <2>4
<1> QED BY <1>6, <1>7, <1>8

(* The buffer of a tail: its mask, then its blocks.                        *)
LEMMA BufferIs ==
  ASSUME TailSizes, NEW tail \in Bucket!Tails
  PROVE  LET n == Len(tail.blocks)
             b == Buffer(tail)
         IN /\ n \in Nat /\ n >= Z_block
            /\ tail.blocks \in [1..n -> Bucket!Block]
            /\ tail.M \in Seq(Byte) /\ Len(tail.M) = MaskSize
            /\ b \in Seq(Byte) /\ Len(b) = MaskSize + n * RawBlock
            /\ \A x \in 1..MaskSize : b[x] = tail.M[x]
            /\ \A k \in 1..n : \A j \in 1..RawBlock :
                 b[MaskSize + ((k - 1) * RawBlock + j)] = tail.blocks[k][j]
<1> DEFINE M == tail.M
           s == tail.blocks
           F == Bucket!FlattenSeq(s)
<1>0. MaskSize \in Nat /\ RawBlock \in Nat \ {0} /\ Z_block \in Nat /\ MaxBlocks \in Nat
  BY DEF TailSizes
<1>1. M \in [1..MaskSize -> Byte] /\ s \in UNION {[1..n -> Bucket!Block] : n \in Z_block..MaxBlocks}
  BY DEF Bucket!Tails
<1> HIDE DEF M, s
<1>2. PICK n \in Z_block..MaxBlocks : s \in [1..n -> Bucket!Block]
  BY <1>1
<1>3. n \in Nat /\ n >= Z_block
  BY <1>0, <1>2
<1>4. M \in Seq(Byte) /\ Len(M) = MaskSize
  BY <1>0, <1>1
<1>5. \A k \in 1..n : s[k] \in Seq(Byte) /\ Len(s[k]) = RawBlock
  <2> SUFFICES ASSUME NEW k \in 1..n PROVE s[k] \in Seq(Byte) /\ Len(s[k]) = RawBlock
    OBVIOUS
  <2> DEFINE e == s[k]
  <2>1. e \in [1..RawBlock -> Byte]
    BY <1>2 DEF Bucket!Block
  <2> HIDE DEF e
  <2>2. e \in Seq(Byte) /\ Len(e) = RawBlock
    BY <1>0, <2>1
  <2> QED BY <2>2 DEF e
<1>6. s \in Seq(Seq(Byte)) /\ Len(s) = n
  <2>1. s \in [1..n -> Seq(Byte)]
    BY <1>2, <1>5
  <2> QED BY <1>3, <2>1
<1>7. /\ F \in Seq(Byte) /\ Len(F) = n * RawBlock
      /\ \A k \in 1..n : \A j \in 1..RawBlock : F[(k - 1) * RawBlock + j] = s[k][j]
  BY <1>0, <1>5, <1>6, FlattenEqual
<1> DEFINE b == Joined(M, F)
<1>8. Buffer(tail) = b
  BY DEF Buffer, Joined, M, s
<1> HIDE DEF F
<1>13. M \in Seq(Byte) /\ F \in Seq(Byte)
  BY <1>4, <1>7
<1>14. Len(F) = n * RawBlock
  BY <1>7
<1>15. b \in Seq(Byte) /\ Len(b) = Len(M) + Len(F)
  BY <1>13, JoinedIs
<1>9. b \in Seq(Byte) /\ Len(b) = MaskSize + n * RawBlock
  BY <1>4, <1>14, <1>15
<1>10. \A x \in 1..MaskSize : b[x] = M[x]
  BY <1>4, <1>13, JoinedIs
<1>11. \A x \in 1..Len(F) : b[MaskSize + x] = F[x]
  <2>1. \A x \in 1..Len(F) : b[Len(M) + x] = F[x]
    BY <1>13, JoinedIs
  <2>2. Len(M) = MaskSize
    BY <1>4
  <2> HIDE DEF b
  <2> QED BY <2>1, <2>2
<1> HIDE DEF b
<1>12. ASSUME NEW k \in 1..n, NEW j \in 1..RawBlock
       PROVE  b[MaskSize + ((k - 1) * RawBlock + j)] = s[k][j]
  <2> DEFINE kc == (k - 1) * RawBlock
             nc == n * RawBlock
  <2>1. k - 1 \in Nat /\ k - 1 + 1 = k /\ k \in Nat /\ k <= n
    BY <1>3
  <2>2. k * RawBlock = kc + RawBlock /\ kc \in Nat
    BY <1>0, <2>1, TimesStep
  <2>3. k * RawBlock <= nc /\ nc \in Nat
    BY <1>0, <1>3, <2>1, TimesMono
  <2>4. F[kc + j] = s[k][j]
    BY <1>7
  <2>5. kc + j \in 1..Len(F)
    <3>1. Len(F) = nc
      BY <1>7
    <3>2. kc + RawBlock <= nc
      BY <2>2, <2>3
    <3> HIDE DEF kc, nc
    <3> QED BY <1>0, <2>2, <2>3, <3>1, <3>2
  <2> HIDE DEF kc
  <2>6. b[MaskSize + (kc + j)] = F[kc + j]
    BY <1>11, <2>5
  <2> QED BY <2>4, <2>6 DEF kc
<1> QED BY <1>2, <1>3, <1>4, <1>6, <1>8, <1>9, <1>10, <1>12 DEF M, s

(* A function on 1..n is found in the n places of a sequence that hold it. *)
LEMMA CutOut ==
  ASSUME NEW A, NEW p \in Seq(A), NEW a \in Nat, NEW n \in Nat, a + n <= Len(p),
         NEW f \in [1..n -> A], \A j \in 1..n : p[a + j] = f[j]
  PROVE  SubSeq(p, a + 1, a + n) = f
<1> DEFINE q == SubSeq(p, a + 1, a + n)
<1>1. Len(q) = n /\ q \in Seq(A)
  OBVIOUS
<1>2. \A j \in 1..n : q[j] = p[a + j]
  OBVIOUS
<1>3. DOMAIN q = 1..n /\ q = [j \in DOMAIN q |-> q[j]]
  BY <1>1
<1> HIDE DEF q
<1>4. f = [j \in 1..n |-> f[j]]
  OBVIOUS
<1>5. \A j \in 1..n : q[j] = f[j]
  BY <1>2
<1>6. q = f
  BY <1>3, <1>4, <1>5
<1> QED BY <1>6 DEF q

(* The number of groups of a buffer is the least that holds it.            *)
Fills(n, bytes) == bytes <= n * GroupSize /\ n * GroupSize <= bytes + GroupSize - 1

LEMMA BlocksFound ==
  ASSUME TailSizes, NEW n \in Nat, NEW bytes \in Nat,
         MaskSize + n * RawBlock <= bytes,
         bytes <= MaskSize + n * RawBlock + GroupSize - 1
  PROVE  Bucket!OutBlocks(bytes) = n
<1> DEFINE rn == RawBlock * n
           q == bytes - MaskSize - rn
<1>1. /\ GroupSize \in Nat \ {0} /\ MaskSize \in Nat /\ RawBlock \in Nat \ {0}
      /\ GroupSize <= RawBlock
  BY DEF TailSizes
<1>2. rn \in Nat /\ rn = n * RawBlock
  BY <1>1
<1> HIDE DEF rn
<1>3. q \in 0..(RawBlock - 1) /\ bytes - MaskSize = rn + q
  BY <1>1, <1>2
<1> HIDE DEF q
<1>4. (RawBlock * n + q) \div RawBlock = n
  BY <1>1, <1>3, DivModOf
<1>5. (rn + q) \div RawBlock = n
  BY <1>4 DEF rn
<1>6. (bytes - MaskSize) \div RawBlock = n
  BY <1>3, <1>5
<1> QED BY <1>6 DEF Bucket!OutBlocks

LEMMA LargerOfTwo ==
  ASSUME NEW a \in Nat, NEW b \in Nat, a <= b
  PROVE  Bucket!Max({a, b}) = b
<1>1. \E x \in {a, b} : \A y \in {a, b} : x >= y
  OBVIOUS
<1>2. \A x \in {a, b} : (\A y \in {a, b} : x >= y) => x = b
  OBVIOUS
<1>3. b \in {a, b} /\ \A y \in {a, b} : b >= y
  OBVIOUS
<1> QED BY <1>1, <1>2, <1>3 DEF Bucket!Max

(* The tail comes back from the groups that hold its buffer: what fills    *)
(* the last group is less than a block.                                    *)
LEMMA ToTailIs ==
  ASSUME TailSizes, NEW tail \in Bucket!Tails, NEW n \in Nat, NEW cipher,
         Encrypts(cipher, Buffer(tail), n), Fills(n, Len(Buffer(tail)))
  PROVE  Bucket!ToTail(cipher) = tail
<1> DEFINE bl == Len(tail.blocks)
           b == Buffer(tail)
           p == Bucket!Decrypt(cipher)
           start(k) == MaskSize + (k - 1) * RawBlock
           br == bl * RawBlock
           ng == n * GroupSize
<1>1. /\ GroupSize \in Nat \ {0} /\ MaskSize \in Nat \ {0} /\ RawBlock \in Nat \ {0}
      /\ Z_block \in Nat \ {0}
  BY DEF TailSizes
<1>2. bl \in Nat /\ bl >= Z_block /\ tail.blocks \in [1..bl -> Bucket!Block]
  BY BufferIs
<1>3. Len(tail.M) = MaskSize /\ tail.M \in Seq(Byte)
  BY BufferIs
<1>4. b \in Seq(Byte) /\ Len(b) = MaskSize + br
  BY BufferIs
<1>5. \A x \in 1..MaskSize : b[x] = tail.M[x]
  BY BufferIs
<1>6. \A k \in 1..bl : \A j \in 1..RawBlock :
        b[MaskSize + ((k - 1) * RawBlock + j)] = tail.blocks[k][j]
  BY BufferIs
<1>7. Len(b) <= ng /\ ng <= Len(b) + GroupSize - 1
  BY DEF Fills
<1>8. Encrypts(cipher, b, n)
  OBVIOUS
<1>9. br \in Nat /\ ng \in Nat
  BY <1>1, <1>2
<1> HIDE DEF b, bl, p
<1>10. p \in Seq(Byte) /\ Len(p) = ng
  BY <1>4, <1>7, <1>8, DecryptIs DEF p
<1>11. \A x \in 1..Len(b) : p[x] = b[x]
  BY <1>4, <1>7, <1>8, DecryptIs DEF p
<1> HIDE DEF ng
<1>12. Bucket!OutBlocks(Len(p)) = bl
  <2>1. MaskSize + br <= ng /\ ng <= MaskSize + br + GroupSize - 1
    BY <1>1, <1>4, <1>7, <1>9
  <2>2. Bucket!OutBlocks(ng) = bl
    BY <1>2, <1>9, <2>1, BlocksFound
  <2> QED BY <1>10, <2>2
<1>13. Bucket!Max({Z_block, bl}) = bl
  BY <1>1, <1>2, LargerOfTwo
<1>14. SubSeq(p, 1, MaskSize) = tail.M
  <2> DEFINE f == tail.M
  <2>1. f \in [1..MaskSize -> Byte]
    BY <1>3
  <2>2. 0 + MaskSize <= Len(p)
    <3> HIDE DEF br
    <3> QED BY <1>1, <1>4, <1>7, <1>9, <1>10
  <2>3. \A j \in 1..MaskSize : p[0 + j] = f[j]
    <3> SUFFICES ASSUME NEW j \in 1..MaskSize PROVE p[0 + j] = f[j]
      OBVIOUS
    <3>1. j \in 1..Len(b) /\ 0 + j = j
      <4> HIDE DEF br
      <4> QED BY <1>1, <1>4, <1>9
    <3> QED BY <1>5, <1>11, <3>1
  <2> HIDE DEF f
  <2>4. SubSeq(p, 0 + 1, 0 + MaskSize) = f
    BY <1>1, <1>10, <2>1, <2>2, <2>3, CutOut
  <2>5. 0 + 1 = 1 /\ 0 + MaskSize = MaskSize
    BY <1>1
  <2> QED BY <2>4, <2>5 DEF f
<1>15. ASSUME NEW k \in 1..bl
       PROVE  SubSeq(p, start(k) + 1, start(k) + RawBlock) = tail.blocks[k]
  <2> DEFINE a == start(k)
             kc == (k - 1) * RawBlock
             f == tail.blocks[k]
  <2>1. k - 1 \in Nat /\ k - 1 + 1 = k /\ k \in Nat /\ k <= bl
    BY <1>2
  <2>2. k * RawBlock = kc + RawBlock /\ kc \in Nat
    BY <1>1, <2>1, TimesStep
  <2>3. k * RawBlock <= br
    BY <1>1, <1>2, <2>1, TimesMono
  <2>4. f \in [1..RawBlock -> Byte]
    BY <1>2 DEF Bucket!Block
  <2>5. a = MaskSize + kc
    OBVIOUS
  <2> HIDE DEF a, br
  <2>6. \A j \in 1..RawBlock : b[MaskSize + (kc + j)] = f[j]
    BY <1>6
  <2>7. kc + RawBlock <= br
    BY <2>2, <2>3
  <2> HIDE DEF kc, f
  <2>8. a \in Nat /\ a + RawBlock <= Len(b) /\ a + RawBlock <= Len(p)
    BY <1>1, <1>4, <1>7, <1>9, <1>10, <2>2, <2>5, <2>7
  <2>9. \A j \in 1..RawBlock : p[a + j] = f[j]
    <3> SUFFICES ASSUME NEW j \in 1..RawBlock PROVE p[a + j] = f[j]
      OBVIOUS
    <3>1. a + j = MaskSize + (kc + j) /\ a + j \in 1..Len(b)
      BY <1>1, <1>4, <1>9, <2>2, <2>5, <2>7
    <3> QED BY <1>11, <2>6, <3>1
  <2>10. SubSeq(p, a + 1, a + RawBlock) = f
    BY <1>1, <1>10, <2>4, <2>8, <2>9, CutOut
  <2> QED BY <2>10 DEF a, f
<1> DEFINE blocks == [k \in 1..bl |-> SubSeq(p, start(k) + 1, start(k) + RawBlock)]
<1>16. blocks = tail.blocks
  <2> HIDE DEF start
  <2>1. tail.blocks = [k \in 1..bl |-> tail.blocks[k]]
    BY <1>2
  <2> QED BY <1>15, <2>1
<1>17. tail = [M |-> tail.M, blocks |-> tail.blocks]
  BY DEF Bucket!Tails
<1>18. Bucket!ToTail(cipher) = [M |-> SubSeq(p, 1, MaskSize), blocks |-> blocks]
  <2>1. [k \in 1..bl |-> IF k <= bl THEN SubSeq(p, start(k) + 1, start(k) + RawBlock)
                                    ELSE Bucket!Dummy] = blocks
    <3> HIDE DEF start
    <3>1. \A k \in 1..bl : k <= bl
      BY <1>2
    <3> QED BY <3>1
  <2>2. Bucket!ToTail(cipher) =
          [M |-> SubSeq(p, 1, MaskSize),
           blocks |-> [k \in 1..Bucket!Max({Z_block, Bucket!OutBlocks(Len(p))}) |->
                         IF k <= Bucket!OutBlocks(Len(p))
                           THEN SubSeq(p, start(k) + 1, start(k) + RawBlock)
                           ELSE Bucket!Dummy]]
    BY DEF Bucket!ToTail, p
  <2> HIDE DEF blocks, start
  <2> QED BY <1>12, <1>13, <2>1, <2>2
<1> QED BY <1>14, <1>16, <1>17, <1>18

LEMMA GroupsFill ==
  ASSUME TailSizes, plain \in Bucket!Tails
  PROVE  Bucket!Groups \in Nat /\ Fills(Bucket!Groups, Len(Buffer(plain)))
<1> DEFINE b == Buffer(plain)
           L == Len(b)
           q == (L + GroupSize - 1) \div GroupSize
           r == (L + GroupSize - 1) % GroupSize
           gq == GroupSize * q
<1>1. L \in Nat
  BY BufferIs
<1>2. GroupSize \in Nat \ {0}
  BY DEF TailSizes
<1>3. Bucket!Groups = q
  BY DEF Bucket!Groups, Bucket!m, Buffer
<1> HIDE DEF L
<1>4. L + GroupSize - 1 \in Nat
  BY <1>1, <1>2
<1>5. q \in Nat /\ r \in 0..(GroupSize - 1) /\ L + GroupSize - 1 = gq + r
  BY <1>2, <1>4, DivMod
<1> HIDE DEF q, r
<1>6. gq = q * GroupSize /\ gq \in Nat
  BY <1>2, <1>5
<1> HIDE DEF gq
<1>7. L <= gq /\ gq <= L + GroupSize - 1
  BY <1>1, <1>2, <1>5, <1>6
<1>8. Fills(q, L)
  BY <1>6, <1>7 DEF Fills
<1> QED BY <1>3, <1>5, <1>8 DEF L

Kept == [tail : Bucket!Tails, cipher : Seq(Encrypted)]
Ciphers == [k \in DOMAIN etails |-> etails[k].cipher]
All == Joined(Bucket!FlattenSeq(Ciphers), output)

(* What is kept decrypts to its tail. *)
Kind ==
  /\ counter \in Nat /\ at \in Nat /\ stage \in {"idle", "encrypt"}
  /\ output \in Seq(Encrypted)
  /\ etails \in Seq(Kept)
Working ==
  IF stage = "encrypt"
    THEN plain \in Bucket!Tails /\ at <= Bucket!Groups /\ Encrypts(output, Buffer(plain), at)
    ELSE plain = Bucket!NoTail /\ output = <<>> /\ at = 0
Returned ==
  \A k \in 1..Len(etails) : \E n \in Nat :
    /\ Encrypts(etails[k].cipher, Buffer(etails[k].tail), n)
    /\ Fills(n, Len(Buffer(etails[k].tail)))
Numbered ==
  /\ counter = Len(All) % CounterRange
  /\ \A k \in 1..Len(All) : All[k].counter = (k - 1) % CounterRange
TailInv == Kind /\ Working /\ Returned /\ Numbered

LEMMA CiphersAre ==
  ASSUME NEW e \in Seq(Kept)
  PROVE  /\ [k \in DOMAIN e |-> e[k].cipher] \in Seq(Seq(Encrypted))
         /\ Len([k \in DOMAIN e |-> e[k].cipher]) = Len(e)
<1> DEFINE n == Len(e)
           c == [k \in DOMAIN e |-> e[k].cipher]
<1>1. n \in Nat /\ DOMAIN e = 1..n
  OBVIOUS
<1>2. \A k \in 1..n : e[k].cipher \in Seq(Encrypted)
  <2> SUFFICES ASSUME NEW k \in 1..n PROVE e[k].cipher \in Seq(Encrypted)
    OBVIOUS
  <2>1. e[k] \in Kept
    OBVIOUS
  <2> DEFINE x == e[k]
  <2> HIDE DEF x
  <2>2. ASSUME x \in Kept PROVE x.cipher \in Seq(Encrypted)
    BY <2>2 DEF Kept
  <2> QED BY <2>1, <2>2 DEF x
<1>3. c \in [1..n -> Seq(Encrypted)]
  BY <1>1, <1>2
<1> HIDE DEF c
<1>4. c \in Seq(Seq(Encrypted)) /\ Len(c) = n
  BY <1>1, <1>3
<1> QED BY <1>4 DEF c

(* Numbers with the same remainder are a whole round apart.                *)
LEMMA RoundApart ==
  ASSUME NEW c \in Nat \ {0}, NEW x \in Nat, NEW y \in Nat, x < y, x % c = y % c
  PROVE  y - x >= c
<1> DEFINE p == x \div c
           q == y \div c
           r == x % c
           u == c * p
           v == c * q
<1>1. p \in Nat /\ r \in 0..(c - 1) /\ x = u + r
  BY DivMod
<1>2. q \in Nat /\ y % c \in 0..(c - 1) /\ y = v + (y % c)
  BY DivMod
<1>3. y = v + r
  BY <1>2
<1> HIDE DEF p, q, r
<1>4. u \in Nat /\ v \in Nat
  BY <1>1, <1>2
<1>5. p < q
  <2> SUFFICES ASSUME q <= p PROVE FALSE
    BY <1>1, <1>2
  <2>1. q * c <= p * c
    BY <1>1, <1>2, TimesMono
  <2>2. v = q * c /\ u = p * c
    BY <1>1, <1>2
  <2>3. v <= u
    BY <2>1, <2>2
  <2> HIDE DEF u, v
  <2> QED BY <1>1, <1>3, <1>4, <2>3
<1>6. v >= u + c
  <2>1. (p + 1) * c <= q * c
    BY <1>1, <1>2, <1>5, TimesMono
  <2>2. v = q * c /\ (p + 1) * c = u + c
    BY <1>1, <1>2
  <2> QED BY <2>1, <2>2
<1> HIDE DEF u, v
<1> QED BY <1>1, <1>3, <1>4, <1>6

LEMMA InitTail == ASSUME TailSizes, Bucket!Init PROVE TailInv
<1>1. /\ counter = 0 /\ plain = Bucket!NoTail /\ at = 0 /\ output = <<>> /\ etails = <<>>
      /\ stage = "idle"
  BY DEF Bucket!Init
<1>2. Kind /\ Working
  BY <1>1 DEF Kind, Working
<1>3. Returned
  BY <1>1 DEF Returned
<1>4. Ciphers = <<>>
  BY <1>1 DEF Ciphers
<1>5. All = <<>>
  BY <1>1, <1>4, FlattenEmpty DEF All, Joined
<1>6. 0 = 0 % CounterRange
  <2>1. CounterRange \in Nat \ {0}
    BY DEF TailSizes
  <2>2. 0 \in 0..(CounterRange - 1) /\ 0 = CounterRange * 0 + 0
    BY <2>1
  <2> QED BY <2>1, <2>2, DivModOf
<1>7. Len(All) = 0
  BY <1>5
<1> QED BY <1>1, <1>2, <1>3, <1>6, <1>7 DEF TailInv, Numbered

LEMMA ToETailKeeps ==
  ASSUME TailSizes, TailInv, NEW tail \in Bucket!Tails, Bucket!ToETail(tail)
  PROVE  TailInv'
<1>1. /\ stage = "idle" /\ plain' = tail /\ at' = 0 /\ output' = <<>> /\ stage' = "encrypt"
      /\ counter' = counter /\ etails' = etails
  BY DEF Bucket!ToETail
<1>2. Kind'
  BY <1>1 DEF TailInv, Kind
<1>3. output = <<>>
  BY <1>1 DEF TailInv, Working
<1>4. Working'
  <2>1. Bucket!Groups' \in Nat
    <3>1. plain' \in Bucket!Tails
      BY <1>1
    <3>2. Len(Buffer(plain')) \in Nat
      BY <3>1, BufferIs
    <3>3. Bucket!Groups' = (Len(Buffer(plain')) + GroupSize - 1) \div GroupSize
      BY DEF Bucket!Groups, Bucket!m, Buffer
    <3> DEFINE L == Len(Buffer(plain'))
    <3> HIDE DEF L
    <3>4. L \in Nat => (L + GroupSize - 1) \div GroupSize \in Nat
      <4>1. GroupSize \in Nat \ {0}
        BY DEF TailSizes
      <4> SUFFICES ASSUME L \in Nat PROVE (L + GroupSize - 1) \div GroupSize \in Nat
        OBVIOUS
      <4>2. L + GroupSize - 1 \in Nat
        BY <4>1
      <4> QED BY <4>1, <4>2, DivMod
    <3> QED BY <3>2, <3>3, <3>4 DEF L
  <2>2. Encrypts(<<>>, Buffer(tail), 0)
    BY DEF Encrypts
  <2>3. Encrypts(output', Buffer(plain'), at')
    BY <1>1, <2>2
  <2>4. at' <= Bucket!Groups'
    BY <1>1, <2>1
  <2> QED BY <1>1, <2>3, <2>4 DEF Working
<1>5. Returned'
  BY <1>1 DEF TailInv, Returned
<1>6. Numbered'
  BY <1>1, <1>3 DEF TailInv, Numbered, All, Ciphers
<1> QED BY <1>2, <1>4, <1>5, <1>6 DEF TailInv

LEMMA EncryptGroupKeeps ==
  ASSUME TailSizes, TailInv, Bucket!EncryptGroup
  PROVE  TailInv'
<1> DEFINE b == Buffer(plain)
           g == [j \in 1..GroupSize |-> IF at * GroupSize + j <= Len(b) THEN b[at * GroupSize + j] ELSE 0]
           e == [group |-> g, counter |-> counter]
<1>1. /\ stage = "encrypt" /\ at < Bucket!Groups /\ output' = Append(output, e)
      /\ counter' = (counter + 1) % CounterRange /\ at' = at + 1
      /\ plain' = plain /\ etails' = etails /\ stage' = stage
  BY DEF Bucket!EncryptGroup, Bucket!NextCounter, Bucket!m, Buffer
<1>2. /\ counter \in Nat /\ at \in Nat /\ output \in Seq(Encrypted) /\ etails \in Seq(Kept)
  BY DEF TailInv, Kind
<1>3. plain \in Bucket!Tails /\ Encrypts(output, b, at)
  BY <1>1 DEF TailInv, Working
<1>4. b \in Seq(Byte)
  BY <1>3, BufferIs
<1>5. Bucket!Groups \in Nat
  BY <1>3, GroupsFill
<1> HIDE DEF b
<1>6. g \in [1..GroupSize -> Byte]
  <2> SUFFICES ASSUME NEW j \in 1..GroupSize
               PROVE  (IF at * GroupSize + j <= Len(b) THEN b[at * GroupSize + j] ELSE 0) \in Byte
    OBVIOUS
  <2> DEFINE x == at * GroupSize
  <2>1. x \in Nat /\ GroupSize \in Nat /\ 0 \in Byte
    BY <1>2 DEF TailSizes
  <2> HIDE DEF x
  <2>2. (IF x + j <= Len(b) THEN b[x + j] ELSE 0) \in Byte
    BY <1>4, <2>1
  <2> QED BY <2>2 DEF x
<1>7. \A j \in 1..GroupSize : g[j] = IF at * GroupSize + j <= Len(b) THEN b[at * GroupSize + j] ELSE 0
  OBVIOUS
<1> HIDE DEF g
<1>8. e \in Encrypted /\ e.group = g /\ e.counter = counter
  BY <1>2, <1>6 DEF Encrypted
<1> HIDE DEF e
<1>9. Len(output) = at
  BY <1>3 DEF Encrypts
<1> DEFINE o == Append(output, e)
<1>10. /\ o \in Seq(Encrypted) /\ Len(o) = at + 1 /\ o[at + 1] = e
       /\ \A k \in 1..at : o[k] = output[k]
  BY <1>2, <1>8, <1>9
<1>11. output' = o
  BY <1>1
<1> HIDE DEF o
<1>17. o \in Seq(Encrypted)
  BY <1>10
<1>18. CounterRange \in Nat \ {0}
  BY DEF TailSizes
<1>19. counter' \in Nat
  <2> DEFINE n == counter + 1
  <2>1. n \in Nat /\ counter' = n % CounterRange
    BY <1>1, <1>2
  <2> HIDE DEF n
  <2> QED BY <1>18, <2>1, DivMod
<1>12. Kind'
  BY <1>1, <1>2, <1>10, <1>11, <1>19 DEF Kind, TailInv
<1>13. Encrypts(o, b, at + 1)
  <2> DEFINE Value(k, j) == LET x == (k - 1) * GroupSize + j
                            IN  IF x <= Len(b) THEN b[x] ELSE 0
  <2>1. \A k \in 1..at : \A j \in 1..GroupSize : output[k].group[j] = Value(k, j)
    BY <1>3 DEF Encrypts
  <2>2. at + 1 - 1 = at
    BY <1>2
  <2>3. \A j \in 1..GroupSize : g[j] = Value(at + 1, j)
    <3> SUFFICES ASSUME NEW j \in 1..GroupSize PROVE g[j] = Value(at + 1, j)
      OBVIOUS
    <3> DEFINE q == at + 1
               x == (q - 1) * GroupSize + j
    <3>1. Value(q, j) = IF x <= Len(b) THEN b[x] ELSE 0
      <4> HIDE DEF q
      <4> QED OBVIOUS
    <3>2. x = at * GroupSize + j
      <4>1. q - 1 = at
        BY <1>2
      <4> HIDE DEF q
      <4> QED BY <4>1
    <3> HIDE DEF x
    <3>3. g[j] = IF x <= Len(b) THEN b[x] ELSE 0
      BY <1>7, <3>2
    <3> HIDE DEF Value
    <3> QED BY <3>1, <3>3
  <2> HIDE DEF Value
  <2>4. \A k \in 1..(at + 1) : \A j \in 1..GroupSize : o[k].group[j] = Value(k, j)
    <3> SUFFICES ASSUME NEW k \in 1..(at + 1), NEW j \in 1..GroupSize
                 PROVE  o[k].group[j] = Value(k, j)
      OBVIOUS
    <3>1. CASE k = at + 1
      BY <1>8, <1>10, <2>3, <3>1
    <3>2. CASE k # at + 1
      <4>1. k \in 1..at
        BY <1>2, <3>2
      <4> QED BY <1>10, <2>1, <4>1
    <3> QED BY <3>1, <3>2
  <2> QED BY <1>10, <2>4 DEF Encrypts, Value
<1>14. Working'
  <2>1. Bucket!Groups' = Bucket!Groups
    BY <1>1 DEF Bucket!Groups, Bucket!m
  <2>2. at' <= Bucket!Groups'
    BY <1>1, <1>2, <1>5, <2>1
  <2>3. Encrypts(output', Buffer(plain'), at')
    BY <1>1, <1>11, <1>13 DEF b
  <2> QED BY <1>1, <1>3, <2>2, <2>3 DEF Working
<1>15. Returned'
  BY <1>1 DEF TailInv, Returned
<1>16. Numbered'
  <2> DEFINE F == Bucket!FlattenSeq(Ciphers)
             a == Joined(F, output)
             c == Joined(F, o)
  <2>0. Ciphers' = Ciphers
    BY <1>1 DEF Ciphers
  <2>1. F \in Seq(Encrypted)
    <3>1. Ciphers \in Seq(Seq(Encrypted))
      BY <1>2, CiphersAre DEF Ciphers
    <3>2. <<>> \in Seq(Encrypted)
      OBVIOUS
    <3> QED BY <3>1, <3>2, FlattenAppend
  <2>2. All = a
    BY DEF All
  <2>3. All' = c
    BY <1>11, <2>0 DEF All
  <2> HIDE DEF F
  <2>4. Len(a) = Len(F) + Len(output)
    BY <1>2, <2>1, JoinedIs
  <2>5. \A x \in 1..Len(F) : a[x] = F[x]
    BY <1>2, <2>1, JoinedIs
  <2>6. \A x \in 1..Len(output) : a[Len(F) + x] = output[x]
    BY <1>2, <2>1, JoinedIs
  <2>7. Len(c) = Len(F) + Len(o)
    BY <1>17, <2>1, JoinedIs
  <2>8. \A x \in 1..Len(F) : c[x] = F[x]
    BY <1>17, <2>1, JoinedIs
  <2>9. \A x \in 1..Len(o) : c[Len(F) + x] = o[x]
    BY <1>17, <2>1, JoinedIs
  <2> DEFINE N == Len(a)
  <2>10. counter = N % CounterRange
    BY <2>2 DEF TailInv, Numbered
  <2>17. \A k \in 1..N : a[k].counter = (k - 1) % CounterRange
    BY <2>2 DEF TailInv, Numbered
  <2>11. Len(F) \in Nat
    BY <2>1
  <2> HIDE DEF a, c
  <2>12. N = Len(F) + at /\ Len(c) = N + 1 /\ N \in Nat
    <3>1. Len(o) = at + 1
      BY <1>10
    <3> QED BY <1>2, <1>9, <2>4, <2>7, <2>11, <3>1
  <2> HIDE DEF N
  <2>13. \A k \in 1..N : c[k] = a[k]
    <3> SUFFICES ASSUME NEW k \in 1..N PROVE c[k] = a[k]
      OBVIOUS
    <3>1. CASE k \in 1..Len(F)
      BY <2>5, <2>8, <3>1
    <3>2. CASE ~ (k \in 1..Len(F))
      <4> DEFINE x == k - Len(F)
      <4>1. x \in 1..at /\ k = Len(F) + x
        BY <1>2, <2>11, <2>12, <3>2
      <4> HIDE DEF x
      <4>2. x \in 1..Len(output) /\ x \in 1..Len(o)
        BY <1>2, <1>9, <1>10, <4>1
      <4>3. a[k] = output[x]
        BY <2>6, <4>1, <4>2
      <4>4. c[k] = o[x]
        BY <2>9, <4>1, <4>2
      <4> QED BY <1>10, <4>1, <4>3, <4>4
    <3> QED BY <3>1, <3>2
  <2>14. c[N + 1] = e
    <3>1. at + 1 \in 1..Len(o)
      BY <1>2, <1>10
    <3>2. N + 1 = Len(F) + (at + 1)
      BY <1>2, <2>11, <2>12
    <3> QED BY <1>10, <2>9, <3>1, <3>2
  <2>15. \A k \in 1..(N + 1) : c[k].counter = (k - 1) % CounterRange
    <3> SUFFICES ASSUME NEW k \in 1..(N + 1) PROVE c[k].counter = (k - 1) % CounterRange
      OBVIOUS
    <3>1. CASE k = N + 1
      <4>1. k - 1 = N
        BY <2>12, <3>1
      <4> QED BY <1>8, <2>10, <2>14, <3>1, <4>1
    <3>2. CASE k # N + 1
      <4>1. k \in 1..N
        BY <2>12, <3>2
      <4> QED BY <2>13, <2>17, <4>1
    <3> QED BY <3>1, <3>2
  <2>18. counter' = (N + 1) % CounterRange
    <3>1. ((N % CounterRange) + 1) % CounterRange = (N + 1) % CounterRange
      BY <1>18, <2>12, ModPlus
    <3> QED BY <1>1, <2>10, <3>1
  <2>19. Len(All') = N + 1
    BY <2>3, <2>12
  <2>16. /\ counter' = Len(All') % CounterRange
         /\ \A k \in 1..Len(All') : All'[k].counter = (k - 1) % CounterRange
    BY <2>3, <2>15, <2>18, <2>19
  <2> QED BY <2>16 DEF Numbered
<1> QED BY <1>12, <1>14, <1>15, <1>16 DEF TailInv

LEMMA ReturnKeeps ==
  ASSUME TailSizes, TailInv, Bucket!Return
  PROVE  TailInv'
<1> DEFINE e == [tail |-> plain, cipher |-> output]
           u == Append(etails, e)
           N == Len(etails)
<1>1. /\ stage = "encrypt" /\ at = Bucket!Groups /\ etails' = u
      /\ plain' = Bucket!NoTail /\ at' = 0 /\ output' = <<>> /\ stage' = "idle"
      /\ counter' = counter
  BY DEF Bucket!Return
<1>2. /\ counter \in Nat /\ at \in Nat /\ output \in Seq(Encrypted) /\ etails \in Seq(Kept)
  BY DEF TailInv, Kind
<1>3. plain \in Bucket!Tails /\ Encrypts(output, Buffer(plain), at)
  BY <1>1 DEF TailInv, Working
<1>4. Fills(at, Len(Buffer(plain)))
  BY <1>1, <1>3, GroupsFill
<1>5. e \in Kept /\ e.tail = plain /\ e.cipher = output
  BY <1>2, <1>3 DEF Kept
<1> HIDE DEF e
<1>6. /\ u \in Seq(Kept) /\ Len(u) = N + 1 /\ u[N + 1] = e /\ N \in Nat
      /\ \A k \in 1..N : u[k] = etails[k]
  BY <1>2, <1>5
<1> HIDE DEF u, N
<1>7. Kind'
  BY <1>1, <1>2, <1>6 DEF Kind
<1>8. Working'
  BY <1>1 DEF Working
<1>9. Returned'
  <2> DEFINE Good(x) == \E n \in Nat :
               Encrypts(x.cipher, Buffer(x.tail), n) /\ Fills(n, Len(Buffer(x.tail)))
  <2>1. Good(e)
    BY <1>2, <1>3, <1>4, <1>5
  <2>2. \A k \in 1..N : Good(etails[k])
    BY DEF TailInv, Returned, N
  <2> HIDE DEF Good
  <2>3. \A k \in 1..Len(u) : Good(u[k])
    <3> SUFFICES ASSUME NEW k \in 1..(N + 1) PROVE Good(u[k])
      BY <1>6
    <3>1. CASE k = N + 1
      BY <1>6, <2>1, <3>1
    <3>2. CASE k # N + 1
      <4>1. k \in 1..N
        BY <1>6, <3>2
      <4> QED BY <1>6, <2>2, <4>1
    <3> QED BY <3>1, <3>2
  <2>4. \A k \in 1..Len(etails') : Good(etails'[k])
    BY <1>1, <2>3
  <2> QED BY <2>4 DEF Returned, Good
<1>10. Numbered'
  <2> DEFINE c == [k \in DOMAIN u |-> u[k].cipher]
             F == Bucket!FlattenSeq(Ciphers)
  <2>1. Ciphers \in Seq(Seq(Encrypted)) /\ Len(Ciphers) = N
    BY <1>2, CiphersAre DEF Ciphers, N
  <2>2. c = Append(Ciphers, output)
    <3>1. DOMAIN u = 1..(N + 1) /\ DOMAIN etails = 1..N
      BY <1>2, <1>6 DEF N
    <3> DEFINE d == Append(Ciphers, output)
    <3>2. d \in Seq(Seq(Encrypted)) /\ Len(d) = N + 1 /\ d[N + 1] = output
      BY <1>2, <2>1
    <3>3. \A k \in 1..N : d[k] = Ciphers[k]
      BY <2>1
    <3>4. \A k \in 1..N : Ciphers[k] = etails[k].cipher
      BY <3>1 DEF Ciphers
    <3> HIDE DEF d
    <3>5. \A k \in 1..(N + 1) : d[k] = u[k].cipher
      <4> SUFFICES ASSUME NEW k \in 1..(N + 1) PROVE d[k] = u[k].cipher
        OBVIOUS
      <4>1. CASE k = N + 1
        BY <1>5, <1>6, <3>2, <4>1
      <4>2. CASE k # N + 1
        <5>1. k \in 1..N
          BY <1>6, <4>2
        <5> QED BY <1>6, <3>3, <3>4, <5>1
      <4> QED BY <4>1, <4>2
    <3>6. DOMAIN d = 1..(N + 1) /\ d = [k \in DOMAIN d |-> d[k]]
      BY <3>2
    <3>7. d = [k \in 1..(N + 1) |-> u[k].cipher]
      BY <3>5, <3>6
    <3> QED BY <3>1, <3>7 DEF d
  <2>3. Ciphers' = c
    BY <1>1 DEF Ciphers
  <2>4. F \in Seq(Encrypted) /\ Bucket!FlattenSeq(Append(Ciphers, output)) = Joined(F, output)
    BY <1>2, <2>1, FlattenAppend
  <2>5. All = Joined(F, output)
    BY DEF All
  <2>6. All \in Seq(Encrypted)
    BY <1>2, <2>4, <2>5, JoinedIs
  <2> HIDE DEF c, F
  <2>7. Bucket!FlattenSeq(c) = All
    BY <2>2, <2>4, <2>5
  <2> DEFINE a == All
  <2> HIDE DEF a
  <2>8. a \in Seq(Encrypted) => Joined(a, <<>>) = a
    BY DEF Joined
  <2>9. Joined(All, <<>>) = All
    BY <2>6, <2>8 DEF a
  <2>10. Bucket!FlattenSeq(Ciphers') = All
    BY <2>3, <2>7
  <2>11. All' = Joined(Bucket!FlattenSeq(Ciphers'), output')
    BY DEF All
  <2>12. All' = All
    BY <1>1, <2>9, <2>10, <2>11
  <2>13. /\ counter = Len(All) % CounterRange
         /\ \A k \in 1..Len(All) : All[k].counter = (k - 1) % CounterRange
    BY DEF TailInv, Numbered
  <2>14. /\ counter' = Len(All') % CounterRange
         /\ \A k \in 1..Len(All') : All'[k].counter = (k - 1) % CounterRange
    BY <1>1, <2>12, <2>13
  <2> QED BY <2>14 DEF Numbered
<1> QED BY <1>7, <1>8, <1>9, <1>10 DEF TailInv

LEMMA TailSpec == TailSizes => (Bucket!Spec => []TailInv)
<1> SUFFICES ASSUME TailSizes PROVE Bucket!Spec => []TailInv
  OBVIOUS
<1>1. Bucket!Init => TailInv
  BY InitTail
<1>2. TailInv /\ [Bucket!Next]_(Bucket!vars) => TailInv'
  <2> SUFFICES ASSUME TailInv, [Bucket!Next]_(Bucket!vars) PROVE TailInv'
    OBVIOUS
  <2>1. ASSUME NEW tail \in Bucket!Tails, Bucket!ToETail(tail) PROVE TailInv'
    BY <2>1, ToETailKeeps
  <2>2. ASSUME Bucket!EncryptGroup PROVE TailInv'
    BY <2>2, EncryptGroupKeeps
  <2>3. ASSUME Bucket!Return PROVE TailInv'
    BY <2>3, ReturnKeeps
  <2>4. ASSUME UNCHANGED Bucket!vars PROVE TailInv'
    <3>1. /\ counter' = counter /\ plain' = plain /\ at' = at /\ output' = output
          /\ etails' = etails /\ stage' = stage
      BY <2>4 DEF Bucket!vars
    <3>2. Bucket!Groups' = Bucket!Groups
      BY <3>1 DEF Bucket!Groups, Bucket!m
    <3>3. Working'
      BY <3>1, <3>2 DEF TailInv, Working
    <3>4. Kind' /\ Returned'
      BY <3>1 DEF TailInv, Kind, Returned
    <3>5. Numbered'
      BY <3>1 DEF TailInv, Numbered, All, Ciphers
    <3> QED BY <3>3, <3>4, <3>5 DEF TailInv
  <2> QED BY <2>1, <2>2, <2>3, <2>4 DEF Bucket!Next
<1> QED BY <1>1, <1>2, PTL DEF Bucket!Spec

(* What was encrypted comes back, block by block, whatever the number of   *)
(* blocks: the padding of the last group never looks like one more         *)
(* (LLORAM.h:2314).                                                        *)
THEOREM TailsComeBack == Bucket!Spec => []TailsSurvive
<1> SUFFICES ASSUME TailSizes PROVE Bucket!Spec => []TailsSurvive
  BY SizesHold
<1>1. TailInv => TailsSurvive
  <2> SUFFICES ASSUME TailInv, NEW k \in DOMAIN etails
               PROVE  Bucket!ToTail(etails[k].cipher) = etails[k].tail
    BY DEF TailsSurvive, Bucket!TailsSurvive
  <2>1. etails \in Seq(Kept)
    BY DEF TailInv, Kind
  <2>2. k \in 1..Len(etails) /\ etails[k] \in Kept
    BY <2>1
  <2> DEFINE e == etails[k]
  <2>3. PICK n \in Nat : Encrypts(e.cipher, Buffer(e.tail), n) /\ Fills(n, Len(Buffer(e.tail)))
    BY <2>2 DEF TailInv, Returned
  <2> HIDE DEF e
  <2>4. ASSUME e \in Kept PROVE e.tail \in Bucket!Tails
    BY <2>4 DEF Kept
  <2>5. e.tail \in Bucket!Tails
    BY <2>2, <2>4 DEF e
  <2>6. Bucket!ToTail(e.cipher) = e.tail
    BY <2>3, <2>5, ToTailIs
  <2> QED BY <2>6 DEF e
<1> QED BY <1>1, TailSpec, PTL

(* Two equal ciphertext blocks, in one tail or in two, are at least        *)
(* CounterRange groups apart, however many tails are encrypted: the        *)
(* counter of myAES.cpp:38 runs through all its values before it repeats   *)
(* one, also where the int overflows (myAES.cpp:62).                       *)
THEOREM CiphertextsUnique == Bucket!Spec => []CiphertextsDiffer
<1> SUFFICES ASSUME TailSizes PROVE Bucket!Spec => []CiphertextsDiffer
  BY SizesHold
<1>1. TailInv => CiphertextsDiffer
  <2> SUFFICES ASSUME TailInv PROVE CiphertextsDiffer
    OBVIOUS
  <2> DEFINE all == All
  <2>1. etails \in Seq(Kept) /\ output \in Seq(Encrypted) /\ counter \in Nat
    BY DEF TailInv, Kind
  <2>2. Ciphers \in Seq(Seq(Encrypted))
    BY <2>1, CiphersAre DEF Ciphers
  <2>3. Bucket!FlattenSeq(Ciphers) \in Seq(Encrypted)
    <3>1. <<>> \in Seq(Encrypted)
      OBVIOUS
    <3> QED BY <2>2, <3>1, FlattenAppend
  <2>4. all \in Seq(Encrypted)
    BY <2>1, <2>3, JoinedIs DEF All
  <2>5. \A k \in 1..Len(all) : all[k].counter = (k - 1) % CounterRange
    BY DEF TailInv, Numbered
  <2>6. CiphertextsDiffer <=>
          \A a, b \in DOMAIN all : all[a] = all[b] /\ a < b => b - a >= CounterRange
    BY DEF CiphertextsDiffer, Bucket!CiphertextsDiffer, All, Ciphers, Joined
  <2> HIDE DEF all
  <2>7. DOMAIN all = 1..Len(all)
    BY <2>4
  <2>8. ASSUME NEW a \in 1..Len(all), NEW b \in 1..Len(all), all[a] = all[b], a < b
        PROVE  b - a >= CounterRange
    <3>1. (a - 1) % CounterRange = (b - 1) % CounterRange
      BY <2>5, <2>8
    <3>2. a - 1 \in Nat /\ b - 1 \in Nat /\ a - 1 < b - 1
      BY <2>8
    <3>3. CounterRange \in Nat \ {0}
      BY DEF TailSizes
    <3>4. (b - 1) - (a - 1) >= CounterRange
      <4> DEFINE x == a - 1
                 y == b - 1
      <4>1. x % CounterRange = y % CounterRange /\ x \in Nat /\ y \in Nat /\ x < y
        BY <3>1, <3>2
      <4> HIDE DEF x, y
      <4>2. y - x >= CounterRange
        BY <3>3, <4>1, RoundApart
      <4> QED BY <4>2 DEF x, y
    <3> QED BY <3>2, <3>3, <3>4
  <2> QED BY <2>6, <2>7, <2>8
<1> QED BY <1>1, TailSpec, PTL

(* Twice the bytes of the smallest tail hold its groups and their counters. *)
SmallestFits ==
  (GroupSize - 1) * (GroupSize + CounterSize)
    <= (MaskSize + Z_block * RawBlock) * (GroupSize - CounterSize)

LEMMA FitsIn ==
  ASSUME NEW g \in Nat \ {0}, NEW c \in Nat \ {0}, NEW least \in Nat, NEW L \in Nat,
         NEW n \in Nat, least <= L, n * g <= L + g - 1, c <= g,
         (g - 1) * (g + c) <= least * (g - c)
  PROVE  n * (g + c) <= 2 * L
<1> DEFINE d == L - least
<1>1. d \in Nat /\ g - c \in Nat /\ g - 1 \in Nat /\ g + c \in Nat \ {0} /\ L = least + d
  OBVIOUS
<1>2. least * (g - c) <= L * (g - c)
  BY <1>1, TimesMono
<1> DEFINE lgc == L * (g - c)
           s == g + c
           ls == L * s
           gs == (g - 1) * s
<1>3. gs <= lgc /\ lgc \in Nat /\ ls \in Nat /\ gs \in Nat
  <2> DEFINE x == least * (g - c)
  <2>1. gs <= x /\ x <= lgc /\ x \in Nat
    BY <1>1, <1>2
  <2>2. lgc \in Nat /\ ls \in Nat /\ gs \in Nat
    BY <1>1
  <2> HIDE DEF x, gs, lgc, ls
  <2> QED BY <2>1, <2>2
<1>4. n * g \in Nat /\ L + g - 1 \in Nat /\ L + g - 1 = L + (g - 1)
  BY <1>1
<1>5. (n * g) * s <= (L + (g - 1)) * s
  BY <1>1, <1>4, TimesMono
<1>6. (L + (g - 1)) * s = ls + gs
  <2> DEFINE less == g - 1
  <2> HIDE DEF less, s
  <2>1. less \in Nat /\ s \in Nat
    BY <1>1 DEF less, s
  <2>2. (L + less) * s = L * s + less * s
    BY <2>1
  <2> QED BY <2>2 DEF less
<1>7. ls + lgc = (2 * L) * g
  <2>1. L * (g + c) = L * g + L * c /\ L * (g - c) = L * g - L * c
    OBVIOUS
  <2>2. L * g \in Nat /\ L * c \in Nat /\ (2 * L) * g = 2 * (L * g)
    OBVIOUS
  <2> DEFINE lg == L * g
             lc == L * c
  <2>3. ls = lg + lc /\ lgc = lg - lc /\ lg \in Nat /\ lc \in Nat /\ (2 * L) * g = 2 * lg
    BY <2>1, <2>2
  <2> HIDE DEF lg, lc, ls, lgc
  <2> QED BY <2>3
<1> DEFINE ns == n * s
<1>8. (n * g) * s = ns * g /\ ns \in Nat
  <2> HIDE DEF s
  <2>1. s \in Nat
    BY <1>1 DEF s
  <2> QED BY <2>1
<1>9. ns * g <= (2 * L) * g
  <2> DEFINE a == ns * g
             b == (2 * L) * g
             e == (L + (g - 1)) * s
  <2>1. a <= e /\ e = ls + gs /\ ls + lgc = b
    BY <1>5, <1>6, <1>7, <1>8
  <2>2. a \in Nat /\ b \in Nat
    BY <1>8
  <2> HIDE DEF a, b, e, ls, gs, lgc
  <2> QED BY <1>3, <2>1, <2>2
<1>10. ~ (2 * L + 1 <= ns)
  <2> SUFFICES ASSUME 2 * L + 1 <= ns PROVE FALSE
    OBVIOUS
  <2>1. (2 * L + 1) * g <= ns * g
    BY <1>8, TimesMono
  <2>2. (2 * L + 1) * g = (2 * L) * g + g
    BY TimesStep
  <2> DEFINE a == ns * g
             b == (2 * L) * g
  <2>3. a <= b /\ b + g <= a /\ a \in Nat /\ b \in Nat
    BY <1>8, <1>9, <2>1, <2>2
  <2> HIDE DEF a, b
  <2> QED BY <2>3
<1>11. ns <= 2 * L
  <2> HIDE DEF ns
  <2> QED BY <1>8, <1>10
<1> QED BY <1>11

(* The ciphertext of a tail fits where ToETail puts it, twice the bytes of *)
(* the tail, if that of the smallest tail does.                            *)
THEOREM CiphertextFits ==
  ASSUME SmallestFits
  PROVE  Bucket!Spec => []OutputFits
<1> SUFFICES ASSUME TailSizes PROVE Bucket!Spec => []OutputFits
  BY SizesHold
<1>1. TailInv => OutputFits
  <2> SUFFICES ASSUME TailInv PROVE OutputFits
    OBVIOUS
  <2>1. /\ GroupSize \in Nat \ {0} /\ CounterSize \in Nat \ {0} /\ MaskSize \in Nat \ {0}
        /\ RawBlock \in Nat \ {0} /\ Z_block \in Nat \ {0}
    BY DEF TailSizes
  <2>2. at \in Nat
    BY DEF TailInv, Kind
  <2>3. CASE stage = "encrypt"
    <3> DEFINE L == Len(Buffer(plain))
               n == Bucket!Groups
               bl == Len(plain.blocks)
               least == MaskSize + Z_block * RawBlock
               s == GroupSize + CounterSize
    <3>1. plain \in Bucket!Tails /\ at <= n /\ Encrypts(output, Buffer(plain), at)
      BY <2>3 DEF TailInv, Working
    <3>2. n \in Nat /\ Fills(n, L)
      BY <3>1, GroupsFill
    <3>3. L \in Nat /\ L = MaskSize + bl * RawBlock /\ bl \in Nat /\ bl >= Z_block
      BY <3>1, BufferIs
    <3>4. Len(output) = at
      BY <3>1 DEF Encrypts
    <3>5. OutputFits <=> at * s <= 2 * L
      BY <3>4 DEF OutputFits, Bucket!OutputFits, Bucket!AESBlockSize, Bucket!m, Buffer
    <3> HIDE DEF L, n, bl
    <3>6. Z_block * RawBlock <= bl * RawBlock
      BY <2>1, <3>3, TimesMono
    <3>7. least \in Nat /\ least <= L
      <4> DEFINE x == Z_block * RawBlock
                 y == bl * RawBlock
      <4>1. x <= y /\ x \in Nat /\ y \in Nat /\ L = MaskSize + y /\ least = MaskSize + x
        BY <2>1, <3>3, <3>6
      <4> HIDE DEF x, y, least
      <4> QED BY <2>1, <4>1
    <3>8. n * GroupSize <= L + GroupSize - 1
      BY <3>2 DEF Fills
    <3>9. CounterSize <= GroupSize
      <4> SUFFICES ASSUME ~ (CounterSize <= GroupSize) PROVE FALSE
        OBVIOUS
      <4> DEFINE x == CounterSize - GroupSize
                 a == (GroupSize - 1) * s
      <4>1. x \in Nat \ {0} /\ GroupSize - CounterSize = -x
        BY <2>1
      <4>2. a \in Nat
        BY <2>1
      <4>3. least * (GroupSize - CounterSize) = - (least * x) /\ least * x \in Nat
        <5> HIDE DEF least
        <5> QED BY <2>1, <3>7
      <4>4. least \in Nat \ {0}
        <5> DEFINE y == Z_block * RawBlock
        <5>1. y \in Nat /\ least = MaskSize + y
          BY <2>1
        <5> HIDE DEF y, least
        <5> QED BY <2>1, <5>1
      <4>5. least * x >= 1
        <5> HIDE DEF least, x
        <5>1. 1 * x <= least * x
          BY <4>1, <4>4, TimesMono
        <5> QED BY <4>1, <4>4, <5>1
      <4>6. a <= least * (GroupSize - CounterSize)
        BY DEF SmallestFits
      <4> DEFINE z == least * x
                 b == least * (GroupSize - CounterSize)
      <4>7. a <= b /\ b = -z /\ z \in Nat /\ z >= 1
        BY <4>3, <4>5, <4>6
      <4> HIDE DEF a, b, z
      <4> QED BY <4>2, <4>7
    <3>10. (GroupSize - 1) * s <= least * (GroupSize - CounterSize)
      BY DEF SmallestFits
    <3> HIDE DEF least
    <3>11. n * s <= 2 * L
      BY <2>1, <3>2, <3>3, <3>7, <3>8, <3>9, <3>10, FitsIn
    <3>12. s \in Nat
      BY <2>1
    <3> HIDE DEF s
    <3>13. at * s <= n * s
      BY <2>2, <3>1, <3>2, <3>12, TimesMono
    <3> DEFINE a == at * s
               b == n * s
    <3>14. a <= b /\ b <= 2 * L /\ a \in Nat /\ b \in Nat
      BY <2>2, <3>2, <3>11, <3>12, <3>13
    <3> HIDE DEF a, b
    <3>15. a <= 2 * L
      BY <3>3, <3>14
    <3> QED BY <3>5, <3>15 DEF a
  <2>4. CASE stage # "encrypt"
    <3>1. plain = Bucket!NoTail /\ output = <<>>
      BY <2>4 DEF TailInv, Working
    <3>2. Bucket!m = Joined(<<>>, <<>>)
      BY <3>1, FlattenEmpty DEF Bucket!m, Bucket!NoTail, Joined
    <3>3. Len(Bucket!m) = 0 /\ Len(output) = 0
      BY <3>1, <3>2 DEF Joined
    <3>4. Bucket!AESBlockSize \in Nat
      BY <2>1 DEF Bucket!AESBlockSize
    <3> QED BY <3>3, <3>4 DEF OutputFits, Bucket!OutputFits
  <2> QED BY <2>3, <2>4
<1> QED BY <1>1, TailSpec, PTL
=============================================================================
