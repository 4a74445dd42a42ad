------------------------------- MODULE Blake2 -------------------------------
(***************************************************************************)
(* BLAKE2_Base of Crypto++, the hash object behind H1 and H28 of LLORAM.h: *)
(* Update, TruncatedFinal, Restart, SetTreeMode, with or without a key.    *)
(* Bytes gather in a buffer; a full buffer is compressed only when more    *)
(* bytes follow, because the last block is compressed with the final flag  *)
(* set; long inputs are compressed where they are.  Update runs one block  *)
(* per step.                                                               *)
(*                                                                         *)
(* The compression function is ideal: h is the sequence of the blocks,     *)
(* byte counters and flags it was given.  The parameter block is constant. *)
(***************************************************************************)
EXTENDS Integers, Sequences, FiniteSetsExt

CONSTANTS
  BlockSize,     \* BLOCKSIZE (128)
  WordRange,     \* number of values of a counter word (2^64)
  Byte,          \* 0 is the byte that pads
  Keys,          \* the keys of constructors; <<>> is none
  DigestSize,    \* m_digestSize
  Sizes,         \* the sizes callers of TruncatedFinal ask for
  MaxMessage     \* bound on the bytes given between two restarts

ASSUME Blake2Assumption ==
  /\ BlockSize \in Nat \ {0}
  /\ WordRange \in Nat /\ BlockSize < WordRange
  /\ 0 \in Byte
  /\ Keys \subseteq UNION {[1..n -> Byte] : n \in 0..BlockSize}
  /\ DigestSize \in Nat /\ Sizes \subseteq Nat /\ MaxMessage \in Nat

VARIABLES
  m_key,           \* a block, or empty
  treeMode,        \* m_treeMode
  h, t,            \* state: compressions so far, counter
  buffer, length,  \* state: the bytes that wait
  input,           \* what is left of the argument of Update
  pc,
  hash             \* the caller's buffer

state == <<h, t, buffer, length>>
vars == <<m_key, treeMode, state, input, pc, hash>>
-----------------------------------------------------------------------------
Padded(m) == [k \in 1..BlockSize |-> IF k <= Len(m) THEN m[k] ELSE 0]

UncheckedSetKey(key) == IF key = <<>> THEN <<>> ELSE Padded(key)

IncrementCounter(count) ==
  LET t0 == (t[1] + count) % WordRange
  IN <<t0, (t[2] + IF t0 < count THEN 1 ELSE 0) % WordRange>>

Compress(block, count, f) ==
  /\ t' = IncrementCounter(count)
  /\ h' = Append(h, [block |-> block, t |-> t', f |-> f])

(* Restart; a key is the first block of every message.                     *)
Restarted(buf) ==
  /\ t' = <<0, 0>> /\ h' = <<>>
  /\ length' = Len(m_key)
  /\ buffer' = IF m_key = <<>> THEN buf ELSE m_key

(* The buffer is not set by the constructor.                               *)
Init ==
  /\ \E key \in Keys : m_key = UncheckedSetKey(key)
  /\ treeMode \in BOOLEAN
  /\ t = <<0, 0>> /\ h = <<>> /\ length = Len(m_key)
  /\ IF m_key = <<>> THEN buffer \in [1..BlockSize -> Byte] ELSE buffer = m_key
  /\ input = <<>> /\ pc = "idle" /\ hash = <<>>
-----------------------------------------------------------------------------
(* Update: complete the block in the buffer, compress blocks of the input, *)
(* keep the rest.                                                          *)

Update(m) ==
  /\ pc = "idle"
  /\ pc' = "update" /\ input' = m
  /\ UNCHANGED <<m_key, treeMode, state, hash>>

(* Slip: a full buffer is compressed at once.                              *)
TooLong_Equal == length + Len(input) >= BlockSize
TooLong == length + Len(input) > BlockSize

CompleteBlock ==
  /\ pc = "update" /\ TooLong
  /\ LET fill == BlockSize - length
     IN /\ buffer' = [k \in 1..BlockSize |->
                        IF k <= length THEN buffer[k] ELSE input[k - length]]
        /\ input' = SubSeq(input, fill + 1, Len(input))
  /\ Compress(buffer', BlockSize, <<FALSE, FALSE>>)
  /\ length' = 0
  /\ pc' = "blocks"
  /\ UNCHANGED <<m_key, treeMode, hash>>

CompressInput ==
  /\ pc = "blocks" /\ Len(input) > BlockSize
  /\ Compress(SubSeq(input, 1, BlockSize), BlockSize, <<FALSE, FALSE>>)
  /\ input' = SubSeq(input, BlockSize + 1, Len(input))
  /\ UNCHANGED <<m_key, treeMode, buffer, length, pc, hash>>

CopyTail ==
  /\ \/ pc = "update" /\ ~TooLong
     \/ pc = "blocks" /\ Len(input) <= BlockSize
  /\ buffer' = [k \in 1..BlockSize |->
                  IF length < k /\ k <= length + Len(input)
                    THEN input[k - length] ELSE buffer[k]]
  /\ length' = length + Len(input)
  /\ input' = <<>>
  /\ pc' = "idle"
  /\ UNCHANGED <<m_key, treeMode, h, t, hash>>

(* TruncatedFinal: the rest of the buffer is zeroed and compressed as the  *)
(* last block.  Final asks for DigestSize, CalculateDigest calls Update    *)
(* and Final.                                                              *)
(* Slip: the rest of the buffer is not zeroed.                             *)
LastBlock_Stale == buffer
LastBlock == Padded(SubSeq(buffer, 1, length))

TruncatedFinal(size) ==
  /\ pc = "idle" /\ size <= DigestSize
  /\ hash' = [size |-> size,
              value |-> Append(h, [block |-> LastBlock,
                                   t |-> IncrementCounter(length),
                                   f |-> <<TRUE, treeMode>>])]
  /\ Restarted(LastBlock)
  /\ UNCHANGED <<m_key, treeMode, input, pc>>

(* ThrowIfInvalidTruncatedSize comes first: the bytes given stay, which is *)
(* not what cryptlib.h says (MCRestart.tla).                               *)
Refused(size) == pc = "idle" /\ size > DigestSize /\ UNCHANGED vars

Restart ==
  pc = "idle" /\ Restarted(buffer) /\ UNCHANGED <<m_key, treeMode, input, pc, hash>>

SetTreeMode(mode) ==
  /\ pc = "idle" /\ treeMode' = mode
  /\ UNCHANGED <<m_key, state, input, pc, hash>>
-----------------------------------------------------------------------------
(* The bytes that were compressed or wait in the buffer.                   *)
Absorbed ==
  LET done == Len(h) * BlockSize
  IN [n \in 1..(done + length) |->
        IF n <= done THEN h[(n - 1) \div BlockSize + 1].block[((n - 1) % BlockSize) + 1]
                     ELSE buffer[n - done]]

Inputs == UNION {[1..n -> Byte] : n \in 0..(MaxMessage - Len(Absorbed))}

Step == CompleteBlock \/ CompressInput \/ CopyTail

Next ==
  \/ \E m \in Inputs : Update(m)
  \/ Step
  \/ \E size \in Sizes : TruncatedFinal(size) \/ Refused(size)
  \/ Restart
  \/ \E mode \in BOOLEAN : SetTreeMode(mode)

(* Update runs to its end.                                                 *)
Spec == Init /\ [][Next]_vars /\ WF_vars(Step)
-----------------------------------------------------------------------------
(* BLAKE2 of a whole message: its blocks in order, the last one padded     *)
(* (one block of zeros if there is none), each with the number of bytes up *)
(* to its end, the last one flagged.                                       *)
DigestOf(m, mode) ==
  LET blocks == Max({1, (Len(m) + BlockSize - 1) \div BlockSize})
      upTo(k) == IF k < blocks THEN k * BlockSize ELSE Len(m)
  IN [k \in 1..blocks |->
        [block |-> Padded(SubSeq(m, (k - 1) * BlockSize + 1, upTo(k))),
         t |-> <<upTo(k) % WordRange, (upTo(k) \div WordRange) % WordRange>>,
         f |-> <<k = blocks, k = blocks /\ mode>>]]

Hash == INSTANCE HashFunction WITH
  prefix <- m_key,
  msg <- Absorbed \o input,
  busy <- pc # "idle",
  Digest <- DigestOf

(* The object is a hash function, whatever the cuts of the message, what   *)
(* an earlier message left in the buffer, and the counter's carry; an      *)
(* Update returns.                                                         *)
IsHashFunction == Hash!Spec

(* The last block is never compressed by Update, which could not flag it;  *)
(* the counter is the number of bytes compressed.                          *)
LastBlockWaits ==
  /\ h # <<>> /\ pc # "blocks" => length > 0
  /\ t = <<(Len(h) * BlockSize) % WordRange,
           ((Len(h) * BlockSize) \div WordRange) % WordRange>>
=============================================================================
