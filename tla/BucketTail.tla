----------------------------- MODULE BucketTail -----------------------------
(***************************************************************************)
(* The encrypted tail of a bucket: ToETail and ToTail of LLORAM.h (and     *)
(* ToETail_L, ToTail_L, the same for the blocks of tree L), Encrypt and    *)
(* Decrypt of myAES.cpp.  The bytes of the mask and of the blocks are cut  *)
(* into groups; each group is encrypted with the number of groups encrypted*)
(* so far, which wraps, one group per step.  The tail's length is not      *)
(* stored: ToTail finds the number of blocks from the bytes it gets back,  *)
(* the padding of the last group included.                                 *)
(*                                                                         *)
(* AES is ideal: a ciphertext block is the pair of group and counter.      *)
(***************************************************************************)
EXTENDS Integers, Sequences, SequencesExt, FiniteSetsExt

CONSTANTS
  GroupSize, CounterSize,   \* bytes of a group and of the counter (12, 4)
  CounterRange,             \* number of values of the counter, an int (2^32)
  MaskSize, RawBlock,       \* bytes of a Mem20 and of a block (20, 32 or more)
  Z_block,
  MaxBlocks,                \* bound on the blocks of a bucket
  Byte,
  MaxTails                  \* bound on the tails encrypted

(* The padding of a group is less than a block.                            *)
TailAssumption ==
  /\ {GroupSize, CounterSize, CounterRange, MaskSize, RawBlock, Z_block}
       \subseteq Nat \ {0}
  /\ MaxBlocks \in Nat /\ Z_block <= MaxBlocks /\ MaxTails \in Nat
  /\ 0 \in Byte
  /\ GroupSize <= RawBlock

VARIABLES
  counter,   \* the global counter of myAES.cpp
  t,         \* the argument of ToETail
  i,         \* the loop variable of Encrypt
  output,    \* its output
  etails,    \* what ToETail returned so far, each with its argument
  pc

vars == <<counter, t, i, output, etails, pc>>

AESBlockSize == GroupSize + CounterSize

(* The tails: a mask and at least Z_block blocks, dummies included.        *)
Block == [1..RawBlock -> Byte]
Tails == [M : [1..MaskSize -> Byte],
          blocks : UNION {[1..n -> Block] : n \in Z_block..MaxBlocks}]
NoTail == [M |-> <<>>, blocks |-> <<>>]

(* The buffer that is encrypted: the mask, then the blocks.                *)
m == t.M \o FlattenSeq(t.blocks)

Init ==
  /\ counter = 0 /\ t = NoTail /\ i = 0 /\ output = <<>> /\ etails = <<>>
  /\ pc = "idle"

ToETail(tail) ==
  /\ pc = "idle" /\ Len(etails) < MaxTails
  /\ t' = tail /\ i' = 0 /\ output' = <<>> /\ pc' = "encrypt"
  /\ UNCHANGED <<counter, etails>>

(* Slip: one more group even if the last one is full.                      *)
Groups_Extra == Len(m) \div GroupSize + 1
Groups == (Len(m) + GroupSize - 1) \div GroupSize

(* Slip: one counter value for all groups of a tail.                       *)
NextCounter_PerTail ==
  IF i + 1 < Groups THEN counter ELSE (counter + 1) % CounterRange
(* The int overflows from its greatest value to its least: modulo 2^32, as *)
(* its four bytes are encrypted, it is the unsigned number of groups.      *)
NextCounter == (counter + 1) % CounterRange

(* Encrypt, one group; the last one is filled up with zeros.               *)
EncryptGroup ==
  /\ pc = "encrypt" /\ i < Groups
  /\ output' = Append(output,
       [group |-> [k \in 1..GroupSize |->
                     IF i * GroupSize + k <= Len(m) THEN m[i * GroupSize + k]
                                                    ELSE 0],
        counter |-> counter])
  /\ counter' = NextCounter
  /\ i' = i + 1
  /\ UNCHANGED <<t, etails, pc>>

Return ==
  /\ pc = "encrypt" /\ i = Groups
  /\ etails' = Append(etails, [tail |-> t, cipher |-> output])
  /\ t' = NoTail /\ i' = 0 /\ output' = <<>> /\ pc' = "idle"
  /\ UNCHANGED counter

Next == (\E tail \in Tails : ToETail(tail)) \/ EncryptGroup \/ Return

Spec == Init /\ [][Next]_vars
-----------------------------------------------------------------------------
(* Decrypt gives all bytes of all groups.                                  *)
Decrypt(cipher) == FlattenSeq([k \in DOMAIN cipher |-> cipher[k].group])

(* Slip: a block that ends where the bytes end does not count.             *)
OutBlocks_Before(bytes) == (bytes - MaskSize - 1) \div RawBlock
OutBlocks(bytes) == (bytes - MaskSize) \div RawBlock

(* The constructor of Tail gives Z_block dummies, which blocks replace and *)
(* follow.                                                                 *)
Dummy == <<>>
ToTail(cipher) ==
  LET plaintext == Decrypt(cipher)
      outBlock == OutBlocks(Len(plaintext))
      start(n) == MaskSize + (n - 1) * RawBlock
  IN [M |-> SubSeq(plaintext, 1, MaskSize),
      blocks |-> [n \in 1..Max({Z_block, outBlock}) |->
                    IF n <= outBlock
                      THEN SubSeq(plaintext, start(n) + 1, start(n) + RawBlock)
                      ELSE Dummy]]
-----------------------------------------------------------------------------
(* What was encrypted comes back, block by block: the padding never looks  *)
(* like one more block (LLORAM.h:2314), although the number of blocks of a *)
(* root changes with every access.                                         *)
TailsSurvive == \A k \in DOMAIN etails : ToTail(etails[k].cipher) = etails[k].tail

(* Equal groups have different ciphertext blocks, in one tail or in two,   *)
(* so that the server cannot tell them (myAES.cpp:37: RCPA-secure), until  *)
(* the counter has run through all its values: two equal ciphertext blocks *)
(* are at least CounterRange groups apart.                                 *)
CiphertextsDiffer ==
  LET all == FlattenSeq([k \in DOMAIN etails |-> etails[k].cipher]) \o output
  IN \A x, y \in DOMAIN all :
       all[x] = all[y] /\ x < y => y - x >= CounterRange

(* ToETail allocates twice the bytes of the tail for the ciphertext; the   *)
(* counters need more for a small tail.                                    *)
OutputFits == Len(output) * AESBlockSize <= 2 * Len(m)
=============================================================================
