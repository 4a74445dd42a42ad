------------------------------ MODULE MCCrypto ------------------------------
(***************************************************************************)
(* The hash object and the encryption of bucket tails, for TLC and for     *)
(* proofs about them.  They share nothing: a caller uses the one or the    *)
(* other.                                                                  *)
(***************************************************************************)
EXTENDS Blake2

CONSTANTS
  GroupSize, CounterSize, CounterRange, MaskSize, RawBlock, Z_block,
  MaxBlocks, MaxTails                        \* of BucketTail
VARIABLES
  counter, plain, at, output, etails, stage  \* of BucketTail

Bucket == INSTANCE BucketTail WITH t <- plain, i <- at, pc <- stage

tails == <<counter, plain, at, output, etails, stage>>

ASSUME TailsAssumption == Bucket!TailAssumption

TailsSurvive == Bucket!TailsSurvive
CiphertextsDiffer == Bucket!CiphertextsDiffer
OutputFits == Bucket!OutputFits

NoKeyOrOne == {<<>>, <<1>>}

(* The hash object gave no digest and holds no byte; no tail was encrypted. *)
HashRests ==
  /\ pc = "idle" /\ hash = <<>> /\ Absorbed = <<>>
  /\ buffer = Padded(<<>>) /\ treeMode = FALSE
TailsRest == Bucket!Init

UseHash == TailsRest /\ Next /\ UNCHANGED tails
UseTails == HashRests /\ Bucket!Next /\ UNCHANGED vars

CryptoInit == Init /\ Bucket!Init

CryptoSpec ==
  /\ CryptoInit
  /\ [][UseHash \/ UseTails]_<<vars, tails>>
  /\ WF_vars(TailsRest /\ Step)
=============================================================================
