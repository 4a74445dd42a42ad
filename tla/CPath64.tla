------------------------------ MODULE CPath64 ------------------------------
(***************************************************************************)
(* CPath64: the nodes of a tree numbered level by level (root 0, children  *)
(* 2i + 1 and 2i + 2), the same nodes as paths of bits, leaves numbered    *)
(* from the left, and the walk of MapToRandomLeaf from a node to a leaf,   *)
(* one iteration of its loop per step.                                     *)
(*                                                                         *)
(* LLORAM.tla takes nodes and leaves as paths; this module checks that the *)
(* numbers the code stores stand for those paths.                          *)
(***************************************************************************)
EXTENDS Integers, Sequences, SequencesExt

CONSTANTS
  Width,     \* bits of an unsigned long long (64)
  Mantissa   \* bits of the significand of a double (53)

ASSUME WidthAssumption == Width \in Nat \ {0} /\ Mantissa \in Nat \ {0}

VARIABLES
  value,     \* CPath64::value
  height,    \* the argument of MapToRandomLeaf
  newValue,  \* its loop variable
  leaf,      \* its result
  pc

vars == <<value, height, newValue, leaf, pc>>

Wrap(n) == n % 2^Width
Numbers == 0..(2^Width - 1)
-----------------------------------------------------------------------------
(* Numbers.  (value - 1) / 2 is unsigned arithmetic.                       *)

LeftChild(n) == Wrap(2 * n + 1)
RightChild(n) == Wrap(2 * n + 2)
Father(n) == Wrap(n - 1) \div 2
(* Slip: children taken as 2i and 2i + 1. *)
Sibiling_Even(n) == IF n % 2 = 0 THEN n + 1 ELSE n - 1
Sibiling(n) ==
  IF n % 2 = 1 THEN Wrap(2 * Father(n) + 2) ELSE Wrap(2 * Father(n) + 1)

(* The loop of NumberToPath ends at the root.                              *)
NumberToPath(n) ==
  LET path[k \in Numbers] ==
        IF k = 0 THEN <<>> ELSE Append(path[Father(k)], (k + 1) % 2)
  IN path[n]

PathToNumber(path) ==
  LET number[k \in 0..Len(path)] ==
        IF k = 0 THEN 0
        ELSE IF path[k] = 0 THEN LeftChild(number[k - 1])
        ELSE RightChild(number[k - 1])
  IN number[Len(path)]

NotSupported == <<-1>>
AtLevelPath(n, level) ==
  IF level < 1 \/ level > Len(NumberToPath(n)) + 1 THEN NotSupported
  ELSE SubSeq(NumberToPath(n), 1, level - 1)
-----------------------------------------------------------------------------
(* Leaves.                                                                 *)

(* LLORAM::P: bits height - 2 .. height - level of x, for level <= height. *)
P(x, level, h) == [k \in 1..(level - 1) |-> (x \div 2^(h - 1 - k)) % 2]

(* Slip: the leaf's last bit is lost. *)
LoadLeaf_Short(h, x) == PathToNumber(P(x, IF h = 1 THEN 1 ELSE h - 1, h))
LoadLeaf(h, x) == PathToNumber(P(x, h, h))

(* The path read as a binary number.                                       *)
Binary(path) ==
  LET binary[k \in 0..Len(path)] ==
        IF k = 0 THEN 0 ELSE 2 * binary[k - 1] + path[k]
  IN binary[Len(path)]
GetLeaf(n) == Binary(NumberToPath(n))

(* pow(2, k) - 1 is a double: with more than Mantissa bits, the odd value  *)
(* is rounded to 2^k.                                                      *)
PowMinus1(k) == IF k <= Mantissa THEN 2^k - 1 ELSE 2^k
(* Slip: the first node below the leaves. *)
StartLeafNode_Next == PowMinus1(height)
StartLeafNode == PowMinus1(height - 1)

(* initClient: the highest address an LLORAM of that many trees accepts.   *)
(* Slip: the number of the last node.                                      *)
Capacity_Nodes == PowMinus1(height + 1) - 1
Capacity == PowMinus1(height)
-----------------------------------------------------------------------------
(* MapToRandomLeaf(height) on a node that the tree of that height has.     *)

Init ==
  /\ value \in 0..(2^Width - 2)
  /\ height \in (Len(NumberToPath(value)) + 1)..Width
  /\ newValue = value
  /\ leaf = 0
  /\ pc = "walk"

Child(n, bit) == Wrap(2 * n + bit + 1)

Down ==
  /\ pc = "walk" /\ newValue < StartLeafNode
  /\ \E bit \in {0, 1} : newValue' = Child(newValue, bit)
  /\ UNCHANGED <<value, height, leaf, pc>>

(* Slip: the leaves start one node later. *)
AtLeaf_OffByOne ==
  /\ pc = "walk" /\ newValue >= StartLeafNode
  /\ leaf' = Wrap(newValue - StartLeafNode - 1)
  /\ pc' = "done"
  /\ UNCHANGED <<value, height, newValue>>

AtLeaf ==
  /\ pc = "walk" /\ newValue >= StartLeafNode
  /\ leaf' = Wrap(newValue - StartLeafNode)
  /\ pc' = "done"
  /\ UNCHANGED <<value, height, newValue>>

Next == Down \/ AtLeaf

Spec == Init /\ [][Next]_vars /\ WF_vars(Next)
-----------------------------------------------------------------------------
(* A node's number and path determine each other, and sibling, father and  *)
(* children by number are those by path (CPath64.h:21, 25).  Stashs and    *)
(* pointers keep numbers, buckets are found by path.                       *)
NumbersArePaths ==
  LET path == NumberToPath(value)
  IN /\ PathToNumber(path) = value
     /\ value # 0 =>
          /\ NumberToPath(Father(value)) = Front(path)
          /\ NumberToPath(Sibiling(value)) =
               Append(Front(path), 1 - Last(path))
     /\ Len(path) < Width - 1 =>
          /\ NumberToPath(LeftChild(value)) = Append(path, 0)
          /\ NumberToPath(RightChild(value)) = Append(path, 1)

(* BuildShuffleToken keeps a block in the bucket of level l of the path to *)
(* x if P(x, l, h) = AtLevelPath(l) of its node: exactly when the bucket   *)
(* is an ancestor of the node, also for a node above that level.  And a    *)
(* leaf that goes through LoadLeaf and GetLeaf comes back.                 *)
EvictionComparesPaths ==
  \A x \in 0..(2^(height - 1) - 1) :
    /\ GetLeaf(LoadLeaf(height, x)) = x
    /\ \A level \in 1..height :
         (P(x, level, height) = AtLevelPath(value, level))
           <=> IsPrefix(P(x, level, height), NumberToPath(value))

(* "map to a random leaf, along the path downward" (CPath64.cpp:82): the   *)
(* result is a leaf of the tree, below the node.  The search relies on it  *)
(* to meet the block wherever on the node's path it lies.                  *)
LeafBelowNode ==
  pc = "done" =>
    /\ leaf < 2^(height - 1)
    /\ IsPrefix(NumberToPath(value), P(leaf, height, height))

(* An address is halved once per tree: the last number used, that of the   *)
(* block of tree 1, is 0 for every address accepted, because tree 1 has    *)
(* one block only; and the highest address uses the last block of tree L.  *)
AddressesFit ==
  LET block(a, tree) == a \div 2^(height - tree + 1)
  IN /\ \A a \in 0..Capacity : block(a, 1) = 0
     /\ block(Capacity, height) = 2^(height - 1) - 1

(* The walk reaches the leaves whatever bits rand64() gives.               *)
WalkEnds == <>(pc = "done")
=============================================================================
