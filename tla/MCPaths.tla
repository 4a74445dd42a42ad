------------------------------ MODULE MCPaths ------------------------------
(***************************************************************************)
(* CPath64 and the two parts of common.cpp that are modelled, for TLC and  *)
(* for proofs about them.  A caller maps a node to a leaf; after the one   *)
(* node of the lowest tree it uses the functions of common.cpp on vectors  *)
(* of int paths and then draws a random array.                             *)
(***************************************************************************)
EXTENDS CPath64

CONSTANTS
  W, MaxPaths,               \* of IntPath
  count, max, except, Junk   \* of RandomArrays

VARIABLES
  paths,                                        \* of IntPath
  nums, turn, other, candidate, given, phase    \* of RandomArrays

Ints == INSTANCE IntPath
Arrays == INSTANCE RandomArrays
            WITH i <- turn, r <- other, c <- candidate, v <- given, pc <- phase

arrays == <<nums, turn, other, candidate, given, phase>>

ASSUME WordAssumption == W \in Nat \ {0} /\ MaxPaths \in Nat
ASSUME ArraysAssumption == Arrays!RandomAssumption

PathsSurvive == Ints!PathsSurvive
OverlapIsLongest == Ints!OverlapIsLongest
CommonBeginning == Ints!CommonBeginning
Ends == height = 1 => Arrays!Ends

PathsInit == Init /\ Ints!Init /\ Arrays!Init

Walk == Next /\ UNCHANGED <<paths, arrays>>

Collect ==
  /\ height = 1 /\ pc = "done" /\ phase = "fill"
  /\ Ints!Call /\ UNCHANGED <<vars, arrays>>

Draw ==
  /\ height = 1 /\ pc = "done"
  /\ Arrays!Next /\ paths' = <<>> /\ UNCHANGED vars

(* The loops of MapToRandomLeaf and of RandomArrayWithExclusion run once   *)
(* they are called.                                                        *)
PathsSpec ==
  /\ PathsInit
  /\ [][Walk \/ Collect \/ Draw]_<<vars, paths, arrays>>
  /\ WF_vars(Walk) /\ WF_arrays(Draw)
=============================================================================
