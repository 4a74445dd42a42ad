---------------------------- MODULE MCOHashTable ----------------------------
(* Instances of OHashTable for TLC: ints of 16 values, words of 64. *)
EXTENDS OHashTable

CONSTANTS k1, k2

(* In 3 cells, k1 visits cells 0 and 1, k2 cells 2 and 0.  In 7 cells,     *)
(* where the cubes from 8 on overflow, both visit 0, 1 and 4, and what k2  *)
(* has in cell 2 is no longer found.                                       *)
Overlapping == [k \in {k1, k2} |-> IF k = k1 THEN 21 ELSE 14]
=============================================================================
