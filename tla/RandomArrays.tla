---------------------------- MODULE RandomArrays ----------------------------
(***************************************************************************)
(* RandomArrayWithExclusion of common.cpp: one number from each of count   *)
(* parts of 0..max-1, in a shuffled order; a number that is taken is       *)
(* replaced by the next one that is not.                                   *)
(*                                                                         *)
(* rand32() is any int, so that its remainders may be negative: a number   *)
(* may lie in the part before its own, and the shuffle may reach back to   *)
(* numbers already given out or before the array.  What is read there is   *)
(* any value of Junk; what is written there is not modelled.               *)
(***************************************************************************)
EXTENDS Integers, Sequences, SequencesExt

CONSTANTS
  count, max,
  except,           \* the numbers excluded
  Junk

(* What callers have to give: at least one number for each place.          *)
RandomAssumption ==
  /\ count \in Nat \ {0} /\ max \in Nat /\ count <= max
  /\ except \subseteq Int /\ Junk \subseteq Int

VARIABLES nums, i, r, c, v, pc
vars == <<nums, i, r, c, v, pc>>

(* x % n as C computes it.                                                 *)
CMod(x, n) == IF x >= 0 THEN x % n ELSE -((-x) % n)
(* The values of rand32() % n.                                             *)
Rand(n) == (1 - n)..(n - 1)

buf == except \cup Range(v)
Taken == c \in buf

Init ==
  /\ nums = <<>> /\ i = 0 /\ r = 0 /\ c = 0 /\ v = <<>> /\ pc = "fill"

Fill ==
  /\ pc = "fill"
  /\ \E e \in [0..(count - 1) -> Rand(max \div count)] :
       nums' = [k \in 0..(count - 1) |-> k * (max \div count) + e[k]]
  /\ pc' = "pick"
  /\ UNCHANGED <<i, r, c, v>>

Pick ==
  /\ pc = "pick" /\ i < count
  /\ \E d \in Rand(count - i) : r' = i + d
  /\ c' \in IF r' \in DOMAIN nums THEN {nums[r']} ELSE Junk
  /\ pc' = "look"
  /\ UNCHANGED <<nums, i, v>>

(* Slip: the search moves on by the number of parts.                       *)
Following_Parts == CMod(c + count, max)
Following == CMod(c + 1, max)

Skip ==
  /\ pc = "look" /\ Taken
  /\ c' = Following
  /\ UNCHANGED <<nums, i, r, v, pc>>

Push ==
  /\ pc = "look" /\ ~Taken
  /\ v' = Append(v, c)
  /\ nums' = [k \in DOMAIN nums |-> IF k = i THEN c
                                    ELSE IF k = r THEN nums[i] ELSE nums[k]]
  /\ i' = i + 1
  /\ pc' = "pick"
  /\ UNCHANGED <<r, c>>

Next == Fill \/ Pick \/ Skip \/ Push

Spec == Init /\ [][Next]_vars /\ WF_vars(Next)
-----------------------------------------------------------------------------
(* It gives count numbers: the search for a free one ends as long as max   *)
(* numbers are enough for those excluded and those given out.              *)
Ends == <>(Len(v) = count)
=============================================================================
