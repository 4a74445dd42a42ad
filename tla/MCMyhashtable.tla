--------------------------- MODULE MCMyhashtable ---------------------------
(* Instances of Myhashtable for TLC. *)
EXTENDS Myhashtable

CONSTANTS k1, k2

(* In 3 slots and 2 probes, both keys start at slot 0 and only k1 has a    *)
(* second one, so that it goes round k2 and k2 finds no room after k1.     *)
(* They share the only bucket of a table of one, and not those of two.     *)
Words == [k \in {ZeroKey, k1, k2} |->
            CASE k = ZeroKey -> <<0, 0, 0>>
              [] k = k1 -> <<3, 1, 0>>
              [] k = k2 -> <<6, 2, 1>>]

(* Adding again what a cut-off file lost makes M grow without bound; two   *)
(* keys have two entries otherwise.                                        *)
MBound == M <= 2
=============================================================================
