------------------------------ MODULE MCLLORAM ------------------------------
(* Instances of LLORAM for TLC. *)
EXTENDS LLORAM

TwoRounds == {FALSE}
BothProtocols == BOOLEAN

(* Tree 4 has no headers: one of its paths is enough where only masks are  *)
(* at stake.                                                               *)
OnePathInTree4 ==
  \A leaf \in {x, last_x} : Len(leaf) = 3 => leaf = <<0, 0, 0>>

(***************************************************************************)
(* The masks of a node alternate between two values, and nothing but their *)
(* equality matters: exchanging the two values of one node of one tree in  *)
(* the whole state maps behaviours to behaviours.  MaskView identifies the *)
(* states that differ by such exchanges only: a mask counts by whether it  *)
(* is the one the server has at that node.  It is used for safety only.    *)
(***************************************************************************)
Exchanged(i, m) ==
  {[e EXCEPT !.gen = IF e.path \in DOMAIN oram[i]
                        /\ oram[i][e.path].M = MaskOf(e.path, 1)
                       THEN 1 - e.gen ELSE e.gen] :
     e \in {f \in m : "path" \in DOMAIN f}}
  \cup {e \in m : "path" \notin DOMAIN e}

ExchangedTrees(t) ==
  [i \in 1..L |->
     [p \in DOMAIN t[i] |->
        [t[i][p] EXCEPT !.M = Exchanged(i, @), !.mmf = Exchanged(i, @)]]]

MaskView ==
  <<L, ExchangedTrees(oram), ExchangedTrees(pending), ExchangedTrees(sf),
    [i \in 1..L |-> Exchanged(i, roots[i])], stash, pc, call, aa, i_tree, l,
    [i \in DOMAIN tokens |->
       [tokens[i] EXCEPT !.ST = Exchanged(i, @)]],
    x, accessed,
    IF pc = "probe" THEN Exchanged(i_tree, searchKey) ELSE NoMask,
    leaf_accessed, last_x, decodeError>>
=============================================================================
