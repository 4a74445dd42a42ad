------------------------------ MODULE IntPath ------------------------------
(***************************************************************************)
(* The int encoding of tree paths in common.cpp.  A path is written from   *)
(* the top bit down and the rest of the word is filled with the complement *)
(* of the path's last bit, so that the length can be found again; 0 and -1 *)
(* both stand for the empty path.  Words have W bits (32 in the code) and  *)
(* are written unsigned; paths are sequences of bits.                      *)
(*                                                                         *)
(* The state is the vector of paths that the functions on vectors are      *)
(* called with, and callers may put any int into it.                       *)
(***************************************************************************)
EXTENDS Integers, Sequences, SequencesExt, FiniteSetsExt

CONSTANTS W, MaxPaths

VARIABLE paths

Words == 0..(2^W - 1)
Bits == 0..(W - 1)
Bit == {0, 1}

getBit(v, n) == (v \div 2^n) % 2

(* The word with the bits b, written from the top bit down.                *)
WordOf(b) ==
  LET word[k \in 0..W] == IF k = 0 THEN 0 ELSE 2 * word[k - 1] + b[W - k]
  IN word[W]

(* (v ^ w) >> n is not 0.  A shift by W is one by 0 (x86).                 *)
DifferAbove(v, w, n) == v \div 2^(n % W) # w \div 2^(n % W)
-----------------------------------------------------------------------------
GetIntPathLength(v) ==
  LET others == {n \in Bits : getBit(v, n) # getBit(v, 0)}
  IN  IF others = {} THEN 0 ELSE W - Min(others)

IntToPath(v) == [n \in 1..GetIntPathLength(v) |-> getBit(v, W - n)]

PathToInt(path) ==
  IF path = <<>> THEN 0
  ELSE WordOf([n \in Bits |-> IF W - n <= Len(path) THEN path[W - n] ELSE 1 - Last(path)])

(* Slip: the fill is not complemented.                                     *)
PathSubStringInt_Same(v, pathLen) ==
  WordOf([n \in Bits |-> IF n < W - pathLen THEN getBit(v, W - pathLen)
                                            ELSE getBit(v, n)])
PathSubStringInt(v, pathLen) ==
  WordOf([n \in Bits |-> IF n < W - pathLen THEN 1 - getBit(v, W - pathLen)
                                            ELSE getBit(v, n)])

Lens(ps) == [i \in DOMAIN ps |-> GetIntPathLength(ps[i])]
FirstOf(ps, len) == ps[Min({i \in DOMAIN ps : Lens(ps)[i] = len})]

(* Slip: all are compared over the length of the longest.                  *)
GetOverlapPath_Longest(ps) ==
  LET top == Max(Range(Lens(ps)))
  IN  IF \E i \in DOMAIN ps : DifferAbove(ps[i], FirstOf(ps, top), W - top)
      THEN 0 ELSE FirstOf(ps, top)
GetOverlapPath(ps) ==
  LET top == Max(Range(Lens(ps)))
  IN  IF \E i \in DOMAIN ps : DifferAbove(ps[i], FirstOf(ps, top), W - Lens(ps)[i])
      THEN 0 ELSE FirstOf(ps, top)

(* The version on strings: column by column, and the path that gave the    *)
(* last character wins.                                                    *)
GetOverlapPath_old(ps) ==
  LET s == [i \in DOMAIN ps |-> IntToPath(ps[i])]
      column(c) == {s[i][c] : i \in {k \in DOMAIN ps : c <= Len(s[k])}}
      longest == Max(Range(Lens(ps)))
  IN  IF (\E i \in DOMAIN ps : s[i] = <<>>) \/ (\E c \in 1..longest : column(c) = Bit)
      THEN 0
      ELSE PathToInt(s[Min({i \in DOMAIN ps : Len(s[i]) = longest})])

(* The common part of all paths that are not empty.                        *)
(* Slip: empty paths count.                                                *)
GetOverlapedLongestPath_Empty(ps) ==
  LET min == Min(Range(Lens(ps)))
      same == {j \in 1..min : \A i \in DOMAIN ps :
                 ~DifferAbove(ps[i], FirstOf(ps, min), W - j)}
  IN  IF same = {} THEN 0 ELSE PathSubStringInt(FirstOf(ps, min), Max(same))
GetOverlapedLongestPath(ps) ==
  LET lens == Range(Lens(ps)) \ {0}
      min == Min(lens)
      same == {j \in 1..min : \A i \in DOMAIN ps : Lens(ps)[i] > 0 =>
                 ~DifferAbove(ps[i], FirstOf(ps, min), W - j)}
  IN  IF Len(ps) = 1 THEN ps[1]
      ELSE IF lens = {} \/ same = {} THEN 0
      ELSE PathSubStringInt(FirstOf(ps, min), Max(same))
-----------------------------------------------------------------------------
Init == paths = <<>>

Call == Len(paths) < MaxPaths /\ \E v \in Words : paths' = Append(paths, v)

Spec == Init /\ [][Call]_paths
-----------------------------------------------------------------------------
(* The paths of the vector, as sequences.                                  *)
Strings == [i \in DOMAIN paths |-> IntToPath(paths[i])]

(* Encoding, decoding and cutting agree: an int gives back the path it was *)
(* made from, and the part of length n of an int is the int of the part.   *)
PathsSurvive ==
  \A p \in Range(Strings) :
    /\ IntToPath(PathToInt(p)) = p
    /\ \A n \in 1..Len(p) :
         PathSubStringInt(PathToInt(p), n) = PathToInt(SubSeq(p, 1, n))

(* GetOverlapPath answers with the longest path when every path is on the  *)
(* way to it, and with 0 otherwise or when a path is empty, like the       *)
(* version on strings that it replaced.  Paths that fill the word are no   *)
(* exception, although common.cpp:530 makes them one: FullLengthAlone.     *)
OverlapIsLongest ==
  paths # <<>> =>
    LET result == IntToPath(GetOverlapPath(paths))
        onTheWay == {p \in Range(Strings) :
                       \A q \in Range(Strings) : q # <<>> /\ IsPrefix(q, p)}
    IN  /\ IF onTheWay = {} THEN result = <<>> ELSE result \in onTheWay
        /\ result = IntToPath(GetOverlapPath_old(paths))

(* GetOverlapedLongestPath answers with the longest common beginning of    *)
(* the paths that are not empty, which is the shortest of them if they     *)
(* agree.  When they do not, common.cpp:590 says 0: UnequalGiveZero.       *)
CommonBeginning ==
  paths # <<>> =>
    LET nonempty == Range(Strings) \ {<<>>}
        common(p) == \A q \in nonempty : IsPrefix(p, q)
        result == IntToPath(GetOverlapedLongestPath(paths))
    IN  IF nonempty = {} THEN result = <<>>
        ELSE /\ common(result)
             /\ \A q \in nonempty :
                  Len(result) < Len(q) => ~common(SubSeq(q, 1, Len(result) + 1))

(* common.cpp:530 of GetOverlapPath: if the length of one path is W - 1    *)
(* (31), that of the others must be too, or the answer is 0.  The check is *)
(* commented out (common.cpp:561-568).                                     *)
FullLengthAlone(ps) ==
  LET lens == Range(Lens(ps))
  IN W - 1 \in lens => lens = {W - 1} \/ GetOverlapPath(ps) = 0

(* common.cpp:590 of GetOverlapedLongestPath: the answer is 0 if there are *)
(* paths that do not agree.                                                *)
UnequalGiveZero(ps) ==
  (\E v, w \in Range(ps) : /\ ~IsPrefix(IntToPath(v), IntToPath(w))
                          /\ ~IsPrefix(IntToPath(w), IntToPath(v))) =>
    GetOverlapedLongestPath(ps) = 0

(* Of these two comments, one at least is right of every vector that the   *)
(* caller had while collecting its paths.                                  *)
OneCommentRight ==
  LET vectors == {SubSeq(paths, 1, n) : n \in 0..Len(paths)}
  IN \/ \A ps \in vectors : FullLengthAlone(ps)
     \/ \A ps \in vectors : UnequalGiveZero(ps)
=============================================================================
