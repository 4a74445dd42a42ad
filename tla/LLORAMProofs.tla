---------------------------- MODULE LLORAMProofs ----------------------------
(***************************************************************************)
(* Theorems about LLORAM.tla, for every height, bucket size, set of        *)
(* addresses and sequence of calls: its types, which buckets the trees     *)
(* have and which blocks lie in them, the masks and the keys derived from  *)
(* them, the sizes of buckets and what a call leaves in the stashs.        *)
(***************************************************************************)
EXTENDS LLORAM, NaturalLemmas
-----------------------------------------------------------------------------
(* Helpers.                                                                *)

(* Overlay keeps what holds of both maps. *)
LEMMA OverlayTree ==
  ASSUME NEW V, NEW h, NEW f, NEW g, IsTree(V, h, f), IsTree(V, h, g)
  PROVE  IsTree(V, h, Overlay(f, g))
BY DEF IsTree, Overlay

LEMMA OverlayBlocks ==
  ASSUME NEW V, NEW f, NEW g, IsBlockMap(V, f), IsBlockMap(V, g)
  PROVE  IsBlockMap(V, Overlay(f, g))
BY DEF IsBlockMap, Overlay

LEMMA WithoutBlocks ==
  ASSUME NEW V, NEW f, NEW S, IsBlockMap(V, f)
  PROVE  IsBlockMap(V, Without(f, S))
BY DEF IsBlockMap, Without

LEMMA EmptyMapIsEmpty ==
  ASSUME NEW V, NEW h
  PROVE  IsTree(V, h, EmptyMap) /\ IsBlockMap(V, EmptyMap)
BY DEF IsTree, IsBlockMap, EmptyMap

(* Paths. *)
LEMMA LeafIsPath ==
  ASSUME NEW h \in Nat \ {0}, NEW y \in Leaves(h)
  PROVE  y \in Path /\ Len(y) = h - 1
BY DEF Leaves, Path

LEMMA PathOfLeaf ==
  ASSUME NEW y \in Path, NEW k \in 1..(Len(y) + 1)
  PROVE  P(y, k) \in Path /\ Len(P(y, k)) = k - 1
BY DEF P, Path

LEMMA SiblingPath ==
  ASSUME NEW p \in Path
  PROVE  GetSibling(p) \in Path /\ Len(GetSibling(p)) = Len(p)
<1>1. CASE p = <<>>
  BY <1>1 DEF GetSibling
<1>2. CASE p # <<>>
  <2>1. Len(p) \in 1..Len(p)
    BY <1>2 DEF Path
  <2>2. 1 - p[Len(p)] \in Sides
    BY <2>1 DEF Path, Sides
  <2> QED BY <1>2, <2>1, <2>2 DEF GetSibling, Path
<1> QED BY <1>1, <1>2

LEMMA FrontPath ==
  ASSUME NEW p \in Path, p # <<>>
  PROVE  Front(p) \in Path /\ Len(Front(p)) = Len(p) - 1
<1>1. Len(p) \in Nat \ {0}
  BY DEF Path
<1>2. Front(p) = P(p, Len(p))
  BY DEF Front, P
<1> QED
  BY <1>1, <1>2, PathOfLeaf

(* Masks. *)
LEMMA MaskOfType ==
  ASSUME NEW p \in Path, NEW g \in {0, 1}
  PROVE  MaskOf(p, g) \in Mask
BY DEF MaskOf, Mask

LEMMA NodeMaskType ==
  ASSUME NEW i, NEW p \in Path
  PROVE  NodeMask(i, p) \in Mask /\ Seed(i, p) \in Mask
BY MaskOfType DEF NodeMask, Seed, NoMask, Mask
-----------------------------------------------------------------------------
(* Type correctness: TypeInv is inductive.                                 *)

LEMMA TypeInit == Init => TypeInv
<1> SUFFICES ASSUME Init PROVE TypeInv
  OBVIOUS
<1>1. <<>> \in Path
  BY DEF Path
<1>2. MaskOf(<<>>, 1) \in Mask
  BY <1>1, MaskOfType
<1>3. TypeOK
  BY <1>1, <1>2, EmptyMapIsEmpty, ConstantAssumption
     DEF Init, TypeOK, NoToken
<1>4. ShapeInv
  BY DEF Init, ShapeInv
<1> QED
  BY <1>3, <1>4 DEF TypeInv

LEMMA TypeBegin ==
  ASSUME TypeInv, NEW o \in Ops, NEW a \in Addr, NEW v \in Val,
         NEW one \in SingleRound, Begin(o, a, v, one)
  PROVE  TypeInv'
<1>1. a \in Nat /\ one \in BOOLEAN
  BY ConstantAssumption
<1>2. TypeOK'
  <2>1. L \in 1..L /\ data1' \in Val
    BY DEF TypeInv, TypeOK, Begin
  <2>2. accessed' \in [1..L -> Seq(Path)] /\ leaf_accessed' \in [1..L -> Path]
        /\ DOMAIN tokens' = 1..L
    <3>1. <<>> \in Path /\ <<>> \in Seq(Path)
      BY DEF Path
    <3> QED BY <3>1 DEF Begin
  <2>3. /\ L' = L /\ roots' = roots /\ oram' = oram /\ stash' = stash
        /\ pending' = pending /\ sf' = sf /\ pc' = "build" /\ addr' = a
        /\ oneRound' = one /\ aa' = a /\ l' = l /\ x' = x /\ last_x' = last_x
        /\ i_tree' = L
    BY DEF Begin, server, client
  <2> QED
    BY <1>1, <2>1, <2>2, <2>3 DEF TypeInv, TypeOK, DataOf
<1>3. \A i \in 1..L : Len(accessed'[i]) = 0
  BY DEF Begin
<1>4. ShapeInv'
  BY <1>3 DEF ShapeInv, Begin, server
<1> QED
  BY <1>2, <1>4 DEF TypeInv

LEMMA TypeReject ==
  ASSUME TypeInv, NEW a, NEW v \in Val, Reject(a, v)
  PROVE  TypeInv'
BY DEF TypeInv, TypeOK, ShapeInv, Reject, server, client, local, DataOf

LEMMA ShuffledType ==
  ASSUME TypeOK, NEW token, NEW i \in 1..L, IsTree(DataOf(i), i, token[i])
  PROVE  /\ IsTree(DataOf(i), i, Shuffled(token)[i])
         /\ DOMAIN oram[i] \subseteq DOMAIN Shuffled(token)[i]
<1>1. Shuffled(token)[i] = Overlay(oram[i], token[i])
  BY DEF Shuffled
<1>2. IsTree(DataOf(i), i, oram[i])
  BY DEF TypeOK
<1>3. DOMAIN oram[i] \subseteq DOMAIN Overlay(oram[i], token[i])
  BY DEF Overlay
<1> QED
  BY <1>1, <1>2, <1>3, OverlayTree

LEMMA TypeBuildToken == TypeInv /\ BuildToken => TypeInv'
<1> SUFFICES ASSUME TypeInv, BuildToken PROVE TypeInv'
  OBVIOUS
<1> USE DEF BuildToken, client, call
<1>1. DOMAIN oram' = 1..L
  BY DEF TypeInv, TypeOK, Shuffled
<1>2. ASSUME NEW i \in 1..L
      PROVE  IsTree(DataOf(i), i, oram'[i]) /\ DOMAIN oram[i] \subseteq DOMAIN oram'[i]
  <2>1. oram' = oram \/ oram' = Shuffled(pending)
    OBVIOUS
  <2>2. IsTree(DataOf(i), i, oram[i]) /\ IsTree(DataOf(i), i, pending[i])
    BY DEF TypeInv, TypeOK
  <2> QED
    BY <2>1, <2>2, ShuffledType DEF TypeInv
<1>3. <<>> \in Path /\ <<>> \in Leaves(1)
  BY DEF Path, Leaves
<1>4. aa \div 2 \in Nat
  BY DEF TypeInv, TypeOK
<1>5. TypeOK'
  BY <1>1, <1>2, <1>3, <1>4 DEF TypeInv, TypeOK, DataOf
<1>6. ShapeInv'
  <2>1. pc \in {"build"} /\ L' = L /\ accessed' = accessed /\ pc' \in {"build", "read"}
    OBVIOUS
  <2>2. pc' = "read" => i_tree' = 1 /\ l' = 1 /\ x' = <<>>
    OBVIOUS
  <2> QED
    BY <1>2, <1>3, <2>1, <2>2 DEF TypeInv, TypeOK, ShapeInv
<1> QED
  BY <1>5, <1>6 DEF TypeInv

LEMMA TypeReadBucket == TypeInv /\ ReadBucket => TypeInv'
<1> SUFFICES ASSUME TypeInv, ReadBucket PROVE TypeInv'
  OBVIOUS
<1> USE DEF ReadBucket, server, client, call
<1>1. i_tree \in 1..L /\ L \in Nat \ {0} /\ l \in Nat \ {0}
  BY DEF TypeInv, TypeOK
<1>2. P(x, l) \in Path
  <2>1. x \in Path /\ Len(x) = i_tree - 1 /\ l \in 1..(Len(x) + 1)
    BY <1>1, LeafIsPath DEF TypeInv, ShapeInv
  <2> QED BY <2>1, PathOfLeaf
<1>3. accessed' \in [1..L -> Seq(Path)]
  BY <1>1, <1>2 DEF TypeInv, TypeOK
<1>4. TypeOK'
  BY <1>1, <1>3 DEF TypeInv, TypeOK, DataOf
<1>5. ASSUME NEW i \in 1..L, NEW c \in 1..Len(accessed'[i])
      PROVE  accessed'[i][c] \in DOMAIN oram[i]
  <2>1. accessed \in [1..L -> Seq(Path)] /\ \A k \in 1..Len(accessed[i]) :
            accessed[i][k] \in DOMAIN oram[i]
    BY DEF TypeInv, TypeOK, ShapeInv
  <2>2. CASE accessed'[i] = accessed[i]
    BY <2>1, <2>2, <1>5
  <2>3. CASE accessed'[i] # accessed[i]
    <3>1. i = i_tree /\ P(x, l) \in DOMAIN oram[i]
          /\ accessed'[i] = <<P(x, l)>> \o accessed[i]
      BY <2>1, <2>3, <1>1
    <3> DEFINE s == accessed[i]
    <3>2. s \in Seq(Path) /\ c \in 1..(Len(s) + 1)
      BY <2>1, <3>1, <1>2, <1>5
    <3>3. (<<P(x, l)>> \o s)[c] = IF c = 1 THEN P(x, l) ELSE s[c - 1]
      BY <3>2, <1>2
    <3>4. c # 1 => c - 1 \in 1..Len(s)
      BY <3>2
    <3> QED BY <3>1, <3>3, <3>4, <2>1
  <2> QED BY <2>2, <2>3
<1>6. ShapeInv'
  BY <1>1, <1>5 DEF TypeInv, TypeOK, ShapeInv
<1> QED
  BY <1>4, <1>6 DEF TypeInv

LEMMA TypeEndOfPath == TypeInv /\ EndOfPath => TypeInv'
<1> SUFFICES ASSUME TypeInv, EndOfPath PROVE TypeInv'
  OBVIOUS
<1> USE DEF EndOfPath, server, client, call
<1>1. i_tree \in 1..L /\ L \in Nat \ {0}
  BY DEF TypeInv, TypeOK
<1>2. TypeOK'
  BY <1>1 DEF TypeInv, TypeOK, DataOf
<1>3. ASSUME NEW i \in 1..L, i <= i_tree
      PROVE  leaf_accessed'[i] \in Leaves(i)
  BY <1>1, <1>3 DEF TypeInv, TypeOK, ShapeInv
<1>4. ShapeInv'
  <2>1. pc' \in {"absorb", "probe"} /\ L' = L /\ i_tree' = i_tree
        /\ accessed' = accessed /\ oram' = oram
    OBVIOUS
  <2>2. pc' = "probe" => i_tree < L /\ l' = 1
    OBVIOUS
  <2>3. pc' = "absorb" => i_tree = L
    OBVIOUS
  <2>4. pc # "idle"
    OBVIOUS
  <2> QED
    BY <1>1, <1>3, <2>1, <2>2, <2>3, <2>4 DEF TypeInv, ShapeInv
<1> QED
  BY <1>2, <1>4 DEF TypeInv

(* The path to the next tree's leaf: what ProbeHit and ProbeEnd share.     *)
LEMMA TypeSearchNextTree ==
  ASSUME TypeInv, pc = "probe", NEW leaf \in Leaves(i_tree + 1),
         SearchNextTree(leaf),
         UNCHANGED <<server, client, call, aa, tokens, accessed,
                     leaf_accessed, last_x, sf>>
  PROVE  TypeInv'
<1> USE DEF SearchNextTree, server, client, call
<1>1. i_tree \in 1..L /\ L \in Nat \ {0} /\ i_tree < L
  BY DEF TypeInv, TypeOK, ShapeInv
<1>2. leaf \in Path /\ Len(leaf) = i_tree
  BY <1>1, LeafIsPath
<1>3. TypeOK'
  BY <1>1, <1>2 DEF TypeInv, TypeOK, DataOf
<1>4. ASSUME NEW i \in 1..L, i < i_tree'
      PROVE  leaf_accessed'[i] \in Leaves(i)
  BY <1>1, <1>4 DEF TypeInv, ShapeInv
<1>5. ShapeInv'
  <2>1. pc' = "read" /\ l' = i_tree' /\ x' = leaf /\ i_tree' = i_tree + 1
    OBVIOUS
  <2>2. x' \in Leaves(i_tree') /\ l' <= i_tree'
    BY <1>1, <2>1
  <2>3. \A i \in 1..L : \A c \in 1..Len(accessed[i]) :
          accessed[i][c] \in DOMAIN oram[i]
    BY DEF TypeInv, ShapeInv
  <2> QED
    BY <1>4, <2>1, <2>2, <2>3 DEF ShapeInv
<1> QED
  BY <1>3, <1>5 DEF TypeInv

LEMMA TypeProbeHit == TypeInv /\ ProbeHit => TypeInv'
<1> SUFFICES ASSUME TypeInv, ProbeHit PROVE TypeInv'
  OBVIOUS
<1>1. PICK node : \E leaf \in LeavesBelow(node, i_tree + 1) : SearchNextTree(leaf)
  BY DEF ProbeHit
<1>2. PICK leaf \in LeavesBelow(node, i_tree + 1) : SearchNextTree(leaf)
  BY <1>1
<1>3. leaf \in Leaves(i_tree + 1)
  BY DEF LeavesBelow
<1> QED
  BY <1>2, <1>3, TypeSearchNextTree DEF ProbeHit

LEMMA TypeProbeMiss == TypeInv /\ ProbeMiss => TypeInv'
<1> SUFFICES ASSUME TypeInv, ProbeMiss PROVE TypeInv'
  OBVIOUS
<1> USE DEF ProbeMiss, server, client, call
<1>1. l' \in Nat /\ l' >= 1
  BY DEF TypeInv, TypeOK, ShapeInv
<1>2. TypeOK'
  BY <1>1 DEF TypeInv, TypeOK, DataOf
<1>3. ShapeInv'
  BY <1>1 DEF TypeInv, ShapeInv
<1> QED
  BY <1>2, <1>3 DEF TypeInv

LEMMA TypeProbeEnd == TypeInv /\ ProbeEnd => TypeInv'
BY TypeSearchNextTree DEF ProbeEnd

(* The blocks of the response are blocks of the tree. *)
LEMMA AbsorbedType ==
  ASSUME TypeInv, pc # "idle", NEW i \in 1..L
  PROVE  IsBlockMap(DataOf(i), Absorbed(i))
<1> DEFINE holders(a) == {c \in DOMAIN accessed[i] :
                            a \in DOMAIN oram[i][accessed[i][c]].blocks}
           all == UNION {DOMAIN oram[i][accessed[i][c]].blocks :
                           c \in DOMAIN accessed[i]}
           V == DataOf(i)
<1>1. accessed[i] \in Seq(Path) /\ IsTree(V, i, oram[i])
  BY DEF TypeInv, TypeOK
<1>2. DOMAIN accessed[i] = 1..Len(accessed[i])
  BY <1>1
<1>3. ASSUME NEW c \in DOMAIN accessed[i]
      PROVE  IsBlockMap(V, oram[i][accessed[i][c]].blocks)
  <2>1. accessed[i][c] \in DOMAIN oram[i]
    BY <1>2 DEF TypeInv, ShapeInv
  <2> QED BY <1>1, <2>1 DEF IsTree, IsBucket
<1>4. ASSUME NEW a \in all
      PROVE  /\ a \in Nat
             /\ oram[i][accessed[i][Min(holders(a))]].blocks[a]
                  \in [data : [Sides -> V], node : Path]
  <2> DEFINE S == holders(a)
             held(c) == oram[i][accessed[i][c]].blocks
  <2>1. S # {} /\ S \subseteq DOMAIN accessed[i]
    OBVIOUS
  <2>2. \A c \in S : a \in DOMAIN held(c)
    OBVIOUS
  <2> HIDE DEF S, V, all, held
  <2>3. S \in SUBSET Nat
    BY <1>2, <2>1
  <2>4. Min(S) \in S
    BY <2>1, <2>3, MinIsLeast, Zenon
  <2>5. IsBlockMap(V, held(Min(S))) /\ a \in DOMAIN held(Min(S))
    <3>1. Min(S) \in DOMAIN accessed[i]
      BY <2>1, <2>4, Zenon
    <3> QED BY <1>3, <2>2, <2>4, <3>1, Zenon DEF held
  <2>6. a \in Nat /\ held(Min(S))[a] \in [data : [Sides -> V], node : Path]
    BY <2>5, Zenon DEF IsBlockMap
  <2> QED BY <2>6, Zenon DEF held, S
<1>5. Absorbed(i) = [a \in all |->
                       oram[i][accessed[i][Min(holders(a))]].blocks[a]]
  BY DEF Absorbed
<1> HIDE DEF all, holders, V
<1>6. IsBlockMap(V, Absorbed(i))
  BY <1>4, <1>5 DEF IsBlockMap
<1> QED
  BY <1>6 DEF V

LEMMA TypeWriteResponseToStash == TypeInv /\ WriteResponseToStash => TypeInv'
<1> SUFFICES ASSUME TypeInv, WriteResponseToStash PROVE TypeInv'
  OBVIOUS
<1> USE DEF WriteResponseToStash, server, client, call
<1>1. ASSUME NEW i \in 1..L
      PROVE  IsBlockMap(DataOf(i), Overlay(stash[i], Absorbed(i)))
  <2>1. IsBlockMap(DataOf(i), stash[i]) /\ IsBlockMap(DataOf(i), Absorbed(i))
    BY AbsorbedType DEF TypeInv, TypeOK
  <2> QED BY <2>1, OverlayBlocks
<1>2. DOMAIN stash' = 1..L /\ \A i \in 1..L : IsBlockMap(DataOf(i), stash'[i])
  BY <1>1
<1>3. L \in 1..L /\ addr \in Nat
  BY DEF TypeInv, TypeOK
<1>4. TypeOK'
  BY <1>2, <1>3 DEF TypeInv, TypeOK, DataOf
<1>5. ShapeInv'
  BY DEF TypeInv, ShapeInv
<1> QED
  BY <1>4, <1>5 DEF TypeInv

(* WriteStashWithNode keeps the stashs well-typed. *)
LEMMA WriteStashType ==
  ASSUME TypeOK, NEW i \in 1..L, NEW a \in Nat, NEW b \in Sides,
         NEW d \in DataOf(i), NEW other \in DataOf(i), NEW node \in Path,
         WriteStashWithNode(i, a, b, d, other, node)
  PROVE  DOMAIN stash' = 1..L /\ \A k \in 1..L : IsBlockMap(DataOf(k), stash'[k])
<1> DEFINE old == IF a \in DOMAIN stash[i] THEN stash[i][a].data
                                           ELSE [s \in Sides |-> other]
           block == [data |-> [old EXCEPT ![b] = d], node |-> node]
           new == [k \in {a} |-> block]
<1>1. IsBlockMap(DataOf(i), stash[i])
  BY DEF TypeOK
<1>2. old \in [Sides -> DataOf(i)]
  BY <1>1 DEF IsBlockMap
<1>3. IsBlockMap(DataOf(i), new)
  BY <1>2 DEF IsBlockMap
<1>4. stash' = [stash EXCEPT ![i] = Overlay(@, new)]
  BY DEF WriteStashWithNode
<1> HIDE DEF new
<1>5. IsBlockMap(DataOf(i), Overlay(stash[i], new))
  BY <1>1, <1>3, OverlayBlocks
<1> QED
  BY <1>4, <1>5 DEF TypeOK

LEMMA TypeRemap ==
  ASSUME TypeInv, pc = "remap", NEW new_x \in Leaves(i_tree), Remap(new_x),
         data1' \in Val,
         DOMAIN stash' = 1..L, \A k \in 1..L : IsBlockMap(DataOf(k), stash'[k])
  PROVE  TypeInv'
<1> USE DEF Remap, server
<1>1. i_tree \in 1..L /\ L \in Nat \ {0}
  BY DEF TypeInv, TypeOK
<1>2. new_x \in Path /\ aa \div 2 \in Nat
  BY <1>1, LeafIsPath DEF TypeInv, TypeOK
<1>3. roots' \in [1..L -> Mask]
  <2>1. Seed(i_tree, <<>>) \in Mask
    <3>1. <<>> \in Path
      BY DEF Path
    <3> QED BY <3>1, NodeMaskType
  <2> QED BY <2>1 DEF TypeInv, TypeOK
<1>4. x' \in Leaves(i_tree) /\ x' \in Path
  <2>1. leaf_accessed[i_tree] \in Leaves(i_tree)
    BY <1>1 DEF TypeInv, ShapeInv
  <2> QED BY <1>1, <2>1, LeafIsPath
<1>5. TypeOK'
  <2>1. L' = L /\ oram' = oram /\ pending' = pending /\ sf' = sf /\ addr' = addr
        /\ oneRound' = oneRound /\ i_tree' = i_tree /\ tokens' = tokens
        /\ accessed' = accessed /\ leaf_accessed' = leaf_accessed
    OBVIOUS
  <2>2. pc' = "evict" /\ l' = i_tree /\ aa' \in Nat /\ last_x' \in Path
    BY <1>2
  <2>3. \A k \in 1..L : DataOf(k)' = DataOf(k)
    BY <2>1 DEF DataOf
  <2> QED
    BY <1>1, <1>3, <1>4, <2>1, <2>2, <2>3 DEF TypeInv, TypeOK
<1>6. ShapeInv'
  BY <1>1, <1>4 DEF TypeInv, ShapeInv
<1> QED
  BY <1>5, <1>6 DEF TypeInv

LEMMA TypeRemapData ==
  ASSUME TypeInv, NEW new_x \in Leaves(i_tree), RemapData(new_x)
  PROVE  TypeInv'
<1>1. pc = "remap" /\ i_tree = L /\ L \in 1..L /\ aa \in Nat
  BY DEF RemapData, Remap, TypeInv, TypeOK
<1>2. aa \div 2 \in Nat /\ aa % 2 \in Sides
  BY <1>1 DEF Sides
<1>3. new_x \in Path
  BY <1>1, LeafIsPath
<1>4. ReadDataFromStash(aa \div 2, aa % 2) \in Val
  BY <1>1, <1>2, ConstantAssumption
     DEF ReadDataFromStash, TypeInv, TypeOK, DataOf, IsBlockMap
<1>5. data1' \in Val /\ DataOf(L) = Val /\ Zero \in Val
  BY <1>4, ConstantAssumption DEF RemapData, TypeInv, TypeOK, DataOf
<1>6. WriteStashWithNode(L, aa \div 2, aa % 2, data1', Zero, new_x)
  BY DEF RemapData
<1>7. DOMAIN stash' = 1..L /\ \A k \in 1..L : IsBlockMap(DataOf(k), stash'[k])
  BY <1>1, <1>2, <1>3, <1>5, <1>6, WriteStashType DEF TypeInv
<1> QED
  BY <1>1, <1>5, <1>7, TypeRemap DEF RemapData

LEMMA TypeRemapPointer ==
  ASSUME TypeInv, NEW new_x \in Leaves(i_tree), RemapPointer(new_x)
  PROVE  TypeInv'
<1>1. pc = "remap" /\ i_tree \in 1..L /\ i_tree # L /\ aa \in Nat
  BY DEF RemapPointer, Remap, TypeInv, TypeOK
<1>2. aa \div 2 \in Nat /\ aa % 2 \in Sides
  BY <1>1 DEF Sides
<1>3. new_x \in Path
  BY <1>1, LeafIsPath
<1>4. last_x \in DataOf(i_tree) /\ NoNode \in DataOf(i_tree)
  BY <1>1 DEF TypeInv, TypeOK, DataOf, Node
<1>5. data1' \in Val
  BY DEF RemapPointer, TypeInv, TypeOK
<1>6. WriteStashWithNode(i_tree, aa \div 2, aa % 2, last_x, NoNode, new_x)
  BY DEF RemapPointer
<1>7. DOMAIN stash' = 1..L /\ \A k \in 1..L : IsBlockMap(DataOf(k), stash'[k])
  BY <1>1, <1>2, <1>3, <1>4, <1>6, WriteStashType DEF TypeInv
<1> QED
  BY <1>1, <1>5, <1>7, TypeRemap DEF RemapPointer

(* The buckets that AddPathNodes builds are buckets of their tree. *)
LEMMA AddPathNodesType ==
  ASSUME TypeInv, pc = "evict", NEW p \in Path, Len(p) < i_tree, NEW blocks,
         IsBlockMap(DataOf(i_tree), blocks)
  PROVE  IsTree(DataOf(i_tree), i_tree, AddPathNodes(p, blocks))
<1> DEFINE s == GetSibling(p)
           V == DataOf(i_tree)
           old == IF s \in DOMAIN oram[i_tree] THEN oram[i_tree][s]
                    ELSE BuildBucket(NoMask, NoMask, EmptyMap)
<1>1. s \in Path /\ Len(s) = Len(p)
  BY SiblingPath
<1>2. NodeMask(i_tree, p) \in Mask /\ NodeMask(i_tree, s) \in Mask
      /\ NoMask \in Mask
  BY <1>1, NodeMaskType DEF NoMask, Mask
<1>3. ASSUME NEW M \in Mask, NEW Mf, NEW bs, IsBlockMap(V, bs)
      PROVE  IsBucket(V, BuildBucket(M, Mf, bs))
  BY <1>3 DEF IsBucket, BuildBucket
<1>4. old.M \in Mask /\ IsBlockMap(V, old.blocks)
  <2>1. IsBucket(V, BuildBucket(NoMask, NoMask, EmptyMap))
    BY <1>2, <1>3, EmptyMapIsEmpty
  <2>2. s \in DOMAIN oram[i_tree] => IsBucket(V, oram[i_tree][s])
    BY DEF TypeInv, TypeOK, IsTree
  <2> QED BY <2>1, <2>2 DEF IsBucket
<1>5. IsBucket(V, SiblingBucket(p))
  <2>1. SiblingBucket(p) =
          IF p \in Range(accessed[i_tree])
            THEN BuildBucket(old.M, FatherMask(p), old.blocks)
            ELSE BuildBucket(NodeMask(i_tree, s), FatherMask(p), EmptyMap)
    BY DEF SiblingBucket
  <2> HIDE DEF old, s, V
  <2> QED BY <2>1, <1>2, <1>3, <1>4, EmptyMapIsEmpty
<1>6. IsBucket(V, BuildBucket(NodeMask(i_tree, p), FatherMask(p), blocks))
  BY <1>2, <1>3
<1> QED
  BY <1>1, <1>5, <1>6 DEF IsTree, AddPathNodes

LEMMA TypeEvictLevel == TypeInv /\ EvictLevel => TypeInv'
<1> SUFFICES ASSUME TypeInv, EvictLevel PROVE TypeInv'
  OBVIOUS
<1> DEFINE p == P(x, l)
           V == DataOf(i_tree)
           stay(S) == [a \in S |-> stash[i_tree][a]]
<1>1. pc = "evict" /\ i_tree \in 1..L /\ l \in Nat \ {0} /\ l <= i_tree
      /\ x \in Leaves(i_tree) /\ x \in Path /\ Len(x) = i_tree - 1
      /\ L \in Nat \ {0}
  BY LeafIsPath DEF EvictLevel, TypeInv, TypeOK, ShapeInv
<1>2. p \in Path /\ Len(p) < i_tree
  BY <1>1, PathOfLeaf
<1>3. PICK S \in Evicted(p) :
        /\ stash' = [stash EXCEPT ![i_tree] = Without(@, S)]
        /\ sf' = [sf EXCEPT ![i_tree] = Overlay(@, AddPathNodes(p, stay(S)))]
  BY DEF EvictLevel
<1>4. S \subseteq DOMAIN stash[i_tree]
  BY DEF Evicted, Evictable, kSubset
<1>5. IsBlockMap(V, stash[i_tree]) /\ IsTree(V, i_tree, sf[i_tree])
  BY <1>1 DEF TypeInv, TypeOK
<1>6. IsBlockMap(V, stay(S))
  BY <1>4, <1>5 DEF IsBlockMap
<1> HIDE DEF p, stay
<1>7. IsBlockMap(V, Without(stash[i_tree], S))
  BY <1>5, WithoutBlocks
<1>8. IsTree(V, i_tree, Overlay(sf[i_tree], AddPathNodes(p, stay(S))))
  BY <1>1, <1>2, <1>5, <1>6, AddPathNodesType, OverlayTree
<1> USE DEF EvictLevel, server, call
<1>9. DOMAIN stash' = 1..L /\ \A i \in 1..L : IsBlockMap(DataOf(i), stash'[i])
  BY <1>3, <1>7 DEF TypeInv, TypeOK
<1>10. DOMAIN sf' = 1..L /\ \A i \in 1..L : IsTree(DataOf(i), i, sf'[i])
  BY <1>3, <1>8 DEF TypeInv, TypeOK
<1>11. TypeOK'
  BY <1>1, <1>9, <1>10 DEF TypeInv, TypeOK, DataOf
<1>12. ShapeInv'
  BY <1>1 DEF TypeInv, ShapeInv
<1> QED
  BY <1>11, <1>12 DEF TypeInv

LEMMA TypeEndOfTree == TypeInv /\ EndOfTree => TypeInv'
<1> SUFFICES ASSUME TypeInv, EndOfTree PROVE TypeInv'
  OBVIOUS
<1> USE DEF EndOfTree, server, client, call
<1>1. i_tree \in 1..L /\ L \in Nat \ {0}
  BY DEF TypeInv, TypeOK
<1>2. TypeOK'
  BY <1>1 DEF TypeInv, TypeOK, DataOf
<1>3. ShapeInv'
  BY DEF TypeInv, ShapeInv
<1> QED
  BY <1>2, <1>3 DEF TypeInv

LEMMA TypeFinish == TypeInv /\ Finish => TypeInv'
<1> SUFFICES ASSUME TypeInv, Finish PROVE TypeInv'
  OBVIOUS
<1> USE DEF Finish, call
<1>1. ASSUME NEW i \in 1..L
      PROVE  IsTree(DataOf(i), i, oram'[i]) /\ IsTree(DataOf(i), i, pending'[i])
  BY <1>1, ShuffledType DEF TypeInv, TypeOK
<1>2. DOMAIN oram' = 1..L /\ DOMAIN pending' = 1..L
  BY DEF TypeInv, TypeOK, Shuffled
<1>3. DOMAIN sf' = 1..L /\ \A i \in 1..L : IsTree(DataOf(i), i, sf'[i])
  BY EmptyMapIsEmpty DEF NoToken
<1>4. <<>> \in Path
  BY DEF Path
<1>5. TypeOK'
  BY <1>1, <1>2, <1>3, <1>4 DEF TypeInv, TypeOK, DataOf
<1>6. ShapeInv'
  BY DEF ShapeInv
<1> QED
  BY <1>5, <1>6 DEF TypeInv

LEMMA TypeComplete == TypeInv /\ Complete => TypeInv'
<1> SUFFICES ASSUME TypeInv, Complete PROVE TypeInv'
  OBVIOUS
<1> USE DEF Complete, call, local
<1>1. DOMAIN oram' = 1..L /\ \A i \in 1..L : IsTree(DataOf(i), i, oram'[i])
  BY ShuffledType DEF TypeInv, TypeOK, Shuffled
<1>2. DOMAIN pending' = 1..L
      /\ \A i \in 1..L : IsTree(DataOf(i), i, pending'[i])
  BY EmptyMapIsEmpty DEF NoToken
<1>3. TypeOK'
  BY <1>1, <1>2 DEF TypeInv, TypeOK, DataOf
<1>4. ShapeInv'
  BY DEF ShapeInv
<1> QED
  BY <1>3, <1>4 DEF TypeInv

(* SetL renumbers the trees: tree i becomes tree i + k. *)
LEMMA TypeSetL ==
  ASSUME TypeInv, NEW m_L \in InitL..MaxL, SetL(m_L)
  PROVE  TypeInv'
<1> DEFINE k == m_L - L
           V(i) == IF i = m_L THEN Val ELSE Node
<1> USE DEF SetL, call
<1>1. L \in Nat \ {0} /\ m_L \in Nat /\ m_L > L /\ L' = m_L /\ k \in Nat
  BY ConstantAssumption DEF TypeInv, TypeOK
<1>2. ASSUME NEW i \in 1..m_L, i > k
      PROVE  i - k \in 1..L /\ DataOf(i - k) = V(i)
  BY <1>1, <1>2 DEF DataOf
<1>3. <<>> \in Path /\ MaskOf(<<>>, 1) \in Mask
  <2>1. <<>> \in Path
    BY DEF Path
  <2> QED BY <2>1, MaskOfType
<1>4. ASSUME NEW i \in 1..m_L
      PROVE  /\ IsTree(V(i), i, oram'[i])
             /\ IsBlockMap(V(i), stash'[i])
             /\ roots'[i] \in Mask
  <2>1. CASE i > k
    <3>1. IsTree(V(i), i - k, oram[i - k]) /\ IsBlockMap(V(i), stash[i - k])
          /\ roots[i - k] \in Mask
      BY <1>2, <2>1 DEF TypeInv, TypeOK
    <3>2. oram'[i] = oram[i - k] /\ stash'[i] = stash[i - k]
          /\ roots'[i] = roots[i - k]
      BY <1>1, <2>1
    <3>3. IsTree(V(i), i, oram[i - k])
      BY <1>1, <2>1, <3>1 DEF IsTree, Path
    <3> QED BY <3>1, <3>2, <3>3
  <2>2. CASE i <= k
    <3>1. V(i) = Node /\ <<>> \in Node
      BY <1>1, <1>3, <2>2 DEF Node
    <3> DEFINE zero == [a \in {0} |-> [data |-> [b \in Sides |-> <<>>],
                                       node |-> <<>>]]
    <3>2. IsBlockMap(Node, zero)
      BY <1>3, <3>1 DEF IsBlockMap
    <3> HIDE DEF zero
    <3>3. IsBucket(Node, BuildBucket(MaskOf(<<>>, 1), NoMask, zero))
      BY <1>3, <3>2 DEF IsBucket, BuildBucket
    <3>4. NewTree = [p \in {<<>>} |->
                       BuildBucket(MaskOf(<<>>, 1), NoMask, zero)]
      BY DEF NewTree, zero
    <3>5. IsTree(Node, i, NewTree)
      BY <1>3, <3>3, <3>4 DEF IsTree
    <3>6. oram'[i] = NewTree /\ stash'[i] = EmptyMap
          /\ roots'[i] = MaskOf(<<>>, 1)
      BY <1>1, <2>2
    <3> QED BY <1>3, <3>1, <3>5, <3>6, EmptyMapIsEmpty
  <2> QED BY <1>1, <2>1, <2>2
<1>5. ASSUME NEW i \in 1..m_L
      PROVE  IsTree(V(i), i, pending'[i]) /\ IsTree(V(i), i, sf'[i])
  BY EmptyMapIsEmpty
<1>6. DOMAIN oram' = 1..m_L /\ DOMAIN stash' = 1..m_L /\ DOMAIN pending' = 1..m_L
      /\ DOMAIN sf' = 1..m_L /\ DOMAIN roots' = 1..m_L
  BY <1>1
<1>7. roots' \in [1..m_L -> Mask]
  <2>1. roots' = [i \in 1..m_L |->
                    IF i <= k THEN MaskOf(<<>>, 1) ELSE roots[i - k]]
    BY <1>1
  <2> QED BY <1>4, <2>1
<1>8. \A i : DataOf(i)' = V(i)
  BY <1>1 DEF DataOf
<1>9. TypeOK'
  <2> HIDE DEF V
  <2> QED BY <1>1, <1>4, <1>5, <1>6, <1>7, <1>8 DEF TypeInv, TypeOK
<1>10. ShapeInv'
  BY <1>1 DEF ShapeInv
<1> QED
  BY <1>9, <1>10 DEF TypeInv

LEMMA TypeNext == TypeInv /\ [Next]_vars => TypeInv'
<1> SUFFICES ASSUME TypeInv, [Next]_vars PROVE TypeInv'
  OBVIOUS
<1>1. ASSUME NEW o \in Ops, NEW a \in Addr, NEW v \in Val,
             NEW one \in SingleRound, Begin(o, a, v, one)
      PROVE  TypeInv'
  BY <1>1, TypeBegin
<1>2. ASSUME NEW a \in Addr, NEW v \in Val, Reject(a, v)
      PROVE  TypeInv'
  BY <1>2, TypeReject
<1>3. CASE Complete
  BY <1>3, TypeComplete
<1>4. ASSUME NEW m_L \in InitL..MaxL, SetL(m_L)
      PROVE  TypeInv'
  BY <1>4, TypeSetL
<1>5. CASE BuildToken
  BY <1>5, TypeBuildToken
<1>6. CASE ReadBucket
  BY <1>6, TypeReadBucket
<1>7. CASE EndOfPath
  BY <1>7, TypeEndOfPath
<1>8. CASE ProbeHit
  BY <1>8, TypeProbeHit
<1>9. CASE ProbeMiss
  BY <1>9, TypeProbeMiss
<1>10. CASE ProbeEnd
  BY <1>10, TypeProbeEnd
<1>11. CASE WriteResponseToStash
  BY <1>11, TypeWriteResponseToStash
<1>12. ASSUME NEW new_x \in Leaves(i_tree), RemapData(new_x) \/ RemapPointer(new_x)
       PROVE  TypeInv'
  BY <1>12, TypeRemapData, TypeRemapPointer
<1>13. CASE EvictLevel
  BY <1>13, TypeEvictLevel
<1>14. CASE EndOfTree
  BY <1>14, TypeEndOfTree
<1>15. CASE Finish
  BY <1>15, TypeFinish
<1>16. CASE UNCHANGED vars
  BY <1>16 DEF vars, server, client, call, local, TypeInv, TypeOK, ShapeInv,
     DataOf
<1> QED
  BY <1>1, <1>2, <1>3, <1>4, <1>5, <1>6, <1>7, <1>8, <1>9, <1>10, <1>11,
     <1>12, <1>13, <1>14, <1>15, <1>16 DEF Next, Caller, Step

(* Every state has the shape TypeOK gives it, whatever the heights and the *)
(* calls: SetL renumbers trees whose blocks are pointers without mixing    *)
(* them up with the tree of data.                                          *)
THEOREM TypeCorrect == Spec => []TypeInv
<1>1. Init => TypeInv
  BY TypeInit
<1>2. TypeInv /\ [Next]_vars => TypeInv'
  BY TypeNext
<1> QED
  BY <1>1, <1>2, PTL DEF Spec

-----------------------------------------------------------------------------
(* Blocks on their paths.                                                  *)

OnPath(t) ==
  \A p \in DOMAIN t : \A a \in DOMAIN t[p].blocks :
    IsPrefix(p, t[p].blocks[a].node)

PathInv ==
  \A i \in 1..L : OnPath(oram[i]) /\ OnPath(pending[i]) /\ OnPath(sf[i])

LEMMA OverlayOnPath ==
  ASSUME NEW f, NEW g, OnPath(f), OnPath(g)
  PROVE  OnPath(Overlay(f, g))
BY DEF OnPath, Overlay

LEMMA WithoutOnPath ==
  ASSUME NEW f, NEW S, OnPath(f)
  PROVE  OnPath(Without(f, S))
BY DEF OnPath, Without

LEMMA EmptyOnPath == OnPath(EmptyMap)
BY DEF OnPath, EmptyMap

LEMMA PathInit == Init => PathInv
BY EmptyOnPath DEF Init, PathInv, NoToken

LEMMA ShuffledOnPath ==
  ASSUME NEW token, NEW i \in 1..L, OnPath(oram[i]), OnPath(token[i])
  PROVE  OnPath(Shuffled(token)[i])
BY OverlayOnPath DEF Shuffled

(* The buckets of one level: the blocks that stay were chosen because the  *)
(* bucket is on their path; the sibling keeps what it had.                 *)
LEMMA AddPathNodesOnPath ==
  ASSUME NEW p, NEW blocks, OnPath(oram[i_tree]),
         \A a \in DOMAIN blocks : IsPrefix(p, blocks[a].node)
  PROVE  OnPath(AddPathNodes(p, blocks))
<1> DEFINE s == GetSibling(p)
<1>1. \A a \in DOMAIN SiblingBucket(p).blocks :
        IsPrefix(s, SiblingBucket(p).blocks[a].node)
  <2>1. \/ SiblingBucket(p).blocks = EmptyMap
        \/ s \in DOMAIN oram[i_tree]
           /\ SiblingBucket(p).blocks = oram[i_tree][s].blocks
    BY DEF SiblingBucket, BuildBucket
  <2>2. DOMAIN EmptyMap = {}
    BY DEF EmptyMap
  <2> QED BY <2>1, <2>2 DEF OnPath
<1>2. BuildBucket(NodeMask(i_tree, p), FatherMask(p), blocks).blocks = blocks
  BY DEF BuildBucket
<1> QED
  BY <1>1, <1>2 DEF OnPath, AddPathNodes

LEMMA PathEvictLevel == TypeInv /\ PathInv /\ EvictLevel => PathInv'
<1> SUFFICES ASSUME TypeInv, PathInv, EvictLevel PROVE PathInv'
  OBVIOUS
<1> DEFINE p == P(x, l)
           stay(S) == [a \in S |-> stash[i_tree][a]]
<1>1. PICK S \in Evicted(p) :
        sf' = [sf EXCEPT ![i_tree] = Overlay(@, AddPathNodes(p, stay(S)))]
  BY DEF EvictLevel
<1>2. S \subseteq Evictable(p)
  BY DEF Evicted, kSubset
<1>3. i_tree \in 1..L /\ DOMAIN sf = 1..L
  BY DEF EvictLevel, TypeInv, TypeOK
<1>4. \A a \in DOMAIN stay(S) : IsPrefix(p, stay(S)[a].node)
  BY <1>2 DEF Evictable, PassesThrough
<1> HIDE DEF p, stay
<1>5. OnPath(Overlay(sf[i_tree], AddPathNodes(p, stay(S))))
  BY <1>3, <1>4, AddPathNodesOnPath, OverlayOnPath DEF PathInv
<1> QED
  BY <1>1, <1>3, <1>5 DEF PathInv, EvictLevel, server

LEMMA PathSetL ==
  ASSUME TypeInv, PathInv, NEW m_L \in InitL..MaxL, SetL(m_L)
  PROVE  PathInv'
<1> DEFINE k == m_L - L
<1>1. L \in Nat \ {0} /\ m_L \in Nat /\ m_L > L /\ L' = m_L
  BY ConstantAssumption DEF TypeInv, TypeOK, SetL
<1>2. OnPath(NewTree)
  <2>1. IsPrefix(<<>>, <<>>)
    BY DEF IsPrefix
  <2> QED BY <2>1 DEF OnPath, NewTree, BuildBucket
<1>3. ASSUME NEW i \in 1..m_L
      PROVE  OnPath(oram'[i]) /\ OnPath(pending'[i]) /\ OnPath(sf'[i])
  <2>1. oram'[i] = IF i <= k THEN NewTree ELSE oram[i - k]
    BY DEF SetL
  <2>2. pending'[i] = EmptyMap /\ sf'[i] = EmptyMap
    BY DEF SetL
  <2>3. i > k => i - k \in 1..L
    BY <1>1
  <2> QED BY <1>1, <1>2, <2>1, <2>2, <2>3, EmptyOnPath DEF PathInv
<1> QED
  BY <1>1, <1>3 DEF PathInv

LEMMA PathNext == TypeInv /\ PathInv /\ [Next]_vars => PathInv'
<1> SUFFICES ASSUME TypeInv, PathInv, [Next]_vars PROVE PathInv'
  OBVIOUS
<1>1. CASE UNCHANGED <<L, oram, pending, sf>>
  BY <1>1 DEF PathInv
<1>2. CASE BuildToken
  <2>1. oram' = oram \/ oram' = Shuffled(pending)
    BY <1>2 DEF BuildToken
  <2>2. UNCHANGED <<L, pending, sf>>
    BY <1>2 DEF BuildToken, client
  <2> QED BY <2>1, <2>2, ShuffledOnPath DEF PathInv
<1>3. CASE EvictLevel
  BY <1>3, PathEvictLevel
<1>4. CASE Finish
  <2>1. \A i \in 1..L : NoToken[i] = EmptyMap
    BY DEF NoToken
  <2>2. L' = L /\ sf' = NoToken
        /\ (oram' = oram \/ oram' = Shuffled(sf))
        /\ (pending' = pending \/ pending' = sf)
    BY <1>4 DEF Finish
  <2> QED BY <2>1, <2>2, ShuffledOnPath, EmptyOnPath DEF PathInv
<1>5. CASE Complete
  <2>1. \A i \in 1..L : NoToken[i] = EmptyMap
    BY DEF NoToken
  <2>2. L' = L /\ sf' = sf /\ oram' = Shuffled(pending) /\ pending' = NoToken
    BY <1>5 DEF Complete, local
  <2> QED BY <2>1, <2>2, ShuffledOnPath, EmptyOnPath DEF PathInv
<1>6. ASSUME NEW m_L \in InitL..MaxL, SetL(m_L)
      PROVE  PathInv'
  BY <1>6, PathSetL
<1>7. ASSUME NEW o, NEW a, NEW v, NEW one, Begin(o, a, v, one)
      PROVE  UNCHANGED <<L, oram, pending, sf>>
  BY <1>7 DEF Begin, server, client
<1>8. ASSUME NEW a, NEW v, Reject(a, v)
      PROVE  UNCHANGED <<L, oram, pending, sf>>
  BY <1>8 DEF Reject, server, client, local
<1>9. ReadBucket \/ EndOfPath \/ ProbeHit \/ ProbeMiss \/ ProbeEnd
        \/ WriteResponseToStash \/ EndOfTree
      => UNCHANGED <<L, oram, pending, sf>>
  BY DEF ReadBucket, EndOfPath, ProbeHit, ProbeMiss, ProbeEnd,
     WriteResponseToStash, EndOfTree, server, client
<1>10. ASSUME NEW new_x, RemapData(new_x) \/ RemapPointer(new_x)
       PROVE  UNCHANGED <<L, oram, pending, sf>>
  BY <1>10 DEF RemapData, RemapPointer, Remap, server
<1>11. UNCHANGED vars => UNCHANGED <<L, oram, pending, sf>>
  BY DEF vars, server, client, local
<1> QED
  BY <1>1, <1>2, <1>3, <1>4, <1>5, <1>6, <1>7, <1>8, <1>9, <1>10, <1>11
     DEF Next, Caller, Step

(* A block lies on the path to the node it was given, in the trees, the    *)
(* pending token and the token under construction, whatever SetL did to    *)
(* the numbers of the trees and to the depth of that node.                 *)
THEOREM AllBlocksOnPath == Spec => []BlocksOnPath
<1>1. Init => TypeInv /\ PathInv
  BY TypeInit, PathInit
<1>2. TypeInv /\ PathInv /\ [Next]_vars => (TypeInv /\ PathInv)'
  BY TypeNext, PathNext
<1>3. TypeInv /\ PathInv => BlocksOnPath
  <2> SUFFICES ASSUME PathInv, NEW i \in 1..L PROVE OnPath(Live(i))
    BY DEF BlocksOnPath, OnPath
  <2> QED BY OverlayOnPath, WithoutOnPath DEF Live, PathInv
<1> QED
  BY <1>1, <1>2, <1>3, PTL DEF Spec
-----------------------------------------------------------------------------
(* The shape of the trees: a bucket's father and sibling are there.        *)

Shaped(t) ==
  \A p \in DOMAIN t \ {<<>>} : Front(p) \in DOMAIN t /\ GetSibling(p) \in DOMAIN t

(* The part of the path rebuilt so far may lack the father of its topmost  *)
(* buckets: it is the bucket that the loop of BuildShuffleToken comes to   *)
(* next.                                                                   *)
Growing(t) ==
  \A p \in DOMAIN t \ {<<>>} :
    /\ GetSibling(p) \in DOMAIN t
    /\ Front(p) \in DOMAIN t \/ (l >= 1 /\ Front(p) = P(x, l))

FormInv ==
  \A i \in 1..L :
    /\ Shaped(oram[i]) /\ Shaped(pending[i])
    /\ IF pc = "evict" /\ i = i_tree THEN Growing(sf[i]) ELSE Shaped(sf[i])

LEMMA OverlayShaped ==
  ASSUME NEW f, NEW g, Shaped(f), Shaped(g)
  PROVE  Shaped(Overlay(f, g))
BY DEF Shaped, Overlay

LEMMA SmallShaped == Shaped(EmptyMap) /\ Shaped(NewTree)
BY DEF Shaped, EmptyMap, NewTree

LEMMA ShuffledShaped ==
  ASSUME NEW token, NEW i \in 1..L, Shaped(oram[i]), Shaped(token[i])
  PROVE  Shaped(Shuffled(token)[i])
BY OverlayShaped DEF Shuffled

LEMMA FormInit == Init => FormInv
BY SmallShaped DEF Init, FormInv, NoToken

(* A path's nodes and siblings: fathers and siblings again. *)
LEMMA FrontOfP ==
  ASSUME NEW y \in Path, NEW k \in 2..(Len(y) + 1)
  PROVE  P(y, k) # <<>> /\ Front(P(y, k)) = P(y, k - 1)
<1>1. k \in 1..(Len(y) + 1) /\ k - 1 \in 1..(Len(y) + 1) /\ Len(y) \in Nat
  BY DEF Path
<1>2. P(y, k) \in Path /\ Len(P(y, k)) = k - 1
  BY <1>1, PathOfLeaf
<1>3. Front(P(y, k)) = P(y, k - 1)
  BY <1>1, <1>2 DEF Front, P, Path
<1> QED
  BY <1>1, <1>2, <1>3

LEMMA SiblingFacts ==
  ASSUME NEW p \in Path, p # <<>>
  PROVE  /\ GetSibling(p) \in Path /\ GetSibling(p) # <<>> /\ GetSibling(p) # p
         /\ Front(GetSibling(p)) = Front(p)
         /\ GetSibling(GetSibling(p)) = p
<1> DEFINE n == Len(p)
           s == GetSibling(p)
<1>1. n \in Nat \ {0} /\ p[n] \in Sides /\ p = [i \in 1..n |-> p[i]]
  BY DEF Path
<1>2. s = [i \in 1..n |-> IF i = n THEN 1 - p[n] ELSE p[i]]
  BY <1>1 DEF GetSibling
<1>3. s \in Path /\ Len(s) = n /\ s # <<>>
  BY <1>1, SiblingPath
<1>4. GetSibling(s) = [i \in 1..n |-> IF i = n THEN 1 - s[n] ELSE s[i]]
  <2> HIDE DEF s
  <2>1. s = [i \in 1..n |-> s[i]]
    BY <1>2, <1>3
  <2> QED BY <1>1, <1>3, <2>1 DEF GetSibling
<1> HIDE DEF n, s
<1>5. s[n] = 1 - p[n] /\ \A i \in 1..n : i # n => s[i] = p[i]
  BY <1>1, <1>2
<1>6. p[n] # 1 - p[n] /\ 1 - (1 - p[n]) = p[n]
  BY <1>1 DEF Sides
<1>7. GetSibling(s) = [i \in 1..n |-> p[i]]
  BY <1>4, <1>5, <1>6
<1>8. Front(s) = Front(p)
  <2>1. Front(s) = [i \in 1..(n - 1) |-> s[i]]
    BY <1>1, <1>3 DEF Front, Path
  <2>2. Front(p) = [i \in 1..(n - 1) |-> p[i]]
    BY <1>1 DEF Front, Path, n
  <2>3. \A i \in 1..(n - 1) : s[i] = p[i]
    BY <1>1, <1>5
  <2> QED BY <2>1, <2>2, <2>3
<1>9. s # p
  BY <1>5, <1>6
<1> QED
  BY <1>1, <1>3, <1>7, <1>8, <1>9 DEF s

LEMMA FormEvictLevel == TypeInv /\ FormInv /\ EvictLevel => FormInv'
<1> SUFFICES ASSUME TypeInv, FormInv, EvictLevel PROVE FormInv'
  OBVIOUS
<1> DEFINE p == P(x, l)
           s == GetSibling(p)
           t == sf[i_tree]
           u == sf'[i_tree]
<1>1. pc = "evict" /\ i_tree \in 1..L /\ l \in Nat \ {0} /\ l <= i_tree
      /\ x \in Path /\ Len(x) = i_tree - 1 /\ DOMAIN sf = 1..L
  BY LeafIsPath DEF EvictLevel, TypeInv, TypeOK, ShapeInv
<1>2. PICK blocks : sf' = [sf EXCEPT ![i_tree] = Overlay(@, AddPathNodes(p, blocks))]
  BY DEF EvictLevel
<1>3. DOMAIN u = DOMAIN t \cup {p, s}
  BY <1>1, <1>2 DEF Overlay, AddPathNodes
<1>4. p \in Path
  BY <1>1, PathOfLeaf
<1>5. ASSUME NEW q \in DOMAIN u \ {<<>>}
      PROVE  /\ GetSibling(q) \in DOMAIN u
             /\ Front(q) \in DOMAIN u \/ (l' >= 1 /\ Front(q) = P(x, l'))
  <2>1. CASE q \in DOMAIN t
    BY <1>1, <1>3, <2>1 DEF FormInv, Growing
  <2>2. CASE q \in {p, s}
    <3>1. p # <<>> /\ {GetSibling(q), q} = {p, s} /\ Front(q) = Front(p)
      BY <1>4, <1>5, <2>2, SiblingFacts DEF GetSibling
    <3>2. l \in 2..(Len(x) + 1)
      <4>1. l # 1
        BY <1>1, <3>1 DEF P, Path
      <4> QED BY <1>1, <4>1
    <3>3. Front(q) = P(x, l - 1) /\ l' = l - 1 /\ l - 1 >= 1
      BY <1>1, <3>1, <3>2, FrontOfP DEF EvictLevel
    <3> QED BY <1>3, <3>1, <3>3
  <2> QED BY <1>3, <2>1, <2>2
<1>6. Growing(sf[i_tree])'
  BY <1>5 DEF Growing, EvictLevel
<1> QED
  BY <1>1, <1>2, <1>6 DEF FormInv, EvictLevel, server, Shaped

LEMMA FormSetL ==
  ASSUME TypeInv, FormInv, NEW m_L \in InitL..MaxL, SetL(m_L)
  PROVE  FormInv'
<1> DEFINE k == m_L - L
<1>1. L \in Nat \ {0} /\ m_L \in Nat /\ m_L > L /\ L' = m_L /\ pc' = "idle"
  BY ConstantAssumption DEF TypeInv, TypeOK, SetL
<1>2. ASSUME NEW i \in 1..m_L
      PROVE  Shaped(oram'[i]) /\ Shaped(pending'[i]) /\ Shaped(sf'[i])
  <2>1. oram'[i] = IF i <= k THEN NewTree ELSE oram[i - k]
    BY DEF SetL
  <2>2. pending'[i] = EmptyMap /\ sf'[i] = EmptyMap
    BY DEF SetL
  <2>3. i > k => i - k \in 1..L
    BY <1>1
  <2> QED BY <1>1, <2>1, <2>2, <2>3, SmallShaped DEF FormInv
<1> QED
  BY <1>1, <1>2 DEF FormInv, Shaped

LEMMA FormNext == TypeInv /\ FormInv /\ [Next]_vars => FormInv'
<1> SUFFICES ASSUME TypeInv, FormInv, [Next]_vars PROVE FormInv'
  OBVIOUS
<1>1. CASE pc # "evict" /\ UNCHANGED <<L, oram, pending, sf>>
  (* At the head of the loop over the levels the tree's token is shaped. *)
  <2>1. \A i \in 1..L : Shaped(sf[i]) /\ Shaped(oram[i]) /\ Shaped(pending[i])
    BY <1>1 DEF FormInv
  <2> QED BY <1>1, <2>1 DEF FormInv, Shaped, Growing
<1>2. CASE BuildToken
  <2>1. pc = "build" /\ pc' # "evict" /\ UNCHANGED <<L, pending, sf>>
        /\ (oram' = oram \/ oram' = Shuffled(pending))
    BY <1>2 DEF BuildToken, client
  <2> QED BY <2>1, ShuffledShaped DEF FormInv, Shaped
<1>3. CASE EvictLevel
  BY <1>3, FormEvictLevel
<1>4. CASE EndOfTree
  <2>1. pc = "evict" /\ l = 0 /\ pc' # "evict"
        /\ UNCHANGED <<L, oram, pending, sf>>
    BY <1>4 DEF EndOfTree, server, client
  <2>2. \A t : Growing(t) => Shaped(t)
    BY <2>1 DEF Growing, Shaped
  <2> QED BY <2>1, <2>2 DEF FormInv, Shaped
<1>5. CASE Finish
  <2>1. \A i \in 1..L : NoToken[i] = EmptyMap
    BY DEF NoToken
  <2>2. L' = L /\ sf' = NoToken /\ pc = "finish" /\ pc' = "idle"
        /\ (oram' = oram \/ oram' = Shuffled(sf))
        /\ (pending' = pending \/ pending' = sf)
    BY <1>5 DEF Finish
  <2>3. \A i \in 1..L : Shaped(oram'[i]) /\ Shaped(pending'[i]) /\ Shaped(sf'[i])
    BY <2>1, <2>2, ShuffledShaped, SmallShaped DEF FormInv
  <2> QED BY <2>2, <2>3 DEF FormInv, Shaped
<1>6. CASE Complete
  <2>1. \A i \in 1..L : NoToken[i] = EmptyMap
    BY DEF NoToken
  <2>2. L' = L /\ sf' = sf /\ pc = "idle" /\ pc' = "idle"
        /\ oram' = Shuffled(pending) /\ pending' = NoToken
    BY <1>6 DEF Complete, local
  <2>3. \A i \in 1..L : Shaped(oram'[i]) /\ Shaped(pending'[i]) /\ Shaped(sf'[i])
    BY <2>1, <2>2, ShuffledShaped, SmallShaped DEF FormInv
  <2> QED BY <2>2, <2>3 DEF FormInv, Shaped
<1>7. ASSUME NEW m_L \in InitL..MaxL, SetL(m_L)
      PROVE  FormInv'
  BY <1>7, FormSetL
<1>8. ASSUME NEW o, NEW a, NEW v, NEW one, Begin(o, a, v, one)
      PROVE  pc # "evict" /\ UNCHANGED <<L, oram, pending, sf>>
  BY <1>8 DEF Begin, server, client
<1>9. ASSUME NEW a, NEW v, Reject(a, v)
      PROVE  pc # "evict" /\ UNCHANGED <<L, oram, pending, sf>>
  BY <1>9 DEF Reject, server, client, local
<1>10. ReadBucket \/ EndOfPath \/ ProbeHit \/ ProbeMiss \/ ProbeEnd
         \/ WriteResponseToStash
       => pc # "evict" /\ UNCHANGED <<L, oram, pending, sf>>
  BY DEF ReadBucket, EndOfPath, ProbeHit, ProbeMiss, ProbeEnd,
     WriteResponseToStash, server, client
<1>11. ASSUME NEW new_x, RemapData(new_x) \/ RemapPointer(new_x)
       PROVE  pc # "evict" /\ UNCHANGED <<L, oram, pending, sf>>
  BY <1>11 DEF RemapData, RemapPointer, Remap, server
<1>12. CASE UNCHANGED vars
  BY <1>12 DEF vars, server, client, local, FormInv, Shaped, Growing
<1> QED
  BY <1>1, <1>2, <1>3, <1>4, <1>5, <1>6, <1>7, <1>8, <1>9, <1>10, <1>11,
     <1>12 DEF Next, Caller, Step

(* Every bucket but the root has its father and its sibling, with and      *)
(* without the pending token: a path is rebuilt completely or not at all,  *)
(* siblings included, so that Search meets no gap in the chain of masks    *)
(* and ToTail is never given the empty etail of a missing sibling.         *)
THEOREM TreesShaped == Spec => []TreeShape
<1>1. Init => TypeInv /\ FormInv
  BY TypeInit, FormInit
<1>2. TypeInv /\ FormInv /\ [Next]_vars => (TypeInv /\ FormInv)'
  BY TypeNext, FormNext
<1>3. FormInv => TreeShape
  BY OverlayShaped DEF FormInv, TreeShape, Shaped
<1> QED
  BY <1>1, <1>2, <1>3, PTL DEF Spec
-----------------------------------------------------------------------------
(* Search.  The buckets of the path to leaf y of tree i from level lo + 1  *)
(* down that the server has are the ones in accessed[i], in order.         *)
ReadBelow(i, y, lo) ==
  LET A == accessed[i]
  IN /\ Len(A) + lo <= i
     /\ \A c \in 1..Len(A) : A[c] = P(y, lo + c)
     /\ \A k \in (lo + 1)..i : P(y, k) \in DOMAIN oram[i] => k - lo <= Len(A)

Searched(i) ==
  \/ pc = "read" /\ i < i_tree
  \/ pc = "probe" /\ i <= i_tree
  \/ pc \in {"absorb", "remap", "evict", "finish"}

ReadInv ==
  /\ pc # "idle" =>
       \A i \in 1..L :
         /\ Searched(i) => ReadBelow(i, leaf_accessed[i], 0)
         /\ pc = "build" \/ (pc \in {"read", "probe"} /\ i > i_tree)
              => accessed[i] = <<>>
  /\ pc = "read" => ReadBelow(i_tree, x, l)
  /\ pc = "evict" => x = leaf_accessed[i_tree]


LEMMA ReadInit == Init => ReadInv
BY DEF Init, ReadInv, Searched

(* One level more: a bucket that is missing has none below it.             *)
LEMMA ReadReadBucket ==
  TypeInv /\ FormInv /\ ReadInv /\ ReadBucket => ReadInv'
<1> SUFFICES ASSUME TypeInv, FormInv, ReadInv, ReadBucket PROVE ReadInv'
  OBVIOUS
<1> DEFINE i == i_tree
           A == accessed[i]
           t == oram[i]
<1>1. /\ pc = "read" /\ pc' = "read" /\ i \in 1..L /\ l \in Nat /\ l >= 1
      /\ l <= i /\ l' = l - 1 /\ x \in Path /\ Len(x) = i - 1
      /\ UNCHANGED <<L, oram, i_tree, x, leaf_accessed>>
      /\ accessed \in [1..L -> Seq(Path)]
  BY LeafIsPath DEF ReadBucket, server, TypeInv, TypeOK, ShapeInv
<1>2. Len(A) \in Nat /\ Len(A) + l <= i
      /\ (\A c \in 1..Len(A) : A[c] = P(x, l + c))
      /\ (\A k \in (l + 1)..i : P(x, k) \in DOMAIN t => k - l <= Len(A))
  BY <1>1 DEF ReadInv, ReadBelow
<1>3. ASSUME P(x, l) \in DOMAIN t
      PROVE  ReadBelow(i_tree, x, l)'
  <2>1. accessed'[i] = <<P(x, l)>> \o A
    BY <1>1, <1>3 DEF ReadBucket
  <2> DEFINE B == <<P(x, l)>> \o A
  <2>2. Len(B) = Len(A) + 1 /\ B[1] = P(x, l)
        /\ \A c \in 2..(Len(A) + 1) : B[c] = A[c - 1]
    BY <1>1
  <2> HIDE DEF A, B
  <2>3. Len(B) + (l - 1) <= i
    BY <1>1, <1>2, <2>2
  <2>4. ASSUME NEW c \in 1..Len(B) PROVE B[c] = P(x, l - 1 + c)
    <3>1. CASE c = 1
      BY <1>1, <2>2, <3>1
    <3>2. CASE c # 1
      <4>1. c - 1 \in 1..Len(A) /\ l + (c - 1) = l - 1 + c
        BY <1>1, <1>2, <2>2, <3>2
      <4> QED BY <1>2, <2>2, <3>2, <4>1
    <3> QED BY <3>1, <3>2
  <2>5. ASSUME NEW k \in (l - 1 + 1)..i, P(x, k) \in DOMAIN t
        PROVE  k - (l - 1) <= Len(B)
    <3>1. k \in Int /\ (k = l \/ k \in (l + 1)..i)
      BY <1>1
    <3> QED BY <1>1, <1>2, <2>2, <2>5, <3>1
  <2> QED BY <1>1, <2>1, <2>3, <2>4, <2>5 DEF ReadBelow, B
<1>4. ASSUME P(x, l) \notin DOMAIN t
      PROVE  ReadBelow(i_tree, x, l)'
  <2>1. accessed' = accessed
    BY <1>1, <1>4 DEF ReadBucket
  <2>2. Len(A) = 0
    <3> SUFFICES ASSUME Len(A) >= 1 PROVE FALSE
      BY <1>2
    <3>1. A[1] = P(x, l + 1) /\ 1 \in 1..Len(A)
      BY <1>1, <1>2
    <3>2. P(x, l + 1) \in DOMAIN t
      BY <1>1, <3>1 DEF TypeInv, ShapeInv
    <3>3. P(x, l + 1) # <<>> /\ Front(P(x, l + 1)) = P(x, l)
      <4>1. l + 1 \in 2..(Len(x) + 1) /\ l + 1 - 1 = l
        BY <1>1, <1>2
      <4> QED BY <1>1, <4>1, FrontOfP
    <3> QED BY <1>1, <1>4, <3>2, <3>3 DEF FormInv, Shaped
  <2>3. ASSUME NEW k \in (l - 1 + 1)..i PROVE P(x, k) \notin DOMAIN t
    <3>1. k \in Int /\ (k = l \/ k \in (l + 1)..i)
      BY <1>1
    <3> QED BY <1>1, <1>2, <1>4, <2>2, <3>1
  <2> QED BY <1>1, <2>1, <2>2, <2>3 DEF ReadBelow
<1>5. ReadBelow(i_tree, x, l)'
  BY <1>1, <1>3, <1>4
<1>6. ASSUME NEW j \in 1..L, j # i_tree PROVE accessed'[j] = accessed[j]
  BY <1>1, <1>6 DEF ReadBucket
<1>7. \A j \in 1..L : Searched(j)' => j # i_tree /\ Searched(j)
  BY <1>1 DEF Searched
<1> QED
  BY <1>1, <1>5, <1>6, <1>7 DEF ReadInv, ReadBelow

LEMMA ReadEndOfPath == TypeInv /\ ReadInv /\ EndOfPath => ReadInv'
<1> SUFFICES ASSUME TypeInv, ReadInv, EndOfPath PROVE ReadInv'
  OBVIOUS
<1>1. /\ pc = "read" /\ l = 0 /\ i_tree \in 1..L
      /\ UNCHANGED <<L, oram, i_tree, x, accessed>>
      /\ leaf_accessed' = [leaf_accessed EXCEPT ![i_tree] = x]
      /\ leaf_accessed \in [1..L -> Path]
      /\ (pc' = "absorb" /\ i_tree = L) \/ pc' = "probe"
  BY DEF EndOfPath, server, TypeInv, TypeOK
<1>2. ASSUME NEW j \in 1..L, Searched(j)'
      PROVE  ReadBelow(j, leaf_accessed[j], 0)'
  <2>1. CASE j = i_tree
    BY <1>1, <2>1 DEF ReadInv, ReadBelow
  <2>2. CASE j # i_tree
    BY <1>1, <1>2, <2>2 DEF ReadInv, ReadBelow, Searched
  <2> QED BY <2>1, <2>2
<1> QED
  BY <1>1, <1>2 DEF ReadInv

(* The next tree's path is about to be read.                               *)
LEMMA ReadSearchNextTree ==
  ASSUME TypeInv, ReadInv, pc = "probe", NEW leaf, SearchNextTree(leaf),
         UNCHANGED <<L, oram, accessed, leaf_accessed>>
  PROVE  ReadInv'
<1>1. i_tree \in 1..L /\ i_tree < L /\ pc' = "read" /\ l' = i_tree + 1
      /\ i_tree' = i_tree + 1 /\ i_tree' \in 1..L
  BY DEF TypeInv, TypeOK, ShapeInv, SearchNextTree
<1>2. accessed[i_tree'] = <<>>
  BY <1>1 DEF ReadInv
<1>3. ReadBelow(i_tree, x, l)'
  BY <1>1, <1>2 DEF ReadBelow
<1>4. \A i \in 1..L : Searched(i)' => Searched(i)
  BY <1>1 DEF Searched
<1>5. \A i \in 1..L : i > i_tree' => i > i_tree
  BY <1>1
<1> QED
  BY <1>1, <1>3, <1>4, <1>5 DEF ReadInv, ReadBelow

LEMMA ReadNext == TypeInv /\ FormInv /\ ReadInv /\ [Next]_vars => ReadInv'
<1> SUFFICES ASSUME TypeInv, FormInv, ReadInv, [Next]_vars PROVE ReadInv'
  OBVIOUS
<1>1. ASSUME NEW o, NEW a, NEW v, NEW one, Begin(o, a, v, one)
      PROVE  ReadInv'
  BY <1>1 DEF Begin, server, ReadInv, Searched
<1>2. CASE pc' = "idle"
  BY <1>2 DEF ReadInv, Searched
<1>3. CASE BuildToken
  <2>1. /\ pc = "build" /\ UNCHANGED <<L, accessed, leaf_accessed>>
        /\ pc' = "build" \/ (pc' = "read" /\ i_tree' = 1 /\ l' = 1)
    BY <1>3 DEF BuildToken
  <2>2. L \in Nat \ {0}
    BY DEF TypeInv, TypeOK
  <2>3. \A i \in 1..L : accessed[i] = <<>>
    BY <2>1 DEF ReadInv
  <2>4. \A i \in 1..L : ~Searched(i)'
    BY <2>1 DEF Searched
  <2>5. pc' = "read" => ReadBelow(i_tree, x, l)'
    BY <2>1, <2>2, <2>3 DEF ReadBelow
  <2> QED BY <2>1, <2>3, <2>4, <2>5 DEF ReadInv
<1>4. CASE ReadBucket
  BY <1>4, ReadReadBucket
<1>5. CASE EndOfPath
  BY <1>5, ReadEndOfPath
<1>6. CASE ProbeHit
  BY <1>6, ReadSearchNextTree DEF ProbeHit, server
<1>7. CASE ProbeMiss
  BY <1>7 DEF ProbeMiss, server, ReadInv, Searched, ReadBelow
<1>8. CASE ProbeEnd
  BY <1>8, ReadSearchNextTree DEF ProbeEnd, server
<1>9. CASE WriteResponseToStash
  BY <1>9 DEF WriteResponseToStash, server, ReadInv, Searched, ReadBelow
<1>10. ASSUME NEW new_x, Remap(new_x)
       PROVE  ReadInv'
  BY <1>10 DEF Remap, server, ReadInv, Searched, ReadBelow
<1>11. CASE EvictLevel
  BY <1>11 DEF EvictLevel, server, ReadInv, Searched, ReadBelow
<1>12. CASE EndOfTree
  BY <1>12 DEF EndOfTree, server, ReadInv, Searched, ReadBelow
<1>13. CASE UNCHANGED vars
  BY <1>13 DEF vars, server, call, local, ReadInv, Searched, ReadBelow
<1>14. \A a, v : Reject(a, v) => pc' = "idle"
  BY DEF Reject
<1>15. Complete \/ Finish \/ (\E m : SetL(m)) => pc' = "idle"
  BY DEF Complete, Finish, SetL
<1>16. \A new_x : RemapData(new_x) \/ RemapPointer(new_x) => Remap(new_x)
  BY DEF RemapData, RemapPointer
<1> QED
  BY <1>1, <1>2, <1>3, <1>4, <1>5, <1>6, <1>7, <1>8, <1>9, <1>10, <1>11,
     <1>12, <1>13, <1>14, <1>15, <1>16 DEF Next, Caller, Step
-----------------------------------------------------------------------------
(* The pending token is applied before the search, and the keys sent are   *)
(* made with the root masks that the buckets have then.                    *)
KeySent(i) ==
  tokens[i].ST = ClientBuildSearchKey(tokens[i].a, tokens[i].b, roots[i])

SentInv ==
  /\ pc # "idle" /\ ~oneRound => pending = NoToken
  /\ pc \notin {"idle", "build"} =>
       \A i \in 1..L : Overlay(oram[i], pending[i]) = oram[i]
  /\ pc = "build" => \A i \in (i_tree + 1)..(L - 1) : KeySent(i)
  /\ pc \in {"read", "probe"} => \A i \in 1..(L - 1) : KeySent(i)

LEMMA OverlayTwice ==
  ASSUME NEW f, NEW g
  PROVE  Overlay(Overlay(f, g), g) = Overlay(f, g)
BY DEF Overlay

LEMMA OverlayEmpty ==
  ASSUME NEW f, f = [p \in DOMAIN f |-> f[p]]
  PROVE  Overlay(f, EmptyMap) = f
BY DEF Overlay, EmptyMap

LEMMA OverlayNothing ==
  ASSUME TypeInv, NEW i \in 1..L
  PROVE  Overlay(oram[i], EmptyMap) = oram[i]
<1>1. oram[i] = [p \in DOMAIN oram[i] |-> oram[i][p]]
  BY DEF TypeInv, TypeOK, IsTree
<1> QED BY <1>1, OverlayEmpty

LEMMA SentBuildToken == TypeInv /\ SentInv /\ BuildToken => SentInv'
<1> SUFFICES ASSUME TypeInv, SentInv, BuildToken PROVE SentInv'
  OBVIOUS
<1>1. /\ pc = "build" /\ UNCHANGED <<L, roots, pending, oneRound>>
      /\ i_tree \in 1..L /\ L \in Nat \ {0} /\ DOMAIN tokens = 1..L
  BY DEF BuildToken, client, call, TypeInv, TypeOK
<1>2. ASSUME NEW j \in 1..(L - 1), j = i_tree PROVE KeySent(j)'
  BY <1>1, <1>2 DEF BuildToken, KeySent
<1>3. ASSUME NEW j \in (i_tree + 1)..(L - 1) PROVE KeySent(j)'
  BY <1>1, <1>3 DEF BuildToken, KeySent, SentInv
<1>4. ASSUME NEW j \in i_tree..(L - 1) PROVE KeySent(j)'
  <2>1. j \in 1..(L - 1) /\ (j = i_tree \/ j \in (i_tree + 1)..(L - 1))
    BY <1>1
  <2> QED BY <1>2, <1>3, <2>1
<1>5. CASE i_tree > 1
  BY <1>1, <1>4, <1>5 DEF BuildToken, SentInv, NoToken
<1>6. CASE i_tree = 1
  <2>1. pc' = "read"
        /\ oram' = IF oneRound THEN Shuffled(pending) ELSE oram
    BY <1>6 DEF BuildToken
  <2>2. ASSUME NEW j \in 1..L
        PROVE  Overlay(oram'[j], pending[j]) = oram'[j]
    <3>1. CASE oneRound
      BY <2>1, <3>1, OverlayTwice DEF Shuffled
    <3>2. CASE ~oneRound
      BY <1>1, <2>1, <3>2, OverlayNothing DEF SentInv, NoToken
    <3> QED BY <3>1, <3>2
  <2> QED BY <1>1, <1>4, <1>6, <2>1, <2>2 DEF SentInv, NoToken
<1> QED
  BY <1>1, <1>5, <1>6

LEMMA SentNext == TypeInv /\ SentInv /\ [Next]_vars => SentInv'
<1> SUFFICES ASSUME TypeInv, SentInv, [Next]_vars PROVE SentInv'
  OBVIOUS
<1>1. ASSUME NEW o, NEW a, NEW v, NEW one, Begin(o, a, v, one)
      PROVE  SentInv'
  BY <1>1 DEF Begin, server, client, SentInv, NoToken, TypeInv, TypeOK
<1>2. CASE pc' = "idle"
  BY <1>2 DEF SentInv
<1>3. CASE BuildToken
  BY <1>3, SentBuildToken
<1>4. CASE /\ UNCHANGED <<L, roots, oram, pending, oneRound, tokens>>
           /\ pc \in {"read", "probe"} /\ pc' \notin {"idle", "build"}
  BY <1>4 DEF SentInv, KeySent, NoToken
<1>5. CASE /\ UNCHANGED <<L, oram, pending, oneRound>>
           /\ pc \notin {"idle", "build"}
           /\ pc' \notin {"idle", "build", "read", "probe"}
  BY <1>5 DEF SentInv, NoToken
<1>6. ReadBucket \/ EndOfPath \/ ProbeHit \/ ProbeMiss \/ ProbeEnd
      => /\ UNCHANGED <<L, roots, oram, pending, oneRound, tokens>>
         /\ pc \in {"read", "probe"} /\ pc' \notin {"idle", "build"}
  BY DEF ReadBucket, EndOfPath, ProbeHit, ProbeMiss, ProbeEnd, SearchNextTree,
     server, client, call
<1>7. WriteResponseToStash \/ EvictLevel \/ EndOfTree
      => /\ UNCHANGED <<L, oram, pending, oneRound>>
         /\ pc \notin {"idle", "build"}
         /\ pc' \notin {"idle", "build", "read", "probe"}
  BY DEF WriteResponseToStash, EvictLevel, EndOfTree, server, client, call
<1>8. ASSUME NEW new_x, RemapData(new_x) \/ RemapPointer(new_x)
      PROVE  /\ UNCHANGED <<L, oram, pending, oneRound>>
             /\ pc \notin {"idle", "build"}
             /\ pc' \notin {"idle", "build", "read", "probe"}
  BY <1>8 DEF RemapData, RemapPointer, Remap, server
<1>9. \A a, v : Reject(a, v) => pc' = "idle"
  BY DEF Reject
<1>10. Complete \/ Finish \/ (\E m : SetL(m)) => pc' = "idle"
  BY DEF Complete, Finish, SetL
<1>11. CASE UNCHANGED vars
  BY <1>11 DEF vars, server, client, call, local, SentInv, KeySent, NoToken
<1> QED
  BY <1>1, <1>2, <1>3, <1>4, <1>5, <1>6, <1>7, <1>8, <1>9, <1>10, <1>11
     DEF Next, Caller, Step
-----------------------------------------------------------------------------
(* The chain of masks.                                                     *)

Chained(t) ==
  \A p \in DOMAIN t :
    t[p].mmf = SymDiff(t[p].M, IF p = <<>> THEN NoMask ELSE t[Front(p)].M)

RootMask(t, M) == <<>> \in DOMAIN t => t[<<>>].M = M

Rebuilt(i) == pc = "finish" \/ (pc \in {"remap", "evict"} /\ i > i_tree)
InHand(i) == pc = "evict" /\ i = i_tree

(* The path of the tree in hand, rebuilt from the leaf up to level l + 1:  *)
(* new masks on it, the old ones beside it, all chained to new fathers.    *)
PathRebuilt(i) ==
  LET t == sf[i]
  IN /\ roots[i] = Seed(i, <<>>)
     /\ DOMAIN t = UNION {{P(x, k), GetSibling(P(x, k))} : k \in (l + 1)..i}
     /\ \A k \in (l + 1)..i :
          LET p == P(x, k)
              s == GetSibling(p)
          IN /\ t[p].M = Seed(i, p)
             /\ t[p].mmf = SymDiff(t[p].M, FatherMask(p))
             /\ p # <<>> /\ s \in DOMAIN oram[i] => t[s].M = oram[i][s].M
             /\ p # <<>> => t[s].mmf = SymDiff(t[s].M, FatherMask(p))

(* The masks of tree i: chained as the server has them and as it will have *)
(* them, with the root mask the client has.                                *)
MasksOf(i) ==
  /\ Chained(oram[i])
  /\ Chained(Overlay(oram[i], pending[i]))
  /\ Rebuilt(i) => /\ Chained(Overlay(oram[i], sf[i]))
                   /\ RootMask(Overlay(oram[i], sf[i]), roots[i])
  /\ InHand(i) => PathRebuilt(i)
  /\ ~Rebuilt(i) /\ ~InHand(i) =>
       /\ sf[i] = EmptyMap
       /\ RootMask(Overlay(oram[i], pending[i]), roots[i])

MaskInv == \A i \in 1..(L - 1) : MasksOf(i)

LEMMA EmptyChained ==
  ASSUME NEW M
  PROVE  Chained(EmptyMap) /\ RootMask(EmptyMap, M)
         /\ Overlay(EmptyMap, EmptyMap) = EmptyMap
BY DEF Chained, RootMask, EmptyMap, Overlay

LEMMA MaskInit == Init => MaskInv
<1> SUFFICES ASSUME Init, NEW i \in 1..(L - 1)
             PROVE  /\ oram[i] = EmptyMap /\ pending[i] = EmptyMap
                    /\ sf[i] = EmptyMap /\ ~Rebuilt(i) /\ ~InHand(i)
  BY EmptyChained DEF MaskInv, MasksOf
<1>1. i \in 1..L
  BY ConstantAssumption DEF Init
<1> QED
  BY <1>1 DEF Init, NoToken, Rebuilt, InHand

(* Two paths with one father are the same or siblings.                     *)
LEMMA SameFather ==
  ASSUME NEW p \in Path, NEW q \in Path, p # <<>>, q # <<>>,
         Front(p) = Front(q)
  PROVE  q = p \/ q = GetSibling(p)
<1> DEFINE n == Len(p)
<1>1. /\ n \in Nat \ {0} /\ p = [i \in 1..n |-> p[i]] /\ p[n] \in Sides
      /\ Len(q) \in Nat \ {0} /\ q = [i \in 1..Len(q) |-> q[i]]
      /\ q[Len(q)] \in Sides
  BY DEF Path
<1>2. Len(q) = n
  <2>1. Len(Front(p)) = n - 1
    BY FrontPath
  <2>2. Len(Front(q)) = Len(q) - 1
    BY FrontPath
  <2>3. n - 1 = Len(q) - 1
    BY <2>1, <2>2, Zenon
  <2>4. n \in Int /\ Len(q) \in Int
    BY <1>1
  <2> QED BY <2>3, <2>4
<1> HIDE DEF n
<1>3. \A i \in 1..(n - 1) : q[i] = p[i]
  <2>1. Front(p) = [i \in 1..(n - 1) |-> p[i]]
        /\ Front(q) = [i \in 1..(n - 1) |-> q[i]]
    BY <1>1, <1>2 DEF Front, Path, n
  <2> QED BY <2>1
<1>4. GetSibling(p) = [i \in 1..n |-> IF i = n THEN 1 - p[n] ELSE p[i]]
  BY <1>1 DEF GetSibling, n
<1>5. q[n] = p[n] \/ q[n] = 1 - p[n]
  BY <1>1, <1>2 DEF Sides
<1>6. \A i \in 1..n : i = n \/ i \in 1..(n - 1)
  BY <1>1
<1>7. CASE q[n] = p[n]
  BY <1>1, <1>2, <1>3, <1>6, <1>7
<1>8. CASE q[n] = 1 - p[n]
  BY <1>1, <1>2, <1>3, <1>4, <1>6, <1>8
<1> QED BY <1>5, <1>7, <1>8

(* A bucket of the path that the server has was read.                      *)
LEMMA BucketRead ==
  ASSUME TypeInv, ReadInv, pc = "evict", l >= 1,
         P(x, l) \in DOMAIN oram[i_tree]
  PROVE  P(x, l) \in Range(accessed[i_tree])
<1> DEFINE A == accessed[i_tree]
<1>1. i_tree \in 1..L /\ l \in Nat /\ l \in 1..i_tree /\ A \in Seq(Path)
  BY DEF TypeInv, TypeOK, ShapeInv
<1>2. ReadBelow(i_tree, x, 0)
  BY <1>1 DEF ReadInv, Searched
<1>3. l \in 1..Len(A) /\ A[l] = P(x, l)
  BY <1>1, <1>2 DEF ReadBelow
<1>4. l \in DOMAIN A
  BY <1>1, <1>3
<1> QED BY <1>3, <1>4 DEF Range

(* One level: the new buckets continue the chain that is being built.      *)
LEMMA RebuildLevel ==
  ASSUME TypeInv, FormInv, ReadInv, MaskInv, EvictLevel, i_tree < L
  PROVE  PathRebuilt(i_tree)'
<1> DEFINE i == i_tree
           p == P(x, l)
           s == GetSibling(p)
           t == sf[i]
           u == sf'[i]
           o == oram[i]
<1>1. /\ pc = "evict" /\ i \in 1..L /\ L \in Nat /\ l \in Nat \ {0} /\ l <= i
      /\ x \in Path /\ Len(x) = i - 1 /\ DOMAIN sf = 1..L /\ l' = l - 1
      /\ UNCHANGED <<L, oram, roots, i_tree, x>>
  BY LeafIsPath DEF EvictLevel, server, TypeInv, TypeOK, ShapeInv
<1>2. PICK blocks : sf' = [sf EXCEPT ![i_tree] = Overlay(@, AddPathNodes(p, blocks))]
  BY DEF EvictLevel
<1>3. p \in Path /\ Len(p) = l - 1 /\ s \in Path /\ Len(s) = l - 1
  BY <1>1, PathOfLeaf, SiblingPath
<1>4. PathRebuilt(i)
  BY <1>1 DEF MaskInv, MasksOf, InHand
<1>5. DOMAIN u = DOMAIN t \cup {p, s}
  BY <1>1, <1>2 DEF Overlay, AddPathNodes
<1>6. \A q \in DOMAIN t : q \notin {p, s} => u[q] = t[q]
  BY <1>1, <1>2 DEF Overlay, AddPathNodes
<1>7. u[p] = BuildBucket(NodeMask(i, p), FatherMask(p), blocks)
      /\ (s # p => u[s] = SiblingBucket(p))
  BY <1>1, <1>2 DEF Overlay, AddPathNodes
<1>8. \A q : NodeMask(i, q) = Seed(i, q)
  BY <1>1 DEF NodeMask
<1>9. u[p].M = Seed(i, p) /\ u[p].mmf = SymDiff(u[p].M, FatherMask(p))
  BY <1>7, <1>8 DEF BuildBucket
<1>10. p # <<>> => u[s].mmf = SymDiff(u[s].M, FatherMask(p))
  BY <1>3, <1>7, SiblingFacts DEF SiblingBucket, BuildBucket
<1>11. ASSUME p # <<>>, s \in DOMAIN o
       PROVE  u[s].M = o[s].M
  <2>1. p \in DOMAIN o /\ s # p
    BY <1>1, <1>3, <1>11, SiblingFacts DEF FormInv, Shaped
  <2>2. p \in Range(accessed[i])
    BY <1>1, <2>1, BucketRead
  <2> QED BY <1>7, <1>11, <2>1, <2>2 DEF SiblingBucket, BuildBucket
<1>12. ASSUME NEW k \in (l + 1)..i
       PROVE  /\ P(x, k) \in DOMAIN t /\ GetSibling(P(x, k)) \in DOMAIN t
              /\ u[P(x, k)] = t[P(x, k)]
              /\ u[GetSibling(P(x, k))] = t[GetSibling(P(x, k))]
  <2>1. k \in 1..(Len(x) + 1) /\ k # l
    BY <1>1
  <2>2. Len(P(x, k)) = k - 1 /\ Len(GetSibling(P(x, k))) = k - 1
    BY <1>1, <2>1, PathOfLeaf, SiblingPath
  <2>3. P(x, k) \notin {p, s} /\ GetSibling(P(x, k)) \notin {p, s}
    BY <1>1, <1>3, <2>1, <2>2
  <2>4. P(x, k) \in DOMAIN t /\ GetSibling(P(x, k)) \in DOMAIN t
    BY <1>4, <1>12 DEF PathRebuilt
  <2> QED BY <1>6, <2>3, <2>4
<1>13. \A q : Seed(i, q)' = Seed(i, q) /\ FatherMask(q)' = FatherMask(q)
  BY <1>1 DEF Seed, FatherMask, NodeMask
<1>14. DOMAIN u = UNION {{P(x, k), GetSibling(P(x, k))} : k \in l..i}
  <2>1. \A k : k \in l..i <=> (k = l \/ k \in (l + 1)..i)
    BY <1>1
  <2>2. DOMAIN t = UNION {{P(x, k), GetSibling(P(x, k))} : k \in (l + 1)..i}
    BY <1>4 DEF PathRebuilt
  <2> HIDE DEF t, u
  <2> QED BY <1>5, <2>1, <2>2
<1>15. ASSUME NEW k \in l..i
       PROVE  LET q == P(x, k)
                  r == GetSibling(q)
              IN /\ u[q].M = Seed(i, q)
                 /\ u[q].mmf = SymDiff(u[q].M, FatherMask(q))
                 /\ q # <<>> /\ r \in DOMAIN o => u[r].M = o[r].M
                 /\ q # <<>> => u[r].mmf = SymDiff(u[r].M, FatherMask(q))
  <2>1. CASE k = l
    BY <1>9, <1>10, <1>11, <2>1
  <2>2. CASE k \in (l + 1)..i
    BY <1>4, <1>12, <2>2 DEF PathRebuilt
  <2>3. k = l \/ k \in (l + 1)..i
    BY <1>1
  <2> QED BY <2>1, <2>2, <2>3
<1>16. roots'[i] = Seed(i, <<>>)
  BY <1>1, <1>4 DEF PathRebuilt
<1>17. l' + 1 = l
  BY <1>1
<1> QED
  BY <1>1, <1>13, <1>14, <1>15, <1>16, <1>17 DEF PathRebuilt

(* The whole path: a bucket that was not rebuilt has a father that kept    *)
(* its mask, for the children of the path's buckets were all rebuilt.      *)
LEMMA RebuildTree ==
  ASSUME TypeInv, FormInv, MaskInv, EndOfTree, i_tree < L
  PROVE  /\ Chained(Overlay(oram[i_tree], sf[i_tree]))
         /\ RootMask(Overlay(oram[i_tree], sf[i_tree]), roots[i_tree])
<1> DEFINE i == i_tree
           t == sf[i]
           o == oram[i]
           u == Overlay(o, t)
<1>1. pc = "evict" /\ l = 0 /\ i \in 1..L /\ L \in Nat /\ x \in Path
      /\ Len(x) = i - 1
  BY LeafIsPath DEF EndOfTree, TypeInv, TypeOK, ShapeInv
<1>2. PathRebuilt(i) /\ Chained(o) /\ Shaped(o)
  BY <1>1 DEF MaskInv, MasksOf, InHand, FormInv
<1>3. DOMAIN t = UNION {{P(x, k), GetSibling(P(x, k))} : k \in 1..i}
  BY <1>1, <1>2 DEF PathRebuilt
<1>4. ASSUME NEW k \in 1..i
      PROVE  /\ P(x, k) \in DOMAIN t /\ t[P(x, k)].M = Seed(i, P(x, k))
             /\ t[P(x, k)].mmf = SymDiff(t[P(x, k)].M, FatherMask(P(x, k)))
             /\ P(x, k) # <<>> =>
                  LET s == GetSibling(P(x, k))
                  IN /\ s \in DOMAIN t
                     /\ s \in DOMAIN o => t[s].M = o[s].M
                     /\ t[s].mmf = SymDiff(t[s].M, FatherMask(P(x, k)))
  BY <1>1, <1>2, <1>3 DEF PathRebuilt
<1>5. ASSUME NEW k \in 1..i
      PROVE  P(x, k) \in Path /\ Len(P(x, k)) = k - 1
  BY <1>1, PathOfLeaf
<1>6. ASSUME NEW k \in 1..i, P(x, k) # <<>>
      PROVE  k - 1 \in 1..i /\ Front(P(x, k)) = P(x, k - 1)
  <2>1. k # 1
    BY <1>5, <1>6 DEF Path
  <2>2. k \in 2..(Len(x) + 1)
    BY <1>1, <2>1
  <2> QED BY <1>1, <2>1, <2>2, FrontOfP
<1>7. \A q : NodeMask(i, q) = Seed(i, q)
  BY <1>1 DEF NodeMask
<1>8. ASSUME NEW q \in DOMAIN t
      PROVE  t[q].mmf =
               SymDiff(t[q].M, IF q = <<>> THEN NoMask ELSE u[Front(q)].M)
  <2>1. PICK k \in 1..i : q \in {P(x, k), GetSibling(P(x, k))}
    BY <1>3
  <2>2. CASE P(x, k) = <<>>
    <3>1. q = P(x, k) /\ q = <<>>
      BY <2>1, <2>2 DEF GetSibling
    <3> QED BY <1>4, <3>1 DEF FatherMask
  <2>3. CASE P(x, k) # <<>>
    <3>1. q # <<>> /\ Front(q) = P(x, k - 1) /\ k - 1 \in 1..i
      BY <1>5, <1>6, <2>1, <2>3, SiblingFacts
    <3>2. u[Front(q)].M = Seed(i, P(x, k - 1))
      BY <1>4, <3>1 DEF Overlay
    <3>3. FatherMask(P(x, k)) = Seed(i, P(x, k - 1))
      BY <1>6, <1>7, <2>3 DEF FatherMask
    <3> QED BY <1>4, <2>1, <2>3, <3>1, <3>2, <3>3
  <2> QED BY <2>2, <2>3
<1>9. <<>> \in DOMAIN t /\ t[<<>>].M = Seed(i, <<>>)
  <2>1. 1 \in 1..i /\ P(x, 1) = <<>>
    BY <1>1 DEF P, Path
  <2> QED BY <1>4, <2>1
<1>10. ASSUME NEW q \in DOMAIN o, q \notin DOMAIN t
       PROVE  q # <<>> /\ u[Front(q)].M = o[Front(q)].M
  <2>1. q # <<>>
    BY <1>9, <1>10
  <2> DEFINE f == Front(q)
  <2>2. q \in Path /\ Len(q) < i /\ f \in DOMAIN o /\ Len(f) = Len(q) - 1
    BY <1>1, <1>2, <2>1, FrontPath DEF Shaped, TypeInv, TypeOK, IsTree
  <2>3. CASE f \notin DOMAIN t
    BY <2>1, <2>2, <2>3 DEF Overlay
  <2>4. CASE f \in DOMAIN t
    <3>1. PICK k \in 1..i : f \in {P(x, k), GetSibling(P(x, k))}
      BY <1>3, <2>4
    <3>2. f # P(x, k)
      <4> SUFFICES ASSUME f = P(x, k) PROVE FALSE
        OBVIOUS
      <4>1. Len(q) = k /\ k + 1 \in 1..i /\ k + 1 \in 2..(Len(x) + 1)
            /\ k + 1 - 1 = k
        BY <1>1, <1>5, <2>2 DEF Path
      <4>2. P(x, k + 1) # <<>> /\ Front(P(x, k + 1)) = f
        BY <1>1, <4>1, FrontOfP
      <4>3. q = P(x, k + 1) \/ q = GetSibling(P(x, k + 1))
        BY <1>5, <2>1, <2>2, <4>1, <4>2, SameFather
      <4>4. q \in DOMAIN t
        BY <1>3, <4>1, <4>3
      <4> QED BY <1>10, <4>4
    <3>3. P(x, k) # <<>>
      BY <3>1, <3>2 DEF GetSibling
    <3>4. t[f].M = o[f].M
      BY <1>4, <2>2, <3>1, <3>2, <3>3
    <3> QED BY <2>1, <2>4, <3>4 DEF Overlay
  <2> QED BY <2>3, <2>4
<1>11. Chained(u)
  <2> SUFFICES ASSUME NEW q \in DOMAIN u
               PROVE  u[q].mmf = SymDiff(u[q].M, IF q = <<>> THEN NoMask
                                                ELSE u[Front(q)].M)
    BY DEF Chained
  <2>1. CASE q \in DOMAIN t
    BY <1>8, <2>1 DEF Overlay
  <2>2. CASE q \notin DOMAIN t
    <3>1. q \in DOMAIN o /\ u[q] = o[q]
      BY <2>2 DEF Overlay
    <3>2. q # <<>> /\ u[Front(q)].M = o[Front(q)].M
      BY <1>10, <2>2, <3>1
    <3> HIDE DEF u, o, t
    <3> QED BY <1>2, <3>1, <3>2 DEF Chained
  <2> QED BY <2>1, <2>2
<1>12. RootMask(u, roots[i])
  BY <1>2, <1>9 DEF RootMask, PathRebuilt, Overlay
<1> QED
  BY <1>11, <1>12

(* Whatever is not written keeps its part of the invariant.                *)
LEMMA MaskKept ==
  ASSUME MaskInv, L' = L, NEW i \in 1..(L - 1),
         oram'[i] = oram[i], pending'[i] = pending[i], sf'[i] = sf[i],
         roots'[i] = roots[i], ~InHand(i), ~InHand(i)', Rebuilt(i)' = Rebuilt(i)
  PROVE  MasksOf(i)'
BY DEF MaskInv, MasksOf

LEMMA MaskRemap ==
  ASSUME TypeInv, MaskInv, NEW new_x, Remap(new_x)
  PROVE  MaskInv'
<1>1. /\ pc = "remap" /\ pc' = "evict" /\ i_tree \in 1..L /\ L \in Nat
      /\ l' = i_tree /\ roots' = [roots EXCEPT ![i_tree] = Seed(i_tree, <<>>)]
      /\ DOMAIN roots = 1..L
      /\ UNCHANGED <<L, oram, pending, i_tree, sf>>
  BY DEF Remap, server, TypeInv, TypeOK
<1>2. ASSUME NEW i \in 1..(L - 1), i = i_tree
      PROVE  PathRebuilt(i)'
  <2>1. sf[i] = EmptyMap
    BY <1>1, <1>2 DEF MaskInv, MasksOf, Rebuilt, InHand
  <2>2. roots'[i] = Seed(i, <<>>) /\ Seed(i, <<>>)' = Seed(i, <<>>)
    BY <1>1, <1>2 DEF Seed
  <2>3. (l' + 1)..i = {} /\ DOMAIN EmptyMap = {}
    BY <1>1, <1>2 DEF EmptyMap
  <2> QED BY <1>1, <2>1, <2>2, <2>3 DEF PathRebuilt
<1>3. ASSUME NEW i \in 1..(L - 1)
      PROVE  /\ Rebuilt(i)' = Rebuilt(i) /\ ~InHand(i)
             /\ InHand(i)' <=> i = i_tree
             /\ i # i_tree => roots'[i] = roots[i]
             /\ i = i_tree => ~Rebuilt(i)
  BY <1>1 DEF Rebuilt, InHand
<1>4. ASSUME NEW i \in 1..(L - 1), i = i_tree
      PROVE  ~Rebuilt(i)' /\ InHand(i)' /\ PathRebuilt(i)'
  BY <1>2, <1>3, <1>4
<1>5. ASSUME NEW i \in 1..(L - 1)
      PROVE  MasksOf(i)'
  <2>1. CASE i = i_tree
    BY <1>1, <1>4, <2>1 DEF MaskInv, MasksOf
  <2>2. CASE i # i_tree
    BY <1>1, <1>3, <2>2, MaskKept
  <2> QED BY <2>1, <2>2
<1> QED
  BY <1>1, <1>5 DEF MaskInv

LEMMA MaskEvictLevel ==
  TypeInv /\ FormInv /\ ReadInv /\ MaskInv /\ EvictLevel => MaskInv'
<1> SUFFICES ASSUME TypeInv, FormInv, ReadInv, MaskInv, EvictLevel,
                    NEW i \in 1..(L - 1)
             PROVE  MasksOf(i)'
  BY DEF MaskInv, EvictLevel, server
<1>1. /\ pc = "evict" /\ pc' = "evict"
      /\ UNCHANGED <<L, oram, roots, pending, i_tree>>
      /\ \A j : j # i_tree => sf'[j] = sf[j]
  BY DEF EvictLevel, server, TypeInv, TypeOK
<1>2. Rebuilt(i)' = Rebuilt(i) /\ InHand(i)' = InHand(i)
  BY <1>1 DEF Rebuilt, InHand
<1>3. CASE i = i_tree
  <2>1. i_tree < L /\ ~Rebuilt(i) /\ InHand(i)
    BY <1>1, <1>3 DEF Rebuilt, InHand, TypeInv, TypeOK
  <2>2. PathRebuilt(i_tree)'
    BY <2>1, RebuildLevel
  <2>3. PathRebuilt(i)'
    BY <1>1, <1>3, <2>2
  <2> QED BY <1>1, <1>2, <2>1, <2>3 DEF MaskInv, MasksOf
<1>4. CASE i # i_tree
  BY <1>1, <1>2, <1>4, MaskKept DEF InHand
<1> QED
  BY <1>3, <1>4

LEMMA MaskEndOfTree ==
  TypeInv /\ FormInv /\ MaskInv /\ EndOfTree => MaskInv'
<1> SUFFICES ASSUME TypeInv, FormInv, MaskInv, EndOfTree PROVE MaskInv'
  OBVIOUS
<1>1. /\ pc = "evict" /\ UNCHANGED <<L, oram, roots, pending, sf>>
      /\ i_tree \in 1..L /\ L \in Nat
      /\ \/ i_tree > 1 /\ i_tree' = i_tree - 1 /\ pc' = "remap"
         \/ i_tree = 1 /\ pc' = "finish"
  BY DEF EndOfTree, server, client, TypeInv, TypeOK
<1>2. ASSUME NEW i \in 1..(L - 1)
      PROVE  ~InHand(i)' /\ (Rebuilt(i)' <=> Rebuilt(i) \/ i = i_tree)
  BY <1>1 DEF Rebuilt, InHand
<1>3. ASSUME NEW i \in 1..(L - 1), i = i_tree
      PROVE  Chained(Overlay(oram[i], sf[i]))
             /\ RootMask(Overlay(oram[i], sf[i]), roots[i])
  <2>1. i_tree < L
    BY <1>1, <1>3
  <2> QED BY <1>3, <2>1, RebuildTree
<1>4. ASSUME NEW i \in 1..(L - 1)
      PROVE  MasksOf(i)'
  <2>1. CASE i = i_tree
    BY <1>1, <1>2, <1>3, <2>1 DEF MaskInv, MasksOf
  <2>2. CASE i # i_tree
    <3>1. ~InHand(i)
      BY <2>2 DEF InHand
    <3>2. Rebuilt(i)' = Rebuilt(i)
      BY <1>2, <2>2 DEF Rebuilt
    <3> QED BY <1>1, <1>2, <3>1, <3>2, MaskKept
  <2> QED BY <2>1, <2>2
<1> QED
  BY <1>1, <1>4 DEF MaskInv

LEMMA MaskSetL ==
  ASSUME TypeInv, MaskInv, NEW m_L \in InitL..MaxL, SetL(m_L)
  PROVE  MaskInv'
<1> DEFINE k == m_L - L
<1>1. /\ L \in Nat \ {0} /\ m_L \in Nat /\ m_L > L /\ L' = m_L
      /\ pc' = "idle" /\ pc = "idle" /\ pending = NoToken
  BY ConstantAssumption DEF TypeInv, TypeOK, SetL
<1>2. /\ Chained(NewTree) /\ RootMask(NewTree, MaskOf(<<>>, 1))
      /\ Overlay(NewTree, EmptyMap) = NewTree
  BY OverlayEmpty DEF NewTree, Chained, RootMask, BuildBucket
<1>3. \A i : ~Rebuilt(i)' /\ ~InHand(i)' /\ ~Rebuilt(i) /\ ~InHand(i)
  BY <1>1 DEF Rebuilt, InHand
<1>4. ASSUME NEW i \in 1..(m_L - 1)
      PROVE  /\ Chained(oram'[i])
             /\ Overlay(oram'[i], pending'[i]) = oram'[i]
             /\ RootMask(oram'[i], roots'[i])
             /\ sf'[i] = EmptyMap
  <2>1. i \in 1..m_L
    BY <1>1
  <2>2. oram'[i] = IF i <= k THEN NewTree ELSE oram[i - k]
    BY <2>1 DEF SetL
  <2>3. roots'[i] = IF i <= k THEN MaskOf(<<>>, 1) ELSE roots[i - k]
    BY <2>1 DEF SetL
  <2>4. pending'[i] = EmptyMap /\ sf'[i] = EmptyMap
    BY <2>1 DEF SetL
  <2>5. CASE i <= k
    BY <1>2, <2>2, <2>3, <2>4, <2>5
  <2>6. CASE ~(i <= k)
    <3>1. i - k \in 1..(L - 1) /\ i - k \in 1..L
      BY <1>1, <2>6
    <3>2. pending[i - k] = EmptyMap
      BY <1>1, <3>1 DEF NoToken
    <3>3. Overlay(oram[i - k], EmptyMap) = oram[i - k]
      BY <3>1, OverlayNothing
    <3>4. Chained(oram[i - k]) /\ RootMask(oram[i - k], roots[i - k])
      BY <1>3, <3>1, <3>2, <3>3 DEF MaskInv, MasksOf
    <3> QED BY <2>2, <2>3, <2>4, <2>6, <3>3, <3>4
  <2> QED BY <2>5, <2>6
<1> QED
  BY <1>1, <1>3, <1>4 DEF MaskInv, MasksOf, Chained, RootMask

LEMMA MaskFinish ==
  TypeInv /\ SentInv /\ MaskInv /\ Finish => MaskInv'
<1> SUFFICES ASSUME TypeInv, SentInv, MaskInv, Finish PROVE MaskInv'
  OBVIOUS
<1>1. /\ pc = "finish" /\ pc' = "idle" /\ UNCHANGED <<L, roots>>
      /\ sf' = NoToken
      /\ \/ oneRound /\ pending' = sf /\ UNCHANGED oram
         \/ ~oneRound /\ oram' = Shuffled(sf) /\ UNCHANGED pending
  BY DEF Finish
<1>2. ASSUME NEW i \in 1..(L - 1)
      PROVE  /\ ~Rebuilt(i)' /\ ~InHand(i)' /\ sf'[i] = EmptyMap
             /\ Chained(oram'[i])
             /\ Chained(Overlay(oram'[i], pending'[i]))
             /\ RootMask(Overlay(oram'[i], pending'[i]), roots'[i])
  <2>1. i \in 1..L
    BY DEF TypeInv, TypeOK
  <2>2. ~Rebuilt(i)' /\ ~InHand(i)' /\ sf'[i] = EmptyMap
    BY <1>1, <2>1 DEF Rebuilt, InHand, NoToken
  <2> DEFINE u == Overlay(oram[i], sf[i])
  <2>3. Chained(u) /\ RootMask(u, roots[i]) /\ Chained(oram[i])
    BY <1>1 DEF MaskInv, MasksOf, Rebuilt
  <2>4. Overlay(u, EmptyMap) = u
    <3>1. u = [p \in DOMAIN u |-> u[p]]
      BY DEF Overlay
    <3> QED BY <3>1, OverlayEmpty
  <2>5. CASE oneRound
    BY <1>1, <2>2, <2>3, <2>5
  <2>6. CASE ~oneRound
    <3>1. pending'[i] = EmptyMap
      BY <1>1, <2>1, <2>6 DEF SentInv, NoToken
    <3>2. oram'[i] = u
      BY <1>1, <2>1, <2>6 DEF Shuffled
    <3> QED BY <1>1, <2>2, <2>3, <2>4, <3>1, <3>2
  <2> QED BY <2>5, <2>6
<1> QED
  BY <1>1, <1>2 DEF MaskInv, MasksOf, Chained, RootMask

(* The pending token reaches the server, with the next request or alone.   *)
LEMMA MaskShuffled ==
  ASSUME TypeInv, MaskInv, pc \in {"idle", "build"}, NEW i \in 1..(L - 1)
  PROVE  LET u == Shuffled(pending)[i]
         IN /\ Chained(u) /\ RootMask(u, roots[i])
            /\ Overlay(u, pending[i]) = u /\ Overlay(u, EmptyMap) = u
<1>1. i \in 1..L
  BY DEF TypeInv, TypeOK
<1> DEFINE u == Overlay(oram[i], pending[i])
<1>2. Shuffled(pending)[i] = u
  BY <1>1 DEF Shuffled
<1>3. Chained(u) /\ RootMask(u, roots[i])
  BY DEF MaskInv, MasksOf, Rebuilt, InHand
<1>4. u = [p \in DOMAIN u |-> u[p]]
  BY DEF Overlay
<1>5. Overlay(u, pending[i]) = u /\ Overlay(u, EmptyMap) = u
  BY <1>4, OverlayTwice, OverlayEmpty
<1> QED
  BY <1>2, <1>3, <1>5

LEMMA MaskComplete == TypeInv /\ MaskInv /\ Complete => MaskInv'
<1> SUFFICES ASSUME TypeInv, MaskInv, Complete PROVE MaskInv'
  OBVIOUS
<1>1. /\ pc = "idle" /\ UNCHANGED <<L, roots, pc, sf>>
      /\ oram' = Shuffled(pending) /\ pending' = NoToken
  BY DEF Complete, local
<1>2. ASSUME NEW i \in 1..(L - 1)
      PROVE  /\ ~Rebuilt(i)' /\ ~InHand(i)' /\ sf'[i] = EmptyMap
             /\ Chained(oram'[i])
             /\ Overlay(oram'[i], pending'[i]) = oram'[i]
             /\ RootMask(oram'[i], roots'[i])
  <2>1. i \in 1..L
    BY DEF TypeInv, TypeOK
  <2>2. pending'[i] = EmptyMap
    BY <1>1, <2>1 DEF NoToken
  <2>3. sf[i] = EmptyMap
    BY <1>1 DEF MaskInv, MasksOf, Rebuilt, InHand
  <2> QED BY <1>1, <2>2, <2>3, MaskShuffled DEF Rebuilt, InHand
<1> QED
  BY <1>1, <1>2 DEF MaskInv, MasksOf, Chained, RootMask

LEMMA MaskBuildToken == TypeInv /\ MaskInv /\ BuildToken => MaskInv'
<1> SUFFICES ASSUME TypeInv, MaskInv, BuildToken PROVE MaskInv'
  OBVIOUS
<1>1. /\ pc = "build" /\ pc' \in {"build", "read"}
      /\ UNCHANGED <<L, roots, pending, sf>>
      /\ (oram' = oram \/ oram' = Shuffled(pending))
  BY DEF BuildToken, client
<1>2. ASSUME NEW i \in 1..(L - 1)
      PROVE  /\ ~Rebuilt(i)' /\ ~InHand(i)' /\ sf'[i] = EmptyMap
             /\ Chained(oram'[i])
             /\ Chained(Overlay(oram'[i], pending'[i]))
             /\ RootMask(Overlay(oram'[i], pending'[i]), roots'[i])
  <2>1. ~Rebuilt(i) /\ ~InHand(i) /\ ~Rebuilt(i)' /\ ~InHand(i)'
    BY <1>1 DEF Rebuilt, InHand
  <2>2. CASE oram' = oram
    BY <1>1, <2>1, <2>2 DEF MaskInv, MasksOf
  <2>3. CASE oram' = Shuffled(pending)
    <3>1. sf[i] = EmptyMap
      BY <2>1 DEF MaskInv, MasksOf
    <3> QED BY <1>1, <2>1, <2>3, <3>1, MaskShuffled
  <2> QED BY <1>1, <2>2, <2>3
<1> QED
  BY <1>1, <1>2 DEF MaskInv, MasksOf, Chained, RootMask

LEMMA MaskNext ==
  TypeInv /\ FormInv /\ ReadInv /\ SentInv /\ MaskInv /\ [Next]_vars => MaskInv'
<1> SUFFICES ASSUME TypeInv, FormInv, ReadInv, SentInv, MaskInv, [Next]_vars
             PROVE  MaskInv'
  OBVIOUS
<1>1. CASE /\ UNCHANGED <<L, oram, pending, roots, sf>>
           /\ pc \notin {"remap", "evict", "finish"}
           /\ pc' \notin {"evict", "finish"}
           /\ pc' = "remap" => i_tree' = L
  <2>1. \A i \in 1..(L - 1) : ~Rebuilt(i)' /\ ~InHand(i)' /\ ~Rebuilt(i) /\ ~InHand(i)
    BY <1>1 DEF Rebuilt, InHand, TypeInv, TypeOK
  <2> QED BY <1>1, <2>1 DEF MaskInv, MasksOf, Chained, RootMask
<1>2. CASE BuildToken
  BY <1>2, MaskBuildToken
<1>3. ASSUME NEW new_x, RemapData(new_x) \/ RemapPointer(new_x)
      PROVE  MaskInv'
  BY <1>3, MaskRemap DEF RemapData, RemapPointer
<1>4. CASE EvictLevel
  BY <1>4, MaskEvictLevel
<1>5. CASE EndOfTree
  BY <1>5, MaskEndOfTree
<1>6. CASE Finish
  BY <1>6, MaskFinish
<1>7. CASE Complete
  BY <1>7, MaskComplete
<1>8. ASSUME NEW m_L \in InitL..MaxL, SetL(m_L)
      PROVE  MaskInv'
  BY <1>8, MaskSetL
<1>9. ASSUME NEW o, NEW a, NEW v, NEW one, Begin(o, a, v, one)
      PROVE  /\ UNCHANGED <<L, oram, pending, roots, sf>>
             /\ pc = "idle" /\ pc' = "build"
  BY <1>9 DEF Begin, server, client
<1>10. ASSUME NEW a, NEW v, Reject(a, v)
       PROVE  /\ UNCHANGED <<L, oram, pending, roots, sf>>
              /\ pc = "idle" /\ pc' = "idle"
  BY <1>10 DEF Reject, server, client, local
<1>11. ReadBucket \/ EndOfPath \/ ProbeHit \/ ProbeMiss \/ ProbeEnd
         \/ WriteResponseToStash
       => /\ UNCHANGED <<L, oram, pending, roots, sf>>
          /\ pc \notin {"remap", "evict", "finish"}
          /\ pc' \notin {"evict", "finish"}
          /\ pc' = "remap" => i_tree' = L
  BY DEF ReadBucket, EndOfPath, ProbeHit, ProbeMiss, ProbeEnd, SearchNextTree,
     WriteResponseToStash, server, client
<1>12. CASE UNCHANGED vars
  <2>1. \A i : /\ Rebuilt(i)' = Rebuilt(i) /\ InHand(i)' = InHand(i)
              /\ PathRebuilt(i)' = PathRebuilt(i)
    BY <1>12 DEF vars, server, client, local, Rebuilt, InHand, PathRebuilt,
       Seed, FatherMask, NodeMask
  <2> QED BY <1>12, <2>1 DEF vars, server, client, local, MaskInv, MasksOf,
             Chained, RootMask
<1> QED
  BY <1>1, <1>2, <1>3, <1>4, <1>5, <1>6, <1>7, <1>8, <1>9, <1>10, <1>11,
     <1>12 DEF Next, Caller, Step
-----------------------------------------------------------------------------
(* The theorems.                                                           *)

MaskIInv == TypeInv /\ FormInv /\ ReadInv /\ SentInv /\ MaskInv

LEMMA SentInit == Init => SentInv
BY DEF Init, SentInv

LEMMA MaskInductive ==
  /\ Init => MaskIInv
  /\ MaskIInv /\ [Next]_vars => MaskIInv'
BY TypeInit, FormInit, ReadInit, SentInit, MaskInit,
   TypeNext, FormNext, ReadNext, SentNext, MaskNext DEF MaskIInv

(* In every tree with headers, every bucket's mmf is its own mask XOR the  *)
(* mask of the bucket above it, before and after the pending token is      *)
(* applied, and between calls the client knows the mask of every root.     *)
THEOREM MasksChained == Spec => []MaskChain
<1>1. MaskIInv => MaskChain
  <2> SUFFICES ASSUME MaskIInv, NEW i \in 1..(L - 1)
               PROVE  /\ Chained(oram[i])
                      /\ Chained(Overlay(oram[i], pending[i]))
                      /\ pc = "idle" =>
                           RootMask(Overlay(oram[i], pending[i]), roots[i])
    BY DEF MaskChain, Chained, RootMask
  <2> QED BY DEF MaskIInv, MaskInv, MasksOf, Rebuilt, InHand
<1> QED
  BY <1>1, MaskInductive, PTL DEF Spec

(* XOR with one mask twice is XOR with none.                               *)
LEMMA Cancel ==
  ASSUME NEW K, NEW A, NEW B
  PROVE  SymDiff(SymDiff(K, A), SymDiff(B, A)) = SymDiff(K, B)
BY DEF SymDiff

(* The key with which a header is probed is the wanted block's.            *)
LEMMA ProbedKey ==
  ASSUME MaskIInv, SearchKeyInSync, pc = "probe", l <= Len(Headers),
         NEW i, i = i_tree
  PROVE  /\ Headers[l] \in DOMAIN oram[i]
         /\ ProbeKey =
              ClientBuildSearchKey(tokens[i].a, tokens[i].b, Header(l).M)
<1> DEFINE A == accessed[i]
           K == EncodeAddress(tokens[i].a, tokens[i].b)
<1>1. /\ pc = "probe" /\ l \in Nat /\ l >= 1 /\ l <= Len(A)
      /\ i \in 1..(L - 1) /\ i \in 1..L /\ A \in Seq(Path)
  BY DEF MaskIInv, Headers, TypeInv, TypeOK, ShapeInv
<1>2. ReadBelow(i, leaf_accessed[i], 0) /\ Chained(oram[i])
  BY <1>1 DEF MaskIInv, ReadInv, Searched, MaskInv, MasksOf
<1>3. ASSUME NEW c \in 1..Len(A)
      PROVE  A[c] = P(leaf_accessed[i], c) /\ A[c] \in DOMAIN oram[i] /\ c <= i
  BY <1>1, <1>2, <1>3 DEF ReadBelow, MaskIInv, TypeInv, ShapeInv
<1>4. leaf_accessed[i] \in Path /\ Len(leaf_accessed[i]) = i - 1
  BY <1>1, LeafIsPath DEF MaskIInv, TypeInv, ShapeInv
<1>5. ProbeKey = SymDiff(K, oram[i][A[l]].M)
  <2>1. CASE l = 1
    <3>1. A[l] = <<>> /\ <<>> \in DOMAIN oram[i]
      BY <1>1, <1>3, <1>4, <2>1 DEF P, Path
    <3>2. oram[i][<<>>].M = roots[i]
      <4>1. Overlay(oram[i], pending[i]) = oram[i]
        BY <1>1 DEF MaskIInv, SentInv
      <4>2. RootMask(Overlay(oram[i], pending[i]), roots[i])
        BY <1>1 DEF MaskIInv, MaskInv, MasksOf, Rebuilt, InHand
      <4> QED BY <3>1, <4>1, <4>2 DEF RootMask
    <3>3. KeySent(i)
      BY <1>1 DEF MaskIInv, SentInv
    <3> QED BY <2>1, <3>1, <3>2, <3>3 DEF ProbeKey, KeySent, ClientBuildSearchKey
  <2>2. CASE l # 1
    <3>1. l - 1 \in 1..Len(A) /\ l \in 1..Len(A) /\ l > 1
      BY <1>1, <2>2
    <3>2. A[l] # <<>> /\ Front(A[l]) = A[l - 1]
      <4>1. l \in 2..(Len(leaf_accessed[i]) + 1)
        BY <1>1, <1>3, <1>4, <3>1
      <4> QED BY <1>3, <1>4, <3>1, <4>1, FrontOfP
    <3>3. oram[i][A[l]].mmf = SymDiff(oram[i][A[l]].M, oram[i][A[l - 1]].M)
      BY <1>2, <1>3, <3>1, <3>2 DEF Chained
    <3>4. searchKey = SymDiff(K, oram[i][A[l - 1]].M)
      BY <1>1, <3>1
         DEF SearchKeyInSync, ClientBuildSearchKey, Header, Headers
    <3>5. ProbeKey = SymDiff(searchKey, oram[i][A[l]].mmf)
      BY <2>2 DEF ProbeKey, Header, Headers
    <3> QED BY <3>3, <3>4, <3>5, Cancel
  <2> QED BY <2>1, <2>2
<1>6. A[l] \in DOMAIN oram[i]
  BY <1>1, <1>3
<1> QED
  BY <1>5, <1>6 DEF ClientBuildSearchKey, Header, Headers

LEMMA KeyProbeMiss ==
  ASSUME MaskIInv, SearchKeyInSync, ProbeMiss, NEW i, i = i_tree
  PROVE  SearchKeyInSync'
<1>1. /\ pc = "probe" /\ l' = l + 1 /\ l \in Nat /\ l <= Len(Headers)
      /\ searchKey' = ProbeKey
      /\ UNCHANGED <<oram, i_tree, tokens, accessed>>
  BY DEF MaskIInv, ProbeMiss, server, TypeInv, TypeOK
<1>2. ProbeKey = ClientBuildSearchKey(tokens[i].a, tokens[i].b, Header(l).M)
  BY <1>1, ProbedKey
<1>3. l' - 1 = l
  BY <1>1
<1> QED
  BY <1>1, <1>2, <1>3
     DEF SearchKeyInSync, ClientBuildSearchKey, EncodeAddress, Header, Headers

LEMMA KeyNext ==
  MaskIInv /\ SearchKeyInSync /\ [Next]_vars => SearchKeyInSync'
<1> SUFFICES ASSUME MaskIInv, SearchKeyInSync, [Next]_vars
             PROVE  SearchKeyInSync'
  OBVIOUS
<1>1. CASE pc' # "probe" \/ l' = 1
  BY <1>1 DEF SearchKeyInSync
<1>2. CASE ProbeMiss
  BY <1>2, KeyProbeMiss
<1>3. CASE UNCHANGED vars
  BY <1>3 DEF vars, server, call, local, SearchKeyInSync, Header, Headers,
     ClientBuildSearchKey, EncodeAddress
<1>4. \A o, a, v, one : Begin(o, a, v, one) => pc' # "probe"
  BY DEF Begin
<1>5. \A a, v : Reject(a, v) => pc' # "probe"
  BY DEF Reject
<1>6. \A m : SetL(m) => pc' # "probe"
  BY DEF SetL
<1>7. Complete \/ Finish \/ BuildToken \/ ReadBucket \/ ProbeHit \/ ProbeEnd
        \/ WriteResponseToStash \/ EvictLevel \/ EndOfTree
      => pc' # "probe"
  BY DEF Complete, Finish, BuildToken, ReadBucket, ProbeHit, ProbeEnd,
     SearchNextTree, WriteResponseToStash, EvictLevel, EndOfTree
<1>8. EndOfPath => pc' # "probe" \/ l' = 1
  BY DEF EndOfPath
<1>9. \A new_x : RemapData(new_x) \/ RemapPointer(new_x) => pc' # "probe"
  BY DEF RemapData, RemapPointer, Remap
<1> QED
  BY <1>1, <1>2, <1>3, <1>4, <1>5, <1>6, <1>7, <1>8, <1>9
     DEF Next, Caller, Step

(* The server, which sees one key and the mmf's of a path, derives in      *)
(* every bucket the key the client would have made with that bucket's mask.*)
THEOREM SearchKeysInSync == Spec => []SearchKeyInSync
<1>1. Init => SearchKeyInSync
  BY DEF Init, SearchKeyInSync
<1> QED
  BY <1>1, MaskInductive, KeyNext, PTL DEF Spec
-----------------------------------------------------------------------------
(* The size of a bucket.                                                   *)

Sized(t) ==
  \A p \in DOMAIN t :
    /\ IsFiniteSet(DOMAIN t[p].blocks)
    /\ p # <<>> => Cardinality(DOMAIN t[p].blocks) <= Z_block

SizeInv ==
  \A i \in 1..L :
    /\ Sized(oram[i]) /\ Sized(pending[i]) /\ Sized(sf[i])
    /\ IsFiniteSet(DOMAIN stash[i])

LEMMA OverlaySized ==
  ASSUME NEW f, NEW g, Sized(f), Sized(g)
  PROVE  Sized(Overlay(f, g))
BY DEF Sized, Overlay

LEMMA SmallSized == Sized(EmptyMap) /\ Sized(NewTree) /\ IsFiniteSet(DOMAIN EmptyMap)
BY FS_EmptySet, FS_Singleton DEF Sized, EmptyMap, NewTree, BuildBucket

LEMMA ShuffledSized ==
  ASSUME NEW token, NEW i \in 1..L, Sized(oram[i]), Sized(token[i])
  PROVE  Sized(Shuffled(token)[i])
BY OverlaySized DEF Shuffled

LEMMA SizeInit == Init => SizeInv
BY SmallSized DEF Init, SizeInv, NoToken

(* What is read from a path of finite buckets is finite.                   *)
LEMMA AbsorbedFinite ==
  ASSUME TypeInv, SizeInv, pc # "idle", NEW i \in 1..L
  PROVE  IsFiniteSet(DOMAIN Absorbed(i))
<1> DEFINE A == accessed[i]
           held == [c \in DOMAIN A |-> DOMAIN oram[i][A[c]].blocks]
           sets == {held[c] : c \in DOMAIN A}
<1>1. A \in Seq(Path) /\ DOMAIN A = 1..Len(A) /\ Len(A) \in Nat
  BY DEF TypeInv, TypeOK
<1>2. \A c \in DOMAIN A : A[c] \in DOMAIN oram[i]
  BY <1>1 DEF TypeInv, ShapeInv
<1>3. \A T \in sets : IsFiniteSet(T)
  BY <1>2 DEF SizeInv, Sized
<1>4. IsFiniteSet(DOMAIN A)
  BY <1>1, FS_Interval
<1>5. held \in Surjection(DOMAIN A, sets)
  BY DEF Surjection
<1>6. DOMAIN Absorbed(i) = UNION sets
  BY DEF Absorbed
<1> HIDE DEF held, sets, A
<1>7. IsFiniteSet(sets)
  BY <1>4, <1>5, FS_Surjection
<1> QED
  BY <1>3, <1>6, <1>7, FS_UNION

(* A limited bucket takes no more than Z_block blocks.                     *)
LEMMA EvictedSize ==
  ASSUME TypeInv, SizeInv, pc = "evict", NEW p, NEW S \in Evicted(p)
  PROVE  /\ S \subseteq DOMAIN stash[i_tree] /\ IsFiniteSet(S)
         /\ Limited(p) => Cardinality(S) <= Z_block
<1>1. IsFiniteSet(DOMAIN stash[i_tree])
  BY DEF SizeInv, TypeInv, TypeOK
<1>2. S \subseteq Evictable(p) /\ Evictable(p) \subseteq DOMAIN stash[i_tree]
  BY DEF Evicted, Evictable, kSubset
<1>3. IsFiniteSet(Evictable(p)) /\ IsFiniteSet(S)
  BY <1>1, <1>2, FS_Subset
<1> DEFINE n == Cardinality(Evictable(p))
<1>4. n \in Nat
  BY <1>3, FS_CardinalityType
<1>5. Limited(p) => Cardinality(S) = Min({Z_block, n})
  BY DEF Evicted, kSubset
<1> HIDE DEF n
<1>6. Min({Z_block, n}) <= Z_block
  <2>1. {Z_block, n} \in SUBSET Nat /\ {Z_block, n} # {} /\ Z_block \in {Z_block, n}
    BY <1>4, ConstantAssumption
  <2> QED BY <2>1, MinIsLeast
<1> QED
  BY <1>2, <1>3, <1>5, <1>6

LEMMA SizeEvictLevel == TypeInv /\ SizeInv /\ EvictLevel => SizeInv'
<1> SUFFICES ASSUME TypeInv, SizeInv, EvictLevel PROVE SizeInv'
  OBVIOUS
<1> DEFINE p == P(x, l)
           stay(S) == [a \in S |-> stash[i_tree][a]]
<1>1. pc = "evict" /\ i_tree \in 1..L /\ DOMAIN stash = 1..L /\ DOMAIN sf = 1..L
      /\ UNCHANGED <<L, oram, pending>>
  BY DEF EvictLevel, server, TypeInv, TypeOK
<1>2. PICK S \in Evicted(p) :
        /\ stash' = [stash EXCEPT ![i_tree] = Without(@, S)]
        /\ sf' = [sf EXCEPT ![i_tree] = Overlay(@, AddPathNodes(p, stay(S)))]
  BY DEF EvictLevel
<1>3. IsFiniteSet(S) /\ (p # <<>> => Cardinality(S) <= Z_block)
  BY <1>1, <1>2, EvictedSize DEF Limited
<1>4. Sized(AddPathNodes(p, stay(S)))
  <2>1. DOMAIN stay(S) = S
    OBVIOUS
  <2> DEFINE s == GetSibling(p)
             b == SiblingBucket(p).blocks
  <2>2. \/ b = EmptyMap
        \/ s \in DOMAIN oram[i_tree] /\ b = oram[i_tree][s].blocks
    BY DEF SiblingBucket, BuildBucket
  <2>3. IsFiniteSet(DOMAIN b) /\ (s # <<>> => Cardinality(DOMAIN b) <= Z_block)
    <3>1. DOMAIN EmptyMap = {}
      BY DEF EmptyMap
    <3> QED BY <1>1, <2>2, <3>1, FS_EmptySet, ConstantAssumption DEF SizeInv, Sized
  <2> HIDE DEF p, stay
  <2> QED BY <1>3, <2>1, <2>3 DEF Sized, AddPathNodes, BuildBucket
<1> HIDE DEF p, stay
<1>5. Sized(Overlay(sf[i_tree], AddPathNodes(p, stay(S))))
  BY <1>1, <1>4, OverlaySized DEF SizeInv
<1>6. IsFiniteSet(DOMAIN Without(stash[i_tree], S))
  <2>1. DOMAIN Without(stash[i_tree], S) = DOMAIN stash[i_tree] \ S
    BY DEF Without
  <2> QED BY <1>1, <2>1, FS_Difference DEF SizeInv
<1> QED
  BY <1>1, <1>2, <1>5, <1>6 DEF SizeInv

LEMMA SizeSetL ==
  ASSUME TypeInv, SizeInv, NEW m_L \in InitL..MaxL, SetL(m_L)
  PROVE  SizeInv'
<1> DEFINE k == m_L - L
<1>1. L \in Nat \ {0} /\ m_L \in Nat /\ m_L > L /\ L' = m_L
  BY ConstantAssumption DEF TypeInv, TypeOK, SetL
<1>2. ASSUME NEW i \in 1..m_L
      PROVE  /\ Sized(oram'[i]) /\ Sized(pending'[i]) /\ Sized(sf'[i])
             /\ IsFiniteSet(DOMAIN stash'[i])
  <2>1. /\ oram'[i] = IF i <= k THEN NewTree ELSE oram[i - k]
        /\ stash'[i] = IF i <= k THEN EmptyMap ELSE stash[i - k]
        /\ pending'[i] = EmptyMap /\ sf'[i] = EmptyMap
    BY DEF SetL
  <2>2. i > k => i - k \in 1..L
    BY <1>1
  <2> QED BY <1>1, <2>1, <2>2, SmallSized DEF SizeInv
<1> QED
  BY <1>1, <1>2 DEF SizeInv

(* Remap writes one block, with the new leaf, to the stash of its tree.    *)
NewBlock(d, node) == [k \in {aa \div 2} |-> [data |-> d, node |-> node]]

LEMMA RemapStash ==
  ASSUME NEW new_x, RemapData(new_x) \/ RemapPointer(new_x)
  PROVE  \E d : stash' = [stash EXCEPT ![i_tree] =
                            Overlay(@, NewBlock(d, new_x))]
BY DEF RemapData, RemapPointer, WriteStashWithNode, NewBlock

LEMMA SizeNext == TypeInv /\ SizeInv /\ [Next]_vars => SizeInv'
<1> SUFFICES ASSUME TypeInv, SizeInv, [Next]_vars PROVE SizeInv'
  OBVIOUS
<1>1. CASE UNCHANGED <<L, oram, stash, pending, sf>>
  BY <1>1 DEF SizeInv
<1>2. CASE BuildToken
  <2>1. (oram' = oram \/ oram' = Shuffled(pending))
        /\ UNCHANGED <<L, stash, pending, sf>>
    BY <1>2 DEF BuildToken, client
  <2> QED BY <2>1, ShuffledSized DEF SizeInv
<1>3. CASE WriteResponseToStash
  <2>1. \A i \in 1..L : IsFiniteSet(DOMAIN Overlay(stash[i], Absorbed(i)))
    <3> SUFFICES ASSUME NEW i \in 1..L
                 PROVE  IsFiniteSet(DOMAIN Overlay(stash[i], Absorbed(i)))
      OBVIOUS
    <3>1. IsFiniteSet(DOMAIN Absorbed(i)) /\ IsFiniteSet(DOMAIN stash[i])
      BY <1>3, AbsorbedFinite DEF WriteResponseToStash, SizeInv
    <3>2. DOMAIN Overlay(stash[i], Absorbed(i)) = DOMAIN stash[i] \cup DOMAIN Absorbed(i)
      BY DEF Overlay
    <3> QED BY <3>1, <3>2, FS_Union
  <2>2. stash' = [i \in 1..L |-> Overlay(stash[i], Absorbed(i))]
        /\ UNCHANGED <<L, oram, pending, sf>>
    BY <1>3 DEF WriteResponseToStash, server
  <2> QED BY <2>1, <2>2 DEF SizeInv
<1>4. ASSUME NEW new_x, RemapData(new_x) \/ RemapPointer(new_x)
      PROVE  SizeInv'
  <2>1. PICK d : stash' = [stash EXCEPT ![i_tree] = Overlay(@, NewBlock(d, new_x))]
    BY <1>4, RemapStash
  <2>2. \A f : DOMAIN Overlay(f, NewBlock(d, new_x)) = DOMAIN f \cup {aa \div 2}
    BY DEF Overlay, NewBlock
  <2> DEFINE set(j) == DOMAIN stash'[j]
  <2>3. \A j \in 1..L : set(j) = DOMAIN stash[j] \/ set(j) = DOMAIN stash[j] \cup {aa \div 2}
    BY <2>1, <2>2 DEF TypeInv, TypeOK
  <2>4. \A j \in 1..L : IsFiniteSet(set(j))
    <3> HIDE DEF set
    <3> QED BY <2>3, FS_AddElement DEF SizeInv
  <2>5. UNCHANGED <<L, oram, pending, sf>>
    BY <1>4 DEF RemapData, RemapPointer, Remap, server
  <2> QED BY <2>4, <2>5 DEF SizeInv
<1>5. CASE EvictLevel
  BY <1>5, SizeEvictLevel
<1>6. CASE Finish
  <2>1. \A i \in 1..L : NoToken[i] = EmptyMap
    BY DEF NoToken
  <2>2. UNCHANGED <<L, stash>> /\ sf' = NoToken
        /\ (oram' = oram \/ oram' = Shuffled(sf))
        /\ (pending' = pending \/ pending' = sf)
    BY <1>6 DEF Finish
  <2> QED BY <2>1, <2>2, ShuffledSized, SmallSized DEF SizeInv
<1>7. CASE Complete
  <2>1. \A i \in 1..L : NoToken[i] = EmptyMap
    BY DEF NoToken
  <2>2. UNCHANGED <<L, stash, sf>> /\ oram' = Shuffled(pending) /\ pending' = NoToken
    BY <1>7 DEF Complete, local
  <2> QED BY <2>1, <2>2, ShuffledSized, SmallSized DEF SizeInv
<1>8. ASSUME NEW m_L \in InitL..MaxL, SetL(m_L)
      PROVE  SizeInv'
  BY <1>8, SizeSetL
<1>9. ASSUME NEW o, NEW a, NEW v, NEW one, Begin(o, a, v, one)
      PROVE  UNCHANGED <<L, oram, stash, pending, sf>>
  BY <1>9 DEF Begin, server, client
<1>10. ASSUME NEW a, NEW v, Reject(a, v)
       PROVE  UNCHANGED <<L, oram, stash, pending, sf>>
  BY <1>10 DEF Reject, server, client, local
<1>11. ReadBucket \/ EndOfPath \/ ProbeHit \/ ProbeMiss \/ ProbeEnd \/ EndOfTree
       => UNCHANGED <<L, oram, stash, pending, sf>>
  BY DEF ReadBucket, EndOfPath, ProbeHit, ProbeMiss, ProbeEnd, EndOfTree,
     server, client
<1>12. UNCHANGED vars => UNCHANGED <<L, oram, stash, pending, sf>>
  BY DEF vars, server, client, local
<1> QED
  BY <1>1, <1>2, <1>3, <1>4, <1>5, <1>6, <1>7, <1>8, <1>9, <1>10, <1>11,
     <1>12 DEF Next, Caller, Step

(* Only a root holds more than Z_block blocks, so that every other bucket  *)
(* fits the Z_block places of its etail, in the trees, in the token that   *)
(* waits for the next request and in the one under construction.           *)
THEOREM BucketsBounded == Spec => []BucketBound
<1>1. Init => TypeInv /\ SizeInv
  BY TypeInit, SizeInit
<1>2. TypeInv /\ SizeInv /\ [Next]_vars => (TypeInv /\ SizeInv)'
  BY TypeNext, SizeNext
<1>3. SizeInv => BucketBound
  <2> SUFFICES ASSUME SizeInv, NEW i \in 1..L PROVE Sized(Live(i))
    BY DEF BucketBound, Sized
  <2>1. \A f, S : Sized(f) => Sized(Without(f, S))
    BY DEF Sized, Without
  <2> QED BY <2>1, OverlaySized DEF Live, SizeInv
<1> QED
  BY <1>1, <1>2, <1>3, PTL DEF Spec
-----------------------------------------------------------------------------
(* What is left of the address: it numbers a block of the tree in hand.    *)
AddressInv ==
  /\ pc # "idle" => addr < 2^L
  /\ pc \in {"build", "remap"} => aa < 2^i_tree
  /\ pc = "evict" => aa < 2^(i_tree - 1)

LEMMA AddressNext == TypeInv /\ AddressInv /\ [Next]_vars => AddressInv'
<1> SUFFICES ASSUME TypeInv, AddressInv, [Next]_vars PROVE AddressInv'
  OBVIOUS
<1>1. L \in Nat \ {0} /\ aa \in Nat /\ addr \in Nat /\ (pc # "idle" => i_tree \in 1..L)
  BY DEF TypeInv, TypeOK
<1>2. ASSUME NEW o \in Ops, NEW a \in Addr, NEW v, NEW one, Begin(o, a, v, one)
      PROVE  AddressInv'
  <2>1. addr' = a /\ aa' = a /\ L' = L /\ i_tree' = L /\ pc' = "build"
        /\ a <= 2^L - 1 /\ a \in Nat /\ 2^L \in Nat
    BY <1>1, <1>2, PowNat, ConstantAssumption DEF Begin, server, Capacity
  <2> DEFINE n == 2^L
  <2>2. n \in Nat /\ a <= n - 1
    BY <2>1
  <2> HIDE DEF n
  <2>3. a < n
    BY <2>1, <2>2
  <2> QED BY <2>1, <2>3 DEF AddressInv, n
<1>3. CASE pc' = "idle"
  BY <1>3 DEF AddressInv
<1>4. CASE BuildToken
  <2>1. /\ pc = "build" /\ aa' = aa \div 2 /\ UNCHANGED <<L, addr>>
        /\ \/ pc' = "build" /\ i_tree' = i_tree - 1
           \/ pc' = "read"
    BY <1>4 DEF BuildToken, call
  <2>2. aa \div 2 < 2^(i_tree - 1)
    BY <1>1, <2>1, PowHalf DEF AddressInv
  <2> QED BY <2>1, <2>2 DEF AddressInv
<1>5. CASE pc # "idle" /\ pc' \in {"read", "probe", "absorb"} /\ UNCHANGED <<L, addr>>
  BY <1>5 DEF AddressInv
<1>6. CASE WriteResponseToStash
  BY <1>6 DEF WriteResponseToStash, server, call, AddressInv
<1>7. ASSUME NEW new_x, Remap(new_x)
      PROVE  AddressInv'
  <2>1. /\ pc = "remap" /\ pc' = "evict" /\ aa' = aa \div 2
        /\ UNCHANGED <<L, addr, i_tree>>
    BY <1>7 DEF Remap, server
  <2>2. aa \div 2 < 2^(i_tree - 1)
    BY <1>1, <2>1, PowHalf DEF AddressInv
  <2> QED BY <2>1, <2>2 DEF AddressInv
<1>8. CASE EvictLevel
  BY <1>8 DEF EvictLevel, server, call, AddressInv
<1>9. CASE EndOfTree
  BY <1>9 DEF EndOfTree, server, call, AddressInv
<1>10. CASE UNCHANGED vars
  BY <1>10 DEF vars, server, call, local, AddressInv
<1>11. ReadBucket \/ EndOfPath \/ ProbeHit \/ ProbeMiss \/ ProbeEnd
       => pc # "idle" /\ pc' \in {"read", "probe", "absorb"} /\ UNCHANGED <<L, addr>>
  BY DEF ReadBucket, EndOfPath, ProbeHit, ProbeMiss, ProbeEnd, SearchNextTree,
     server, call
<1>12. \A a, v : Reject(a, v) => pc' = "idle"
  BY DEF Reject
<1>13. Complete \/ Finish \/ (\E m : SetL(m)) => pc' = "idle"
  BY DEF Complete, Finish, SetL
<1>14. \A new_x : RemapData(new_x) \/ RemapPointer(new_x) => Remap(new_x)
  BY DEF RemapData, RemapPointer
<1> QED
  BY <1>2, <1>3, <1>4, <1>5, <1>6, <1>7, <1>8, <1>9, <1>10, <1>11, <1>12,
     <1>13, <1>14 DEF Next, Caller, Step
-----------------------------------------------------------------------------
(* Tree 1 has one block, number 0.                                         *)
Only0(t) == \A p \in DOMAIN t : DOMAIN t[p].blocks \subseteq {0}

FirstInv ==
  Only0(oram[1]) /\ Only0(pending[1]) /\ Only0(sf[1]) /\ DOMAIN stash[1] \subseteq {0}

LEMMA Only0Overlay ==
  ASSUME NEW f, NEW g, Only0(f), Only0(g)
  PROVE  Only0(Overlay(f, g))
BY DEF Only0, Overlay

LEMMA Only0Small == Only0(EmptyMap) /\ Only0(NewTree) /\ DOMAIN EmptyMap = {}
BY DEF Only0, EmptyMap, NewTree, BuildBucket

LEMMA FirstInit == Init => FirstInv
BY Only0Small, ConstantAssumption DEF Init, FirstInv, NoToken

LEMMA FirstEvictLevel == TypeInv /\ FirstInv /\ EvictLevel => FirstInv'
<1> SUFFICES ASSUME TypeInv, FirstInv, EvictLevel PROVE FirstInv'
  OBVIOUS
<1>1. 1 \in 1..L /\ DOMAIN stash = 1..L /\ DOMAIN sf = 1..L
      /\ UNCHANGED <<oram, pending>>
  BY DEF EvictLevel, server, TypeInv, TypeOK
<1>2. CASE i_tree # 1
  BY <1>1, <1>2 DEF EvictLevel, FirstInv
<1>3. CASE i_tree = 1
  <2> DEFINE p == P(x, l)
             stay(S) == [a \in S |-> stash[1][a]]
  <2>1. PICK S \in Evicted(p) :
          /\ stash' = [stash EXCEPT ![1] = Without(@, S)]
          /\ sf' = [sf EXCEPT ![1] = Overlay(@, AddPathNodes(p, stay(S)))]
    BY <1>3 DEF EvictLevel
  <2>2. S \subseteq {0}
    BY <1>3 DEF Evicted, Evictable, kSubset, FirstInv
  <2>3. \/ SiblingBucket(p).blocks = EmptyMap
        \/ GetSibling(p) \in DOMAIN oram[1]
           /\ SiblingBucket(p).blocks = oram[1][GetSibling(p)].blocks
    BY <1>3 DEF SiblingBucket, BuildBucket
  <2>4. DOMAIN SiblingBucket(p).blocks \subseteq {0}
    BY <2>3, Only0Small DEF FirstInv, Only0
  <2>5. Only0(AddPathNodes(p, stay(S)))
    BY <2>2, <2>4 DEF Only0, AddPathNodes, BuildBucket
  <2>6. DOMAIN Without(stash[1], S) \subseteq {0}
    BY DEF Without, FirstInv
  <2> HIDE DEF stay
  <2> QED BY <1>1, <2>1, <2>5, <2>6, Only0Overlay DEF FirstInv
<1> QED
  BY <1>2, <1>3

LEMMA FirstNext == TypeInv /\ AddressInv /\ FirstInv /\ [Next]_vars => FirstInv'
<1> SUFFICES ASSUME TypeInv, AddressInv, FirstInv, [Next]_vars PROVE FirstInv'
  OBVIOUS
<1>0. 1 \in 1..L /\ L \in Nat \ {0}
  BY DEF TypeInv, TypeOK
<1>1. CASE UNCHANGED <<oram, stash, pending, sf>>
  BY <1>1 DEF FirstInv
<1>2. CASE BuildToken
  <2>1. (oram' = oram \/ oram'[1] = Overlay(oram[1], pending[1]))
        /\ UNCHANGED <<stash, pending, sf>>
    BY <1>0, <1>2 DEF BuildToken, client, Shuffled
  <2> QED BY <2>1, Only0Overlay DEF FirstInv
<1>3. CASE WriteResponseToStash
  <2>1. ASSUME NEW c \in DOMAIN accessed[1]
        PROVE  accessed[1][c] \in DOMAIN oram[1]
    <3>1. pc # "idle" /\ accessed[1] \in Seq(Path)
      BY <1>0, <1>3 DEF WriteResponseToStash, TypeInv, TypeOK
    <3>2. c \in 1..Len(accessed[1])
      BY <3>1
    <3> QED BY <1>0, <3>1, <3>2 DEF TypeInv, ShapeInv
  <2>2. DOMAIN Absorbed(1) \subseteq {0}
    BY <2>1 DEF Absorbed, FirstInv, Only0
  <2>3. DOMAIN Overlay(stash[1], Absorbed(1)) \subseteq {0}
    BY <2>2 DEF Overlay, FirstInv
  <2> QED BY <1>0, <1>3, <2>3 DEF WriteResponseToStash, server, FirstInv
<1>4. ASSUME NEW new_x, RemapData(new_x) \/ RemapPointer(new_x)
      PROVE  FirstInv'
  <2>1. PICK d : stash' = [stash EXCEPT ![i_tree] = Overlay(@, NewBlock(d, new_x))]
    BY <1>4, RemapStash
  <2>2. UNCHANGED <<oram, pending, sf>> /\ pc = "remap" /\ DOMAIN stash = 1..L
        /\ aa \in Nat
    BY <1>4 DEF RemapData, RemapPointer, Remap, server, TypeInv, TypeOK
  <2>3. CASE i_tree # 1
    BY <1>0, <2>1, <2>2, <2>3 DEF FirstInv
  <2>4. CASE i_tree = 1
    <3>1. aa < 2
      BY <2>2, <2>4, PowSmall DEF AddressInv
    <3>2. aa \div 2 = 0
      BY <2>2, <3>1
    <3>3. DOMAIN Overlay(stash[1], NewBlock(d, new_x)) = DOMAIN stash[1] \cup {0}
      BY <3>2 DEF Overlay, NewBlock
    <3> QED BY <1>0, <2>1, <2>2, <2>4, <3>3 DEF FirstInv
  <2> QED BY <2>3, <2>4
<1>5. CASE EvictLevel
  BY <1>5, FirstEvictLevel
<1>6. CASE Finish
  <2>1. UNCHANGED stash /\ sf'[1] = EmptyMap
        /\ (oram' = oram \/ oram'[1] = Overlay(oram[1], sf[1]))
        /\ (pending' = pending \/ pending' = sf)
    BY <1>0, <1>6 DEF Finish, NoToken, Shuffled
  <2> QED BY <2>1, Only0Overlay, Only0Small DEF FirstInv
<1>7. CASE Complete
  <2>1. UNCHANGED <<stash, sf>> /\ oram'[1] = Overlay(oram[1], pending[1])
        /\ pending'[1] = EmptyMap
    BY <1>0, <1>7 DEF Complete, local, NoToken, Shuffled
  <2> QED BY <2>1, Only0Overlay, Only0Small DEF FirstInv
<1>8. ASSUME NEW m_L \in InitL..MaxL, SetL(m_L)
      PROVE  FirstInv'
  <2>1. m_L \in Nat /\ m_L > L
    BY <1>8, ConstantAssumption DEF SetL
  <2>2. 1 \in 1..m_L /\ 1 <= m_L - L
    BY <1>0, <2>1
  <2>3. oram'[1] = NewTree /\ stash'[1] = EmptyMap /\ pending'[1] = EmptyMap
        /\ sf'[1] = EmptyMap
    BY <1>8, <2>2 DEF SetL
  <2> QED BY <2>3, Only0Small DEF FirstInv
<1>9. ASSUME NEW o, NEW a, NEW v, NEW one, Begin(o, a, v, one)
      PROVE  UNCHANGED <<oram, stash, pending, sf>>
  BY <1>9 DEF Begin, server, client
<1>10. ASSUME NEW a, NEW v, Reject(a, v)
       PROVE  UNCHANGED <<oram, stash, pending, sf>>
  BY <1>10 DEF Reject, server, client, local
<1>11. ReadBucket \/ EndOfPath \/ ProbeHit \/ ProbeMiss \/ ProbeEnd \/ EndOfTree
       => UNCHANGED <<oram, stash, pending, sf>>
  BY DEF ReadBucket, EndOfPath, ProbeHit, ProbeMiss, ProbeEnd, EndOfTree,
     server, client
<1>12. UNCHANGED vars => UNCHANGED <<oram, stash, pending, sf>>
  BY DEF vars, server, client, local
<1> QED
  BY <1>1, <1>2, <1>3, <1>4, <1>5, <1>6, <1>7, <1>8, <1>9, <1>10, <1>11,
     <1>12 DEF Next, Caller, Step
-----------------------------------------------------------------------------
(* The stashs between accesses, and of the trees whose path is rebuilt.    *)
DrainInv ==
  \A i \in 1..L :
    ~Absorbing \/ Rebuilt(i) \/ (InHand(i) /\ l = 0) => DOMAIN stash[i] = {}

(* The root takes what the other buckets of the path have left: all of it  *)
(* in a tree of several levels, the one block there is in tree 1.          *)
LEMMA RootTakesAll ==
  ASSUME TypeInv, SizeInv, FirstInv, EvictLevel, l = 1
  PROVE  DOMAIN stash'[i_tree] = {}
<1> DEFINE p == P(x, l)
           st == stash[i_tree]
<1>1. pc = "evict" /\ i_tree \in 1..L /\ DOMAIN stash = 1..L
  BY DEF EvictLevel, TypeInv, TypeOK
<1>2. PICK S \in Evicted(p) : stash' = [stash EXCEPT ![i_tree] = Without(@, S)]
  BY DEF EvictLevel
<1>3. p = <<>>
  BY DEF P, TypeInv, TypeOK, Path
<1>4. Evictable(p) = DOMAIN st
  <2>1. ASSUME NEW a \in DOMAIN st PROVE IsPrefix(<<>>, st[a].node)
    <3>1. st[a].node \in Path
      BY <1>1 DEF TypeInv, TypeOK, IsBlockMap
    <3> QED BY <3>1 DEF IsPrefix, Path
  <2> QED BY <1>3, <2>1 DEF Evictable, PassesThrough
<1>5. S = DOMAIN st
  <2>1. CASE i_tree # 1
    BY <1>2, <1>3, <1>4, <2>1 DEF Evicted, Limited
  <2>2. CASE i_tree = 1
    <3> DEFINE n == Cardinality(DOMAIN st)
    <3>1. IsFiniteSet(DOMAIN st) /\ DOMAIN st \subseteq {0}
      BY <1>1, <2>2 DEF SizeInv, FirstInv
    <3>2. n \in Nat /\ n <= 1
      <4>1. IsFiniteSet({0}) /\ Cardinality({0}) = 1
        BY FS_Singleton
      <4>2. DOMAIN st \in SUBSET {0}
        BY <3>1
      <4>3. Cardinality(DOMAIN st) <= Cardinality({0})
        BY <4>1, <4>2, FS_Subset
      <4> QED BY <3>1, <4>1, <4>3, FS_CardinalityType
    <3>3. S \in kSubset(Min({Z_block, n}), DOMAIN st)
      BY <1>2, <1>4, <2>2 DEF Evicted, Limited
    <3>4. S \in SUBSET DOMAIN st /\ Cardinality(S) = Min({Z_block, n})
      BY <3>3 DEF kSubset
    <3> HIDE DEF n
    <3>5. Min({Z_block, n}) = n
      <4>1. {Z_block, n} \in SUBSET Nat /\ {Z_block, n} # {}
            /\ Z_block \in {Z_block, n} /\ n \in {Z_block, n} /\ n <= Z_block
        BY <3>2, ConstantAssumption
      <4>2. Min({Z_block, n}) \in {Z_block, n} /\ Min({Z_block, n}) <= n
        BY <4>1, MinIsLeast
      <4> QED BY <4>1, <4>2, <3>2
    <3> QED BY <3>1, <3>4, <3>5, FS_Subset DEF n
  <2> QED BY <2>1, <2>2
<1>6. DOMAIN Without(st, S) = {}
  BY <1>5 DEF Without
<1> QED
  BY <1>1, <1>2, <1>6

LEMMA DrainNext ==
  TypeInv /\ SizeInv /\ FirstInv /\ DrainInv /\ [Next]_vars => DrainInv'
<1> SUFFICES ASSUME TypeInv, SizeInv, FirstInv, DrainInv, [Next]_vars
             PROVE  DrainInv'
  OBVIOUS
<1>1. CASE ~Absorbing /\ UNCHANGED <<L, stash>>
  BY <1>1 DEF DrainInv
<1>2. CASE WriteResponseToStash
  <2>1. pc' = "remap" /\ i_tree' = L /\ L' = L /\ L \in Nat
    BY <1>2 DEF WriteResponseToStash, server, TypeInv, TypeOK
  <2>2. \A i \in 1..L : ~Rebuilt(i)' /\ ~InHand(i)' /\ Absorbing'
    BY <2>1 DEF Rebuilt, InHand, Absorbing
  <2> QED BY <2>1, <2>2 DEF DrainInv
<1>3. ASSUME NEW new_x, RemapData(new_x) \/ RemapPointer(new_x)
      PROVE  DrainInv'
  <2>1. PICK d : stash' = [stash EXCEPT ![i_tree] = Overlay(@, NewBlock(d, new_x))]
    BY <1>3, RemapStash
  <2>2. /\ pc = "remap" /\ pc' = "evict" /\ l' = i_tree /\ i_tree \in 1..L
        /\ UNCHANGED <<L, i_tree>>
    BY <1>3 DEF RemapData, RemapPointer, Remap, server, TypeInv, TypeOK
  <2>3. ASSUME NEW i \in 1..L
        PROVE  /\ Absorbing' /\ ~(InHand(i)' /\ l' = 0)
               /\ Rebuilt(i)' => Rebuilt(i) /\ i # i_tree
    BY <2>2 DEF Absorbing, InHand, Rebuilt
  <2>4. \A i \in 1..L : i # i_tree => stash'[i] = stash[i]
    BY <2>1, <2>2 DEF TypeInv, TypeOK
  <2> QED BY <2>2, <2>3, <2>4 DEF DrainInv
<1>4. CASE EvictLevel
  <2>1. /\ pc = "evict" /\ pc' = "evict" /\ l' = l - 1 /\ l \in Nat
        /\ UNCHANGED <<L, i_tree>> /\ i_tree \in 1..L
    BY <1>4 DEF EvictLevel, server, TypeInv, TypeOK
  <2>2. \A i \in 1..L : i # i_tree => stash'[i] = stash[i]
    BY <1>4 DEF EvictLevel, TypeInv, TypeOK
  <2>3. l' = 0 => DOMAIN stash'[i_tree] = {}
    BY <1>4, <2>1, RootTakesAll
  <2>4. ASSUME NEW i \in 1..L
        PROVE  /\ Absorbing' /\ (InHand(i)' => i = i_tree)
               /\ Rebuilt(i)' => Rebuilt(i) /\ i # i_tree
    BY <2>1 DEF Absorbing, InHand, Rebuilt
  <2> QED BY <2>1, <2>2, <2>3, <2>4 DEF DrainInv
<1>5. CASE EndOfTree
  <2>1. /\ pc = "evict" /\ l = 0 /\ pc' \in {"remap", "finish"}
        /\ UNCHANGED <<L, stash>> /\ i_tree \in 1..L /\ Absorbing'
        /\ (pc' = "remap" => i_tree' = i_tree - 1)
        /\ (pc' = "finish" => i_tree = 1)
    BY <1>5 DEF EndOfTree, server, client, TypeInv, TypeOK, Absorbing
  <2>2. \A i \in 1..L : ~InHand(i)' /\ (Rebuilt(i)' => Rebuilt(i) \/ InHand(i))
    BY <2>1 DEF Rebuilt, InHand
  <2> QED BY <2>1, <2>2 DEF DrainInv
<1>6. CASE Finish
  <2>1. pc = "finish" /\ UNCHANGED <<L, stash>>
    BY <1>6 DEF Finish
  <2> QED BY <2>1 DEF DrainInv, Rebuilt
<1>7. ASSUME NEW m_L \in InitL..MaxL, SetL(m_L)
      PROVE  DrainInv'
  <2> DEFINE k == m_L - L
  <2>1. L \in Nat /\ m_L \in Nat /\ m_L > L /\ L' = m_L /\ pc = "idle"
    BY <1>7, ConstantAssumption DEF SetL, TypeInv, TypeOK
  <2>2. \A i \in 1..L : DOMAIN stash[i] = {}
    BY <2>1 DEF DrainInv, Absorbing
  <2>3. ASSUME NEW i \in 1..m_L
        PROVE  DOMAIN stash'[i] = {}
    <3>1. stash'[i] = IF i <= k THEN EmptyMap ELSE stash[i - k]
      BY <1>7 DEF SetL
    <3>2. ~(i <= k) => i - k \in 1..L
      BY <2>1
    <3> QED BY <2>2, <3>1, <3>2, Only0Small
  <2> QED BY <2>1, <2>3 DEF DrainInv
<1>8. ASSUME NEW o, NEW a, NEW v, NEW one, Begin(o, a, v, one)
      PROVE  ~Absorbing /\ UNCHANGED <<L, stash>>
  BY <1>8 DEF Begin, server, client, Absorbing
<1>9. ASSUME NEW a, NEW v, Reject(a, v)
      PROVE  ~Absorbing /\ UNCHANGED <<L, stash>>
  BY <1>9 DEF Reject, server, client, Absorbing
<1>10. Complete \/ BuildToken \/ ReadBucket \/ EndOfPath \/ ProbeHit \/ ProbeMiss
         \/ ProbeEnd => ~Absorbing /\ UNCHANGED <<L, stash>>
  BY DEF Complete, BuildToken, ReadBucket, EndOfPath, ProbeHit, ProbeMiss,
     ProbeEnd, server, client, Absorbing
<1>11. CASE UNCHANGED vars
  BY <1>11 DEF vars, server, client, local, DrainInv, Absorbing, Rebuilt, InHand
<1> QED
  BY <1>1, <1>2, <1>3, <1>4, <1>5, <1>6, <1>7, <1>8, <1>9, <1>10, <1>11
     DEF Next, Caller, Step

(* Everything so far, as one inductive invariant.                          *)
ContentsIInv ==
  MaskIInv /\ PathInv /\ SizeInv /\ AddressInv /\ FirstInv /\ DrainInv

LEMMA ContentsInductive ==
  /\ Init => ContentsIInv
  /\ ContentsIInv /\ [Next]_vars => ContentsIInv'
<1>1. Init => AddressInv
  BY DEF Init, AddressInv
<1>2. Init => DrainInv
  BY Only0Small DEF Init, DrainInv
<1>3. MaskIInv => TypeInv
  BY DEF MaskIInv
<1> QED
  BY <1>1, <1>2, <1>3, MaskInductive, PathInit, SizeInit, FirstInit,
     PathNext, SizeNext, AddressNext, FirstNext, DrainNext DEF ContentsIInv

(* Between two calls every stash is empty: whatever of a path's blocks no  *)
(* bucket of the path could take, its root did.  In tree 1, whose root is  *)
(* limited, that rests on what is left of the address there: block 0 is    *)
(* the only one, and Z_block is at least 1.                                *)
THEOREM StashsDrained == Spec => []StashDrained
<1>1. ContentsIInv => StashDrained
  BY DEF ContentsIInv, DrainInv, StashDrained, Absorbing
<1> QED
  BY <1>1, ContentsInductive, PTL DEF Spec
=============================================================================
