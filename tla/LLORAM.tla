------------------------------- MODULE LLORAM -------------------------------
(***************************************************************************)
(* The recursive ORAM of LLORAM.h.  Trees 1..L are kept by the server; a   *)
(* block of tree i < L holds two pointers into tree i + 1, a block of tree *)
(* L holds two values of the caller.  The client keeps one mask per tree,  *)
(* the stashs and, for the single-round protocol, the write-back token it  *)
(* sends with the next request.  An access                                 *)
(*   build   builds one search token per tree          BuildORAMRequest    *)
(*   read    reads one path of a tree                  Search              *)
(*   probe   looks the block up in the path's headers  Search              *)
(*   absorb  moves the paths read to the stashs        WriteResponseToStash*)
(*   remap   gives the block a new leaf                BuildShuffleToken   *)
(*   evict   refills the path, leaf to root            BuildShuffleToken   *)
(*   finish  writes it back, now or at the next call   Shuffle             *)
(* Each loop iteration of the code is a step, so that an invariant speaks  *)
(* of what holds in the middle of the loop.                                *)
(*                                                                         *)
(* Abstractions.  A node number stands for the path from the root to the   *)
(* node (CPath64.tla checks the numbering); a leaf x of tree i is a path   *)
(* of length i - 1.  H1 and H28 are ideal hashes: a Mem20 is the set of    *)
(* the independent random values XORed into it, XOR is symmetric           *)
(* difference, and a header is the set of (search key, node) pairs that    *)
(* its bucket determines.  Encryption and byte counts are left out.        *)
(***************************************************************************)
EXTENDS Integers, Sequences, FiniteSets, FiniteSetsExt, SequencesExt

CONSTANTS
  Z_block,     \* blocks of a bucket
  InitL,       \* m_L of the constructor
  MaxL,        \* bound on the heights SetL is called with
  Addr,        \* the addresses callers use
  Val, Zero,   \* the values of type T, and T{0}
  IntRange,    \* number of values of the int that IntToStr formats (2^32)
  Ops,         \* the operations callers use
  SingleRound  \* the protocols they use: single_round_access or access

ASSUME ConstantAssumption ==
  /\ Z_block \in Nat \ {0}
  /\ InitL \in Nat \ {0} /\ MaxL \in Nat /\ InitL <= MaxL
  /\ Addr \subseteq Nat
  /\ Zero \in Val
  /\ IntRange \in Nat \ {0}
  /\ Ops \subseteq {"read", "write"} /\ SingleRound \subseteq BOOLEAN

VARIABLES
  L,              \* number of trees
  roots,          \* roots[i].Mask
  oram,           \* oram[i]: the buckets of tree i, by path
  stash,          \* stashs[i - 1] for i < L, and stash_L for i = L
  pending,        \* client_side_shuffle_token_for_single_rounnd
  pc,
  op, addr,       \* the call
  data1,          \* the caller's variable
  oneRound,       \* single_round_access rather than access
  aa,             \* what is left of the address
  i_tree, l,      \* the loop variables: tree and level
  tokens,         \* ORAMRequest.tokens; a and b are kept for the properties
  x,              \* the leaf whose path is read
  accessed,       \* accessed[i]: the paths of tree i read, root first
  searchKey,
  leaf_accessed,
  last_x,         \* the new leaf given in tree i_tree + 1
  sf,             \* the ORAMShuffleToken under construction
  decodeError     \* "decode error!" was printed by the last access

server == <<L, oram>>
client == <<roots, stash, pending>>
call == <<op, addr, data1, oneRound>>
local == <<aa, i_tree, l, tokens, x, accessed, searchKey, leaf_accessed,
           last_x, sf, decodeError>>
vars == <<server, client, pc, call, local>>
-----------------------------------------------------------------------------
(* Paths, leaves and nodes.                                                *)

Sides == {0, 1}
Path == Seq(Sides)
Leaves(h) == [1..(h - 1) -> Sides]
NoNode == <<-1>>                        \* the node number -1

P(leaf, level) == SubSeq(leaf, 1, level - 1)

GetSibling(p) ==
  IF p = <<>> THEN <<>> ELSE [p EXCEPT ![Len(p)] = 1 - p[Len(p)]]

(* Slip: the leaf is taken anywhere in the tree.                           *)
LeavesBelow_Any(node, h) == Leaves(h)

(* MapToRandomLeaf: any leaf of a tree of height h below the node.         *)
LeavesBelow(node, h) == {y \in Leaves(h) : IsPrefix(node, y)}

(* Slip: a block whose node SetL left inside the tree sinks below it.      *)
PassesThrough_Below(node, p) == IsPrefix(p, node) \/ IsPrefix(node, p)

(* p64.AtLevelPath(l) is the path of the bucket at that level.             *)
PassesThrough(node, p) == IsPrefix(p, node)

EmptyMap == [p \in {} |-> {}]
Overlay(f, g) ==
  [p \in DOMAIN f \cup DOMAIN g |-> IF p \in DOMAIN g THEN g[p] ELSE f[p]]
(* Slip: the evicted blocks are not erased.                                *)
Without_Kept(f, S) == f

Without(f, S) == [p \in DOMAIN f \ S |-> f[p]]
-----------------------------------------------------------------------------
(* Masks, keys, buckets.                                                   *)

NoMask == {}
MaskOf(p, gen) == {[path |-> p, gen |-> gen]}
Mask == SUBSET [path : Path, gen : {0, 1}]

(* H1(EncodeAddress(a, b)): the address is formatted as an int.            *)
EncodeAddress(a, b) == {[addr |-> a % IntRange, side |-> b]}
ClientBuildSearchKey(a, b, M) == SymDiff(EncodeAddress(a, b), M)

(* Random(t.M) of InitSeeds: a value no bucket at this node has now.       *)
Seed(i, p) ==
  IF p \in DOMAIN oram[i] /\ oram[i][p].M = MaskOf(p, 0)
    THEN MaskOf(p, 1) ELSE MaskOf(p, 0)

(* Slip: the path is rebuilt with the masks it had.                        *)
NodeMask_Kept(i, p) ==
  IF i = L THEN NoMask
  ELSE IF p \in DOMAIN oram[i] THEN oram[i][p].M ELSE Seed(i, p)

(* The mask of the buckets of tree L is never used and never set.          *)
NodeMask(i, p) == IF i = L THEN NoMask ELSE Seed(i, p)

BuildBucket(M, Mf, blocks) ==
  [M |-> M, mmf |-> SymDiff(M, Mf), blocks |-> blocks]

(* BuildBucket fills places 0.. with the blocks; place j >= their number   *)
(* keeps the dummy block of Tail(): a = -(j + 1), data = data1 = 0.        *)
Dummies(bkt) == {-j : j \in (Cardinality(DOMAIN bkt.blocks) + 1)..Z_block}

(* ReadNodePosition: the nodes that the header of bkt can give for key.    *)
(* A later place overwrites an earlier one with the same key, so a dummy   *)
(* wins over a block.                                                      *)
ReadNodePosition(bkt, key) ==
  IF \E a \in Dummies(bkt), b \in Sides :
       key = ClientBuildSearchKey(a, b, bkt.M)
    THEN {<<>>}
    ELSE {bkt.blocks[e[1]].data[e[2]] : e \in
            {k \in (DOMAIN bkt.blocks) \X Sides :
               key = ClientBuildSearchKey(k[1], k[2], bkt.M)}}
-----------------------------------------------------------------------------
Capacity == 2^L - 1

NoToken == [i \in 1..L |-> EmptyMap]

Shuffled(token) == [i \in 1..L |-> Overlay(oram[i], token[i])]

Init ==
  /\ L = InitL
  /\ roots = [i \in 1..L |-> MaskOf(<<>>, 1)]
  /\ oram = [i \in 1..L |-> EmptyMap]
  /\ stash = [i \in 1..L |-> EmptyMap]
  /\ pending = NoToken
  /\ pc = "idle"
  /\ op = "read" /\ addr = 0 /\ data1 = Zero /\ oneRound = FALSE
  /\ aa = 0 /\ i_tree = 0 /\ l = 0
  /\ tokens = <<>> /\ accessed = <<>> /\ leaf_accessed = <<>>
  /\ x = <<>> /\ searchKey = NoMask /\ last_x = <<>>
  /\ sf = NoToken
  /\ decodeError = FALSE
-----------------------------------------------------------------------------
(* The caller: access, single_round_access, the refused call.  A token     *)
(* that is pending must be sent (single_round_access_complete) before a    *)
(* two-round access or SetL: TestApp.cpp:184 says so, the code does not    *)
(* check it.                                                               *)

Begin(o, a, v, one) ==
  /\ pc = "idle"
  /\ a <= Capacity
  /\ ~one => pending = NoToken
  /\ pc' = "build"
  /\ op' = o /\ addr' = a /\ oneRound' = one
  /\ data1' = IF o = "write" THEN v ELSE data1
  /\ aa' = a /\ i_tree' = L
  /\ tokens' = [i \in 1..L |-> [a |-> 0, b |-> 0, ST |-> NoMask]]
  /\ accessed' = [i \in 1..L |-> <<>>]
  /\ leaf_accessed' = [i \in 1..L |-> <<>>]
  /\ decodeError' = FALSE
  /\ UNCHANGED <<server, client, l, x, searchKey, last_x, sf>>

(* read() returns the T it declared and access() did not set.              *)
Reject(a, v) ==
  /\ pc = "idle"
  /\ a > Capacity
  /\ data1' = v
  /\ UNCHANGED <<server, client, pc, op, addr, oneRound, local>>

(* BuildORAMRequest, one tree per step from L to 1, then the request goes  *)
(* to the server, which applies the pending token before it searches.      *)
BuildToken ==
  /\ pc = "build"
  /\ LET a == aa \div 2
         b == aa % 2
         ST == IF i_tree < L
                 THEN ClientBuildSearchKey(a, b, roots[i_tree]) ELSE NoMask
     IN tokens' = [tokens EXCEPT ![i_tree] = [a |-> a, b |-> b, ST |-> ST]]
  /\ aa' = aa \div 2
  /\ \/ /\ i_tree > 1
        /\ i_tree' = i_tree - 1
        /\ UNCHANGED <<oram, pc, l, x>>
     \/ /\ i_tree = 1
        /\ pc' = "read" /\ l' = 1 /\ x' = <<>>
        /\ oram' = IF oneRound THEN Shuffled(pending) ELSE oram
        /\ UNCHANGED i_tree
  /\ UNCHANGED <<L, client, call, accessed, searchKey, leaf_accessed, last_x,
                 sf, decodeError>>
-----------------------------------------------------------------------------
(* Search.                                                                 *)

(* ReadBucket at level l of the path to x; a bucket that is not there is   *)
(* skipped.  The leaf-to-root order shows in accessed, root first.         *)
ReadBucket ==
  /\ pc = "read" /\ l >= 1
  /\ l' = l - 1
  /\ accessed' = IF P(x, l) \in DOMAIN oram[i_tree]
                   THEN [accessed EXCEPT ![i_tree] = <<P(x, l)>> \o @]
                   ELSE accessed
  /\ UNCHANGED <<server, client, pc, call, aa, i_tree, tokens, x, searchKey,
                 leaf_accessed, last_x, sf, decodeError>>

EndOfPath ==
  /\ pc = "read" /\ l = 0
  /\ leaf_accessed' = [leaf_accessed EXCEPT ![i_tree] = x]
  /\ \/ i_tree = L /\ pc' = "absorb" /\ UNCHANGED l
     \/ i_tree < L /\ pc' = "probe" /\ l' = 1
  /\ UNCHANGED <<server, client, call, aa, i_tree, tokens, x, accessed,
                 searchKey, last_x, sf, decodeError>>

Headers == accessed[i_tree]
Header(c) == oram[i_tree][Headers[c]]
ProbeKey ==
  IF l = 1 THEN tokens[i_tree].ST ELSE SymDiff(searchKey, Header(l).mmf)

SearchNextTree(leaf) ==
  /\ x' = leaf
  /\ i_tree' = i_tree + 1 /\ l' = i_tree + 1
  /\ pc' = "read"

ProbeHit ==
  /\ pc = "probe" /\ l <= Len(Headers)
  /\ searchKey' = ProbeKey
  /\ \E node \in ReadNodePosition(Header(l), ProbeKey) \ {NoNode} :
       \E leaf \in LeavesBelow(node, i_tree + 1) : SearchNextTree(leaf)
  /\ UNCHANGED <<server, client, call, aa, tokens, accessed, leaf_accessed,
                 last_x, sf, decodeError>>

ProbeMiss ==
  /\ pc = "probe" /\ l <= Len(Headers)
  /\ searchKey' = ProbeKey
  /\ LET nodes == ReadNodePosition(Header(l), ProbeKey)
     IN nodes = {} \/ NoNode \in nodes
  /\ l' = l + 1
  /\ UNCHANGED <<server, client, pc, call, aa, i_tree, tokens, x, accessed,
                 leaf_accessed, last_x, sf, decodeError>>

(* No header has a node for the block: search a random path.               *)
ProbeEnd ==
  /\ pc = "probe" /\ l = Len(Headers) + 1
  /\ decodeError' =
       (decodeError \/ /\ Len(Headers) = 1
                       /\ ReadNodePosition(Header(1), searchKey) = {})
  /\ \E leaf \in Leaves(i_tree + 1) : SearchNextTree(leaf)
  /\ UNCHANGED <<server, client, call, aa, tokens, accessed, searchKey,
                 leaf_accessed, last_x, sf>>
-----------------------------------------------------------------------------
(* BuildShuffleToken.                                                      *)

(* Slip: the bucket nearest the leaf is not taken from the response.       *)
Absorbed_NoLeaf(i) ==
  LET read == {c \in DOMAIN accessed[i] : c < i}
      holders(a) == {c \in read : a \in DOMAIN oram[i][accessed[i][c]].blocks}
      all == UNION {DOMAIN oram[i][accessed[i][c]].blocks : c \in read}
  IN [a \in all |-> oram[i][accessed[i][Min(holders(a))]].blocks[a]]

(* The blocks of the response; a block read twice would keep the version   *)
(* nearest the root, which is written last.                                *)
Absorbed(i) ==
  LET holders(a) == {c \in DOMAIN accessed[i] :
                       a \in DOMAIN oram[i][accessed[i][c]].blocks}
      all == UNION {DOMAIN oram[i][accessed[i][c]].blocks :
                      c \in DOMAIN accessed[i]}
  IN [a \in all |-> oram[i][accessed[i][Min(holders(a))]].blocks[a]]

WriteResponseToStash ==
  /\ pc = "absorb"
  /\ stash' = [i \in 1..L |-> Overlay(stash[i], Absorbed(i))]
  /\ pc' = "remap"
  /\ aa' = addr /\ i_tree' = L
  /\ UNCHANGED <<server, roots, pending, call, l, tokens, x, accessed,
                 searchKey, leaf_accessed, last_x, sf, decodeError>>

(* Slip: the other side is lost.                                           *)
WriteStashWithNode_Fresh(i, a, b, d, other, node) ==
  LET block == [data |-> [s \in Sides |-> IF s = b THEN d ELSE other],
                node |-> node]
  IN stash' = [stash EXCEPT ![i] = Overlay(@, [k \in {a} |-> block])]

(* WriteStashWithNode: block a of tree i gets d on side b and a new node;  *)
(* the other side keeps what it has, or other if the block is new.         *)
WriteStashWithNode(i, a, b, d, other, node) ==
  LET old == IF a \in DOMAIN stash[i] THEN stash[i][a].data
                                      ELSE [s \in Sides |-> other]
      block == [data |-> [old EXCEPT ![b] = d], node |-> node]
  IN stash' = [stash EXCEPT ![i] = Overlay(@, [k \in {a} |-> block])]

(* Slip: "not found" is -1, as it is in ReadDataFromStash for pointers.    *)
ReadDataFromStash_NotFound(a, b) ==
  IF a \in DOMAIN stash[L] THEN stash[L][a].data[b] ELSE -1

(* ReadDataFromStash_L                                                     *)
ReadDataFromStash(a, b) ==
  IF a \in DOMAIN stash[L] THEN stash[L][a].data[b] ELSE Zero

(* The head of the loop over the trees, L to 1: InitSeeds gives the nodes  *)
(* of the path new masks, the block gets the new leaf.                     *)
Remap(new_x) ==
  /\ pc = "remap"
  /\ pc' = "evict" /\ l' = i_tree
  /\ aa' = aa \div 2
  /\ x' = leaf_accessed[i_tree]
  /\ roots' = [roots EXCEPT ![i_tree] = Seed(i_tree, <<>>)]
  /\ last_x' = new_x
  /\ UNCHANGED <<server, pending, op, addr, oneRound, i_tree, tokens,
                 accessed, searchKey, leaf_accessed, sf, decodeError>>

RemapData(new_x) ==
  /\ i_tree = L
  /\ Remap(new_x)
  /\ data1' = IF op = "write" THEN data1
                              ELSE ReadDataFromStash(aa \div 2, aa % 2)
  /\ WriteStashWithNode(L, aa \div 2, aa % 2, data1', Zero, new_x)

(* Slip: the pointer is set to the block's own new leaf.                   *)
RemapPointer_OwnLeaf(new_x) ==
  /\ i_tree < L
  /\ Remap(new_x)
  /\ UNCHANGED data1
  /\ WriteStashWithNode(i_tree, aa \div 2, aa % 2, new_x, NoNode, new_x)

RemapPointer(new_x) ==
  /\ i_tree < L
  /\ Remap(new_x)
  /\ UNCHANGED data1
  /\ WriteStashWithNode(i_tree, aa \div 2, aa % 2, last_x, NoNode, new_x)

(* The blocks that stay in the bucket at p: any Z_block of those whose     *)
(* node lies below it (the order of an unordered_map), all of them at the  *)
(* root of a tree of more than one level.                                  *)
Evictable(p) == {a \in DOMAIN stash[i_tree] :
                   PassesThrough(stash[i_tree][a].node, p)}
(* Slips: the root is limited too; only the leaf is limited.               *)
Limited_Root(p) == TRUE
Limited_LeafOnly(p) == l = i_tree
Limited(p) == l = i_tree \/ p # <<>>
Evicted(p) ==
  IF Limited(p)
    THEN kSubset(Min({Z_block, Cardinality(Evictable(p))}), Evictable(p))
    ELSE {Evictable(p)}

(* Slip: the root's mask is taken for every father's.                      *)
FatherMask_Root(p) == IF p = <<>> THEN NoMask ELSE NodeMask(i_tree, <<>>)

FatherMask(p) == IF p = <<>> THEN NoMask ELSE NodeMask(i_tree, Front(p))

(* AddPathNodes: the bucket at p gets the new mask; its sibling keeps its  *)
(* blocks and its mask and is rebuilt because its father's mask changed.   *)
(* A sibling the response lacks is an empty etail, which ToTail cannot     *)
(* read; without the bucket at p the sibling is made anew.                 *)
(* Slip: the sibling goes back as it was, with the old father's mask.      *)
SiblingBucket_Unchanged(p) ==
  LET s == GetSibling(p)
  IN IF s \in DOMAIN oram[i_tree] THEN oram[i_tree][s]
     ELSE BuildBucket(NodeMask(i_tree, s), FatherMask(p), EmptyMap)

SiblingBucket(p) ==
  LET s == GetSibling(p)
      old == IF s \in DOMAIN oram[i_tree] THEN oram[i_tree][s]
               ELSE BuildBucket(NoMask, NoMask, EmptyMap)
  IN IF p \in Range(accessed[i_tree])
       THEN BuildBucket(old.M, FatherMask(p), old.blocks)
       ELSE BuildBucket(NodeMask(i_tree, s), FatherMask(p), EmptyMap)

(* Slip: no sibling is built.                                              *)
AddPathNodes_Alone(p, blocks) ==
  [n \in {p} |-> BuildBucket(NodeMask(i_tree, p), FatherMask(p), blocks)]

AddPathNodes(p, blocks) ==
  [n \in {p, GetSibling(p)} |->
     IF n = p THEN BuildBucket(NodeMask(i_tree, p), FatherMask(p), blocks)
              ELSE SiblingBucket(p)]

EvictLevel ==
  /\ pc = "evict" /\ l >= 1
  /\ LET p == P(x, l)
     IN \E S \in Evicted(p) :
          /\ stash' = [stash EXCEPT ![i_tree] = Without(@, S)]
          /\ sf' = [sf EXCEPT ![i_tree] =
                      Overlay(@, AddPathNodes(p, [a \in S |->
                                                    stash[i_tree][a]]))]
  /\ l' = l - 1
  /\ UNCHANGED <<server, roots, pending, pc, call, aa, i_tree, tokens, x,
                 accessed, searchKey, leaf_accessed, last_x, decodeError>>

(* Slip: the loop over the trees does not end after tree 1.                *)
EndOfTree_Unending ==
  /\ pc = "evict" /\ l = 0
  /\ pc' = "remap" /\ i_tree' = Max({i_tree - 1, 1})
  /\ UNCHANGED <<server, client, call, aa, l, tokens, x, accessed, searchKey,
                 leaf_accessed, last_x, sf, decodeError>>

EndOfTree ==
  /\ pc = "evict" /\ l = 0
  /\ \/ i_tree > 1 /\ i_tree' = i_tree - 1 /\ pc' = "remap"
     \/ i_tree = 1 /\ pc' = "finish" /\ UNCHANGED i_tree
  /\ UNCHANGED <<server, client, call, aa, l, tokens, x, accessed, searchKey,
                 leaf_accessed, last_x, sf, decodeError>>
-----------------------------------------------------------------------------
(* access() shuffles at once; single_round_access() keeps the token.  The  *)
(* locals go out of scope.                                                 *)
Finish ==
  /\ pc = "finish"
  /\ pc' = "idle"
  /\ \/ oneRound /\ pending' = sf /\ UNCHANGED oram
     \/ ~oneRound /\ oram' = Shuffled(sf) /\ UNCHANGED pending
  /\ aa' = 0 /\ i_tree' = 0 /\ l' = 0
  /\ tokens' = <<>> /\ accessed' = <<>> /\ leaf_accessed' = <<>>
  /\ x' = <<>> /\ searchKey' = NoMask /\ last_x' = <<>>
  /\ sf' = NoToken
  /\ UNCHANGED <<L, roots, stash, call, decodeError>>

(* single_round_access_complete                                            *)
Complete ==
  /\ pc = "idle"
  /\ oram' = Shuffled(pending)
  /\ pending' = NoToken
  /\ UNCHANGED <<L, roots, stash, pc, call, local>>

(* SetL and initClient: trees are added in front, each with a root bucket  *)
(* whose block 0 points to the root of the next tree.  (Its dummies are    *)
(* numbered from -1 here and from -2 in Tail(); no address is either.)     *)
NewTree ==
  [p \in {<<>>} |-> BuildBucket(MaskOf(<<>>, 1), NoMask,
     [a \in {0} |-> [data |-> [b \in Sides |-> <<>>], node |-> <<>>]])]

SetL(m_L) ==
  /\ pc = "idle"
  /\ pending = NoToken
  /\ m_L > L
  /\ L' = m_L
  /\ LET k == m_L - L
     IN /\ roots' = [i \in 1..m_L |->
                       IF i <= k THEN MaskOf(<<>>, 1) ELSE roots[i - k]]
        /\ oram' = [i \in 1..m_L |-> IF i <= k THEN NewTree ELSE oram[i - k]]
        /\ stash' = [i \in 1..m_L |->
                       IF i <= k THEN EmptyMap ELSE stash[i - k]]
  /\ pending' = [i \in 1..m_L |-> EmptyMap]
  /\ sf' = [i \in 1..m_L |-> EmptyMap]
  /\ UNCHANGED <<pc, call, aa, i_tree, l, tokens, x, accessed, searchKey,
                 leaf_accessed, last_x, decodeError>>
-----------------------------------------------------------------------------
Caller ==
  \/ \E o \in Ops, a \in Addr, v \in Val, one \in SingleRound :
       (o = "read" => v = Zero) /\ Begin(o, a, v, one)
  \/ \E a \in Addr, v \in Val : "read" \in Ops /\ Reject(a, v)
  \/ Complete
  \/ \E m_L \in InitL..MaxL : SetL(m_L)

Step ==
  \/ BuildToken
  \/ ReadBucket \/ EndOfPath \/ ProbeHit \/ ProbeMiss \/ ProbeEnd
  \/ WriteResponseToStash
  \/ \E new_x \in Leaves(i_tree) : RemapData(new_x) \/ RemapPointer(new_x)
  \/ EvictLevel \/ EndOfTree
  \/ Finish

Next == Caller \/ Step

(* The code runs a call to its end; nobody has to make another call.       *)
Spec == Init /\ [][Next]_vars /\ WF_vars(Step)
-----------------------------------------------------------------------------
(* What the properties speak of: the buckets of tree i that hold current   *)
(* contents.  A pending token counts as written; once the paths read are   *)
(* in the stash, their buckets count only as rebuilt.                      *)

Absorbing == pc \in {"remap", "evict", "finish"}

Live(i) ==
  Overlay(Without(Overlay(oram[i], pending[i]),
                  IF Absorbing THEN Range(accessed[i]) ELSE {}),
          sf[i])

InTree(i, a) == LET t == Live(i)
                IN {p \in DOMAIN t : a \in DOMAIN t[p].blocks}

Blocks(i) == LET t == Live(i)
             IN DOMAIN stash[i] \cup
                UNION {DOMAIN t[p].blocks : p \in DOMAIN t}

AllBlocks == [i \in 1..L |-> Blocks(i)]

Block(i, a) ==
  IF a \in DOMAIN stash[i] THEN stash[i][a]
  ELSE Live(i)[CHOOSE p \in InTree(i, a) : TRUE].blocks[a]
-----------------------------------------------------------------------------
(* Types.                                                                  *)

Node == Path \cup {NoNode}
DataOf(i) == IF i = L THEN Val ELSE Node

(* Block maps, buckets and trees of height h whose blocks hold values of V.*)
IsBlockMap(V, f) ==
  /\ DOMAIN f \subseteq Nat
  /\ f \in [DOMAIN f -> [data : [Sides -> V], node : Path]]
IsBucket(V, bkt) ==
  /\ bkt = [M |-> bkt.M, mmf |-> bkt.mmf, blocks |-> bkt.blocks]
  /\ bkt.M \in Mask
  /\ IsBlockMap(V, bkt.blocks)
IsTree(V, h, t) ==
  /\ t = [p \in DOMAIN t |-> t[p]]
  /\ \A p \in DOMAIN t : p \in Path /\ Len(p) < h /\ IsBucket(V, t[p])

(* The shape of the state: every tree, stash and token holds blocks of its *)
(* own tree's kind at paths the tree has, whatever SetL did to the numbers *)
(* of the trees, and the caller's variable holds a T.                      *)
TypeOK ==
  /\ L \in Nat \ {0}
  /\ roots \in [1..L -> Mask]
  /\ DOMAIN oram = 1..L /\ \A i \in 1..L : IsTree(DataOf(i), i, oram[i])
  /\ DOMAIN stash = 1..L /\ \A i \in 1..L : IsBlockMap(DataOf(i), stash[i])
  /\ DOMAIN pending = 1..L /\ \A i \in 1..L : IsTree(DataOf(i), i, pending[i])
  /\ DOMAIN sf = 1..L /\ \A i \in 1..L : IsTree(DataOf(i), i, sf[i])
  /\ pc \in {"idle", "build", "read", "probe", "absorb", "remap", "evict",
             "finish"}
  /\ addr \in Nat /\ data1 \in Val /\ oneRound \in BOOLEAN
  /\ aa \in Nat /\ l \in Nat /\ x \in Path /\ last_x \in Path
  /\ pc # "idle" =>
       /\ i_tree \in 1..L
       /\ DOMAIN tokens = 1..L
       /\ accessed \in [1..L -> Seq(Path)]
       /\ leaf_accessed \in [1..L -> Path]

(* What makes TypeOK inductive: the paths of the response are paths of     *)
(* buckets the server still has, and each tree's leaf is one of its own.   *)
ShapeInv ==
  /\ pc \in {"read", "evict"} => l <= i_tree /\ x \in Leaves(i_tree)
  /\ pc = "probe" => i_tree < L /\ l >= 1
  /\ pc \in {"read", "probe", "absorb", "remap", "evict", "finish"} =>
       \A i \in 1..L :
         (pc = "read" => i < i_tree) /\ (pc = "probe" => i <= i_tree) =>
           leaf_accessed[i] \in Leaves(i)
  /\ pc # "idle" =>
       \A i \in 1..L : \A c \in 1..Len(accessed[i]) :
         accessed[i][c] \in DOMAIN oram[i]

TypeInv == TypeOK /\ ShapeInv
-----------------------------------------------------------------------------
(* Safety.                                                                 *)

(* A bucket never stands alone: its father and its sibling are there.      *)
(* Search collects whatever buckets it finds and chains their masks as if  *)
(* none were missing, and ToTail reads past the end of the empty etail     *)
(* that ReadNode returns for a missing sibling (LLORAM.h:664-676).         *)
TreeShape ==
  \A i \in 1..L : \A t \in {oram[i], Overlay(oram[i], pending[i])} :
    \A p \in DOMAIN t \ {<<>>} :
      Front(p) \in DOMAIN t /\ GetSibling(p) \in DOMAIN t

(* What DebugCheckNodes tests: mmf is the bucket's mask XOR its father's,  *)
(* in every bucket of every tree with headers, with and without the        *)
(* pending token, and the client knows the mask of every root.  A sibling  *)
(* left as it was, or a root mask saved in the wrong step, breaks it.      *)
MaskChain ==
  \A i \in 1..(L - 1) :
    /\ \A t \in {oram[i], Overlay(oram[i], pending[i])} :
         \A p \in DOMAIN t :
           t[p].mmf = SymDiff(t[p].M,
                              IF p = <<>> THEN NoMask ELSE t[Front(p)].M)
    /\ LET t == Overlay(oram[i], pending[i])
       IN pc = "idle" /\ <<>> \in DOMAIN t => t[<<>>].M = roots[i]

(* The key the server derives by XORing the mmf's of the path is the key   *)
(* under which BuildBucket files the wanted block in the bucket reached.   *)
SearchKeyInSync ==
  pc = "probe" /\ l > 1 =>
    searchKey = ClientBuildSearchKey(tokens[i_tree].a, tokens[i_tree].b,
                                     Header(l - 1).M)

(* A block is in one place: the stash or one current bucket.  A second,    *)
(* older copy would overwrite the newer one in WriteResponseToStash.       *)
OneCopy ==
  \A i \in 1..L : LET t == Live(i) IN
    \A p \in DOMAIN t : \A a \in DOMAIN t[p].blocks :
      /\ a \notin DOMAIN stash[i]
      /\ \A q \in DOMAIN t \ {p} : a \notin DOMAIN t[q].blocks

(* A block lies on the path from the root to the leaf it was given, also   *)
(* after SetL has made that leaf an inner node.                            *)
BlocksOnPath ==
  \A i \in 1..L : LET t == Live(i) IN
    \A p \in DOMAIN t : \A a \in DOMAIN t[p].blocks :
      IsPrefix(p, t[p].blocks[a].node)

(* The recursion: between two calls every block of tree i + 1 has a father *)
(* block in tree i that points to its node (DebugCheckORAMIntegrity).      *)
PointersAgree ==
  pc = "idle" =>
    \A i \in 1..(L - 1) : \A a \in Blocks(i + 1) :
      /\ a \div 2 \in Blocks(i)
      /\ Block(i, a \div 2).data[a % 2] = Block(i + 1, a).node

(* Search reads, in every tree, a path that holds the block of the address *)
(* if the tree holds it at all: the chain of pointers found in headers     *)
(* leads there although each is turned into a random leaf below the node.  *)
SearchReachesBlock ==
  pc = "absorb" =>
    \A i \in 1..L : tokens[i].a \in Blocks(i) =>
      InTree(i, tokens[i].a) \cap Range(accessed[i]) # {}

(* Nothing is left in a stash between calls (testORAMStashOverflow expects *)
(* it of stash_L).  Search looks in the trees only, so a pointer block     *)
(* left behind could not be found.                                         *)
StashDrained == pc = "idle" => \A i \in 1..L : DOMAIN stash[i] = {}

(* Only a root holds more than Z_block blocks.                             *)
BucketBound ==
  \A i \in 1..L : LET t == Live(i) IN
    \A p \in DOMAIN t \ {<<>>} : Cardinality(DOMAIN t[p].blocks) <= Z_block

(* The diagnostic of LLORAM.h:894 is silent.                               *)
NoDecodeError == ~decodeError

(* No step loses a block of a tree, whichever of stash, response, token    *)
(* and tree it is moved between.                                           *)
NoBlockLost ==
  [][\A i \in 1..L : AllBlocks[i] \subseteq AllBlocks'[i + (L' - L)]]_vars

(* The promise to the caller.                                              *)
Effected == pc \in {"evict", "finish"} \/ (pc = "remap" /\ i_tree < L)

Stored ==
  LET t == Live(L)
      value(a, b) ==
        IF a \in DOMAIN stash[L] THEN stash[L][a].data[b]
        ELSE LET at == {p \in DOMAIN t : a \in DOMAIN t[p].blocks}
             IN IF at = {} THEN Zero
                ELSE t[CHOOSE p \in at : TRUE].blocks[a].data[b]
  IN [a \in Addr |-> value(a \div 2, a % 2)]

Store == INSTANCE BlockStore WITH
  size <- Capacity,
  mem <- Stored,
  phase <- IF pc = "idle" THEN "idle"
           ELSE IF Effected THEN "done" ELSE "called",
  data <- data1

(* Every call has the effect and the result of a call on the array of      *)
(* BlockStore, whatever calls of either protocol and SetL came between.    *)
IsBlockStore == Store!Init /\ [][Store!Next]_(Store!vars)

(* Every call takes effect and returns: the loops over trees, levels and   *)
(* headers end whatever the trees hold.                                    *)
CallsReturn == Store!Fairness
=============================================================================
