------------------------- MODULE LLORAMSearchProofs -------------------------
(***************************************************************************)
(* The blocks of LLORAM.tla: no step duplicates or loses one, the pointers *)
(* of every tree lead to the blocks of the next, and Search follows them.  *)
(* So every step of an access is a step of the array of BlockStore.tla or  *)
(* changes nothing the caller can see.  All this for every height, bucket  *)
(* size, set of addresses and sequence of calls.  And as long as no tree   *)
(* is added, no access prints "decode error!".                             *)
(***************************************************************************)
EXTENDS LLORAMProofs
-----------------------------------------------------------------------------
(* The contents of a tree t with a stash st.                               *)

At(t, a) == {p \in DOMAIN t : a \in DOMAIN t[p].blocks}
Keys(t, st) == DOMAIN st \cup UNION {DOMAIN t[p].blocks : p \in DOMAIN t}
Item(t, st, a) ==
  IF a \in DOMAIN st THEN st[a]
  ELSE t[CHOOSE p \in At(t, a) : TRUE].blocks[a]

Once(t, st) ==
  \A p \in DOMAIN t : \A a \in DOMAIN t[p].blocks :
    /\ a \notin DOMAIN st
    /\ \A q \in DOMAIN t \ {p} : a \notin DOMAIN t[q].blocks

(* Block a is there, with the contents B.                                  *)
Has(t, st, a, B) ==
  \/ a \in DOMAIN st /\ st[a] = B
  \/ \E p \in At(t, a) : t[p].blocks[a] = B

LEMMA HasItem ==
  ASSUME NEW t, NEW st, Once(t, st), NEW a, NEW B
  PROVE  Has(t, st, a, B) <=> a \in Keys(t, st) /\ B = Item(t, st, a)
<1>1. CASE a \in DOMAIN st
  BY <1>1 DEF Has, Keys, Item, Once, At
<1>2. CASE a \notin DOMAIN st
  <2>1. CASE At(t, a) = {}
    BY <1>2, <2>1 DEF Has, Keys, At
  <2>2. CASE At(t, a) # {}
    <3> DEFINE c == CHOOSE p \in At(t, a) : TRUE
    <3>1. c \in At(t, a)
      BY <2>2
    <3>2. \A p \in At(t, a) : p = c
      BY <3>1 DEF At, Once
    <3>3. Item(t, st, a) = t[c].blocks[a] /\ a \in Keys(t, st)
      BY <1>2, <3>1 DEF Item, Keys, At
    <3> HIDE DEF c
    <3> QED BY <1>2, <3>1, <3>2, <3>3 DEF Has
  <2> QED BY <2>1, <2>2
<1> QED BY <1>1, <1>2

LEMMA SameItems ==
  ASSUME NEW t, NEW st, Once(t, st), NEW u, NEW su, Once(u, su),
         \A a, B : Has(u, su, a, B) <=> Has(t, st, a, B)
  PROVE  /\ Keys(u, su) = Keys(t, st)
         /\ \A a \in Keys(t, st) : Item(u, su, a) = Item(t, st, a)
<1>1. \A a, B : Has(t, st, a, B) <=> a \in Keys(t, st) /\ B = Item(t, st, a)
  BY HasItem
<1>2. \A a, B : Has(u, su, a, B) <=> a \in Keys(u, su) /\ B = Item(u, su, a)
  BY HasItem
<1>3. ASSUME NEW a PROVE a \in Keys(u, su) <=> a \in Keys(t, st)
  <2>1. a \in Keys(u, su) => Has(t, st, a, Item(u, su, a))
    BY <1>2
  <2>2. a \in Keys(t, st) => Has(u, su, a, Item(t, st, a))
    BY <1>1
  <2> QED BY <1>1, <1>2, <2>1, <2>2
<1>4. ASSUME NEW a \in Keys(t, st) PROVE Item(u, su, a) = Item(t, st, a)
  <2>1. Has(u, su, a, Item(t, st, a))
    BY <1>1
  <2> QED BY <1>2, <2>1
<1> QED BY <1>3, <1>4

(* The blocks of the buckets in A move to the stash.                       *)
LEMMA AbsorbItems ==
  ASSUME NEW t, NEW st, Once(t, st), NEW A, A \subseteq DOMAIN t, NEW ab,
         DOMAIN ab = UNION {DOMAIN t[p].blocks : p \in A},
         \A a \in DOMAIN ab :
           \E p \in A : a \in DOMAIN t[p].blocks /\ ab[a] = t[p].blocks[a]
  PROVE  LET u == Without(t, A)
             su == Overlay(st, ab)
         IN /\ Once(u, su)
            /\ \A a, B : Has(u, su, a, B) <=> Has(t, st, a, B)
<1> DEFINE u == Without(t, A)
           su == Overlay(st, ab)
<1>1. DOMAIN u = DOMAIN t \ A /\ \A p \in DOMAIN u : u[p] = t[p]
  BY DEF Without
<1>2. DOMAIN su = DOMAIN st \cup DOMAIN ab
      /\ \A a \in DOMAIN su : su[a] = IF a \in DOMAIN ab THEN ab[a] ELSE st[a]
  BY DEF Overlay
<1>3. DOMAIN st \cap DOMAIN ab = {}
  BY DEF Once
<1>4. \A a \in DOMAIN ab : \A p \in At(t, a) : p \in A /\ t[p].blocks[a] = ab[a]
  BY DEF Once, At
<1> HIDE DEF u, su
<1>5. Once(u, su)
  BY <1>1, <1>2, <1>4 DEF Once, At
<1>6. ASSUME NEW a, NEW B PROVE Has(u, su, a, B) <=> Has(t, st, a, B)
  <2>1. CASE a \in DOMAIN ab
    <3>1. At(t, a) # {}
      BY <2>1 DEF At
    <3>2. \A p \in At(t, a) : p \in A /\ t[p].blocks[a] = ab[a]
      BY <1>4, <2>1
    <3>3. At(u, a) = {}
      BY <1>1, <3>2 DEF At
    <3>4. a \notin DOMAIN st /\ a \in DOMAIN su /\ su[a] = ab[a]
      BY <1>2, <1>3, <2>1
    <3> QED BY <3>1, <3>2, <3>3, <3>4 DEF Has
  <2>2. CASE a \notin DOMAIN ab
    <3>1. At(u, a) = At(t, a) /\ \A p \in At(t, a) : u[p] = t[p]
      BY <1>1, <2>2 DEF At
    <3> QED BY <1>2, <2>2, <3>1 DEF Has
  <2> QED BY <2>1, <2>2
<1> QED BY <1>5, <1>6 DEF u, su

(* The blocks in S move to a new bucket at p; buckets beside it are new    *)
(* and empty or keep their blocks.                                         *)
LEMMA EvictItems ==
  ASSUME NEW t, NEW st, Once(t, st), NEW S, S \subseteq DOMAIN st,
         NEW p, p \notin DOMAIN t, NEW u, p \in DOMAIN u,
         DOMAIN t \subseteq DOMAIN u,
         u[p].blocks = [a \in S |-> st[a]],
         \A q \in DOMAIN u \ {p} :
           u[q].blocks = IF q \in DOMAIN t THEN t[q].blocks ELSE EmptyMap
  PROVE  LET su == Without(st, S)
         IN /\ Once(u, su)
            /\ \A a, B : Has(u, su, a, B) <=> Has(t, st, a, B)
<1> DEFINE su == Without(st, S)
<1>1. DOMAIN su = DOMAIN st \ S /\ \A a \in DOMAIN su : su[a] = st[a]
  BY DEF Without
<1>2. DOMAIN u[p].blocks = S /\ \A a \in S : u[p].blocks[a] = st[a]
  OBVIOUS
<1>3. ASSUME NEW q \in DOMAIN u \ {p}, NEW a \in DOMAIN u[q].blocks
      PROVE  /\ q \in DOMAIN t /\ a \in DOMAIN t[q].blocks
             /\ u[q].blocks[a] = t[q].blocks[a]
  BY <1>3 DEF EmptyMap
<1>4. \A q \in DOMAIN t : q # p /\ u[q].blocks = t[q].blocks
  OBVIOUS
<1> HIDE DEF su
<1>5. Once(u, su)
  <2> SUFFICES ASSUME NEW q \in DOMAIN u, NEW a \in DOMAIN u[q].blocks
               PROVE  /\ a \notin DOMAIN su
                      /\ \A r \in DOMAIN u \ {q} : a \notin DOMAIN u[r].blocks
    BY DEF Once
  <2>1. CASE q = p
    BY <1>1, <1>2, <1>3, <2>1 DEF Once
  <2>2. CASE q # p
    <3>1. q \in DOMAIN t /\ a \in DOMAIN t[q].blocks
      BY <1>3, <2>2
    <3>2. a \notin DOMAIN st /\ a \notin S
      BY <3>1 DEF Once
    <3>3. \A r \in DOMAIN u \ {p} : a \in DOMAIN u[r].blocks => r = q
      BY <1>3, <3>1 DEF Once
    <3> QED BY <1>1, <1>2, <3>2, <3>3
  <2> QED BY <2>1, <2>2
<1>6. ASSUME NEW a, NEW B PROVE Has(u, su, a, B) <=> Has(t, st, a, B)
  <2>1. CASE a \in S
    <3>1. a \in DOMAIN st /\ a \notin DOMAIN su /\ At(t, a) = {} /\ At(u, a) = {p}
      BY <1>1, <1>2, <1>3, <2>1 DEF Once, At
    <3> QED BY <1>2, <2>1, <3>1 DEF Has
  <2>2. CASE a \notin S
    <3>1. At(u, a) = At(t, a)
      BY <1>2, <1>3, <1>4, <2>2 DEF At
    <3>2. \A q \in At(t, a) : u[q].blocks = t[q].blocks
      BY <1>4 DEF At
    <3> QED BY <1>1, <2>2, <3>1, <3>2 DEF Has
  <2> QED BY <2>1, <2>2
<1> QED BY <1>5, <1>6 DEF su

(* One block, in no bucket, is written to the stash.                       *)
OneWritten(t, st, su, A, B) ==
  /\ Once(t, su)
  /\ Keys(t, su) = Keys(t, st) \cup {A}
  /\ Item(t, su, A) = B
  /\ \A a \in Keys(t, st) \ {A} : Item(t, su, a) = Item(t, st, a)

LEMMA RemapItems ==
  ASSUME NEW t, NEW st, Once(t, st), NEW A, At(t, A) = {},
         NEW g, DOMAIN g = {A}
  PROVE  OneWritten(t, st, Overlay(st, g), A, g[A])
<1> DEFINE su == Overlay(st, g)
<1>1. DOMAIN su = DOMAIN st \cup {A} /\ su[A] = g[A]
      /\ \A a \in DOMAIN st \ {A} : su[a] = st[a]
  BY DEF Overlay
<1> HIDE DEF su
<1>2. Once(t, su)
  BY <1>1 DEF Once, At
<1>3. Keys(t, su) = Keys(t, st) \cup {A}
  BY <1>1 DEF Keys
<1>4. Item(t, su, A) = g[A] /\ \A a : a # A => Item(t, su, a) = Item(t, st, a)
  BY <1>1 DEF Item
<1>5. OneWritten(t, st, su, A, g[A])
  BY <1>2, <1>3, <1>4 DEF OneWritten
<1> QED BY <1>5 DEF su
-----------------------------------------------------------------------------
(* Which buckets the token under construction has: those of the levels     *)
(* rebuilt so far, with their siblings.                                    *)
Nodes(y, lo, h) == UNION {{P(y, k), GetSibling(P(y, k))} : k \in lo..h}

From(i) == IF Rebuilt(i) THEN 1 ELSE IF InHand(i) THEN l + 1 ELSE i + 1

TokenInv ==
  \A i \in 1..L : DOMAIN sf[i] = Nodes(leaf_accessed[i], From(i), i)

LEMMA NoNodes ==
  ASSUME NEW y, NEW i \in Nat
  PROVE  Nodes(y, i + 1, i) = {}
<1>1. (i + 1)..i = {}
  OBVIOUS
<1> QED BY <1>1 DEF Nodes

LEMMA TokenEmpty ==
  ASSUME TypeInv, TokenInv, NEW i \in 1..L, ~Rebuilt(i), ~InHand(i)
  PROVE  sf[i] = EmptyMap
<1>1. i \in Nat /\ IsTree(DataOf(i), i, sf[i])
  BY DEF TypeInv, TypeOK
<1>2. DOMAIN sf[i] = {}
  BY <1>1, NoNodes DEF TokenInv, From
<1> QED
  BY <1>1, <1>2 DEF IsTree, EmptyMap

LEMMA TokenNext == TypeInv /\ ReadInv /\ TokenInv /\ [Next]_vars => TokenInv'
<1> SUFFICES ASSUME TypeInv, ReadInv, TokenInv, [Next]_vars PROVE TokenInv'
  OBVIOUS
<1>0. DOMAIN EmptyMap = {} /\ L \in Nat
  BY DEF EmptyMap, TypeInv, TypeOK
<1>1. CASE /\ UNCHANGED <<L, sf>>
           /\ \A i \in 1..L : ~Rebuilt(i) /\ ~InHand(i) /\ ~Rebuilt(i)' /\ ~InHand(i)'
  <2>1. \A i \in 1..L : DOMAIN sf[i] = {}
    BY <1>0, <1>1, TokenEmpty
  <2>2. ASSUME NEW i \in 1..L PROVE Nodes(leaf_accessed[i], From(i), i)' = {}
    <3>1. From(i)' = i + 1 /\ i \in Nat
      BY <1>1 DEF From
    <3>2. Nodes(leaf_accessed'[i], i + 1, i) = {}
      BY <3>1, NoNodes
    <3> QED BY <3>1, <3>2 DEF Nodes
  <2> QED BY <1>1, <2>1, <2>2 DEF TokenInv
<1>2. CASE /\ UNCHANGED <<L, sf, leaf_accessed>>
           /\ \A i \in 1..L : From(i)' = From(i)
  BY <1>2 DEF TokenInv, Nodes
<1>3. ASSUME NEW new_x, Remap(new_x)
      PROVE  TokenInv'
  <2>1. pc = "remap" /\ pc' = "evict" /\ l' = i_tree /\ i_tree \in 1..L
        /\ UNCHANGED <<L, sf, leaf_accessed, i_tree>>
    BY <1>3 DEF Remap, server, TypeInv, TypeOK
  <2>2. \A i \in 1..L : From(i)' = From(i)
    BY <2>1 DEF From, Rebuilt, InHand
  <2> QED BY <1>2, <2>1, <2>2
<1>4. CASE EvictLevel
  <2> DEFINE p == P(x, l)
  <2>1. /\ pc = "evict" /\ pc' = "evict" /\ l' = l - 1 /\ l \in Nat \ {0}
        /\ l <= i_tree /\ i_tree \in 1..L /\ x = leaf_accessed[i_tree]
        /\ DOMAIN sf = 1..L /\ UNCHANGED <<L, leaf_accessed, i_tree>>
    BY <1>4 DEF EvictLevel, server, TypeInv, TypeOK, ShapeInv, ReadInv
  <2>2. PICK blocks : sf' = [sf EXCEPT ![i_tree] = Overlay(@, AddPathNodes(p, blocks))]
    BY <1>4 DEF EvictLevel
  <2>3. DOMAIN sf'[i_tree] = DOMAIN sf[i_tree] \cup {p, GetSibling(p)}
    BY <2>1, <2>2 DEF Overlay, AddPathNodes
  <2>4. From(i_tree) = l + 1 /\ From(i_tree)' = l
    BY <2>1 DEF From, Rebuilt, InHand
  <2>5. \A k : k \in l..i_tree <=> (k = l \/ k \in (l + 1)..i_tree)
    BY <2>1
  <2>6. Nodes(x, l, i_tree) = Nodes(x, l + 1, i_tree) \cup {p, GetSibling(p)}
    <3> HIDE DEF p
    <3>1. \A k : k = l => P(x, k) = p
      BY DEF p
    <3> QED BY <2>5, <3>1 DEF Nodes
  <2>7. DOMAIN sf'[i_tree] = Nodes(x, l, i_tree)
    BY <2>1, <2>3, <2>4, <2>6 DEF TokenInv
  <2>8. ASSUME NEW i \in 1..L, i # i_tree
        PROVE  sf'[i] = sf[i] /\ From(i)' = From(i)
    BY <2>1, <2>2, <2>8 DEF From, Rebuilt, InHand
  <2> QED BY <2>1, <2>4, <2>7, <2>8 DEF TokenInv, Nodes
<1>5. CASE EndOfTree
  <2>1. /\ pc = "evict" /\ l = 0 /\ i_tree \in 1..L /\ L \in Nat
        /\ UNCHANGED <<L, sf, leaf_accessed>>
        /\ \/ i_tree > 1 /\ i_tree' = i_tree - 1 /\ pc' = "remap"
           \/ i_tree = 1 /\ pc' = "finish"
    BY <1>5 DEF EndOfTree, server, client, TypeInv, TypeOK
  <2>2. \A i \in 1..L : From(i)' = From(i)
    BY <2>1 DEF From, Rebuilt, InHand
  <2> QED BY <1>2, <2>1, <2>2
<1>6. CASE Finish
  <2>1. pc' = "idle" /\ L' = L /\ sf' = NoToken
    BY <1>6 DEF Finish
  <2>2. ASSUME NEW i \in 1..L PROVE Nodes(leaf_accessed[i], From(i), i)' = {}
    <3>1. From(i)' = i + 1 /\ i \in Nat
      BY <2>1 DEF From, Rebuilt, InHand
    <3>2. Nodes(leaf_accessed'[i], i + 1, i) = {}
      BY <3>1, NoNodes
    <3> QED BY <3>1, <3>2 DEF Nodes
  <2> QED BY <1>0, <2>1, <2>2 DEF TokenInv, NoToken
<1>7. ASSUME NEW m_L \in InitL..MaxL, SetL(m_L)
      PROVE  TokenInv'
  <2>1. pc' = "idle" /\ L' = m_L /\ sf' = [i \in 1..m_L |-> EmptyMap]
        /\ m_L \in Nat
    BY <1>7, ConstantAssumption DEF SetL
  <2>2. ASSUME NEW i \in 1..m_L PROVE Nodes(leaf_accessed[i], From(i), i)' = {}
    <3>1. From(i)' = i + 1 /\ i \in Nat
      BY <2>1 DEF From, Rebuilt, InHand
    <3>2. Nodes(leaf_accessed'[i], i + 1, i) = {}
      BY <3>1, NoNodes
    <3> QED BY <3>1, <3>2 DEF Nodes
  <2> QED BY <1>0, <2>1, <2>2 DEF TokenInv
<1>8. ASSUME NEW o, NEW a, NEW v, NEW one, Begin(o, a, v, one)
      PROVE  /\ UNCHANGED <<L, sf>>
             /\ pc \notin {"remap", "evict", "finish"}
             /\ pc' \notin {"evict", "finish"} /\ (pc' = "remap" => i_tree' = L)
  BY <1>8 DEF Begin, server, client
<1>9. ASSUME NEW a, NEW v, Reject(a, v)
      PROVE  /\ UNCHANGED <<L, sf>>
             /\ pc \notin {"remap", "evict", "finish"}
             /\ pc' \notin {"evict", "finish"} /\ (pc' = "remap" => i_tree' = L)
  BY <1>9 DEF Reject, server, local
<1>10. Complete \/ BuildToken \/ ReadBucket \/ EndOfPath \/ ProbeHit \/ ProbeMiss
         \/ ProbeEnd \/ WriteResponseToStash
       => /\ UNCHANGED <<L, sf>>
          /\ pc \notin {"remap", "evict", "finish"}
          /\ pc' \notin {"evict", "finish"} /\ (pc' = "remap" => i_tree' = L)
  BY DEF Complete, BuildToken, ReadBucket, EndOfPath, ProbeHit, ProbeMiss,
     ProbeEnd, WriteResponseToStash, SearchNextTree, server, client, local
<1>11. ASSUME UNCHANGED <<L, sf>>,
              pc \notin {"remap", "evict", "finish"},
              pc' \notin {"evict", "finish"}, pc' = "remap" => i_tree' = L
       PROVE  TokenInv'
  <2>1. \A i \in 1..L : ~Rebuilt(i) /\ ~InHand(i) /\ ~Rebuilt(i)' /\ ~InHand(i)'
    BY <1>0, <1>11 DEF Rebuilt, InHand
  <2> QED BY <1>1, <1>11, <2>1
<1>12. CASE UNCHANGED vars
  <2>1. UNCHANGED <<L, sf, leaf_accessed>> /\ \A i \in 1..L : From(i)' = From(i)
    BY <1>12 DEF vars, server, client, local, From, Rebuilt, InHand
  <2> QED BY <1>2, <2>1
<1>13. \A new_x : RemapData(new_x) \/ RemapPointer(new_x) => Remap(new_x)
  BY DEF RemapData, RemapPointer
<1> QED
  BY <1>3, <1>4, <1>5, <1>6, <1>7, <1>8, <1>9, <1>10, <1>11, <1>12, <1>13
     DEF Next, Caller, Step

LEMMA TokenInit == Init => TokenInv
<1> SUFFICES ASSUME Init, NEW i \in 1..L
             PROVE  DOMAIN sf[i] = Nodes(leaf_accessed[i], From(i), i)
  BY DEF TokenInv
<1>1. DOMAIN sf[i] = {}
  BY DEF Init, NoToken, EmptyMap
<1>2. From(i) = i + 1 /\ i \in Nat
  BY ConstantAssumption DEF Init, From, Rebuilt, InHand
<1>3. Nodes(leaf_accessed[i], i + 1, i) = {}
  BY <1>2, NoNodes
<1> QED
  BY <1>1, <1>2, <1>3
-----------------------------------------------------------------------------
(* The current buckets of a tree in the course of an access: the server's  *)
(* with the pending token, the server's alone, the server's without the    *)
(* path but with what is rebuilt of it.                                    *)

LEMMA WithoutNone ==
  ASSUME NEW f, NEW g
  PROVE  Without(Overlay(f, g), {}) = Overlay(f, g)
BY DEF Without, Overlay

LEMMA LiveCall ==
  ASSUME TypeInv, TokenInv, NEW i \in 1..L, ~Absorbing
  PROVE  Live(i) = Overlay(oram[i], pending[i])
<1> DEFINE u == Overlay(oram[i], pending[i])
<1>1. sf[i] = EmptyMap
  BY TokenEmpty DEF Rebuilt, InHand, Absorbing
<1>2. u = [p \in DOMAIN u |-> u[p]]
  BY DEF Overlay
<1>3. Live(i) = Overlay(u, EmptyMap)
  BY <1>1, WithoutNone DEF Live
<1> QED
  BY <1>2, <1>3, OverlayEmpty

LEMMA LiveSearch ==
  ASSUME TypeInv, SentInv, TokenInv, NEW i \in 1..L,
         pc \in {"read", "probe", "absorb"}
  PROVE  Live(i) = oram[i]
<1>1. Overlay(oram[i], pending[i]) = oram[i] /\ ~Absorbing
  BY DEF SentInv, Absorbing
<1> QED
  BY <1>1, LiveCall

LEMMA LiveRebuild ==
  ASSUME TypeInv, SentInv, NEW i \in 1..L, Absorbing
  PROVE  Live(i) = Overlay(Without(oram[i], Range(accessed[i])), sf[i])
<1>1. Overlay(oram[i], pending[i]) = oram[i]
  BY DEF SentInv, Absorbing
<1> QED
  BY <1>1 DEF Live

LEMMA LiveRebuilt ==
  ASSUME TypeInv, SentInv, ReadInv, TokenInv, NEW i \in 1..L, Rebuilt(i)
  PROVE  Live(i) = Overlay(oram[i], sf[i])
<1> DEFINE A == accessed[i]
           y == leaf_accessed[i]
<1>1. Absorbing /\ pc # "idle" /\ Searched(i)
  BY DEF Rebuilt, Absorbing, Searched
<1>2. ReadBelow(i, y, 0) /\ A \in Seq(Path) /\ i \in Nat
  BY <1>1 DEF ReadInv, TypeInv, TypeOK
<1>3. ASSUME NEW p \in Range(A) PROVE p \in DOMAIN sf[i]
  <2>1. PICK c \in DOMAIN A : p = A[c]
    BY DEF Range
  <2>2. c \in 1..i /\ A[c] = P(y, c)
    BY <1>2 DEF ReadBelow
  <2>3. P(y, c) \in Nodes(y, 1, i)
    BY <2>2 DEF Nodes
  <2> QED BY <2>1, <2>2, <2>3 DEF TokenInv, From
<1>4. Live(i) = Overlay(Without(oram[i], Range(A)), sf[i])
  BY <1>1, LiveRebuild
<1> HIDE DEF A
<1> QED
  BY <1>3, <1>4 DEF Overlay, Without

(* Most steps move no block.                                               *)
Same ==
  /\ L' = L
  /\ \A i \in 1..L : Live(i)' = Live(i) /\ stash'[i] = stash[i]

LEMMA SameFinish ==
  TypeInv /\ SentInv /\ ReadInv /\ TokenInv /\ Finish
    /\ TypeInv' /\ TokenInv' => Same
<1> SUFFICES ASSUME TypeInv, SentInv, ReadInv, TokenInv, Finish,
                    TypeInv', TokenInv', NEW i \in 1..L
             PROVE  L' = L /\ Live(i)' = Live(i) /\ stash'[i] = stash[i]
  BY DEF Same, Finish
<1>1. pc = "finish" /\ pc' = "idle" /\ UNCHANGED <<L, stash>> /\ sf' = NoToken
      /\ \/ oneRound /\ pending' = sf /\ UNCHANGED oram
         \/ ~oneRound /\ oram' = Shuffled(sf) /\ UNCHANGED pending
  BY DEF Finish
<1>2. Live(i) = Overlay(oram[i], sf[i])
  BY <1>1, LiveRebuilt DEF Rebuilt
<1>3. Live(i)' = Overlay(oram'[i], pending'[i])
  <2>1. Absorbing' = FALSE /\ sf'[i] = EmptyMap
    BY <1>1 DEF Absorbing, NoToken
  <2> DEFINE u == Overlay(oram'[i], pending'[i])
  <2>2. u = [p \in DOMAIN u |-> u[p]]
    BY DEF Overlay
  <2>3. Live(i)' = Overlay(u, EmptyMap)
    BY <2>1, WithoutNone DEF Live
  <2> QED BY <2>2, <2>3, OverlayEmpty
<1>4. CASE oneRound
  BY <1>1, <1>2, <1>3, <1>4
<1>5. CASE ~oneRound
  <2> DEFINE u == Overlay(oram[i], sf[i])
  <2>1. pending'[i] = EmptyMap /\ oram'[i] = u
    BY <1>1, <1>5 DEF SentInv, NoToken, Shuffled
  <2>2. u = [p \in DOMAIN u |-> u[p]]
    BY DEF Overlay
  <2> QED BY <1>1, <1>2, <1>3, <2>1, <2>2, OverlayEmpty
<1> QED
  BY <1>1, <1>4, <1>5

(* The pending token reaches the server, with a request or alone.          *)
LEMMA SameCall ==
  ASSUME TypeInv, SentInv, TokenInv, Complete \/ BuildToken
  PROVE  Same
<1> SUFFICES ASSUME NEW i \in 1..L
             PROVE  L' = L /\ Live(i)' = Live(i) /\ stash'[i] = stash[i]
  BY DEF Same, Complete, BuildToken
<1> DEFINE u == Overlay(oram[i], pending[i])
<1>1. /\ pc \in {"idle", "build"} /\ pc' \in {"idle", "build", "read"}
      /\ UNCHANGED <<L, stash, sf>>
      /\ \/ UNCHANGED <<oram, pending>>
         \/ oram' = Shuffled(pending) /\ pending' \in {pending, NoToken}
  BY DEF Complete, BuildToken, local, client
<1>2. sf[i] = EmptyMap /\ Live(i) = u
  BY <1>1, LiveCall, TokenEmpty DEF Rebuilt, InHand, Absorbing
<1>3. u = [p \in DOMAIN u |-> u[p]] /\ Overlay(u, EmptyMap) = u
      /\ Overlay(u, pending[i]) = u
  <2>1. u = [p \in DOMAIN u |-> u[p]]
    BY DEF Overlay
  <2> QED BY <2>1, OverlayEmpty, OverlayTwice
<1>4. Overlay(oram'[i], pending'[i]) = u
  <2>1. NoToken[i] = EmptyMap /\ Shuffled(pending)[i] = u
    BY DEF NoToken, Shuffled
  <2> QED BY <1>1, <1>3, <2>1
<1>5. Live(i)' = Overlay(Without(u, {}), EmptyMap)
  BY <1>1, <1>2, <1>4 DEF Live, Absorbing
<1> QED
  BY <1>1, <1>2, <1>3, <1>5, WithoutNone

LEMMA SameSteps ==
  ASSUME UNCHANGED <<L, oram, pending, stash, sf>>,
         \/ ~Absorbing /\ ~Absorbing'
         \/ UNCHANGED accessed /\ Absorbing' = Absorbing
  PROVE  Same
BY DEF Same, Live
-----------------------------------------------------------------------------
(* The numbers of the blocks looked for: half of the number in the tree    *)
(* below, the remainder says which side points there.                      *)
Above(i) == IF i = L THEN addr ELSE tokens[i + 1].a

Derived(i) ==
  /\ tokens[i].a \in Nat /\ tokens[i].b \in Sides
  /\ tokens[i].a = Above(i) \div 2 /\ tokens[i].b = Above(i) % 2
  /\ i < L => tokens[i].a <= (addr \div 2) \div 2

SplitInv ==
  /\ pc # "idle" => addr \in Addr
  /\ pc = "build" =>
       /\ aa = Above(i_tree)
       /\ \A i \in (i_tree + 1)..L : Derived(i)
  /\ pc \notin {"idle", "build"} => \A i \in 1..L : Derived(i)
  /\ pc = "remap" => aa = Above(i_tree)
  /\ pc = "evict" => aa = tokens[i_tree].a

LEMMA SplitInit == Init => SplitInv
BY DEF Init, SplitInv

LEMMA SplitBuildToken ==
  ASSUME TypeInv, SplitInv, BuildToken, NEW i, i = i_tree
  PROVE  SplitInv'
<1>1. /\ pc = "build" /\ i \in 1..L /\ L \in Nat /\ aa \in Nat /\ addr \in Nat
      /\ addr \in Addr /\ UNCHANGED <<L, addr>> /\ aa' = aa \div 2
      /\ DOMAIN tokens = 1..L /\ aa = Above(i)
      /\ \/ i > 1 /\ i_tree' = i - 1 /\ pc' = "build"
         \/ i = 1 /\ pc' = "read"
  BY DEF BuildToken, call, TypeInv, TypeOK, SplitInv
<1>2. /\ tokens'[i].a = aa \div 2 /\ tokens'[i].b = aa % 2
      /\ \A j \in 1..L : j # i => tokens'[j] = tokens[j]
  BY <1>1 DEF BuildToken
<1>3. \A j \in i..L : Above(j)' = Above(j)
  <2> SUFFICES ASSUME NEW j \in i..L PROVE Above(j)' = Above(j)
    OBVIOUS
  <2>1. j # L => j + 1 \in 1..L /\ j + 1 # i
    BY <1>1
  <2> QED BY <1>1, <1>2, <2>1 DEF Above
<1>4. Derived(i)'
  <2>1. aa \div 2 \in Nat /\ aa % 2 \in Sides
    BY <1>1 DEF Sides
  <2>2. i < L => aa \div 2 <= (addr \div 2) \div 2
    <3> SUFFICES ASSUME i < L PROVE aa \div 2 <= (addr \div 2) \div 2
      OBVIOUS
    <3>1. i + 1 \in (i + 1)..L /\ aa = tokens[i + 1].a
      BY <1>1 DEF Above
    <3>2. Derived(i + 1)
      BY <1>1, <3>1 DEF SplitInv
    <3>3. aa = addr \div 2 \/ aa <= (addr \div 2) \div 2
      BY <1>1, <3>1, <3>2 DEF Derived, Above
    <3> QED BY <1>1, <3>3
  <2> QED BY <1>1, <1>2, <1>3, <2>1, <2>2 DEF Derived
<1>5. \A j \in (i + 1)..L : Derived(j)'
  <2> SUFFICES ASSUME NEW j \in (i + 1)..L PROVE Derived(j)'
    OBVIOUS
  <2>1. j \in 1..L /\ j \in i..L /\ j # i
    BY <1>1
  <2>2. Derived(j)
    BY <1>1 DEF SplitInv
  <2> QED BY <1>1, <1>2, <1>3, <2>1, <2>2 DEF Derived
<1>6. \A j \in i..L : Derived(j)'
  <2>1. \A j \in i..L : j = i \/ j \in (i + 1)..L
    BY <1>1
  <2> QED BY <1>4, <1>5, <2>1
<1>7. CASE i = 1
  BY <1>1, <1>6, <1>7 DEF SplitInv
<1>8. CASE i > 1
  <2>1. Above(i - 1)' = aa'
    BY <1>1, <1>2, <1>8 DEF Above
  <2>2. i_tree' + 1 = i
    BY <1>1, <1>8
  <2> QED BY <1>1, <1>6, <1>8, <2>1, <2>2 DEF SplitInv
<1> QED
  BY <1>1, <1>7, <1>8

LEMMA SplitNext == TypeInv /\ SplitInv /\ [Next]_vars => SplitInv'
<1> SUFFICES ASSUME TypeInv, SplitInv, [Next]_vars PROVE SplitInv'
  OBVIOUS
<1>1. ASSUME NEW o, NEW a \in Addr, NEW v, NEW one, Begin(o, a, v, one)
      PROVE  SplitInv'
  <2>1. pc' = "build" /\ addr' = a /\ aa' = a /\ i_tree' = L /\ L' = L
        /\ L \in Nat
    BY <1>1 DEF Begin, server, TypeInv, TypeOK
  <2>2. (L + 1)..L = {}
    BY <2>1
  <2> QED BY <2>1, <2>2 DEF SplitInv, Above
<1>2. CASE pc' = "idle"
  BY <1>2 DEF SplitInv
<1>3. CASE BuildToken
  BY <1>3, SplitBuildToken
<1>4. CASE UNCHANGED <<L, addr, tokens>> /\ pc \notin {"idle", "build"}
           /\ pc' \notin {"idle", "build", "remap", "evict"}
  BY <1>4 DEF SplitInv, Derived, Above
<1>5. CASE WriteResponseToStash
  BY <1>5 DEF WriteResponseToStash, server, call, SplitInv, Derived, Above
<1>6. ASSUME NEW new_x, Remap(new_x)
      PROVE  SplitInv'
  <2>1. /\ pc = "remap" /\ pc' = "evict" /\ UNCHANGED <<L, addr, tokens, i_tree>>
        /\ aa' = aa \div 2 /\ i_tree \in 1..L
    BY <1>6 DEF Remap, server, TypeInv, TypeOK
  <2> QED BY <2>1 DEF SplitInv, Derived, Above
<1>7. CASE EvictLevel
  BY <1>7 DEF EvictLevel, server, call, SplitInv, Derived, Above
<1>8. CASE EndOfTree
  <2>1. /\ pc = "evict" /\ UNCHANGED <<L, addr, tokens, aa>>
        /\ i_tree \in 1..L /\ L \in Nat
        /\ pc' = "finish" \/ (pc' = "remap" /\ i_tree' = i_tree - 1)
    BY <1>8 DEF EndOfTree, server, call, TypeInv, TypeOK
  <2>2. pc' = "remap" => Above(i_tree)' = aa
    BY <2>1 DEF Above, SplitInv
  <2> QED BY <2>1, <2>2 DEF SplitInv, Derived, Above
<1>9. CASE UNCHANGED vars
  BY <1>9 DEF vars, server, call, local, SplitInv, Derived, Above
<1>10. ReadBucket \/ EndOfPath \/ ProbeHit \/ ProbeMiss \/ ProbeEnd
       => UNCHANGED <<L, addr, tokens>> /\ pc \notin {"idle", "build"}
          /\ pc' \notin {"idle", "build", "remap", "evict"}
  BY DEF ReadBucket, EndOfPath, ProbeHit, ProbeMiss, ProbeEnd, SearchNextTree,
     server, call
<1>11. \A a, v : Reject(a, v) => pc' = "idle"
  BY DEF Reject
<1>12. Complete \/ Finish \/ (\E m : SetL(m)) => pc' = "idle"
  BY DEF Complete, Finish, SetL
<1>13. \A new_x : RemapData(new_x) \/ RemapPointer(new_x) => Remap(new_x)
  BY DEF RemapData, RemapPointer
<1> QED
  BY <1>1, <1>2, <1>3, <1>4, <1>5, <1>6, <1>7, <1>8, <1>9, <1>10, <1>11,
     <1>12, <1>13 DEF Next, Caller, Step
-----------------------------------------------------------------------------
(* The contents of the trees, step by step.                                *)

LEMMA BlocksAreKeys ==
  ASSUME NEW i
  PROVE  /\ Blocks(i) = Keys(Live(i), stash[i])
         /\ \A a : Block(i, a) = Item(Live(i), stash[i], a)
         /\ \A a : InTree(i, a) = At(Live(i), a)
BY DEF Blocks, Keys, Block, Item, InTree, At

LEMMA LiveType ==
  ASSUME TypeInv, NEW i \in 1..L
  PROVE  IsTree(DataOf(i), i, Live(i))
<1>1. IsTree(DataOf(i), i, oram[i]) /\ IsTree(DataOf(i), i, pending[i])
      /\ IsTree(DataOf(i), i, sf[i])
  BY DEF TypeInv, TypeOK
<1>2. \A f, S : IsTree(DataOf(i), i, f) => IsTree(DataOf(i), i, Without(f, S))
  BY DEF IsTree, Without
<1> QED
  BY <1>1, <1>2, OverlayTree DEF Live

LEMMA BlockType ==
  ASSUME TypeInv, NEW i \in 1..L, NEW a \in Blocks(i)
  PROVE  a \in Nat /\ Block(i, a) \in [data : [Sides -> DataOf(i)], node : Path]
<1> DEFINE t == Live(i)
<1>1. IsTree(DataOf(i), i, t) /\ IsBlockMap(DataOf(i), stash[i])
  BY LiveType DEF TypeInv, TypeOK
<1>2. CASE a \in DOMAIN stash[i]
  BY <1>1, <1>2 DEF Block, IsBlockMap
<1>3. CASE a \notin DOMAIN stash[i]
  <2> DEFINE c == CHOOSE p \in InTree(i, a) : TRUE
  <2>1. c \in InTree(i, a)
    BY <1>3 DEF Blocks, InTree
  <2>2. c \in DOMAIN t /\ a \in DOMAIN t[c].blocks /\ Block(i, a) = t[c].blocks[a]
    BY <1>3, <2>1 DEF InTree, Block
  <2> HIDE DEF c, t
  <2>3. IsBlockMap(DataOf(i), t[c].blocks)
    BY <1>1, <2>2 DEF IsTree, IsBucket
  <2> QED BY <2>2, <2>3 DEF IsBlockMap
<1> QED BY <1>2, <1>3

OnceInv == \A i \in 1..L : Once(Live(i), stash[i])

(* After the paths were read, a tree that is not rebuilt yet has the block *)
(* looked for in no bucket.                                                *)
GoneInv ==
  Absorbing =>
    \A i \in 1..L : ~Rebuilt(i) /\ ~InHand(i) => At(Live(i), tokens[i].a) = {}

(* Nothing happens to the contents of tree i.                              *)
Kept(i) ==
  /\ Blocks(i)' = Blocks(i)
  /\ \A a \in Blocks(i) : Block(i, a)' = Block(i, a)

LEMMA SameKept ==
  ASSUME Same, OnceInv
  PROVE  OnceInv' /\ \A i \in 1..L : Kept(i)
<1>1. ASSUME NEW i \in 1..L PROVE Kept(i)
  <2>1. /\ Blocks(i)' = Keys(Live(i)', stash'[i])
        /\ \A a : Block(i, a)' = Item(Live(i)', stash'[i], a)
    BY DEF Blocks, Keys, Block, Item, InTree, At
  <2> QED BY <2>1, BlocksAreKeys DEF Same, Kept
<1>2. OnceInv'
  BY DEF Same, OnceInv
<1> QED BY <1>1, <1>2

(* Has is what a tree and a stash contain together.                        *)
LEMMA HasKept ==
  ASSUME NEW i, Once(Live(i), stash[i]), Once(Live(i)', stash'[i]),
         \A a, B : Has(Live(i)', stash'[i], a, B) <=> Has(Live(i), stash[i], a, B)
  PROVE  Kept(i)
<1>1. /\ Blocks(i)' = Keys(Live(i)', stash'[i])
      /\ \A a : Block(i, a)' = Item(Live(i)', stash'[i], a)
  BY DEF Blocks, Keys, Block, Item, InTree, At
<1>2. /\ Keys(Live(i)', stash'[i]) = Keys(Live(i), stash[i])
      /\ \A a \in Keys(Live(i), stash[i]) :
           Item(Live(i)', stash'[i], a) = Item(Live(i), stash[i], a)
  BY SameItems
<1> QED
  BY <1>1, <1>2, BlocksAreKeys DEF Kept

(* What is absorbed: the blocks of the buckets read.                       *)
LEMMA AbsorbedBlocks ==
  ASSUME TypeInv, pc # "idle", NEW i \in 1..L
  PROVE  LET R == Range(accessed[i])
             ab == Absorbed(i)
         IN /\ R \subseteq DOMAIN oram[i]
            /\ DOMAIN ab = UNION {DOMAIN oram[i][p].blocks : p \in R}
            /\ \A a \in DOMAIN ab :
                 \E p \in R : a \in DOMAIN oram[i][p].blocks
                              /\ ab[a] = oram[i][p].blocks[a]
<1> DEFINE A == accessed[i]
           R == Range(A)
           ab == Absorbed(i)
           holders(a) == {c \in DOMAIN A : a \in DOMAIN oram[i][A[c]].blocks}
           all == UNION {DOMAIN oram[i][A[c]].blocks : c \in DOMAIN A}
<1>1. A \in Seq(Path) /\ DOMAIN A = 1..Len(A)
  BY DEF TypeInv, TypeOK
<1>2. R = {A[c] : c \in DOMAIN A}
  BY DEF Range
<1>3. R \subseteq DOMAIN oram[i]
  BY <1>1, <1>2 DEF TypeInv, ShapeInv
<1>4. ab = [a \in all |-> oram[i][A[Min(holders(a))]].blocks[a]]
  BY DEF Absorbed
<1>5. all = UNION {DOMAIN oram[i][p].blocks : p \in R}
  BY <1>2
<1>6. ASSUME NEW a \in all
      PROVE  \E p \in R : a \in DOMAIN oram[i][p].blocks /\ ab[a] = oram[i][p].blocks[a]
  <2> DEFINE S == holders(a)
             c == Min(S)
  <2>1. S # {} /\ S \in SUBSET Nat
    BY <1>1
  <2>2. c \in S
    <3> HIDE DEF S
    <3> QED BY <2>1, MinIsLeast
  <2>3. c \in DOMAIN A /\ a \in DOMAIN oram[i][A[c]].blocks
    BY <2>2
  <2>4. ab[a] = oram[i][A[c]].blocks[a]
    BY <1>4
  <2> HIDE DEF c, S, ab, all
  <2> QED BY <1>2, <2>3, <2>4
<1> HIDE DEF holders, all
<1>7. DOMAIN ab = all
  BY <1>4
<1> QED BY <1>3, <1>5, <1>6, <1>7

LEMMA AbsorbKept ==
  ASSUME TypeInv, SentInv, TokenInv, OnceInv, WriteResponseToStash,
         NEW i \in 1..L
  PROVE  /\ Once(Live(i)', stash'[i]) /\ Kept(i)
         /\ Live(i) = oram[i]
         /\ Live(i)' = Without(oram[i], Range(accessed[i]))
<1> DEFINE R == Range(accessed[i])
           t == oram[i]
           u == Without(t, R)
<1>1. /\ pc = "absorb" /\ pc' = "remap" /\ UNCHANGED <<L, oram, pending, sf, accessed>>
      /\ stash'[i] = Overlay(stash[i], Absorbed(i))
  BY DEF WriteResponseToStash, server
<1>2. Live(i) = t
  BY <1>1, LiveSearch
<1>3. Live(i)' = u
  <2>1. sf'[i] = EmptyMap
    BY <1>1, TokenEmpty DEF Rebuilt, InHand
  <2>2. Overlay(oram'[i], pending'[i]) = t
    BY <1>1 DEF SentInv
  <2>3. Live(i)' = Overlay(u, EmptyMap)
    BY <1>1, <2>1, <2>2 DEF Live, Absorbing
  <2>4. u = [p \in DOMAIN u |-> u[p]]
    BY DEF Without
  <2> QED BY <2>3, <2>4, OverlayEmpty
<1>4. Once(t, stash[i])
  BY <1>2 DEF OnceInv
<1>5. /\ Once(u, stash'[i])
      /\ \A a, B : Has(u, stash'[i], a, B) <=> Has(t, stash[i], a, B)
  <2> DEFINE ab == Absorbed(i)
             st == stash[i]
  <2>1. /\ R \subseteq DOMAIN t
        /\ DOMAIN ab = UNION {DOMAIN t[p].blocks : p \in R}
        /\ \A a \in DOMAIN ab :
             \E p \in R : a \in DOMAIN t[p].blocks /\ ab[a] = t[p].blocks[a]
    BY <1>1, AbsorbedBlocks
  <2>2. stash'[i] = Overlay(st, ab)
    BY <1>1
  <2> HIDE DEF ab, st, R, t
  <2>3. /\ Once(Without(t, R), Overlay(st, ab))
        /\ \A a, B : Has(Without(t, R), Overlay(st, ab), a, B) <=> Has(t, st, a, B)
    BY <1>4, <2>1, AbsorbItems DEF st
  <2> QED BY <2>2, <2>3 DEF st
<1> HIDE DEF t, u
<1>6. /\ Once(Live(i), stash[i]) /\ Once(Live(i)', stash'[i])
      /\ \A a, B : Has(Live(i)', stash'[i], a, B) <=> Has(Live(i), stash[i], a, B)
  BY <1>2, <1>3, <1>4, <1>5
<1>7. Kept(i)
  BY <1>6, HasKept
<1>8. Live(i) = oram[i]
  BY <1>2 DEF t
<1>9. Live(i)' = Without(oram[i], Range(accessed[i]))
  BY <1>3 DEF t, u
<1>10. Once(Live(i)', stash'[i])
  BY <1>6
<1> QED
  BY <1>7, <1>8, <1>9, <1>10

(* The buckets of one level, before they are rebuilt: the path's is taken  *)
(* out, the one beside it is as the server has it.                         *)
LEMMA LevelBuckets ==
  ASSUME TypeInv, FormInv, ReadInv, SentInv, TokenInv, EvictLevel,
         NEW i, i = i_tree
  PROVE  LET p == P(x, l)
             s == GetSibling(p)
         IN /\ p \notin DOMAIN Live(i)
            /\ p # <<>> =>
                 /\ s # p
                 /\ s \in DOMAIN Live(i) <=> s \in DOMAIN oram[i]
                 /\ s \in DOMAIN Live(i) => Live(i)[s] = oram[i][s]
            /\ SiblingBucket(p).blocks =
                 IF s # p /\ s \in DOMAIN oram[i] THEN oram[i][s].blocks
                 ELSE SiblingBucket(p).blocks
            /\ p # <<>> /\ s \notin DOMAIN oram[i] =>
                 SiblingBucket(p).blocks = EmptyMap
<1> DEFINE p == P(x, l)
           s == GetSibling(p)
           o == oram[i]
           R == Range(accessed[i])
<1>1. /\ pc = "evict" /\ i \in 1..L /\ l \in Nat \ {0} /\ l <= i
      /\ x \in Path /\ Len(x) = i - 1 /\ x = leaf_accessed[i]
      /\ accessed[i] \in Seq(Path)
  BY LeafIsPath DEF EvictLevel, TypeInv, TypeOK, ShapeInv, ReadInv
<1>2. p \in Path /\ Len(p) = l - 1 /\ s \in Path /\ Len(s) = l - 1
  BY <1>1, PathOfLeaf, SiblingPath
<1>3. Live(i) = Overlay(Without(o, R), sf[i])
  BY <1>1, LiveRebuild DEF Absorbing
<1>4. ASSUME NEW q \in DOMAIN sf[i] PROVE q # p /\ q # s
  <2>1. DOMAIN sf[i] = Nodes(x, l + 1, i)
    BY <1>1 DEF TokenInv, From, Rebuilt, InHand
  <2>2. PICK k \in (l + 1)..i : q \in {P(x, k), GetSibling(P(x, k))}
    BY <2>1 DEF Nodes
  <2>3. Len(q) = k - 1
    <3>1. k \in 1..(Len(x) + 1)
      BY <1>1
    <3> DEFINE r == P(x, k)
    <3>2. r \in Path /\ Len(r) = k - 1
      BY <1>1, <3>1, PathOfLeaf
    <3>3. q = r \/ q = GetSibling(r)
      BY <2>2
    <3> HIDE DEF r
    <3> QED BY <3>2, <3>3, SiblingPath
  <2> QED BY <1>1, <1>2, <2>3
<1>5. p \in DOMAIN o => p \in R
  BY <1>1, BucketRead
<1>6. ASSUME p # <<>>
      PROVE  s # p /\ s \notin R /\ (s \in DOMAIN o => p \in DOMAIN o)
  <2>1. s # p /\ s # <<>> /\ GetSibling(s) = p
    BY <1>2, <1>6, SiblingFacts
  <2>2. ASSUME s \in R PROVE FALSE
    <3>1. PICK c \in DOMAIN accessed[i] : s = accessed[i][c]
      BY <2>2 DEF Range
    <3>2. ReadBelow(i, x, 0)
      BY <1>1 DEF ReadInv, Searched
    <3>3. c \in 1..i /\ s = P(x, c)
      BY <1>1, <3>1, <3>2 DEF ReadBelow
    <3>4. Len(s) = c - 1
      BY <1>1, <3>3, PathOfLeaf
    <3>5. c = l
      BY <1>1, <1>2, <3>3, <3>4
    <3> QED BY <2>1, <3>3, <3>5
  <2> QED BY <1>1, <2>1, <2>2 DEF FormInv, Shaped
<1>7. p \notin DOMAIN Live(i)
  BY <1>3, <1>4, <1>5 DEF Overlay, Without
<1>8. ASSUME p # <<>>
      PROVE  /\ s \in DOMAIN Live(i) <=> s \in DOMAIN o
             /\ s \in DOMAIN Live(i) => Live(i)[s] = o[s]
  <2>1. s \notin R /\ s \notin DOMAIN sf[i]
    BY <1>4, <1>6, <1>8
  <2> QED BY <1>3, <2>1 DEF Overlay, Without
<1>9. p # <<>> =>
        SiblingBucket(p).blocks = IF s \in DOMAIN o THEN o[s].blocks ELSE EmptyMap
  BY <1>1, <1>5, <1>6 DEF SiblingBucket, BuildBucket
<1>10. s # p => p # <<>>
  BY DEF GetSibling
<1> HIDE DEF p, s, o, R
<1>11. SiblingBucket(p).blocks =
                 IF s # p /\ s \in DOMAIN o THEN o[s].blocks
                 ELSE SiblingBucket(p).blocks
  BY <1>9, <1>10
<1> QED BY <1>6, <1>7, <1>8, <1>9, <1>11 DEF p, s, o

LEMMA EvictKept ==
  ASSUME TypeInv, FormInv, ReadInv, SentInv, TokenInv, OnceInv, EvictLevel,
         NEW i, i = i_tree
  PROVE  Once(Live(i)', stash'[i]) /\ Kept(i)
<1> DEFINE p == P(x, l)
           s == GetSibling(p)
           t == Live(i)
           st == stash[i]
           stay(S) == [a \in S |-> st[a]]
<1>1. /\ pc = "evict" /\ pc' = "evict" /\ i \in 1..L /\ DOMAIN stash = 1..L
      /\ DOMAIN sf = 1..L /\ UNCHANGED <<L, oram, pending, accessed>>
  BY DEF EvictLevel, server, TypeInv, TypeOK
<1>2. PICK S \in Evicted(p) :
        /\ stash' = [stash EXCEPT ![i_tree] = Without(@, S)]
        /\ sf' = [sf EXCEPT ![i_tree] = Overlay(@, AddPathNodes(p, stay(S)))]
  BY DEF EvictLevel
<1>3. S \subseteq DOMAIN st
  BY DEF Evicted, Evictable, kSubset
<1> DEFINE g == AddPathNodes(p, stay(S))
           w == Without(oram[i], Range(accessed[i]))
           u == Live(i)'
<1>4. t = Overlay(w, sf[i]) /\ u = Overlay(w, Overlay(sf[i], g))
  <2>1. t = Overlay(w, sf[i])
    BY <1>1, LiveRebuild DEF Absorbing
  <2>2. sf'[i] = Overlay(sf[i], g)
    BY <1>1, <1>2
  <2>3. Overlay(oram[i], pending[i]) = oram[i]
    BY <1>1 DEF SentInv
  <2>4. u = Overlay(Without(Overlay(oram[i], pending[i]), Range(accessed[i])), sf'[i])
    BY <1>1 DEF Live, Absorbing
  <2> QED BY <2>1, <2>2, <2>3, <2>4
<1>5. DOMAIN g = {p, s} /\ g[p].blocks = stay(S)
      /\ (s # p => g[s].blocks = SiblingBucket(p).blocks)
  BY DEF AddPathNodes, BuildBucket
<1>6. /\ p \notin DOMAIN t
      /\ s # p =>
           SiblingBucket(p).blocks =
             IF s \in DOMAIN t THEN t[s].blocks ELSE EmptyMap
  <2>1. s # p => p # <<>>
    BY DEF GetSibling
  <2> QED BY <2>1, LevelBuckets
<1> HIDE DEF g, w, t, u, s, p
<1>7. DOMAIN u = DOMAIN t \cup {p, s}
      /\ \A q \in DOMAIN u : u[q] = IF q \in {p, s} THEN g[q] ELSE t[q]
  BY <1>4, <1>5 DEF Overlay
<1>8. /\ p \in DOMAIN u /\ DOMAIN t \subseteq DOMAIN u /\ u[p].blocks = stay(S)
      /\ \A q \in DOMAIN u \ {p} :
           u[q].blocks = IF q \in DOMAIN t THEN t[q].blocks ELSE EmptyMap
  BY <1>5, <1>6, <1>7
<1>9. stash'[i] = Without(st, S)
  BY <1>1, <1>2
<1>10. Once(t, st)
  BY <1>1 DEF OnceInv, t
<1> HIDE DEF st
<1>11. /\ Once(u, Without(st, S))
       /\ \A a, B : Has(u, Without(st, S), a, B) <=> Has(t, st, a, B)
  <2>1. u[p].blocks = [a \in S |-> st[a]]
    BY <1>8
  <2> HIDE DEF stay
  <2> QED BY <1>3, <1>6, <1>8, <1>10, <2>1, EvictItems
<1>12. Once(Live(i)', stash'[i]) /\ Once(Live(i), stash[i])
       /\ \A a, B : Has(Live(i)', stash'[i], a, B) <=> Has(Live(i), stash[i], a, B)
  BY <1>9, <1>10, <1>11 DEF t, u, st
<1> QED
  BY <1>12, HasKept

LEMMA NextBlocksAreKeys ==
  ASSUME NEW i
  PROVE  /\ Blocks(i)' = Keys(Live(i)', stash'[i])
         /\ \A a : Block(i, a)' = Item(Live(i)', stash'[i], a)
         /\ \A a : InTree(i, a)' = At(Live(i)', a)
BY DEF Blocks, Keys, Block, Item, InTree, At

(* Remap writes side b of block A of the tree in hand and its new leaf.    *)
Written(i, A, b, d, other, new_x) ==
  /\ Blocks(i)' = Blocks(i) \cup {A}
  /\ \A a \in Blocks(i) \ {A} : Block(i, a)' = Block(i, a)
  /\ Block(i, A)'.node = new_x
  /\ Block(i, A)'.data[b] = d
  /\ \A s \in Sides \ {b} :
       Block(i, A)'.data[s] =
         IF A \in Blocks(i) THEN Block(i, A).data[s] ELSE other

LEMMA RemapWrites ==
  ASSUME TypeInv, TokenInv, SplitInv, OnceInv, GoneInv, NEW new_x,
         Remap(new_x), NEW i, i = i_tree, NEW A, A = tokens[i].a,
         NEW b, b = tokens[i].b, NEW d, NEW other,
         WriteStashWithNode(i_tree, aa \div 2, aa % 2, d, other, new_x)
  PROVE  /\ L' = L /\ OnceInv'
         /\ \A j \in 1..L : Live(j)' = Live(j)
         /\ \A j \in 1..L : j # i => stash'[j] = stash[j] /\ Kept(j)
         /\ Written(i, A, b, d, other, new_x)
<1> DEFINE t == Live(i)
           st == stash[i]
<1>1. /\ pc = "remap" /\ pc' = "evict" /\ i \in 1..L /\ DOMAIN stash = 1..L
      /\ UNCHANGED <<L, oram, pending, accessed, tokens, sf>>
  BY DEF Remap, server, TypeInv, TypeOK
<1>2. A = aa \div 2 /\ b = aa % 2 /\ A \in Nat /\ b \in Sides
  BY <1>1 DEF SplitInv, Derived
<1>3. \A j \in 1..L : Live(j)' = Live(j)
  BY <1>1 DEF Live, Absorbing
<1>4. At(t, A) = {}
  BY <1>1 DEF GoneInv, Absorbing, Rebuilt, InHand
<1>5. A \in Blocks(i) <=> A \in DOMAIN st
  BY <1>4, BlocksAreKeys DEF Keys, At
<1> DEFINE old == IF A \in DOMAIN st THEN st[A].data ELSE [s \in Sides |-> other]
           B == [data |-> [old EXCEPT ![b] = d], node |-> new_x]
           g == [k \in {A} |-> B]
           su == Overlay(st, g)
<1>6. stash' = [stash EXCEPT ![i] = su]
  BY <1>2 DEF WriteStashWithNode
<1>7. stash'[i] = su /\ \A j \in 1..L : j # i => stash'[j] = stash[j]
  BY <1>1, <1>6
<1>8. Once(t, st)
  BY <1>1 DEF OnceInv
<1>9. DOMAIN old = Sides
  BY <1>1 DEF TypeInv, TypeOK, IsBlockMap
<1>10. B.node = new_x /\ B.data[b] = d /\ \A s \in Sides \ {b} : B.data[s] = old[s]
  BY <1>2, <1>9
<1>11. A \in DOMAIN st => Block(i, A).data = old
  BY DEF Block
<1>12. A \notin DOMAIN st => \A s \in Sides : old[s] = other
  OBVIOUS
<1> HIDE DEF t, st, B, old
<1>13. OneWritten(t, st, su, A, B)
  <2>1. DOMAIN g = {A} /\ g[A] = B
    OBVIOUS
  <2> HIDE DEF g
  <2>2. Once(t, st) /\ At(t, A) = {} /\ DOMAIN g = {A}
    BY <1>4, <1>8, <2>1
  <2>3. OneWritten(t, st, Overlay(st, g), A, g[A])
    BY <2>2, RemapItems
  <2> QED BY <2>1, <2>3
<1> HIDE DEF su
<1>14. Live(i)' = t /\ stash'[i] = su
  BY <1>1, <1>3, <1>7 DEF t
<1>15. /\ Blocks(i) = Keys(t, st)
       /\ \A a : Block(i, a) = Item(t, st, a)
       /\ Blocks(i)' = Keys(t, su)
       /\ \A a : Block(i, a)' = Item(t, su, a)
  BY <1>14, BlocksAreKeys, NextBlocksAreKeys DEF t, st
<1>16. Written(i, A, b, d, other, new_x)
  <2>1. /\ Blocks(i)' = Blocks(i) \cup {A}
        /\ \A a \in Blocks(i) \ {A} : Block(i, a)' = Block(i, a)
        /\ Block(i, A)' = B
    BY <1>1, <1>13, <1>15 DEF OneWritten
  <2> QED BY <1>1, <1>5, <1>10, <1>11, <1>12, <2>1 DEF Written
<1>17. ASSUME NEW j \in 1..L, j # i PROVE Kept(j)
  BY <1>3, <1>7, <1>17, BlocksAreKeys, NextBlocksAreKeys DEF Kept
<1>18. OnceInv'
  <2> SUFFICES ASSUME NEW j \in 1..L PROVE Once(Live(j)', stash'[j])
    BY <1>1 DEF OnceInv
  <2>1. CASE j = i
    BY <1>13, <1>14, <2>1 DEF OneWritten
  <2>2. CASE j # i
    BY <1>3, <1>7, <2>2 DEF OnceInv
  <2> QED BY <2>1, <2>2
<1> QED
  BY <1>1, <1>3, <1>7, <1>16, <1>17, <1>18

(* SetL: k new trees in front, each with block 0 that points to the root.  *)
FirstBlock == [data |-> [b \in Sides |-> <<>>], node |-> <<>>]

Grown(k) ==
  /\ L' = L + k
  /\ \A i \in 1..k : Blocks(i)' = {0} /\ Block(i, 0)' = FirstBlock
  /\ \A n \in (k + 1)..(L + k) :
       /\ Live(n)' = Live(n - k) /\ stash'[n] = stash[n - k]
       /\ Blocks(n)' = Blocks(n - k)
       /\ \A a : Block(n, a)' = Block(n - k, a)

LEMMA SetLBlocks ==
  ASSUME TypeInv, TokenInv, OnceInv, NEW m_L \in InitL..MaxL, SetL(m_L),
         NEW k, k = m_L - L
  PROVE  k \in Nat \ {0} /\ pc' = "idle" /\ OnceInv' /\ Grown(k)
<1>1. /\ pc = "idle" /\ pc' = "idle" /\ L' = m_L /\ L \in Nat \ {0} /\ m_L \in Nat
      /\ k \in Nat \ {0} /\ m_L = L + k /\ pending = NoToken
  BY ConstantAssumption DEF SetL, TypeInv, TypeOK
<1>2. ASSUME NEW i \in 1..m_L
      PROVE  /\ oram'[i] = IF i <= k THEN NewTree ELSE oram[i - k]
             /\ stash'[i] = IF i <= k THEN EmptyMap ELSE stash[i - k]
             /\ pending'[i] = EmptyMap /\ sf'[i] = EmptyMap
  BY DEF SetL
<1>3. ASSUME NEW i \in 1..m_L, oram'[i] = [p \in DOMAIN oram'[i] |-> oram'[i][p]]
      PROVE  Live(i)' = oram'[i]
  <2>1. Live(i)' = Overlay(Without(Overlay(oram'[i], EmptyMap), {}), EmptyMap)
    BY <1>1, <1>2 DEF Live, Absorbing
  <2> QED BY <1>3, <2>1, WithoutNone, OverlayEmpty
<1>4. ASSUME NEW n \in (k + 1)..(L + k)
      PROVE  Live(n)' = Live(n - k) /\ stash'[n] = stash[n - k]
  <2> DEFINE i == n - k
  <2>1. i \in 1..L /\ n \in 1..m_L /\ ~(n <= k)
    BY <1>1
  <2>2. oram'[n] = oram[i] /\ stash'[n] = stash[i]
    BY <1>2, <2>1
  <2> HIDE DEF i
  <2>3. oram[i] = [p \in DOMAIN oram[i] |-> oram[i][p]]
    BY <2>1 DEF TypeInv, TypeOK, IsTree
  <2>4. Live(i) = Overlay(oram[i], EmptyMap)
    BY <1>1, <2>1, LiveCall DEF Absorbing, NoToken
  <2>5. oram'[n] = [p \in DOMAIN oram'[n] |-> oram'[n][p]]
    BY <2>2, <2>3
  <2>6. Live(n)' = oram'[n]
    BY <1>3, <2>1, <2>5
  <2>7. Live(n)' = Live(i)
    BY <2>2, <2>3, <2>4, <2>6, OverlayEmpty
  <2> QED BY <2>2, <2>7 DEF i
<1>5. ASSUME NEW i \in 1..k
      PROVE  Live(i)' = NewTree /\ stash'[i] = EmptyMap
  <2>1. i \in 1..m_L /\ i <= k
    BY <1>1
  <2>2. oram'[i] = NewTree /\ stash'[i] = EmptyMap
    BY <1>2, <2>1
  <2>3. NewTree = [p \in DOMAIN NewTree |-> NewTree[p]]
    BY DEF NewTree
  <2> QED BY <1>3, <2>1, <2>2, <2>3
<1>6. /\ DOMAIN NewTree = {<<>>} /\ DOMAIN NewTree[<<>>].blocks = {0}
      /\ NewTree[<<>>].blocks[0] = FirstBlock
  BY DEF NewTree, BuildBucket, FirstBlock
<1>7. DOMAIN EmptyMap = {}
  BY DEF EmptyMap
<1>8. Keys(NewTree, EmptyMap) = {0} /\ Once(NewTree, EmptyMap)
  BY <1>6, <1>7 DEF Keys, Once
<1>9. Item(NewTree, EmptyMap, 0) = FirstBlock
  <2>1. At(NewTree, 0) = {<<>>}
    BY <1>6 DEF At
  <2> QED BY <1>6, <1>7, <2>1 DEF Item
<1>10. ASSUME NEW i \in 1..k
       PROVE  Blocks(i)' = {0} /\ Block(i, 0)' = FirstBlock
  BY <1>5, <1>8, <1>9, <1>10, NextBlocksAreKeys
<1>11. ASSUME NEW n \in (k + 1)..(L + k)
       PROVE  /\ Blocks(n)' = Blocks(n - k)
              /\ \A a : Block(n, a)' = Block(n - k, a)
  <2> DEFINE i == n - k
  <2>1. Live(n)' = Live(i) /\ stash'[n] = stash[i]
    BY <1>4
  <2> HIDE DEF i
  <2>2. Blocks(n)' = Blocks(i) /\ \A a : Block(n, a)' = Block(i, a)
    BY <2>1, BlocksAreKeys, NextBlocksAreKeys
  <2> QED BY <2>2 DEF i
<1>12. OnceInv'
  <2> SUFFICES ASSUME NEW n \in 1..m_L PROVE Once(Live(n)', stash'[n])
    BY <1>1 DEF OnceInv
  <2>1. CASE n <= k
    <3>1. n \in 1..k
      BY <1>1, <2>1
    <3> QED BY <1>5, <1>8, <3>1
  <2>2. CASE ~(n <= k)
    <3>1. n \in (k + 1)..(L + k) /\ n - k \in 1..L
      BY <1>1, <2>2
    <3> QED BY <1>4, <3>1 DEF OnceInv
  <2> QED BY <2>1, <2>2
<1>13. Grown(k)
  BY <1>1, <1>4, <1>10, <1>11 DEF Grown
<1> QED
  BY <1>1, <1>12, <1>13

(* All steps but these two leave every block of every tree as it is.       *)
Keeping == L' = L /\ OnceInv' /\ \A i \in 1..L : Kept(i)

LEMMA KeepingSame ==
  ASSUME Same, OnceInv
  PROVE  Keeping
BY SameKept DEF Keeping, Same

LEMMA KeepingAbsorb ==
  TypeInv /\ SentInv /\ TokenInv /\ OnceInv /\ WriteResponseToStash => Keeping
<1> SUFFICES ASSUME TypeInv, SentInv, TokenInv, OnceInv, WriteResponseToStash
             PROVE  Keeping
  OBVIOUS
<1>1. L' = L
  BY DEF WriteResponseToStash, server
<1> QED BY <1>1, AbsorbKept DEF Keeping, OnceInv

LEMMA KeepingEvict ==
  ASSUME TypeInv, FormInv, ReadInv, SentInv, TokenInv, OnceInv, EvictLevel,
         NEW i, i = i_tree
  PROVE  /\ Keeping
         /\ \A j \in 1..L : j # i => Live(j)' = Live(j) /\ stash'[j] = stash[j]
<1>1. /\ pc = "evict" /\ pc' = "evict" /\ i \in 1..L /\ DOMAIN stash = 1..L
      /\ DOMAIN sf = 1..L /\ UNCHANGED <<L, oram, pending, accessed>>
  BY DEF EvictLevel, server, TypeInv, TypeOK
<1>2. ASSUME NEW j \in 1..L, j # i
      PROVE  Live(j)' = Live(j) /\ stash'[j] = stash[j]
  <2>1. sf'[j] = sf[j] /\ stash'[j] = stash[j]
    BY <1>1, <1>2 DEF EvictLevel
  <2> QED BY <1>1, <2>1 DEF Live, Absorbing
<1>3. ASSUME NEW j \in 1..L, j # i
      PROVE  Kept(j) /\ Once(Live(j)', stash'[j])
  BY <1>2, <1>3, BlocksAreKeys, NextBlocksAreKeys DEF Kept, OnceInv
<1>4. Kept(i) /\ Once(Live(i)', stash'[i])
  BY EvictKept
<1> QED
  BY <1>1, <1>2, <1>3, <1>4 DEF Keeping, OnceInv

LEMMA KeepingNext ==
  ASSUME ContentsIInv, ContentsIInv', TokenInv, TokenInv', OnceInv, [Next]_vars
  PROVE  \/ Keeping
         \/ \E new_x \in Leaves(i_tree) : RemapData(new_x) \/ RemapPointer(new_x)
         \/ \E m_L \in InitL..MaxL : SetL(m_L)
<1>0. /\ TypeInv /\ FormInv /\ ReadInv /\ SentInv /\ TypeInv'
  BY DEF ContentsIInv, MaskIInv
<1>1. CASE WriteResponseToStash
  BY <1>0, <1>1, KeepingAbsorb
<1>2. CASE EvictLevel
  BY <1>0, <1>2, KeepingEvict
<1>3. CASE Finish
  BY <1>0, <1>3, SameFinish, KeepingSame
<1>4. CASE Complete \/ BuildToken
  BY <1>0, <1>4, SameCall, KeepingSame
<1>5. ASSUME NEW o, NEW a, NEW v, NEW one, Begin(o, a, v, one)
      PROVE  UNCHANGED <<L, oram, pending, stash, sf>> /\ ~Absorbing /\ ~Absorbing'
  BY <1>5 DEF Begin, server, client, Absorbing
<1>6. ASSUME NEW a, NEW v, Reject(a, v)
      PROVE  UNCHANGED <<L, oram, pending, stash, sf>> /\ ~Absorbing /\ ~Absorbing'
  BY <1>6 DEF Reject, server, client, local, Absorbing
<1>7. ReadBucket \/ EndOfPath \/ ProbeHit \/ ProbeMiss \/ ProbeEnd
      => UNCHANGED <<L, oram, pending, stash, sf>> /\ ~Absorbing /\ ~Absorbing'
  BY DEF ReadBucket, EndOfPath, ProbeHit, ProbeMiss, ProbeEnd, SearchNextTree,
     server, client, Absorbing
<1>8. EndOfTree \/ UNCHANGED vars
      => UNCHANGED <<L, oram, pending, stash, sf, accessed>> /\ Absorbing' = Absorbing
  BY DEF EndOfTree, vars, server, client, local, Absorbing
<1>9. CASE UNCHANGED <<L, oram, pending, stash, sf>> /\ ~Absorbing /\ ~Absorbing'
  BY <1>9, SameSteps, KeepingSame
<1>10. CASE UNCHANGED <<L, oram, pending, stash, sf, accessed>> /\ Absorbing' = Absorbing
  BY <1>10, SameSteps, KeepingSame
<1> QED
  BY <1>1, <1>2, <1>3, <1>4, <1>5, <1>6, <1>7, <1>8, <1>9, <1>10
     DEF Next, Caller, Step
-----------------------------------------------------------------------------
(* The block numbers that pointer trees have.  IntToStr formats them as an *)
(* int, and a dummy's number is negative: a number that fits is neither    *)
(* another's nor a dummy's.                                                *)
Fits(a) == a + Z_block < IntRange

NumbersFit == \A a \in Addr \cup {0} : Fits((a \div 2) \div 2)

FitInv == \A i \in 1..(L - 1) : \A a \in Blocks(i) : Fits(a)

(* A block's leaf is a node of its own tree.                               *)
NodeInv == \A i \in 1..L : \A a \in Blocks(i) : Len(Block(i, a).node) < i

LEMMA RemapCases ==
  ASSUME TypeInv, TokenInv, SplitInv, OnceInv, GoneInv, NEW i, i = i_tree,
         NEW A, A = tokens[i].a, NEW b, b = tokens[i].b,
         NEW new_x \in Leaves(i_tree), RemapData(new_x) \/ RemapPointer(new_x)
  PROVE  /\ L' = L /\ OnceInv' /\ i \in 1..L
         /\ Remap(new_x)
         /\ \A j \in 1..L : Live(j)' = Live(j)
         /\ \A j \in 1..L : j # i => stash'[j] = stash[j] /\ Kept(j)
         /\ i = L => Written(i, A, b, data1', Zero, new_x)
         /\ i < L => Written(i, A, b, last_x, NoNode, new_x)
<1>1. Remap(new_x) /\ i \in 1..L
  BY DEF RemapData, RemapPointer, Remap, TypeInv, TypeOK
<1>2. CASE i = L
  <2>1. RemapData(new_x)
    BY <1>1, <1>2 DEF RemapPointer, TypeInv, TypeOK
  <2> DEFINE d == IF op = "write" THEN data1
                  ELSE ReadDataFromStash(aa \div 2, aa % 2)
  <2>2. data1' = d /\ WriteStashWithNode(L, aa \div 2, aa % 2, data1', Zero, new_x)
    BY <2>1 DEF RemapData
  <2> DEFINE dd == data1'
  <2>3. WriteStashWithNode(i_tree, aa \div 2, aa % 2, dd, Zero, new_x)
    BY <1>2, <2>2
  <2> HIDE DEF d, dd
  <2>4. /\ L' = L /\ OnceInv'
        /\ \A j \in 1..L : Live(j)' = Live(j)
        /\ \A j \in 1..L : j # i => stash'[j] = stash[j] /\ Kept(j)
        /\ Written(i, A, b, dd, Zero, new_x)
    BY <1>1, <2>3, RemapWrites
  <2> QED BY <1>1, <1>2, <2>4 DEF dd
<1>3. CASE i < L
  <2>1. RemapPointer(new_x)
    BY <1>1, <1>3 DEF RemapData, TypeInv, TypeOK
  <2>2. WriteStashWithNode(i_tree, aa \div 2, aa % 2, last_x, NoNode, new_x)
    BY <2>1 DEF RemapPointer
  <2> DEFINE dd == last_x
  <2> HIDE DEF dd
  <2>3. /\ L' = L /\ OnceInv'
        /\ \A j \in 1..L : Live(j)' = Live(j)
        /\ \A j \in 1..L : j # i => stash'[j] = stash[j] /\ Kept(j)
        /\ Written(i, A, b, dd, NoNode, new_x)
    BY <1>1, <2>2, RemapWrites DEF dd
  <2> QED BY <1>1, <1>3, <2>3 DEF dd
<1> QED
  BY <1>1, <1>2, <1>3 DEF TypeInv, TypeOK

LEMMA FitNext ==
  ASSUME NumbersFit, ContentsIInv, ContentsIInv', TokenInv, TokenInv',
         SplitInv, OnceInv, GoneInv, FitInv, [Next]_vars
  PROVE  FitInv'
<1>0. TypeInv /\ L \in Nat \ {0}
  BY DEF ContentsIInv, MaskIInv, TypeInv, TypeOK
<1>1. CASE Keeping
  BY <1>0, <1>1 DEF Keeping, Kept, FitInv
<1>2. ASSUME NEW new_x \in Leaves(i_tree), RemapData(new_x) \/ RemapPointer(new_x),
             NEW i, i = i_tree, NEW A, A = tokens[i].a, NEW b, b = tokens[i].b
      PROVE  FitInv'
  <2>1. /\ L' = L /\ i \in 1..L /\ Remap(new_x)
        /\ \A j \in 1..L : j # i => Kept(j)
        /\ i < L => Written(i, A, b, last_x, NoNode, new_x)
    BY <1>0, <1>2, RemapCases
  <2>2. i < L => Fits(A)
    <3> SUFFICES ASSUME i < L PROVE Fits(A)
      OBVIOUS
    <3>1. pc = "remap"
      BY <2>1 DEF Remap
    <3>2. Derived(i) /\ addr \in Addr
      BY <2>1, <3>1 DEF SplitInv
    <3> DEFINE n == (addr \div 2) \div 2
    <3>3. Fits(n) /\ A <= n /\ A \in Nat
      BY <1>2, <3>2 DEF NumbersFit, Derived
    <3>4. n \in Nat
      BY <3>2, ConstantAssumption
    <3> HIDE DEF n
    <3> QED BY <3>3, <3>4, ConstantAssumption DEF Fits
  <2>3. \A j \in 1..(L - 1) : \A a \in Blocks(j)' : a \in Blocks(j) \/ (j = i /\ a = A)
    BY <1>0, <2>1 DEF Kept, Written
  <2> QED BY <1>0, <2>1, <2>2, <2>3 DEF FitInv
<1>3. ASSUME NEW m_L \in InitL..MaxL, SetL(m_L), NEW k, k = m_L - L
      PROVE  FitInv'
  <2>1. k \in Nat \ {0} /\ Grown(k)
    BY <1>0, <1>3, SetLBlocks
  <2>2. Fits(0)
    <3>1. Fits((0 \div 2) \div 2)
      BY DEF NumbersFit
    <3> QED BY <3>1
  <2>3. ASSUME NEW n \in 1..(L + k - 1), NEW a \in Blocks(n)'
        PROVE  Fits(a)
    <3>1. CASE n <= k
      BY <2>1, <2>2, <2>3, <3>1 DEF Grown
    <3>2. CASE n > k
      <4>1. n - k \in 1..(L - 1) /\ n \in (k + 1)..(L + k)
        BY <1>0, <2>1, <3>2
      <4> QED BY <2>1, <2>3, <4>1 DEF FitInv, Grown
    <3> QED BY <1>0, <2>1, <3>1, <3>2
  <2>4. L' = L + k
    BY <2>1 DEF Grown
  <2> QED BY <1>0, <2>1, <2>3, <2>4 DEF FitInv
<1> QED
  BY <1>1, <1>2, <1>3, KeepingNext

LEMMA NodeNext ==
  ASSUME ContentsIInv, ContentsIInv', TokenInv, TokenInv',
         SplitInv, OnceInv, GoneInv, NodeInv, [Next]_vars
  PROVE  NodeInv'
<1>0. TypeInv /\ L \in Nat \ {0}
  BY DEF ContentsIInv, MaskIInv, TypeInv, TypeOK
<1>1. CASE Keeping
  BY <1>0, <1>1 DEF Keeping, Kept, NodeInv
<1>2. ASSUME NEW new_x \in Leaves(i_tree), RemapData(new_x) \/ RemapPointer(new_x),
             NEW i, i = i_tree, NEW A, A = tokens[i].a, NEW b, b = tokens[i].b
      PROVE  NodeInv'
  <2>1. /\ L' = L /\ i \in 1..L
        /\ \A j \in 1..L : j # i => Kept(j)
        /\ \E d, other : Written(i, A, b, d, other, new_x)
    <3>1. /\ L' = L /\ i \in 1..L
          /\ \A j \in 1..L : j # i => Kept(j)
          /\ i = L => Written(i, A, b, data1', Zero, new_x)
          /\ i < L => Written(i, A, b, last_x, NoNode, new_x)
      BY <1>0, <1>2, RemapCases
    <3>2. i = L \/ i < L
      BY <1>0, <3>1
    <3> QED BY <3>1, <3>2
  <2>2. Len(new_x) < i
    BY <1>2, <2>1, LeafIsPath
  <2>3. ASSUME NEW a \in Blocks(i)'
        PROVE  Len(Block(i, a)'.node) < i
    <3>1. CASE a = A
      BY <2>1, <2>2, <3>1 DEF Written
    <3>2. CASE a # A
      <4>1. a \in Blocks(i) /\ Block(i, a)' = Block(i, a)
        BY <2>1, <2>3, <3>2 DEF Written
      <4> QED BY <2>1, <4>1 DEF NodeInv
    <3> QED BY <3>1, <3>2
  <2>4. ASSUME NEW j \in 1..L, NEW a \in Blocks(j)'
        PROVE  Len(Block(j, a)'.node) < j
    BY <2>1, <2>3, <2>4 DEF Kept, NodeInv
  <2> QED BY <2>1, <2>4 DEF NodeInv
<1>3. ASSUME NEW m_L \in InitL..MaxL, SetL(m_L), NEW k, k = m_L - L
      PROVE  NodeInv'
  <2>1. k \in Nat \ {0} /\ Grown(k)
    BY <1>0, <1>3, SetLBlocks
  <2>2. ASSUME NEW n \in 1..(L + k), NEW a \in Blocks(n)'
        PROVE  Len(Block(n, a)'.node) < n
    <3>1. CASE n <= k
      <4>1. a = 0 /\ n \in 1..k
        BY <2>1, <2>2, <3>1 DEF Grown
      <4>2. Block(n, 0)' = FirstBlock
        BY <2>1, <4>1 DEF Grown
      <4>3. Block(n, a)'.node = <<>>
        BY <4>1, <4>2 DEF FirstBlock
      <4> QED BY <2>1, <4>1, <4>3
    <3>2. CASE n > k
      <4> DEFINE i == n - k
      <4>1. i \in 1..L /\ n \in (k + 1)..(L + k) /\ i < n
        BY <1>0, <2>1, <3>2
      <4>2. a \in Blocks(i) /\ Block(n, a)' = Block(i, a)
        BY <2>1, <2>2, <4>1 DEF Grown
      <4> HIDE DEF i
      <4>3. Len(Block(i, a).node) < i /\ Len(Block(i, a).node) \in Nat
        BY <1>0, <4>1, <4>2, BlockType DEF NodeInv, Path
      <4>4. i \in Nat /\ n \in Nat
        BY <2>1, <4>1
      <4> QED BY <4>1, <4>2, <4>3, <4>4
    <3> QED BY <1>0, <2>1, <3>1, <3>2
  <2> QED BY <2>1, <2>2 DEF NodeInv, Grown
<1> QED
  BY <1>1, <1>2, <1>3, KeepingNext

-----------------------------------------------------------------------------
(* The pointers.  While the trees are rebuilt, L to 1, one block's father  *)
(* is out of date: the one whose leaf was given last.                      *)
Exc == IF pc = "evict" THEN i_tree
       ELSE IF pc = "remap" THEN i_tree + 1 ELSE 0

Linked(i, n, a) ==
  /\ a \div 2 \in Blocks(i)
  /\ Block(i, a \div 2).data[a % 2] = Block(n, a).node

LinkInv ==
  /\ \A i, n \in 1..L : n = i + 1 =>
       \A a \in Blocks(n) : Linked(i, n, a) \/ (n = Exc /\ a = tokens[n].a)
  /\ \A e \in 1..L : \A c : e = Exc /\ c = tokens[e].a =>
       c \in Blocks(e) /\ Block(e, c).node = last_x

LEMMA LinkedKept ==
  ASSUME NEW i, NEW n, NEW a, Kept(i), Linked(i, n, a), Block(n, a)' = Block(n, a)
  PROVE  Linked(i, n, a)'
<1> DEFINE h == a \div 2
<1>1. h \in Blocks(i)' /\ Block(i, h)' = Block(i, h)
  BY DEF Kept, Linked
<1>2. Block(i, h)'.data[a % 2] = Block(n, a)'.node
  BY <1>1 DEF Linked
<1> QED
  BY <1>1, <1>2 DEF Linked

LEMMA LinkKept ==
  ASSUME Keeping, LinkInv, TypeInv,
         \/ Exc' = Exc /\ UNCHANGED <<tokens, last_x>>
         \/ Exc \notin 2..L /\ Exc' \notin 1..L
  PROVE  LinkInv'
<1>0. L \in Nat \ {0} /\ L' = L
  BY DEF TypeInv, TypeOK, Keeping
<1>1. ASSUME NEW i \in 1..L, NEW n \in 1..L, n = i + 1, NEW a \in Blocks(n)'
      PROVE  Linked(i, n, a)' \/ (n = Exc' /\ a = tokens'[n].a)
  <2>1. Kept(i) /\ Kept(n) /\ n \in 2..L
    BY <1>0, <1>1 DEF Keeping
  <2>2. a \in Blocks(n) /\ Block(n, a)' = Block(n, a)
    BY <1>1, <2>1 DEF Kept
  <2>3. Linked(i, n, a) \/ (n = Exc /\ a = tokens[n].a)
    BY <1>1, <2>2 DEF LinkInv
  <2>4. CASE Linked(i, n, a)
    BY <2>1, <2>2, <2>4, LinkedKept
  <2> QED BY <2>1, <2>3, <2>4
<1>2. ASSUME NEW e \in 1..L, NEW c, e = Exc', c = tokens'[e].a
      PROVE  c \in Blocks(e)' /\ Block(e, c)'.node = last_x'
  <2>1. e = Exc /\ c = tokens[e].a /\ last_x' = last_x
    BY <1>2
  <2>2. c \in Blocks(e) /\ Block(e, c).node = last_x
    BY <2>1 DEF LinkInv
  <2>3. c \in Blocks(e)' /\ Block(e, c)' = Block(e, c)
    BY <2>2 DEF Keeping, Kept
  <2> QED BY <2>1, <2>2, <2>3
<1> QED
  BY <1>0, <1>1, <1>2 DEF LinkInv

LEMMA LinkRemap ==
  ASSUME ContentsIInv, ContentsIInv', TokenInv, SplitInv, OnceInv, GoneInv, LinkInv,
         NEW new_x \in Leaves(i_tree), RemapData(new_x) \/ RemapPointer(new_x),
         NEW i, i = i_tree, NEW A, A = tokens[i].a, NEW b, b = tokens[i].b
  PROVE  LinkInv'
<1>0. TypeInv /\ L \in Nat \ {0}
  BY DEF ContentsIInv, MaskIInv, TypeInv, TypeOK
<1>1. /\ L' = L /\ i \in 1..L /\ Remap(new_x)
      /\ \A j \in 1..L : j # i => Kept(j)
      /\ i = L => Written(i, A, b, data1', Zero, new_x)
      /\ i < L => Written(i, A, b, last_x, NoNode, new_x)
  BY <1>0, RemapCases
<1>2. Exc = i + 1 /\ Exc' = i /\ tokens' = tokens /\ last_x' = new_x /\ pc = "remap"
      /\ i_tree' = i
  BY <1>1 DEF Remap, Exc
<1>3. /\ Blocks(i)' = Blocks(i) \cup {A}
      /\ \A a \in Blocks(i) \ {A} : Block(i, a)' = Block(i, a)
      /\ Block(i, A)'.node = new_x
  <2>1. i = L \/ i < L
    BY <1>0, <1>1
  <2> QED BY <1>1, <2>1 DEF Written
<1>4. ASSUME NEW j \in 1..L, NEW n \in 1..L, n = j + 1, NEW a \in Blocks(n)'
      PROVE  Linked(j, n, a)' \/ (n = i /\ a = A)
  <2>1. j # n
    BY <1>0, <1>4
  <2>2. CASE j # i /\ n # i
    <3>1. a \in Blocks(n) /\ Block(n, a)' = Block(n, a) /\ Kept(j)
      BY <1>1, <1>4, <2>1, <2>2 DEF Kept
    <3>2. n # Exc
      BY <1>0, <1>1, <1>2, <1>4, <2>2
    <3>3. Linked(j, n, a)
      BY <1>4, <3>1, <3>2 DEF LinkInv
    <3> QED BY <1>4, <3>1, <3>3, LinkedKept
  <2>3. CASE n = i
    <3>1. CASE a = A
      BY <2>3, <3>1
    <3>2. CASE a # A
      <4>1. a \in Blocks(n) /\ Block(n, a)' = Block(n, a) /\ Kept(j)
        BY <1>1, <1>3, <1>4, <2>1, <2>3, <3>2
      <4>2. n # Exc
        BY <1>1, <1>2, <2>3
      <4>3. Linked(j, n, a)
        BY <1>4, <4>1, <4>2 DEF LinkInv
      <4> QED BY <1>4, <4>1, <4>3, LinkedKept
    <3> QED BY <3>1, <3>2
  <2>4. CASE j = i
    <3> DEFINE C == tokens[n].a
               h == a \div 2
               s == a % 2
    <3>1. i < L /\ n = i + 1 /\ n = Exc
      BY <1>0, <1>1, <1>2, <1>4, <2>4
    <3>2. Written(i, A, b, last_x, NoNode, new_x)
      BY <1>1, <3>1
    <3>3. a \in Blocks(n) /\ Block(n, a)' = Block(n, a)
      BY <1>1, <1>4, <2>1, <2>4 DEF Kept
    <3>4. a \in Nat /\ C \in Nat
      <4>1. Derived(n)
        BY <1>2, <1>4 DEF SplitInv
      <4>2. a \in Nat
        BY <1>0, <1>4, <3>3, BlockType
      <4> QED BY <4>1, <4>2 DEF Derived
    <3>5. A = C \div 2 /\ b = C % 2
      <4>1. Derived(i)
        BY <1>1, <1>2 DEF SplitInv
      <4> QED BY <1>0, <1>1, <3>1, <4>1 DEF Derived, Above
    <3>6. h \in Blocks(i)' /\ Block(i, h)'.data[s] = Block(n, a).node
      <4>1. CASE a = C
        <5>1. h = A /\ s = b
          BY <3>5, <4>1
        <5>2. Block(i, A)'.data[b] = last_x /\ A \in Blocks(i)'
          BY <3>2 DEF Written
        <5>3. Block(n, a).node = last_x
          BY <2>1, <3>1, <4>1 DEF LinkInv
        <5> QED BY <5>1, <5>2, <5>3
      <4>2. CASE a # C
        <5>1. Linked(i, n, a)
          BY <2>4, <3>1, <3>3, <4>2 DEF LinkInv
        <5>2. h \in Blocks(i) /\ Block(i, h).data[s] = Block(n, a).node
          BY <3>1, <5>1 DEF Linked
        <5>3. s \in Sides /\ ~(h = A /\ s = b)
          BY <3>4, <3>5, <4>2 DEF Sides
        <5> HIDE DEF h, s
        <5>4. CASE h # A
          BY <1>3, <5>2, <5>4
        <5>5. CASE h = A
          <6>1. s \in Sides \ {b} /\ A \in Blocks(i)
            BY <5>2, <5>3, <5>5
          <6>2. Block(i, A)'.data[s] = Block(i, A).data[s]
            BY <3>2, <6>1 DEF Written
          <6> QED BY <1>3, <5>2, <5>5, <6>2
        <5> QED BY <5>4, <5>5
      <4> QED BY <4>1, <4>2
    <3>7. Linked(i, n, a)'
      BY <3>1, <3>3, <3>6 DEF Linked
    <3> QED BY <2>4, <3>7
  <2> QED BY <2>2, <2>3, <2>4
<1>5. \A e \in 1..L : \A c :
        e = Exc' /\ c = tokens'[e].a => c \in Blocks(e)' /\ Block(e, c)'.node = last_x'
  BY <1>2, <1>3
<1>6. \A j, n \in 1..L : n = j + 1 =>
        \A a \in Blocks(n)' : Linked(j, n, a)' \/ (n = Exc' /\ a = tokens'[n].a)
  BY <1>2, <1>4
<1> QED
  BY <1>1, <1>5, <1>6 DEF LinkInv

(* The one block of tree 1 points to a node of tree 1, which is its root.  *)
LEMMA FirstBlocks ==
  ASSUME TypeInv, FirstInv, NodeInv
  PROVE  Blocks(1) \subseteq {0} /\ \A a \in Blocks(1) : Block(1, a).node = <<>>
<1>1. Only0(Live(1))
  BY DEF Only0, FirstInv, Live, Overlay, Without
<1>2. Blocks(1) \subseteq {0}
  BY <1>1 DEF Blocks, Only0, FirstInv
<1>3. ASSUME NEW a \in Blocks(1) PROVE Block(1, a).node = <<>>
  <2> DEFINE q == Block(1, a).node
  <2>1. 1 \in 1..L
    BY DEF TypeInv, TypeOK
  <2>2. q \in Path /\ Len(q) < 1
    BY <2>1, BlockType DEF NodeInv
  <2> HIDE DEF q
  <2>3. q \in Seq(Sides) /\ Len(q) \in Nat /\ Len(q) < 1
    BY <2>2 DEF Path
  <2>4. q = <<>>
    BY <2>3
  <2> QED BY <2>4 DEF q
<1> QED BY <1>2, <1>3

LEMMA LinkSetL ==
  ASSUME ContentsIInv, TokenInv, OnceInv, NodeInv, LinkInv,
         NEW m_L \in InitL..MaxL, SetL(m_L), NEW k, k = m_L - L
  PROVE  LinkInv'
<1>0. TypeInv /\ FirstInv /\ L \in Nat \ {0}
  BY DEF ContentsIInv, MaskIInv, TypeInv, TypeOK
<1>1. k \in Nat \ {0} /\ pc' = "idle" /\ pc = "idle" /\ Grown(k)
  BY <1>0, SetLBlocks DEF SetL
<1>2. Exc = 0 /\ Exc' = 0 /\ L' = L + k
  BY <1>1 DEF Exc, Grown
<1>3. ASSUME NEW i \in 1..(L + k), NEW n \in 1..(L + k), n = i + 1,
             NEW a \in Blocks(n)'
      PROVE  Linked(i, n, a)'
  <2>1. CASE i <= k
    <3>1. Blocks(i)' = {0} /\ Block(i, 0)' = FirstBlock
      BY <1>1, <2>1 DEF Grown
    <3>2. a = 0 /\ Block(n, a)'.node = <<>>
      <4>1. CASE n <= k
        <5>1. Blocks(n)' = {0} /\ Block(n, 0)' = FirstBlock
          BY <1>1, <4>1 DEF Grown
        <5> QED BY <1>3, <5>1 DEF FirstBlock
      <4>2. CASE n > k
        <5>1. n \in (k + 1)..(L + k) /\ n - k = 1
          BY <1>0, <1>1, <1>3, <2>1, <4>2
        <5>2. Blocks(n)' = Blocks(1) /\ Block(n, a)' = Block(1, a)
          BY <1>1, <5>1 DEF Grown
        <5> QED BY <1>0, <1>3, <5>2, FirstBlocks
      <4> QED BY <1>1, <4>1, <4>2
    <3>3. a \div 2 = 0 /\ a % 2 \in Sides
      BY <3>2 DEF Sides
    <3>4. FirstBlock.data[a % 2] = <<>>
      BY <3>3 DEF FirstBlock
    <3>5. a \div 2 \in Blocks(i)' /\ Block(i, a \div 2)'.data[a % 2] = Block(n, a)'.node
      BY <3>1, <3>2, <3>3, <3>4
    <3> QED BY <3>5 DEF Linked
  <2>2. CASE i > k
    <3> DEFINE j == i - k
               m == n - k
               h == a \div 2
    <3>1. /\ n \in (k + 1)..(L + k) /\ i \in (k + 1)..(L + k)
          /\ j \in 1..L /\ m \in 1..L /\ m = j + 1
      BY <1>0, <1>1, <1>3, <2>2
    <3>2. /\ Blocks(n)' = Blocks(m) /\ Block(n, a)' = Block(m, a)
          /\ Blocks(i)' = Blocks(j) /\ Block(i, h)' = Block(j, h)
      BY <1>1, <3>1 DEF Grown
    <3> HIDE DEF j, m
    <3>3. Linked(j, m, a)
      BY <1>2, <1>3, <3>1, <3>2 DEF LinkInv
    <3>4. h \in Blocks(i)' /\ Block(i, h)'.data[a % 2] = Block(n, a)'.node
      BY <3>2, <3>3 DEF Linked
    <3> QED BY <3>4 DEF Linked
  <2> QED BY <1>1, <2>1, <2>2
<1> QED
  BY <1>0, <1>1, <1>2, <1>3 DEF LinkInv

LEMMA ExcNext ==
  ASSUME TypeInv, [Next]_vars
  PROVE  \/ Exc' = Exc /\ UNCHANGED <<tokens, last_x>>
         \/ Exc \notin 2..L /\ Exc' \notin 1..L /\ L' = L
         \/ \E new_x \in Leaves(i_tree) : RemapData(new_x) \/ RemapPointer(new_x)
         \/ \E m_L \in InitL..MaxL : SetL(m_L)
<1>0. L \in Nat \ {0}
  BY DEF TypeInv, TypeOK
<1>1. CASE WriteResponseToStash
  <2>1. Exc = 0 /\ Exc' = L + 1 /\ L' = L
    BY <1>1 DEF WriteResponseToStash, server, Exc
  <2> QED BY <1>0, <2>1
<1>2. CASE EvictLevel
  BY <1>2 DEF EvictLevel, Exc
<1>3. CASE EndOfTree
  <2>1. /\ pc = "evict" /\ i_tree \in 1..L /\ UNCHANGED <<L, tokens, last_x>>
        /\ \/ i_tree' = i_tree - 1 /\ pc' = "remap"
           \/ i_tree = 1 /\ pc' = "finish"
    BY <1>3 DEF EndOfTree, server, TypeInv, TypeOK
  <2> QED BY <1>0, <2>1 DEF Exc
<1>4. CASE UNCHANGED vars
  BY <1>4 DEF vars, local, Exc
<1>5. CASE /\ L' = L /\ pc \notin {"remap", "evict"} /\ pc' \notin {"remap", "evict"}
  BY <1>0, <1>5 DEF Exc
<1>6. ASSUME NEW o, NEW a, NEW v, NEW one, Begin(o, a, v, one)
      PROVE  L' = L /\ pc \notin {"remap", "evict"} /\ pc' \notin {"remap", "evict"}
  BY <1>6 DEF Begin, server
<1>7. ASSUME NEW a, NEW v, Reject(a, v)
      PROVE  L' = L /\ pc \notin {"remap", "evict"} /\ pc' \notin {"remap", "evict"}
  BY <1>7 DEF Reject, server
<1>8. Complete \/ BuildToken \/ ReadBucket \/ EndOfPath \/ ProbeHit \/ ProbeMiss
        \/ ProbeEnd \/ Finish
      => L' = L /\ pc \notin {"remap", "evict"} /\ pc' \notin {"remap", "evict"}
  BY DEF Complete, BuildToken, ReadBucket, EndOfPath, ProbeHit, ProbeMiss,
     ProbeEnd, Finish, SearchNextTree, server
<1> QED
  BY <1>1, <1>2, <1>3, <1>4, <1>5, <1>6, <1>7, <1>8 DEF Next, Caller, Step

LEMMA LinkNext ==
  ASSUME ContentsIInv, ContentsIInv', TokenInv, TokenInv',
         SplitInv, OnceInv, GoneInv, NodeInv, LinkInv, [Next]_vars
  PROVE  LinkInv'
<1>0. TypeInv
  BY DEF ContentsIInv, MaskIInv
<1>1. CASE \E new_x \in Leaves(i_tree) : RemapData(new_x) \/ RemapPointer(new_x)
  BY <1>1, LinkRemap
<1>2. CASE \E m_L \in InitL..MaxL : SetL(m_L)
  BY <1>2, LinkSetL
<1>3. CASE Keeping /\ Exc' = Exc /\ UNCHANGED <<tokens, last_x>>
  BY <1>0, <1>3, LinkKept
<1>4. CASE Keeping /\ Exc \notin 2..L /\ Exc' \notin 1..L
  BY <1>0, <1>4, LinkKept
<1> QED
  BY <1>0, <1>1, <1>2, <1>3, <1>4, ExcNext, KeepingNext

-----------------------------------------------------------------------------
(* Search.                                                                 *)

LEMMA ModSmall ==
  ASSUME NEW n \in Nat \ {0}, NEW a \in Nat, a < n
  PROVE  a % n = a
OBVIOUS

LEMMA ModNegative ==
  ASSUME NEW n \in Nat \ {0}, NEW j \in Nat \ {0}, j < n
  PROVE  (-j) % n = n - j
OBVIOUS

LEMMA KeysDiffer ==
  ASSUME NEW M, NEW a, NEW b, NEW c, NEW d,
         ClientBuildSearchKey(a, b, M) = ClientBuildSearchKey(c, d, M)
  PROVE  a % IntRange = c % IntRange /\ b = d
<1>1. \A X, Y : SymDiff(X, M) = SymDiff(Y, M) => X = Y
  <2> SUFFICES ASSUME NEW X, NEW Y, SymDiff(X, M) = SymDiff(Y, M) PROVE X = Y
    OBVIOUS
  <2>1. \A e : e \in X <=> e \in Y
    BY DEF SymDiff
  <2> QED BY <2>1
<1>2. EncodeAddress(a, b) = EncodeAddress(c, d)
  BY <1>1 DEF ClientBuildSearchKey
<1> DEFINE q == [addr |-> a % IntRange, side |-> b]
           r == [addr |-> c % IntRange, side |-> d]
<1>3. q = r
  <2>1. {q} = {r}
    BY <1>2 DEF EncodeAddress
  <2> HIDE DEF q, r
  <2> QED BY <2>1
<1>4. q.addr = r.addr /\ q.side = r.side
  BY <1>3
<1> QED
  BY <1>4

(* A header gives the node that the wanted block has on the wanted side,   *)
(* and nothing if the bucket does not hold the block.                      *)
LEMMA Lookup ==
  ASSUME NEW bkt, NEW A \in Nat, NEW b \in Sides, Fits(A),
         IsFiniteSet(DOMAIN bkt.blocks), DOMAIN bkt.blocks \subseteq Nat,
         \A a \in DOMAIN bkt.blocks : Fits(a)
  PROVE  ReadNodePosition(bkt, ClientBuildSearchKey(A, b, bkt.M)) =
           IF A \in DOMAIN bkt.blocks THEN {bkt.blocks[A].data[b]} ELSE {}
<1> DEFINE key == ClientBuildSearchKey(A, b, bkt.M)
           K == {k \in (DOMAIN bkt.blocks) \X Sides :
                   key = ClientBuildSearchKey(k[1], k[2], bkt.M)}
<1>1. Z_block \in Nat \ {0} /\ IntRange \in Nat \ {0} /\ A + Z_block < IntRange
  BY ConstantAssumption DEF Fits
<1>2. A < IntRange /\ A % IntRange = A
  BY <1>1, ModSmall
<1>3. ASSUME NEW a \in DOMAIN bkt.blocks PROVE a \in Nat /\ a % IntRange = a
  <2>1. a \in Nat /\ a + Z_block < IntRange
    BY <1>3 DEF Fits
  <2>2. a < IntRange
    BY <1>1, <2>1
  <2> QED BY <1>1, <2>1, <2>2, ModSmall
<1>4. ASSUME NEW a \in Dummies(bkt) PROVE a % IntRange # A % IntRange
  <2> DEFINE m == Cardinality(DOMAIN bkt.blocks)
  <2>1. m \in Nat
    BY FS_CardinalityType
  <2>2. PICK j \in (m + 1)..Z_block : a = -j
    BY DEF Dummies
  <2> HIDE DEF m
  <2>3. j \in Nat \ {0} /\ j <= Z_block /\ j < IntRange
    BY <1>1, <2>1, <2>2
  <2>4. a % IntRange = IntRange - j
    BY <1>1, <2>2, <2>3, ModNegative
  <2> QED BY <1>1, <1>2, <2>3, <2>4
<1>5. ~ \E a \in Dummies(bkt), s \in Sides : key = ClientBuildSearchKey(a, s, bkt.M)
  BY <1>4, KeysDiffer
<1>6. ReadNodePosition(bkt, key) = {bkt.blocks[e[1]].data[e[2]] : e \in K}
  BY <1>5 DEF ReadNodePosition
<1>7. \A e \in K : e = <<A, b>> /\ A \in DOMAIN bkt.blocks
  <2> SUFFICES ASSUME NEW e \in K PROVE e = <<A, b>> /\ A \in DOMAIN bkt.blocks
    OBVIOUS
  <2>1. e \in (DOMAIN bkt.blocks) \X Sides
        /\ ClientBuildSearchKey(A, b, bkt.M) = ClientBuildSearchKey(e[1], e[2], bkt.M)
    OBVIOUS
  <2>2. e[1] % IntRange = A % IntRange /\ e[2] = b
    BY <2>1, KeysDiffer
  <2>3. e[1] = A
    BY <1>2, <1>3, <2>1, <2>2
  <2> QED BY <2>1, <2>2, <2>3
<1>8. A \in DOMAIN bkt.blocks => <<A, b>> \in K
  OBVIOUS
<1> HIDE DEF key, K
<1>9. CASE A \in DOMAIN bkt.blocks
  <2>1. K = {<<A, b>>}
    BY <1>7, <1>8, <1>9
  <2>2. {bkt.blocks[e[1]].data[e[2]] : e \in K} = {bkt.blocks[A].data[b]}
    BY <2>1
  <2> QED BY <1>6, <1>9, <2>2 DEF key
<1>10. CASE A \notin DOMAIN bkt.blocks
  <2>1. K = {}
    BY <1>7, <1>10
  <2> QED BY <1>6, <1>10, <2>1 DEF key
<1> QED BY <1>9, <1>10

(* A block found in a bucket is the tree's block of that number.           *)
LEMMA BlockAt ==
  ASSUME OnceInv, NEW i \in 1..L, NEW p \in DOMAIN Live(i),
         NEW a \in DOMAIN Live(i)[p].blocks
  PROVE  a \in Blocks(i) /\ Block(i, a) = Live(i)[p].blocks[a]
<1> DEFINE t == Live(i)
           st == stash[i]
           B == t[p].blocks[a]
<1>1. Once(t, st)
  BY DEF OnceInv
<1>2. Has(t, st, a, B)
  BY DEF Has, At
<1>3. a \in Keys(t, st) /\ B = Item(t, st, a)
  <2> HIDE DEF t, st, B
  <2> QED BY <1>1, <1>2, HasItem
<1> QED
  BY <1>3, BlocksAreKeys

(* While the trees are searched, all blocks are in the server's buckets.   *)
LEMMA SearchBlocks ==
  ASSUME ContentsIInv, TokenInv, OnceInv, pc \in {"read", "probe", "absorb"},
         NEW i \in 1..L
  PROVE  /\ \A p \in DOMAIN oram[i] : \A a \in DOMAIN oram[i][p].blocks :
              a \in Blocks(i) /\ Block(i, a) = oram[i][p].blocks[a]
         /\ \A a \in Blocks(i) : \E p \in DOMAIN oram[i] : a \in DOMAIN oram[i][p].blocks
<1>1. Live(i) = oram[i] /\ DOMAIN stash[i] = {}
  BY LiveSearch DEF ContentsIInv, MaskIInv, DrainInv, Absorbing
<1>2. \A a \in Blocks(i) : \E p \in DOMAIN oram[i] : a \in DOMAIN oram[i][p].blocks
  BY <1>1 DEF Blocks
<1>3. ASSUME NEW p \in DOMAIN oram[i], NEW a \in DOMAIN oram[i][p].blocks
      PROVE  a \in Blocks(i) /\ Block(i, a) = oram[i][p].blocks[a]
  BY <1>1, BlockAt
<1> QED
  BY <1>2, <1>3

(* The path that is being read leads to the block if there is one; the     *)
(* paths read so far hold theirs; the headers probed so far gave no node.  *)
Leading(i) ==
  \A p \in DOMAIN oram[i] : tokens[i].a \in DOMAIN oram[i][p].blocks =>
    IsPrefix(oram[i][p].blocks[tokens[i].a].node, x)

Reached(i) ==
  \A p \in DOMAIN oram[i] :
    tokens[i].a \in DOMAIN oram[i][p].blocks => p \in Range(accessed[i])

Missed(i, c) ==
  LET bkt == oram[i][accessed[i][c]]
  IN tokens[i].a \in DOMAIN bkt.blocks =>
       bkt.blocks[tokens[i].a].data[tokens[i].b] = NoNode

ReachInv ==
  /\ pc = "read" => \A i \in 1..L : i = i_tree => Leading(i)
  /\ pc \in {"read", "probe", "absorb"} =>
       \A i \in 1..L : Searched(i) => Reached(i)
  /\ pc = "probe" =>
       \A i \in 1..L : i = i_tree => \A c \in 1..(l - 1) : Missed(i, c)

LEMMA ReachBuildToken ==
  ASSUME ContentsIInv, TokenInv, OnceInv, NodeInv, BuildToken
  PROVE  ReachInv'
<1>0. /\ TypeInv /\ FirstInv /\ SentInv /\ 1 \in 1..L
      /\ \A i \in 1..L : i \in Nat
  BY DEF ContentsIInv, MaskIInv, TypeInv, TypeOK
<1>1. /\ pc = "build" /\ L' = L
      /\ \/ pc' = "build"
         \/ /\ pc' = "read" /\ i_tree' = 1
            /\ oram' = IF oneRound THEN Shuffled(pending) ELSE oram
  BY DEF BuildToken
<1>2. CASE pc' = "build"
  BY <1>2 DEF ReachInv
<1>3. CASE pc' = "read"
  <2>1. Live(1) = Overlay(oram[1], pending[1])
    BY <1>0, <1>1, LiveCall DEF Absorbing
  <2>2. oram'[1] = Live(1)
    <3>1. CASE oneRound
      BY <1>0, <1>1, <1>3, <2>1, <3>1 DEF Shuffled
    <3>2. CASE ~oneRound
      <4>1. pending[1] = EmptyMap
        BY <1>0, <1>1, <3>2 DEF SentInv, NoToken
      <4> QED BY <1>0, <1>1, <1>3, <2>1, <3>2, <4>1, OverlayNothing
    <3> QED BY <3>1, <3>2
  <2>3. ASSUME NEW p \in DOMAIN oram'[1], NEW a \in DOMAIN oram'[1][p].blocks
        PROVE  IsPrefix(oram'[1][p].blocks[a].node, x')
    <3>1. a \in Blocks(1) /\ Block(1, a) = oram'[1][p].blocks[a]
      BY <1>0, <2>2, BlockAt
    <3>2. oram'[1][p].blocks[a].node = <<>> /\ x' = <<>>
      BY <1>0, <1>1, <1>3, <3>1, FirstBlocks DEF BuildToken
    <3> QED BY <3>2 DEF IsPrefix
  <2>4. \A i \in 1..L : i < 1 => FALSE
    BY <1>0
  <2> QED BY <1>1, <1>3, <2>3, <2>4 DEF ReachInv, Leading, Searched
<1> QED BY <1>1, <1>2, <1>3

(* At the end of the path all its buckets were read.                       *)
LEMMA ReachEndOfPath ==
  ASSUME ContentsIInv, ReachInv, EndOfPath, NEW i, i = i_tree
  PROVE  ReachInv'
<1>0. /\ TypeInv /\ ReadInv /\ PathInv /\ L \in Nat /\ i \in 1..L
      /\ \A j \in 1..L : j \in Nat
  <2>1. TypeInv /\ ReadInv /\ PathInv
    BY DEF ContentsIInv, MaskIInv
  <2>2. L \in Nat /\ i \in 1..L
    BY <2>1 DEF TypeInv, TypeOK, EndOfPath
  <2> QED BY <2>1, <2>2
<1>1. /\ pc = "read" /\ l = 0 /\ UNCHANGED <<L, oram, tokens, accessed, i_tree>>
      /\ \/ i = L /\ pc' = "absorb"
         \/ i < L /\ pc' = "probe" /\ l' = 1
  BY DEF EndOfPath, server
<1>2. x \in Path /\ Len(x) = i - 1 /\ accessed[i] \in Seq(Path)
  BY <1>0, <1>1, LeafIsPath DEF TypeInv, TypeOK, ShapeInv
<1>3. ReadBelow(i, x, 0) /\ Leading(i) /\ OnPath(oram[i])
  BY <1>0, <1>1 DEF ReadInv, ReachInv, PathInv
<1>4. Reached(i)
  <2> SUFFICES ASSUME NEW p \in DOMAIN oram[i],
                      tokens[i].a \in DOMAIN oram[i][p].blocks
               PROVE  p \in Range(accessed[i])
    BY DEF Reached
  <2> DEFINE q == oram[i][p].blocks[tokens[i].a].node
             k == Len(p) + 1
  <2>1. IsPrefix(p, q) /\ IsPrefix(q, x)
    BY <1>3 DEF OnPath, Leading
  <2>2. p \in Path /\ Len(p) < i
    BY <1>0 DEF TypeInv, TypeOK, IsTree
  <2> HIDE DEF q
  <2>3. q \in Path
    BY <1>0 DEF TypeInv, TypeOK, IsTree, IsBucket, IsBlockMap, q
  <2>4. k \in 1..i /\ p = P(x, k)
    BY <1>0, <1>2, <2>1, <2>2, <2>3 DEF IsPrefix, P, Path
  <2> HIDE DEF k
  <2>5. k \in 1..Len(accessed[i]) /\ accessed[i][k] = p
    BY <1>0, <1>2, <1>3, <2>4 DEF ReadBelow
  <2> QED BY <1>2, <2>5 DEF Range
<1>5. \A j \in 1..L : Searched(j)' => j = i \/ Searched(j)
  BY <1>0, <1>1 DEF Searched
<1>6. \A j \in 1..L : Reached(j)' <=> Reached(j)
  BY <1>1 DEF Reached
<1>7. \A j \in 1..L : Searched(j)' => Reached(j)'
  BY <1>1, <1>4, <1>5, <1>6 DEF ReachInv
<1> QED
  BY <1>0, <1>1, <1>7 DEF ReachInv

(* What a probe of the header in hand gives.                               *)
LEMMA Probed ==
  ASSUME NumbersFit, ContentsIInv, SearchKeyInSync, TokenInv, SplitInv,
         OnceInv, FitInv, pc = "probe", l <= Len(Headers), NEW i, i = i_tree
  PROVE  LET bkt == oram[i][accessed[i][l]]
             A == tokens[i].a
         IN /\ accessed[i][l] \in DOMAIN oram[i]
            /\ Header(l) = bkt
            /\ ReadNodePosition(Header(l), ProbeKey) =
                 IF A \in DOMAIN bkt.blocks
                   THEN {bkt.blocks[A].data[tokens[i].b]} ELSE {}
<1> DEFINE A == tokens[i].a
           b == tokens[i].b
           bkt == oram[i][accessed[i][l]]
<1>1. /\ MaskIInv /\ TypeInv /\ SizeInv /\ L \in Nat /\ i \in 1..L /\ i < L
  BY DEF ContentsIInv, MaskIInv, TypeInv, TypeOK, ShapeInv
<1>2. /\ accessed[i][l] \in DOMAIN oram[i] /\ Header(l) = bkt
      /\ ProbeKey = ClientBuildSearchKey(A, b, bkt.M)
  BY <1>1, ProbedKey DEF Headers, Header
<1>3. A \in Nat /\ b \in Sides /\ Fits(A)
  <2>1. Derived(i) /\ addr \in Addr
    BY <1>1 DEF SplitInv
  <2> DEFINE n == (addr \div 2) \div 2
  <2>2. Fits(n) /\ A <= n /\ A \in Nat /\ b \in Sides
    BY <1>1, <2>1 DEF NumbersFit, Derived
  <2>3. n \in Nat
    BY <2>1, ConstantAssumption
  <2> HIDE DEF n, A, b
  <2> QED BY <2>2, <2>3, ConstantAssumption DEF Fits
<1>4. IsFiniteSet(DOMAIN bkt.blocks) /\ DOMAIN bkt.blocks \subseteq Nat
  BY <1>1, <1>2 DEF SizeInv, Sized, TypeInv, TypeOK, IsTree, IsBucket, IsBlockMap
<1>5. \A a \in DOMAIN bkt.blocks : Fits(a)
  <2>1. \A a \in DOMAIN bkt.blocks : a \in Blocks(i)
    BY <1>1, <1>2, SearchBlocks
  <2>2. i \in 1..(L - 1)
    BY <1>1
  <2> QED BY <2>1, <2>2 DEF FitInv
<1> HIDE DEF bkt, A, b
<1>6. ReadNodePosition(bkt, ClientBuildSearchKey(A, b, bkt.M)) =
           IF A \in DOMAIN bkt.blocks THEN {bkt.blocks[A].data[b]} ELSE {}
  BY <1>3, <1>4, <1>5, Lookup
<1> QED
  BY <1>2, <1>6 DEF bkt, A, b

(* The block looked for in the next tree has a father block in this one,   *)
(* whose pointer is the node of the block.                                 *)
LEMMA NextBlock ==
  ASSUME ContentsIInv, TokenInv, SplitInv, OnceInv, LinkInv, pc = "probe",
         NEW i, i = i_tree, NEW n, n = i + 1, NEW p \in DOMAIN oram[n],
         tokens[n].a \in DOMAIN oram[n][p].blocks
  PROVE  /\ tokens[i].a \in Blocks(i)
         /\ Block(i, tokens[i].a).data[tokens[i].b] =
              oram[n][p].blocks[tokens[n].a].node
         /\ oram[n][p].blocks[tokens[n].a].node \in Path
<1> DEFINE C == tokens[n].a
           A == tokens[i].a
           b == tokens[i].b
<1>1. /\ TypeInv /\ L \in Nat /\ i \in 1..L /\ i < L /\ n \in 1..L
  BY DEF ContentsIInv, MaskIInv, TypeInv, TypeOK, ShapeInv
<1>2. C \in Blocks(n) /\ Block(n, C) = oram[n][p].blocks[C]
  BY <1>1, SearchBlocks
<1>3. Exc = 0
  BY DEF Exc
<1>4. Linked(i, n, C)
  BY <1>1, <1>2, <1>3 DEF LinkInv
<1>5. A = C \div 2 /\ b = C % 2
  <2>1. Derived(i)
    BY <1>1 DEF SplitInv
  <2> QED BY <1>1, <2>1 DEF Derived, Above
<1>6. Block(n, C).node \in Path
  BY <1>1, <1>2, BlockType
<1> HIDE DEF C, A, b
<1>7. A \in Blocks(i) /\ Block(i, A).data[b] = Block(n, C).node
  BY <1>4, <1>5 DEF Linked
<1> QED
  BY <1>2, <1>6, <1>7 DEF A, b, C

LEMMA ReachProbeHit ==
  ASSUME NumbersFit, ContentsIInv, SearchKeyInSync, TokenInv, SplitInv,
         OnceInv, FitInv, LinkInv, ReachInv, ProbeHit,
         NEW i, i = i_tree, NEW n, n = i + 1
  PROVE  ReachInv'
<1>0. /\ TypeInv /\ L \in Nat /\ i \in 1..L /\ i < L /\ n \in 1..L
      /\ \A j \in 1..L : j \in Nat
  <2>1. TypeInv /\ L \in Nat /\ i \in 1..L /\ i < L
    BY DEF ContentsIInv, MaskIInv, TypeInv, TypeOK, ShapeInv, ProbeHit
  <2> QED BY <2>1
<1> DEFINE A == tokens[i].a
           b == tokens[i].b
           bkt == oram[i][accessed[i][l]]
<1>1. /\ pc = "probe" /\ pc' = "read" /\ l <= Len(Headers) /\ i_tree' = n
      /\ UNCHANGED <<L, oram, tokens, accessed>>
  BY DEF ProbeHit, SearchNextTree, server
<1>2. PICK node \in ReadNodePosition(Header(l), ProbeKey) :
        x' \in LeavesBelow(node, n)
  BY DEF ProbeHit, SearchNextTree
<1>3. A \in DOMAIN bkt.blocks /\ node = bkt.blocks[A].data[b]
      /\ accessed[i][l] \in DOMAIN oram[i]
  BY <1>1, <1>2, Probed
<1>4. Block(i, A) = bkt.blocks[A]
  BY <1>0, <1>1, <1>3, SearchBlocks
<1>5. ASSUME NEW p \in DOMAIN oram[n], tokens[n].a \in DOMAIN oram[n][p].blocks
      PROVE  IsPrefix(oram[n][p].blocks[tokens[n].a].node, x')
  <2>1. oram[n][p].blocks[tokens[n].a].node = node
    BY <1>1, <1>3, <1>4, <1>5, NextBlock
  <2> QED BY <1>2, <2>1 DEF LeavesBelow
<1>6. \A j \in 1..L : Searched(j)' => Searched(j)
  BY <1>0, <1>1 DEF Searched
<1>7. \A j \in 1..L : Reached(j)' <=> Reached(j)
  BY <1>1 DEF Reached
<1> QED
  BY <1>1, <1>5, <1>6, <1>7 DEF ReachInv, Leading

LEMMA ReachProbeMiss ==
  ASSUME NumbersFit, ContentsIInv, SearchKeyInSync, TokenInv, SplitInv,
         OnceInv, FitInv, ReachInv, ProbeMiss, NEW i, i = i_tree
  PROVE  ReachInv'
<1>0. /\ TypeInv /\ L \in Nat /\ i \in 1..L /\ l \in Nat
  BY DEF ContentsIInv, MaskIInv, TypeInv, TypeOK, ShapeInv, ProbeMiss
<1> DEFINE A == tokens[i].a
           b == tokens[i].b
           bkt == oram[i][accessed[i][l]]
<1>1. /\ pc = "probe" /\ pc' = "probe" /\ l <= Len(Headers) /\ l' = l + 1
      /\ UNCHANGED <<L, oram, tokens, accessed, i_tree>>
      /\ LET nodes == ReadNodePosition(Header(l), ProbeKey)
         IN nodes = {} \/ NoNode \in nodes
  BY DEF ProbeMiss, server
<1>2. A \in DOMAIN bkt.blocks => bkt.blocks[A].data[b] = NoNode
  BY <1>1, Probed
<1>3. Missed(i, l)
  BY <1>2 DEF Missed
<1>4. \A c \in 1..l : Missed(i, c)
  <2>1. \A c \in 1..l : c = l \/ c \in 1..(l - 1)
    BY <1>0
  <2> QED BY <1>0, <1>1, <1>3, <2>1 DEF ReachInv
<1>5. l' - 1 = l
  BY <1>0, <1>1
<1>6. \A j \in 1..L : (Searched(j)' => Searched(j)) /\ (Reached(j)' <=> Reached(j))
  BY <1>1 DEF Searched, Reached
<1>7. \A j \in 1..L, c \in 1..l : Missed(j, c)' <=> Missed(j, c)
  BY <1>1 DEF Missed
<1>8. \A c \in 1..l : Missed(i, c)'
  BY <1>0, <1>4, <1>7
<1>9. \A j \in 1..L : Searched(j)' => Reached(j)'
  BY <1>1, <1>6 DEF ReachInv
<1> QED
  BY <1>1, <1>5, <1>8, <1>9 DEF ReachInv

(* No header gave a node: the next tree does not have the block.           *)
LEMMA ReachProbeEnd ==
  ASSUME ContentsIInv, TokenInv, SplitInv, OnceInv, LinkInv, ReachInv,
         ProbeEnd, NEW i, i = i_tree, NEW n, n = i + 1
  PROVE  ReachInv'
<1>0. /\ TypeInv /\ L \in Nat /\ i \in 1..L /\ i < L /\ n \in 1..L
      /\ \A j \in 1..L : j \in Nat
  BY DEF ContentsIInv, MaskIInv, TypeInv, TypeOK, ShapeInv, ProbeEnd
<1> DEFINE A == tokens[i].a
           b == tokens[i].b
<1>1. /\ pc = "probe" /\ pc' = "read" /\ l = Len(accessed[i]) + 1 /\ i_tree' = n
      /\ UNCHANGED <<L, oram, tokens, accessed>>
      /\ accessed[i] \in Seq(Path)
  BY <1>0 DEF ProbeEnd, SearchNextTree, server, Headers, TypeInv, TypeOK
<1>2. ASSUME NEW p \in DOMAIN oram[n], tokens[n].a \in DOMAIN oram[n][p].blocks
      PROVE  FALSE
  <2>1. A \in Blocks(i) /\ Block(i, A).data[b] \in Path
    BY <1>1, <1>2, NextBlock
  <2>2. PICK q \in DOMAIN oram[i] : A \in DOMAIN oram[i][q].blocks
    BY <1>0, <1>1, <2>1, SearchBlocks
  <2>3. Block(i, A) = oram[i][q].blocks[A]
    BY <1>0, <1>1, <2>2, SearchBlocks
  <2>4. q \in Range(accessed[i])
    <3>1. Searched(i)
      BY <1>0, <1>1 DEF Searched
    <3> QED BY <1>0, <1>1, <2>2, <3>1 DEF ReachInv, Reached
  <2>5. PICK c \in DOMAIN accessed[i] : q = accessed[i][c]
    BY <2>4 DEF Range
  <2>6. Missed(i, c)
    <3>1. c \in 1..(l - 1)
      BY <1>1, <2>5
    <3> QED BY <1>0, <1>1, <3>1 DEF ReachInv
  <2>7. Block(i, A).data[b] = NoNode
    BY <2>2, <2>3, <2>5, <2>6 DEF Missed
  <2>8. NoNode \notin Path
    BY DEF NoNode, Path, Sides
  <2> QED BY <2>1, <2>7, <2>8
<1>3. \A j \in 1..L : Searched(j)' => Searched(j)
  BY <1>0, <1>1 DEF Searched
<1>4. \A j \in 1..L : Reached(j)' <=> Reached(j)
  BY <1>1 DEF Reached
<1> QED
  BY <1>1, <1>2, <1>3, <1>4 DEF ReachInv, Leading

LEMMA ReachNext ==
  ASSUME NumbersFit, ContentsIInv, SearchKeyInSync, TokenInv, SplitInv,
         OnceInv, FitInv, NodeInv, LinkInv, ReachInv, [Next]_vars
  PROVE  ReachInv'
<1>1. CASE pc' \notin {"read", "probe", "absorb"}
  BY <1>1 DEF ReachInv
<1>2. CASE BuildToken
  BY <1>2, ReachBuildToken
<1>3. CASE ReadBucket
  <2>1. /\ pc = "read" /\ pc' = "read" /\ i_tree \in 1..L /\ L \in Nat
        /\ UNCHANGED <<L, oram, tokens, i_tree, x>>
        /\ \A j \in 1..L : j # i_tree => accessed'[j] = accessed[j]
    BY <1>3 DEF ReadBucket, server, ContentsIInv, MaskIInv, TypeInv, TypeOK
  <2>2. \A j \in 1..L : Searched(j)' => Searched(j) /\ j # i_tree
    BY <2>1 DEF Searched
  <2>3. \A j \in 1..L : j # i_tree => (Reached(j)' <=> Reached(j))
    BY <2>1 DEF Reached
  <2>4. \A j \in 1..L : Leading(j)' <=> Leading(j)
    BY <2>1 DEF Leading
  <2> QED BY <2>1, <2>2, <2>3, <2>4 DEF ReachInv
<1>4. CASE EndOfPath
  BY <1>4, ReachEndOfPath
<1>5. CASE ProbeHit
  BY <1>5, ReachProbeHit
<1>6. CASE ProbeMiss
  BY <1>6, ReachProbeMiss
<1>7. CASE ProbeEnd
  BY <1>7, ReachProbeEnd
<1>8. CASE UNCHANGED vars
  BY <1>8 DEF vars, server, call, local, ReachInv, Leading, Reached, Missed,
     Searched
<1>9. \A o, a, v, one : Begin(o, a, v, one) => pc' = "build"
  BY DEF Begin
<1>10. \A a, v : Reject(a, v) => pc' = "idle"
  BY DEF Reject
<1>11. \A m : SetL(m) => pc' = "idle"
  BY DEF SetL
<1>12. Complete \/ Finish \/ WriteResponseToStash \/ EvictLevel \/ EndOfTree
       => pc' \notin {"read", "probe", "absorb"}
  BY DEF Complete, Finish, WriteResponseToStash, EvictLevel, EndOfTree
<1>13. \A new_x : RemapData(new_x) \/ RemapPointer(new_x) => pc' = "evict"
  BY DEF RemapData, RemapPointer, Remap
<1> QED
  BY <1>1, <1>2, <1>3, <1>4, <1>5, <1>6, <1>7, <1>8, <1>9, <1>10, <1>11,
     <1>12, <1>13 DEF Next, Caller, Step

LEMMA GoneNext ==
  ASSUME ContentsIInv, TokenInv, TokenInv', SplitInv, OnceInv, GoneInv, ReachInv,
         [Next]_vars
  PROVE  GoneInv'
<1>0. /\ TypeInv /\ FormInv /\ ReadInv /\ SentInv /\ L \in Nat \ {0}
  BY DEF ContentsIInv, MaskIInv, TypeInv, TypeOK
<1>1. CASE pc' \notin {"remap", "evict", "finish"}
  BY <1>1 DEF GoneInv, Absorbing
<1>2. CASE WriteResponseToStash
  <2>1. pc = "absorb" /\ UNCHANGED <<L, tokens>>
    BY <1>2 DEF WriteResponseToStash, server
  <2>2. ASSUME NEW i \in 1..L, NEW p \in At(Live(i)', tokens[i].a) PROVE FALSE
    <3>1. Live(i)' = Without(oram[i], Range(accessed[i]))
      BY <1>0, <1>2, AbsorbKept
    <3>2. /\ p \in DOMAIN oram[i] /\ p \notin Range(accessed[i])
          /\ tokens[i].a \in DOMAIN oram[i][p].blocks
      BY <2>2, <3>1 DEF At, Without
    <3>3. Reached(i)
      BY <2>1 DEF ReachInv, Searched
    <3> QED BY <3>2, <3>3 DEF Reached
  <2>3. \A i \in 1..L : At(Live(i)', tokens[i].a) = {}
    BY <2>2
  <2> QED BY <2>1, <2>3 DEF GoneInv, At
<1>3. ASSUME Absorbing, UNCHANGED <<L, tokens>>,
             \A i \in 1..L : ~Rebuilt(i)' /\ ~InHand(i)' =>
               ~Rebuilt(i) /\ ~InHand(i) /\ Live(i)' = Live(i)
      PROVE  GoneInv'
  BY <1>3 DEF GoneInv, At
<1>4. ASSUME NEW new_x \in Leaves(i_tree), RemapData(new_x) \/ RemapPointer(new_x)
      PROVE  GoneInv'
  <2>1. /\ pc = "remap" /\ pc' = "evict" /\ UNCHANGED <<L, tokens, i_tree>>
    BY <1>4 DEF RemapData, RemapPointer, Remap, server
  <2>2. \A i \in 1..L : ~Rebuilt(i)' /\ ~InHand(i)' => ~Rebuilt(i) /\ ~InHand(i)
    BY <2>1 DEF Rebuilt, InHand
  <2>3. \A i \in 1..L : Live(i)' = Live(i)
    BY <1>0, <1>4, RemapCases
  <2> QED BY <1>3, <2>1, <2>2, <2>3 DEF Absorbing
<1>5. ASSUME EvictLevel, NEW k, k = i_tree
      PROVE  GoneInv'
  <2>1. /\ pc = "evict" /\ pc' = "evict" /\ UNCHANGED <<L, tokens, i_tree>>
    BY <1>5 DEF EvictLevel, server
  <2>2. \A i \in 1..L : ~Rebuilt(i)' /\ ~InHand(i)'
                          => ~Rebuilt(i) /\ ~InHand(i) /\ i # k
    BY <1>5, <2>1 DEF Rebuilt, InHand
  <2>3. \A i \in 1..L : i # k => Live(i)' = Live(i)
    BY <1>0, <1>5, KeepingEvict
  <2> QED BY <1>3, <2>1, <2>2, <2>3 DEF Absorbing
<1>6. CASE EndOfTree
  <2>1. /\ pc = "evict" /\ UNCHANGED <<L, tokens, oram, pending, stash, sf, accessed>>
        /\ i_tree \in 1..L
        /\ \/ pc' = "remap" /\ i_tree' = i_tree - 1
           \/ pc' = "finish"
    BY <1>0, <1>6 DEF EndOfTree, server, client, TypeInv, TypeOK
  <2>2. \A i \in 1..L : ~Rebuilt(i)' /\ ~InHand(i)' => ~Rebuilt(i) /\ ~InHand(i)
    BY <1>0, <2>1 DEF Rebuilt, InHand
  <2>3. \A i \in 1..L : Live(i)' = Live(i)
    BY <2>1, SameSteps DEF Absorbing, Same
  <2> QED BY <1>3, <2>1, <2>2, <2>3 DEF Absorbing
<1>7. CASE UNCHANGED vars
  BY <1>7 DEF vars, server, client, local, GoneInv, Absorbing, Rebuilt, InHand,
     Live, At
<1>8. \A o, a, v, one : Begin(o, a, v, one) => pc' = "build"
  BY DEF Begin
<1>9. \A a, v : Reject(a, v) => pc' = "idle"
  BY DEF Reject
<1>10. \A m : SetL(m) => pc' = "idle"
  BY DEF SetL
<1>11. Complete \/ Finish \/ BuildToken \/ ReadBucket \/ EndOfPath \/ ProbeHit
         \/ ProbeMiss \/ ProbeEnd => pc' \notin {"remap", "evict", "finish"}
  BY DEF Complete, Finish, BuildToken, ReadBucket, EndOfPath, ProbeHit,
     ProbeMiss, ProbeEnd, SearchNextTree
<1> QED
  BY <1>1, <1>2, <1>4, <1>5, <1>6, <1>7, <1>8, <1>9, <1>10, <1>11
     DEF Next, Caller, Step
-----------------------------------------------------------------------------
(* Everything about the blocks, as one inductive invariant.                *)
SearchIInv ==
  /\ ContentsIInv /\ SearchKeyInSync
  /\ TokenInv /\ SplitInv
  /\ OnceInv /\ GoneInv
  /\ FitInv /\ NodeInv /\ LinkInv /\ ReachInv

LEMMA SearchInit == Init => SearchIInv
<1> SUFFICES ASSUME Init PROVE SearchIInv
  OBVIOUS
<1>1. pc = "idle" /\ Exc = 0
  BY DEF Init, Exc
<1>2. TypeInv /\ TokenInv
  BY TypeInit, TokenInit
<1>3. ASSUME NEW i \in 1..L
      PROVE  DOMAIN Live(i) = {} /\ DOMAIN stash[i] = {}
  BY DEF Init, NoToken, EmptyMap, Live, Overlay, Without
<1>4. \A i \in 1..L : Blocks(i) = {} /\ Once(Live(i), stash[i])
  BY <1>3 DEF Blocks, Once
<1>5. SearchKeyInSync /\ GoneInv /\ ReachInv
  BY <1>1 DEF SearchKeyInSync, GoneInv, Absorbing, ReachInv
<1>6. FitInv /\ NodeInv /\ LinkInv /\ OnceInv
  <2>1. L \in Nat
    BY <1>2 DEF TypeInv, TypeOK
  <2> QED BY <1>1, <1>4, <2>1 DEF FitInv, NodeInv, LinkInv, OnceInv
<1> QED
  BY <1>2, <1>5, <1>6, ContentsInductive, SplitInit DEF SearchIInv

LEMMA SearchNext ==
  ASSUME NumbersFit, SearchIInv, [Next]_vars
  PROVE  SearchIInv'
<1>1. /\ ContentsIInv /\ SearchKeyInSync /\ TokenInv /\ SplitInv /\ OnceInv
      /\ GoneInv /\ FitInv /\ NodeInv /\ LinkInv /\ ReachInv
      /\ MaskIInv /\ TypeInv /\ ReadInv
  BY DEF SearchIInv, ContentsIInv, MaskIInv
<1>2. ContentsIInv' /\ SearchKeyInSync' /\ TokenInv' /\ SplitInv'
  BY <1>1, ContentsInductive, KeyNext, TokenNext, SplitNext
<1>3. FitInv' /\ NodeInv' /\ LinkInv' /\ ReachInv' /\ GoneInv'
  BY <1>1, <1>2, FitNext, NodeNext, LinkNext, ReachNext, GoneNext
<1>4. OnceInv'
  <2>1. CASE Keeping
    BY <2>1 DEF Keeping
  <2>2. CASE \E new_x \in Leaves(i_tree) : RemapData(new_x) \/ RemapPointer(new_x)
    BY <1>1, <2>2, RemapCases
  <2>3. CASE \E m_L \in InitL..MaxL : SetL(m_L)
    BY <1>1, <2>3, SetLBlocks
  <2> QED BY <1>1, <1>2, <2>1, <2>2, <2>3, KeepingNext
<1> QED
  BY <1>2, <1>3, <1>4 DEF SearchIInv

LEMMA SearchAlways ==
  ASSUME NumbersFit
  PROVE  Spec => []SearchIInv
<1>1. SearchIInv /\ [Next]_vars => SearchIInv'
  BY SearchNext
<1> QED
  BY <1>1, SearchInit, PTL DEF Spec

-----------------------------------------------------------------------------
(* The theorems.  They rest on NumbersFit: two blocks whose numbers differ *)
(* by a multiple of IntRange are the same block to a header.               *)

(* A block is in one place, the stash or one current bucket: what          *)
(* WriteResponseToStash copies to the stash never overwrites a newer copy. *)
THEOREM NoDuplicates ==
  ASSUME NumbersFit
  PROVE  Spec => []OneCopy
<1>1. SearchIInv => OneCopy
  BY DEF SearchIInv, OnceInv, Once, OneCopy
<1> QED
  BY <1>1, SearchAlways, PTL

(* Between two calls the father of every block of tree i + 1 is in tree i  *)
(* and points to the node of that block, also after SetL has put trees in  *)
(* front: what DebugCheckORAMIntegrity tests.                              *)
THEOREM PointersLead ==
  ASSUME NumbersFit
  PROVE  Spec => []PointersAgree
<1>1. ASSUME SearchIInv, pc = "idle", NEW i \in 1..(L - 1), NEW a \in Blocks(i + 1)
      PROVE  /\ a \div 2 \in Blocks(i)
             /\ Block(i, a \div 2).data[a % 2] = Block(i + 1, a).node
  <2>1. L \in Nat /\ LinkInv
    BY <1>1 DEF SearchIInv, ContentsIInv, MaskIInv, TypeInv, TypeOK
  <2>2. i \in 1..L /\ i + 1 \in 1..L /\ i + 1 # Exc
    BY <1>1, <2>1 DEF Exc
  <2>3. Linked(i, i + 1, a)
    BY <1>1, <2>1, <2>2 DEF LinkInv
  <2> QED BY <2>3 DEF Linked
<1>2. SearchIInv => PointersAgree
  BY <1>1 DEF PointersAgree
<1> QED
  BY <1>2, SearchAlways, PTL

(* When the search is over, the paths read hold the block of the address   *)
(* in every tree that has it, although Search only ever saw the headers    *)
(* and took each pointer to a random leaf below its node.                  *)
THEOREM SearchFinds ==
  ASSUME NumbersFit
  PROVE  Spec => []SearchReachesBlock
<1>1. ASSUME SearchIInv, pc = "absorb", NEW i \in 1..L, tokens[i].a \in Blocks(i)
      PROVE  InTree(i, tokens[i].a) \cap Range(accessed[i]) # {}
  <2>1. /\ ContentsIInv /\ TokenInv /\ OnceInv /\ ReachInv /\ TypeInv /\ SentInv
    BY <1>1 DEF SearchIInv, ContentsIInv, MaskIInv
  <2>2. PICK p \in DOMAIN oram[i] : tokens[i].a \in DOMAIN oram[i][p].blocks
    BY <1>1, <2>1, SearchBlocks
  <2>3. p \in Range(accessed[i])
    BY <1>1, <2>1, <2>2 DEF ReachInv, Searched, Reached
  <2>4. Live(i) = oram[i]
    BY <1>1, <2>1, LiveSearch
  <2>5. p \in InTree(i, tokens[i].a)
    BY <2>2, <2>4 DEF InTree
  <2> QED BY <2>3, <2>5
<1>2. SearchIInv => SearchReachesBlock
  BY <1>1 DEF SearchReachesBlock
<1> QED
  BY <1>2, SearchAlways, PTL

LEMMA NoLoss ==
  ASSUME SearchIInv, SearchIInv', [Next]_vars
  PROVE  \A i \in 1..L : AllBlocks[i] \subseteq AllBlocks'[i + (L' - L)]
<1>1. /\ ContentsIInv /\ TokenInv /\ SplitInv /\ OnceInv /\ GoneInv /\ TypeInv
      /\ ContentsIInv' /\ TokenInv'
  BY DEF SearchIInv, ContentsIInv, MaskIInv
<1>2. L \in Nat
  BY <1>1 DEF TypeInv, TypeOK
<1>3. ASSUME NEW k \in Nat, L' = L + k,
             \A i \in 1..L : Blocks(i) \subseteq Blocks(i + k)'
      PROVE  \A i \in 1..L : AllBlocks[i] \subseteq AllBlocks'[i + (L' - L)]
  <2> SUFFICES ASSUME NEW i \in 1..L
               PROVE  AllBlocks[i] \subseteq AllBlocks'[i + (L' - L)]
    OBVIOUS
  <2>1. i + (L' - L) = i + k /\ i + k \in 1..L'
    BY <1>2, <1>3
  <2>2. AllBlocks[i] = Blocks(i)
    BY DEF AllBlocks
  <2>3. AllBlocks'[i + k] = Blocks(i + k)'
    BY <2>1 DEF AllBlocks
  <2> QED BY <1>3, <2>1, <2>2, <2>3
<1>4. ASSUME L' = L, \A i \in 1..L : Blocks(i) \subseteq Blocks(i)'
      PROVE  \A i \in 1..L : AllBlocks[i] \subseteq AllBlocks'[i + (L' - L)]
  <2>1. \A i \in 1..L : AllBlocks[i] = Blocks(i) /\ AllBlocks'[i] = Blocks(i)'
    BY <1>4 DEF AllBlocks
  <2>2. \A i \in 1..L : i + (L' - L) = i
    BY <1>2, <1>4
  <2> QED BY <1>4, <2>1, <2>2
<1>5. CASE Keeping
  BY <1>4, <1>5 DEF Keeping, Kept
<1>6. ASSUME NEW new_x \in Leaves(i_tree), RemapData(new_x) \/ RemapPointer(new_x),
             NEW i, i = i_tree, NEW A, A = tokens[i].a, NEW b, b = tokens[i].b
      PROVE  L' = L /\ \A j \in 1..L : Blocks(j) \subseteq Blocks(j)'
  <2>1. /\ L' = L
        /\ \A j \in 1..L : j # i => Kept(j)
        /\ i = L => Written(i, A, b, data1', Zero, new_x)
        /\ i < L => Written(i, A, b, last_x, NoNode, new_x)
    BY <1>1, <1>6, RemapCases
  <2>2. i \in 1..L
    BY <1>1, <1>6 DEF RemapData, RemapPointer, Remap, TypeInv, TypeOK
  <2>3. Blocks(i)' = Blocks(i) \cup {A}
    BY <1>2, <2>1, <2>2 DEF Written
  <2> QED BY <2>1, <2>3 DEF Kept
<1>7. ASSUME NEW m_L \in InitL..MaxL, SetL(m_L), NEW k, k = m_L - L
      PROVE  \A i \in 1..L : AllBlocks[i] \subseteq AllBlocks'[i + (L' - L)]
  <2>1. k \in Nat /\ Grown(k)
    BY <1>1, <1>7, SetLBlocks
  <2>2. L' = L + k
    BY <2>1 DEF Grown
  <2>3. ASSUME NEW i \in 1..L
        PROVE  Blocks(i) \subseteq Blocks(i + k)'
    <3>1. \A n \in (k + 1)..(L + k) : Blocks(n)' = Blocks(n - k)
      BY <2>1 DEF Grown
    <3>2. ASSUME NEW n, n = i + k PROVE Blocks(n)' = Blocks(i)
      <4>1. n \in (k + 1)..(L + k) /\ n - k = i
        BY <1>2, <2>1, <3>2
      <4> QED BY <3>1, <4>1
    <3>3. Blocks(i + k)' = Blocks(i)
      BY <3>2
    <3> QED BY <3>3
  <2> QED BY <1>3, <2>1, <2>2, <2>3
<1>8. (\E new_x \in Leaves(i_tree) : RemapData(new_x) \/ RemapPointer(new_x))
      => L' = L /\ \A j \in 1..L : Blocks(j) \subseteq Blocks(j)'
  BY <1>6
<1> QED
  BY <1>1, <1>4, <1>5, <1>7, <1>8, KeepingNext

(* No step loses a block of a tree, whichever of stash, response, token    *)
(* and tree it is moved between; SetL renumbers the trees.                 *)
THEOREM NothingLost ==
  ASSUME NumbersFit
  PROVE  Spec => NoBlockLost
<1>1. SearchIInv /\ SearchIInv' /\ [Next]_vars =>
        [\A i \in 1..L : AllBlocks[i] \subseteq AllBlocks'[i + (L' - L)]]_vars
  BY NoLoss
<1> QED
  BY <1>1, SearchAlways, PTL DEF Spec, NoBlockLost
-----------------------------------------------------------------------------
(* What the array holds, from the blocks of a tree t with a stash st.      *)
Held(t, st) ==
  [a \in Addr |-> IF a \div 2 \in Keys(t, st)
                    THEN Item(t, st, a \div 2).data[a % 2] ELSE Zero]

LookedUp(t, st) ==
  LET value(a, b) ==
        IF a \in DOMAIN st THEN st[a].data[b]
        ELSE LET at == {p \in DOMAIN t : a \in DOMAIN t[p].blocks}
             IN IF at = {} THEN Zero
                ELSE t[CHOOSE p \in at : TRUE].blocks[a].data[b]
  IN [a \in Addr |-> value(a \div 2, a % 2)]

LEMMA HeldLookedUp ==
  ASSUME NEW t, NEW st
  PROVE  LookedUp(t, st) = Held(t, st)
<1> DEFINE at(a) == {p \in DOMAIN t : a \in DOMAIN t[p].blocks}
           value(a, b) ==
             IF a \in DOMAIN st THEN st[a].data[b]
             ELSE IF at(a) = {} THEN Zero
                  ELSE t[CHOOSE p \in at(a) : TRUE].blocks[a].data[b]
<1>1. LookedUp(t, st) = [a \in Addr |-> value(a \div 2, a % 2)]
  BY DEF LookedUp
<1>2. ASSUME NEW h, NEW s
      PROVE  value(h, s) = IF h \in Keys(t, st) THEN Item(t, st, h).data[s] ELSE Zero
  <2>1. h \in Keys(t, st) <=> h \in DOMAIN st \/ at(h) # {}
    BY DEF Keys
  <2>2. At(t, h) = at(h)
    BY DEF At
  <2>3. CASE h \in DOMAIN st
    BY <2>1, <2>3 DEF Item
  <2>4. CASE h \notin DOMAIN st
    BY <2>1, <2>2, <2>4 DEF Item
  <2> QED BY <2>3, <2>4
<1> HIDE DEF value
<1> QED BY <1>1, <1>2 DEF Held

LEMMA StoredHeld ==
  /\ Stored = Held(Live(L), stash[L])
  /\ \A n : n = L' => Stored' = Held(Live(n)', stash'[n])
<1>1. Stored = LookedUp(Live(L), stash[L])
  BY DEF Stored, LookedUp
<1>2. ASSUME NEW n, n = L'
      PROVE  Stored' = LookedUp(Live(n)', stash'[n])
  BY <1>2 DEF Stored, LookedUp
<1> QED BY <1>1, <1>2, HeldLookedUp

LEMMA HeldSame ==
  ASSUME NEW t, NEW st, NEW u, NEW su, Keys(u, su) = Keys(t, st),
         \A a \in Keys(t, st) : Item(u, su, a) = Item(t, st, a)
  PROVE  Held(u, su) = Held(t, st)
<1>1. ASSUME NEW a \in Addr
      PROVE  (IF a \div 2 \in Keys(u, su) THEN Item(u, su, a \div 2).data[a % 2] ELSE Zero)
           = (IF a \div 2 \in Keys(t, st) THEN Item(t, st, a \div 2).data[a % 2] ELSE Zero)
  OBVIOUS
<1> QED BY <1>1 DEF Held

(* A step that keeps the blocks of tree L keeps what is stored.            *)
LEMMA StoredKept ==
  ASSUME NEW n, n = L, L' = L, Kept(n)
  PROVE  Stored' = Stored /\ Capacity' = Capacity
<1>1. /\ Keys(Live(n)', stash'[n]) = Keys(Live(n), stash[n])
      /\ \A a \in Keys(Live(n), stash[n]) :
           Item(Live(n)', stash'[n], a) = Item(Live(n), stash[n], a)
  BY BlocksAreKeys, NextBlocksAreKeys DEF Kept
<1>2. Held(Live(n)', stash'[n]) = Held(Live(n), stash[n])
  BY <1>1, HeldSame
<1>3. Stored' = Stored
  BY <1>2, StoredHeld
<1> QED BY <1>3 DEF Capacity

(* SetL renumbers tree L and keeps what it holds; more addresses fit.      *)
LEMMA PowLess ==
  ASSUME NEW n \in Nat, NEW m \in Nat, n < m
  PROVE  2^n < 2^m
<1>1. n + 1 \in Nat /\ n + 1 <= m
  OBVIOUS
<1>2. 2^(n + 1) <= 2^m
  BY <1>1, PowMono
<1>3. 2^(n + 1) = 2 * 2^n /\ 2^n \in Nat \ {0}
  BY PowDouble, PowNat
<1>4. 2^m \in Nat
  BY PowNat
<1> DEFINE p == 2^n
           q == 2^m
<1>5. 2 * p <= q /\ p \in Nat \ {0} /\ q \in Nat
  BY <1>2, <1>3, <1>4
<1> HIDE DEF p, q
<1>6. p < q
  BY <1>5
<1> QED BY <1>6 DEF p, q

LEMMA StoredGrown ==
  ASSUME TypeInv, TokenInv, OnceInv, NEW m_L \in InitL..MaxL, SetL(m_L)
  PROVE  Stored' = Stored /\ Capacity' \in {n \in Nat : n > Capacity}
<1>1. L \in Nat /\ m_L \in Nat /\ m_L > L /\ L' = m_L
  BY ConstantAssumption DEF SetL, TypeInv, TypeOK
<1>2. ASSUME NEW k, k = m_L - L, NEW n, n = L + k
      PROVE  /\ Live(n)' = Live(L) /\ stash'[n] = stash[L]
             /\ n = L'
  <2>1. Grown(k) /\ k \in Nat \ {0}
    BY <1>2, SetLBlocks
  <2>2. n \in (k + 1)..(L + k) /\ n - k = L /\ n = m_L
    <3>1. L \in Nat \ {0}
      BY DEF TypeInv, TypeOK
    <3> QED BY <1>1, <1>2, <2>1, <3>1
  <2>3. Live(n)' = Live(n - k) /\ stash'[n] = stash[n - k]
    BY <2>1, <2>2 DEF Grown
  <2> QED BY <1>1, <2>2, <2>3
<1>3. \E n : Live(n)' = Live(L) /\ stash'[n] = stash[L] /\ n = L'
  BY <1>2
<1>4. Stored' = Stored
  BY <1>3, StoredHeld
<1>5. 2^L < 2^m_L /\ 2^L \in Nat \ {0} /\ 2^m_L \in Nat \ {0}
  BY <1>1, PowLess, PowNat
<1>6. Capacity = 2^L - 1 /\ Capacity' = 2^m_L - 1
  BY <1>1 DEF Capacity
<1> DEFINE p == 2^L
           q == 2^m_L
<1>7. p < q /\ p \in Nat \ {0} /\ q \in Nat \ {0} /\ Capacity = p - 1 /\ Capacity' = q - 1
  BY <1>5, <1>6
<1> HIDE DEF p, q
<1>8. Capacity' \in Nat /\ Capacity' > Capacity
  BY <1>7
<1> QED BY <1>4, <1>8

-----------------------------------------------------------------------------
(* The step in which a call takes effect.                                  *)

LEMMA Halves ==
  ASSUME NEW a \in Nat, NEW c \in Nat, a \div 2 = c \div 2, a % 2 = c % 2
  PROVE  a = c
OBVIOUS

Wrote(t, st, u, su, A, b, d) ==
  /\ Keys(u, su) = Keys(t, st) \cup {A}
  /\ \A a \in Keys(t, st) \ {A} : Item(u, su, a) = Item(t, st, a)
  /\ Item(u, su, A).data[b] = d
  /\ \A s \in Sides \ {b} :
       Item(u, su, A).data[s] =
         IF A \in Keys(t, st) THEN Item(t, st, A).data[s] ELSE Zero

Updated(old, new, c, d) == new = [old EXCEPT ![c] = d]

LEMMA HeldWritten ==
  ASSUME NEW t, NEW st, NEW u, NEW su, NEW c \in Addr, NEW d,
         Wrote(t, st, u, su, c \div 2, c % 2, d)
  PROVE  Updated(Held(t, st), Held(u, su), c, d)
<1> DEFINE A == c \div 2
           b == c % 2
           now(a) == IF a \div 2 \in Keys(u, su)
                       THEN Item(u, su, a \div 2).data[a % 2] ELSE Zero
           was(a) == IF a \div 2 \in Keys(t, st)
                       THEN Item(t, st, a \div 2).data[a % 2] ELSE Zero
<1>1. c \in Nat /\ Addr \subseteq Nat
  BY ConstantAssumption
<1>0. /\ Keys(u, su) = Keys(t, st) \cup {A}
      /\ \A a \in Keys(t, st) \ {A} : Item(u, su, a) = Item(t, st, a)
      /\ Item(u, su, A).data[b] = d
      /\ \A s \in Sides \ {b} :
           Item(u, su, A).data[s] =
             IF A \in Keys(t, st) THEN Item(t, st, A).data[s] ELSE Zero
  BY DEF Wrote
<1>2. ASSUME NEW a \in Addr
      PROVE  now(a) = IF a = c THEN d ELSE was(a)
  <2>1. CASE a = c
    BY <1>0, <2>1
  <2>2. CASE a # c /\ a \div 2 = A
    <3>1. a \in Nat /\ a % 2 # b /\ a % 2 \in Sides
      BY <1>1, <2>2, Halves DEF Sides
    <3> QED BY <1>0, <2>2, <3>1
  <2>3. CASE a # c /\ a \div 2 # A
    BY <1>0, <2>3
  <2> QED BY <2>1, <2>2, <2>3
<1>3. Held(u, su) = [a \in Addr |-> now(a)] /\ Held(t, st) = [a \in Addr |-> was(a)]
  BY DEF Held
<1> HIDE DEF now, was
<1> QED BY <1>2, <1>3 DEF Updated

LEMMA StoredRemapData ==
  ASSUME TypeInv, TokenInv, SplitInv, OnceInv, GoneInv,
         NEW new_x \in Leaves(i_tree), RemapData(new_x)
  PROVE  /\ L' = L
         /\ Stored' = [Stored EXCEPT ![addr] = data1']
         /\ data1' = IF op = "write" THEN data1 ELSE Stored[addr]
<1>1. /\ pc = "remap" /\ i_tree = L /\ L \in Nat \ {0}
      /\ data1' = IF op = "write" THEN data1
                                  ELSE ReadDataFromStash(aa \div 2, aa % 2)
  BY DEF RemapData, Remap, TypeInv, TypeOK
<1>2. ASSUME NEW n, n = L, NEW A, A = tokens[n].a, NEW b, b = tokens[n].b,
             NEW t, t = Live(n), NEW st, st = stash[n],
             NEW u, u = Live(n)', NEW su, su = stash'[n]
      PROVE  /\ L' = L
             /\ Stored' = [Stored EXCEPT ![addr] = data1']
             /\ data1' = IF op = "write" THEN data1 ELSE Stored[addr]
  <2>1. Derived(n) /\ n \in 1..L /\ aa = addr /\ addr \in Addr
    BY <1>1, <1>2 DEF SplitInv, Above
  <2>2. A = addr \div 2 /\ b = addr % 2
    BY <1>2, <2>1 DEF Derived, Above
  <2>3. L' = L /\ Written(n, A, b, data1', Zero, new_x)
    BY <1>1, <1>2, RemapCases
  <2>4. /\ Blocks(n) = Keys(t, st) /\ \A a : Block(n, a) = Item(t, st, a)
        /\ Blocks(n)' = Keys(u, su) /\ \A a : Block(n, a)' = Item(u, su, a)
    BY <1>2, BlocksAreKeys, NextBlocksAreKeys
  <2>5. Wrote(t, st, u, su, A, b, data1')
    BY <2>3, <2>4 DEF Written, Wrote
  <2> Wrote(t, st, u, su, addr \div 2, addr % 2, data1')
    BY <2>2, <2>5
  <2>6. Updated(Held(t, st), Held(u, su), addr, data1')
    BY <2>1, HeldWritten
  <2>7. Stored = Held(t, st) /\ Stored' = Held(u, su)
    BY <1>2, <2>3, StoredHeld
  <2>8. At(t, A) = {}
    BY <1>1, <1>2, <2>1 DEF GoneInv, Absorbing, Rebuilt, InHand
  <2>9. Stored[addr] = ReadDataFromStash(A, b)
    <3>1. Stored[addr] = IF A \in Keys(t, st) THEN Item(t, st, A).data[b] ELSE Zero
      BY <2>1, <2>2, <2>7 DEF Held
    <3>2. A \in Keys(t, st) <=> A \in DOMAIN st
      BY <2>8 DEF Keys, At
    <3> QED BY <1>2, <3>1, <3>2 DEF Item, ReadDataFromStash
  <2> QED BY <1>1, <2>1, <2>2, <2>3, <2>6, <2>7, <2>9 DEF Updated
<1> QED BY <1>2

-----------------------------------------------------------------------------
(* The refinement, one action at a time.                                   *)

Phase == IF pc = "idle" THEN "idle" ELSE IF Effected THEN "done" ELSE "called"

(* What the caller cannot see.                                             *)
Hidden == UNCHANGED <<Capacity, Stored, Phase, op, addr, data1>>

LEMMA HiddenStutters == Hidden => UNCHANGED Store!vars
BY DEF Hidden, Phase, Store!vars

(* All steps but RemapData, RemapPointer and SetL keep what is stored.     *)
LEMMA StoredSame ==
  ASSUME SearchIInv, SearchIInv', [Next]_vars, L' = L, pc # "remap"
  PROVE  UNCHANGED <<Capacity, Stored>>
<1>1. ContentsIInv /\ ContentsIInv' /\ TokenInv /\ TokenInv' /\ OnceInv /\ L \in 1..L
  BY DEF SearchIInv, ContentsIInv, MaskIInv, TypeInv, TypeOK
<1>2. ~ \E new_x \in Leaves(i_tree) : RemapData(new_x) \/ RemapPointer(new_x)
  BY DEF RemapData, RemapPointer, Remap
<1>3. ~ \E m_L \in InitL..MaxL : SetL(m_L)
  <2>1. L \in Nat
    BY <1>1 DEF ContentsIInv, MaskIInv, TypeInv, TypeOK
  <2>2. \A m_L \in InitL..MaxL : SetL(m_L) => m_L > L /\ L' = m_L /\ m_L \in Nat
    BY ConstantAssumption DEF SetL
  <2> QED BY <2>1, <2>2
<1>4. Keeping
  BY <1>1, <1>2, <1>3, KeepingNext
<1>5. \A n : n = L => Kept(n)
  BY <1>1, <1>4 DEF Keeping
<1> QED BY <1>5, StoredKept

LEMMA StoreBegin ==
  ASSUME SearchIInv, SearchIInv', [Next]_vars, NEW o \in Ops, NEW a \in Addr,
         NEW v \in Val, NEW one, Begin(o, a, v, one)
  PROVE  Store!Next
<1>1. /\ pc = "idle" /\ pc' = "build" /\ a <= Capacity /\ L' = L
      /\ op' = o /\ addr' = a /\ data1' = IF o = "write" THEN v ELSE data1
  BY DEF Begin, server
<1>2. UNCHANGED <<Capacity, Stored>>
  BY <1>1, StoredSame
<1>3. Store!Invoke(o, a, v)
  BY <1>1, <1>2 DEF Store!Invoke, Effected
<1>4. o \in {"read", "write"}
  BY ConstantAssumption
<1> QED BY <1>3, <1>4 DEF Store!Next

LEMMA StoreReject ==
  ASSUME SearchIInv, SearchIInv', [Next]_vars, NEW a \in Addr, NEW v \in Val,
         Reject(a, v)
  PROVE  Store!Next
<1>1. /\ pc = "idle" /\ pc' = "idle" /\ a > Capacity /\ L' = L
      /\ UNCHANGED <<op, addr>> /\ data1' = v
  BY DEF Reject, server
<1>2. UNCHANGED <<Capacity, Stored>>
  BY <1>1, StoredSame
<1>3. Store!Reject(a, v)
  BY <1>1, <1>2 DEF Store!Reject
<1> QED BY <1>3 DEF Store!Next

LEMMA StoreRemapData ==
  ASSUME SearchIInv, NEW new_x \in Leaves(i_tree), RemapData(new_x)
  PROVE  Store!Next
<1>1. TypeInv /\ TokenInv /\ SplitInv /\ OnceInv /\ GoneInv
  BY DEF SearchIInv, ContentsIInv, MaskIInv
<1>2. /\ pc = "remap" /\ i_tree = L /\ pc' = "evict" /\ UNCHANGED <<op, addr>>
      /\ L \in Nat
  BY <1>1 DEF RemapData, Remap, TypeInv, TypeOK
<1>3. /\ L' = L /\ Stored' = [Stored EXCEPT ![addr] = data1']
      /\ data1' = IF op = "write" THEN data1 ELSE Stored[addr]
  BY <1>1, StoredRemapData
<1>4. Capacity' = Capacity
  BY <1>3 DEF Capacity
<1>5. op # "write" => Stored' = Stored
  <2>1. Stored = [a \in Addr |-> Stored[a]]
    BY StoredHeld DEF Held
  <2> QED BY <1>3, <2>1
<1>6. ~Effected /\ Effected'
  BY <1>2 DEF Effected
<1>7. Store!Effect
  BY <1>2, <1>3, <1>4, <1>5, <1>6 DEF Store!Effect
<1> QED BY <1>7 DEF Store!Next

LEMMA StoreRemapPointer ==
  ASSUME SearchIInv, NEW new_x \in Leaves(i_tree), RemapPointer(new_x)
  PROVE  Hidden
<1>1. TypeInv /\ TokenInv /\ SplitInv /\ OnceInv /\ GoneInv
  BY DEF SearchIInv, ContentsIInv, MaskIInv
<1>2. /\ pc = "remap" /\ i_tree < L /\ pc' = "evict"
      /\ UNCHANGED <<op, addr, data1>> /\ L \in 1..L /\ L # i_tree
  BY <1>1 DEF RemapPointer, Remap, TypeInv, TypeOK
<1>3. L' = L /\ \A n : n = L => Kept(n)
  BY <1>1, <1>2, RemapCases
<1>4. UNCHANGED <<Capacity, Stored>>
  BY <1>3, StoredKept
<1>5. Phase' = Phase
  BY <1>2 DEF Phase, Effected
<1> QED BY <1>2, <1>4, <1>5 DEF Hidden

LEMMA StoreFinish ==
  ASSUME SearchIInv, SearchIInv', [Next]_vars, Finish
  PROVE  Store!Next
<1>1. pc = "finish" /\ pc' = "idle" /\ L' = L /\ UNCHANGED <<op, addr, data1>>
  BY DEF Finish, call
<1>2. UNCHANGED <<Capacity, Stored>>
  BY <1>1, StoredSame
<1>3. Store!Return
  BY <1>1, <1>2 DEF Store!Return, Effected
<1> QED BY <1>3 DEF Store!Next

LEMMA StoreSetL ==
  ASSUME SearchIInv, NEW m_L \in InitL..MaxL, SetL(m_L)
  PROVE  Store!Next
<1>1. TypeInv /\ TokenInv /\ OnceInv
  BY DEF SearchIInv, ContentsIInv, MaskIInv
<1>2. Stored' = Stored /\ Capacity' \in {n \in Nat : n > Capacity}
  BY <1>1, StoredGrown
<1>3. pc = "idle" /\ pc' = "idle" /\ UNCHANGED <<op, addr, data1>>
  BY DEF SetL, call
<1>4. Store!Grow
  BY <1>2, <1>3 DEF Store!Grow
<1> QED BY <1>4 DEF Store!Next

(* The steps of an access that the caller does not see, and Complete.      *)
LEMMA StoreHidden ==
  ASSUME SearchIInv, SearchIInv', [Next]_vars,
         \/ Complete \/ BuildToken \/ ReadBucket \/ EndOfPath \/ ProbeHit
         \/ ProbeMiss \/ ProbeEnd \/ WriteResponseToStash \/ EvictLevel
         \/ EndOfTree
  PROVE  Hidden
<1>1. L \in Nat \ {0} /\ (pc # "idle" => i_tree \in 1..L)
  BY DEF SearchIInv, ContentsIInv, MaskIInv, TypeInv, TypeOK
<1>2. /\ L' = L /\ UNCHANGED <<op, addr, data1>> /\ pc # "remap"
      /\ \/ pc = "idle" /\ pc' = "idle"
         \/ pc \in {"build", "read", "probe"}
              /\ pc' \in {"build", "read", "probe", "absorb"}
         \/ pc = "absorb" /\ pc' = "remap" /\ i_tree' = L
         \/ pc = "evict" /\ pc' \in {"evict", "finish"}
         \/ pc = "evict" /\ pc' = "remap" /\ i_tree' = i_tree - 1
  BY DEF Complete, BuildToken, ReadBucket, EndOfPath, ProbeHit, ProbeMiss,
     ProbeEnd, WriteResponseToStash, EvictLevel, EndOfTree, SearchNextTree,
     server, call
<1>3. UNCHANGED <<Capacity, Stored>>
  BY <1>2, StoredSame
<1>4. Phase' = Phase
  BY <1>1, <1>2 DEF Phase, Effected
<1> QED BY <1>2, <1>3, <1>4 DEF Hidden

LEMMA StoreNext ==
  ASSUME SearchIInv, SearchIInv', [Next]_vars
  PROVE  [Store!Next]_(Store!vars)
<1>1. CASE \E o \in Ops, a \in Addr, v \in Val, one \in SingleRound :
             Begin(o, a, v, one)
  BY <1>1, StoreBegin
<1>2. CASE \E a \in Addr, v \in Val : Reject(a, v)
  BY <1>2, StoreReject
<1>3. CASE \E new_x \in Leaves(i_tree) : RemapData(new_x)
  BY <1>3, StoreRemapData
<1>4. CASE \E new_x \in Leaves(i_tree) : RemapPointer(new_x)
  BY <1>4, StoreRemapPointer, HiddenStutters
<1>5. CASE Finish
  BY <1>5, StoreFinish
<1>6. CASE \E m_L \in InitL..MaxL : SetL(m_L)
  BY <1>6, StoreSetL
<1>7. CASE \/ Complete \/ BuildToken \/ ReadBucket \/ EndOfPath \/ ProbeHit
           \/ ProbeMiss \/ ProbeEnd \/ WriteResponseToStash \/ EvictLevel
           \/ EndOfTree
  BY <1>7, StoreHidden, HiddenStutters
<1>8. CASE UNCHANGED vars
  <2>1. UNCHANGED <<L, oram, stash, pending, sf, accessed, pc, op, addr, data1, i_tree>>
    BY <1>8 DEF vars, server, client, call, local
  <2>2. Stored' = Stored /\ Capacity' = Capacity /\ Phase' = Phase
    BY <2>1 DEF Stored, Capacity, Phase, Effected, Live, Absorbing
  <2>3. Hidden
    BY <2>1, <2>2 DEF Hidden
  <2> QED BY <2>3, HiddenStutters
<1> QED
  BY <1>1, <1>2, <1>3, <1>4, <1>5, <1>6, <1>7, <1>8 DEF Next, Caller, Step

LEMMA StoreInit == Init => Store!Init
<1> SUFFICES ASSUME Init PROVE Store!Init
  OBVIOUS
<1>1. /\ pc = "idle" /\ op = "read" /\ addr = 0 /\ data1 = Zero
      /\ L \in Nat /\ L \in 1..L
  BY ConstantAssumption DEF Init
<1>2. Capacity \in Nat
  <2>1. 2^L \in Nat \ {0}
    BY <1>1, PowNat
  <2> QED BY <2>1 DEF Capacity
<1>3. DOMAIN Live(L) = {} /\ DOMAIN stash[L] = {}
  BY <1>1 DEF Init, NoToken, EmptyMap, Live, Overlay, Without
<1>4. Stored = [a \in Addr |-> Zero]
  BY <1>3, StoredHeld DEF Held, Keys
<1> QED BY <1>1, <1>2, <1>4 DEF Store!Init

(* Every call has the effect and the result of the array: a read returns   *)
(* the value written last to its address, zero if none was, whatever calls *)
(* with whatever protocol and whatever SetL came between.  NumbersFit is   *)
(* needed: with block numbers beyond it a read returns another value.      *)
THEOREM ImplementsBlockStore ==
  ASSUME NumbersFit
  PROVE  Spec => IsBlockStore
<1>1. SearchIInv /\ SearchIInv' /\ [Next]_vars => [Store!Next]_(Store!vars)
  BY StoreNext
<1> QED
  BY <1>1, StoreInit, SearchAlways, PTL DEF Spec, IsBlockStore

-----------------------------------------------------------------------------
(* The decode error.  Without SetL no tree but the first has a root alone, *)
(* and tree 1 has its one block: a header that is read alone is that of    *)
(* tree 1, and it has a node for the key that is looked up.                *)
Rooted(i, t) ==
  <<>> \in DOMAIN t =>
    IF i = 1 THEN 0 \in DOMAIN t[<<>>].blocks
             ELSE \A s \in Sides : <<s>> \in DOMAIN t

RootInv ==
  /\ L = InitL
  /\ \A i \in 1..L : Rooted(i, oram[i]) /\ Rooted(i, pending[i])
  /\ pc = "evict" /\ i_tree = 1 =>
       IF l = 0 THEN Rooted(1, sf[1]) ELSE 0 \in DOMAIN stash[1]
  /\ pc = "finish" => Rooted(1, sf[1])
  /\ pc \notin {"idle", "build"} => tokens[1].a = 0 /\ tokens[1].b \in Sides

LEMMA RootedOverlay ==
  ASSUME NEW i, NEW f, NEW g, Rooted(i, f), Rooted(i, g)
  PROVE  Rooted(i, Overlay(f, g))
BY DEF Rooted, Overlay

LEMMA RootedEmpty ==
  ASSUME NEW i
  PROVE  Rooted(i, EmptyMap)
BY DEF Rooted, EmptyMap

LEMMA SecondLevel ==
  ASSUME NEW y \in Path, Len(y) >= 1
  PROVE  y[1] \in Sides /\ P(y, 2) = <<y[1]>>
<1>1. y[1] \in Sides
  BY DEF Path
<1>2. Len(P(y, 2)) = 1 /\ P(y, 2)[1] = y[1] /\ P(y, 2) \in Seq(Sides)
  BY DEF P, Path
<1> QED
  BY <1>1, <1>2

LEMMA RootInit == Init => RootInv
BY RootedEmpty DEF Init, RootInv, NoToken

LEMMA RootShuffled ==
  ASSUME TypeInv, RootInv, NEW token,
         \A i \in 1..L : Rooted(i, token[i])
  PROVE  \A i \in 1..L : Rooted(i, Shuffled(token)[i])
BY RootedOverlay DEF Shuffled, RootInv

(* The token of the last tree: what is left of the address is its block.   *)
LEMMA RootBuildToken == TypeInv /\ AddressInv /\ RootInv /\ BuildToken => RootInv'
<1> SUFFICES ASSUME TypeInv, AddressInv, RootInv, BuildToken PROVE RootInv'
  OBVIOUS
<1>1. /\ pc = "build" /\ aa \in Nat /\ UNCHANGED <<L, pending>>
      /\ 1 \in 1..L /\ DOMAIN tokens = 1..L
  BY DEF BuildToken, client, TypeInv, TypeOK
<1>2. \A i \in 1..L : Rooted(i, oram'[i])
  <2>1. oram' = oram \/ oram' = Shuffled(pending)
    BY DEF BuildToken
  <2> QED BY <2>1, RootShuffled DEF RootInv
<1>3. CASE i_tree > 1
  BY <1>1, <1>2, <1>3 DEF BuildToken, RootInv, TypeInv, TypeOK
<1>4. CASE i_tree = 1
  <2>1. aa < 2
    BY <1>1, <1>4, PowSmall DEF AddressInv
  <2>2. aa \div 2 = 0 /\ aa % 2 \in Sides
    BY <1>1, <2>1 DEF Sides
  <2>3. tokens'[1].a = aa \div 2 /\ tokens'[1].b = aa % 2
    BY <1>1, <1>4 DEF BuildToken
  <2>4. pc' = "read"
    BY <1>4 DEF BuildToken
  <2> QED BY <1>1, <1>2, <2>2, <2>3, <2>4 DEF RootInv
<1> QED
  BY <1>3, <1>4 DEF BuildToken

LEMMA RootRemap ==
  ASSUME TypeInv, AddressInv, RootInv,
         NEW new_x, RemapData(new_x) \/ RemapPointer(new_x)
  PROVE  RootInv'
<1>1. PICK d : stash' = [stash EXCEPT ![i_tree] = Overlay(@, NewBlock(d, new_x))]
  BY RemapStash
<1>2. /\ pc = "remap" /\ pc' = "evict" /\ l' = i_tree /\ aa \in Nat
      /\ DOMAIN stash = 1..L /\ 1 \in 1..L
      /\ UNCHANGED <<L, oram, pending, i_tree, tokens>>
  BY DEF RemapData, RemapPointer, Remap, server, TypeInv, TypeOK
<1>3. ASSUME i_tree = 1
      PROVE  l' # 0 /\ 0 \in DOMAIN stash'[1]
  <2>1. aa < 2
    BY <1>2, <1>3, PowSmall DEF AddressInv
  <2>2. aa \div 2 = 0
    BY <1>2, <2>1
  <2>3. 0 \in DOMAIN Overlay(stash[1], NewBlock(d, new_x))
    BY <2>2 DEF Overlay, NewBlock
  <2> QED BY <1>1, <1>2, <1>3, <2>3
<1> QED
  BY <1>2, <1>3 DEF RootInv

LEMMA RootEvictLevel ==
  ASSUME TypeInv, SizeInv, FirstInv, RootInv, EvictLevel
  PROVE  RootInv'
<1>1. /\ pc = "evict" /\ pc' = "evict" /\ l \in Nat \ {0} /\ l' = l - 1
      /\ l <= i_tree /\ 1 \in 1..L /\ DOMAIN stash = 1..L /\ DOMAIN sf = 1..L
      /\ UNCHANGED <<L, oram, pending, i_tree, tokens>>
  BY DEF EvictLevel, server, TypeInv, TypeOK, ShapeInv
<1>2. CASE i_tree # 1
  BY <1>1, <1>2 DEF RootInv
<1>3. CASE i_tree = 1
  <2> DEFINE p == P(x, l)
             stay(S) == [a \in S |-> stash[1][a]]
  <2>1. l = 1 /\ l' = 0 /\ 0 \in DOMAIN stash[1]
    BY <1>1, <1>3 DEF RootInv
  <2>2. PICK S \in Evicted(p) :
          /\ stash' = [stash EXCEPT ![1] = Without(@, S)]
          /\ sf' = [sf EXCEPT ![1] = Overlay(@, AddPathNodes(p, stay(S)))]
    BY <1>3 DEF EvictLevel
  <2>3. DOMAIN stash'[1] = {}
    BY <1>3, <2>1, RootTakesAll
  <2>4. 0 \in S
    BY <1>1, <2>1, <2>2, <2>3 DEF Without
  <2>5. p = <<>>
    BY <2>1 DEF P, TypeInv, TypeOK, Path
  <2>6. sf'[1][<<>>].blocks = stay(S)
    BY <1>1, <2>2, <2>5 DEF Overlay, AddPathNodes, BuildBucket
  <2>7. Rooted(1, sf'[1])
    BY <2>4, <2>6 DEF Rooted
  <2> QED BY <1>1, <2>1, <2>7 DEF RootInv
<1> QED
  BY <1>2, <1>3

(* The token built, whole: its root has both children in a tree of several *)
(* levels.                                                                 *)
LEMMA RootFinish ==
  ASSUME TypeInv, TokenInv, RootInv, Finish
  PROVE  RootInv'
<1>1. /\ pc = "finish" /\ pc' = "idle" /\ L' = L /\ L \in Nat \ {0}
      /\ DOMAIN sf = 1..L
      /\ \/ oram' = oram /\ pending' = sf
         \/ oram' = Shuffled(sf) /\ pending' = pending
  BY DEF Finish, TypeInv, TypeOK
<1>2. ASSUME NEW i \in 1..L PROVE Rooted(i, sf[i])
  <2>1. CASE i = 1
    BY <1>1, <2>1 DEF RootInv
  <2>2. CASE i # 1
    <3> DEFINE y == leaf_accessed[i]
    <3>1. y \in Path /\ Len(y) = i - 1 /\ i \in Nat /\ 2 \in 1..i
      BY <1>1, <2>2, LeafIsPath DEF TypeInv, ShapeInv
    <3>2. DOMAIN sf[i] = Nodes(y, 1, i)
      BY <1>1 DEF TokenInv, From, Rebuilt
    <3> HIDE DEF y
    <3>3. {P(y, 2), GetSibling(P(y, 2))} \subseteq DOMAIN sf[i]
      BY <3>1, <3>2 DEF Nodes
    <3>4. P(y, 2) = <<y[1]>> /\ y[1] \in Sides
      BY <3>1, <2>2, SecondLevel
    <3>5. GetSibling(<<y[1]>>) = <<1 - y[1]>>
      BY <3>4 DEF GetSibling, Sides
    <3>6. \A s \in Sides : s = y[1] \/ s = 1 - y[1]
      BY <3>4 DEF Sides
    <3>7. \A s \in Sides : <<s>> \in DOMAIN sf[i]
      BY <3>3, <3>4, <3>5, <3>6
    <3> QED BY <2>2, <3>7 DEF Rooted
  <2> QED BY <2>1, <2>2
<1>3. \A i \in 1..L : Rooted(i, Shuffled(sf)[i])
  BY <1>2, RootShuffled
<1> QED
  BY <1>1, <1>2, <1>3 DEF RootInv

LEMMA RootNext ==
  ASSUME MaxL = InitL, ContentsIInv, TokenInv, RootInv, [Next]_vars
  PROVE  RootInv'
<1>0. TypeInv /\ SizeInv /\ AddressInv /\ FirstInv
  BY DEF ContentsIInv, MaskIInv
<1>1. CASE /\ UNCHANGED <<L, oram, pending, tokens>>
           /\ pc' \notin {"evict", "finish"}
           /\ pc' \in {"idle", "build"} \/ pc \notin {"idle", "build"}
  BY <1>1 DEF RootInv
<1>2. CASE BuildToken
  BY <1>0, <1>2, RootBuildToken
<1>3. ASSUME NEW new_x, RemapData(new_x) \/ RemapPointer(new_x)
      PROVE  RootInv'
  BY <1>0, <1>3, RootRemap
<1>4. CASE EvictLevel
  BY <1>0, <1>4, RootEvictLevel
<1>5. CASE EndOfTree
  BY <1>5 DEF EndOfTree, server, client, RootInv
<1>6. CASE Finish
  BY <1>0, <1>6, RootFinish
<1>7. CASE Complete
  <2>1. /\ pc = "idle" /\ pc' = "idle" /\ L' = L
        /\ oram' = Shuffled(pending) /\ pending' = NoToken
    BY <1>7 DEF Complete
  <2>2. \A i \in 1..L : Rooted(i, oram'[i])
    BY <1>0, <2>1, RootShuffled DEF RootInv
  <2> QED BY <2>1, <2>2, RootedEmpty DEF RootInv, NoToken
<1>8. ASSUME NEW m_L \in InitL..MaxL, SetL(m_L)
      PROVE  FALSE
  BY <1>8, ConstantAssumption DEF SetL, RootInv
<1>9. CASE UNCHANGED vars
  BY <1>9 DEF vars, server, client, call, local, RootInv
<1>10. ASSUME NEW o, NEW a, NEW v, NEW one, Begin(o, a, v, one)
       PROVE  RootInv'
  BY <1>10 DEF Begin, server, client, RootInv
<1>11. ASSUME NEW a, NEW v, Reject(a, v)
       PROVE  RootInv'
  BY <1>11 DEF Reject, server, client, local, RootInv
<1>12. CASE ReadBucket \/ EndOfPath \/ ProbeHit \/ ProbeMiss \/ ProbeEnd
            \/ WriteResponseToStash
  BY <1>1, <1>12 DEF ReadBucket, EndOfPath, ProbeHit, ProbeMiss, ProbeEnd,
     SearchNextTree, WriteResponseToStash, server, client
<1> QED
  BY <1>2, <1>3, <1>4, <1>5, <1>6, <1>7, <1>8, <1>9, <1>10, <1>11, <1>12
     DEF Next, Caller, Step

(* One header was read and gave nothing: it is not the root's of tree 1,   *)
(* for the key is that of block 0, nor another tree's.                     *)
LEMMA SilentProbeEnd ==
  ASSUME ContentsIInv, SearchKeyInSync, RootInv, ProbeEnd, ~decodeError
  PROVE  ~decodeError'
<1>0. TypeInv /\ ReadInv
  BY DEF ContentsIInv, MaskIInv
<1>1. /\ pc = "probe" /\ l = Len(Headers) + 1
      /\ i_tree \in 1..L /\ i_tree < L /\ L \in Nat
      /\ accessed[i_tree] \in Seq(Path)
  BY <1>0 DEF ProbeEnd, TypeInv, TypeOK, ShapeInv
<1> SUFFICES ASSUME Len(Headers) = 1 PROVE ReadNodePosition(Header(1), searchKey) # {}
  BY DEF ProbeEnd
<1> DEFINE y == leaf_accessed[i_tree]
<1>2. ReadBelow(i_tree, y, 0)
  BY <1>0, <1>1 DEF ReadInv, Searched
<1>3. y \in Path /\ Len(y) = i_tree - 1
  BY <1>0, <1>1, LeafIsPath DEF TypeInv, ShapeInv
<1> HIDE DEF y
<1>4. Headers[1] = <<>> /\ <<>> \in DOMAIN oram[i_tree]
  <2>1. Headers[1] = P(y, 1)
    BY <1>1, <1>2 DEF ReadBelow, Headers
  <2>2. P(y, 1) = <<>>
    BY <1>3 DEF P, Path
  <2>3. Headers[1] \in DOMAIN oram[i_tree]
    BY <1>0, <1>1 DEF Headers, TypeInv, ShapeInv
  <2> QED BY <2>1, <2>2, <2>3
<1>5. CASE i_tree # 1
  <2>1. 2 \in 1..i_tree /\ P(y, 2) = <<y[1]>> /\ y[1] \in Sides
    BY <1>1, <1>3, <1>5, SecondLevel
  <2>2. P(y, 2) \in DOMAIN oram[i_tree]
    BY <1>1, <1>4, <1>5, <2>1 DEF RootInv, Rooted
  <2>3. 2 <= Len(Headers)
    BY <1>2, <2>1, <2>2 DEF ReadBelow, Headers
  <2> QED BY <2>3
<1>6. CASE i_tree = 1
  <2> DEFINE bkt == Header(1)
             b == tokens[1].b
  <2>1. bkt = oram[1][<<>>] /\ 0 \in DOMAIN bkt.blocks /\ b \in Sides
    BY <1>1, <1>4, <1>6 DEF Header, RootInv, Rooted
  <2>2. searchKey = ClientBuildSearchKey(0, b, bkt.M)
    BY <1>1, <1>6 DEF SearchKeyInSync, RootInv
  <2> HIDE DEF bkt, b
  <2>3. <<0, b>> \in {k \in (DOMAIN bkt.blocks) \X Sides :
                        searchKey = ClientBuildSearchKey(k[1], k[2], bkt.M)}
    BY <2>1, <2>2
  <2>4. ReadNodePosition(bkt, searchKey) # {}
    BY <2>3 DEF ReadNodePosition
  <2> QED BY <2>4 DEF bkt
<1> QED
  BY <1>5, <1>6

(* As long as the height is never changed, the diagnostic of LLORAM.h:894  *)
(* is silent, for every height, address and sequence of calls.  After      *)
(* SetL it is not: a tree put in front has its root alone.                 *)
THEOREM DecodingSilent ==
  ASSUME MaxL = InitL
  PROVE  Spec => []NoDecodeError
<1> DEFINE IInv == ContentsIInv /\ SearchKeyInSync /\ TokenInv /\ RootInv
                   /\ ~decodeError
<1>1. Init => IInv
  BY ContentsInductive, TokenInit, RootInit DEF Init, SearchKeyInSync
<1>2. IInv /\ [Next]_vars => IInv'
  <2> SUFFICES ASSUME IInv, [Next]_vars PROVE IInv'
    OBVIOUS
  <2>1. MaskIInv /\ TypeInv /\ ReadInv
    BY DEF ContentsIInv, MaskIInv
  <2>2. ContentsIInv' /\ SearchKeyInSync' /\ TokenInv' /\ RootInv'
    BY <2>1, ContentsInductive, KeyNext, TokenNext, RootNext
  <2>3. ~decodeError'
    <3>1. ProbeEnd => ~decodeError'
      BY SilentProbeEnd
    <3> QED
      BY <3>1 DEF Next, Caller, Step, vars, local, Begin, Reject, Complete, SetL,
         BuildToken, ReadBucket, EndOfPath, ProbeHit, ProbeMiss,
         WriteResponseToStash, RemapData, RemapPointer, Remap, EvictLevel,
         EndOfTree, Finish
  <2> QED BY <2>2, <2>3
<1>3. IInv => NoDecodeError
  BY DEF NoDecodeError
<1> HIDE DEF IInv
<1> QED
  BY <1>1, <1>2, <1>3, PTL DEF Spec

=============================================================================
