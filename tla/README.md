# A TLA+ model of LLORAM

LLORAM (`src/LLORAM`) is a recursive oblivious RAM written in C++: a client keeps a few masks and
stashs, a server keeps `L` binary trees of encrypted buckets, and every read or write of an address
walks one path of each tree and rewrites it. This directory models the client, the server and the
protocol between them, checks the model with TLC and proves facts about it with TLAPS.

## The system

| component | state | operations | interacts with |
|---|---|---|---|
| `LLORAM<T>`, client side (`LLORAM.h`) | `L`, `roots[].Mask`, `stashs`, `stash_L`, `capacity`, the write-back token of the single-round protocol | construction, `SetL`, `access`, `single_round_access`, `single_round_access_complete`, `read`, `write`; inside them `BuildORAMRequest`, `BuildShuffleToken` | sends search tokens and shuffle tokens to the server side |
| `LLORAM<T>`, server side (`LLORAM.h`) | `oram[i]`: path -> bucket (header and encrypted tail) | `Search`, `Shuffle` | answers with the paths read and their siblings |
| `CPath64` | a node number | numbers, paths, leaves, `MapToRandomLeaf` | used by `Search` and `BuildShuffleToken` |
| debug checks and dumps (`LLORAM.h`) | none | `DebugCheckNodes`, `DebugCheckORAMIntegrity`, `dump*` | read everything |
| tail codec and AES (`ToTail`, `ToETail`, `myAES`) | the AES key and the global counter of groups | encode and encrypt, decrypt and decode | every bucket the client reads or writes |
| `OHashTable` | an `LLORAM<R>` of cells of 4 entries | `read`, `write`, `deleteByKey`, `resize` | reads and writes cells of the ORAM |
| `Myhastable` | up to 64 byte buckets | `Add`, `ContainsKey`, `ReadValue`, save and load | stand-alone |
| `LLORAM1024` | an `LLORAM<S1024>` | `write`, `Read` | read-modify-write of one block |
| `common.cpp` | none | integer paths, random arrays, `IntToStr`, `rand64` | `IntToStr` and `rand64` are used by `LLORAM.h` |
| the hash object (`BLAKE2_Base` of Crypto++; `myhash`) | compression state, counter, buffer of up to one block | `Update`, `TruncatedFinal`, `Restart`, `SetTreeMode` | global objects behind `H1`, `H28` and the keys of `OHashTable` |
| the rest of Crypto++ | | the compression function, AES, everything unused | `myAES`, the hash object |
| `OldPathORAM`, `encryption.cpp`, `testClass`, `TestApp` | | | dead code, unused helpers, tests and demonstration |

Everything runs in one thread and one process; "client" and "server" are methods of one object.
What is hard is therefore not concurrency but **long sequences of calls that keep many copies of
one fact in step**:

* a block of tree `i + 1` is where the pointer in tree `i` says, or above it on the same path, while
  each access moves it, the pointer and their buckets;
* a header can be read only with the key `H(a, b) XOR M`, and the server obtains the next bucket's
  key by XORing `mmf = M XOR Mf` along the path; every bucket whose father's mask changed must be
  rebuilt in the same access, the siblings of the path included;
* the single-round protocol sends the rebuilt path of one access with the request of the next, so
  client and server are one access apart;
* `SetL` adds trees *in front*: the numbers of all trees change, their leaves become inner nodes and
  the new trees have pointers that were never written by an access;
* blocks move from bucket to response, stash, token and bucket again and must neither vanish nor
  be doubled;
* arithmetic: numbers as paths, `double` powers of two, 64-bit numbers formatted as `int`, sizes that
  are not multiples of a block;
* global objects (hash object, AES counter) whose state outlives the message it belongs to.

PROJECT.json lists each of these hazards at its line with the properties that would catch it.

## Modules

| module | what it is |
|---|---|
| `BlockStore.tla` | What an `LLORAM<T>` promises its caller: an array of values, zero at first, that can grow. A call takes effect once, between its invocation and its return. |
| `LLORAM.tla` | The recursive ORAM, client and server, both protocols and `SetL`. It implements `BlockStore` (`Store == INSTANCE BlockStore WITH ...`). |
| `MCLLORAM.tla` | Instances for TLC: the protocols used, a view and a state constraint (below). |
| `MCReads.tla` | `LLORAM` with the history of what was written to each address, for the run `int_addresses`. |
| `NaturalLemmas.tla` | Least and greatest elements, induction and recursion, powers of two, quotient and remainder, for the proofs. |
| `LLORAMProofs.tla` | The buckets of the trees: types, tree shape, blocks on their paths, masks and search keys, how many blocks a bucket has and that the stashs are drained. |
| `LLORAMSearchProofs.tla` | The blocks: no block twice, none lost, pointers, the search, the refinement of `BlockStore`, and when the search reports no error. |
| `CPath64.tla` | Node numbers, paths and leaves, with the unsigned and the `double` arithmetic of the code, and the walk of `MapToRandomLeaf`. It justifies that `LLORAM.tla` takes nodes and leaves as paths. |
| `PairStore.tla` | What an `OHashTable` promises: a bag of (key, value) pairs. |
| `OHashTable.tla`, `MCOHashTable.tla` | Open addressing in the cells of a `BlockStore`, one action per access. It implements `PairStore`. |
| `OHashTableProofs.tla` | That refinement, except its liveness, and where pairs are. |
| `LLORAM1024.tla`, `LLORAM1024Proofs.tla` | Numbers packed in the blocks of a `BlockStore`. It implements another `BlockStore`, of numbers, which is proved except its liveness. |
| `HashFunction.tla` | What a hash object promises: the digest of the bytes given since the last restart. |
| `Blake2.tla` | The hash object: buffer, byte counter, key, final flag. It implements `HashFunction`. |
| `MCRestart.tla` | `Blake2` with the history of the last call, for the run `refused_digest`. |
| `BucketTail.tla` | How a bucket's mask and blocks become groups of AES and come back. |
| `MCCrypto.tla` | `Blake2` and `BucketTail` together: in its run a caller uses the one or the other. It has the assumption on `BucketTail`'s constants. |
| `CryptoProofs.tla` | The refinement of `HashFunction`, except its liveness, and that the last block waits; that tails come back, ciphertexts are equal only a round of the counter apart, and fit. |
| `Myhashtable.tla`, `MCMyhashtable.tla` | `Myhastable`: probing, the zero key, the probe limit, saving, loading, and the process ending while it saves. |
| `MyhashtableProofs.tla` | That entries are found, counted and independent, for every table. |
| `IntPath.tla` | The int encoding of paths in `common.cpp`: functions compared with what they say of sequences of bits. |
| `RandomArrays.tla` | `RandomArrayWithExclusion`: numbers drawn and looked up until one is free. |
| `MCPaths.tla` | `CPath64`, `IntPath` (`Ints`) and `RandomArrays` (`Arrays`) together. In its run a caller maps a node to a leaf; after the one node of the lowest tree it goes on to the functions of `IntPath`, then draws an array. It has the assumptions on the constants of `IntPath` and `RandomArrays`. |
| `PathProofs.tla` | The properties of `CPath64` and `IntPath`, for words of every width. |

The modules compose as the code does: `LLORAM` implements `BlockStore`; `OHashTable` and
`LLORAM1024` run a `BlockStore` (`Oram == INSTANCE BlockStore WITH ...`), whose steps are theirs, and
implement what their own callers may expect.

Operators named `X_Something` after a comment "Slip:" are plausible bugs in the definition `X` that
follows. They are not used by any specification; replacing `X` by its slip makes the property that
PROJECT.json names fail, which shows that the property depends on that code.

### How `LLORAM.tla` corresponds to the code

One action per handler or loop iteration, so that invariants speak of the middle of the loops too.
`pc` is the place in the code:

| `pc` | action | code |
|---|---|---|
| `idle` | `Begin`, `Reject` | `access`, `single_round_access` and their range check |
| | `Complete` | `single_round_access_complete` |
| | `SetL` | `SetL`, `initClient` |
| `build` | `BuildToken` | one iteration of `BuildORAMRequest`; at the last one the server applies the pending token (`single_round_process_request`) |
| `read` | `ReadBucket`, `EndOfPath` | the loop of `Search` over the levels of a path |
| `probe` | `ProbeHit`, `ProbeMiss`, `ProbeEnd` | the loop of `Search` over the headers, and the choice of the next leaf |
| `absorb` | `WriteResponseToStash` | `WriteResponseToStash` |
| `remap` | `RemapData`, `RemapPointer` | the head of the loop of `BuildShuffleToken` over the trees: new masks, new leaf, the stashed block |
| `evict` | `EvictLevel`, `EndOfTree` | the loop over the levels: blocks that stay, the bucket and its sibling (`AddPathNodes`) |
| `finish` | `Finish` | `Shuffle` (two rounds) or keep the token (single round) |

State: `oram[i]` is a function from paths to buckets `[M, mmf, blocks]`, `blocks` a function from
block numbers to `[data, node]`, `data` the pair `data`, `data1`. `stash[i]` is `stashs[i - 1]`, and
`stash[L]` is `stash_L` (`stashs[L - 1]` is never used). `pending` is
`client_side_shuffle_token_for_single_rounnd`, `sf` the token under construction.

Abstractions:

* A node number is the path it stands for; `CPath64.tla` checks the numbering. A leaf of tree `i` is
  a path of length `i - 1`. Number -1 is `NoNode`.
* Hashes are ideal. `Mem20` values are sets of independent random values, XOR is symmetric
  difference, `H1` of an encoded address is a value of its own, and `H28` is one-to-one, so that
  a header is the set of pairs (search key, node) of its bucket: `ReadNodePosition` derives them.
  The new mask of a node only has to differ from the present one, so masks of a node alternate
  between two values.
* `EncodeAddress` keeps what `IntToStr(int)` keeps, the number modulo `IntRange`.
* Dummy blocks are not stored: a bucket with `n < Z_block` blocks has dummies at places `n..` with
  numbers `-(n + 1), ...` and pointers 0 (`Dummies`), whose keys hide equal keys of earlier places
  (`ReadNodePosition`). `initClient` numbers the dummies of a new root bucket from -1 instead; the
  difference is only visible to a block number that the `int` conversion maps to a negative one.
* The new leaves are drawn tree by tree where they are used; the code draws them all before
  (`InitNewPositions`), which no step in between can see.
* The order of an `unordered_map` is any order: the blocks that fit a bucket are any `Z_block` of
  the candidates.
* Encryption, byte counts, printing and debug flags are left out. `getchar()` after a message is
  taken as returning.
* `SetL(m)` with `m = L` changes nothing and is a stuttering step; with `m < L` it prints and
  returns. The constructor's refusal of `m_L > 64` is left out.
* A caller's rule, not the code's: a pending single-round token is completed before a two-round
  access or `SetL` (the comment at TestApp.cpp:184).

### How the other modules correspond to the code

**`CPath64.tla`.** A number is a `Width`-bit unsigned; `PowMinus1` rounds as a `double` with a
`Mantissa`-bit significand does. `Init`, `Down` and `AtLeaf` are `MapToRandomLeaf`; the other
operators are the methods of the same names. `Capacity` is the number that `initClient` computes and that
`access` compares the address with.

**`OHashTable.tla`.** `pc` is the access that an operation is at: `probe` and `read` are
`pathoram.read(a)`, `change` and `write` the `pathoram.write(a, r)` that follows. `Call` begins
`read`, `write` or `deleteByKey`; `NextCell` adds `j*j*j` to the address; `GiveUp` is the end of the
loop after `capacity` tries. A key stands for its hash `c1` (Blake2b, taken to be one-to-one and
never `memEmpty` or `memDeleted`); `Hash[k]` is the word that the first address is made of. `Resize`
grows the store and leaves the pairs where they are, which is what the code has done when it throws.
The arithmetic keeps its width: `a` is an `unsigned long long` (`WordRange`), `j*j*j` an `int` (`IntRange`) that
overflows from j = 1291 on, so in tables of L >= 11. The overflow is undefined in C++; the project is built
with Visual C++ for x64, whose multiplication wraps, and `Cube` is the wrapped product, sign-extended to the
word it is added to. `j` itself counts the cells, so a table has fewer than 2^31 of them
(`TableAssumption`). `Probe(k, n)` is the n-th cell of this walk, by recursion on n; only properties and
proofs use it.

**`LLORAM1024.tla`.** `Start` begins `write` or `Read` with the read of the block; `WriteBack` is the
write of the changed block; `Refused` is an address whose block the `LLORAM` refuses.

**`Myhashtable.tla`.** `bucket[i]` are the slots of a bucket, `Ends(k)` the probes at which the loop
of `Add`, `ContainsKey` or `ReadValue` stops. `SaveToFile`, `SaveBucket` and `CloseFile` are the
header, each `fwrite` of a bucket and the `fclose`; `Restart` is the end of the process, at any of
them, and the construction of the next table. What `stdio` has written by then is any number of
whole buckets and any number of slots of one more. `cut` remembers that the table came from such a
file.

**`Blake2.tla`.** `Update` is the call; `CompleteBlock`, `CompressInput` and `CopyTail` are its three parts
(fill the buffer and compress it, compress blocks where they are, keep the rest), the middle one a block
per step. `TruncatedFinal` compresses what waits, with the flag, and restarts; `Refused` is a digest
size that is too large, which throws before anything changes. `h` records what the compression function was
given, so two digests are equal only if every block, counter and flag is. The parameter block is
constant (nobody in the repository sets salt or personalization) and `Restart` with another one is left
out. The `memset`-free constructor leaves the buffer undefined: `Init` allows any bytes.

**`BucketTail.tla`.** `ToETail` is the call, `EncryptGroup` one iteration of `myAES::Encrypt`, `Return` the rest.
`Decrypt` and `ToTail` are pure. An AES block is the pair of group and counter. The counter is an `int` that
overflows; what is encrypted are its four bytes, so it is a number modulo `CounterRange`.

**`IntPath.tla`.** An int is a word of `W` bits. The state is the vector of ints a caller collects;
the functions are operators on it.

**`RandomArrays.tla`.** `Pick`, `Skip` and `Push` are the statements of the loop of
`RandomArrayWithExclusion`. `rand32()` is any int, so the remainders may be negative and the index
`r` may be out of the array; what is read there is any value of `Junk`.

## Runs

| run | instance | checks |
|---|---|---|
| `two_trees` | L from 1 to 2, Z = 2, addresses 0, 1, 2, two values, both protocols, read and write, no view | `IsBlockStore` (the refinement), `CallsReturn` (its liveness), `NoBlockLost` |
| `three_trees` | L from 2 to 3, Z = 1, addresses 1 and 5, two rounds | `OneCopy`, `BlocksOnPath`, `PointersAgree`, `SearchReachesBlock`, `StashDrained`, `BucketBound` |
| `masks` | L = 4, Z = 1, address 0, both protocols, one path in tree 4 | `TypeInv`, `TreeShape`, `MaskChain`, `SearchKeyInSync`, `NoDecodeError` |
| `paths` | 6-bit words, exact doubles, every node and height; every vector of up to three 5-bit words; three of six numbers, three excluded, two values of `Junk` | `NumbersArePaths`, `EvictionComparesPaths`, `LeafBelowNode`, `AddressesFit`, `WalkEnds`; `PathsSurvive`, `OverlapIsLongest`, `CommonBeginning`; `Ends` |
| `hash_table` | two keys, two values (one is what a failed read returns), cells of one pair, 3 cells growing to 7, ints of 16 values and addresses of 64 | `EntriesOnProbePath`, `DroppedOnlyWhenFull`, `IsPairStore`, `CallsReturn`, `TypeOK` |
| `packed_array` | two blocks of two numbers, two values | `IsArray` with liveness, `TypeInv` |
| `crypto` | blocks of two bytes, messages of up to five bytes, the key's block included, a counter word of four values, with a key and without; two tails of one or two blocks of three bytes, groups of two bytes, a counter of five values | `LastBlockWaits`, `IsHashFunction` with liveness; `TailsSurvive`, `CiphertextsDiffer`, `OutputFits` |
| `myhashtable` | three slots, two probes, the zero key and two others, tables of one and two buckets | `EntriesAreFound`, `CountsEntries`, `AddSetsOneKey`, `TypeOK` |

Why the bounds are enough to be of interest:

* *Heights.* With two trees the recursion has one pointer and one data tree; with three, a tree is
  both pointed to and pointing. A header chain of more than two masks needs tree 3 to have headers,
  hence L = 4 in `masks`; tree 4 has none, so one of its paths is enough (`OnePathInTree4`).
* *Addresses.* In `two_trees`, 0 and 1 are the two sides of one block, 2 is in another and is refused before
  `SetL` and accepted after. In `three_trees`, blocks of addresses 1 and 5 share tree 1's root only and
  compete for buckets of one block in trees 2 and 3: the root overflows, blocks stay above their leaf, an
  access removes the other address's block and puts it back. After `SetL`, address 1 is reached by a
  pointer that `initClient` wrote and address 5 was never written.
* *View.* `MaskView`, a VIEW of all LLORAM runs but `two_trees` (a view is not sound for liveness), identifies states that differ only by
  exchanging the two values a node's mask alternates between, for some nodes of some trees. Nothing
  but equality of masks is ever tested, so such an exchange maps behaviours to behaviours and no
  property sees it.
* *Hash tables.* The two keys' probe paths overlap partly, in three cells and in seven, so that each
  finds cells the other filled, freed or never uses, and there is a free cell beyond one key's path. In
  seven cells five of the seven cubes overflow an `int` of 16 values, four of them to negative numbers.
  In `myhashtable` both start at one slot and only `k1` has a second one: one goes round the other or
  finds no room. Its probe limit (`LastProbe`) is 1 for the code's 50000. `MBound` stops the
  counter `M`, which a table loaded from a cut-off file may raise above its entries.
* *Words.* In `paths`, in 5 bits there are paths of every length, the empty path has both its codes, and three of
  them are two that differ and one between. In 6 bits `CPath64` has trees of up to six levels.
* *Bytes.* In `crypto` the hash object's counter's low word wraps within a message, so its carry is set, comes to 0 and
  is cleared. A tail of one block fills its groups exactly and one of two blocks is padded;
  two tails have up to eight groups, so the counter wraps between and within them.
* *Random numbers.* Three excluded of six leave exactly the three wanted, so the search has to find
  the last free number.

Deadlock is checked, except in `paths`, `crypto` and `overlap_comments`: these computations stop when
they are done (`CHECK_DEADLOCK FALSE` in their configurations).

Runs that show a disagreement between the code and its comments or tests:

| run | what it shows |
|---|---|
| `resize_decode_error` | After `SetL`, looking up a new address in an added tree of one bucket prints "decode error!" and waits for a key, though nothing is wrong: the premise of the comment at LLORAM.h:894 does not hold for trees made by `initClient`. |
| `int_addresses` | `EncodeAddress` uses `IntToStr(int)`. When block numbers do not fit (2^32 of them, L = 34, in the code; an `int` of two values in the run), the key of a block equals that of a dummy, and the dummy's pointer is followed. In the trace `write(4, 1)` returns and the `read(4)` after it returns 0. |
| `overlap_comments` | `GetOverlapPath` does not return 0 for a path that fills the int among shorter ones, as common.cpp:530 says (the check is commented out, 561-568), and `GetOverlapedLongestPath` does not return 0 for paths that differ, as common.cpp:590 says, but their common beginning. The property is that one of the two comments is right of all vectors a caller collects; the trace refutes the first with two paths and the second with a third. |
| `refused_digest` | A digest whose size is refused leaves the message in the hash object, though cryptlib.h:1183 says that `CalculateTruncatedDigest` restarts it: `TruncatedFinal` throws first (blake2.cpp:399). `HashFunction` promises what the code does. |

Observed while modelling and not settled by a run:

* CPath64.cpp:85: `pow(2, height-1) - 1` is rounded up in `double` for heights above 54, and
  `MapToRandomLeaf` then returns a number that is not a leaf below the node. With `Mantissa` smaller
  than `Width - 1`, `LeafBelowNode` fails.
* `GetFatherNumber` returns `n / 2`, but CPath64.h:25 numbers the children `2i + 1` and `2i + 2`.
* LLORAM.h:514: `capacity` is one too large for L above 53, where the `double` is no longer exact.
* OHashTable.h:121: `write` drops a pair although cells are free, because adding cubes does not visit
  every cell. The printed "at most 10 tries" (OHashTable.h:66, 98, 128) are `capacity` tries.
* common.cpp:489, 503: `GetFatherIntPath` removes the last but one bit of the path.
* common.cpp:859, 866, 871: `RandomArray` may give a number twice, since `rand32() % n` may be
  negative. Nothing calls it.
* common.cpp:556: the length of an empty path is 0, and an `int` is shifted by its whole width, undefined in
  C++; the model takes what x86 does, a shift by 0.

### Fairness

`LLORAM`, `OHashTable`, `LLORAM1024` and `Blake2` have `WF_vars(Step)`: once a call is made, its code runs,
because nothing else runs in the process. Nothing is assumed of callers, and nothing of random choices
(every leaf choice is allowed forever). The abstract specifications say the same: `BlockStore` that a call
takes effect and returns (`Fairness`), `PairStore` and `HashFunction` that it returns. `CPath64` and
`RandomArrays` have `WF_vars(Next)`: one loop in one thread. `Myhashtable` and `IntPath` have no fairness and
no liveness property: their operations are single steps. `BucketTail` has none either: its loop counts up
to a number that does not change.

## Proofs

All theorems hold for every value of the constants that the modules' own assumptions allow
(`ConstantAssumption`, `PackingAssumption`, `TableAssumption`, ...). One more condition, `NumbersFit`,
is a hypothesis of the theorems about blocks: `(a \div 2) \div 2 + Z_block < IntRange` for every address,
so that `IntToStr(int)` gives two block numbers of a pointer tree, or a number and a dummy's, different
strings. The run `int_addresses` violates it, and the conclusion with it.

**The trees** (`LLORAMProofs`). The invariants are found in this order, each resting on those before:

1. *Types.* `TypeCorrect`: `Spec => []TypeInv`. `TypeInv` is `TypeOK` with `ShapeInv`. `TypeOK` says that tree,
   stash and token number `i` hold blocks of the kind of tree `i` (pointers below `L`, values at `L`) at
   paths tree `i` has, also across `SetL`, which renumbers them. It is not inductive: the blocks absorbed
   come from buckets the server must still have, and the path rewritten must be a path of its own tree.
   `ShapeInv` adds that. The proof has a lemma per action, over lemmas about `Overlay`, `Absorbed`,
   `WriteStashWithNode` and `AddPathNodes`.
2. *Blocks on their path.* `AllBlocksOnPath`: `PathInv` says it of the trees, the pending token and the
   token under construction separately; `Overlay` and `Without` keep it.
3. *Shape.* `TreesShaped`: in `FormInv` every tree and token is `Shaped` (father and sibling of every bucket are
   there), but the part of the path rebuilt so far is only `Growing`: the father of its topmost buckets may be
   the bucket the loop comes to next. At the root nothing is missing. `SetL` needs no case of its own: a
   shaped tree is shaped in a higher one.
4. *Masks.* `MasksChained`: a rebuilt path gives new masks to its buckets and leaves those of their siblings,
   so a bucket that is not rebuilt keeps its father's mask: its father is not on the path, because all
   children of the path's buckets are on it or beside it (`SameFather`). For the sibling to keep its mask,
   `SiblingBucket` must know that the bucket exists exactly if it was read. Hence `MaskIInv` has `ReadInv` (the
   buckets read are the existing ones of the path, in order, without a gap, by the shape), `SentInv` (the
   pending token is in the trees when the search begins) and `MaskInv` (what the token under construction
   has at each point of the loop). `SearchKeysInSync` follows with the cancellation of XOR, one step of the
   probe loop at a time.
5. *Sizes.* `BucketsBounded` from `SizeInv`: buckets and stashs are finite, and no bucket but a root exceeds
   `Z_block`. `StashsDrained` needs more: the root takes what is left, but the root of tree 1 is limited
   too. So `AddressInv` follows what is left of the address in the loop (below `2^i` in tree `i`), `FirstInv`
   concludes that tree 1 has no block but block 0, and `DrainInv` that stashs of rebuilt trees are empty.

**The blocks** (`LLORAMSearchProofs`). Where a block is, is a matter of `Live(i)`: the current tree `i`, which is
the server's with the pending token and the token under construction laid over it, less the blocks
absorbed. `SearchIInv` is inductive; its parts beyond the above:

* `TokenInv`: the token under construction has exactly the levels rebuilt so far.
* `SplitInv`: the numbers in the request tokens are the halves of the address.
* `OnceInv`, `GoneInv`: a block is in the stash or in one bucket; while the trees are rebuilt, a tree that is
  still to come has the block looked for in no bucket. `NoDuplicates` (`OneCopy`) is `OnceInv`; `NothingLost`
  (`NoBlockLost`) follows action by action, as every action but those that store a block keeps the set.
* `FitInv`, `NodeInv`: block numbers fit, and leaves belong to their own tree.
* `LinkInv`: every block's father points to its node, except for `Exc`, the block whose leaf was given last
  while its father is still to be rewritten. `PointersLead` (`PointersAgree`) is the case without exception.
* `ReachInv`: the path being read leads to the block if there is one, the paths read hold theirs, and the
  headers probed so far gave no node. `SearchFinds` (`SearchReachesBlock`) needs it together with
  `SearchKeyInSync`, since the server finds a pointer only if its derived key is the header's, and with
  `NumbersFit`, since the first header that answers must be that of the block.

`DecodingSilent`: `Spec => []NoDecodeError` if `MaxL = InitL`. `RootInv` says that without `SetL` no tree but tree 1 has a root
alone, and that this root has block 0, the only block ever looked up there (`tokens[1].a = 0`, from `AddressInv`); so
a header that was read alone gave a node. The run `resize_decode_error` shows that the hypothesis is needed.

`ImplementsBlockStore`: `Spec => IsBlockStore`. `Begin`, `Reject`, `Finish` and `SetL` are the calls, returns and growth
of the array, `RemapData` is the moment of the effect, and all other steps are hidden: they keep every block
and so the abstract `mem`. That a read returns `mem[addr]` is where everything above is used.

**Hash tables.** `MyhashtableProofs`: `TypeCorrect` with `TypeInv` (buckets below `bucketCounter` exist; the file is
a beginning of what the header says), then `AllEntriesFound`, `EntriesCounted`, `AddIsAnUpdate`. `TableInv` says of
memory and file alike that every entry is at the first probe of its key that is free or its own (`Good`, `Finds`);
an Add (`Put`) fills a slot in which no other key's search ended with a find.

`OHashTableProofs`: `TypeCorrect`; `PairsWhereProbed` and `DropsOnlyWhenFull` from `TableInv` (`PathInv`: the loop is at
the cell of the probe walk that its round says; `SeenInv`: no cell probed so far had what is sought; `CellInv`: the
cell in hand is the ORAM's but for one slot). The walk is a recursive function, so the proof shows that it
exists (`StepsExist`) and unfolds it (`ProbeIs`); the overflow of the cubes and of their sum is that of the loop, and all
four theorems hold for every hash and every table of at most `IntRange \div 2` cells. `ImplementsPairStore`: `Spec => IsPairStore`. A
cell's write adds one to the count of a pair or takes one away (cardinalities of `Places`), and a search
that ends with `j = size` has seen every cell in which a pair of its key can be.

**Packed array** (`LLORAM1024Proofs`). `TypeCorrect`, and `ImplementsArray`: the safety part of `IsArray`. The
arithmetic is that of `n \div B` and `n % B`.

**Hash object** (`CryptoProofs`). `LastBlockIsKept`: `Spec => []LastBlockWaits`, from `StateType`, `CounterInv` (every
entry of `h` has the counter of its place; `CounterStep`: the carry is found from `t0 < count` alone) and `WaitInv`
(between two steps of an Update bytes are left, so the last block is still to come).
`ImplementsHashFunction`: the safety part of `IsHashFunction`. `Message(hh, ll, bb)` is what compressed blocks and
buffer hold; moving bytes from the input to the buffer (`MessageFilled`) and compressing a block
(`MessageCompressed`) leave it and what follows as they are, and with the last block waiting there is exactly
one block more than compressions (`BlockCount`), so the digest given is that of the whole message (`DigestGiven`).

**Bucket tails** (`CryptoProofs`, over `Bucket`, the instance of `BucketTail` in `MCCrypto`). `TailInv` says that the output so far is the encryption of the first groups of the buffer
(`Encrypts`), that every cipher returned is one of a whole buffer filled up to the next group (`Fills`), and that the
`k`-th ciphertext block of all has counter `k - 1` modulo `CounterRange` (`Numbered`). Then `TailsComeBack`: `Spec => []TailsSurvive`, since what
fills the last group is less than a block (`BlocksFound`), so the blocks counted in the bytes are those encrypted
(`ToTailIs`); `CiphertextsUnique`: `Spec => []CiphertextsDiffer`, since numbers with one remainder are a round apart (`RoundApart`); and `CiphertextFits`: `Spec => []OutputFits` under
`SmallestFits`, `(G - 1)(G + C) <= (bytes of the smallest tail)(G - C)` for groups of `G` bytes and counters of `C`. In the
code, `G = 12`, `C = 4` and a tail has 52 bytes or more: 176 <= 416. Without the condition small tails do not fit.
`FlattenIs`, `FlattenAppend` and `FlattenEqual` say what `FlattenSeq` of the community modules computes.

**Nodes** (`PathProofs`). The recursive functions `NumberToPath`, `PathToNumber` and `Binary` are unfolded into steps, and
what they compute follows by induction on the length of a path. The link is one invariant of each: a node's number
is between `2^n - 1` and `2^(n + 1) - 2` if its path has `n` bits, and the path is the number's bits below the first.

* `NumbersPaths`: `Spec => []NumbersArePaths`, for every width and every node but the last number, whose children
  and sibling wrap around.
* `EvictionPaths`: `Spec => []EvictionComparesPaths`, from `NodeInv` (the node is one of the tree's).
* `RandomLeaf`: `Spec => [](height <= Mantissa + 1 => LeafBelowNode)` from `WalkInv`: the walk stays below the node and
  above the leaves' children. Higher trees are excluded because the property fails there: the code's `double` is
  rounded up, see below.
* `AddressRange`: `Spec => [](height <= Mantissa => AddressesFit)`, for the same reason.

**Int paths** (`PathProofs`, over `Ints`, the instance of `IntPath` in `MCPaths`, for `W` of any size). A word is determined by its bits
(`SameBits`), and `WordOf` has the bits it is given (`WordBits`); the length is the place above which the bits may differ
(`Min`). Then `PathsComeBack`, `OverlapFound` and `BeginningFound`: `Spec` of `IntPath` implies always `PathsSurvive`,
`OverlapIsLongest`, `CommonBeginning`. `DifferAbove` of two words is turned into a comparison of their paths' first bits,
the case of the empty path and its shift by a whole word apart.

**Induction.** The induction theorems of the library take an operator as a parameter, which the provers cannot
instantiate. Instead `AllNaturals` (`NaturalLemmas`) takes the set of numbers for which a fact holds: a set of naturals with
0 and the successor of each member has all of them, or there would be a least one missing (`MinIsLeast`, from the
well-foundedness of `<`). A recursive function is a `CHOOSE`, so that it must be shown to exist first: `RecursionExists` (from
a value at any smaller argument) and `StepsExist` (from the last one) do so by the same induction.

Every invariant that the runs name was first checked by TLC on small instances.

Model-checked only: liveness (`CallsReturn`, `WalkEnds`, `Ends`, and the liveness in `IsArray` and `IsHashFunction`), which is
out of the prover's reach. Every invariant of a passing run is stated by a theorem; four have a hypothesis besides
the modules' assumptions: `NoDecodeError` (no `SetL`), `LeafBelowNode` and `AddressesFit` (exact doubles), and `OutputFits`
(no small tails). Each fails without it.

## What is left

Everything under `src/LLORAM` that runs is modelled. Left to do, should the code change or the tools improve: the
liveness properties for every instance, and a caller that breaks the order of the single-round protocol, which
the code does not check.

## Not modelled

* The compression function of Blake2b and AES: ideal functions in `Blake2.tla` and `BucketTail.tla`. They are
  arithmetic without state; test vectors settle them.
* The rest of Crypto++ 6.0.0, which is nearly all of the lines under `src`: big integers, public-key schemes,
  other ciphers, filters, test drivers. LLORAM calls none of it, so there is no use in the code to model, and
  it would be another project to verify a vendored library.
* `OldPathORAM` (dead code), `encryption.cpp` and `testClass` (unused helpers), `TestApp` (demonstration; its order of calls
  is the caller of `LLORAM.tla`), the dumps (printing), timing and byte counts.
* `Myhashtable`: tables of more than 64 buckets or of different bucket sizes, which overrun memory, and a cut-off
  file loaded into a table of fewer buckets, whose memory is not cleared.
* `BLAKE2_Base::Restart` with a parameter block of its own, and salt and personalization.
