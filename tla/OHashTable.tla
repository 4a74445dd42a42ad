----------------------------- MODULE OHashTable -----------------------------
(***************************************************************************)
(* OHashTable.h: open addressing in the cells of an LLORAM<R>.  A cell has *)
(* Items_Size slots of a key (its hash, c1) and a value (v1).  An operation*)
(* reads one cell after the other, one ORAM access each, and a write or a  *)
(* delete writes the cell it changed back with another access.             *)
(*                                                                         *)
(* The ORAM is the BlockStore that LLORAM.tla implements; its steps and    *)
(* those of the table are composed here.  Hash[k] is the first word of     *)
(* the Blake2b of k, which is taken to be one-to-one and never 0 or -1, so *)
(* that a slot's key stands for its hash.  The int j*j*j overflows from    *)
(* j = 1291 on, so in tables of L >= 11: it wraps, as the multiplication   *)
(* of the x64 build does, and is sign-extended to the word it is added to. *)
(* The int j itself counts every cell: a table has less than 2^31.         *)
(***************************************************************************)
EXTENDS Naturals, FiniteSets, FiniteSetsExt

CONSTANTS
  InitL,          \* L of the constructor
  Heights,        \* the heights resize is called with
  Items_Size,
  Key, Value,
  None,           \* Char20{0}
  Hash,
  IntRange,       \* 2^32, the number of values of an int
  WordRange,      \* 2^64, of an unsigned long long
  memEmpty, memDeleted

ASSUME TableAssumption ==
  /\ InitL \in Nat \ {0}
  /\ Heights \subseteq Nat /\ IsFiniteSet(Heights)
  /\ Items_Size \in Nat \ {0}
  /\ None \in Value
  /\ IntRange \in Nat /\ WordRange \in Nat /\ IntRange <= WordRange
  /\ \A height \in Heights \cup {InitL} : 2^height <= IntRange \div 2
  /\ Hash \in [Key -> 0..(WordRange - 1)]
  /\ memEmpty \notin Key /\ memDeleted \notin Key /\ memEmpty # memDeleted

VARIABLES
  size, mem, phase, op, addr, data,   \* pathoram
  pc, call,       \* where the operation is, and its arguments
  a, j,           \* the cell probed next and the number of cells probed
  r,              \* the changed cell that is to be written back
  ret,            \* what the last call returned
  resized         \* resize was called

pathoram == <<size, mem, phase, op, addr, data>>
table == <<pc, call, a, j, r, ret, resized>>
vars == <<pathoram, table>>

Capacity(height) == 2^height - 1
Items == 1..Items_Size
Cell == [Items -> [k : Key \cup {memEmpty, memDeleted}, v : Value]]
EmptyCell == [i \in Items |-> [k |-> memEmpty, v |-> None]]
Addresses == 0..(Capacity(Max(Heights \cup {InitL})) - 1)

Oram == INSTANCE BlockStore WITH Addr <- Addresses, Val <- Cell, Zero <- EmptyCell
-----------------------------------------------------------------------------
Init ==
  /\ size = Capacity(InitL) /\ addr = 0 /\ Oram!Init
  /\ pc = "idle" /\ call \in [op : {"read"}, k : Key, v : {None}]
  /\ a = 0 /\ j = 0 /\ r = EmptyCell /\ ret = None
  /\ resized = FALSE

Call(o, k, v) ==
  /\ pc = "idle"
  /\ pc' = "probe"
  /\ call' = [op |-> o, k |-> k, v |-> v]
  /\ a' = Hash[k] /\ j' = 0
  /\ UNCHANGED <<pathoram, r, ret, resized>>

(* Slips: the last comparison is <=; a read tries one cell less.           *)
Tries_Inclusive == size + 1
Tries_Read == IF call.op = "read" THEN size - 1 ELSE size
Tries == size

ReadCell ==
  /\ pc = "probe" /\ j < Tries
  /\ pc' = "read"
  /\ a' = a % size
  /\ Oram!Invoke("read", a', data)
  /\ UNCHANGED <<call, j, r, ret, resized>>

OramStep == Oram!Effect /\ UNCHANGED table

(* The slots of the cell the operation is looking for: a free one for a    *)
(* write, which does not look for the key, and the key's for the others.   *)
(* Slip: a write does not use a tombstone's slot.                          *)
Wanted_NoTombstone ==
  {i \in Items : data[i].k \in IF call.op = "write" THEN {memEmpty} ELSE {call.k}}
Wanted ==
  {i \in Items :
     data[i].k \in IF call.op = "write" THEN {memEmpty, memDeleted} ELSE {call.k}}

Changed(i) ==
  IF call.op = "write" THEN [data EXCEPT ![i] = [k |-> call.k, v |-> call.v]]
                       ELSE [data EXCEPT ![i].k = memDeleted]

Found ==
  /\ pc = "read" /\ Oram!Return
  /\ Wanted # {} /\ call.op = "read"
  /\ pc' = "idle"
  /\ ret' = data[Min(Wanted)].v
  /\ UNCHANGED <<call, a, j, r, resized>>

Change ==
  /\ pc = "read" /\ Oram!Return
  /\ Wanted # {} /\ call.op # "read"
  /\ pc' = "change"
  /\ r' = Changed(Min(Wanted))
  /\ UNCHANGED <<call, a, j, ret, resized>>

(* The int n*n*n as it is added to a word: a negative one is sign-extended.*)
Cube(n) ==
  LET c == (n * n * n) % IntRange
  IN IF c < IntRange \div 2 THEN c ELSE c + (WordRange - IntRange)

(* Slip: a write probes the next cell.                                     *)
NextAddress_Write ==
  (a + IF call.op = "write" THEN 1 ELSE Cube(j)) % WordRange
NextAddress == (a + Cube(j)) % WordRange

(* Slip: the round of a write is not counted.                              *)
NextCell_Uncounted ==
  /\ pc = "read" /\ Oram!Return
  /\ Wanted = {}
  /\ pc' = "probe"
  /\ a' = NextAddress /\ j' = IF call.op = "write" THEN j ELSE j + 1
  /\ UNCHANGED <<call, r, ret, resized>>

NextCell ==
  /\ pc = "read" /\ Oram!Return
  /\ Wanted = {}
  /\ pc' = "probe"
  /\ a' = NextAddress /\ j' = j + 1
  /\ UNCHANGED <<call, r, ret, resized>>

GiveUp ==
  /\ pc = "probe" /\ j >= Tries
  /\ pc' = "idle"
  /\ ret' = IF call.op = "read" THEN None ELSE FALSE
  /\ UNCHANGED <<pathoram, call, a, j, r, resized>>

WriteCell ==
  /\ pc = "change"
  /\ pc' = "write"
  /\ Oram!Invoke("write", a, r)
  /\ UNCHANGED <<call, a, j, r, ret, resized>>

Return ==
  /\ pc = "write" /\ Oram!Return
  /\ pc' = "idle"
  /\ ret' = (call.op = "delete")
  /\ r' = EmptyCell
  /\ UNCHANGED <<call, a, j, resized>>

(* resize grows the ORAM and then throws "not implemented!".               *)
Resize(newL) ==
  /\ pc = "idle"
  /\ size' = Capacity(newL) /\ Oram!Grow
  /\ resized' = TRUE
  /\ UNCHANGED <<pc, call, a, j, r, ret>>

Step == \/ ReadCell \/ OramStep \/ Found \/ Change \/ NextCell \/ GiveUp
        \/ WriteCell \/ Return

Next ==
  \/ \E k \in Key : Call("read", k, None) \/ Call("delete", k, None)
  \/ \E k \in Key, v \in Value : Call("write", k, v)
  \/ Step
  \/ \E newL \in Heights : Resize(newL)

Spec == Init /\ [][Next]_vars /\ WF_vars(Step)
-----------------------------------------------------------------------------
TypeOK ==
  /\ size \in Nat \ {0} /\ mem \in [Addresses -> Cell] /\ data \in Cell
  /\ phase \in {"idle", "called", "done"} /\ op \in {"read", "write"}
  /\ addr \in 0..(size - 1)
  /\ pc \in {"idle", "probe", "read", "change", "write"}
  /\ call \in [op : {"read", "write", "delete"}, k : Key, v : Value]
  /\ a \in 0..(WordRange - 1) /\ j \in 0..size /\ r \in Cell
  /\ ret \in Value \cup BOOLEAN /\ resized \in BOOLEAN

Count(k, v) ==
  Cardinality({s \in Addresses \X Items : mem[s[1]][s[2]] = [k |-> k, v |-> v]})

Pairs == INSTANCE PairStore WITH
  pairs <- [p \in Key \X Value |-> Count(p[1], p[2])],
  exact <- ~resized,
  phase <- CASE pc = "idle" -> "idle"
             [] pc = "write" /\ phase = "done" -> "done"
             [] OTHER -> "called"

(* The table is a bag of pairs: read and delete find a pair of the key if  *)
(* there is one, however deletes and writes into freed slots were mixed,   *)
(* and nothing else is ever touched.                                       *)
IsPairStore == Pairs!Init /\ [][Pairs!Next]_(Pairs!vars)

(* Every call returns: the probes end in a full table too, and also when   *)
(* resize has moved the cells that are probed.                             *)
CallsReturn == Pairs!Fairness

(* The n-th cell that the probes of a key visit: the address steps on by   *)
(* overflowing cubes in words that wrap, and is reduced in every round.    *)
Probe(k, n) ==
  LET cell[m \in 0..size] ==
        IF m = 0 THEN Hash[k] % size
        ELSE ((cell[m - 1] + Cube(m - 1)) % WordRange) % size
  IN cell[n]
ProbePath(k) == {Probe(k, n) : n \in 0..(size - 1)}

(* Every pair is in a cell that the key's probe sequence visits, which is  *)
(* why a search that does not stop at an empty slot finds it.              *)
EntriesOnProbePath ==
  ~resized =>
    \A c \in Addresses, i \in Items :
      mem[c][i].k \in Key => c \in ProbePath(mem[c][i].k)

(* A write is dropped only when all the cells it may use are full of       *)
(* pairs that were not deleted: tombstones are used again.                 *)
DroppedOnlyWhenFull ==
  pc = "probe" /\ call.op = "write" /\ j = size =>
    \A c \in ProbePath(call.k), i \in Items : mem[c][i].k \in Key
=============================================================================
