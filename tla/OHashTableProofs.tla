-------------------------- MODULE OHashTableProofs --------------------------
(***************************************************************************)
(* Theorems about OHashTable.tla, for every capacity an int can count,     *)
(* cell size, hash and sequence of calls: every pair is where its key's    *)
(* probes look, a write is dropped only when there is no room, and every   *)
(* step is a step of the bag of pairs of PairStore.tla or changes nothing  *)
(* the caller can see.                                                     *)
(***************************************************************************)
EXTENDS OHashTable, NaturalLemmas
-----------------------------------------------------------------------------
(* The probe sequence.                                                     *)

LEMMA WordType ==
  /\ IntRange \in Nat \ {0} /\ WordRange \in Nat \ {0} /\ IntRange <= WordRange
  /\ \A x \in Nat : x % WordRange \in 0..(WordRange - 1)
<1>1. 2^InitL <= IntRange \div 2 /\ IntRange \in Nat /\ InitL \in Nat
  BY TableAssumption
<1>2. 2^InitL \in Nat \ {0}
  BY <1>1, PowNat
<1> DEFINE T == 2^InitL
<1> HIDE DEF T
<1>3. T \in Nat \ {0} /\ T <= IntRange \div 2
  BY <1>1, <1>2 DEF T
<1>4. IntRange # 0
  BY <1>1, <1>3
<1>5. WordRange \in Nat /\ IntRange <= WordRange
  BY TableAssumption
<1> QED BY <1>1, <1>4, <1>5

LEMMA CubeType ==
  ASSUME NEW n \in Nat
  PROVE  Cube(n) \in Nat
<1> DEFINE y == n * n * n
<1>1. y \in Nat
  <2>1. n * n \in Nat
    OBVIOUS
  <2> QED BY <2>1
<1> HIDE DEF y
<1>2. y % IntRange \in Nat
  BY <1>1, WordType
<1>3. Cube(n) = IF y % IntRange < IntRange \div 2 THEN y % IntRange
                  ELSE (y % IntRange) + (WordRange - IntRange)
  BY DEF Cube, y
<1>4. WordRange - IntRange \in Nat
  BY WordType
<1> QED BY <1>2, <1>3, <1>4

(* The address after that of cell c.                                       *)
After(c, n) == (c + Cube(n)) % WordRange

LEMMA AfterType ==
  ASSUME NEW c \in Nat, NEW n \in Nat
  PROVE  After(c, n) \in 0..(WordRange - 1)
<1>1. c + Cube(n) \in Nat
  BY CubeType
<1> QED BY <1>1, WordType DEF After

(* The cells of a probe sequence, one from the other.                      *)
LEMMA ProbeIs ==
  ASSUME size \in Nat \ {0}, NEW k \in Key
  PROVE  /\ Probe(k, 0) = Hash[k] % size
         /\ \A n \in 1..size : Probe(k, n) = After(Probe(k, n - 1), n - 1) % size
         /\ \A n \in 0..size : Probe(k, n) \in 0..(size - 1)
<1> DEFINE S == 0..(size - 1)
           start == Hash[k] % size
           cell == CHOOSE cell : cell = [m \in 0..size |->
                     IF m = 0 THEN Hash[k] % size
                     ELSE ((cell[m - 1] + Cube(m - 1)) % WordRange) % size]
           g == [e \in (1..size) \X S |-> After(e[2], e[1] - 1) % size]
<1>1. \A n : Probe(k, n) = cell[n]
  BY DEF Probe
<1>2. start \in S
  <2>1. Hash[k] \in Nat
    BY TableAssumption
  <2> QED BY <2>1
<1>3. \A n \in 1..size, c \in S : After(c, n - 1) % size \in S
  <2> SUFFICES ASSUME NEW n \in 1..size, NEW c \in S
               PROVE  After(c, n - 1) % size \in S
    OBVIOUS
  <2>1. c \in Nat /\ n - 1 \in Nat
    OBVIOUS
  <2> DEFINE d == After(c, n - 1)
  <2>2. d \in 0..(WordRange - 1) /\ WordRange \in Nat
    BY <2>1, AfterType, WordType
  <2> HIDE DEF d
  <2>3. d % size \in S
    BY <2>2
  <2> QED BY <2>3 DEF d
<1>4. StepsIn(g, size, S)
  BY <1>3 DEF StepsIn
<1>5. PICK f \in [0..size -> S] :
        f[0] = start /\ \A n \in 1..size : f[n] = g[<<n, f[n - 1]>>]
  <2>1. size \in Nat
    OBVIOUS
  <2> HIDE DEF g, S, start
  <2> QED BY <1>2, <1>4, <2>1, StepsExist
<1>6. \A n \in 1..size : f[n] = After(f[n - 1], n - 1) % size
  <2> SUFFICES ASSUME NEW n \in 1..size
               PROVE  f[n] = After(f[n - 1], n - 1) % size
    OBVIOUS
  <2>1. n - 1 \in 0..size
    OBVIOUS
  <2> HIDE DEF S
  <2>2. <<n, f[n - 1]>> \in (1..size) \X S
    BY <1>5, <2>1
  <2>3. f[n] = g[<<n, f[n - 1]>>]
    BY <1>5
  <2> QED BY <2>2, <2>3
<1>7. f = [m \in 0..size |->
             IF m = 0 THEN Hash[k] % size
             ELSE ((f[m - 1] + Cube(m - 1)) % WordRange) % size]
  <2>1. \A n \in 0..size : n = 0 \/ n \in 1..size
    OBVIOUS
  <2> QED BY <1>5, <1>6, <2>1 DEF After
<1>8. cell = [m \in 0..size |->
                IF m = 0 THEN Hash[k] % size
                ELSE ((cell[m - 1] + Cube(m - 1)) % WordRange) % size]
  BY <1>7
<1> HIDE DEF cell
<1>9. cell[0] = start
  BY <1>8
<1>10. \A n \in 1..size : cell[n] = After(cell[n - 1], n - 1) % size
  <2> SUFFICES ASSUME NEW n \in 1..size
               PROVE  cell[n] = After(cell[n - 1], n - 1) % size
    OBVIOUS
  <2>1. n \in 0..size /\ n # 0
    OBVIOUS
  <2> QED BY <1>8, <2>1 DEF After
<1>11. \A n \in 0..size : cell[n] \in S
  <2> DEFINE G == {n \in Nat : n <= size => cell[n] \in S}
  <2>1. 0 \in G
    BY <1>2, <1>9
  <2>2. ASSUME NEW n \in G PROVE n + 1 \in G
    <3> SUFFICES ASSUME n + 1 <= size PROVE cell[n + 1] \in S
      OBVIOUS
    <3> DEFINE q == n + 1
    <3>1. n \in Nat /\ n <= size /\ q \in 1..size /\ q - 1 = n
      OBVIOUS
    <3>2. cell[n] \in S
      BY <3>1
    <3> HIDE DEF q
    <3>3. cell[q] = After(cell[q - 1], q - 1) % size
      BY <1>10, <3>1
    <3>4. cell[q] \in S
      BY <1>3, <3>1, <3>2, <3>3
    <3> QED BY <3>4 DEF q
  <2>3. G \in SUBSET Nat
    OBVIOUS
  <2> HIDE DEF G
  <2>4. G = Nat
    BY <2>1, <2>2, <2>3, AllNaturals
  <2> QED BY <2>4 DEF G
<1> QED BY <1>1, <1>9, <1>10, <1>11

-----------------------------------------------------------------------------
(* Types, and where an operation is between its accesses to the store.     *)
Limit == Capacity(Max(Heights \cup {InitL}))

TypeInv ==
  /\ TypeOK
  /\ size <= Limit
  /\ phase = "idle" <=> pc \in {"idle", "probe", "change"}
  /\ pc \in {"read", "write"} => op = pc /\ addr = a
  /\ pc \in {"read", "change", "write"} => a \in 0..(size - 1) /\ j < size
  /\ pc \in {"change", "write"} => call.op # "read"

LEMMA LimitType ==
  /\ Limit \in Nat \ {0} /\ Addresses = 0..(Limit - 1)
  /\ \A height \in Heights \cup {InitL} :
       Capacity(height) \in Nat /\ Capacity(height) <= Limit
  /\ Capacity(InitL) # 0
<1> DEFINE S == Heights \cup {InitL}
<1>1. S \in SUBSET Nat /\ S # {} /\ IsFiniteSet(S) /\ InitL \in Nat \ {0}
  BY TableAssumption, FS_AddElement
<1>2. Max(S) \in S /\ \A y \in S : y <= Max(S)
  BY <1>1, MaxIsGreatest
<1>3. ASSUME NEW height \in S
      PROVE  Capacity(height) \in Nat /\ Capacity(height) <= Limit
  <2>1. height \in Nat /\ Max(S) \in Nat /\ height <= Max(S)
    BY <1>1, <1>2
  <2>2. 2^height \in Nat \ {0} /\ 2^(Max(S)) \in Nat /\ 2^height <= 2^(Max(S))
    BY <2>1, PowNat, PowMono
  <2> QED BY <2>2 DEF Capacity, Limit
<1>4. Capacity(InitL) # 0
  <2>1. 1 \in Nat /\ InitL \in Nat /\ 1 <= InitL
    BY <1>1
  <2>2. 2^1 <= 2^InitL /\ 2^InitL \in Nat
    BY <2>1, PowMono, PowNat, Zenon
  <2> QED BY <2>2, PowSmall DEF Capacity
<1>5. Limit \in Nat \ {0}
  <2>1. Capacity(InitL) \in Nat /\ Capacity(InitL) <= Limit
    BY <1>3
  <2>2. Limit \in Nat
    BY <1>2, <1>3 DEF Limit
  <2> QED BY <1>4, <2>1, <2>2
<1>6. Addresses = 0..(Limit - 1)
  BY DEF Addresses, Limit
<1> QED BY <1>3, <1>4, <1>5, <1>6

LEMMA EmptyCellType == EmptyCell \in Cell
BY TableAssumption DEF EmptyCell, Cell

LEMMA WantedMin ==
  ASSUME Wanted # {}
  PROVE  Min(Wanted) \in Wanted /\ Min(Wanted) \in Items
<1>1. Wanted \in SUBSET Nat /\ Wanted \subseteq Items
  BY DEF Wanted, Items
<1> QED BY <1>1, MinIsLeast

LEMMA ChangedType ==
  ASSUME data \in Cell, call \in [op : {"read", "write", "delete"}, k : Key, v : Value],
         NEW i \in Items
  PROVE  Changed(i) \in Cell
BY DEF Cell, Changed

LEMMA InitType == Init => TypeInv
<1> SUFFICES ASSUME Init PROVE TypeInv
  OBVIOUS
<1>1. size = Capacity(InitL) /\ size \in Nat \ {0} /\ size <= Limit
  BY LimitType DEF Init
<1>2. mem \in [Addresses -> Cell] /\ data \in Cell /\ r \in Cell
  BY EmptyCellType DEF Init, Oram!Init
<1>3. call \in [op : {"read", "write", "delete"}, k : Key, v : Value]
  BY TableAssumption DEF Init
<1>4. ret \in Value \cup BOOLEAN /\ resized \in BOOLEAN
  BY TableAssumption DEF Init
<1>5. phase = "idle" /\ op = "read" /\ pc = "idle" /\ a = 0 /\ j = 0
      /\ addr = 0
  BY DEF Init, Oram!Init
<1>6. addr \in 0..(size - 1) /\ a \in 0..(WordRange - 1) /\ j \in 0..size
  BY <1>1, <1>5, WordType
<1> QED BY <1>1, <1>2, <1>3, <1>4, <1>5, <1>6 DEF TypeInv, TypeOK

LEMMA CallType ==
  ASSUME TypeInv, NEW o \in {"read", "write", "delete"}, NEW k \in Key,
         NEW v \in Value, Call(o, k, v)
  PROVE  TypeInv'
<1>1. Hash[k] \in 0..(WordRange - 1)
  BY TableAssumption
<1> QED BY <1>1 DEF TypeInv, TypeOK, Call, pathoram

LEMMA ReadCellType == TypeInv /\ ReadCell => TypeInv'
<1> SUFFICES ASSUME TypeInv, ReadCell PROVE TypeInv'
  OBVIOUS
<1>1. a' = a % size /\ a' \in 0..(size - 1) /\ a' \in 0..(WordRange - 1)
  <2>1. a \in Nat /\ a <= WordRange - 1 /\ size \in Nat \ {0}
    BY WordType DEF TypeInv, TypeOK
  <2>2. a % size \in 0..(size - 1) /\ a % size <= a
    BY <2>1
  <2>3. a' = a % size
    BY DEF ReadCell
  <2> QED BY <2>1, <2>2, <2>3, WordType
<1>2. /\ phase' = "called" /\ op' = "read" /\ addr' = a' /\ pc' = "read"
      /\ UNCHANGED <<size, mem, data, call, j, r, ret, resized>> /\ j < size
  BY DEF ReadCell, Oram!Invoke, Tries
<1> QED BY <1>1, <1>2 DEF TypeInv, TypeOK

(* What a step of the store does.                                          *)
LEMMA OramStepIs ==
  ASSUME TypeInv, OramStep
  PROVE  /\ pc \in {"read", "write"} /\ op = pc /\ addr = a /\ a \in Addresses
         /\ phase = "called" /\ phase' = "done"
         /\ UNCHANGED <<size, op, addr, table>>
         /\ pc = "read" => mem' = mem /\ data' = mem[a]
         /\ pc = "write" => mem' = [mem EXCEPT ![a] = data] /\ data' = data
<1>1. phase = "called" /\ pc \in {"read", "write"}
  BY DEF TypeInv, TypeOK, OramStep, Oram!Effect
<1>2. op = pc /\ addr = a /\ a \in 0..(size - 1)
  BY <1>1 DEF TypeInv
<1>3. a \in Addresses
  BY <1>2, LimitType DEF TypeInv, TypeOK
<1> QED BY <1>1, <1>2, <1>3 DEF OramStep, Oram!Effect

LEMMA OramStepType == TypeInv /\ OramStep => TypeInv'
<1> SUFFICES ASSUME TypeInv, OramStep PROVE TypeInv'
  OBVIOUS
<1>1. mem' \in [Addresses -> Cell] /\ data' \in Cell
  BY OramStepIs DEF TypeInv, TypeOK
<1>2. UNCHANGED <<size, op, addr, pc, call, a, j, r, ret, resized>>
      /\ phase' = "done" /\ pc \in {"read", "write"}
  BY OramStepIs DEF table
<1> QED BY <1>1, <1>2 DEF TypeInv, TypeOK

LEMMA FoundType == TypeInv /\ Found => TypeInv'
<1> SUFFICES ASSUME TypeInv, Found PROVE TypeInv'
  OBVIOUS
<1>1. data[Min(Wanted)].v \in Value
  BY WantedMin DEF Found, TypeInv, TypeOK, Cell
<1> QED BY <1>1 DEF TypeInv, TypeOK, Found, Oram!Return

LEMMA ChangeType == TypeInv /\ Change => TypeInv'
<1> SUFFICES ASSUME TypeInv, Change PROVE TypeInv'
  OBVIOUS
<1>1. r' \in Cell
  BY WantedMin, ChangedType DEF Change, TypeInv, TypeOK
<1> QED BY <1>1 DEF TypeInv, TypeOK, Change, Oram!Return

LEMMA NextCellType == TypeInv /\ NextCell => TypeInv'
<1> SUFFICES ASSUME TypeInv, NextCell PROVE TypeInv'
  OBVIOUS
<1>1. a \in Nat /\ j \in Nat /\ j < size /\ size \in Nat
  BY WordType DEF TypeInv, TypeOK, NextCell
<1>2. a' \in 0..(WordRange - 1)
  BY <1>1, AfterType DEF NextCell, NextAddress, After
<1>3. j' \in 0..size
  BY <1>1 DEF NextCell
<1> QED BY <1>2, <1>3 DEF TypeInv, TypeOK, NextCell, Oram!Return

LEMMA GiveUpType == TypeInv /\ GiveUp => TypeInv'
<1> SUFFICES ASSUME TypeInv, GiveUp PROVE TypeInv'
  OBVIOUS
<1>1. ret' \in Value \cup BOOLEAN
  BY TableAssumption DEF GiveUp
<1> QED BY <1>1 DEF TypeInv, TypeOK, GiveUp, pathoram

LEMMA WriteCellType == TypeInv /\ WriteCell => TypeInv'
<1> SUFFICES ASSUME TypeInv, WriteCell PROVE TypeInv'
  OBVIOUS
<1>1. /\ phase' = "called" /\ op' = "write" /\ addr' = a /\ data' = r
      /\ pc = "change" /\ pc' = "write"
      /\ UNCHANGED <<size, mem, call, a, j, r, ret, resized>>
  BY DEF WriteCell, Oram!Invoke
<1> QED BY <1>1 DEF TypeInv, TypeOK

LEMMA ReturnType == TypeInv /\ Return => TypeInv'
<1> SUFFICES ASSUME TypeInv, Return PROVE TypeInv'
  OBVIOUS
<1>1. ret' \in BOOLEAN /\ r' \in Cell
  BY EmptyCellType DEF Return
<1> QED BY <1>1 DEF TypeInv, TypeOK, Return, Oram!Return

LEMMA ResizeType ==
  ASSUME TypeInv, NEW newL \in Heights, Resize(newL)
  PROVE  TypeInv'
<1>1. size' \in Nat /\ size' > size /\ size' <= Limit
  BY LimitType DEF Resize, Oram!Grow
<1>2. size' \in Nat \ {0}
  BY <1>1 DEF TypeInv, TypeOK
<1> QED BY <1>1, <1>2 DEF TypeInv, TypeOK, Resize, Oram!Grow

LEMMA NextType == TypeInv /\ [Next]_vars => TypeInv'
<1> SUFFICES ASSUME TypeInv, [Next]_vars PROVE TypeInv'
  OBVIOUS
<1>1. CASE UNCHANGED vars
  BY <1>1 DEF vars, pathoram, table, TypeInv, TypeOK
<1>2. CASE \E k \in Key : Call("read", k, None) \/ Call("delete", k, None)
  BY <1>2, CallType, TableAssumption
<1>3. CASE \E k \in Key, v \in Value : Call("write", k, v)
  BY <1>3, CallType
<1>4. CASE Step
  BY <1>4, ReadCellType, OramStepType, FoundType, ChangeType, NextCellType,
     GiveUpType, WriteCellType, ReturnType DEF Step
<1>5. CASE \E newL \in Heights : Resize(newL)
  BY <1>5, ResizeType
<1> QED BY <1>1, <1>2, <1>3, <1>4, <1>5 DEF Next

LEMMA TypeInvHolds == Spec => []TypeInv
BY InitType, NextType, PTL DEF Spec

(* Reads, writes and deletes ask the store for addresses below its         *)
(* capacity only, also after resize and when the cubes overflow; the loop  *)
(* never runs past the number of cells.                                    *)
THEOREM TypeCorrect == Spec => []TypeOK
BY TypeInvHolds, PTL DEF TypeInv
-----------------------------------------------------------------------------
(* Where the pairs are, and what an operation knows of the cells it has    *)
(* probed: none has what it is looking for.                                *)
Sought == IF call.op = "write" THEN {memEmpty, memDeleted} ELSE {call.k}

NewCell(cell, i) ==
  IF call.op = "write" THEN [cell EXCEPT ![i] = [k |-> call.k, v |-> call.v]]
                       ELSE [cell EXCEPT ![i].k = memDeleted]

ChangedCell(cell, new) ==
  \E i \in Items : cell[i].k \in Sought /\ new = NewCell(cell, i)

PathInv ==
  /\ pc = "probe" => a % size = Probe(call.k, j)
  /\ pc \in {"read", "change", "write"} => a = Probe(call.k, j)

SeenInv ==
  pc \in {"probe", "read"} =>
    \A n \in 0..(j - 1), i \in Items : mem[Probe(call.k, n)][i].k \notin Sought

CellInv ==
  /\ pc = "read" /\ phase = "done" => data = mem[a]
  /\ pc = "change" => ChangedCell(mem[a], r)
  /\ pc = "write" /\ phase = "called" => ChangedCell(mem[a], r) /\ data = r

TableInv == EntriesOnProbePath /\ PathInv /\ SeenInv /\ CellInv

LEMMA ProbeType ==
  ASSUME TypeInv, NEW k \in Key, NEW n \in 0..size
  PROVE  Probe(k, n) \in 0..(size - 1) /\ Probe(k, n) \in Addresses
<1>1. size \in Nat \ {0}
  BY DEF TypeInv, TypeOK
<1>2. Probe(k, n) \in 0..(size - 1)
  BY <1>1, ProbeIs
<1> QED BY <1>2, LimitType DEF TypeInv, TypeOK

LEMMA WantedIs ==
  /\ Wanted = {i \in Items : data[i].k \in Sought}
  /\ \A i : Changed(i) = NewCell(data, i)
BY DEF Wanted, Sought, Changed, NewCell

LEMMA TableInit == Init => TableInv
<1> SUFFICES ASSUME Init PROVE TableInv
  OBVIOUS
<1>1. \A c \in Addresses, i \in Items : mem[c][i].k \notin Key
  BY TableAssumption DEF Init, Oram!Init, EmptyCell
<1>2. pc = "idle"
  BY DEF Init
<1> QED BY <1>1, <1>2 DEF TableInv, EntriesOnProbePath, PathInv, SeenInv, CellInv

LEMMA SamePath ==
  ASSUME UNCHANGED size
  PROVE  \A k, n : Probe(k, n)' = Probe(k, n) /\ ProbePath(k)' = ProbePath(k)
BY DEF Probe, ProbePath

LEMMA SameEntries ==
  ASSUME EntriesOnProbePath, UNCHANGED <<size, mem, resized>>
  PROVE  EntriesOnProbePath'
BY SamePath DEF EntriesOnProbePath

LEMMA CallTable ==
  ASSUME TypeInv, TableInv, NEW o \in {"read", "write", "delete"}, NEW k \in Key,
         NEW v \in Value, Call(o, k, v)
  PROVE  TableInv'
<1>1. /\ pc' = "probe" /\ a' = Hash[k] /\ j' = 0 /\ call'.k = k
      /\ UNCHANGED <<size, mem, resized>>
  BY DEF Call, pathoram
<1>2. Probe(k, 0) = Hash[k] % size
  BY ProbeIs DEF TypeInv, TypeOK
<1>3. PathInv'
  BY <1>1, <1>2, SamePath DEF PathInv
<1>4. SeenInv' /\ CellInv'
  BY <1>1 DEF SeenInv, CellInv
<1> QED BY <1>1, <1>3, <1>4, SameEntries DEF TableInv

LEMMA ReadCellTable == TypeInv /\ TableInv /\ ReadCell => TableInv'
<1> SUFFICES ASSUME TypeInv, TableInv, ReadCell PROVE TableInv'
  OBVIOUS
<1>1. /\ pc = "probe" /\ pc' = "read" /\ a' = a % size /\ phase' = "called"
      /\ UNCHANGED <<size, mem, resized, call, j>>
  BY DEF ReadCell, Oram!Invoke
<1>2. PathInv'
  BY <1>1, SamePath DEF PathInv, TableInv
<1>3. SeenInv' /\ CellInv'
  BY <1>1, SamePath DEF SeenInv, CellInv, TableInv, Sought
<1> QED BY <1>1, <1>2, <1>3, SameEntries DEF TableInv

LEMMA OramReadTable ==
  ASSUME TypeInv, TableInv, OramStep, pc = "read"
  PROVE  TableInv'
<1>1. UNCHANGED <<size, mem, resized, pc, call, a, j, r>> /\ data' = mem[a]
  BY OramStepIs DEF table
<1>2. PathInv' /\ SeenInv'
  BY <1>1, SamePath DEF TableInv, PathInv, SeenInv, Sought
<1>3. CellInv'
  BY <1>1 DEF CellInv
<1> QED BY <1>1, <1>2, <1>3, SameEntries DEF TableInv

(* The cell that is written back is the one that was read but for the slot *)
(* found.                                                                  *)
LEMMA Written ==
  ASSUME TypeInv, TableInv, OramStep, pc = "write"
  PROVE  /\ a \in Addresses /\ a = Probe(call.k, j) /\ j \in 0..(size - 1)
         /\ \E i \in Items : /\ mem[a][i].k \in Sought
                             /\ mem' = [mem EXCEPT ![a] = NewCell(mem[a], i)]
<1>1. a \in Addresses /\ phase = "called" /\ mem' = [mem EXCEPT ![a] = data]
  BY OramStepIs
<1>2. ChangedCell(mem[a], r) /\ data = r
  BY <1>1 DEF TableInv, CellInv
<1>3. PICK i \in Items : mem[a][i].k \in Sought /\ r = NewCell(mem[a], i)
  BY <1>2 DEF ChangedCell
<1>4. a = Probe(call.k, j) /\ j \in 0..(size - 1)
  BY DEF TableInv, PathInv, TypeInv, TypeOK
<1>5. mem' = [mem EXCEPT ![a] = NewCell(mem[a], i)]
  BY <1>1, <1>2, <1>3
<1> QED BY <1>1, <1>3, <1>4, <1>5

(* What a slot holds after the write.                                      *)
LEMMA WrittenSlot ==
  ASSUME TypeInv, call.op # "read", NEW i \in Items, a \in Addresses,
         mem' = [mem EXCEPT ![a] = NewCell(mem[a], i)],
         NEW c \in Addresses, NEW q \in Items
  PROVE  mem'[c][q] =
           IF c = a /\ q = i
             THEN IF call.op = "write" THEN [k |-> call.k, v |-> call.v]
                                       ELSE [k |-> memDeleted, v |-> mem[a][i].v]
             ELSE mem[c][q]
<1>1. mem \in [Addresses -> Cell] /\ mem[a] \in Cell
  BY DEF TypeInv, TypeOK
<1> DEFINE new == NewCell(mem[a], i)
<1>2. mem'[c] = IF c = a THEN new ELSE mem[c]
  BY <1>1
<1>3. new[q] = IF q = i
                 THEN IF call.op = "write" THEN [k |-> call.k, v |-> call.v]
                                           ELSE [mem[a][i] EXCEPT !.k = memDeleted]
                 ELSE mem[a][q]
  BY <1>1 DEF NewCell, Cell
<1>4. [mem[a][i] EXCEPT !.k = memDeleted] = [k |-> memDeleted, v |-> mem[a][i].v]
  BY <1>1 DEF Cell
<1> QED BY <1>2, <1>3, <1>4

LEMMA OramWriteTable ==
  ASSUME TypeInv, TableInv, OramStep, pc = "write"
  PROVE  TableInv'
<1>1. UNCHANGED <<size, resized, pc, call, a, j, r>> /\ phase' = "done"
  BY OramStepIs DEF table
<1>2. PICK i \in Items : /\ mem[a][i].k \in Sought
                         /\ mem' = [mem EXCEPT ![a] = NewCell(mem[a], i)]
  BY Written
<1>3. call.op # "read" /\ call.k \in Key /\ a \in Addresses
  BY Written DEF TypeInv, TypeOK
<1> DEFINE New == IF call.op = "write" THEN [k |-> call.k, v |-> call.v]
                    ELSE [k |-> memDeleted, v |-> mem[a][i].v]
<1>4. ASSUME NEW c \in Addresses, NEW q \in Items
      PROVE  mem'[c][q] = IF c = a /\ q = i THEN New ELSE mem[c][q]
  BY <1>2, <1>3, WrittenSlot
<1>5. New.k \in Key => New.k = call.k
  BY TableAssumption
<1> HIDE DEF New
<1>6. ASSUME ~resized, NEW c \in Addresses, NEW q \in Items, mem'[c][q].k \in Key
      PROVE  c \in ProbePath(mem'[c][q].k)
  <2>1. CASE c = a /\ q = i
    <3>1. mem'[c][q].k = call.k
      BY <1>6, <1>4, <1>5, <2>1
    <3>2. a \in ProbePath(call.k)
      BY Written DEF ProbePath
    <3> QED BY <2>1, <3>1, <3>2
  <2>2. CASE ~(c = a /\ q = i)
    <3>1. mem'[c][q] = mem[c][q]
      BY <1>4, <2>2
    <3> QED BY <1>6, <3>1 DEF TableInv, EntriesOnProbePath
  <2> QED BY <2>1, <2>2
<1>7. EntriesOnProbePath'
  BY <1>1, <1>6, SamePath DEF EntriesOnProbePath
<1>8. PathInv' /\ SeenInv' /\ CellInv'
  BY <1>1, SamePath DEF TableInv, PathInv, SeenInv, CellInv
<1> QED BY <1>7, <1>8 DEF TableInv

LEMMA ChangeTable == TypeInv /\ TableInv /\ Change => TableInv'
<1> SUFFICES ASSUME TypeInv, TableInv, Change PROVE TableInv'
  OBVIOUS
<1>1. /\ pc = "read" /\ phase = "done" /\ pc' = "change"
      /\ r' = Changed(Min(Wanted))
      /\ UNCHANGED <<size, mem, resized, call, a, j>>
  BY DEF Change, Oram!Return
<1>2. data = mem[a]
  BY <1>1 DEF TableInv, CellInv
<1>3. Min(Wanted) \in Items /\ mem[a][Min(Wanted)].k \in Sought
  BY <1>2, WantedMin, WantedIs DEF Change
<1>4. ChangedCell(mem[a], r')
  BY <1>1, <1>2, <1>3, WantedIs DEF ChangedCell
<1>5. CellInv'
  BY <1>1, <1>4 DEF CellInv, ChangedCell, Sought, NewCell
<1>6. PathInv' /\ SeenInv'
  BY <1>1, SamePath DEF TableInv, PathInv, SeenInv
<1> QED BY <1>1, <1>5, <1>6, SameEntries DEF TableInv

LEMMA NextCellTable == TypeInv /\ TableInv /\ NextCell => TableInv'
<1> SUFFICES ASSUME TypeInv, TableInv, NextCell PROVE TableInv'
  OBVIOUS
<1>1. /\ pc = "read" /\ phase = "done" /\ pc' = "probe" /\ Wanted = {}
      /\ a' = After(a, j) /\ j' = j + 1
      /\ UNCHANGED <<size, mem, resized, call>>
  BY DEF NextCell, NextAddress, After, Oram!Return
<1>2. data = mem[a] /\ a = Probe(call.k, j)
  BY <1>1 DEF TableInv, CellInv, PathInv
<1>3. size \in Nat \ {0} /\ j \in Nat /\ j < size /\ call.k \in Key
  BY <1>1 DEF TypeInv, TypeOK
<1>4. a' % size = Probe(call.k, j + 1)
  <2>1. j + 1 \in 1..size /\ (j + 1) - 1 = j
    BY <1>3
  <2>2. Probe(call.k, j + 1) = After(Probe(call.k, j), j) % size
    BY <1>3, <2>1, ProbeIs
  <2> QED BY <1>1, <1>2, <2>2
<1>5. PathInv'
  BY <1>1, <1>4, SamePath DEF PathInv
<1>6. \A i \in Items : mem[a][i].k \notin Sought
  BY <1>1, <1>2, WantedIs
<1>7. \A n \in 0..(j' - 1) : n \in 0..(j - 1) \/ n = j
  BY <1>1, <1>3
<1>8. \A n \in 0..(j' - 1), i \in Items : mem[Probe(call.k, n)][i].k \notin Sought
  BY <1>1, <1>2, <1>6, <1>7 DEF TableInv, SeenInv
<1>9. SeenInv' /\ CellInv'
  BY <1>1, <1>8, SamePath DEF SeenInv, CellInv, Sought
<1> QED BY <1>1, <1>5, <1>9, SameEntries DEF TableInv

LEMMA WriteCellTable == TypeInv /\ TableInv /\ WriteCell => TableInv'
<1> SUFFICES ASSUME TypeInv, TableInv, WriteCell PROVE TableInv'
  OBVIOUS
<1>1. /\ pc = "change" /\ pc' = "write" /\ phase' = "called" /\ data' = r
      /\ UNCHANGED <<size, mem, resized, call, a, j, r>>
  BY DEF WriteCell, Oram!Invoke
<1>2. PathInv' /\ SeenInv'
  BY <1>1, SamePath DEF TableInv, PathInv, SeenInv
<1>3. CellInv'
  BY <1>1 DEF TableInv, CellInv, ChangedCell, Sought, NewCell
<1> QED BY <1>1, <1>2, <1>3, SameEntries DEF TableInv

(* The steps after which no operation is at work.                          *)
LEMMA IdleTable ==
  ASSUME TableInv, pc' = "idle", UNCHANGED mem,
         resized' \/ (UNCHANGED <<size, resized>>)
  PROVE  TableInv'
<1>1. PathInv' /\ SeenInv' /\ CellInv'
  BY DEF PathInv, SeenInv, CellInv
<1>2. EntriesOnProbePath'
  BY SameEntries DEF TableInv, EntriesOnProbePath
<1> QED BY <1>1, <1>2 DEF TableInv

LEMMA TableNext == TypeInv /\ TableInv /\ [Next]_vars => TableInv'
<1> SUFFICES ASSUME TypeInv, TableInv, [Next]_vars PROVE TableInv'
  OBVIOUS
<1>1. CASE UNCHANGED vars
  <2>1. UNCHANGED <<size, mem, phase, data, pc, call, a, j, r, resized>>
    BY <1>1 DEF vars, pathoram, table
  <2>2. PathInv' /\ SeenInv' /\ CellInv'
    BY <2>1, SamePath
       DEF TableInv, PathInv, SeenInv, CellInv, ChangedCell, NewCell, Sought
  <2> QED BY <2>1, <2>2, SameEntries DEF TableInv
<1>2. CASE \E k \in Key : Call("read", k, None) \/ Call("delete", k, None)
  BY <1>2, CallTable, TableAssumption
<1>3. CASE \E k \in Key, v \in Value : Call("write", k, v)
  BY <1>3, CallTable
<1>4. CASE Found \/ GiveUp \/ Return
  BY <1>4, IdleTable DEF Found, GiveUp, Return, Oram!Return, pathoram
<1>5. CASE OramStep
  BY <1>5, OramReadTable, OramWriteTable, OramStepIs
<1>6. CASE \E newL \in Heights : Resize(newL)
  BY <1>6, IdleTable DEF Resize, Oram!Grow
<1> QED BY <1>1, <1>2, <1>3, <1>4, <1>5, <1>6, ReadCellTable, ChangeTable,
           NextCellTable, WriteCellTable DEF Next, Step

LEMMA TableInvHolds == Spec => [](TypeInv /\ TableInv)
<1>1. Init => TypeInv /\ TableInv
  BY InitType, TableInit
<1>2. TypeInv /\ TableInv /\ [Next]_vars => (TypeInv /\ TableInv)'
  BY NextType, TableNext
<1> QED BY <1>1, <1>2, PTL DEF Spec

(* Every pair is in a cell that the probes of its key visit, so that a     *)
(* search which goes on past empty slots finds it, whichever slots deletes *)
(* freed and writes used again.                                            *)
THEOREM PairsWhereProbed == Spec => []EntriesOnProbePath
BY TableInvHolds, PTL DEF TableInv

(* A write is dropped only when every slot it may use holds a pair that    *)
(* was not deleted.                                                        *)
THEOREM DropsOnlyWhenFull == Spec => []DroppedOnlyWhenFull
<1>1. TypeInv /\ TableInv => DroppedOnlyWhenFull
  <2> SUFFICES ASSUME TypeInv, TableInv, pc = "probe", call.op = "write", j = size,
                      NEW c \in ProbePath(call.k), NEW i \in Items
               PROVE  mem[c][i].k \in Key
    BY DEF DroppedOnlyWhenFull
  <2>1. PICK n \in 0..(j - 1) : c = Probe(call.k, n)
    BY DEF ProbePath
  <2>2. n \in 0..size /\ call.k \in Key
    BY <2>1 DEF TypeInv, TypeOK
  <2>3. c \in Addresses
    BY <2>1, <2>2, ProbeType
  <2>4. mem[c][i].k \notin {memEmpty, memDeleted}
    BY <2>1 DEF TableInv, SeenInv, Sought
  <2>5. mem[c][i] \in [k : Key \cup {memEmpty, memDeleted}, v : Value]
    BY <2>3 DEF TypeInv, TypeOK, Cell
  <2> QED BY <2>4, <2>5
<1> QED BY <1>1, TableInvHolds, PTL
-----------------------------------------------------------------------------
(* The table is a bag of pairs.                                            *)
Places(m, k, v) ==
  {s \in Addresses \X Items : m[s[1]][s[2]] = [k |-> k, v |-> v]}

Bag == [p \in Key \X Value |-> Count(p[1], p[2])]

BagPhase ==
  CASE pc = "idle" -> "idle"
    [] pc = "write" /\ phase = "done" -> "done"
    [] OTHER -> "called"

LEMMA CountIs == \A k, v : Count(k, v) = Cardinality(Places(mem, k, v))
BY DEF Count, Places

LEMMA PlacesFinite ==
  ASSUME NEW m, NEW k, NEW v
  PROVE  IsFiniteSet(Places(m, k, v)) /\ Cardinality(Places(m, k, v)) \in Nat
<1>1. Limit \in Nat /\ Addresses = 0..(Limit - 1) /\ Items_Size \in Nat
  BY LimitType, TableAssumption
<1>2. IsFiniteSet(Addresses) /\ IsFiniteSet(Items)
  BY <1>1, FS_Interval DEF Items
<1>3. IsFiniteSet(Addresses \X Items)
  BY <1>2, FS_Product
<1>4. Places(m, k, v) \subseteq Addresses \X Items
  BY DEF Places
<1> QED BY <1>3, <1>4, FS_Subset, FS_CardinalityType

LEMMA SameBag ==
  ASSUME UNCHANGED mem
  PROVE  Bag' = Bag
BY DEF Bag, Count

(* A write adds one pair.                                                  *)
LEMMA WriteStores ==
  ASSUME TypeInv, TableInv, OramStep, pc = "write", call.op = "write"
  PROVE  Bag' = [Bag EXCEPT ![<<call.k, call.v>>] = Bag[<<call.k, call.v>>] + 1]
<1>1. PICK i \in Items : /\ mem[a][i].k \in Sought
                         /\ mem' = [mem EXCEPT ![a] = NewCell(mem[a], i)]
  BY Written
<1>2. a \in Addresses /\ call.k \in Key /\ call.v \in Value
  BY Written DEF TypeInv, TypeOK
<1> DEFINE new == [k |-> call.k, v |-> call.v]
           e == <<a, i>>
<1>3. ASSUME NEW c \in Addresses, NEW q \in Items
      PROVE  mem'[c][q] = IF c = a /\ q = i THEN new ELSE mem[c][q]
  <2>1. call.op # "read" /\ mem' = [mem EXCEPT ![a] = NewCell(mem[a], i)]
    BY <1>1
  <2> HIDE DEF new
  <2>2. mem'[c][q] =
          IF c = a /\ q = i
            THEN IF call.op = "write" THEN [k |-> call.k, v |-> call.v]
                                      ELSE [k |-> memDeleted, v |-> mem[a][i].v]
            ELSE mem[c][q]
    BY <1>2, <2>1, WrittenSlot
  <2> QED BY <2>2 DEF new
<1>4. ASSUME NEW s \in Addresses \X Items
      PROVE  mem'[s[1]][s[2]] = IF s = e THEN new ELSE mem[s[1]][s[2]]
  <2>1. s[1] \in Addresses /\ s[2] \in Items /\ (s = e <=> s[1] = a /\ s[2] = i)
    OBVIOUS
  <2>2. mem'[s[1]][s[2]] = IF s[1] = a /\ s[2] = i THEN new ELSE mem[s[1]][s[2]]
    BY <1>3, <2>1
  <2> QED BY <2>1, <2>2
<1>5. e \in Addresses \X Items /\ mem[e[1]][e[2]].k \notin Key
  BY <1>1, <1>2, TableAssumption DEF Sought
<1> HIDE DEF e
<1>6. ASSUME NEW k \in Key, NEW v \in Value
      PROVE  Cardinality(Places(mem', k, v)) =
               IF k = call.k /\ v = call.v THEN Cardinality(Places(mem, k, v)) + 1
                                           ELSE Cardinality(Places(mem, k, v))
  <2>1. e \notin Places(mem, k, v)
    BY <1>5 DEF Places
  <2>2. CASE k = call.k /\ v = call.v
    <3>1. ASSUME NEW s \in Addresses \X Items
          PROVE  s \in Places(mem', k, v) <=> s \in Places(mem, k, v) \/ s = e
      BY <1>4, <2>2 DEF Places
    <3>2. Places(mem', k, v) = Places(mem, k, v) \cup {e}
      BY <1>5, <3>1 DEF Places
    <3>3. IsFiniteSet(Places(mem, k, v))
      BY PlacesFinite
    <3>4. Cardinality(Places(mem, k, v) \cup {e}) = Cardinality(Places(mem, k, v)) + 1
      BY <2>1, <3>3, FS_AddElement
    <3> QED BY <2>2, <3>2, <3>4
  <2>3. CASE ~(k = call.k /\ v = call.v)
    <3>1. new # [k |-> k, v |-> v]
      BY <2>3
    <3>2. Places(mem', k, v) = Places(mem, k, v)
      BY <1>4, <2>1, <3>1 DEF Places
    <3> QED BY <2>3, <3>2
  <2> QED BY <2>2, <2>3
<1>7. \A k, v : Count(k, v)' = Cardinality(Places(mem', k, v))
  BY DEF Count, Places
<1>8. ASSUME NEW p \in Key \X Value
      PROVE  Bag'[p] = IF p = <<call.k, call.v>> THEN Bag[p] + 1 ELSE Bag[p]
  <2>1. p[1] \in Key /\ p[2] \in Value
        /\ (p = <<call.k, call.v>> <=> p[1] = call.k /\ p[2] = call.v)
    OBVIOUS
  <2>2. Bag'[p] = Cardinality(Places(mem', p[1], p[2]))
        /\ Bag[p] = Cardinality(Places(mem, p[1], p[2]))
    BY <1>7, CountIs DEF Bag
  <2> QED BY <1>6, <2>1, <2>2
<1> QED BY <1>2, <1>8 DEF Bag

(* A delete removes one, of the key sought.                                *)
LEMMA DeleteRemoves ==
  ASSUME TypeInv, TableInv, OramStep, pc = "write", call.op = "delete"
  PROVE  \E v \in Value :
           /\ Bag[<<call.k, v>>] > 0
           /\ Bag' = [Bag EXCEPT ![<<call.k, v>>] = Bag[<<call.k, v>>] - 1]
<1>1. PICK i \in Items : /\ mem[a][i].k \in Sought
                         /\ mem' = [mem EXCEPT ![a] = NewCell(mem[a], i)]
  BY Written
<1>2. a \in Addresses /\ call.k \in Key /\ mem[a] \in Cell
  BY Written DEF TypeInv, TypeOK
<1> DEFINE old == mem[a][i].v
           e == <<a, i>>
           new == [k |-> memDeleted, v |-> old]
<1>3. ASSUME NEW c \in Addresses, NEW q \in Items
      PROVE  mem'[c][q] = IF c = a /\ q = i THEN new ELSE mem[c][q]
  <2>1. call.op # "read" /\ mem' = [mem EXCEPT ![a] = NewCell(mem[a], i)]
    BY <1>1
  <2> HIDE DEF new
  <2>2. mem'[c][q] =
          IF c = a /\ q = i
            THEN IF call.op = "write" THEN [k |-> call.k, v |-> call.v]
                                      ELSE [k |-> memDeleted, v |-> mem[a][i].v]
            ELSE mem[c][q]
    BY <1>2, <2>1, WrittenSlot
  <2> QED BY <2>2 DEF new
<1>4. ASSUME NEW s \in Addresses \X Items
      PROVE  mem'[s[1]][s[2]] = IF s = e THEN new ELSE mem[s[1]][s[2]]
  <2>1. s[1] \in Addresses /\ s[2] \in Items /\ (s = e <=> s[1] = a /\ s[2] = i)
    OBVIOUS
  <2>2. mem'[s[1]][s[2]] = IF s[1] = a /\ s[2] = i THEN new ELSE mem[s[1]][s[2]]
    BY <1>3, <2>1
  <2> QED BY <2>1, <2>2
<1>5. e \in Addresses \X Items /\ old \in Value
      /\ mem[e[1]][e[2]] = [k |-> call.k, v |-> old]
  BY <1>1, <1>2 DEF Sought, Cell
<1> HIDE DEF e, old
<1>6. ASSUME NEW k \in Key, NEW v \in Value
      PROVE  Cardinality(Places(mem', k, v)) =
               IF k = call.k /\ v = old THEN Cardinality(Places(mem, k, v)) - 1
                                        ELSE Cardinality(Places(mem, k, v))
  <2>1. new # [k |-> k, v |-> v]
    BY TableAssumption
  <2>2. CASE k = call.k /\ v = old
    <3>1. Places(mem', k, v) = Places(mem, k, v) \ {e} /\ e \in Places(mem, k, v)
      BY <1>4, <1>5, <2>1, <2>2 DEF Places
    <3> QED BY <2>2, <3>1, PlacesFinite, FS_RemoveElement
  <2>3. CASE ~(k = call.k /\ v = old)
    <3>1. e \notin Places(mem, k, v)
      BY <1>5, <2>3 DEF Places
    <3>2. Places(mem', k, v) = Places(mem, k, v)
      BY <1>4, <2>1, <3>1 DEF Places
    <3> QED BY <2>3, <3>2
  <2> QED BY <2>2, <2>3
<1>7. \A k, v : Count(k, v)' = Cardinality(Places(mem', k, v))
  BY DEF Count, Places
<1>8. ASSUME NEW p \in Key \X Value
      PROVE  Bag'[p] = IF p = <<call.k, old>> THEN Bag[p] - 1 ELSE Bag[p]
  <2>1. p[1] \in Key /\ p[2] \in Value
        /\ (p = <<call.k, old>> <=> p[1] = call.k /\ p[2] = old)
    OBVIOUS
  <2>2. Bag'[p] = Cardinality(Places(mem', p[1], p[2]))
        /\ Bag[p] = Cardinality(Places(mem, p[1], p[2]))
    BY <1>7, CountIs DEF Bag
  <2> QED BY <1>6, <2>1, <2>2
<1>9. Bag[<<call.k, old>>] > 0
  <2>1. e \in Places(mem, call.k, old)
    BY <1>5 DEF Places
  <2>2. Cardinality(Places(mem, call.k, old)) # 0
    BY <2>1, PlacesFinite, FS_EmptySet
  <2>3. Bag[<<call.k, old>>] = Cardinality(Places(mem, call.k, old))
    BY <1>2, <1>5, CountIs DEF Bag
  <2> QED BY <2>2, <2>3, PlacesFinite
<1>10. Bag' = [Bag EXCEPT ![<<call.k, old>>] = Bag[<<call.k, old>>] - 1]
  BY <1>2, <1>5, <1>8 DEF Bag
<1> QED BY <1>5, <1>9, <1>10

(* A pair in a slot is in the bag.                                         *)
LEMMA StoredCounts ==
  ASSUME NEW c \in Addresses, NEW i \in Items, NEW k \in Key, NEW v \in Value,
         mem[c][i] = [k |-> k, v |-> v]
  PROVE  Bag[<<k, v>>] > 0
<1>1. <<c, i>> \in Places(mem, k, v)
  BY DEF Places
<1>2. Cardinality(Places(mem, k, v)) # 0 /\ Cardinality(Places(mem, k, v)) \in Nat
  BY <1>1, PlacesFinite, FS_EmptySet
<1>3. Bag[<<k, v>>] = Cardinality(Places(mem, k, v))
  BY CountIs DEF Bag
<1> QED BY <1>2, <1>3

(* A read or a delete that has probed every cell of its path has not       *)
(* overlooked a pair.                                                      *)
LEMMA NothingOverlooked ==
  ASSUME TypeInv, TableInv, pc = "probe", j = size, ~resized, call.op # "write",
         NEW v \in Value
  PROVE  Bag[<<call.k, v>>] = 0
<1>1. call.k \in Key
  BY DEF TypeInv, TypeOK
<1>2. ASSUME NEW s \in Addresses \X Items PROVE s \notin Places(mem, call.k, v)
  <2> SUFFICES ASSUME s \in Places(mem, call.k, v) PROVE FALSE
    OBVIOUS
  <2>1. s[1] \in Addresses /\ s[2] \in Items /\ mem[s[1]][s[2]].k = call.k
    BY DEF Places
  <2>2. s[1] \in ProbePath(call.k)
    BY <1>1, <2>1 DEF TableInv, EntriesOnProbePath
  <2>3. PICK n \in 0..(j - 1) : s[1] = Probe(call.k, n)
    BY <2>2 DEF ProbePath
  <2> QED BY <2>1, <2>3 DEF TableInv, SeenInv, Sought
<1>3. Places(mem, call.k, v) = {}
  BY <1>2 DEF Places
<1>4. Bag[<<call.k, v>>] = Cardinality(Places(mem, call.k, v))
  BY <1>1, CountIs DEF Bag
<1> QED BY <1>3, <1>4, FS_EmptySet
-----------------------------------------------------------------------------
(* Step by step, the table does what the bag does.                         *)
LEMMA BagCall ==
  ASSUME NEW o \in {"read", "write", "delete"}, NEW k \in Key, NEW v \in Value,
         Call(o, k, v)
  PROVE  Pairs!Next
<1>1. pc = "idle" /\ pc' = "probe" /\ call' = [op |-> o, k |-> k, v |-> v]
      /\ UNCHANGED <<mem, phase, ret, resized>>
  BY DEF Call, pathoram
<1>2. BagPhase = "idle" /\ BagPhase' = "called" /\ Bag' = Bag
  BY <1>1, SameBag DEF BagPhase
<1>3. Pairs!Call(o, k, v)
  BY <1>1, <1>2 DEF Pairs!Call, BagPhase, Bag
<1> QED BY <1>3 DEF Pairs!Next

LEMMA BagStutter ==
  ASSUME UNCHANGED <<mem, resized, call, ret>>, BagPhase' = BagPhase
  PROVE  UNCHANGED Pairs!vars
<1>1. Bag' = Bag
  BY SameBag
<1> QED BY <1>1 DEF Pairs!vars, BagPhase, Bag

LEMMA BagHidden ==
  ASSUME TypeInv,
         ReadCell \/ Change \/ NextCell \/ WriteCell \/ (OramStep /\ pc = "read")
  PROVE  UNCHANGED Pairs!vars
<1>1. /\ UNCHANGED <<mem, resized, call, ret>>
      /\ pc \in {"probe", "read", "change"}
      /\ pc' \in {"probe", "read", "change"} \/ (pc' = "write" /\ phase' = "called")
  <2>1. CASE OramStep /\ pc = "read"
    BY <2>1, OramStepIs DEF table
  <2> QED
    BY <2>1 DEF ReadCell, Change, NextCell, WriteCell, Oram!Invoke, Oram!Return
<1>2. BagPhase' = BagPhase
  BY <1>1 DEF BagPhase
<1> QED BY <1>1, <1>2, BagStutter

LEMMA BagWrite ==
  ASSUME TypeInv, TableInv, OramStep, pc = "write"
  PROVE  Pairs!Next
<1>1. /\ phase = "called" /\ phase' = "done" /\ pc' = "write"
      /\ UNCHANGED <<resized, call, ret>>
  BY OramStepIs DEF table
<1>2. BagPhase = "called" /\ BagPhase' = "done"
  BY <1>1 DEF BagPhase
<1>3. CASE call.op = "write"
  <2>1. Bag' = [Bag EXCEPT ![<<call.k, call.v>>] = Bag[<<call.k, call.v>>] + 1]
    BY <1>3, WriteStores
  <2>2. Pairs!Store
    BY <1>1, <1>2, <1>3, <2>1 DEF Pairs!Store, Pairs!Change, BagPhase, Bag
  <2> QED BY <2>2 DEF Pairs!Next, Pairs!Step
<1>4. CASE call.op = "delete"
  <2>1. PICK v \in Value :
          /\ Bag[<<call.k, v>>] > 0
          /\ Bag' = [Bag EXCEPT ![<<call.k, v>>] = Bag[<<call.k, v>>] - 1]
    BY <1>4, DeleteRemoves
  <2>2. Pairs!Change(v, Bag[<<call.k, v>>] - 1)
    BY <1>1, <1>2, <2>1 DEF Pairs!Change, BagPhase, Bag
  <2>3. Pairs!Remove
    BY <1>4, <2>1, <2>2 DEF Pairs!Remove, Bag
  <2> QED BY <2>3 DEF Pairs!Next, Pairs!Step
<1> QED BY <1>3, <1>4 DEF TypeInv, TypeOK

LEMMA BagFound ==
  ASSUME TypeInv, TableInv, Found
  PROVE  Pairs!Next
<1>1. /\ pc = "read" /\ phase = "done" /\ pc' = "idle" /\ call.op = "read"
      /\ Wanted # {} /\ ret' = data[Min(Wanted)].v
      /\ UNCHANGED <<mem, call, resized>>
  BY DEF Found, Oram!Return
<1>2. data = mem[a] /\ a = Probe(call.k, j)
  BY <1>1 DEF TableInv, CellInv, PathInv
<1>3. a \in Addresses /\ call.k \in Key
  BY <1>2, ProbeType DEF TypeInv, TypeOK
<1>4. Min(Wanted) \in Items /\ mem[a][Min(Wanted)].k = call.k
  BY <1>1, <1>2, WantedMin, WantedIs DEF Sought
<1>5. ret' \in Value /\ mem[a][Min(Wanted)] = [k |-> call.k, v |-> ret']
  BY <1>1, <1>2, <1>3, <1>4 DEF TypeInv, TypeOK, Cell
<1>6. Bag[<<call.k, ret'>>] > 0
  BY <1>3, <1>4, <1>5, StoredCounts
<1>7. BagPhase = "called" /\ BagPhase' = "idle" /\ Bag' = Bag
  BY <1>1, SameBag DEF BagPhase
<1>8. Pairs!Answer(ret')
  BY <1>1, <1>7 DEF Pairs!Answer, BagPhase, Bag
<1>9. Pairs!Found
  BY <1>1, <1>5, <1>6, <1>8 DEF Pairs!Found, Bag
<1> QED BY <1>9 DEF Pairs!Next, Pairs!Step

LEMMA BagGiveUp ==
  ASSUME TypeInv, TableInv, GiveUp
  PROVE  Pairs!Next
<1>1. /\ pc = "probe" /\ pc' = "idle" /\ j >= size
      /\ ret' = IF call.op = "read" THEN None ELSE FALSE
      /\ UNCHANGED <<mem, phase, call, resized>>
  BY DEF GiveUp, Tries, pathoram
<1>2. j = size
  BY <1>1 DEF TypeInv, TypeOK
<1>3. BagPhase = "called" /\ BagPhase' = "idle" /\ Bag' = Bag
  BY <1>1, SameBag DEF BagPhase
<1>4. Pairs!Answer(IF call.op = "read" THEN None ELSE FALSE)
  BY <1>1, <1>3 DEF Pairs!Answer, BagPhase, Bag
<1>5. CASE call.op = "write"
  <2>1. Pairs!Dropped
    BY <1>4, <1>5 DEF Pairs!Dropped
  <2> QED BY <2>1 DEF Pairs!Next, Pairs!Step
<1>6. CASE call.op # "write"
  <2>1. ~resized => \A v \in Value : Bag[<<call.k, v>>] = 0
    BY <1>1, <1>2, <1>6, NothingOverlooked
  <2>2. call.op \in {"read", "delete"}
    BY <1>6 DEF TypeInv, TypeOK
  <2>3. Pairs!NotFound
    BY <1>4, <2>1, <2>2 DEF Pairs!NotFound, Bag
  <2> QED BY <2>3 DEF Pairs!Next, Pairs!Step
<1> QED BY <1>5, <1>6

LEMMA BagReturn ==
  ASSUME Return
  PROVE  Pairs!Next
<1>1. /\ pc = "write" /\ phase = "done" /\ pc' = "idle" /\ ret' = (call.op = "delete")
      /\ UNCHANGED <<mem, call, resized>>
  BY DEF Return, Oram!Return
<1>2. BagPhase = "done" /\ BagPhase' = "idle" /\ Bag' = Bag
  BY <1>1, SameBag DEF BagPhase
<1>3. Pairs!Return
  BY <1>1, <1>2 DEF Pairs!Return, BagPhase, Bag
<1> QED BY <1>3 DEF Pairs!Next, Pairs!Step

LEMMA BagResize ==
  ASSUME NEW newL \in Heights, Resize(newL)
  PROVE  Pairs!Next
<1>1. /\ pc = "idle" /\ pc' = "idle" /\ resized' = TRUE
      /\ UNCHANGED <<mem, phase, call, ret>>
  BY DEF Resize, Oram!Grow
<1>2. BagPhase = "idle" /\ BagPhase' = "idle" /\ Bag' = Bag
  BY <1>1, SameBag DEF BagPhase
<1>3. Pairs!Resize
  BY <1>1, <1>2 DEF Pairs!Resize, BagPhase, Bag
<1> QED BY <1>3 DEF Pairs!Next

LEMMA BagNext ==
  ASSUME TypeInv, TableInv, [Next]_vars
  PROVE  [Pairs!Next]_(Pairs!vars)
<1>1. CASE \E k \in Key : Call("read", k, None) \/ Call("delete", k, None)
  BY <1>1, BagCall, TableAssumption
<1>2. CASE \E k \in Key, v \in Value : Call("write", k, v)
  BY <1>2, BagCall
<1>3. CASE ReadCell \/ Change \/ NextCell \/ WriteCell
  BY <1>3, BagHidden
<1>4. CASE OramStep
  BY <1>4, OramStepIs, BagHidden, BagWrite
<1>5. CASE Found
  BY <1>5, BagFound
<1>6. CASE GiveUp
  BY <1>6, BagGiveUp
<1>7. CASE Return
  BY <1>7, BagReturn
<1>8. CASE \E newL \in Heights : Resize(newL)
  BY <1>8, BagResize
<1>9. CASE UNCHANGED vars
  <2>1. UNCHANGED <<mem, resized, call, ret, pc, phase>>
    BY <1>9 DEF vars, pathoram, table
  <2>2. BagPhase' = BagPhase
    BY <2>1 DEF BagPhase
  <2> QED BY <2>1, <2>2, BagStutter
<1> QED
  BY <1>1, <1>2, <1>3, <1>4, <1>5, <1>6, <1>7, <1>8, <1>9 DEF Next, Step

LEMMA BagInit == Init => Pairs!Init
<1> SUFFICES ASSUME Init PROVE Pairs!Init
  OBVIOUS
<1>1. /\ pc = "idle" /\ call \in [op : {"read"}, k : Key, v : {None}]
      /\ ret = None /\ resized = FALSE
  BY DEF Init
<1>2. \A c \in Addresses, i \in Items : mem[c][i].k \notin Key
  BY TableAssumption DEF Init, Oram!Init, EmptyCell
<1>3. ASSUME NEW p \in Key \X Value PROVE Bag[p] = 0
  <2>1. Places(mem, p[1], p[2]) = {}
    BY <1>2 DEF Places
  <2> QED BY <2>1, CountIs, FS_EmptySet DEF Bag
<1>4. Bag = [p \in Key \X Value |-> 0]
  BY <1>3 DEF Bag
<1>5. call \in [op : {"read"}, k : Key, v : Value]
  BY <1>1, TableAssumption
<1> QED BY <1>1, <1>4, <1>5 DEF Pairs!Init, Bag

(* read and deleteByKey find a pair of the key if one is stored, of all    *)
(* the pairs written and not deleted, in whatever order writes and deletes *)
(* came; no call changes any other pair.                                   *)
THEOREM ImplementsPairStore == Spec => IsPairStore
<1>1. TypeInv /\ TableInv /\ [Next]_vars => [Pairs!Next]_(Pairs!vars)
  BY BagNext
<1> QED
  BY <1>1, BagInit, TableInvHolds, PTL DEF Spec, IsPairStore

=============================================================================
