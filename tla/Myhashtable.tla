---------------------------- MODULE Myhashtable ----------------------------
(***************************************************************************)
(* Myhashtable.h: Myhastable, open addressing in up to 64 byte buckets of  *)
(* C = bucketSize / 28 slots, a slot being a 20-byte key and an 8-byte     *)
(* value.  The third word of a key chooses the bucket; the probe sequence  *)
(* alternates between the other two and adds i*i.  Nothing is deleted, and *)
(* a slot is empty when its key is zero.                                   *)
(*                                                                         *)
(* ContainsKey and ReadValue change nothing and are operators.  SaveToFile *)
(* writes a header and one bucket after the other; the process may end in  *)
(* between, and stdio may have written any part of it by then (here: any   *)
(* number of slots).  Left out are tables of more than 64 buckets or of    *)
(* different bucket sizes (both overrun memory), a file without its        *)
(* header, and a cut-off file that is loaded into a table of fewer buckets *)
(* (new byte[] is not cleared).                                            *)
(***************************************************************************)
EXTENDS Naturals, Sequences, FiniteSets, SequencesExt

CONSTANTS
  Key, ZeroKey,       \* the keys used; 20 zero bytes
  Value, ZeroValue,
  Word,               \* Word[k] = <<word 0, word 1, bucket word % 67>>
  C,                  \* slots of a bucket
  LastProbe,          \* i of the last probe: 50000, as j is counted twice
  Counts              \* the bucket counts of the constructor

ASSUME HashtableAssumption ==
  /\ ZeroValue \in Value
  /\ Word \in [Key \cup {ZeroKey} -> Nat \X Nat \X Nat]
  /\ C \in Nat \ {0} /\ LastProbe \in Nat
  /\ Counts \subseteq Nat \ {0}

VARIABLES
  bucketCounter, M,
  bucket,             \* bucket[i], the slots of the buckets allocated
  file,               \* the file: its header and the buckets in it
  saving,             \* SaveToFile is writing
  cut                 \* history: the table comes from a file that was cut off

vars == <<bucketCounter, M, bucket, file, saving, cut>>

Slots == 0..(C - 1)
Slot == [key : Key \cup {ZeroKey}, value : Value]
EmptyBucket == [s \in Slots |-> [key |-> ZeroKey, value |-> ZeroValue]]
NoFile == [count |-> 0, M |-> 0, buckets |-> <<>>, cut |-> FALSE]
-----------------------------------------------------------------------------
bucketNumber(k) == Word[k][3] % bucketCounter

addr(k, i) == (Word[k][1 + (i % 2)] + i * i) % C
pData(k, i) == bucket[bucketNumber(k)][addr(k, i)]

(* The probes that end the loop: the key itself or an empty slot.          *)
Ends(k) == {i \in 0..LastProbe : pData(k, i).key \in {k, ZeroKey}}

ContainsKey(k) == Ends(k) # {} /\ pData(k, Min(Ends(k))).key = k
ReadValue(k) == pData(k, Min(Ends(k))).value

Construct(count) ==
  /\ bucketCounter' = count /\ M' = 0
  /\ bucket' = [i \in 0..(count - 1) |-> EmptyBucket]

Init ==
  /\ \E count \in Counts :
       /\ bucketCounter = count /\ M = 0
       /\ bucket = [i \in 0..(count - 1) |-> EmptyBucket]
  /\ file = NoFile /\ saving = FALSE /\ cut = FALSE

(* Slip: the probes of Add do not alternate between the words.             *)
AddedAt_Word0(k) == (Word[k][1] + Min(Ends(k))^2) % C
AddedAt(k) == addr(k, Min(Ends(k)))

Counted(k) == IF ContainsKey(k) THEN 0 ELSE 1

(* Add also returns whether M grew.  It does nothing when the probe limit  *)
(* is reached.                                                             *)
Add(k, v) ==
  /\ ~saving /\ Ends(k) # {}
  /\ bucket' = [bucket EXCEPT ![bucketNumber(k)][AddedAt(k)] =
                                 [key |-> k, value |-> v]]
  /\ M' = M + Counted(k)
  /\ UNCHANGED <<bucketCounter, file, saving, cut>>

SaveToFile ==
  /\ ~saving
  /\ saving' = TRUE
  /\ file' = [count |-> bucketCounter, M |-> M, buckets |-> <<>>, cut |-> cut]
  /\ UNCHANGED <<bucketCounter, M, bucket, cut>>

SaveBucket ==
  /\ saving /\ Len(file.buckets) < bucketCounter
  /\ file' = [file EXCEPT !.buckets = Append(@, bucket[Len(@)])]
  /\ UNCHANGED <<bucketCounter, M, bucket, saving, cut>>

CloseFile ==
  /\ saving /\ Len(file.buckets) = bucketCounter
  /\ saving' = FALSE
  /\ UNCHANGED <<bucketCounter, M, bucket, file, cut>>

(* The process ends and a new one makes a table of its own.  Of a file     *)
(* being written there are n buckets and the first m slots of another.     *)
FirstBuckets(n, m) ==
  LET whole == SubSeq(file.buckets, 1, n)
  IN  IF m = 0 THEN whole
      ELSE Append(whole, [s \in 0..(m - 1) |-> file.buckets[n + 1][s]])

Restart(count) ==
  /\ Construct(count)
  /\ \/ saving /\ \E n \in 0..(Len(file.buckets) - 1), m \in 0..C :
                     file' = [file EXCEPT !.buckets = FirstBuckets(n, m)]
     \/ (saving => file.buckets = <<>>) /\ file' = file
  /\ saving' = FALSE /\ cut' = FALSE

CutOff == Len(file.buckets) < file.count \/ DOMAIN Last(file.buckets) # Slots

(* What bucket i holds after fread: what the file has of it, and what it   *)
(* held before where the file has nothing.                                 *)
(* Slip: bucket 0 is skipped.                                              *)
Loaded_Skip(i) == IF i \in DOMAIN bucket \ 1..(Len(file.buckets) - 1)
                    THEN bucket[i] ELSE file.buckets[i + 1]
Loaded(i) ==
  [s \in Slots |->
     IF i < Len(file.buckets) /\ s \in DOMAIN file.buckets[i + 1]
       THEN file.buckets[i + 1][s] ELSE bucket[i][s]]

(* Slip: the number of buckets stays that of the constructor.              *)
LoadedCounter_Kept == bucketCounter
LoadedCounter == file.count

(* Slip: the buckets that the constructor did not make are not allocated.  *)
Allocated_Constructor == DOMAIN bucket
Allocated == DOMAIN bucket \cup 0..(file.count - 1)

LoadFromFile ==
  /\ ~saving /\ file # NoFile
  /\ CutOff => 0..(file.count - 1) \subseteq DOMAIN bucket
  /\ bucketCounter' = LoadedCounter /\ M' = file.M
  /\ bucket' = [i \in Allocated |->
                  IF i < file.count THEN Loaded(i) ELSE bucket[i]]
  /\ cut' = (file.cut \/ CutOff)
  /\ UNCHANGED <<file, saving>>

Next ==
  \/ \E k \in Key, v \in Value : Add(k, v)
  \/ SaveToFile \/ SaveBucket \/ CloseFile
  \/ \E count \in Counts : Restart(count)
  \/ LoadFromFile

Spec == Init /\ [][Next]_vars
-----------------------------------------------------------------------------
TypeOK ==
  /\ bucketCounter \in Nat \ {0} /\ M \in Nat
  /\ saving \in BOOLEAN /\ cut \in BOOLEAN
  /\ 0..(bucketCounter - 1) \subseteq DOMAIN bucket
  /\ \A i \in DOMAIN bucket : bucket[i] \in [Slots -> Slot]
  /\ file.count \in Nat /\ file.M \in Nat
  /\ Len(file.buckets) <= file.count
  /\ \A i \in DOMAIN file.buckets : \A s \in DOMAIN file.buckets[i] :
       s \in Slots /\ file.buckets[i][s] \in Slot

(* The slots that hold a key.                                              *)
Entries == {e \in (0..(bucketCounter - 1)) \X Slots :
              bucket[e[1]][e[2]].key \in Key \ {ZeroKey}}

(* Every entry is what ReadValue and ContainsKey find under its key: no    *)
(* key has two entries and none is behind an empty slot, also after keys   *)
(* were added to a table that was loaded from a file, and after an earlier *)
(* file was cut off.                                                       *)
EntriesAreFound ==
  ~cut => \A e \in Entries :
    LET k == bucket[e[1]][e[2]].key
    IN  ContainsKey(k) /\ e = <<bucketNumber(k), addr(k, Min(Ends(k)))>>

(* What a caller sees of a key.                                            *)
Seen(k) == IF ContainsKey(k) THEN <<ReadValue(k)>> ELSE <<>>

(* Add sets the value of its key and is seen by no other key, whichever    *)
(* probes they share; the zero key changes nothing.                        *)
AddSetsOneKey ==
  [][\A k \in Key, v \in Value : ~cut /\ Add(k, v) =>
       \A o \in Key \ {ZeroKey} :
         Seen(o)' = IF o = k THEN <<v>> ELSE Seen(o)]_vars

(* M is the number of entries, through overwriting, saving and loading,    *)
(* unless a file was cut off: its header counts what it does not hold.     *)
CountsEntries == ~cut => M = Cardinality(Entries)
=============================================================================
