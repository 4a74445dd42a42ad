SPECIFICATION Spec
CONSTANTS
  k1 = k1
  k2 = k2
  ZeroKey = zero
  Key = {zero, k1, k2}
  ZeroValue = v0
  Value = {v0, v1}
  Word <- Words
  C = 3
  LastProbe = 1
  Counts = {1,2}
INVARIANTS TypeOK EntriesAreFound CountsEntries
PROPERTY AddSetsOneKey
CONSTRAINT MBound
