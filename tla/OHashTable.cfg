SPECIFICATION Spec
CONSTANTS
  k1 = k1
  k2 = k2
  memEmpty = memEmpty
  memDeleted = memDeleted
  None = none
  Key = {k1, k2}
  Value = {none, v1}
  Hash <- Overlapping
  IntRange = 16
  WordRange = 64
  InitL = 2
  Heights = {3}
  Items_Size = 1
INVARIANTS TypeOK EntriesOnProbePath DroppedOnlyWhenFull
PROPERTIES IsPairStore CallsReturn
