SPECIFICATION Spec
CONSTANTS
  B = 2
  Capacity = 1
  Value = {v0, v1}
  ZeroValue = v0
PROPERTY IsArray
INVARIANT TypeInv
