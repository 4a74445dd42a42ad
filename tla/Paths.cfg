\* Every node of every tree of up to 6 levels, in a range where doubles are
\* exact (L <= 54 in the code); then every vector of up to three words of five
\* bits; then three numbers out of six of which three are excluded.
SPECIFICATION PathsSpec
CONSTANTS
  Width = 6
  Mantissa = 6
  W = 5
  MaxPaths = 3
  count = 3
  max = 6
  except = {0, 3, 4}
  Junk = {0, 9}
INVARIANTS
  NumbersArePaths EvictionComparesPaths LeafBelowNode AddressesFit
  PathsSurvive OverlapIsLongest CommonBeginning
PROPERTIES WalkEnds Ends
CHECK_DEADLOCK FALSE
