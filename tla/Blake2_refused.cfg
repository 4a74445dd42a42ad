\* Digests of one byte; callers ask for one and for two.
SPECIFICATION SpecR
CONSTANTS
  BlockSize = 2
  WordRange = 4
  Byte = {0, 1}
  Keys <- NoKey
  DigestSize = 1
  Sizes = {1, 2}
  MaxMessage = 3
INVARIANT DigestRestarts
