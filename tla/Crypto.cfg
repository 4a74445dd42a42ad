\* Blocks of two bytes, messages of up to three blocks (the key's included), a
\* counter that carries within them; with a key and without one.
\* Or tails of one block (full groups) and of two (the last group padded), two
\* of them one after the other: up to eight groups, so that the counter wraps.
SPECIFICATION CryptoSpec
CONSTANTS
  BlockSize = 2
  WordRange = 4
  Byte = {0, 1}
  Keys <- NoKeyOrOne
  DigestSize = 1
  Sizes = {1, 2}
  MaxMessage = 5
  GroupSize = 2
  CounterSize = 1
  CounterRange = 5
  MaskSize = 1
  RawBlock = 3
  Z_block = 1
  MaxBlocks = 2
  MaxTails = 2
INVARIANTS LastBlockWaits TailsSurvive CiphertextsDiffer OutputFits
PROPERTY IsHashFunction
CHECK_DEADLOCK FALSE
