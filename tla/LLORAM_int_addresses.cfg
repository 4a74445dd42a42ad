\* 2^(L - 2) block numbers in tree L - 1 and an int of as many values: L = 34
\* and the 2^32 values of the code's int. The last block number and the -1 of
\* a dummy block are then the same int.
CONSTANTS
  Z_block = 1
  InitL = 3
  MaxL = 3
  Addr = {4}
  Val = {0, 1}
  Zero = 0
  IntRange = 2
  Ops = {"read", "write"}
  SingleRound <- TwoRounds
SPECIFICATION SpecH
VIEW MaskViewH
PROPERTY ReadsReturnWritten
