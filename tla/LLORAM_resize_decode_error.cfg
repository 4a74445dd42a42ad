CONSTANTS
  Z_block = 2
  InitL = 1
  MaxL = 3
  Addr = {5}
  Val = {0}
  Zero = 0
  IntRange = 8
  Ops = {"read"}
  SingleRound <- TwoRounds
SPECIFICATION Spec
VIEW MaskView
INVARIANTS NoDecodeError
