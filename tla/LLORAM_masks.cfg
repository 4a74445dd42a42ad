\* Four trees: the headers of tree 3 chain three masks.
CONSTANTS
  Z_block = 1
  InitL = 4
  MaxL = 4
  Addr = {0}
  Val = {0}
  Zero = 0
  IntRange = 16
  Ops = {"read"}
  SingleRound <- BothProtocols
SPECIFICATION Spec
VIEW MaskView
CONSTRAINT OnePathInTree4
INVARIANTS TypeInv TreeShape MaskChain SearchKeyInSync NoDecodeError
