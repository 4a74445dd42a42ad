\* Both protocols, SetL from one tree to two between any two calls. No view:
\* this run is also about liveness. Address 2 is refused before SetL.
CONSTANTS
  Z_block = 2
  InitL = 1
  MaxL = 2
  Addr = {0, 1, 2}
  Val = {0, 1}
  Zero = 0
  IntRange = 8
  Ops = {"read", "write"}
  SingleRound <- BothProtocols
SPECIFICATION Spec
PROPERTIES IsBlockStore CallsReturn NoBlockLost
