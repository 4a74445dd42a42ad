\* SetL from two trees to three between any two calls. Buckets of one block:
\* the blocks of addresses 1 and 5 compete for the roots of trees 2 and 3.
\* Address 5 exists after SetL only, address 1 before.
CONSTANTS
  Z_block = 1
  InitL = 2
  MaxL = 3
  Addr = {1, 5}
  Val = {0}
  Zero = 0
  IntRange = 8
  Ops = {"read"}
  SingleRound <- TwoRounds
SPECIFICATION Spec
VIEW MaskView
INVARIANTS OneCopy BlocksOnPath PointersAgree SearchReachesBlock StashDrained BucketBound
