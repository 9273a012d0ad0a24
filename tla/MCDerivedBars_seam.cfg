\* Seven kinds, seeds of any length, events that pile up during the seed, a lagging receiver.
CONSTANTS
  Kinds = {"range", "volume", "dollar", "renko", "pnf", "kagi", "tlb"}
  Prices = {1, 4, 6}
  Box = 2
  Reversal = 2
  Threshold = 6
  LinesBack = 1
  Capacity = 2
  FeedCap = 3
  MaxTape = 4
  MaxId = 60
SPECIFICATION FairSpec
INVARIANTS TypeOK ExactAfterSeam EachTradeOnce ChartVolume Chained
PROPERTIES CatchesUp
CHECK_DEADLOCK FALSE
