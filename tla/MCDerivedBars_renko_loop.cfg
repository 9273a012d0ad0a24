\* Renko with the least reversal count the code admits.
CONSTANTS
  Kinds = {"renko"}
  Prices = {1, 4, 6}
  Box = 2
  Reversal = 1
  Threshold = 6
  LinesBack = 1
  Capacity = 2
  FeedCap = 3
  MaxTape = 4
  MaxId = 60
SPECIFICATION FairSpec
PROPERTY CatchesUp
CHECK_DEADLOCK FALSE
