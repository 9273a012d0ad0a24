\* Disconnects, overflows, failed pulls and crashes, with and without a log.
CONSTANTS
  Persist = {TRUE, FALSE}
  DefaultLimit = 1
  MaxLimit = 2
  Warm = 2
  FeedCap = 2
  MaxBars = 3
  MaxUpdates = 1
  MaxFaults = 2
  MaxStarts = 2
SPECIFICATION FairSpec
INVARIANTS TypeOK NoHole RingIsAhead LogIsAhead
PROPERTIES EmittedInOrder EveryBarArrives
CHECK_DEADLOCK FALSE
