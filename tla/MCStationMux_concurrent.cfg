\* Every interleaving of two subscribers and a forced teardown.
CONSTANTS
  c1 = c1
  c2 = c2
  c3 = c3
  f1 = f1
  f2 = f2
  p1 = p1
  Clients = {c1, c2}
  Forcers = {f1}
  Flushers = {}
  NumTimers = 2
  MaxGen = 2
  Modulus = 4
  Configs <- ConcurrentConfigs
  Disconnects = TRUE
  Overlaps = TRUE
SPECIFICATION Spec
SYMMETRY Symmetry
INVARIANTS TypeOK NoOrphanForwarder MuxMeansLive ExitLeavesNoTrace CountDrift
