\* One subscriber that comes back while the grace timer removes its entry.
CONSTANTS
  c1 = c1
  c2 = c2
  c3 = c3
  f1 = f1
  f2 = f2
  p1 = p1
  Clients = {c1}
  Forcers = {}
  Flushers = {}
  NumTimers = 1
  MaxGen = 2
  Modulus = 4
  Configs <- GraceStream
  Disconnects = FALSE
  Overlaps = TRUE
SPECIFICATION Spec
INVARIANTS HolderServed
