\* Two subscribe calls that may overlap.
CONSTANTS
  c1 = c1
  c2 = c2
  c3 = c3
  f1 = f1
  f2 = f2
  p1 = p1
  Clients = {c1, c2}
  Forcers = {}
  Flushers = {}
  NumTimers = 2
  MaxGen = 2
  Modulus = 4
  Configs <- PlainStream
  Disconnects = FALSE
  Overlaps = TRUE
SPECIFICATION Spec
INVARIANTS OneForwarder
