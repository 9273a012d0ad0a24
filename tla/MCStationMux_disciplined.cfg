\* Calls that find the key at rest, a grace timer and a flusher.
CONSTANTS
  c1 = c1
  c2 = c2
  c3 = c3
  f1 = f1
  f2 = f2
  p1 = p1
  Clients = {c1, c2}
  Forcers = {f1}
  Flushers = {p1}
  NumTimers = 2
  MaxGen = 2
  Modulus = 4
  Configs <- DisciplinedConfigs
  Disconnects = TRUE
  Overlaps = FALSE
SPECIFICATION FairSpec
INVARIANTS HolderServed OneForwarder RegistriesServeHolder ForceMeansGone
PROPERTIES ForceReturnsAlways FlushReturnsAlways ImplementsSharedStream
