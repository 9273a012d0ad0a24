\* Commands sent across failures of the network, a shutdown and dropped handles.
CONSTANTS
  s1 = s1
  s2 = s2
  Specs = {s1, s2}
  NoSpec = NoSpec
  MaxAttempts = 1
  AuthModes = {TRUE, FALSE}
  MayRefuse = TRUE
  MaxFails = 2
  MaxCmds = 3
SPECIFICATION FairSpec
INVARIANTS TypeOK ExchangeAgrees NothingForgotten
PROPERTIES WantedIsServed ShutdownStops
CHECK_DEADLOCK FALSE
