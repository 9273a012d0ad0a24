\* Rotation, retention, disk errors and crashes, with and without payloads.
CONSTANTS
  BlobKinds = {TRUE, FALSE}
  Parts = 2
  DatCap = 3
  BlobCap = 2
  BlobLens = {1, 2}
  Retention = 1
  MaxTailDays = 2
  Limit = 2
  MaxDay = 3
  MaxRecs = 3
  MaxFaults = 2
SPECIFICATION Spec
INVARIANTS TypeOK OneDay TailIsNewest PayloadIsOwnUnlessAstray FlushedIsStored
PROPERTIES WindowOnlyGrows ImplementsDurableLog
CHECK_DEADLOCK FALSE
