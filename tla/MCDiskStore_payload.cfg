\* A crash between two writes of a store with payloads.
CONSTANTS
  BlobKinds = {TRUE}
  Parts = 2
  DatCap = 3
  BlobCap = 2
  BlobLens = {1, 2}
  Retention = 1
  MaxTailDays = 2
  Limit = 2
  MaxDay = 1
  MaxRecs = 2
  MaxFaults = 1
SPECIFICATION Spec
INVARIANT PayloadIsOwn
CHECK_DEADLOCK FALSE
