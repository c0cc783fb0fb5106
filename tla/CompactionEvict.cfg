SPECIFICATION Spec
CONSTANTS
  Frames = {f1, f2}
  MaxTx = 2
  MaxSegments = 2
  MaxFaults = 1
  MaxCrashes = 1
PROPERTY EvictedRowsAreArchived
CHECK_DEADLOCK FALSE
