SPECIFICATION Spec
CONSTANTS
  Frames = {f1}
  MaxTx = 2
  MaxSegments = 2
  MaxFaults = 0
  MaxCrashes = 1
INVARIANT LogsConserved
CHECK_DEADLOCK FALSE
