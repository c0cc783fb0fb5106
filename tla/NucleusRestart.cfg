SPECIFICATION Spec
CONSTANTS
  Logs = {a, b, c}
  ChanCap = 2
  BatchCap = 2
  MaxFaults = 0
  MaxCrashes = 1
  MaxRotations = 1
INVARIANT PublishedSurvivesRestart
CHECK_DEADLOCK FALSE
