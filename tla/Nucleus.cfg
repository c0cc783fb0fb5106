SPECIFICATION Spec
CONSTANTS
  Logs = {a, b, c}
  ChanCap = 2
  BatchCap = 2
  MaxFaults = 1
  MaxCrashes = 2
  MaxRotations = 1
INVARIANTS TypeOK IndexSurvivesCrash PublishedIsDurable AtMostOneFrame RecoveryInOrder
PROPERTIES EveryLogSettles ImplementsWalLog
CHECK_DEADLOCK FALSE
