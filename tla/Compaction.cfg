SPECIFICATION SearchSpec
CONSTANTS
  Frames = {f1, f2}
  MaxTx = 2
  MaxSegments = 2
  MaxFaults = 1
  MaxCrashes = 2
INVARIANTS TypeOK RowsConserved ArchivedAtMostOnce ArchivedRowsLeaveRam AnswersAreComplete
PROPERTIES NoDuplicateIngestion EvictionSparesTheLog CompactionEnds
CHECK_DEADLOCK FALSE
