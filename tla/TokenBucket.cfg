SPECIFICATION Spec
CONSTANTS
  Requests = {r1, r2}
  Rate = 3
  Burst = 2
  Second = 2
  Word = 8
  MaxTime = 4
  MaxSetBacks = 1
  MaxReloads = 1
INVARIANT WithinQuota
PROPERTY RefillsRespectBurst
