SPECIFICATION Spec
CONSTANTS
  Requests = {r1, r2}
  Rate = 3
  Burst = 2
  Second = 2
  Word = 8
  MaxTime = 3
  MaxSetBacks = 0
  MaxReloads = 0
INVARIANT NeverAboveBurst
