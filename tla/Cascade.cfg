SPECIFICATION Spec
CONSTANTS
  Sessions = {s}
  PerSession = 2
  Detached = {h}
  Spaces = {p, q}
  Phantoms = {q}
  QueueCap = 1
  EgressCap = 1
  Unmade = Unmade
INVARIANTS TypeOK NoThoughtIsOrphaned SessionOrder DrainIsComplete
  
PROPERTIES EveryThoughtSettles DrainEnds
CHECK_DEADLOCK FALSE
