SPECIFICATION Spec
CONSTANTS
  Txs = {t1, t2, t3, t4}
  Namespaces = {m, n}
  Capacity = 2
  Clients = {c}
  MaxLeaves = 9
INVARIANTS TypeOK LocationIsRight ChainIsIntact LinkedToThePast ProofsVerify EveryPathVerifies
CHECK_DEADLOCK FALSE
