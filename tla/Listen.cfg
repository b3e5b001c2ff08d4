SPECIFICATION Spec
CONSTANTS
  Conns = {c1, c2, c3}
  max = 2
CHECK_DEADLOCK FALSE
INVARIANTS PoolBound NoLostWakeup
PROPERTIES AcceptProgress EveryConnectionServed
