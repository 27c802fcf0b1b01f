CONSTANTS
  t1 = t1
  t2 = t2
  t3 = t3
  l1 = l1
  l2 = l2
  Callers <- ThreeCallers
  Locks <- TwoLocks
  PoolSize = 3
  MaxSpurious = 1
SPECIFICATION ServerSpec
INVARIANTS ExclusionUnlessSpurious
PROPERTIES ReleaseHandsOver
CHECK_DEADLOCK FALSE
