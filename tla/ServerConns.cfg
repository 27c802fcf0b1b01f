CONSTANTS
  k1 = k1
  Anonymous = Anonymous
  w1 = w1
  w2 = w2
  Clients <- TwoClients
  Workers <- TwoWorkers
  MaxQueue = 1
  MaxConns = 3
  MaxPdus = 2
SPECIFICATION Spec
ACTION_CONSTRAINTS LastIsQuiet AnonymousOnce FirstTakes
INVARIANTS TypeOK RefsExact LatestIsNewest
PROPERTIES DeadIsCollected DestructorReturns
CHECK_DEADLOCK FALSE
