CONSTANTS
  w1 = w1
  w2 = w2
  a1 = a1
  a2 = a2
  a3 = a3
  Workers <- TwoWorkers
  Adders <- ThreeAdders
  MaxQueue = 2
  MaxJobs = 5
SPECIFICATION Spec
INVARIANTS TypeOK
PROPERTIES DestructorReturns AcceptedRuns
CHECK_DEADLOCK FALSE
