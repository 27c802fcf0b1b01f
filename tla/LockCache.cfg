CONSTANTS
  A = A
  B = B
  a1 = a1
  a2 = a2
  b1 = b1
  l1 = l1
  l2 = l2
  None = None
  Locks = {l1, l2}
  Clients <- MCClients
  Workers <- MCWorkers
  ClientOf <- MCClientOf
  MaxTimeouts = 1
SPECIFICATION Spec
ACTION_CONSTRAINTS NotOvertaken SmallEnough
SYMMETRY Twins
INVARIANTS MutualExclusionUnlessOvertaken LockNotLost SleeperIsRemembered WaitersHaveAPredecessor
PROPERTIES ReleasedByOwner ImplementsLockToken
CHECK_DEADLOCK FALSE
