CONSTANTS
  A = A
  B = B
  a1 = a1
  a2 = a2
  b1 = b1
  l1 = l1
  l2 = l2
  None = None
  Locks = {l1}
  Clients <- MCClients
  Workers <- MCWorkers2
  ClientOf <- MCClientOf2
  MaxTimeouts = 0
SPECIFICATION Spec
INVARIANT MutualExclusion
CHECK_DEADLOCK FALSE
