CONSTANTS
  c1 = c1
  c2 = c2
  w1 = w1
  w2 = w2
  w3 = w3
  root = root
  file = file
  empty = empty
  short = short
  long = long
  None = None
  NoEntry = NoEntry
  IOERR = IOERR
  Clients <- MCClients
  Workers <- MCWorkers
  ClientOf <- MCClientOf
  Extents <- MCExtents
  Values <- MCValues
  Root <- root
  Empty <- empty
  Size <- MCSize
SPECIFICATION Spec
INVARIANTS TypeOK NothingStaleKept
PROPERTIES ImplementsExtentStore
CHECK_DEADLOCK FALSE
