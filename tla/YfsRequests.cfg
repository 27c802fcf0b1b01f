CONSTANTS
  c1 = c1
  c2 = c2
  root = root
  d1 = d1
  f1 = f1
  f2 = f2
  a = a
  b = b
  data = data
  None = None
  NoEntry = NoEntry
  Root = root
  Clients <- MCClients
  Dirs <- MCDirs
  Files <- TwoFiles
  Names <- MCNames
  Ops <- AllOps
  MaxRequests = 2
  Data <- MCData
SPECIFICATION Spec
INVARIANTS TypeOK EntriesExist
PROPERTIES ImplementsNamespace AnsweredUnlessKept
CHECK_DEADLOCK FALSE
