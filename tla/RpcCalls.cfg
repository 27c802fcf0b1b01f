CONSTANTS
  t1 = t1
  t2 = t2
  Callers <- TwoCallers
  MaxXid = 3
  MaxResend = 1
  MaxRestart = 1
  Lossy = TRUE
SPECIFICATION Spec
ACTION_CONSTRAINTS FirstCalls RestartIsQuiet
INVARIANTS TypeOK LiveCallRunsOnce ResultIsRight WindowIsExact
PROPERTY CancelEnds
CHECK_DEADLOCK FALSE
