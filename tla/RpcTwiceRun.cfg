CONSTANTS
  t1 = t1
  t2 = t2
  Callers <- TwoCallers
  MaxXid = 3
  MaxResend = 1
  MaxRestart = 0
  Lossy = FALSE
SPECIFICATION Spec
INVARIANT AtMostOnce
CHECK_DEADLOCK FALSE
