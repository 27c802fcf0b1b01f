CONSTANTS
  Threads = {t1, t2, t3}
  Names = {a, b}
  Infos = {i1, i2, i3, i4, i5}
  MaxInstance = 2
  NULL = NULL
  Restless = a
SPECIFICATION Spec
ACTION_CONSTRAINT OneRestless
INVARIANTS TypeOK HeldIsMapped OnlyFailedBindCrashes
PROPERTIES FailedIsForgotten
CHECK_DEADLOCK FALSE
