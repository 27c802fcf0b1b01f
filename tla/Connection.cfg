CONSTANTS
  None = None
  Owner = Owner
  Objects <- TwoConns
  Fds = {f1}
  Senders = {s1, s2}
  PduSize = 1
  MaxSends = 2
  MaxIn = 2
SPECIFICATION Spec
ACTION_CONSTRAINT SecondReceives
INVARIANTS TypeOK  
PROPERTIES SendReturns GonePeerNoticed RefusedIsOffered
CHECK_DEADLOCK FALSE
