SPECIFICATION Spec
CONSTANTS
  t1 = t1
  t2 = t2
  s1 = s1
  s2 = s2
  s3 = s3
  s4 = s4
  s5 = s5
  Clients = {t1}
  Sockets = {s1, s2, s3, s4, s5}
  Free = Free
  NSlots = 4
  Timeouts <- ZeroTimeout
  MaxTime = 6
  MaxSuspends = 1
CHECK_DEADLOCK FALSE
INVARIANT PoolNeverExhausted
SYMMETRY Symmetry
