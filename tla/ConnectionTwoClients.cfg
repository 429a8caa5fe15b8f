SPECIFICATION Spec
CONSTANTS
  t1 = t1
  t2 = t2
  s1 = s1
  s2 = s2
  s3 = s3
  s4 = s4
  s5 = s5
  Clients = {t1, t2}
  Sockets = {s1, s2}
  Free = Free
  NSlots = 2
  Timeouts <- ZeroTimeout
  MaxTime = 3
  MaxSuspends = 0
CHECK_DEADLOCK FALSE
INVARIANTS
  TypeOK
  AnswersAreTruthful
  SocketInOneSlot
  DeadlineKeepsSlot
  AnswerQueueHasRoom
SYMMETRY Symmetry
