SPECIFICATION Spec
CONSTANTS
  w1 = w1
  w2 = w2
  q1 = q1
  NULL = NULL
  Windows <- MCWindows
  Queues <- MCQueues
  PipeCap = 3
  MaxNudges = 1
INVARIANT ActivityStateDocumented
CHECK_DEADLOCK FALSE
