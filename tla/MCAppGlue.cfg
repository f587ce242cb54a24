SPECIFICATION FairSpec
CONSTANTS
  w1 = w1
  w2 = w2
  q1 = q1
  NULL = NULL
  Windows <- MCWindows
  Queues <- MCQueues
  PipeCap = 2
  MaxNudges = 2
INVARIANTS
  TypeOK
  UsesLentWindow
  FreedLast
PROPERTIES
  SaveReturnsFresh
  OldStateUntilResume
  ImplementsLease
  ReturnsOrPipeFull
CHECK_DEADLOCK FALSE
