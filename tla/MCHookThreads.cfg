SPECIFICATION TSpec
CONSTANTS
  thumb4 = thumb4
  thumb5 = thumb5
  p1 = p1
  p2 = p2
  x1 = x1
  NULL = NULL
  Targets <- MCTargets
  WithProto <- MCTargets
  Pages <- MCPages
  Boundaries <- MCBoundaries
  Threads <- MCThreads
  Wide <- MCWide
  Cap = 2
  CountBound = 9
INVARIANTS
  ThreadsTypeOK
  SafeUnlessExposed
  NothingSkipped
CHECK_DEADLOCK FALSE
