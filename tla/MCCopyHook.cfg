SPECIFICATION FairSpec
CONSTANTS
  injected = injected
  reader = reader
  writer = writer
  Threads <- MCThreads
  Installer = injected
  MaxCalls = 2
  Depth = 2
  MaxInstalls = 2
INVARIANTS
  PageWhole
  SafeOnceDone
PROPERTIES
  ServedOnceDone
  CallReturns
CHECK_DEADLOCK FALSE
