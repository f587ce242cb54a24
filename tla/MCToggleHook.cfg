SPECIFICATION FairSpec
CONSTANTS
  ui = ui
  worker = worker
  Nobody = Nobody
  Threads <- MCThreads
  Installer = ui
  MaxCalls = 3
  Depth = 4
  MaxInstalls = 2
INVARIANTS
  SafeInTurn
  HookedWhenQuiet
  WrapperSeesOriginal
PROPERTIES
  OriginalOnce
  CallReturns
CHECK_DEADLOCK FALSE
