SPECIFICATION Spec
CONSTANTS
  t1 = t1
  t2 = t2
  send = send
  connect = connect
  Threads <- MCThreads
  Functions <- MCFunctions
  Types <- MCTypes
  KeyCap = 1
  Depth = 3
  MaxCalls = 3
  MaxOps = 3
INVARIANTS
  EnabledMeansPatched
  OriginReady
  StacksMatch
  SafeUnlessRaced
SYMMETRY MCSymmetry
CHECK_DEADLOCK FALSE
