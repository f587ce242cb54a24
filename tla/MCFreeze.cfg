SPECIFICATION Spec
CONSTANTS
  main = main
  worker = worker
  reader = reader
  h1 = h1
  h2 = h2
  shell = shell
  NULL = NULL
  Tids <- MCTids
  Late <- MCLate
  Main = main
  Helpers <- MCHelpers
  Others <- MCOthers
  Ops <- MCOps
INVARIANTS
  PatchWhileHeld
  ReturnMeansRunning
PROPERTIES
  ReturnsOrHangs
  StoppedRunAgain
CHECK_DEADLOCK FALSE
