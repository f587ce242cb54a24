SPECIFICATION Spec
CONSTANTS
  PageSize = 8
  Bases <- MCBases
  Sizes <- MCSizes
  Functions <- MCArm
  Reach = 14
  MaxSlices = 6
INVARIANT EnoughRoom
CHECK_DEADLOCK FALSE
