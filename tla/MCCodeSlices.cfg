SPECIFICATION Spec
CONSTANTS
  PageSize = 8
  Bases <- MCBases
  Sizes <- MCSizes
  Functions <- MCFunctions
  Reach = 14
  MaxSlices = 6
INVARIANT SoundUnlessMistested
PROPERTY InReach
CHECK_DEADLOCK FALSE
