SPECIFICATION Spec
CONSTANTS
  malloc = malloc
  calloc = calloc
  free = free
  thumb = thumb
  NULL = NULL
  p1 = p1
  p2 = p2
  p3 = p3
  Targets <- MCTargets
  WithProto <- MCWithProto
  Pages <- MCPages
  Boundaries <- MCBoundaries
  Cap = 3
  CountBound = 5
INVARIANTS
  CodeMatchesRegistry
  ProtoReachesTrampoline
  HookedIsFlushed
  BoundariesExact
PROPERTIES
  LoopsVisitAll
  ImplementsTable
SYMMETRY MCSymmetry
CHECK_DEADLOCK FALSE
