SPECIFICATION FairSpec
CONSTANTS
  t1 = t1
  libc = libc
  wrapper = wrapper
  got = got
  relro = relro
  New = New
  NULL = NULL
  Raw = Raw
  Modules <- MCModules
  Transient <- MCTransient
  Bases <- MCBases
  Funcs <- MCFuncs
  Slots <- MCSlots
  Owner <- MCOwner
  Symbol <- MCSymbol
  Page <- MCPage
  Bound <- MCBound
  Filed <- MCFiled
  Pages <- MCPages
  Writable <- MCWritable
  Threads <- MCThreads
INVARIANTS
  ForwardsToDefinition
  CrashOnlyRaced
PROPERTIES
  HookedOnReturn
  SetHookReturns
CHECK_DEADLOCK FALSE
