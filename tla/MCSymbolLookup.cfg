SPECIFICATION LookupSpec
CONSTANTS
  a = a
  b = b
  c = c
  d = d
  NoName = NoName
  None = None
  N = 4
  Names <- MCNames
  Hash <- MCHash
  Buckets = 2
  Word = 4
  Words = 2
  Shift = 4
PROPERTY FindsSymbol
CHECK_DEADLOCK FALSE
