SPECIFICATION Spec
CONSTANTS
  a = a
  b = b
  x = x
  y = y
  Objects <- MCObjects
  Value <- MCValue
  MovedFrom = MovedFrom
  Raw = Raw
  Elements = 2
INVARIANTS
  TypeOK
  IndicesTellSize
  OccupiedIsLive
PROPERTY ImplementsQueue
