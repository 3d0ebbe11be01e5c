SPECIFICATION MCSpec
CONSTANTS
  x = x
  y = y
  Raw = Raw
  Key <- MCKey
  Value <- MCValue
  Accepted <- MCAccepted
  Sets = 2
  Depth = 2
PROPERTY OnlyFullSetsEvict
