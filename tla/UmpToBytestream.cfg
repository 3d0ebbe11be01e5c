SPECIFICATION MCSpec
CONSTANTS
  Input <- MCInput
  Filters <- MCFilters
  MaxSysex = 12
INVARIANTS
  TypeOK
  NothingRefused
  RunningStatusShared
  InStep
PROPERTY ImplementsSender
