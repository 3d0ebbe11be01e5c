SPECIFICATION MCAnyResetSpec
CONSTANTS
  Input <- MCInput
  Filters <- MCFilters
  MaxSysex = 12
INVARIANT InStep
