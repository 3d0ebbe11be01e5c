SPECIFICATION MCSpec
CONSTANTS
  Input <- MCInput
  Filters <- MCFilters
  MaxSysex = 12
INVARIANT TuneRequestTranslated
