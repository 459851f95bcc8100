SPECIFICATION FairSpec
CONSTANTS
  every = every
  some = some
  invalid = invalid
  Pages <- MCPages
  Filters = {every, some, invalid}
  InvalidFilters = {invalid}
  Selected <- MCSelected
  PageSize = 1
  MaxRows = 3
  MaxMoves = 3
INVARIANTS
  ShowsWhatWasAsked
  FreshAfterReload
  NothingMissed
  EmptyMeansNone
PROPERTIES
  Settles
CHECK_DEADLOCK FALSE
