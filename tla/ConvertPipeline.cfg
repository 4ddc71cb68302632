SPECIFICATION Spec
CONSTANTS
  MaxTotal = 3
  PageLimit = 2
  MaxWorkers = 2
  Leftovers <- EarlierResults
INVARIANTS
  MetadataIsTrue
  PoolIsQuiet
  DeclaredIsOwn
  VerdictIsCounted
  NothingIsLeft
PROPERTIES
  ImplementsResult
CHECK_DEADLOCK FALSE
