SPECIFICATION FairSpec
CONSTANTS
  k1 = k1
  k2 = k2
  v = v
  Null = Null
  Untouched = Untouched
  Keys <- MCKeys
  Values <- MCValues
  MaxiumItemsToSync = 1
  MaxChanges = 4
INVARIANTS
  WriteBackInvariant
  WrittenAtShutdown
  SuddenTerminationDisabled
PROPERTIES
  EventuallyWritten
\* A closed area does nothing any more.
CHECK_DEADLOCK FALSE
