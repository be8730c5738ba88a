SPECIFICATION FairSpec
CONSTANTS
  MaxMessages = 2
  MaxEvents = 3
INVARIANTS
  ProxyInvariant
  CollectedOnlyWhenIdle
PROPERTIES
  TerminatedWorkersEnd
\* An idle worker may stay.
CHECK_DEADLOCK FALSE
