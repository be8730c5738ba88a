SPECIFICATION Spec
CONSTANTS
  h1 = h1
  h2 = h2
  h3 = h3
  v1 = v1
  v2 = v2
  Handles <- MCHandles
  SyncHandles <- BothSync
  Versions <- MCVersions
  CommitMayFail = TRUE
  MaxDeletions = 1
SYMMETRY SyncSymmetry
INVARIANTS
  TypeOK
  OpenHandlesAreCached
  CacheIsCurrent
PROPERTIES
  OpenVerifiesVersion
\* Every handle is used once.
CHECK_DEADLOCK FALSE
