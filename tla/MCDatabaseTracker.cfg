SPECIFICATION Spec
CONSTANTS
  h1 = h1
  s1 = s1
  a = a
  b = b
  NoName = NoName
  Handles = {h1, s1}
  Names = {a, b}
  SyncHandles = {s1}
  Estimates = {1, 3}
  Quotas = {0, 2}
  Width = 2
  MaxPaths = 3
  MaxPages = 1
  MaxRequests = 4
SYMMETRY Symmetry
INVARIANTS
  TrackerInvariant
  UsageComplete
  QuotaKept
CHECK_DEADLOCK FALSE
