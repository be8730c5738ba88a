SPECIFICATION FairSyncSpec
CONSTANTS
  open = open
  close = close
  plain = plain
  load = load
  Messages <- MCMessages
  Synchronous <- MCSynchronous
  Modes <- MCModes
  ModeOf <- MCModeOf
INVARIANTS
  QueueInvariant
  ReturnsAfterPerforming
PROPERTIES
  RefinesTaskQueue
  WaitsReturn
\* Every message is sent once.
CHECK_DEADLOCK FALSE
