SPECIFICATION FairSpec
CONSTANTS
  ra1 = ra1
  ra2 = ra2
  wa1 = wa1
  wa2 = wa2
  rb = rb
  wb = wb
  NoTransaction = NoTransaction
  Transactions <- MCTransactions
  ReadOnly <- MCReadOnly
  DatabaseName <- MCDatabaseName
INVARIANTS
  TypeOK
  MutualExclusion
  LockBookkeeping
  NoMissedGrant
  RolledBackOnShutdown
PROPERTIES
  NoOvertaking
  RefinesTransactionLock
  EveryWaiterServed
\* After shutdown() the coordinator is never used again.
CHECK_DEADLOCK FALSE
