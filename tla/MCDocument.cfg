SPECIFICATION Spec
CONSTANTS
  h1 = h1
  h2 = h2
  w1 = w1
  w2 = w2
  r1 = r1
  r2 = r2
  NoTransaction = NoTransaction
  Transactions <- TwoReadersOneHandle
  ReadOnly <- BothReadOnly
  Handles <- TwoHandles
  HandleOf <- ReadersOnH2
  NameOf <- SameName
  CallbackSets <- TransactionCallbackOnly
  StatementKinds <- WithCallbacks
  MaxStatements <- NoStatements
  MaxQuotaIncreases = 1
  MainThread = "context"
  Requests <- DocumentRequests
INVARIANTS
  StepsTakeTurns
  SqliteTransactionsIsolated
  LocksReturned
  SynchronousTasksSurvive
  ClosesOnlyOpenDatabases
\* Scripts may ask for nothing more.
CHECK_DEADLOCK FALSE
