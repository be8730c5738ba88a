SPECIFICATION Spec
CONSTANTS
  h1 = h1
  h2 = h2
  w1 = w1
  w2 = w2
  r1 = r1
  r2 = r2
  NoTransaction = NoTransaction
  Transactions <- OneTransaction
  ReadOnly <- NoReadOnly
  Handles <- OneHandle
  HandleOf <- HandleOfTransaction
  NameOf <- SameName
  CallbackSets <- EveryCallback
  StatementKinds <- WithCallbacks
  MaxStatements <- NoStatements
  MaxQuotaIncreases = 1
  MainThread = "main"
  Requests <- DeleteDatabaseRequest
INVARIANTS
  ClosesOnlyOpenDatabases
\* Scripts may ask for nothing more.
CHECK_DEADLOCK FALSE
