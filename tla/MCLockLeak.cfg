SPECIFICATION FairSpec
CONSTANTS
  h1 = h1
  h2 = h2
  w1 = w1
  w2 = w2
  r1 = r1
  r2 = r2
  NoTransaction = NoTransaction
  Transactions <- TwoWriters
  ReadOnly <- NoReadOnly
  Handles <- TwoHandles
  HandleOf <- HandleOfTransaction
  NameOf <- SameName
  CallbackSets <- TransactionCallbackOnly
  StatementKinds <- WithCallbacks
  MaxStatements <- NoStatements
  MaxQuotaIncreases = 1
  MainThread = "context"
  Requests <- DeleteDatabaseRequest
PROPERTIES
  TransactionsFinish
\* Scripts may ask for nothing more.
CHECK_DEADLOCK FALSE
