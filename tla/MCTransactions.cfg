SPECIFICATION FairSpec
CONSTANTS
  h1 = h1
  h2 = h2
  w1 = w1
  w2 = w2
  r1 = r1
  r2 = r2
  NoTransaction = NoTransaction
  Transactions <- QueueOnH1
  ReadOnly <- OneReadOnly
  Handles <- TwoHandles
  HandleOf <- HandleOfTransaction
  NameOf <- SameName
  CallbackSets <- CallbackSetsOf
  StatementKinds <- AllOrNone
  MaxStatements <- TwoOfW1
  MaxQuotaIncreases = 2
  MainThread = "context"
  Requests <- NoRequests
INVARIANTS
  CallbacksTellTheTruth
  StatementsInsideTransaction
  HandledErrorsContinue
PROPERTIES
  TransactionsFinish
\* Scripts may ask for nothing more.
CHECK_DEADLOCK FALSE
