SPECIFICATION Spec
CONSTANTS
  a = a
  b = b
  c = c
  Accounts = {a, b, c}
  Ids = {1, 2, 3, 4, 5}
  AmountMax = 3
  TimestampMax = 12
  Second = 1
  AccountBatches <- OneByOne
  TransferBatches <- Batches
  MaxOps = 5
  MaxGap = 1
  None = None
INVARIANTS
  TypeOK
  BalancesAreHistory
  LimitsHold
  ResolvedOnce
  NoExpiryIsMissed
  AssertionsHold
PROPERTIES
  HistoryOnlyGrows
CHECK_DEADLOCK FALSE
