SPECIFICATION Spec
CONSTANTS
  a = a
  b = b
  c = c
  Accounts = {a, b, c}
  Ids = {1, 2, 3, 4, 5}
  AmountMax = 3
  TimestampMax = 12
  Second = 1
  AccountBatches <- Openings
  TransferBatches <- ChainedTransfers
  MaxOps = 3
  MaxGap = 2
  None = None
PROPERTIES
  CachesAgree
  ChainsAreAtomic
CHECK_DEADLOCK FALSE
