SPECIFICATION Spec
CONSTANTS
  N = 3
  BootOps = 1
  MaxOp = 3
  MaxView = 1
  NoHeader = NoHeader
  NoJoin = NoJoin
CONSTRAINT MissedPrepare
INVARIANTS
  HeadersNeverConflict
CHECK_DEADLOCK FALSE
