SPECIFICATION Spec
CONSTANTS
  N = 3
  BootOps = 1
  MaxOp = 2
  MaxView = 1
  NoHeader = NoHeader
  NoJoin = NoJoin
INVARIANTS
  CommittedIsNeverTruncated
CHECK_DEADLOCK FALSE
