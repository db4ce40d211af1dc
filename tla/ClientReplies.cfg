SPECIFICATION Spec
CONSTANTS
  Clients = {a, b, c}
  ClientsMax = 2
  ReadsMax = 1
  WritesMax = 2
  CheckpointOps = 2
  None = None
  Corrupt = Corrupt
  MaxOp = 4
  MaxFaults = 1
INVARIANTS
  DurableIsWritten
  AssertionsHold
PROPERTIES
  ParkedCommitResumes
CHECK_DEADLOCK FALSE
