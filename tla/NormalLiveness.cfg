SPECIFICATION CommitSpec
CONSTANTS
  a = a
  b = b
  noop = noop
  N = 2
  Primary = 0
  Requests = {a}
  Bodyless = {}
  Pulse = Pulse
  Root = Root
  NoHeader = NoHeader
  PipelineMax = 2
  MaxOp = 2
  MaxQueue = 0
  MaxLost = 1
  Duplication = FALSE
PROPERTIES
  QuorumLeadsToExecution
  BackupCatchesUp
CHECK_DEADLOCK FALSE
