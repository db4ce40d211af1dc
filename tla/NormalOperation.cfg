SPECIFICATION Spec
CONSTANTS
  a = a
  b = b
  noop = noop
  N = 3
  Primary = 0
  Requests = {a, b}
  Bodyless = {}
  Pulse = Pulse
  Root = Root
  NoHeader = NoHeader
  PipelineMax = 1
  MaxOp = 2
  MaxQueue = 1
  MaxLost = 0
  Duplication = TRUE
INVARIANTS
  TypeOK
  Agreement
  ExecutedIsReplicated
  HeadWithinPipeline
  BackupsNeverPanic
PROPERTIES
  ImplementsCommittedLog
SYMMETRY RequestSymmetry
CHECK_DEADLOCK FALSE
