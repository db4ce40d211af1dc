SPECIFICATION Spec
CONSTANTS
  Clients = {a, b}
  ClientsMax = 2
  PipelineMax = 2
  None = None
  MaxView = 0
  MaxOp = 4
  MaxRequest = 1
INVARIANTS
  RequestsAreSequential
SYMMETRY ClientSymmetry
CHECK_DEADLOCK FALSE
