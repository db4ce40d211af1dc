SPECIFICATION Spec
CONSTANTS
  Clients = {a, b}
  ClientsMax = 1
  PipelineMax = 2
  None = None
  MaxView = 1
  MaxOp = 4
  MaxRequest = 1
INVARIANTS
  SessionFollowsClient
  EvictedHasNoSession
  RequestIsServed
SYMMETRY ClientSymmetry
CHECK_DEADLOCK FALSE
