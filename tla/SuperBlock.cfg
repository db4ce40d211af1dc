SPECIFICATION Spec
CONSTANTS
  Copies = 4
  Faulty = Faulty
  Idle = Idle
  None = None
  MaxView = 1
  MaxCheckpoint = 1
  MaxCrashes = 2
  MaxFaults = 1
INVARIANTS
  TypeOK
  NeverPanics
  AlwaysRecoverable
PROPERTIES
  Durable
  NoUpdateIsUndone
  ViewsBecomeDurable
CHECK_DEADLOCK FALSE
