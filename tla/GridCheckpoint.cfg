SPECIFICATION Spec
CONSTANTS
  BlockCount = 8
  ShardBits = 4
  BlockLimit = 8
  None = None
  TreeCount = 2
  ManifestBlocks = 1
  BeatsPerCheckpoint = 1
  ReplicaCommits = FALSE
  MaxBeats = 3
  MaxReserve = 1
  MaxCrashes = 1
INVARIANTS
  TypeOK
  CheckpointIsIntact
  PreviousIsIntact
  FirstOfItsReservation
  StorageIsDeterministic
CHECK_DEADLOCK FALSE
