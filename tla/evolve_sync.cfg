SPECIFICATION Spec
CONSTANTS
  Hooks = {1, 2}
  Sweepers = {11, 12}
  MaxAttempts = 2
  MaxRos = 2
  MaxData = 3
  ModelMode = "ENFORCE"
  EngineMode = "ENFORCE"
  Seeds <- MCSeeds
INVARIANTS
  NumberIsOurs
  OneRo
  SyncedIsFresh
PROPERTIES
  Settles
CHECK_DEADLOCK FALSE
