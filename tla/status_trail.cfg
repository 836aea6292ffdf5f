SPECIFICATION TrailSpec
CONSTANTS
  NoStatus = NoStatus
  Calls = {k1, k2, k3, k4}
  Targets <- SomeTargets
SYMMETRY CallSymmetry
CHECK_DEADLOCK FALSE
INVARIANTS
  StatusIsLastCommitted
  OriginsHappened
