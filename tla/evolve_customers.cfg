SPECIFICATION CustomerSpec
CONSTANTS
  Pushes = {p1, p2, p3}
  Imports = {i1, i2}
  MaxIds = 2
PROPERTIES
  IdentityStands
  EngineKept
CHECK_DEADLOCK FALSE
