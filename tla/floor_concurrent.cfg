SPECIFICATION Spec
CONSTANTS
  v1 = v1
  v2 = v2
  j1 = j1
  j2 = j2
  NoStatus = NoStatus
  NoCheckIn = NoCheckIn
  NoBay = NoBay
  NoJobCard = NoJobCard
  NoAllocation = NoAllocation
  CheckIns = {v1, v2}
  Bays = {b1, b2}
  JobCards = {j1}
  CheckInOf <- OnlyOne
  Allocations = {a1, a2, a3}
  Requests = {r1, r2}
  Endpoints <- FloorEndpoints
  MaxFailures = 1
SYMMETRY BaySymmetry
INVARIANTS
  PointerIsOpen
