SPECIFICATION Spec
CONSTANTS
  v1 = v1
  v2 = v2
  j1 = j1
  j2 = j2
  NoStatus = NoStatus
  NoCheckIn = NoCheckIn
  NoBay = NoBay
  NoJobCard = NoJobCard
  NoAllocation = NoAllocation
  CheckIns = {v1, v2}
  Bays = {b1, b2}
  JobCards = {j1, j2}
  CheckInOf <- BothOfOne
  Allocations = {a1, a2}
  Requests = {r1}
  Endpoints <- SerialEndpoints
  MaxFailures = 0
SYMMETRY BaySymmetry
INVARIANTS
  OpenIsPointed
  BayOnlyInWorkshop
  StatusFollowsInspection
  CardStatusTellsWork
  ReservationFollowsFloor
PROPERTY
  ImplementsBoard
