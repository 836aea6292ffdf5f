SPECIFICATION FairSpec
CONSTANTS
  v1 = v1
  v2 = v2
  j1 = j1
  j2 = j2
  NoStatus = NoStatus
  NoCheckIn = NoCheckIn
  NoBay = NoBay
  NoJobCard = NoJobCard
  NoAllocation = NoAllocation
  CheckIns = {v1}
  Bays = {b1}
  JobCards = {j1}
  CheckInOf <- OnlyOne
  Allocations = {a1, a2}
  Requests = {r1, r2}
  Endpoints <- VisitEndpoints
  MaxFailures = 0
INVARIANTS
  ActiveVisitIsQueued
  RedeemedIsClosing
PROPERTIES
  TransientStatusMovesOn
CHECK_DEADLOCK FALSE
