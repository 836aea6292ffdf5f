SPECIFICATION Spec
CONSTANTS
  Appts <- MCAppts
  Vehicles <- MCVehicles
  Bays <- MCBays
  Days <- MCDays
  Requests <- MCRequests
  Starts <- MCStarts
  Lengths <- MCLengths
  Open = 0
  Close = 3
  SlotCapacity <- MCSlotCapacity
  MaxReschedules = 1
  PoolSize = 3
  Statuses = {"BOOKED", "CANCELLED"}
  Seeds <- MCSeeds
INVARIANTS
  NoDoubleBooking
  OneOpenAppointment
  SlotsKeepCapacity
PROPERTIES
  EveryRequestAnswered
CHECK_DEADLOCK FALSE
