SPECIFICATION Spec
CONSTANTS
  w1 = w1
  w2 = w2
  l1 = l1
  NoItem = NoItem
  Nobody = Nobody
  Items <- WorkAndLabour
  Labour = {l1}
  Technicians = {t1, t2}
  Floor = {r1}
  Office = {r2, r4}
SYMMETRY IdSymmetry
CHECK_DEADLOCK FALSE
INVARIANTS
  ReviewedWorkIsDone
  FinishedCardIsHandedOver
  OneTimerPerTechnician
  DoneItemHasNoTimer
