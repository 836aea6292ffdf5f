SPECIFICATION Spec
CONSTANTS
  Visits <- MCVisits
  Inspections <- MCInspections
  Photos <- MCPhotos
  Clerks = {c1, c2}
  MinImages = 0
  MaxImages = 2
  Stages = {"Job Card (Draft)", "In Service"}
  Seeds <- MCSeeds
SYMMETRY ClerkSymmetry
INVARIANTS
  OneActiveVisit
  OneLiveInspection
  PhotosKept
CHECK_DEADLOCK FALSE
