--------------------------- MODULE MCServiceVisit ---------------------------
(***************************************************************************)
(* Instances of ServiceVisit for TLC: two visits; one of them with one job *)
(* card and, where the run says so, the other with a second one.           *)
(***************************************************************************)
EXTENDS ServiceVisit, TLC

CONSTANTS v1, v2, j1, j2

\* Job cards of the instances.
BothOfOne == (j1 :> v1) @@ (j2 :> v1)
OnlyOne == (j1 :> v1)

\* What a foreman does with bays; a redeemed pass frees them too.
FloorEndpoints ==
  {"createBay", "deleteBay", "confirmVehicleEntry", "allocateToBay", "reallocate",
   "releaseAllocation", "approveJobCard", "recordPayment", "redeem"}

\* What moves one visit from the gate to the gate.
VisitEndpoints ==
  {"confirmVehicleEntry", "allocateToBay", "approveJobCard", "startTechnicianWork",
   "completeItemWork", "signOffJobCard", "rejectJobCard", "submitInspection",
   "markReadyForRelease", "recordPayment", "redeem"}

\* The same with everything a foreman does to move a vehicle between bays.
SerialEndpoints == VisitEndpoints \cup {"updateBay", "reallocate", "releaseAllocation"}

BaySymmetry == Permutations(Bays) \cup Permutations(Allocations) \cup Permutations(Requests)
=============================================================================
