----------------------------- MODULE RoStatuses -----------------------------
(***************************************************************************)
(* The canonical repair-order (RO) status of a workshop visit and the      *)
(* statuses at which a vehicle leaves its bay (shared/utils/roStatus.ts).   *)
(***************************************************************************)

CONSTANT NoStatus    \* vehicle_check_ins.ro_status IS NULL

\* Statuses some handler passes to setRoStatus.
ReachedStatuses ==
  {"ARRIVED", "IN_WORKSHOP", "QC_OUT", "QC_FAILED", "QC_PASSED", "WASHBAY",
   "READY_FOR_RELEASE", "RELEASED", "CLOSED"}

\* Statuses of the canonical list that no handler sets today.
UnreachedStatuses ==
  {"QC_CHECK_IN", "DIAGNOSING", "AWAITING_APPROVAL", "APPROVED",
   "WAITING_FOR_PARTS", "REPAIRS_STARTED"}

RoStatus == ReachedStatuses \cup UnreachedStatuses

\* Mutant: a sign-off keeps the bay.
BayReleasingAfterQc ==
  {"QC_PASSED", "QC_FAILED", "WASHBAY", "READY_FOR_RELEASE", "RELEASED", "CLOSED"}

\* setRoStatus frees the bay of a check-in that moves to one of these.
BayReleasing ==
  {"QC_OUT", "QC_PASSED", "QC_FAILED", "WASHBAY", "READY_FOR_RELEASE",
   "RELEASED", "CLOSED"}

ASSUME NoStatusAssumption == NoStatus \notin RoStatus
=============================================================================
