-------------------------- MODULE MCRoStatusTrail --------------------------
(* Instances of RoStatusTrail for TLC. *)
EXTENDS RoStatusTrail, TLC

\* Three statuses that overlapping handlers ask for: a sign-off, a passed QC and an
\* allocation.
SomeTargets == {"QC_OUT", "QC_PASSED", "IN_WORKSHOP"}

CallSymmetry == Permutations(Calls)
=============================================================================
