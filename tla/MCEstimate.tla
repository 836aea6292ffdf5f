----------------------------- MODULE MCEstimate -----------------------------
(* Estimate on a small instance: one advisor, one customer, one request at *)
(* the parts desk, each of which the others overtake.                      *)
EXTENDS Estimate

MCItems == 1..2
=============================================================================
