-------------------------- MODULE MCTechnicianWork --------------------------
(* Instances of TechnicianWork for TLC: two items of work and a labour charge. *)
EXTENDS TechnicianWork, TLC

CONSTANTS w1, w2, l1

WorkAndLabour == {w1, w2, l1}

\* Ids of a kind, and the slots of the foremen, are interchangeable.
IdSymmetry ==
  Permutations(Technicians) \cup Permutations({w1, w2}) \cup Permutations(Office)
=============================================================================
