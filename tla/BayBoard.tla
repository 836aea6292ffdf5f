------------------------------ MODULE BayBoard ------------------------------
(***************************************************************************)
(* What the bay board promises the foreman: every bay shows the one        *)
(* vehicle that stands in it, a vehicle stands in one bay at most, and a   *)
(* vehicle is put only where nobody stands.  ServiceVisit implements this  *)
(* with allocation rows and pointers when requests run one at a time.      *)
(***************************************************************************)
CONSTANTS Bays, Vehicles, Nobody

VARIABLE stands     \* bay -> the vehicle it shows

TypeOK == stands \in [Bays -> Vehicles \cup {Nobody}]

Init == stands = [b \in Bays |-> Nobody]

InBay(v) == {b \in Bays : stands[b] = v}

Enter(v, b) ==
  /\ InBay(v) = {}
  /\ stands[b] = Nobody
  /\ stands' = [stands EXCEPT ![b] = v]

Leave(v) ==
  /\ InBay(v) # {}
  /\ stands' = [b \in Bays |-> IF stands[b] = v THEN Nobody ELSE stands[b]]

Move(v, to) ==
  /\ InBay(v) # {}
  /\ stands[to] = Nobody
  /\ stands' = [b \in Bays |-> IF b = to THEN v ELSE IF stands[b] = v THEN Nobody ELSE stands[b]]

Next == \E v \in Vehicles : Leave(v) \/ \E b \in Bays : Enter(v, b) \/ Move(v, b)

Spec == Init /\ [][Next]_stands
=============================================================================
