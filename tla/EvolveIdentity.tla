---------------------------- MODULE EvolveIdentity ----------------------------
(***************************************************************************)
(* What the customer synchronisation promises to whoever needs a           *)
(* customer's Evolve id: the local customer learns one and keeps it.       *)
(* EvolveCustomers is shown to implement it for a customer that has a      *)
(* reference of its own, and says when one without it does not.            *)
(***************************************************************************)
EXTENDS Naturals

VARIABLE customer   \* cust_sequence_id of the local row

NoId == 0   \* a placeholder in cust_sequence_id

IsPlaceholder(id) == id = NoId

Learn(id) ==
  /\ IsPlaceholder(customer) /\ ~IsPlaceholder(id)
  /\ customer' = id

Identity == IsPlaceholder(customer) /\ [][Learn(customer')]_customer
==============================================================================
