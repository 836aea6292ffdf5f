--------------------------- MODULE EvolveCustomers ---------------------------
(***************************************************************************)
(* A local customer, its vehicle and the dealer system Evolve: the push    *)
(* that makes the customer there (services/customerEvolveSync), its sweep, *)
(* and the import of what a search finds (services/evolveCustomerPersist). *)
(*                                                                         *)
(* A push reads the customer, sends one message and writes the answer back *)
(* in statements of their own, and nothing keeps two of them apart: the    *)
(* sweep of this table takes no lock.  An import writes its customer in a  *)
(* transaction and the vehicles afterwards, each by a read and a write.    *)
(* Evolve is external: it answers the same customer when it is sent a      *)
(* reference it knows, and may have no engine number for the vehicle.  A   *)
(* customer that the booking wizard makes has a blank reference and is     *)
(* sent with that: Evolve may recognise it by something else, or make one  *)
(* more customer of it.                                                    *)
(* EVOLVE_COMPANY_AWARE_PUSH is off, its default, and the sync is enabled  *)
(* and not frozen.                                                         *)
(***************************************************************************)
EXTENDS EvolveIdentity

CONSTANTS
  Pushes,       \* pushes of the customer in flight at most
  Imports,      \* searches that persist what they found, in flight at most
  MaxIds        \* bound: customers Evolve makes

ASSUME CustomersAssumption == MaxIds \in Nat

VARIABLES
  referenced,   \* whether the local customer has a reference of its own
  twins,        \* Evolve ids of the rows that imports made
  issued,       \* customers Evolve has made for our row
  engine,       \* engine number of the local vehicle
  push,         \* push -> the call in flight
  import        \* import -> the vehicle it is about to write

customerVars == <<customer, referenced, twins, issued, engine, push, import>>

BlankNumber == "blank"

Engine == {BlankNumber, "number"}

\* raced: another push was in flight at the same time.
Push == [at : {"idle", "sent", "made", "write"}, id : 0 .. MaxIds, raced : BOOLEAN]

NoPush == [at |-> "idle", id |-> NoId, raced |-> FALSE]

Import == [at : {"idle", "read", "write", "retry", "rewrite"}, brings : Engine, saw : Engine]

NoImport == [at |-> "idle", brings |-> BlankNumber, saw |-> BlankNumber]

CustomerInit ==
  /\ customer = NoId /\ twins = {} /\ issued = 0
  /\ referenced \in BOOLEAN /\ engine \in Engine
  /\ push = [p \in Pushes |-> NoPush]
  /\ import = [i \in Imports |-> NoImport]

-----------------------------------------------------------------------------
(* Push.                                                                   *)

PushesInFlight == {p \in Pushes : push[p].at # "idle"}

Sent(p) ==
  push' = [o \in Pushes |->
             IF o = p THEN [at |-> "sent", id |-> NoId, raced |-> PushesInFlight # {}]
             ELSE IF o \in PushesInFlight THEN [push[o] EXCEPT !.raced = TRUE]
             ELSE push[o]]

PushReadAny(p) ==
  /\ push[p].at = "idle"
  /\ Sent(p)
  /\ UNCHANGED <<customer, referenced, twins, issued, engine, import>>

\* The call that follows createCustomer or a booking, or one of the sweep: a row with a real id is
\* let be.
PushRead(p) ==
  /\ push[p].at = "idle"
  /\ IsPlaceholder(customer)
  /\ Sent(p)
  /\ UNCHANGED <<customer, referenced, twins, issued, engine, import>>

\* Evolve knows the customer by the reference the message carries.
Known == referenced /\ issued > 0

Answered(p, id) == push' = [push EXCEPT ![p].at = "made", ![p].id = id]

Make(p) ==
  /\ push[p].at = "sent"
  /\ \/ \E id \in 1 .. issued : Answered(p, id) /\ UNCHANGED issued
     \/ ~Known /\ issued < MaxIds /\ issued' = issued + 1 /\ Answered(p, issued + 1)
  /\ UNCHANGED <<customer, referenced, twins, engine, import>>

\* Refused, timed out, or answered without an id: the placeholder stays.
PushFails(p) ==
  /\ push[p].at \in {"sent", "made"}
  /\ push' = [push EXCEPT ![p] = NoPush]
  /\ UNCHANGED <<customer, referenced, twins, issued, engine, import>>

\* Another row that holds the id keeps it.
PushAnswered(p) ==
  /\ push[p].at = "made"
  /\ push' = [push EXCEPT ![p] = IF push[p].id \in twins THEN NoPush ELSE [@ EXCEPT !.at = "write"]]
  /\ UNCHANGED <<customer, referenced, twins, issued, engine, import>>

\* uq_customers_crm_and_sequence: the answer brings Evolve's reference along with the id.
IdIsFree(id) == id \notin twins

PushWrite(p) ==
  /\ push[p].at = "write"
  /\ customer' = IF IdIsFree(push[p].id) THEN push[p].id ELSE customer
  /\ push' = [push EXCEPT ![p] = NoPush]
  /\ UNCHANGED <<referenced, twins, issued, engine, import>>

PushStops(p) ==
  /\ push[p].at # "idle"
  /\ push' = [push EXCEPT ![p] = NoPush]
  /\ UNCHANGED <<customer, referenced, twins, issued, engine, import>>

-----------------------------------------------------------------------------
(* Import of a search's result, and the vehicle's other writers.           *)

\* A row that holds the id is updated, else one is inserted.
ImportCustomer(i) ==
  /\ import[i].at = "idle"
  /\ \E id \in 1 .. issued, brings \in Engine :
       /\ twins' = IF id = customer THEN twins ELSE twins \cup {id}
       /\ import' = [import EXCEPT ![i] = [at |-> "read", brings |-> brings, saw |-> BlankNumber]]
  /\ UNCHANGED <<customer, referenced, issued, engine, push>>

ImportReadVehicle(i) ==
  /\ import[i].at \in {"read", "retry"}
  /\ import' = [import EXCEPT ![i].at = IF @ = "read" THEN "write" ELSE "rewrite", ![i].saw = engine]
  /\ UNCHANGED <<customer, referenced, twins, issued, engine, push>>

Unfilled(brings, saw) == brings

\* A blank of Evolve's never replaces a number that was seen here.
Filled(brings, saw) == IF brings = BlankNumber THEN saw ELSE brings

ImportWriteVehicle(i) ==
  /\ import[i].at \in {"write", "rewrite"}
  /\ engine' = Filled(import[i].brings, import[i].saw)
  /\ import' = [import EXCEPT ![i] = NoImport]
  /\ UNCHANGED <<customer, referenced, twins, issued, push>>

\* Another vehicle has the registration: once more, without it.
ImportClashes(i) ==
  /\ import[i].at = "write"
  /\ import' = [import EXCEPT ![i].at = "retry"]
  /\ UNCHANGED <<customer, referenced, twins, issued, engine, push>>

ImportStops(i) ==
  /\ import[i].at # "idle"
  /\ import' = [import EXCEPT ![i] = NoImport]
  /\ UNCHANGED <<customer, referenced, twins, issued, engine, push>>

\* The vehicle's form, or the job card's, brings the number.
Capture ==
  /\ engine' = "number"
  /\ UNCHANGED <<customer, referenced, twins, issued, push, import>>

CustomerNext ==
  \/ \E p \in Pushes :
       PushRead(p) \/ Make(p) \/ PushFails(p) \/ PushAnswered(p) \/ PushWrite(p) \/ PushStops(p)
  \/ \E i \in Imports :
       \/ ImportCustomer(i) \/ ImportReadVehicle(i) \/ ImportWriteVehicle(i)
       \/ ImportClashes(i) \/ ImportStops(i)
  \/ Capture

CustomerSpec == CustomerInit /\ [][CustomerNext]_customerVars

-----------------------------------------------------------------------------
(* Properties.                                                             *)

CustomerTypesOK ==
  /\ customer \in 0 .. MaxIds /\ twins \subseteq 1 .. MaxIds /\ issued \in 0 .. MaxIds
  /\ referenced \in BOOLEAN
  /\ engine \in Engine
  /\ push \in [Pushes -> Push]
  /\ import \in [Imports -> Import]

\* Two local customers never stand for the same customer of Evolve, however pushes and imports overlap.
OneRowPerId == customer \notin twins

\* A push that overlapped another writes the id it brought over the one that is there.
Overwrites(p) ==
  /\ push[p].at = "write" /\ push[p].raced
  /\ customer' = push[p].id

\* A customer learns one Evolve id and keeps it, whatever pushes repeat, fail or lose their answer.
\* Without a reference of its own it may be given another, by a push that overlapped the one it
\* learned from and by no other.
IdentityStands ==
  /\ IsPlaceholder(customer)
  /\ [][Learn(customer') \/ (~referenced /\ \E p \in Pushes : Overwrites(p))]_customer

\* An import loses a vehicle's engine number only if that was captured after the import had looked.
EngineKept ==
  [][engine # BlankNumber /\ engine' = BlankNumber
       => \E i \in Imports : import[i].at \in {"write", "rewrite"} /\ import[i].saw = BlankNumber]_engine
==============================================================================
