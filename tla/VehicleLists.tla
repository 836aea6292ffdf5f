---------------------------- MODULE VehicleLists ----------------------------
(***************************************************************************)
(* The vehicles as the gate sees them (modules/vehicles/service.ts): the   *)
(* list of visits, the search before an entry, the history of a vehicle    *)
(* with its timeline, the numbers a vehicle may be given and the lookup by *)
(* VIN or registration.  The entries themselves are in VehicleVisits.      *)
(*                                                                         *)
(* `db` has its tables as sets of records: vehicles, checkIns, items (the  *)
(* lines of the visits' job cards that are not finished) and booked, the   *)
(* vehicles with an appointment that is BOOKED or CONFIRMED.  Null is NULL *)
(* or blank.                                                               *)
(***************************************************************************)
EXTENDS Integers, FiniteSets

Null == 0

InsideStatuses ==
  {"Entry (Draft)", "Vehicle IN", "Inspection (Draft)", "Inspection Done", "Job Card (Draft)",
   "Job Card (Pending Parts Approval)", "Job Card (Parts Approval Done)", "Job Card (Pending Cust. Approval)",
   "Job Card (Partial Cust. Approval)", "Job Card (Full Cust. Approval)", "In Service", "Ready for Billing"}

AllowReEntryStatuses == {"Job Card (Full Cust. Approval)", "In Service", "Ready for Billing"}

VisitsOf(db, v) == {c \in db.checkIns : c.vehicle = v.id}

Active(db, v) == {c \in VisitsOf(db, v) : c.active}

Latest(visits) == {c \in visits : \A d \in visits : d.time <= c.time}

\* Neither imported from Evolve nor removed: it came through the gate or is expected.
Real(db, v) == v.entry # Null \/ VisitsOf(db, v) # {} \/ v.id \in db.booked

ReEntered(v) == v.status = "Entry (Draft)" /\ v.entry = Null

-----------------------------------------------------------------------------
(* The list: a row for each vehicle and one for each visit before.         *)

NoQuery == [all |-> FALSE, customer |-> Null, filter |-> "none", status |-> "none", from |-> Null, to |-> Null]

Within(q, time) == (q.from = Null \/ q.from <= time) /\ (q.to = Null \/ time <= q.to)

InTab(q, v) ==
  CASE q.filter \in {"PENDING", "INSIDE"}         -> v.status \in InsideStatuses
    [] q.filter \in {"COMPLETED", "PENDING_EXIT"} -> v.status = "Completed"
    [] OTHER                                      -> q.status \in {"none", v.status}

\* A comparison with NULL is not true.
CurrentRows(db, q) ==
  {v \in db.vehicles :
     /\ q.all \/ v.id \notin db.booked
     /\ IF q.customer = Null THEN Real(db, v) ELSE v.customer = q.customer
     /\ InTab(q, v)
     /\ q.from # Null \/ q.to # Null => (v.entry # Null /\ Within(q, v.entry)) \/ Within(q, v.updated)}

\* A closed visit has a row of its own when another followed or the vehicle was entered again.
ArchivedRows(db, q) ==
  {c \in db.checkIns :
     LET v == CHOOSE x \in db.vehicles : x.id = c.vehicle
     IN /\ ~c.active
        /\ ReEntered(v) \/ c \notin Latest(VisitsOf(db, v))
        /\ Within(q, c.time)
        /\ q.customer # Null => v.customer = q.customer}

ListVehicles(db, q) ==
  [current |-> CurrentRows(db, q),
   archived |-> IF ~q.all /\ q.filter = "none" /\ q.status = "none" THEN ArchivedRows(db, q) ELSE {}]

CurrentlyInside(db) == {v \in db.vehicles : v.status \in InsideStatuses /\ v.active /\ Real(db, v)}

-----------------------------------------------------------------------------
(* Before an entry.                                                        *)

\* getActiveEntryBlock and getInWorkshopBlock, of one of the active visits.
ActiveEntryBlock(db, v) == Active(db, v) # {} /\ v.status \notin AllowReEntryStatuses

InWorkshopBlock(db, c) == \E i \in db.items : i.visit = c.id

\* What searchVehicle says of a vehicle.
Warned(db, v) ==
  {[activeCheckIn |-> ActiveEntryBlock(db, v), inWorkshop |-> Active(db, v) # {} /\ InWorkshopBlock(db, c)] :
     c \in IF Active(db, v) = {} THEN {Null} ELSE Active(db, v)}

\* reEntryVehicle refuses.
ReEntryRefused(db, v) ==
  {ActiveEntryBlock(db, v) \/ (Active(db, v) # {} /\ InWorkshopBlock(db, c)) :
     c \in IF Active(db, v) = {} THEN {Null} ELSE Active(db, v)}

-----------------------------------------------------------------------------
(* The history.                                                            *)

\* Rows of the same vehicle: of its registration, or of its VIN unless that is a placeholder (NO-VIN-).
Siblings(db, v) ==
  {v} \cup {w \in db.vehicles : (v.reg # Null /\ w.reg = v.reg) \/ (v.vin > 0 /\ w.vin = v.vin)}

History(db, v) == UNION {VisitsOf(db, w) : w \in Siblings(db, v)}

CurrentVisit(db, v) == IF v.status \in InsideStatuses THEN Latest(History(db, v)) ELSE {}

\* A pause within 1500 ms of the completion is taken for the completion.
Tolerance == 2

Near(a, b) == a - b < Tolerance /\ b - a < Tolerance

\* What the timeline says of the work on an item; `session` is Null where it is of none.
WorkEvents(item, sessions) ==
  {[type |-> "WORK_STARTED", session |-> l.id] : l \in sessions}
  \cup {[type |-> IF item.completed # Null /\ Near(l.paused, item.completed) THEN "WORK_COMPLETED" ELSE "WORK_PAUSED",
         session |-> l.id] : l \in {k \in sessions : k.paused # Null}}
  \cup {[type |-> "WORK_COMPLETED", session |-> Null] :
         x \in IF item.completed # Null /\ ~\E l \in sessions : l.paused # Null /\ Near(l.paused, item.completed)
               THEN {item} ELSE {}}

-----------------------------------------------------------------------------
(* Numbers.                                                                *)

Archived(v) == v.status = "Archived"

\* uq_vehicles_vin_active, uq_vehicles_registration_active.
Clash(v, w) == v.id # w.id /\ ~Archived(v) /\ ~Archived(w) /\ (v.vin = w.vin \/ (v.reg # Null /\ v.reg = w.reg))

Written(db, row) ==
  IF \E w \in db.vehicles : Clash(row, w) THEN [outcome |-> "fails", db |-> db]
  ELSE [outcome |-> "done", db |-> [db EXCEPT !.vehicles = {w \in @ : w.id # row.id} \cup {row}]]

\* The check of addVehicle and of updateVehicle, of the numbers in the body.
Taken(db, id, body) ==
  \E w \in db.vehicles : w.id # id /\ ~Archived(w) /\ ((body.vin # Null /\ w.vin = body.vin) \/ (body.reg # Null /\ w.reg = body.reg))

AddVehicle(db, row) == IF Taken(db, row.id, row) THEN [outcome |-> "conflict", db |-> db] ELSE Written(db, row)

UpdateVehicle(db, v, body) ==
  IF Taken(db, v.id, body) THEN [outcome |-> "conflict", db |-> db]
  ELSE Written(db, [v EXCEPT !.vin = IF body.vin = Null THEN @ ELSE body.vin, !.reg = IF body.reg = Null THEN @ ELSE body.reg,
                             !.status = IF body.status = "same" THEN @ ELSE body.status])

DeleteVehicle(db, v) ==
  [db EXCEPT !.vehicles = (@ \ {v}) \cup {[v EXCEPT !.status = "Cancelled", !.active = FALSE, !.deleted = TRUE]},
             !.checkIns = {IF c.vehicle = v.id THEN [c EXCEPT !.active = FALSE] ELSE c : c \in @}]

\* vinLookup of a VIN or registration: the local vehicle that goes with Evolve's answer, which
\* names a VIN; LIMIT 1 of the rows that are not deleted.
LocalVehicle(db, term, answered) ==
  LET live == {v \in db.vehicles : ~v.deleted}
      named == {v.id : v \in {w \in live : answered # Null /\ w.vin = answered}}
      meant == {v.id : v \in {w \in live : term \in {w.vin, w.reg}}}
  IN IF named # {} THEN named ELSE IF meant # {} THEN meant ELSE {Null}

\* The other field is asked when the first knows nothing, not when Evolve cannot be reached.
VinLookup(db, term, answers) ==
  LET answer == IF answers[1].found \/ answers[1].throws THEN answers[1] ELSE answers[2]
  IN IF answer.found /\ ~answer.throws
     THEN [source |-> "evolve", vehicles |-> LocalVehicle(db, term, answer.vin)]
     ELSE [source |-> "local", vehicles |-> {v.id : v \in {w \in db.vehicles : term \in {w.vin, w.reg}}}]

-----------------------------------------------------------------------------
(* What is said of it.                                                     *)

OneLatest(db, v) == Active(db, v) \subseteq Latest(VisitsOf(db, v)) /\ Cardinality(Active(db, v)) <= 1

\* "One row per visit": every visit of a vehicle has one row, the latest in the row of the vehicle,
\* and a vehicle that was entered again has one more for the visit to come.
EachVisitOnce(db, v) ==
  LET list == ListVehicles(db, NoQuery)
      rows == Cardinality({c \in list.archived : c.vehicle = v.id}) + (IF v \in list.current THEN 1 ELSE 0)
      past == Cardinality({c \in VisitsOf(db, v) : ~c.active})
  IN OneLatest(db, v) /\ v.id \notin db.booked /\ VisitsOf(db, v) # {} =>
       rows = IF ReEntered(v) THEN past + 1 ELSE Cardinality(VisitsOf(db, v))

\* Once a vehicle is booked again its last visit is in no row, though those before it are, until
\* the gate enters it again.
BookedHidesTheLastVisit(db, v) ==
  LET list == ListVehicles(db, NoQuery)
  IN v.id \in db.booked /\ VisitsOf(db, v) # {} /\ ~ReEntered(v) =>
       /\ v \notin list.current
       /\ Latest(VisitsOf(db, v)) \cap list.archived = {}
       /\ {c \in VisitsOf(db, v) : ~c.active} \ Latest(VisitsOf(db, v)) \subseteq list.archived

\* The card "currently inside" counts the tab of what is pending but for the vehicles that are
\* booked (they are in the card only) and those that are not active (in the tab only).
InsideCountsTheTab(db) ==
  LET tab == CurrentRows(db, [NoQuery EXCEPT !.filter = "PENDING"])
  IN (tab = CurrentlyInside(db)) <=> \A v \in db.vehicles : v.status \in InsideStatuses /\ Real(db, v) => (v.active <=> v.id \notin db.booked)

\* The search warns exactly where the entry will be refused, when one visit is active.
WarnedIsRefused(db, v) ==
  Cardinality(Active(db, v)) <= 1 =>
    \A w \in Warned(db, v) : ReEntryRefused(db, v) = {w.activeCheckIn \/ w.inWorkshop}

\* Rows that share a number see each other's visits, and the same visits if no VIN has been given
\* with two registrations.
SiblingsShareVisits(db, v, w) ==
  w \in Siblings(db, v) =>
    /\ v \in Siblings(db, w)
    /\ (\A x, y \in db.vehicles : x.vin > 0 /\ x.vin = y.vin => x.reg = y.reg) => History(db, v) = History(db, w)

\* "Once the vehicle exits .. no row is current": one that was entered again, and not yet confirmed at
\* the gate, has its finished visit called current.
PastCalledCurrent(db, v) ==
  /\ v.status \in {"Completed", "Cancelled", "Archived"} => CurrentVisit(db, v) = {}
  /\ ReEntered(v) /\ Active(db, v) = {} /\ Siblings(db, v) = {v} => \A c \in CurrentVisit(db, v) : ~c.active

\* Every finished item is said to be finished, and once if no session was paused just before the
\* one that finished it; every session ends in one way.
WorkIsToldOnce(item, sessions) ==
  LET events == WorkEvents(item, sessions)
      completed == {e \in events : e.type = "WORK_COMPLETED"}
  IN /\ item.completed # Null <=> completed # {}
     /\ Cardinality(completed) <= 1 <=> Cardinality({l \in sessions : item.completed # Null /\ l.paused # Null /\ Near(l.paused, item.completed)}) <= 1
     /\ \A l \in sessions : Cardinality({e \in events : e.session = l.id}) = IF l.paused = Null THEN 1 ELSE 2

\* What the check lets through the index does not refuse, but for an archived row that is revived
\* with the number it has.
ChecksFollowIndex(db, row, v, body) ==
  /\ AddVehicle(db, row).outcome # "fails"
  /\ UpdateVehicle(db, v, body).outcome = "fails" => Archived(v) /\ body.status \notin {"same", "Archived"}

\* A cancelled entry keeps its numbers: the lookup does not know the vehicle, and it cannot be added.
CancelledKeepsItsNumber(db, v, row) ==
  LET after == DeleteVehicle(db, v)
  IN ~Archived(v) /\ row.vin = v.vin /\ row.id \notin {w.id : w \in db.vehicles} =>
       /\ AddVehicle(after, row).outcome = "conflict"
       /\ v.id \notin LocalVehicle(after, v.vin, v.vin)

\* A vehicle that is not archived is found by the VIN that Evolve names; when Evolve is not
\* reached every row of the number is offered, the deleted ones as well.
LookupFindsTheVehicle(db, term, answers) ==
  LET seen == VinLookup(db, term, answers)
  IN /\ answers[1].throws => seen.source = "local"
     /\ \A v \in db.vehicles :
          /\ seen.source = "evolve" /\ answers[1].found /\ ~v.deleted /\ v.vin = answers[1].vin => v.id \in seen.vehicles
          /\ seen.source = "local" => (v.id \in seen.vehicles <=> term \in {v.vin, v.reg})
============================================================================
