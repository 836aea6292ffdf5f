---------------------------- MODULE Appointments ----------------------------
(***************************************************************************)
(* The booking book (modules/appointments): staff create, reschedule and   *)
(* close appointments, the foreman moves them between bays, the gate and   *)
(* the floor write to them as the visit goes on.                           *)
(*                                                                         *)
(* A creation and a foreman's move run in a database transaction under     *)
(* advisory locks; their checks go through the pool again, on a second     *)
(* connection.  A reschedule checks before its transaction and takes no    *)
(* lock.  Each request does one thing, so Requests, numbered as they       *)
(* arrive, bounds a run.                                                   *)
(***************************************************************************)
EXTENDS BayIntervals, FiniteSets

CONSTANTS
  Appts,            \* ids appointments get: bounds how many are made
  Vehicles, Bays, Days, Requests,
  Starts, Lengths,  \* times and durations staff ask for
  Open, Close,      \* WORKSHOP_OPEN, WORKSHOP_CLOSE
  SlotCapacity,     \* slot time -> capacity, for the active slot configurations
  MaxReschedules,   \* MAX_RESCHEDULES
  PoolSize,         \* connections of the pool
  Statuses,         \* statuses that staff set by hand
  Seeds             \* the books to start from

NoBay == 0

AppointmentStatus ==
  {"BOOKED", "CONFIRMED", "CHECKED_IN", "IN_SERVICE", "COMPLETED", "CANCELLED", "NO_SHOW"}

Active == {"BOOKED", "CONFIRMED", "CHECKED_IN", "IN_SERVICE"}

\* linked: check_in_id is set.  moves: reschedule_count.
Appointment ==
  [vehicle : Vehicles, bay : Bays \cup {NoBay}, day : Days, start : Starts, length : Nat,
   status : AppointmentStatus, linked : BOOLEAN, moves : Nat]

NoRow == [status |-> "none"]

Interval(row) == [start |-> row.start, end |-> row.start + row.length]

\* A book to start from is one the reception may have made: a vehicle comes once, a bay has one at a
\* time, and who has no bay is alone in a slot.
SoundBook(book) ==
  LET open == {a \in Appts : book[a].status \in Active}
  IN /\ \A a \in open : book[a].bay = NoBay =>
          book[a].start \in DOMAIN SlotCapacity /\ SlotCapacity[book[a].start] > 0
     /\ \A a, b \in open : a # b =>
          /\ book[a].vehicle # book[b].vehicle
          /\ book[a].bay = book[b].bay /\ book[a].day = book[b].day =>
               IF book[a].bay = NoBay THEN book[a].start # book[b].start
               ELSE ~Overlaps(Interval(book[a]), Interval(book[b]))

ASSUME AppointmentsAssumption ==
  /\ Requests \subseteq Nat /\ Appts \subseteq Nat /\ Vehicles \subseteq Nat \ {0} /\ Bays \subseteq Nat \ {0}
  /\ Starts \subseteq Nat /\ Lengths \subseteq Nat \ {0} /\ Open \in Nat /\ Close \in Nat
  /\ DOMAIN SlotCapacity \subseteq Nat /\ MaxReschedules \in Nat
  /\ PoolSize \in Nat \ {0} /\ Statuses \subseteq AppointmentStatus
  /\ IsFiniteSet(Appts) /\ \A start \in DOMAIN SlotCapacity : SlotCapacity[start] \in Nat
  /\ \A book \in Seeds : book \in [Appts -> Appointment \cup {NoRow}] /\ SoundBook(book)

VARIABLES
  appt,     \* appointment -> its row
  req,      \* request -> where it is, what it asks for and what it has read
  unsure,   \* appointments last placed by a write whose check could be overtaken
  revived   \* appointments that were closed and are active again

vars == <<appt, req, unsure, revived>>

-----------------------------------------------------------------------------
(* What is booked.                                                         *)

Made == {a \in Appts : appt[a].status # "none"}

Live == {a \in Appts : appt[a].status \in Active}

OnBay(bay, day) == {a \in Live : appt[a].bay = bay /\ appt[a].day = day}

Booked(bay, day, except) == {Interval(appt[a]) : a \in OnBay(bay, day) \ except}

BayFree(bay, p, except) == ValidBayInterval(p.start, p.length, Booked(bay, p.day, except), Open, Close)

InSlot(day, start) == {a \in Live : appt[a].day = day /\ appt[a].start = start}

SlotFreeOneMore(p, except) ==
  /\ p.start \in DOMAIN SlotCapacity
  /\ Cardinality(InSlot(p.day, p.start) \ except) <= SlotCapacity[p.start]

SlotFree(p, except) ==
  /\ p.start \in DOMAIN SlotCapacity
  /\ Cardinality(InSlot(p.day, p.start) \ except) < SlotCapacity[p.start]

PlaceFree(p, except) == IF p.bay = NoBay THEN SlotFree(p, except) ELSE BayFree(p.bay, p, except)

HasOpen(v) == \E a \in Live : appt[a].vehicle = v

Place == [bay : Bays \cup {NoBay}, day : Days, start : Starts, length : Lengths]

PlaceOf(row) == [bay |-> row.bay, day |-> row.day, start |-> row.start, length |-> row.length]

-----------------------------------------------------------------------------
(* Requests, connections and locks.                                        *)

Idle == [at |-> "idle"]

Done == [at |-> "done"]

InFlight == {r \in Requests : req[r].at \notin {"idle", "done"}}

\* Those in a transaction hold a connection until they end.
Connected == {r \in InFlight : req[r].at # "reschedule"}

Spare == Cardinality(Connected) < PoolSize

\* A key is a bay with a day, or no bay with a vehicle.
Locked(k) == \E r \in InFlight : k \in req[r].locks

\* r begins as q, which the requests in flight may be overtaken by.
Begin(r, q) ==
  req' = [s \in Requests |->
             IF s = r THEN q ELSE IF s \in InFlight THEN [req[s] EXCEPT !.raced = TRUE] ELSE req[s]]

End(r) == req' = [req EXCEPT ![r] = Done]

Init ==
  /\ appt \in Seeds
  /\ req = [r \in Requests |-> Idle]
  /\ unsure = {} /\ revived = {}

-----------------------------------------------------------------------------
(* createAppointment                                                       *)

Unmade == Appts \ Made

CreateBegin(r) ==
  \E v \in Vehicles, p \in Place :
    /\ Cardinality({s \in InFlight : req[s].at \in {"create", "lock", "check", "insert"}}) < Cardinality(Unmade)
    /\ Begin(r, [at |-> "create", vehicle |-> v, place |-> p, locks |-> {}, raced |-> InFlight # {}])
    /\ UNCHANGED <<appt, unsure, revived>>

CreateVehicleLockless(r) ==
  /\ req[r].at = "create"
  /\ IF HasOpen(req[r].vehicle) THEN End(r)
     ELSE req' = [req EXCEPT ![r].at = IF req[r].place.bay = NoBay THEN "check" ELSE "lock"]
  /\ UNCHANGED <<appt, unsure, revived>>

\* The lock of the vehicle, then the look for an appointment it has.
CreateLockVehicle(r) ==
  LET k == <<NoBay, req[r].vehicle>>
  IN /\ req[r].at = "create" /\ ~Locked(k)
     /\ IF HasOpen(req[r].vehicle) THEN End(r)
        ELSE req' = [req EXCEPT ![r].at = IF req[r].place.bay = NoBay THEN "check" ELSE "lock",
                                ![r].locks = {k}]
     /\ UNCHANGED <<appt, unsure, revived>>

CreateNoBayLock(r) ==
  /\ req[r].at = "lock"
  /\ req' = [req EXCEPT ![r].at = "check"]
  /\ UNCHANGED <<appt, unsure, revived>>

CreateLockBay(r) ==
  LET k == <<req[r].place.bay, req[r].place.day>>
  IN /\ req[r].at = "lock" /\ ~Locked(k)
     /\ req' = [req EXCEPT ![r].at = "check", ![r].locks = @ \cup {k}]
     /\ UNCHANGED <<appt, unsure, revived>>

\* checkBayIntervalConflict or assertSlotAvailable, on another connection.
CreateCheck(r) ==
  /\ req[r].at = "check" /\ Spare
  /\ IF PlaceFree(req[r].place, {}) THEN req' = [req EXCEPT ![r].at = "insert"] ELSE End(r)
  /\ UNCHANGED <<appt, unsure, revived>>

\* The booking reference, on another connection; then the row and the commit.
\* No lock covers the count of a slot.
CreateInsert(r) ==
  LET p == req[r].place
  IN \E a \in Unmade :
     /\ \A b \in Unmade : a <= b
     /\ req[r].at = "insert" /\ Spare
     /\ appt' = [appt EXCEPT ![a] = [vehicle |-> req[r].vehicle, bay |-> p.bay, day |-> p.day,
                                     start |-> p.start, length |-> p.length, status |-> "BOOKED",
                                     linked |-> FALSE, moves |-> 0]]
     /\ unsure' = IF p.bay = NoBay /\ req[r].raced THEN unsure \cup {a} ELSE unsure
     /\ End(r) /\ UNCHANGED revived

-----------------------------------------------------------------------------
(* rescheduleAppointment                                                   *)

\* A bay or a length that does not change is left out of the request.
RescheduleRead(r) ==
  \E a \in Made, p \in Place :
    LET row == appt[a]
    IN /\ row.status \in {"BOOKED", "CONFIRMED"}
       /\ row.moves < MaxReschedules
       /\ p # PlaceOf(row)
       /\ PlaceFree(p, {a})
       /\ Begin(r, [at |-> "reschedule", a |-> a, place |-> p, keepBay |-> p.bay = row.bay,
                    keepLength |-> p.length = row.length, moves |-> row.moves, locks |-> {},
                    raced |-> InFlight # {}])
       /\ UNCHANGED <<appt, unsure, revived>>

RescheduleWrite(r) ==
  LET a == req[r].a
      p == req[r].place
  IN /\ req[r].at = "reschedule" /\ Spare
     /\ appt' = [appt EXCEPT ![a].bay = IF req[r].keepBay THEN @ ELSE p.bay,
                             ![a].day = p.day, ![a].start = p.start,
                             ![a].length = IF req[r].keepLength THEN @ ELSE p.length,
                             ![a].status = "BOOKED", ![a].moves = req[r].moves + 1]
     /\ unsure' = IF req[r].raced THEN unsure \cup {a} ELSE unsure \ {a}
     /\ revived' = IF appt[a].status \in Active THEN revived ELSE revived \cup {a}
     /\ End(r)

-----------------------------------------------------------------------------
(* reallocateAppointmentBay                                                *)

\* The row is read before the transaction; the locks are taken in the order of the bays.
MoveRead(r) ==
  \E a \in Made, target \in Bays, replacement \in Bays \cup {NoBay} :
    /\ appt[a].bay \notin {NoBay, target}
    /\ Begin(r, [at |-> "move", a |-> a, place |-> PlaceOf(appt[a]), target |-> target,
                 replacement |-> replacement, displaced |-> {}, locks |-> {}, raced |-> FALSE])
    /\ UNCHANGED <<appt, unsure, revived>>

Wanted(r) ==
  {<<b, req[r].place.day>> : b \in {req[r].place.bay, req[r].target, req[r].replacement} \ {NoBay}}

MoveLock(r) ==
  /\ req[r].at = "move"
  /\ \E k \in Wanted(r) \ req[r].locks :
       /\ \A l \in Wanted(r) \ req[r].locks : k[1] <= l[1]
       /\ ~Locked(k)
       /\ req' = [req EXCEPT ![r].locks = @ \cup {k}]
  /\ UNCHANGED <<appt, unsure, revived>>

\* Those in the way of r's appointment on its target, first the earliest.
InTheWay(r) ==
  LET q == req[r]
      clash == {c \in OnBay(q.target, q.place.day) \ {q.a} : Overlaps(Interval(q.place), Interval(appt[c]))}
  IN {c \in clash : \A d \in clash : appt[c].start <= appt[d].start}

MayDisplace(r, c) ==
  LET q == req[r]
  IN /\ q.replacement \notin {NoBay, q.target, q.place.bay}
     /\ BayFree(q.replacement, PlaceOf(appt[c]), {c})
     /\ BayFree(q.target, q.place, {q.a, c})

MoveCheck(r) ==
  LET go(cs) == req' = [req EXCEPT ![r].at = "moveWrite", ![r].displaced = cs]
  IN /\ req[r].at = "move" /\ Wanted(r) = req[r].locks /\ Spare
     /\ \/ /\ InTheWay(r) = {}
           /\ IF BayFree(req[r].target, req[r].place, {req[r].a}) THEN go({}) ELSE End(r)
        \/ \E c \in InTheWay(r) : IF MayDisplace(r, c) THEN go({c}) ELSE End(r)
     /\ UNCHANGED <<appt, unsure, revived>>

MoveWrite(r) ==
  LET q == req[r]
  IN /\ q.at = "moveWrite"
     /\ appt' = [a \in Appts |->
                   IF a = q.a THEN [appt[a] EXCEPT !.bay = q.target]
                   ELSE IF a \in q.displaced THEN [appt[a] EXCEPT !.bay = q.replacement]
                   ELSE appt[a]]
     /\ End(r) /\ UNCHANGED <<unsure, revived>>

-----------------------------------------------------------------------------
(* Single statements.                                                      *)

WriteAtOnce(r, as, row(_)) ==
  /\ appt' = [a \in Appts |-> IF a \in as THEN row(appt[a]) ELSE appt[a]]
  /\ revived' = revived \cup {a \in as : appt[a].status \notin Active /\ row(appt[a]).status \in Active}
  /\ Begin(r, Done)

\* updateAppointmentStatus takes any status from any.
SetStatus(r) ==
  \E a \in Made, s \in Statuses :
    LET set(row) == [row EXCEPT !.status = s]
    IN WriteAtOnce(r, {a}, set) /\ UNCHANGED unsure

LinkCheckIn(r) ==
  LET link(row) == [row EXCEPT !.status = "CHECKED_IN", !.linked = TRUE]
  IN \E a \in Made : WriteAtOnce(r, {a}, link) /\ UNCHANGED unsure

\* confirm-entry: the gate lets a booked vehicle in.
GateEntry(r) ==
  LET enter(row) == [row EXCEPT !.status = "CHECKED_IN", !.linked = TRUE]
  IN \E v \in Vehicles :
       /\ WriteAtOnce(r, {a \in Made : appt[a].vehicle = v /\ appt[a].status \in {"BOOKED", "CONFIRMED"}}, enter)
       /\ UNCHANGED unsure

GateExit(r) ==
  LET leave(row) == [row EXCEPT !.status = "COMPLETED"]
  IN \E a \in Made :
       /\ appt[a].linked /\ appt[a].status \notin {"COMPLETED", "CANCELLED"}
       /\ WriteAtOnce(r, {a}, leave) /\ UNCHANGED unsure

\* The foreman's allocation to a bay takes the reservation along, unchecked.
SyncAppointmentBay(r) ==
  \E a \in Live, b \in Bays :
    LET take(row) == [row EXCEPT !.bay = b]
    IN /\ appt[a].linked
       /\ WriteAtOnce(r, {a}, take) /\ unsure' = unsure \cup {a}

-----------------------------------------------------------------------------

NeverTimesOut(r) == r \notin Requests /\ UNCHANGED vars

\* connectionTimeoutMillis: who waits for a connection gives up, and rolls back.
TimeOut(r) ==
  /\ \/ req[r].at \in {"check", "insert", "reschedule"}
     \/ req[r].at = "move" /\ Wanted(r) = req[r].locks
  /\ ~Spare
  /\ End(r) /\ UNCHANGED <<appt, unsure, revived>>

Continue(r) ==
  \/ CreateLockVehicle(r) \/ CreateLockBay(r) \/ CreateCheck(r) \/ CreateInsert(r)
  \/ RescheduleWrite(r)
  \/ MoveLock(r) \/ MoveCheck(r) \/ MoveWrite(r)
  \/ TimeOut(r)

Start(r) ==
  /\ req[r].at = "idle" /\ Spare
  /\ \A s \in Requests : s < r => req[s].at # "idle"
  /\ \/ CreateBegin(r) \/ RescheduleRead(r) \/ MoveRead(r)
     \/ SetStatus(r) \/ LinkCheckIn(r) \/ GateEntry(r) \/ GateExit(r) \/ SyncAppointmentBay(r)

Progress == \E r \in Requests : Continue(r)

Next == Progress \/ \E r \in Requests : Start(r)

\* The server and the database go on with what has begun; staff need not ask.
Spec == Init /\ [][Next]_vars /\ WF_vars(Progress)

-----------------------------------------------------------------------------

\* What a request asks for and has read.
Keys == (Bays \X Days) \cup ({NoBay} \X Vehicles)

Creation ==
  [at : {"create", "lock", "check", "insert"}, vehicle : Vehicles, place : Place,
   locks : SUBSET Keys, raced : BOOLEAN]

Rescheduling ==
  [at : {"reschedule"}, a : Appts, place : Place, keepBay : BOOLEAN, keepLength : BOOLEAN,
   moves : Nat, locks : SUBSET Keys, raced : BOOLEAN]

Moving ==
  [at : {"move", "moveWrite"}, a : Appts,
   place : [bay : Bays \cup {NoBay}, day : Days, start : Starts, length : Nat], target : Bays,
   replacement : Bays \cup {NoBay}, displaced : SUBSET Appts, locks : SUBSET Keys, raced : BOOLEAN]

Request == {Idle, Done} \cup Creation \cup Rescheduling \cup Moving

TypeOK ==
  /\ appt \in [Appts -> Appointment \cup {NoRow}]
  /\ req \in [Requests -> Request]
  /\ unsure \subseteq Appts /\ revived \subseteq Appts

\* Two appointments that reserve overlapping times on a bay: one of them was placed by a
\* write that is not under the lock, while something else went on, or was closed before.
\* So creations and foreman's moves alone never double-book a bay, whatever the order
\* (createAppointment, reallocateAppointmentBay and their advisory locks).
NoDoubleBooking ==
  \A a, b \in Live \ (unsure \cup revived) :
    (a # b /\ appt[a].bay = appt[b].bay /\ appt[a].day = appt[b].day /\ appt[a].bay # NoBay)
      => ~Overlaps(Interval(appt[a]), Interval(appt[b]))

\* A vehicle has two open appointments only when one was reopened
\* (createAppointment: one open appointment per vehicle).
OneOpenAppointment ==
  \A a, b \in Live \ revived : a # b => appt[a].vehicle # appt[b].vehicle

\* Bookings without a bay exceed the capacity of their slot only when one of them was
\* placed while something else went on, or reopened (assertSlotAvailable).
SlotsKeepCapacity ==
  \A day \in Days, start \in Starts :
    LET here == {a \in InSlot(day, start) \ (unsure \cup revived) : appt[a].bay = NoBay}
    IN here # {} => start \in DOMAIN SlotCapacity /\ Cardinality(here) <= SlotCapacity[start]

\* Every request is answered, even when those in a transaction hold all connections
\* and each waits for another one (db/index.ts: max and connectionTimeoutMillis).
EveryRequestAnswered == <>[](InFlight = {})
=============================================================================
