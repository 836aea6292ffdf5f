--------------------------- MODULE BookingIdentity ---------------------------
(***************************************************************************)
(* Whose a booking is: how the desk's search tells a customer in Evolve    *)
(* from one it cannot ask about (irmCustomerSearch), and how a booking     *)
(* finds or makes its customer and its vehicle (createAppointment); both   *)
(* in appointments/service.ts.  Calls come one after the other here: the   *)
(* Appointments module has the ones that overlap.                          *)
(*                                                                         *)
(* `db` is a record of tables: customers, vehicles, links (of customers to *)
(* companies) and ar (the customers with an account).  None is NULL and an *)
(* absent field of a body; ids are positive numbers.                       *)
(***************************************************************************)
EXTENDS Integers, FiniteSetsExt

None == 0

\* A number is written with the country's code, with a trunk zero or as Evolve keeps it.
National(phone) == phone.number

\* The first of the rows that satisfy a condition, as a set: LIMIT 1 with no order is any of them.
Limit1(rows) == {{r} : r \in rows} \cup (IF rows = {} THEN {{}} ELSE {})

-----------------------------------------------------------------------------
(* Companies.                                                              *)

ValidCompany(db, company) == company = None \/ company \in db.activeCompanies

\* ownerCompanyIfDifferent: of a vehicle's owner, if it is another, known company.
OwnedElsewhere(db, owner, company) ==
  owner # None /\ (company = None \/ owner # company) /\ owner \in db.companies

\* findVehicleOwnerElsewhere looks at one of the vehicles with the VIN or the registration.
OwnersByNumber(db, vin, reg) ==
  Limit1({v \in db.vehicles : /\ ~v.deleted /\ v.owner # None
                              /\ (vin # None /\ v.vin = vin) \/ (reg # None /\ v.reg = reg)})

-----------------------------------------------------------------------------
(* Booking.                                                                *)

Refused == [ok |-> FALSE]

Alive(v) == v.status # "Archived"

ByVin(db, vin) == Limit1({v \in db.vehicles : vin # None /\ v.vin = vin /\ Alive(v)})

ByReg(db, reg) == Limit1({v \in db.vehicles : v.reg = reg /\ Alive(v)})

\* Before anything is written: another customer's vehicle, or for a new customer anyone's.
BelongsToAnother(found, customer) == \E v \in found : v.customer # None /\ v.customer # customer

NextId(rows) == 1 + Max({0} \cup {r.id : r \in rows})

\* The customer of a booking: named, known by its number in Evolve, or new if nobody has
\* the mail or the phone.  The second component is the table it leaves; {} is a refusal.
CustomerOf(db, body) ==
  LET new == body.newCustomer
      present == {c \in db.customers : ~c.deleted}
      known == {c \in present : new.sequence # None /\ c.sequence = new.sequence}
      taken == \E c \in present : (new.email # None /\ c.email = new.email) \/ c.phone = National(new.phone)
      row == [id |-> NextId(db.customers), sequence |-> new.sequence, email |-> new.email,
              phone |-> National(new.phone), deleted |-> FALSE]
  IN IF body.customer # None THEN {<<body.customer, db.customers>>}
     ELSE IF ~body.hasNewCustomer THEN {}
     ELSE IF known # {} THEN {<<c.id, db.customers>> : c \in known}
     ELSE IF taken THEN {}
     ELSE {<<row.id, db.customers \cup {row}>>}

NewVehicle(db, new, customer) ==
  [id |-> NextId(db.vehicles), customer |-> customer, vin |-> new.vin, reg |-> new.reg,
   owner |-> None, status |-> "Entry (Draft)", deleted |-> FALSE]

\* The one with the VIN, or else the one with the registration, if it is nobody else's; or a new one.
ChosenVehicle(db, new, customer, byVin, byReg) ==
  LET row == NewVehicle(db, new, customer)
  IN IF BelongsToAnother(byVin, customer) \/ (byVin = {} /\ BelongsToAnother(byReg, customer)) THEN {}
     ELSE IF byVin # {} THEN {<<v.id, db.vehicles>> : v \in byVin}
     ELSE IF byReg # {} THEN {<<v.id, db.vehicles>> : v \in byReg}
     ELSE {<<row.id, db.vehicles \cup {row}>>}

\* The vehicle of a booking: named, or chosen by its numbers.
VehicleOf(db, body, customer) ==
  LET new == body.newVehicle
  IN IF body.vehicle # None THEN {<<body.vehicle, db.vehicles>>}
     ELSE IF ~body.hasNewVehicle THEN {}
     ELSE UNION {ChosenVehicle(db, new, customer, byVin, byReg) : byVin \in ByVin(db, new.vin), byReg \in ByReg(db, new.reg)}

\* Whether the checks made before the transaction let a body through.
Checked(db, body, enforced) ==
  LET new == body.newVehicle
      company == body.company
      guarded == enforced /\ company # None
      makes == body.vehicle = None /\ body.hasNewVehicle
  IN /\ ValidCompany(db, company)
     /\ (enforced /\ company = None) => ~body.hasNewCustomer /\ ~body.hasNewVehicle
     /\ (guarded /\ body.vehicle # None) =>
          \A v \in db.vehicles : (v.id = body.vehicle /\ ~v.deleted) => ~OwnedElsewhere(db, v.owner, company)
     /\ makes =>
          /\ guarded => \E seen \in OwnersByNumber(db, new.vin, new.reg) :
                           \A v \in seen : ~OwnedElsewhere(db, v.owner, company)
          /\ \E found \in ByVin(db, new.vin) : ~BelongsToAnother(found, body.customer)
          /\ \E found \in ByReg(db, new.reg) : ~BelongsToAnother(found, body.customer)

\* A company is set where a vehicle has none, an account where a customer has none.
Owned(v, id, company) == IF v.id = id /\ v.owner = None THEN [v EXCEPT !.owner = company] ELSE v

Outcome(db, body, c, v) ==
  [ok |-> TRUE, customer |-> c[1], vehicle |-> v[1],
   db |-> [db EXCEPT !.customers = c[2],
                     !.vehicles = {Owned(w, v[1], body.company) : w \in v[2]},
                     !.links = @ \cup (IF body.company = None THEN {} ELSE {<<c[1], body.company>>}),
                     !.ar = @ \cup (IF body.hasNewCustomer /\ body.ar # None /\ \A a \in @ : a[1] # c[1] THEN {<<c[1], body.ar>>} ELSE {})]]

\* What a booking may leave behind: the tables, the customer and the vehicle it is for.
Book(db, body, enforced) ==
  LET booked == UNION {{Outcome(db, body, c, v) : v \in VehicleOf(db, body, c[1])} : c \in CustomerOf(db, body)}
  IN IF Checked(db, body, enforced) /\ booked # {} THEN booked ELSE {Refused}

-----------------------------------------------------------------------------
(* The search in Evolve.                                                   *)

\* One phone is looked for under two spellings; without a phone there is one pass.
PhoneForms(phone) == IF phone = None THEN <<"none">> ELSE <<"27", "0">>

\* `answers` has for each spelling what the vehicle and the customer lookup say.
TakenTogether(outcomes) ==
  IF "FOUND" \in outcomes THEN "FOUND" ELSE IF "UNAVAILABLE" \in outcomes THEN "UNAVAILABLE" ELSE "NOT_FOUND"

PassOutcome(answer) == TakenTogether({answer.primary, answer.fallback})

Combined(answers) == TakenTogether({PassOutcome(answers[n]) : n \in DOMAIN answers})

\* Of the lookups, the ones that are made: the fallback where the vehicle lookup found
\* nothing, the second spelling where the first found nothing.
Asked(answers) ==
  {a \in (DOMAIN answers) \X {"primary", "fallback"} :
     /\ \A m \in 1 .. a[1] - 1 : PassOutcome(answers[m]) # "FOUND"
     /\ a[2] = "fallback" => answers[a[1]].primary # "FOUND"}

\* Not found, and ours has it under another company: the desk is asked to switch.
SearchOutcome(db, q, answers) ==
  LET found == Combined(answers)
      switches == {seen \in OwnersByNumber(db, q.vin, q.reg) : \E v \in seen : OwnedElsewhere(db, v.owner, q.company)}
  IN IF found = "NOT_FOUND" /\ (q.vin # None \/ q.reg # None) /\ switches # {}
       THEN {"SWITCH_COMPANY"} \cup (IF switches = OwnersByNumber(db, q.vin, q.reg) THEN {} ELSE {found})
       ELSE {found}

\* buildIrmSearchEntry: a result is shown even if it could not be stored; a company has no
\* person's name, and without a registration and a VIN there is no vehicle.
SearchEntry(detail, vehicle, stored) ==
  [localCustomerId |-> IF stored THEN detail.id ELSE None,
   firstName |-> IF detail.company THEN None ELSE detail.firstName,
   phone |-> IF detail.code # None /\ detail.number # None THEN <<detail.code, detail.number>>
             ELSE IF detail.number # None THEN <<detail.number>>
             ELSE IF detail.code # None THEN <<detail.code>> ELSE <<>>,
   vehicle |-> IF vehicle.reg = None /\ vehicle.vin = None THEN None ELSE vehicle.vin + vehicle.reg]

\* listTodaysAppointmentsForGate: all of the day that were not cancelled or completed.
GateList(appointments, today) ==
  {a \in appointments : a.day = today /\ a.status \notin {"CANCELLED", "COMPLETED"} /\ ~a.deleted}

-----------------------------------------------------------------------------
(* What is said of it.                                                     *)

Unique(rows, Field(_)) == \A r \in rows, s \in rows : Field(r) # None /\ Field(r) = Field(s) => r = s

\* A mail, a phone and a number in Evolve is one customer's, a VIN and a registration one vehicle's.
Distinct(db) ==
  LET people == {c \in db.customers : ~c.deleted}
      cars == {v \in db.vehicles : Alive(v)}
  IN /\ Unique(people, LAMBDA c : c.email) /\ Unique(people, LAMBDA c : c.phone)
     /\ Unique(people, LAMBDA c : c.sequence)
     /\ Unique(cars, LAMBDA v : v.vin) /\ Unique(cars, LAMBDA v : v.reg)

\* createAppointment, "so we never silently attach the appointment to the wrong person":
\* no booking makes a second customer or vehicle of one that is there.
IdentitiesStayDistinct(db, body, enforced) ==
  Distinct(db) => \A out \in Book(db, body, enforced) : out.ok => Distinct(out.db)

\* "Block if a non-archived vehicle with this VIN belongs to a different customer".
NobodyElsesVehicle(db, body, enforced) ==
  \A out \in Book(db, body, enforced) :
    out.ok /\ body.vehicle = None =>
      \A v \in out.db.vehicles : v.id = out.vehicle => v.customer \in {None, out.customer}

\* A booking sent again, because its answer was lost, makes nobody twice.
RetryMakesNobodyTwice(db, body, enforced) ==
  Distinct(db) => \A out \in Book(db, body, enforced) :
    out.ok => \A again \in Book(out.db, body, enforced) : again.ok => again.db = out.db

\* The tables on which a search by VIN and registration is of one vehicle: it looks at archived
\* rows as well, which a booking passes over.
OneVehicleSought(db, vin, reg) ==
  LET sought == {v \in db.vehicles : (vin # None /\ v.vin = vin) \/ v.reg = reg}
  IN /\ \A v \in db.vehicles : ~v.deleted /\ v.owner \in db.companies \cup {None}
     /\ \A v \in sought, w \in sought : v = w

\* "A vehicle may only be used within its owning company": so it is where the VIN and the
\* registration of the body are not those of two vehicles.
BookedInItsCompany(db, body) ==
  OneVehicleSought(db, body.newVehicle.vin, body.newVehicle.reg) /\ body.company # None =>
    \A out \in Book(db, body, TRUE) : out.ok => \A v \in out.db.vehicles : v.id = out.vehicle => v.owner = body.company

\* irmCustomerSearch, "never a false NOT_FOUND": not found is said when every lookup said so,
\* and what any of them finds is found.
NotFoundIsCertain(answers) ==
  LET said == {answers[n].primary : n \in DOMAIN answers} \cup {answers[n].fallback : n \in DOMAIN answers}
      heard == {answers[a[1]][a[2]] : a \in Asked(answers)}
  IN /\ Combined(answers) = "NOT_FOUND" <=> said = {"NOT_FOUND"}
     /\ Combined(answers) = "FOUND" <=> "FOUND" \in heard
     /\ "FOUND" \in said => "FOUND" \in heard

\* findVehicleOwnerElsewhere, "one source of truth": where the search asks to switch the
\* company, a booking of that vehicle under the same company is refused.
SwitchMeansRefusal(db, body, answers) ==
  LET q == [vin |-> body.newVehicle.vin, reg |-> body.newVehicle.reg, company |-> body.company]
  IN OneVehicleSought(db, q.vin, q.reg) /\ q.company # None /\ body.vehicle = None /\ body.hasNewVehicle
       /\ "SWITCH_COMPANY" \in SearchOutcome(db, q, answers) => Book(db, body, TRUE) = {Refused}

\* The customer's own vehicle is refused when the body describes a customer already known
\* by its number in Evolve, since the first check knows no customer.
OwnVehicleIsRefused(db, body) ==
  body.customer = None /\ body.vehicle = None /\ body.hasNewVehicle
    /\ Distinct(db) /\ (\E v \in db.vehicles : Alive(v) /\ v.reg = body.newVehicle.reg /\ v.customer # None)
    => Book(db, body, FALSE) = {Refused}
==============================================================================
