-------------------------- MODULE RepairOrderMessage --------------------------
(***************************************************************************)
(* What a message about a job card tells Evolve (buildRoInput and the      *)
(* resolve functions before it, services/jobCardEvolveSync), its labour    *)
(* lines (services/evolveLabour) and the company and the customer it is    *)
(* for (services/companyResolver, customerIdentity, vehicleCompany).  The  *)
(* calls that send it are in EvolveSync.                                   *)
(*                                                                         *)
(* Items are a sequence in the order of the card: a job's items follow     *)
(* those of the job before.  None is NULL or blank; a placeholder is a     *)
(* customer number that Evolve did not give.                               *)
(***************************************************************************)
EXTENDS Integers, FiniteSetsExt, SequencesExt

None == 0

Placeholder == -1

Or(value, default) == IF value = None THEN default ELSE value

\* ddmmyyyy, isoToDdMmYyyy: a date in neither form is left out.
AsDayMonthYear(value) ==
  CASE value.form = "dmy" -> value.date [] value.form = "iso" -> Reverse(value.date) [] OTHER -> <<>>

\* RO_STATUS_MAP: <<ROStatus, ROStatusType>>; what is not listed is work in progress.
MapRoStatus(status) ==
  CASE status = "ARRIVED"                                    -> <<"Booking", "B">>
    [] status = "AWAITING_APPROVAL"                          -> <<"Await Auth", "W">>
    [] status = "WAITING_FOR_PARTS"                          -> <<"Wait Parts", "W">>
    [] status \in {"READY_FOR_RELEASE", "RELEASED", "CLOSED"} -> <<"Complete", "C">>
    [] OTHER                                                 -> <<"WIP", "W">>

\* A new RO is work in progress whatever became of the visit.
StatusSent(ro, status) == IF ro = None THEN <<"WIP", "W">> ELSE MapRoStatus(status)

-----------------------------------------------------------------------------
(* Labour lines.                                                           *)

Unsaid == -1   \* hours that are NULL or no number

FormatHours(hours) == IF hours < 0 THEN Unsaid ELSE hours

Sold(item) == IF FormatHours(item.sold) # Unsaid THEN item.sold ELSE FormatHours(item.estimated)

Reason(item) ==
  IF item.tech = None THEN "TECH_UNMAPPED"
  ELSE IF Unsaid \in {FormatHours(item.worked), Sold(item)} THEN "HOURS_MISSING" ELSE "none"

Assigned(items) == {n \in DOMAIN items : items[n].assigned}

Unresolved(items) == {n \in Assigned(items) : Reason(items[n]) # "none"}

Sendable(items) == Assigned(items) \ Unresolved(items)

\* A number that was kept is used again; the other lines are counted from one.
LineNumber(items, n) ==
  IF items[n].line # None THEN items[n].line
  ELSE Cardinality({m \in Sendable(items) : m <= n /\ items[m].line = None})

LabourLines(items) ==
  [n \in Sendable(items) |->
     [number |-> LineNumber(items, n), status |-> IF items[n].line # None THEN "U" ELSE "N",
      job |-> Or(items[n].group, 1), tech |-> items[n].tech, worked |-> items[n].worked, sold |-> Sold(items[n])]]

\* persistLabourLineBookkeeping, after an UPDATE that succeeded.
Numbered(items) ==
  [n \in DOMAIN items |-> IF n \in Sendable(items) THEN [items[n] EXCEPT !.line = LineNumber(items, n)] ELSE items[n]]

\* An UPDATE waits for every item; a CREATE sends the lines there are and keeps no numbers.
LinesSent(ro, items) == IF ro # None /\ Unresolved(items) # {} THEN <<>> ELSE LabourLines(items)

Pushed(ro, items) == IF ro # None /\ Unresolved(items) = {} THEN Numbered(items) ELSE items

-----------------------------------------------------------------------------
(* Jobs.                                                                   *)

Groups(items) == {Or(items[n].group, 1) : n \in DOMAIN items}

OfGroup(items, g) == {n \in DOMAIN items : Or(items[n].group, 1) = g}

\* The first of some items that says it.
FirstSaid(items, ns, field) ==
  LET saying == {n \in ns : items[n][field] # None} IN IF saying = {} THEN None ELSE items[Min(saying)][field]

\* What is to be done: the work that is not labour, or else the kind of service.
Instruction(items, ns, service) ==
  LET work == {items[n].desc : n \in {m \in ns : ~items[m].labour}} \ {None} IN IF work = {} THEN {service} ELSE work

\* resolveServiceTypeCode: a label that is the code or the name of one active type.
ServiceTypeCode(types, label) ==
  LET codes == {t.code : t \in {u \in types : u.active /\ label \in {u.code, u.name}}}
  IN IF label # None /\ Cardinality(codes) = 1 THEN CHOOSE c \in codes : TRUE ELSE None

\* Jobs are numbered as they come, whatever the numbers of their groups.
Job(card, types, g) ==
  LET items == card.items
      ns == OfGroup(items, g)
  IN [number |-> Cardinality({h \in Groups(items) : h <= g}),
      jobType |-> Or(FirstSaid(items, ns, "jobType"), Or(card.jobType, "INT")),
      account |-> FirstSaid(items, ns, "account"),
      service |-> Or(ServiceTypeCode(types, items[Min(ns)].service), "S06"),
      estimate |-> MapThenSumSet(LAMBDA n : items[n].cost, ns),
      says |-> Instruction(items, ns, Or(items[Min(ns)].service, "Service"))]

JobHeaders(card, types, multi) ==
  IF multi /\ card.items # <<>> THEN {Job(card, types, g) : g \in Groups(card.items)}
  ELSE {[number |-> 1, jobType |-> Or(card.jobType, "INT"),
         account |-> FirstSaid(card.items, DOMAIN card.items, "account"),
         service |-> Or(ServiceTypeCode(types, card.service), "S06"), estimate |-> card.total,
         says |-> Instruction(card.items, DOMAIN card.items, Or(card.service, "Service"))]}

-----------------------------------------------------------------------------
(* Companies, customers and the visit's appointment.                       *)

\* interfaceCodeFor: the code of a company stands for it, and an inactive one has none.
InterfaceCodeFor(db, company) == IF company \in db.active THEN company ELSE None

\* LIMIT 1 of the appointments of the visit, in no order.
RoInterfaceCode(db, card) ==
  LET booked == {a \in db.appointments : card.visit # None /\ a.visit = card.visit}
      owner == InterfaceCodeFor(db, card.owner)
  IN IF owner # None THEN {owner}
     ELSE IF booked = {} THEN {None} ELSE {InterfaceCodeFor(db, a.company) : a \in booked}

\* resolveVehicleCompanyId: of the owner, or of the vehicle's latest booking that has one.
VehicleCompany(db, card) ==
  LET booked == {a \in db.appointments : a.vehicle = card.vehicle /\ a.company # None}
  IN IF card.owner # None THEN card.owner
     ELSE IF booked = {} THEN None
     ELSE (CHOOSE a \in booked : \A b \in booked : b.created <= a.created).company

IsPlaceholderSeq(id) == id <= 0

\* resolveCustomerEvolveId: the number at the company, or the one the customer has at all.
CustomerEvolveId(db, customer, company) ==
  LET linked == {l.id : l \in {k \in db.links : k.customer = customer /\ k.company = company /\ company # None}}
      own == {c.id : c \in {p \in db.customers : p.customer = customer /\ ~p.deleted}}
      real(ids) == {id \in ids : ~IsPlaceholderSeq(id)}
  IN IF real(linked) # {} THEN CHOOSE id \in real(linked) : TRUE
     ELSE IF real(own) # {} THEN CHOOSE id \in real(own) : TRUE ELSE None

RoOwnerSeq(db, card, aware) ==
  IF aware THEN CustomerEvolveId(db, card.customer, card.owner)
  ELSE (CHOOSE c \in db.customers : c.customer = card.customer).id

\* ORDER BY appointment_date DESC LIMIT 1: of two of one day either.
LatestBooked(db, visit) ==
  LET booked == {a \in db.appointments : visit # None /\ a.visit = visit}
  IN {a \in booked : \A b \in booked : b.day <= a.day}

\* The booking's advisor, the card's creator, or the first.
AdvisorNumber(db, card) ==
  IF LatestBooked(db, card.visit) = {} THEN {Or(card.creator, 1)}
  ELSE {Or(a.advisor, Or(card.creator, 1)) : a \in LatestBooked(db, card.visit)}

AppointmentDate(db, card) ==
  IF LatestBooked(db, card.visit) = {} THEN {card.created} ELSE {a.day : a \in LatestBooked(db, card.visit)}

\* resolveRoFranchise: both or neither.
Franchise(card) ==
  IF card.franchise # None /\ card.department # None THEN <<card.franchise, card.department>> ELSE <<1, 1>>

\* Everything a message says, for each of the appointments it may have read; none is sent while
\* an UPDATE waits for a labour line.
Messages(db, card, types, flags) ==
  IF flags.labour /\ card.ro # None /\ Unresolved(card.items) # {} THEN {} ELSE
  {[ro |-> card.ro, owner |-> RoOwnerSeq(db, card, flags.aware), code |-> code, advisor |-> advisor, date |-> date,
    franchise |-> Franchise(card), jobs |-> JobHeaders(card, types, flags.multi),
    lines |-> IF flags.labour THEN LinesSent(card.ro, card.items) ELSE <<>>,
    status |-> StatusSent(card.ro, card.status),
    states |-> IF card.complaint # None THEN {card.complaint}
               ELSE Instruction(card.items, DOMAIN card.items, Or(card.service, "Service"))] :
     code \in IF flags.aware THEN RoInterfaceCode(db, card) ELSE {None},
     advisor \in AdvisorNumber(db, card), date \in AppointmentDate(db, card)}

-----------------------------------------------------------------------------
(* What is said of it.                                                     *)

Numbers(lines) == [n \in DOMAIN lines |-> lines[n].number]

\* buildLabourLinesFromItems: every item with a technician is one line or a reason to wait, and
\* no line is without a technician or without hours.
LinesOrReasons(items) ==
  /\ Assigned(items) = DOMAIN LabourLines(items) \cup Unresolved(items)
  /\ \A n \in DOMAIN LabourLines(items) :
       LabourLines(items)[n].tech # None /\ LabourLines(items)[n].worked >= 0 /\ LabourLines(items)[n].sold >= 0

\* "A re-send updates the same line": once a push with a number for every line has succeeded,
\* the next one has the same lines and no new one.
SentAgainIsUpdated(ro, items) ==
  ro # None /\ Unresolved(items) = {} =>
    /\ Numbers(LinesSent(ro, Pushed(ro, items))) = Numbers(LinesSent(ro, items))
    /\ \A n \in Sendable(items) : LinesSent(ro, Pushed(ro, items))[n].status = "U"

\* Two lines of a message have two numbers: when none was kept, and else exactly if the new
\* lines are so few that counting them from one reaches no number that was kept.
NumbersTellApart(items) ==
  LET new == {n \in Sendable(items) : items[n].line = None}
      kept == {items[n].line : n \in Sendable(items) \ new}
  IN IsInjective(Numbers(LabourLines(items))) <=>
       /\ Cardinality(kept) = Cardinality(Sendable(items) \ new)
       /\ kept \cap (1 .. Cardinality(new)) = {}

\* So a second technician, assigned after the first was sent, is sent on the first one's line.
SecondAssignmentTakesTheLine(ro, items, n, tech) ==
  ro # None /\ Unresolved(items) = {} /\ Sendable(items) # {} /\ n \notin Assigned(items) /\ (\A m \in DOMAIN items : items[m].line = None)
    => LET later == [Pushed(ro, items) EXCEPT ![n] = [@ EXCEPT !.assigned = TRUE, !.tech = tech, !.worked = 1, !.sold = 1]]
       IN \E m \in Assigned(items) : LinesSent(ro, later)[m].number = LinesSent(ro, later)[n].number

\* "We never post a partial labour set": an UPDATE does not, and after it nothing is sent as new
\* a second time.  A CREATE may, and what it sends is new again in the next message.
WholeOrNothing(ro, items) ==
  LET sent == DOMAIN LinesSent(ro, items)
  IN /\ ro # None => sent \in {{}, Assigned(items)}
     /\ ro = None /\ Unresolved(items) # {} => sent = Sendable(items)
     /\ ro = None => \A n \in sent : LabourLines(Pushed(ro, items))[n].status = LabourLines(items)[n].status

\* RoJobDetailLine.jobNumber, "matches the ROJobHeader job": of a card with all its jobs it does
\* where each job has a header; where the jobs are sent as one, only the first job's lines do.
LinesNameTheirJob(card, types, multi) ==
  LET numbers == {j.number : j \in JobHeaders(card, types, multi)}
      named == \A n \in Sendable(card.items) : Or(card.items[n].group, 1) \in numbers
  IN /\ multi /\ Groups(card.items) = 1 .. Cardinality(Groups(card.items)) => named
     /\ ~multi => (named <=> \A n \in Sendable(card.items) : Or(card.items[n].group, 1) = 1)

\* "First non-blank wins": sent as one, the work of every job is charged to one account, which
\* is that of all only if no two jobs name different ones.
OneAccountForTheCard(card, types) ==
  LET named == {card.items[n].account : n \in DOMAIN card.items} \ {None}
      sent == {j.account : j \in JobHeaders(card, types, FALSE)}
  IN (sent = named \/ named = {}) <=> Cardinality(named) <= 1

\* resolveVehicleCompanyId, "the two MUST agree": the company whose franchises are offered is
\* the one the message goes to, if the vehicle's owner is known and active.
OfferedIsAddressed(db, card) == card.owner \in db.active => RoInterfaceCode(db, card) = {VehicleCompany(db, card)}

\* "The customer's id in the vehicle's owning company": under the code of a known, active owner
\* goes that company's number, if it gave one.  Where the code is that of a booking, the number
\* is the customer's general one, whatever the company addressed calls him.
NamedAsTheCompanyKnows(db, card) ==
  LET id == RoOwnerSeq(db, card, TRUE)
      given(company) == {l.id : l \in {k \in db.links : k.customer = card.customer /\ k.company = company /\ k.id > 0}}
  IN /\ card.owner \in db.active /\ given(card.owner) # {} => id \in given(card.owner)
     /\ card.owner = None => id \in {None} \cup {c.id : c \in db.customers}
     /\ ~IsPlaceholderSeq(id) \/ id = None
==============================================================================
