--------------------------- MODULE MCEvolveCustomers ---------------------------
(* The customers in Evolve, and with them the pure parts of the desk and of  *)
(* the client of Evolve, each evaluated on the inputs its module lists.      *)
EXTENDS EvolveCustomers, Integers, FiniteSets, Sequences, TLC

------------------------------------------------------------------------------
(* Bookings and searches on small tables.                                  *)

B == INSTANCE BookingIdentity

Customer(id, sequence, email, phone) ==
  [id |-> id, sequence |-> sequence, email |-> email, phone |-> phone, deleted |-> FALSE]

\* One or two customers and up to two vehicles of theirs, of either company or of none.
CustomerTables == {{Customer(1, 1, 1, 1)}, {Customer(1, 1, 0, 1), [Customer(2, 2, 2, 2) EXCEPT !.deleted = TRUE]}}

VehicleRows(id) ==
  {v \in [id : {id}, customer : 0 .. 1, vin : {0, id}, reg : {id}, owner : 0 .. 2,
          status : {"Vehicle IN", "Archived"}, deleted : {FALSE}] : v.status = "Archived" => v.customer = 1}

Tables ==
  [customers : CustomerTables, vehicles : {{}} \cup {{v} : v \in VehicleRows(1)} \cup
      {{v, w} : v \in {x \in VehicleRows(1) : x.vin = 1}, w \in {x \in VehicleRows(2) : x.customer = 0}},
   links : {{}}, ar : {{}, {<<1, 1>>}}, companies : {{1, 2}}, activeCompanies : {{1}}]

Bodies ==
  {[customer |-> c, vehicle |-> v, company |-> company, ar |-> 2,
    hasNewCustomer |-> c = 0, newCustomer |-> [sequence |-> s, email |-> s, phone |-> [form |-> "0", number |-> p]],
    hasNewVehicle |-> v = 0, newVehicle |-> [vin |-> n, reg |-> r]] :
     c \in 0 .. 1, v \in 0 .. 1, company \in 0 .. 2, s \in 0 .. 2, p \in {1, 3}, n \in 0 .. 2, r \in 1 .. 3}

Answers ==
  LET kind == {"FOUND", "NOT_FOUND", "UNAVAILABLE"}
      pass == [primary : kind, fallback : kind]
  IN {<<a>> : a \in pass} \cup (pass \X pass)

ASSUME SearchesAreCertain == \A answers \in Answers : B!NotFoundIsCertain(answers)

ASSUME BookingsAreSound ==
  \A db \in Tables, body \in {b \in Bodies : b.vehicle = 0 \/ (b.newVehicle.vin = 0 /\ b.newVehicle.reg = 1)} :
    /\ \A enforced \in BOOLEAN :
         /\ B!IdentitiesStayDistinct(db, body, enforced)
         /\ B!NobodyElsesVehicle(db, body, enforced)
         /\ B!RetryMakesNobodyTwice(db, body, enforced)
    /\ body.hasNewVehicle => B!BookedInItsCompany(db, body)
    /\ B!SwitchMeansRefusal(db, body, <<[primary |-> "NOT_FOUND", fallback |-> "NOT_FOUND"]>>)
    /\ B!OwnVehicleIsRefused(db, body)

\* Where an archived vehicle has the VIN as well, it may be the one whose company is checked: the
\* vehicle of another company is booked.
ASSUME ArchivedTwinMisleads ==
  LET car(id, owner, status) ==
        [id |-> id, customer |-> B!None, vin |-> 1, reg |-> id, owner |-> owner, status |-> status, deleted |-> FALSE]
      db == [customers |-> {Customer(1, 1, 1, 1)}, vehicles |-> {car(1, 2, "Vehicle IN"), car(2, 1, "Archived")},
             links |-> {}, ar |-> {}, companies |-> {1, 2}, activeCompanies |-> {1, 2}]
      body == [customer |-> 1, vehicle |-> B!None, company |-> 1, ar |-> B!None,
               hasNewCustomer |-> FALSE, newCustomer |-> [sequence |-> B!None, email |-> B!None, phone |-> [form |-> "0", number |-> 1]],
               hasNewVehicle |-> TRUE, newVehicle |-> [vin |-> 1, reg |-> 1]]
  IN /\ B!Distinct(db)
     /\ \E out \in B!Book(db, body, TRUE) : out.ok /\ \E v \in out.db.vehicles : v.id = out.vehicle /\ v.owner = 2
     /\ B!Refused \in B!Book([db EXCEPT !.vehicles = {car(1, 2, "Vehicle IN")}], body, TRUE)

\* Some bookings go through, and none under a company that is no longer active.
ASSUME SomeBookingsGoThrough ==
  /\ \E db \in Tables, body \in Bodies : \E out \in B!Book(db, body, TRUE) : out.ok
  /\ \A db \in Tables, body \in Bodies : body.company = 2 => B!Book(db, body, FALSE) = {B!Refused}

------------------------------------------------------------------------------
(* The client of Evolve on every short run of answers.                     *)

T == INSTANCE EvolveTransport

\* A broken request has no answer; an error of the server has no body that is read.
Broken(transport) ==
  [transport |-> transport, http |-> "2xx", parses |-> FALSE, status |-> "none", rowStatus |-> "none",
   marker |-> "none", rows |-> {}]

AnswerSet ==
  {Broken("transient"), Broken("fatal")} \cup {[Broken("ok") EXCEPT !.http = h] : h \in {"4xx", "5xx"}}
    \cup {[transport |-> "ok", http |-> "2xx", parses |-> TRUE, status |-> s, rowStatus |-> r, marker |-> m, rows |-> rows] :
            s \in {"S", "F"}, r \in {"S", "W", "F"}, m \in T!Markers, rows \in {{}, {0}, {1}}}
    \cup {[Broken("ok") EXCEPT !.marker = m, !.status = s] : m \in T!Markers, s \in {"none", "S"}}

Pairs == AnswerSet \X AnswerSet

ASSUME CallsAreSound ==
  /\ \A answers \in Pairs :
       /\ \A call \in DOMAIN T!Policies : call = "callIrmAll" \/ T!SentAgainOnlyInDoubt(call, answers)
       /\ T!NoHistoryIsAuthoritative(answers)
       /\ T!PartMissingIsSaid(answers)
  /\ \A answers \in {<<p[1], p[2], a>> : p \in Pairs, a \in AnswerSet} :
       /\ T!MissingIsSaidByEvolve(answers)
       /\ T!SentAgainOnlyInDoubt("callIrmAll", answers)
       /\ T!PartIsMissingForWantOfSessions(answers)

ASSUME AccountsAreSound ==
  LET lists == UNION {[1 .. n -> {[number |-> k, first |-> FALSE] : k \in 0 .. 2}] : n \in 0 .. 3}
  IN \A rows \in lists, blocks \in lists : T!AccountsAreOfferedOnce(rows, blocks)

\* National numbers of nine digits, of a mobile, of a town and of the area 27.
ASSUME PhonesAreSound ==
  \A first \in {2, 6, 8}, second \in {1, 7}, rest \in {<<0, 0, 0, 2, 7, 1, 1>>, <<2, 7, 0, 0, 0, 1, 2>>} :
    T!SpellingsAgree(<<first, second>> \o rest)

ASSUME NothingIsBlanked ==
  \A held \in [{"EngineNumber", "SellingDealer", "RegistrationNo"} -> 0 .. 2],
     p \in [{"EngineNumber", "SellingDealer", "RegistrationNo"} -> 0 .. 2] : T!OptionalIsNeverBlanked(held, p)

------------------------------------------------------------------------------
(* Cards of up to three items and small tables of companies and bookings.  *)

R == INSTANCE RepairOrderMessage

S == INSTANCE RoStatuses WITH NoStatus <- "NULL"

RoItem(group, assigned, tech, worked, sold, line, account) ==
  [group |-> group, assigned |-> assigned, tech |-> tech, worked |-> worked, sold |-> sold, estimated |-> -1,
   line |-> line, account |-> account, jobType |-> 0, service |-> 1, labour |-> FALSE, desc |-> 1, cost |-> 2]

\* Of the technician: none, unmapped or mapped; of the hours: unknown, negative or one.
LabourItems ==
  {RoItem(1, a, t, 1, s, l, 0) : a \in BOOLEAN, t \in 0 .. 1, s \in {-2, -1, 1}, l \in 0 .. 2}

ShortLists(rows, max) == UNION {[1 .. n -> rows] : n \in 0 .. max}

InOrder(items) == \A m \in DOMAIN items, n \in DOMAIN items : m < n => items[m].group <= items[n].group

JobItems == {RoItem(g, a, 1, 1, 1, 0, acc) : g \in 1 .. 3, a \in BOOLEAN, acc \in 0 .. 2}

Types == {[code |-> 10, name |-> 1, active |-> TRUE], [code |-> 11, name |-> 2, active |-> TRUE],
          [code |-> 12, name |-> 2, active |-> TRUE]}

CardOf(items) == [items |-> items, jobType |-> 0, service |-> 1, total |-> 9]

ASSUME LabourLinesAreSound ==
  \A items \in ShortLists(LabourItems, 3) :
    /\ R!LinesOrReasons(items)
    /\ R!NumbersTellApart(items)
    /\ \A ro \in 0 .. 1 :
         /\ R!SentAgainIsUpdated(ro, items)
         /\ R!WholeOrNothing(ro, items)
         /\ \A n \in DOMAIN items : R!SecondAssignmentTakesTheLine(ro, items, n, 1)

\* A second technician does take the line of the first, and a first message may be partial.
ASSUME LabourLinesAreNotIdle ==
  /\ \E items \in ShortLists(LabourItems, 2) : ~\A m \in DOMAIN R!LabourLines(items), n \in DOMAIN R!LabourLines(items) :
       m # n => R!LabourLines(items)[m].number # R!LabourLines(items)[n].number
  /\ \E items \in ShortLists(LabourItems, 2) : R!Unresolved(items) # {} /\ R!LinesSent(0, items) # <<>>

ASSUME JobsAreSound ==
  \A items \in {i \in ShortLists(JobItems, 3) : i # <<>> /\ InOrder(i)} :
    /\ \A multi \in BOOLEAN : R!LinesNameTheirJob(CardOf(items), Types, multi)
    /\ R!OneAccountForTheCard(CardOf(items), Types)

Bookings ==
  [visit : 1 .. 2, vehicle : {1}, company : 0 .. 2, day : 1 .. 2, created : {1}, advisor : {0, 7}]

Dbs ==
  {[active |-> act, appointments |-> {a, [b EXCEPT !.created = 2]}, links |-> links,
    customers |-> {[customer |-> 1, id |-> own, deleted |-> FALSE]}] :
     act \in SUBSET (1 .. 2), a \in Bookings, b \in Bookings, own \in {-1, 5},
     links \in {{}, {[customer |-> 1, company |-> 1, id |-> 6]}, {[customer |-> 1, company |-> 1, id |-> -1]}}}

BookedCard(owner, visit) ==
  CardOf(<<>>) @@ [owner |-> owner, visit |-> visit, vehicle |-> 1, customer |-> 1, creator |-> 0, created |-> 3,
   ro |-> 0, franchise |-> 0, department |-> 2, status |-> "ARRIVED", complaint |-> 0]

AllFlags == [aware |-> TRUE, multi |-> TRUE, labour |-> TRUE]

ASSUME CompaniesAreSound ==
  \A db \in Dbs, owner \in 0 .. 2, visit \in 0 .. 1 :
    /\ R!OfferedIsAddressed(db, BookedCard(owner, visit))
    /\ R!NamedAsTheCompanyKnows(db, BookedCard(owner, visit))
    /\ R!Messages(db, BookedCard(owner, visit), Types, AllFlags) # {}

\* Without an owner the company that is offered and the one that is addressed may differ.
ASSUME OfferedIsNotAlwaysAddressed ==
  \E db \in Dbs : R!VehicleCompany(db, BookedCard(0, 1)) \in db.active /\ R!VehicleCompany(db, BookedCard(0, 1)) \notin R!RoInterfaceCode(db, BookedCard(0, 1))

\* Every status a visit may have is one Evolve is told of, and complete only when it is ready.
ASSUME StatusesAreSound ==
  \A s \in S!RoStatus : (R!MapRoStatus(s)[2] = "C") <=> s \in S!ReachedStatuses \cap {"READY_FOR_RELEASE", "RELEASED", "CLOSED"}
=============================================================================
