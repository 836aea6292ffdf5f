# A verification project for the workshop backend

The repository is the backend of a vehicle workshop: a Fastify server in
TypeScript whose handlers read and write one PostgreSQL database through
Drizzle. A vehicle is checked in at the gate, is given a bay, technicians work
on the items of its job cards, a foreman signs the cards off, an inspector
checks the vehicle (QC out), it is washed, billed, and let out at the gate with
a gate pass. Around that core are the booking book, the estimate and its approval
by the customer, the parts desk, the inspections at entry, and the synchronisation
of customers and repair orders with the dealer system Evolve. This directory has
TLA+ models of all of these, TLC configurations that check them on small
instances, and TLAPS proofs, for most of the safety properties, that they hold on every
instance. In the paths below `src/` is the root of the repository, so the program is
under `src/src/`.

## 1. What makes this code hard

The database runs at its default level, READ COMMITTED, and handlers almost never
lock. Nearly every handler has the shape

    read rows with db.select  ->  check, answer 400 or 404  ->
    write in db.transaction, by id, unconditionally         ->
    call setRoStatus or a side effect outside the transaction

so what it has read is stale by the time it writes, and what follows the
transaction may never happen. Node runs the JavaScript of one handler at a time, but
every `await` lets another handler in, and there may be several server processes.
The models are built around that shape: **one action per database call that matters,
and a request record that holds what has been read until it is used**. A
transaction is one action unless another transaction could tell its statements
apart. What the database adds of its own are partial unique indexes and foreign keys
in `src/drizzle/*.sql`; a step that they refuse is an action named `...Conflict`. The
models assume that these migrations are applied (the index that allows one open
time log per item is in migration 0010 and not in the Drizzle schema).

## 2. Inventory

State is in tables; "RO status" is `vehicle_check_ins.ro_status`. `PROJECT.json` has the status of each
component and every hazard at its line.

| Component | State | Operations | Correct when |
|---|---|---|---|
| RO status trail, `shared/utils/roStatus.ts` | RO status, `ro_status_history` | `setRoStatus` | status and trail agree; no row tells a move that never was |
| Workshop bays, `modules/workshop` | `workshop_bays` (pointer to the allocation it shows), `workshop_allocations`, reserved bay of the appointment | create, update, delete bay; allocate, reallocate, release; dashboards; sign off, reject | a bay shows the one vehicle that is in it; a vehicle is in one bay; no vehicle drops out of every list |
| Technician work, `modules/service-advisors` | status of the card; completion, technician and open time log of its items | assign, reassign, start card, start, pause and complete item | finished work, and only finished work, goes to the foreman; one timer per technician, none on a finished item |
| Job cards, parts, customer approval, `modules/service-advisors`, `parts-manager`, `customer-approval` | the card before and during the work, its lines, part requests, links to the customer | create, edit, share, approve, answer the link, price, dispatch, accept, reject | what the customer answered stands; nothing waits for parts nobody is asked for |
| Appointments, `modules/appointments` | bookings, slots, reserved bays; advisory locks, connection pool | book, reschedule, move, close, link to a visit; search a customer in Evolve | no bay reserved twice for one interval; every request answered; a booking makes nobody twice |
| Vehicle entry, re-entry, gate photos, `modules/confirm-entry`, `vehicle-checkin`, `vehicles`, `vehicle-images` | check-ins, vehicles, photos and their archive | enter, re-enter, cancel, list, search, look up | one active visit per vehicle; photos outlive a re-entry; every visit is in some list |
| QC in, `modules/qc-inspections` | inspections, items, photos, signature | start, fill in, sign, submit, confirm | one live inspection; what is submitted is final and signed |
| Final QC, `modules/qc-out` | inspections | dashboards, `submitInspection`, comparison | status follows the inspection; finished work is verified; damage is told |
| Washbay, `modules/washbay` | RO status | `markReadyForRelease` | only what passed QC is washed |
| Invoicing, `modules/invoicing` | `invoices`, `invoice_payments` | generate, pay, void | nobody leaves on money that never came, who has paid can leave; what is shown is what is billed |
| Gate pass, `modules/gate-pass` | `gate_passes` | redeem | a used pass has let the vehicle out |
| Evolve synchronisation, `services/*Evolve*`, `evolveIrm`, `masterDataSync` | what a card, a customer, a vehicle know of Evolve; attempts; cached lists | push, sweep, import, look up, sync of lists | one repair order per card; an identity stands; what is shown as synced is; nothing is forgotten |
| Model codes, `services/modelCode*` | the catalogue, the memory of answers, the vehicle's code | match, resolve, persist | no code is guessed |
| Users, roles, permissions, `modules/user-management`, `shared/security` | users, role permissions, a cache on each server | create, update, delete, map to Evolve; check | a cache heals; a technician's number is a technician's |
| Labour alerts, `modules/notifications` | marks on items, the log | the timed check | each alert is sent once |
| Warranty store, `modules/warranty` | tagged parts | tag, move on | one tag per completion |
| Customers, 360 view, mail, WhatsApp, recognition, lookup tables | | CRUD and I/O | see section 8 |

How they interact: `setRoStatus` is called by entry, allocation, completion, sign-off,
inspection, washbay and redeem, always after their own transaction. It writes the status with
its trail row, and for a status past the workshop it then releases the bay, in a further
transaction whose error it swallows. Sign-off of a card sends the whole visit to
QC. A failed inspection leads to an allocation that reopens items. A settled payment mints
the gate pass that redeem uses. Gate, floor and exit write to the appointment of their visit. A change of a job card
fires a call to Evolve after its commit and does not wait for it; a timer on every server sweeps what such calls left behind. A completed
warranty item makes a tag in the store, and stops the alerts about its hours.

## 3. Modules

| Module | Models |
|---|---|
| `RoStatuses` | the statuses of an RO and those that free the bay |
| `RoStatusTrail` | `setRoStatus` by itself: any number of overlapping calls on one check-in |
| `ServiceVisit` | a visit from gate to gate: every handler that moves an RO, its bay, its cards and its pass |
| `BayBoard` | the abstract promise of the bay board: one vehicle per bay, one bay per vehicle |
| `TechnicianWork` | the items, timers and technicians of one approved card, and its review |
| `Billing` | invoices, payments and gate passes |
| `Estimate` | one job card from draft to work: the advisor, the customer's link, the parts desk, the technician who asks for more |
| `BayIntervals` | the pure arithmetic of reserved intervals and free windows |
| `Appointments` | the booking book with its locks and its pool; uses `BayIntervals` |
| `VehicleVisits` | one vehicle over several visits: entry, re-entry, cancellation, photos, inspections, exit |
| `EvolveIdentity` | the abstract promise of an identity in Evolve: learnt once, then kept |
| `EvolveSync` | a job card and its repair order: calls, sweeps, locks, an Evolve that fails; uses `EvolveIdentity` for the customer |
| `EvolveCustomers` | pushes and imports of a customer and a vehicle; implements `EvolveIdentity` for a customer with a reference |
| `AccessControl`, `LabourAlerts`, `WarrantyStore`, `BackOffice` | users and permissions; the alert check; the store; and the three composed |
| `Worklists` | what the desks see: queues, tabs, cards, jobs, workload, and the scope of a user |
| `VehicleLists` | the gate's lists, history, timeline, numbers and lookup |
| `QcSheet` | the inspection sheet between start and submission |
| `QcComparison` | what a vehicle must have to be signed out; the checklists of entry and exit compared |
| `InvoiceLines` | what a card costs, with its extras and refusals, and the invoice made of it |
| `BookingIdentity` | whose a booking is; what a search in Evolve is taken to say |
| `EvolveTransport` | how often a message is tried and what its answer is taken to mean; spellings of phones |
| `RepairOrderMessage` | jobs, labour lines, company and customer of a message |
| `MasterData`, `ModelCodes` | lists cached from Evolve; the match of a model code |
| `*Proofs` | theorems about the module of the same name; those about `RoStatusTrail` are in `ServiceVisitProofs`, those about `EvolveCustomers` and the messages to Evolve in `EvolveSyncProofs`, those about `BookingIdentity` in `VehicleVisitsProofs` |
| `MC*` | constants, seeds and symmetry for TLC, and the evaluated assumptions of section 4 |

**RoStatusTrail.** `ReadCurrent` is the select with the no-op guard and the timestamp taken before the
transaction; `WriteStatus` is the transaction; `CallFails` is a stop before it. `history` is kept in commit order (the
row lock on the check-in orders the commits). `at` is the timestamp; because it is taken before the transaction, rows
sorted by it, as the 360 view does, can be in another order than they were committed.

**ServiceVisit.** `req` holds the requests in flight: `at` is the database call that comes
next, the other fields are what the handler has read. `Call` starts a handler with its first read,
`Proceed` runs its next call, `Return` is what the handler does after its `setRoStatus`
(inspection chains WASHBAY to QC_PASSED, redeem chains CLOSED to RELEASED and then closes the visit, allocation, which sets IN_WORKSHOP, syncs the reservation). `RoRead`, `RoWrite`,
`ReleaseRead`, `ReleaseCommit` and `ReleaseSwallowed` are `setRoStatus` and the bay release in it, shared by every handler. Bays are
rows with a pointer, allocations are rows of their own, so the two can disagree. The work on a card is one flag, `unfinished`, in this module; its
items are in `TechnicianWork`. The money is one action, `MintGatePass`, here; it is worked out in `Billing`.
`Endpoints` says which handlers clients call in an instance, to keep each run to its question.

**TechnicianWork.** `startItemWork` and `completeItemWork` are two actions each inside their
transaction, because the statements of two such transactions interleave: `closed` and `left` are what the transaction has done and found, `ItemHeld` and `LogHeld` are the row
locks another transaction waits for. The other transactions are one action. A deadlock that PostgreSQL resolves by aborting one side is `Fail`.

**Billing.** Money is stored in cents and sent in mills, so `toFixed(2)` and the
tolerance 0.001 of `fullyPaid` are part of the model: `Cents`, `NewPaid`, `FullyPaid`. `collected` is the sum of the payment rows; `paid` is the column, computed from what was
read. The two differ when payments overlap.

**Estimate.** Lines and part requests are rows with `live`, since an edit replaces them. A link is a row with the lines it was made for;
a customer's request carries the page as it was loaded. The advisor, the customer and the parts desk each have requests of their own in flight.
`answer` and `asked` record what the customer said to a line and whether the link in force asks it again. `Fail` stops a request between any two of its statements;
`cut` marks a priced extra whose line such a stop left unwritten. `Answer` is how one
submission answers a line: an extra whose price was open is taken with it, a ticked line is a yes, and a partial approval makes a no of what is not ticked.

**Appointments.** `Begin` takes a connection of the pool; a transaction keeps it and each check wants a second one, or fails with `TimeOut`.
`unsure` names the bookings written by something that looked at no calendar under a lock (a reschedule that overlapped
another write, a move of a visit's bay by the floor), `revived` those that a status change reopened. The invariants except these, so they say exactly which writes can break the book.

**VehicleVisits.** A clerk's request reads and writes statement by statement and may stop between any two. Starting an inspection is three steps: the checks (`CreateInspectionRead`), the search for an active check-in in the
transaction (`CreateInspectionFind`), and the commit, which inserts a check-in where none was found (`CreateInspection`). The rows are not locked, so a gate keeper or a second inspector may insert one between. `raced` says of a request that another made something after its latest look, `stale` that one did before.
`unsure` names the visits and inspections made by a request that another overtook, and the visits that `updateCheckIn`, which writes whatever `isActive` it is sent, opened again; `fate` says of a photo whether anyone deleted it.

**EvolveSync.** A call is a hook after a change or a sweep of one server. `Send` leads to Evolve carrying the message out, losing it, losing its answer, or carrying it out `late`.
`marred` records the first event after which a property is not claimed (`OneRo`, `SyncedIsFresh`): at most one `Fault` is allowed per behaviour, so that each is examined by itself. `Repair` is a person who supplies what the card lacked.
`data` numbers what a message would carry. `Change` is a change that fires a call; `ChangeUntold` is one that fires none (the parts desk's prices, a rejection by the customer), and `told` the version the last call followed.

**EvolveCustomers.** `referenced` says whether the customer has a reference of its own. With one, Evolve recognises who it made; a customer the booking wizard makes is sent with a blank one, and Evolve may make one more of it (`Make`).
`raced` marks pushes that were in flight at the same time.

**BackOffice.** `AccessControl`, `LabourAlerts` and `WarrantyStore` extend one another and share `users`: a route of the store runs behind the
permission check, the alerts go to the users of a role. `TypeOK` lists what a call of each component has read at each of its steps. `Seeds` gives each initial state a budget of calls of each kind, so that pairs of components are explored together without the product of all.

**The pure modules** have no variables. A handler that only reads, or whose overlap is the business of another module, is an operator from tables (sets of records) and a request to an answer.
Their properties are operators too, with the code's own comment in quotation marks where it makes the claim.

## 4. Runs

| Run | Instance | Shows |
|---|---|---|
| `status_trail` | four calls, three targets | the status is the last committed row's, no invented origins |
| `visit_serial` | two visits, two cards, two bays, requests one at a time | what the handlers' checks promise when they do not overlap: bay and allocation agree, bays only in the workshop, status follows inspection, card status tells whether work is open, the reservation follows, and the refinement of `BayBoard` |
| `floor_concurrent` | two visits, two bays, two requests at once, one failure | a bay never shows an allocation that is over, whatever overlaps |
| `visit_concurrent` | one visit, two requests at once | an active visit is always in some list; a redeemed pass is closing its visit; transient statuses move on (liveness) |
| `billing_concurrent` | two invoices, three passes, three requests at once | money and passes agree |
| `technician_and_foremen` | two items of work and a labour charge, two technicians whose requests do not overlap, two foremen at once | only finished work is reviewed, finished work is handed over, timers are sane |
| `estimate` | a line of the advisor's and one of the parts desk's, one part, two links; two requests at once | answers stand; only a stop leaves the card stuck in parts; nothing is handed over with a price unanswered but one whose line a stop cut off |
| `appointments` | three bookings, two vehicles, three bays, three requests, three connections; a book with a closed booking and one with two overlapping | no double booking, one open booking per vehicle, slot capacity, every request answered (liveness) |
| `vehicle_visits` | two clerks, two visits; two inspections or two photos | one active visit and one live inspection but for those a request made that was overtaken, photos kept, whatever stops |
| `evolve_sync` | two hooks, the sweeps of two servers, two attempts, two ROs, one change of the card's contents (two for a complete card), with a call or without; a customer known, unknown, each possible gap, and a vehicle with another card's RO | the number is ours, one RO, fresh when synced, settles (liveness) |
| `evolve_customers` | three pushes, two imports, two ids; a customer with a reference and one without | the identity stands, but for a push that overlapped another where there is no reference; the engine number |
| `back_office` | two users, two servers, two administrators, two requests of the store, two checks, two completions, in pairs | alerts told once, one tag, the cache heals (liveness), numbers fit roles |

Assumptions that TLC evaluates at the start of a run check the pure modules. They are exhaustive over small tables:

| Run | Evaluates | On |
|---|---|---|
| `appointments` | `BayIntervals`: what is offered is bookable | every set of up to three bookings on a day of five units, in and out of hours |
| `back_office` | `Worklists` | up to three inspections of a visit in every order; a vehicle with two visits and two reports, every status, scope and filter; two jobs, two sessions |
| | `MasterData`, `ModelCodes` | answers of up to two rows in three lists; descriptions of up to two words against catalogues of up to three rows; four resolutions in a row |
| `evolve_customers` | `BookingIdentity` | up to two customers and two vehicles of each company, with every body of a booking; up to two passes of the search |
| | `EvolveTransport` | every run of two answers (three where the call makes three attempts) |
| | `RepairOrderMessage` | cards of up to three items; two bookings and two companies |
| `billing_concurrent` | `InvoiceLines` | every sequence of four calls on a shared card of two lines, with fifteen pairs of adjustments and discount; two visits of up to two cards |
| `vehicle_visits` | `QcSheet` | every sequence of four calls on a sheet of two items |
| | `QcComparison` | submissions of up to three works for two items; two items at the entry against two at the exit, with every code and label |
| | `VehicleLists` | a vehicle with up to three visits; three rows that share numbers |

*Bounds, and why they are enough.* `Requests`, `Calls`, `Floor`, `Office`, `Clerks`, `Admins`, `Hooks`, `Pushes` and `MaxInFlight` bound how many handlers are in flight: a lost update or
a write skew needs two, and a third (billing, bookings) covers a payment that overlaps a void and a new invoice, or a pool that two transactions exhaust. `Allocations`, `Invoices`,
`GatePasses`, `Appts`, `Visits`, `Inspections`, `Photos`, `Links`, `MaxParts`, `MaxIds` and `MaxRos` are ids; a step that needs a new one is not offered when none is left (`IdLeft` keeps one for every
insert in flight), so a run checks every history with at most that many inserts. Two or three allow an allocation, a move and a
re-use of a bay, a visit after a visit, a second repair order. `MaxLines`, `MaxExtra` (Estimate) bound the lines an edit adds and the rounds of extra parts, `MaxData` the versions of what is sent to Evolve (the seeds say how many are still to come), `MaxReschedules` is the code's own limit made small, `MaxAttempts` is EVOLVE_RO_MAX_ATTEMPTS made small (`MinImages` and `MaxImages` likewise stand for the code's limits on photos).
`MaxFailures` bounds the requests that stop half way in `ServiceVisit`, and one `Fault` is allowed in `EvolveSync`; in the other modules failure is unbounded. Totals of 0, 1 and 2 cents and
amounts of 6, 10 and 20 mills give a free invoice, an exact, a partial, a sub-cent and a too high payment. Amounts half way between two cents are left out: which way
`toFixed` rounds them depends on the binary fraction. Symmetry is used in safety runs only, over ids that no formula tells apart.

*Deadlock* checking is on in the runs of `ServiceVisit` where the instance cannot
stop and off where it really may: every call made, every id used up, the visit over.

*Fairness* is assumed in four specifications, and only of what servers do by themselves; nobody has to call an endpoint, so what depends on a
person (a vehicle leaves QC some day) is not claimed.

* `ServiceVisit!FairSpec`: weak fairness of `Proceed(r)`. Once a database call has returned,
  Node runs the handler on; nothing waits for another request. It is checked with `MaxFailures = 0`: a
  process that stops loses the rest of its handler. A failure can indeed leave QC_PASSED behind, which `PROJECT.json` lists.
* `Appointments!Spec`: weak fairness of the step of some request, `Progress`, which includes the error a wait for a connection ends with
  (`connectionTimeoutMillis`). Without that error three transactions that each wait for a connection of a pool of three wait for ever: the mutant `NeverTimesOut` shows it.
* `EvolveSync!Spec`: weak fairness of `Work`, the timer of the sweep and the steps of calls. The hooks, the person who repairs, and Evolve's late answers need not come.
* `BackOffice!Spec`: weak fairness of the expiry of a cache entry, and of the invalidation that follows a change on the server that made it.

## 5. Properties that hold only in part

Several promises hold when requests of some kind do not overlap, or but for rows that a named kind of write made. Their comments say so:

* `OpenIsPointed`, `BayOnlyInWorkshop`, `StatusFollowsInspection`, `CardStatusTellsWork`, `ReservationFollowsFloor` and `ImplementsBoard` hold
  serially. Under two foremen at once they fail: check and write are apart.
* `FinishedCardIsHandedOver`, `OneTimerPerTechnician` and `DoneItemHasNoTimer` hold when the requests of technicians do not overlap each other, with
  foremen at any time. Two technicians who finish the last two items at once break the first.
* `NotStuckInParts` says of each step that it leaves no card waiting for parts with nothing pending and nobody about to confirm it, but the stop of the desk's request that has answered the last part
  (`markAvailable` writes the part, the line and the card's status in statements of their own): after that the card moves on only if an unavailable part is made pending again and answered. It holds when the requests of the advisor do not overlap each other and those of the parts desk do not: an edit that has read DRAFT
  drops the parts that a second request of the advisor asks for, and of three answers at the desk the one that takes the last part need not count.
  `AnswersStand` holds when the customer's requests do not overlap each other: of two the later answers again. The run has one of each kind, and any of them overtakes the others.
* `NoDoubleBooking`, `OneOpenAppointment` and `SlotsKeepCapacity` hold of what was written under the locks, `OneActiveVisit` and `OneLiveInspection` of
  what nobody overtook and nobody opened again by hand, `OneRo` and `SyncedIsFresh` until something marred the card, and `SyncedIsFresh` of the contents at the last change that fires a call, `AlertsTold` and `OneTag` while checks and completions do not overlap,
  `NumberFitsRole` but for a role that was changed while the call asked Evolve, `IdentityStands` but for a customer without a reference whose pushes overlap.
* `PointerIsOpen`, `ReviewedWorkIsDone`, the trail's invariants, all of `Billing`'s, `NumberIsOurs`, `EngineKept` and `PhotosKept` hold with any overlap and
  any stop, and are proved. So does `HandedOverIsAnswered`, which names the one price that may be open: of a part whose line the desk's stop left unwritten. `ActiveVisitIsQueued` and `RedeemedIsClosing` hold with any overlap when no request fails part way, and are proved under that hypothesis.
* `Settles`, `EveryRequestAnswered`, `TransientStatusMovesOn` and `CacheHeals` hold with any overlap their instances have, and are model-checked.

## 6. Where the code and its comments disagree

Met while modelling; each can be read off the model. Paths are under `src/src/` (modules and services by their last names, migrations under `src/`), `L` is a line.

*Bays, visits, money*

* Two allocations that overlap both find the bay free (`workshop/service.ts` L522) and both commit: two vehicles in one bay, and the pointer shows the later one.
* Payment and redeem look at no RO status (`gate-pass/service.ts` L206), so a vehicle is released from any point of its visit, although
  `drizzle/0019` L2-5 has washing before billing.
* A void "allowed only when .. no payments captured" (`invoicing/service.ts` L495) that has read no payments commits after a payment, and takes the money's invoice with it.
* A line nobody answered is billed: NULL is "not yet decided" to the parts desk (`parts-manager/service.ts` L282), "approved" to the invoice (`invoicing/service.ts` L66).
* The stored total is "recalculated from the remaining line items" (`customer-approval/service.ts` L564) by a subtraction, and a refused extra is found by its name, which can be that of a line of the estimate. A partial approval leaves the total as it was; the page and the invoice leave the refused lines out.
* An edit that changes the warranty of a line and nothing else is "metadata" (`jobCardEdit.ts` L70) and is not saved, so the customer is billed for the line.
* A part approved in a round of its own is refused again by a later partial approval that does not tick it (`customer-approval/service.ts` L382), while its request stays APPROVED.
* "The latest non-void job card" (`invoicing/service.ts` L152) is the newest, whatever its status: it hides an older one that is not billed.
* An invoice over nothing takes no payment ("already fully paid", L436), and so never becomes PAID and never gets a gate pass.
* Two technicians who complete the last two items at once each count the other's as unfinished (`service-advisors/service.ts` L2974); nothing hands the card over.
* Labour lines, which "can never get a completedAt" (L2969), can: reassigning (L2314) and rejecting with a new technician (`workshop/service.ts` L901) give them to a technician who may complete them.
* A full approval does not mark the lines (`customer-approval/service.ts` L161), but a later round decides with those marks whether the originals were all approved (L345).

*Booking book*

* `checkBayIntervalConflict` "must be called inside the create/reschedule transaction" (`bayAvailability.ts` L310); the reschedule calls it outside (`appointments/service.ts` L1460, which says so).
* The VIN that "belongs to ANY other customer" (L720) is refused when it is the customer's own, if the body describes a customer known by its number in Evolve.
* `findVehicleOwnerElsewhere` looks at one row without an order (L1806): where VIN and registration are those of two vehicles, or an archived row has the VIN too, a vehicle of another company can be booked (`ArchivedTwinMisleads`). The reuse by VIN ignores `deletedAt`.
* The gate's list of "BOOKED/CONFIRMED/CHECKED_IN" (L1961) takes every status but CANCELLED and COMPLETED, and its "today" is the date in UTC (L1967).

*Entry, inspections and lists*

* Inspectors look for an active check-in in a transaction (`qc-inspections/service.ts` L571), but under READ COMMITTED: two of them, or one and the gate, insert one each. `POST` and `PUT` of a check-in have no schema attached (`vehicle-checkin/routes.ts` L104), so a body may close or reopen any visit.
* "At most one" live inspection (`currentInspection.ts` L14) does not hold of two inspectors who start at once. "Both null sorts lowest" (L58) is the opposite of the query's order; no row has both null.
* `deleteItemPhoto` is allowed after the submission, although "Photo is required for all failed inspection items" (`qc-inspections/service.ts` L997). `uploadSignature` deletes the old file before the row names the new one.
* An item of the exit that was made from another inspection, or whose code is new, is in no row of the comparison if the entry knows its label (`qc-out/service.ts` L680), so its damage is in no count. A failed item of the checklist does not fail the inspection. The pages of recent inspections are counted over all shops (L91), the list is of one.
* `getNextVehicle` can offer a vehicle the gate has never seen. The advisors' card for drafts counts one status, its tab lists three.
* "One row per visit" (`vehicles/service.ts` L406): a vehicle that is booked again loses its last visit from the list (L415-418), and the filter ALL hides the archived ones.
* "Once the vehicle exits, no row is current" (L1357): after a re-entry and before the gate confirms, the finished visit is called current. A pause within 1.5 s of the completion is told as a second completion (L1573).
* A cancelled entry keeps its VIN and registration, while the lookup ignores it: the vehicle can be neither found nor added. Reviving an archived row with a number in use ends in a server error.
* The 360 view selects finished items with `ne(completedAt, null)` (`vehicle-360/service.ts` L291), which SQL never finds true.

*Evolve*

* A synchronised customer's id "MUST NOT be overwritten (ADR-002)" (`customerEvolveSync.service.ts` L345-349): the write (L364) decides by the row as it was read before the message was sent (L348). A customer of the wizard has the reference '' (`appointments/service.ts` L819) and is sent with it, so two pushes at once may bring two ids, and the later one stays.
* A card shown as SYNCED can be stale with nothing gone wrong: an extra line of the parts desk (`parts-manager/service.ts` L279-329) and the customer's rejection (`customer-approval/service.ts` L610-628) change what `buildRoInput` sends and call nothing.
* "ROHistory failures degrade to CREATE" (`jobCardEvolveSync.service.ts` L894); they defer the card (L909), which is the safe answer.
* "We never post a partial labour set" (L996) is kept by UPDATE; CREATE sends the resolved lines of a partly unresolved card, and keeps no number of them.
* "LineNumber is stable" (`evolveLabour.ts` L66): kept numbers are, but new lines are counted from 1 whatever was kept, so a second technician's line takes the first's number. A line's job number is that of the card's job, while a message that sends one job has only the header 01.
* "First non-blank wins" (L685): with one job per message the work of every job is charged to one account. An edit of metadata alone does not refresh it.
* "The two MUST agree" (`vehicleCompany.service.ts` L17): not for a vehicle without an owner, or with an inactive one. Then the customer's number is the general one, whichever company is addressed. An UPDATE has no guard against a placeholder number.
* `customerMaintenance` "throws only on a non-2xx HTTP" (`evolveIrm.service.ts` L431): it throws transport errors too. A part is said to be "an authoritative NOT_FOUND" (L1513) after the sessions ran out twice.
* `toEvolvePhone` takes a local number of area 027 for an international one (L505); "+27 .." (L535) collapses to two candidates.
* A vehicle's model code is "NEVER overwritten" (`vehicleModelCode.service.ts` L5) but by a write that does not look again. Codes without a year are inserted anew at each warm-up.
* One row that comes twice in a list of Evolve fails this list and all after it, at every sync. A sync reactivates pairs an administrator disabled; pairs of no company are not "superseded" (`drizzle/0070` L15).

*Back office*

* "Each threshold fires at most once" (`notifications/service.ts` L440) fails when two checks overlap.
* "DB has unique indexes on both columns" (`user-management/service.ts` L775): both are commented out in `users.ts` L63. The Evolve number of a deleted user can never be mapped again.

## 7. Proofs

All are for any value of the constants that meets the named assumptions: sentinels are not ids, the constants are of the
type they should be, no amount is half way between two cents (`BillingAssumption`), the books a run of `Appointments` begins
with are sound ones (`SoundBook`), the values that stand for no number and for the same number are not numbers (`BackOfficeAssumption`). Further hypotheses are stated in the theorems themselves, because the properties are promised under them only (section 5):
`NothingFails` (no request stops half way), and `LoneRequest`, `LoneFloor`, `LoneCustomer`, `LoneAdvisor` or `LoneDesk` (requests, or those of technicians, of the customer, of the advisor, of the parts desk, do not overlap each other; one after the other there may be any number).
In every proof of `Spec => []Inv` the module's types are proved first and are part of the inductive invariant.

| Proofs about | Properties of the runs | Hypotheses |
|---|---|---|
| `RoStatusTrail` | `StatusIsLastCommitted`, `OriginsHappened` | |
| `ServiceVisit` | `PointerIsOpen` | |
| | `ActiveVisitIsQueued`, `RedeemedIsClosing` | `NothingFails` |
| | `CardStatusTellsWork`, `StatusFollowsInspection`, `OpenIsPointed`, `ImplementsBoard` | `LoneRequest` |
| | `BayOnlyInWorkshop`, `ReservationFollowsFloor` | both |
| `TechnicianWork` | `ReviewedWorkIsDone` | |
| | `FinishedCardIsHandedOver`, `OneTimerPerTechnician`, `DoneItemHasNoTimer` | `LoneFloor` |
| `Billing` | all of `billing_concurrent` | |
| `Estimate` | `HandedOverIsAnswered` | |
| | `AnswersStand` | `LoneCustomer` |
| | `NotStuckInParts` | `LoneAdvisor`, `LoneDesk` |
| `VehicleVisits` | all of `vehicle_visits` | |
| `EvolveCustomers` | `IdentityStands` (and `Identity`, the refinement, for a customer with a reference), `EngineKept` | |
| `EvolveSync` | `NumberIsOurs`, `OneRo`, `SyncedIsFresh` | |
| `Appointments` | `NoDoubleBooking`, `OneOpenAppointment`, `SlotsKeepCapacity` | |
| `BackOffice` | `AlertsTold`, `OneTag`, `NumberFitsRole` | |

The arguments:

* **`ServiceVisitProofs`, the status trail.** The strengthening says of a call about to write that
  its origin is not its target and is a status the check-in had at some time. Also proved: no row records a move to where it comes from (`RowsMove`).
* **`ServiceVisitProofs`, pointers.** With the types, `PointerIsOpen` is inductive as it stands, and needs nothing about what a request has
  read: an allocation is opened once, and the transaction that closes it clears the bay it was made for, whatever that bay shows by then. So
  nothing can point to a closed allocation, although a stale release may clear the pointer to an open one (why `OpenIsPointed` is serial).
* **`ServiceVisitProofs`, the chain of a status.** No dashboard lists QC_PASSED, RELEASED, CLOSED or a visit without a status, so whoever sets one of
  them must still be about to set the next. `ChainInv` says so: an active visit in such a status has a request in flight that will move it on (`TransientIsChased`), whatever
  the other requests on the visit have read and write. It needs to know where a request can be for each status it sets (`Ordered`), and that nothing refers to a visit that has not begun (`StillToCome`).
* **`ServiceVisitProofs`, one request at a time.** While one request runs, what it has read is still so when it writes; `CardInv`, `InspectionInv` and `FloorInv` say what each step has read of
  the card, the inspection, the bay and the allocation. A failure may come anywhere: it leaves these three in order. `FloorImplementsBoard` goes through the steps: the refinement reads the bays as a board
  (which vehicle stands where, by the bay's pointer), and every step of a handler moves one vehicle as `BayBoard` allows, or leaves the board as it is. `WorkshopInv` joins the chain with
  the floor: the bay is given back by the `setRoStatus` that takes a vehicle out of the workshop, so a vehicle with a bay is of the workshop, or the request that moved it is on its way to the release (`BayIsFollowed`), or is about to
  sync the reservation (`ReservationIsFollowed`). A failure between the two breaks these, hence the second hypothesis.
* **`TechnicianWorkProofs`.** For `ReviewedWorkIsDone` the step that needs an argument is `CompleteCommit`, which decides on what it counted earlier. The strengthening, `LastIsLast`, says that
  a completion that counted nothing remaining still finds nothing: only a rejection reopens items, and it waits for the item the
  completion holds. With technicians one at a time (`LoneInv`), what a technician's request has read of the card, its item and its timers stays so while any number of foremen assign, sign off and reject (`FloorIsFresh`);
  the last completion then sees that it is the last. `FinishedCardIsHandedOver` needs the card to have work (`Work # {}`): with none, all of it is done from the start.
* **`BillingProofs`.** The strengthening, `RequestsSound`, bounds what a payment in flight may still add: it
  never exceeds what was due when it read, and a stale `paid` is never more than was collected. Also proved: a redeemed pass stays redeemed (`RedeemedForGood`).
* **`VehicleVisitsProofs`.** A request that makes a visit or an inspection, and that no other has overtaken since it read, has read that there is none; one that archives the images holds every kept photo among
  them (`Sound`). So a step either adds the first, or what it adds is `unsure`. An inspector has looked twice: for inspections before its transaction, for a visit in it.
* **`EvolveSyncProofs`, customers.** Evolve knows a customer by our reference once it has made it, so it makes one at most, and every answer still on its way carries its id (`Issued`). A push that comes late therefore writes what is there, and
  each step learns the id or stutters in `EvolveIdentity`. Without a reference nothing bounds what Evolve makes; but a push that no other overlapped has read the placeholder, and nobody else can have replaced it since (`Unraced`), so it learns. That no second row of ours has the id is `NobodyHasOurId`.
* **`EvolveSyncProofs`, repair orders.** Unless something marred the card, at most one call is in flight (`AloneWhenCalm`): the lock keeps sweeps apart, and a hook that overlaps mars. If Evolve has a repair order the card does not know, an attempt is on record, so the next call asks before it creates,
  or the call in flight is about to record it (`Made`); and what a call that is about to report success has carried to Evolve is no older than the change the last call followed (`Carried`), since a change that fires a call meanwhile would be a second call. `NumberIsOurs` needs neither: what a call may write to is a repair order
  made for this card (`OwnRo`), whatever overlaps or strays.
* **`AppointmentsProofs`.** Two requests never hold one lock (`LocksApart`). What a creation or a move has checked under a bay's or a vehicle's lock stays true of the bookings that are not `unsure` until its write, because whoever places one
  without that lock makes it `unsure` (`CreationSound`, `TargetSound`). A creation or a reschedule that nothing raced is alone, so what it read outside the locks still holds (`UnracedSound`); that is all that protects the capacity of a slot. It is finite: the proofs count the bookings of a slot.
* **`EstimateProofs`.** All four rest on what a request can be at each of its steps (`Slots`) and on rows without a line or a part being blank (`Blank`).
  *Handed over*: the completion looks for an open price among the parts of items that are not done, so a part whose price is open must belong to one, be about to get its line, or be marked as cut off (`Followed`).
  *Answers*: a submission decides by the page it loaded whether it is about extras (`supp`). Such a one ticks none of the advisor's lines (`Rounds`), and any other answers lines that are asked:
  once a line of the advisor's has its answer, the only submissions still on their way are about extras (`Settling`), and an alone customer's page cannot be older than his own answer.
  *Parts*: until the parts are confirmed nothing is out that could change the card (`BeforeSharing`), a draft has no parts (`Drafting`), a request for parts finds lines that need some (`Requesting`),
  and of the pending parts the last to be answered counts before anyone else does (`Moving` says which moves leave a part pending), unless it stops, which is the step the property names.
* **`BackOfficeProofs`.** *Alerts*: while runs neither overlap nor stop there is one at most, what it has read is what the item holds (`RunKnows`), and what is marked is told, but for the threshold it is about to tell (`Told`).
  *Tags*: of completions that do not overlap, the one about to insert a tag has looked and found none since (`TagInv`). *Numbers*: the body of a call that will write a number is of a technician, by the role the call read or writes (`CallIsForTechnician`), so who gets one and is
  none had a role that changed after the read.

Of the pure modules these statements, which runs evaluate on small inputs, hold of inputs of any size:

| Statements of | Proved in `VehicleVisitsProofs` and `EvolveSyncProofs` | For every |
|---|---|---|
| `BookingIdentity` | `NobodyElsesVehicle`, `IdentitiesStayDistinct`, `RetryMakesNobodyTwice`, `BookedInItsCompany`, `SwitchMeansRefusal`, `OwnVehicleIsRefused` | finite tables whose rows have an id of their own (`BookingTables`) and body with the phone and the registration that `createAppointmentSchema` asks for (`BookingBody`; a registration of blanks is left out) |
| | `NotFoundIsCertain` | number of spellings and answers |
| `ModelCodes` | `MoreRowsNeverChangeTheCode`, `FailsClosed` | model and catalogue |
| `RepairOrderMessage` | `SentAgainIsUpdated` | card, of any number of items |
| `EvolveTransport` | `MissingIsSaidByEvolve` | answers of the three attempts |

* **Bookings.** A vehicle is the one the body names, one found by its numbers that is the customer's or nobody's (`FoundFor`), or a new one whose numbers and id no row has (`MadeFor`); a customer likewise (`MadeCustomer`). So a booking adds no second row
  with a number, and the same body, sent again to the tables it left, finds the rows it made (`SameCustomer`, `SameVehicle`). That the tables are distinct to begin with is a hypothesis of the statements themselves: the partial indexes keep it of vehicles, the look-ups of customers.
  `OneVehicleSought`, the hypothesis about the company, speaks of archived rows as well: the owner is looked for among them (`appointments/service.ts` L1806) and the vehicle booked is not (L944). Without that the statement is false (`ArchivedTwinMisleads`, evaluated by `evolve_customers`).
* **Codes.** A code of the confidence HIGH is the only one with the model's letters (`HighIsTheOnly`); more rows add codes with these letters or none.
* **Labour lines.** To count from one gives a number, never NULL (`LinesHaveNumbers`), so a line that was numbered is an update; and to keep the numbers changes nothing that a line is judged by (`NumbersAreKept`).
* **Attempts.** Every call ends (`CallsEnd`), and the last answer is the only one that is read.

Only model-checked:

* The liveness properties `TransientStatusMovesOn`, `EveryRequestAnswered`, `Settles` and `CacheHeals`: the provers do not know ENABLED, so not fairness.
* The other pure modules, and what the table above does not name of these, evaluated on small tables. What most of them compute is a fold or a recursive function, and induction over data is out of the prover's reach.

## 8. What is not modelled, and what is simplified

* `closeVisit` in redeem updates check-in, vehicle and appointment in statements of their own; `ServiceVisit` closes the visit in
  one action, since nothing it models reads the other two apart from it. `VehicleVisits` and `Appointments` have those writes as steps.
* Each visit's rework reopens cards of its own. The handler takes item ids from the client and does not check this.
* A bay that was deleted and one created later may have the same name in the model.
* The last two statements of `startItemWork` (the log, and the status of the card) are one action; `assignTechnician` assigns one item at a time.
* A rework of a signed-off card and the bay a start asks for are in `ServiceVisit`, not in `TechnicianWork`.
* `Estimate` has no totals (`InvoiceLines` has them, for calls one at a time; it has no request for a modification, no approval by staff and no locked card but a rejected one), and no completion with the parts check turned off.
* `VehicleVisits` leaves out the check-in's own status column, a check-in moved to another vehicle by `updateCheckIn`, `hardDelete`, `replaceImage`, and the edit of an open entry.
* `EvolveCustomers` leaves out EVOLVE_COMPANY_AWARE_PUSH, which is off by default.
* `AccessControl` leaves out the super administrator, the profile a user keeps, sessions and passwords; the cache of scopes is of the same kind as the cache of permissions.
* The pure modules take calls one at a time; where their overlap matters (starts of inspections, entries, bookings, pushes) another module has it.
* `InvoiceLines` leaves out the times of lines on the customer's page: only an extra is added after an approval, and it is known by its link. Amounts that come to half a cent are left out.
* Notifications and pushes to Evolve that `setRoStatus` and the handlers of the visit start write no row that `ServiceVisit` reads.
* Write-ups, diagnosis texts and the wording of messages are payload; a request that lacks what it must have answers 400 and changes nothing.
* Not modelled at all: the 360 view (it collects rows of the other components), mail, WhatsApp and the recognition services (I/O), the customers' own pages and the lookup tables
  (create, list, update and delete of single rows), seed and dump scripts, start-up.

## 9. Plan

1. More proofs about the operators: `BayIntervals` (free windows do not meet bookings), `RepairOrderMessage` (numbers apart), `VehicleLists` (what the checks let through the index does not refuse), where they need no induction.
2. `Billing` composed with `ServiceVisit`: `gatePass` there as a refinement of invoices and passes here.
