------------------------------ MODULE Worklists ------------------------------
(***************************************************************************)
(* What the desks see: the queue of quality control                        *)
(* (qc-inspections/service.ts getDashboard), the list of the service       *)
(* advisors, the jobs and the workload of technicians, the board of the    *)
(* parts desk, and the scope that narrows the lists to a user's shop and   *)
(* to warranty work (shared/security/scope.ts).                            *)
(*                                                                         *)
(* A list is an operator on `db`, the rows of its tables as sets of        *)
(* records.  A time is a positive number and Null stands for NULL.         *)
(***************************************************************************)
EXTENDS Integers, SequencesExt

Null == 0

Page(rows, page, limit) ==
  SubSeq(rows, (page - 1) * limit + 1, IF page * limit > Len(rows) THEN Len(rows) ELSE page * limit)

-----------------------------------------------------------------------------
(* Scope.                                                                  *)

WarrantyServiceValues == {"Warranty Service", "WARRANTY_SERVICE"}

\* A card's service type is compared without its case and outer blanks, a row's is not.
IsWarrantyServiceType(service) == service \in WarrantyServiceValues \cup {" warranty service"}

ShopUnrestricted(scope) == scope.superAdmin \/ scope.shop = "ALL"

WarrantyUnrestricted(scope) == scope.superAdmin \/ ~scope.warrantyOnly

CheckInInScope(scope, shop) == ShopUnrestricted(scope) \/ (shop # "none" /\ shop = scope.shop)

WarrantyInScope(scope, service) == WarrantyUnrestricted(scope) \/ IsWarrantyServiceType(service)

Visits(db, v) == {c \in db.checkIns : c.vehicle = v.id}

Current(db, v) == {c \in Visits(db, v) : c.active}

\* shopVehicleFilter and warrantyVehicleFilter, of the lists of vehicles.
ShopVehicleFilter(db, scope, v) ==
  ShopUnrestricted(scope) \/ \E c \in Current(db, v) : c.shop = scope.shop

WarrantyVehicleFilter(db, scope, v) ==
  WarrantyUnrestricted(scope) \/ \E k \in db.cards : k.vehicle = v.id /\ k.service \in WarrantyServiceValues

\* One active check-in decides, whichever the database returns; none is out of scope.
VehicleInShopScope(db, scope, v) ==
  IF Current(db, v) = {} THEN CheckInInScope(scope, "none")
  ELSE LET c == CHOOSE x \in Current(db, v) : TRUE IN CheckInInScope(scope, c.shop)

\* The check-in is the card's own.
JobCardScopeError(db, scope, k) ==
  \/ ~(ShopUnrestricted(scope) \/ \E c \in db.checkIns : c.id = k.checkIn /\ CheckInInScope(scope, c.shop))
  \/ ~WarrantyInScope(scope, k.service)

-----------------------------------------------------------------------------
(* The inspection of a visit.                                              *)

IsLiveInspectionStatus(i) == i.status # "COMPLETED"

Since(i) == IF i.started # Null THEN i.started ELSE i.created

\* CURRENT_INSPECTION_ORDER_BY
Precedes(i, j) ==
  \/ IsLiveInspectionStatus(i) /\ ~IsLiveInspectionStatus(j)
  \/ /\ IsLiveInspectionStatus(i) = IsLiveInspectionStatus(j)
     /\ Since(i) > Since(j) \/ (Since(i) = Since(j) /\ i.id > j.id)

\* The first in that order, as a set: empty when the check-in has none.
CurrentInspection(db, c) ==
  LET of == {i \in db.inspections : i.checkIn = c.id}
  IN {i \in of : \A j \in of \ {i} : Precedes(i, j)}

\* The step of the reduction that tells the same in TypeScript.
BetterInspection(best, c) ==
  IF IsLiveInspectionStatus(c) # IsLiveInspectionStatus(best)
    THEN IF IsLiveInspectionStatus(c) THEN c ELSE best
  ELSE IF Since(c) # Since(best) THEN IF Since(c) > Since(best) THEN c ELSE best
  ELSE IF c.id > best.id THEN c ELSE best

PickCurrentInspection(candidates) ==
  IF candidates = <<>> THEN {} ELSE {FoldLeft(BetterInspection, Head(candidates), Tail(candidates))}

-----------------------------------------------------------------------------
(* The queue of quality control.  A query has a filter and two dates.      *)

PendingStatuses == {"Entry (Draft)", "Vehicle IN", "Inspection (Draft)"}

QueueStatuses == PendingStatuses \cup {"Inspection Done"}

HasRealEntry(db, v) == v.entry # Null \/ Visits(db, v) # {}

\* No comparison holds of NULL, and an absent date compares nothing.
Within(t, from, to) == t # Null /\ (from = Null \/ t >= from) /\ (to = Null \/ t <= to)

Touched(v, from, to) == Within(v.entry, from, to) \/ Within(v.updated, from, to)

DateOrCondition(v, q) == (q.from = Null /\ q.to = Null) \/ Touched(v, q.from, q.to)

\* A vehicle has a row for each active check-in, and one without if it has none.
QueueRows(db, scope, q, statuses) ==
  LET shown == {v \in db.vehicles :
                  /\ v.status \in statuses /\ v.active
                  /\ HasRealEntry(db, v) /\ DateOrCondition(v, q)
                  /\ q.filter = "URGENT" => v.urgent
                  /\ ShopVehicleFilter(db, scope, v)}
  IN UNION {IF Current(db, v) = {} THEN {[vehicle |-> v, visit |-> {}, inspection |-> {}]}
            ELSE {[vehicle |-> v, visit |-> {c}, inspection |-> CurrentInspection(db, c)] : c \in Current(db, v)} :
              v \in shown}

CompletedRows(db, scope, q) ==
  {row \in UNION {{[vehicle |-> v, visit |-> {c}, inspection |-> {i}] :
                     i \in {x \in db.inspections : x.checkIn = c.id /\ x.status = "COMPLETED"}} :
                  v \in db.vehicles, c \in db.checkIns} :
     /\ \A c \in row.visit : c.vehicle = row.vehicle.id /\ (ShopUnrestricted(scope) \/ c.shop = scope.shop)
     /\ DateOrCondition(row.vehicle, q)}

CompletedAt(row) == (CHOOSE i \in row.inspection : TRUE).completed

\* A row of the queue wins over the finished inspections, of which only the latest stays.
AllRows(db, scope, q) ==
  LET queue == QueueRows(db, scope, q, QueueStatuses)
      rest == {row \in CompletedRows(db, scope, q) : \A r \in queue : r.vehicle # row.vehicle}
  IN queue \cup {CHOOSE row \in rest : row.vehicle = v /\
                   \A r \in rest : r.vehicle = v => CompletedAt(row) >= CompletedAt(r) :
                   v \in {row.vehicle : row \in rest}}

QcRows(db, scope, q) ==
  CASE q.filter = "COMPLETED" -> CompletedRows(db, scope, q)
    [] q.filter = "ALL"       -> AllRows(db, scope, q)
    [] q.filter = "PENDING"   -> QueueRows(db, scope, q, PendingStatuses)
    [] OTHER                  -> QueueRows(db, scope, q, QueueStatuses)

\* getNextVehicle: the longest waiting vehicle whose visit has no inspection.
NextVehicles(db, scope) ==
  LET waiting == {v \in db.vehicles :
                    /\ v.status \in {"Entry (Draft)", "Vehicle IN"} /\ v.active
                    /\ Current(db, v) = {} \/ \E c \in Current(db, v) : CurrentInspection(db, c) = {}
                    /\ ShopVehicleFilter(db, scope, v)}
  IN {v \in waiting : \A w \in waiting : w.entry # Null => v.entry # Null /\ v.entry <= w.entry}

\* The cards above the queue, of the days asked for and of the day before each; every shop's.
QcStats(db, from, to) ==
  LET pending(f, t) == {v \in db.vehicles : v.status \in {"Entry (Draft)", "Vehicle IN"} /\ v.active
                                              /\ Touched(v, f, t) /\ HasRealEntry(db, v)}
      completed(f, t) == {i \in db.inspections : i.status = "COMPLETED" /\ Within(i.completed, f, t)}
  IN [pending |-> Cardinality(pending(from, to)),
      inProgress |-> Cardinality({v \in db.vehicles :
                        v.status = "Inspection (Draft)" /\ v.active /\ Touched(v, from, to)}),
      completed |-> Cardinality(completed(from, to)),
      pendingYesterday |-> Cardinality(pending(from - 1, to - 1)),
      inProgressYesterday |-> Cardinality({i \in db.inspections :
                        i.status = "IN_PROGRESS" /\ Within(i.started, from - 1, to - 1)}),
      completedYesterday |-> Cardinality(completed(from - 1, to - 1))]

-----------------------------------------------------------------------------
(* The list of the service advisors.                                       *)

WithParts == {"Job Card (Pending Parts Approval)", "Job Card (Parts Approval Done)"}

WithCustomer ==
  {"Job Card (Pending Cust. Approval)", "Job Card (Partial Cust. Approval)", "Job Card (Full Cust. Approval)"}

\* SA_FILTER_STATUS_MAP without ALL, which is the union of the others.
SaTabs ==
  [INSPECTION_DONE |-> {"Inspection Done"}, JOB_CARD_DRAFT |-> {"Job Card (Draft)"} \cup WithParts,
   PENDING_APPROVAL |-> WithCustomer, IN_SERVICE |-> {"In Service"}, READY_FOR_BILLING |-> {"Ready for Billing"}]

SaAll == UNION {SaTabs[tab] : tab \in DOMAIN SaTabs}

OfAdvisor(db, scope, statuses) ==
  {v \in db.vehicles : v.status \in statuses /\ v.active
                         /\ ShopVehicleFilter(db, scope, v) /\ WarrantyVehicleFilter(db, scope, v)}

SaRows(db, scope, q) ==
  {v \in OfAdvisor(db, scope, IF q.filter \in DOMAIN SaTabs THEN SaTabs[q.filter] ELSE SaAll) : DateOrCondition(v, q)}

\* What the cards above the list count: of the drafts, only those not with the parts desk.
SaCounted == [SaTabs EXCEPT !.JOB_CARD_DRAFT = {"Job Card (Draft)"}]

SaStats(db, scope, today) ==
  [tab \in DOMAIN SaCounted |->
     LET of == OfAdvisor(db, scope, SaCounted[tab])
     IN [now |-> Cardinality(of),
         yesterday |-> Cardinality({v \in of : Within(v.entry, today - 1, today - 1)})]]

SaTotalActive(db, scope) == Cardinality(OfAdvisor(db, scope, SaAll))

\* The service type of the last inspection done on any visit, and the number of the newest card.
LatestServiceType(db, v) ==
  LET done == {i \in db.inspections : i.status = "COMPLETED" /\ \E c \in Visits(db, v) : c.id = i.checkIn}
  IN {i.service : i \in {x \in done : \A y \in done : x.completed >= y.completed}}

LatestJobCardReference(db, v) ==
  LET of == {k \in db.cards : k.vehicle = v.id}
  IN {k.ro : k \in {x \in of : \A y \in of : x.created >= y.created}}

\* updateVehicleStatus: the advisor moves a vehicle by hand.
ValidTransitions(status) ==
  CASE status = "Inspection Done" -> {"Job Card (Draft)"}
    [] status = "Job Card (Draft)" -> {"Job Card (Pending Cust. Approval)"}
    [] status = "Job Card (Pending Cust. Approval)" -> WithCustomer \ {status}
    [] status = "Job Card (Partial Cust. Approval)" -> {"Job Card (Full Cust. Approval)", "In Service"}
    [] status = "Job Card (Full Cust. Approval)" -> {"In Service"}
    [] status = "In Service" -> {"Ready for Billing"}
    [] status = "Ready for Billing" -> {"Completed"}
    [] OTHER -> {}

\* The stages of getVehicleDetails: how far along this order a vehicle is.
StatusOrder ==
  <<"Entry (Draft)", "Vehicle IN", "Inspection (Draft)", "Inspection Done", "Job Card (Draft)",
    "Job Card (Pending Parts Approval)", "Job Card (Parts Approval Done)", "Job Card (Pending Cust. Approval)",
    "Job Card (Partial Cust. Approval)", "Job Card (Full Cust. Approval)", "In Service", "Ready for Billing", "Completed">>

ServiceProgress(status) ==
  LET at == SelectInSeq(StatusOrder, LAMBDA x : x = status) - 1
      stage(begun, done) == IF at >= done THEN "completed" ELSE IF at >= begun THEN "in_progress" ELSE "pending"
  IN [entry |-> "completed", qc |-> stage(2, 3), approval |-> stage(4, 9), service |-> stage(10, 11),
      billing |-> stage(11, 12)]

-----------------------------------------------------------------------------
(* Technicians.  A time is in half seconds.                                *)

Seconds(log, now) ==
  LET end == IF log.paused = Null THEN now ELSE log.paused
  IN IF end < log.started THEN 0 ELSE (end - log.started) \div 2

TotalSeconds(logs, now) == FoldSet(LAMBDA log, sum : sum + Seconds(log, now), 0, logs)

IsRunning(logs) == \E log \in logs : log.paused = Null

JobStatus(item, now) ==
  IF item.completed THEN "completed"
  ELSE IF IsRunning(item.logs) \/ TotalSeconds(item.logs, now) > 0 THEN "progress" ELSE "pending"

\* Labour lines are charged and are nobody's job.
MyTechnicianJobs(items, technician) == {i \in items : i.technician = technician /\ ~i.labour}

JobStats(items, technician, now) ==
  [status \in {"pending", "progress", "completed"} |->
     Cardinality({i \in MyTechnicianJobs(items, technician) : JobStatus(i, now) = status})]

\* What the foreman sees of a technician's load, labour lines too.
Workload(items, technician) ==
  [active |-> Cardinality({i \in items : i.technician = technician /\ ~i.completed}),
   completed |-> Cardinality({i \in items : i.technician = technician /\ i.completed})]

-----------------------------------------------------------------------------
(* Cards.                                                                  *)

\* getVehicleJobCards: those of the visit that is on, the newest first.
VehicleJobCards(db, scope, v) ==
  {k \in db.cards : /\ k.vehicle = v.id /\ \E c \in Current(db, v) : k.checkIn = c.id
                    /\ WarrantyUnrestricted(scope) \/ k.service \in WarrantyServiceValues}

\* getSuggestedJobs: a job for each failed item of the last inspection done on the vehicle.
SuggestedJobs(db, v) ==
  LET done == {i \in db.inspections : i.status = "COMPLETED" /\ \E c \in Visits(db, v) : c.id = i.checkIn}
  IN UNION {i.failed : i \in {x \in done : \A y \in done : x.completed >= y.completed}}

\* getJobCard: of an item's requests it shows the status of one, whichever comes last.
PartStatus(parts, item) == {p.status : p \in {x \in parts : x.item = item}}

\* The parts requests of a card are made anew, one for each item that needs a part.
PendingPartRequests(parts, items, card) ==
  {p \in parts : p.card # card}
    \cup {[card |-> card, item |-> i.id, status |-> "pending"] : i \in {x \in items : x.part /\ ~x.labour}}

-----------------------------------------------------------------------------
(* The parts desk: cards with a pending part first, the newest first.      *)

HasPending(parts, card) == \E p \in parts : p.card = card /\ p.status = "pending"

PartGroups(parts, created) ==
  SetToSortSeq({p.card : p \in parts},
               LAMBDA k, l : IF HasPending(parts, k) = HasPending(parts, l) THEN created[k] > created[l]
                             ELSE HasPending(parts, k))

-----------------------------------------------------------------------------
(* What is said of the lists.                                              *)

OneActive(db) == \A v \in db.vehicles : Cardinality(Current(db, v)) <= 1

\* currentInspection.ts: the query and the function pick the same inspection, in whatever
\* order the candidates come, and a live one if there is one.
SameInspectionPicked(candidates) ==
  LET picked == PickCurrentInspection(candidates)
      all == {candidates[n] : n \in DOMAIN candidates}
  IN /\ picked = CurrentInspection([inspections |-> all], [id |-> 1])
     /\ (\E i \in all : IsLiveInspectionStatus(i)) => \A i \in picked : IsLiveInspectionStatus(i)

\* getDashboard: ALL shows every vehicle of the queue and of the finished inspections, each
\* once; a vehicle is in the tabs PENDING and COMPLETED at once only while it is inspected again.
TabsAgree(db, scope, q) ==
  LET tab(filter) == QcRows(db, scope, [q EXCEPT !.filter = filter])
      shown(filter) == {row.vehicle : row \in tab(filter)}
  IN OneActive(db) =>
       /\ Cardinality(tab("ALL")) = Cardinality(shown("ALL"))
       /\ shown("ALL") = shown("DELAYED") \cup shown("COMPLETED")
       /\ \A v \in shown("PENDING") \cap shown("COMPLETED") :
            v.status \in PendingStatuses /\ \E c \in Visits(db, v), i \in db.inspections :
                                             i.checkIn = c.id /\ i.status = "COMPLETED"

\* The cards of the queue count the tab of the same days.
PendingCardsCountTheTab(db, from, to) ==
  LET all == [superAdmin |-> TRUE, shop |-> "ALL", warrantyOnly |-> FALSE]
      stats == QcStats(db, from, to)
      arrived == \A v \in db.vehicles : v.status = "Inspection (Draft)" => HasRealEntry(db, v)
  IN OneActive(db) /\ arrived =>
       stats.pending + stats.inProgress
         = Cardinality(QcRows(db, all, [filter |-> "PENDING", from |-> from, to |-> to]))

\* getNextVehicle offers a vehicle of the tab PENDING, or one the gate has never seen.
NextIsPending(db, scope) ==
  LET pending == {row.vehicle : row \in QcRows(db, scope, [filter |-> "PENDING", from |-> Null, to |-> Null])}
  IN \A v \in NextVehicles(db, scope) : v \in pending <=> HasRealEntry(db, v)

\* scope.ts: who sees a vehicle in the list may open it, and nobody else may.
ListedMayBeOpened(db, scope) ==
  OneActive(db) => \A v \in db.vehicles : ShopVehicleFilter(db, scope, v) <=> VehicleInShopScope(db, scope, v)

\* The cards of the advisors' list count its tabs, but for the drafts with the parts desk.
AdvisorCardsCountTheTabs(db, scope, today) ==
  LET stats == SaStats(db, scope, today)
      tab(filter) == Cardinality(SaRows(db, scope, [filter |-> filter, from |-> Null, to |-> Null]))
      withParts == Cardinality(OfAdvisor(db, scope, WithParts))
  IN /\ \A filter \in DOMAIN SaTabs :
          stats[filter].now = tab(filter) - IF filter = "JOB_CARD_DRAFT" THEN withParts ELSE 0
     /\ SaTotalActive(db, scope) = FoldFunction(LAMBDA n, sum : n + sum, 0, [filter \in DOMAIN SaTabs |-> tab(filter)])

\* updateVehicleStatus moves a vehicle on from tab to tab and never back; with the parts desk
\* it finds the way neither in nor out.
MovesOn ==
  LET order == <<"INSPECTION_DONE", "JOB_CARD_DRAFT", "PENDING_APPROVAL", "IN_SERVICE", "READY_FOR_BILLING">>
      place(status) == IF status \in SaAll THEN CHOOSE n \in DOMAIN order : status \in SaTabs[order[n]] ELSE 6
  IN \A status \in SaAll :
       /\ \A next \in ValidTransitions(status) :
            place(next) \in {place(status), place(status) + 1, place(status) + 2} /\ next \notin WithParts
       /\ ValidTransitions(status) = {} <=> status \in WithParts

\* getVehicleDetails: no move takes a stage back, and a stage begins when the one before is done.
ProgressGrows ==
  LET level == [pending |-> 0, in_progress |-> 1, completed |-> 2]
      stages == <<"entry", "qc", "approval", "service", "billing">>
  IN \A status \in SaAll :
       /\ \A next \in ValidTransitions(status), stage \in DOMAIN ServiceProgress(status) :
            level[ServiceProgress(status)[stage]] <= level[ServiceProgress(next)[stage]]
       /\ \A n \in 1 .. 4 : ServiceProgress(status)[stages[n + 1]] # "pending"
                              => ServiceProgress(status)[stages[n]] = "completed"

\* getMyTechnicianJobs: what a technician sees counts every job once, and with the labour
\* lines it is the load the foreman sees (listTechnicians).
JobsAgree(items, technician, now) ==
  LET stats == JobStats(items, technician, now)
      load == Workload(items, technician)
      labour(done) == Cardinality({i \in items : i.technician = technician /\ i.labour /\ i.completed = done})
  IN /\ stats.completed + labour(TRUE) = load.completed
     /\ stats.pending + stats.progress + labour(FALSE) = load.active

\* Hours are lost to the rounding of each session, never gained: pausing adds none.
PausesAddNoTime(logs, now) ==
  LET worked == {t \in 1 .. now : \E log \in logs :
                   log.started < t /\ (log.paused = Null \/ t <= log.paused)}
      apart == \A k \in logs, l \in logs : k # l =>
                  \/ k.paused # Null /\ k.paused <= l.started
                  \/ l.paused # Null /\ l.paused <= k.started
  IN apart => /\ 2 * TotalSeconds(logs, now) <= Cardinality(worked)
              /\ Cardinality(worked) <= 2 * TotalSeconds(logs, now) + Cardinality(logs)

\* getDashboard of the parts desk: the first card has a pending part if any has one.
PendingFirst(parts, created) ==
  LET groups == PartGroups(parts, created)
  IN (\E p \in parts : p.status = "pending") => HasPending(parts, groups[1])

\* The cards above the parts desk count what its groups show.
PartStats(parts) ==
  [status \in {"pending", "available", "unavailable", "dispatched"} |-> Cardinality({p \in parts : p.status = status})]

PartCardsCountTheGroups(parts, created) ==
  FoldFunction(LAMBDA n, sum : n + sum, 0, PartStats(parts))
    = FoldLeft(LAMBDA sum, card : sum + Cardinality({p \in parts : p.card = card}), 0, PartGroups(parts, created))

\* What getVehicleJobCards lists, getJobCard opens.
ListedCardsMayBeOpened(db, scope) ==
  OneActive(db) =>
    \A v \in db.vehicles : VehicleInShopScope(db, scope, v) =>
      \A k \in VehicleJobCards(db, scope, v) : ~JobCardScopeError(db, scope, k)

\* insertPendingPartRequests: asked again or not, every item that needs a part has one request.
OneRequestPerItem(parts, items, card) ==
  LET asked == PendingPartRequests(parts, items, card)
  IN /\ PendingPartRequests(asked, items, card) = asked
     /\ \A i \in items : Cardinality(PartStatus({p \in asked : p.card = card}, i.id)) = IF i.part /\ ~i.labour THEN 1 ELSE 0

\* The pages of a list are the list.
PagesMakeTheList(rows, limit) ==
  FlattenSeq([page \in 1 .. (Len(rows) + limit - 1) \div limit |-> Page(rows, page, limit)]) = rows
==============================================================================
