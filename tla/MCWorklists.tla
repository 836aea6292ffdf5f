----------------------------- MODULE MCWorklists -----------------------------
(* The lists on small tables: what Worklists says of them, evaluated.       *)
EXTENDS Integers, SequencesExt

W == INSTANCE Worklists

InspectionRows(id) ==
  {i \in [id : {id}, checkIn : {1}, status : {"PENDING", "IN_PROGRESS", "COMPLETED"}, started : 0 .. 2, created : 1 .. 2] :
     i.status = "PENDING" <=> i.started = W!Null}

\* Three inspections of one visit, in every order.
ASSUME InspectionsArePickedAlike ==
  \A i \in InspectionRows(1), j \in InspectionRows(2), k \in InspectionRows(3) :
    \A candidates \in SetToAllKPermutations({i, j, k}) : W!SameInspectionPicked(candidates)

\* One vehicle with up to two visits, each of its shop, and up to two inspections.
Visit(id, active, shop) == [id |-> id, vehicle |-> 1, active |-> active, shop |-> shop]

Report(id, checkIn, status) ==
  [id |-> id, checkIn |-> checkIn, status |-> status, started |-> id, created |-> id,
   completed |-> IF status = "COMPLETED" THEN id ELSE W!Null]

QueueTables ==
  [vehicles : {{v} : v \in [id : {1}, status : W!QueueStatuses \cup {"In Service"}, active : {TRUE},
                            urgent : {FALSE}, entry : 0 .. 1, updated : 1 .. 2]},
   checkIns : UNION {{{}, {Visit(1, active, "MAJOR")}, {Visit(1, FALSE, "MAJOR"), Visit(2, active, "SERVICE")}} :
                       active \in BOOLEAN},
   inspections : {{}} \cup UNION {{{Report(1, c, status)}, {Report(1, c, "COMPLETED"), Report(2, 2, status)}} :
                                    c \in 1 .. 2, status \in {"IN_PROGRESS", "COMPLETED"}}]

Scopes == [superAdmin : {FALSE}, shop : {"ALL", "MAJOR", "SERVICE"}, warrantyOnly : BOOLEAN]

ASSUME QueueTabsAgree ==
  \A db \in QueueTables :
    /\ W!PendingCardsCountTheTab(db, 2, 2)
    /\ \A scope \in Scopes :
         /\ W!TabsAgree(db, scope, [filter |-> "ALL", from |-> 2, to |-> W!Null])
         /\ W!ListedMayBeOpened(db, scope)
         /\ W!NextIsPending(db, scope)

\* Two vehicles on the advisors' list, of one shop each, one perhaps with a warranty card.
Listed(id) == [id : {id}, status : W!SaAll, active : {TRUE}, urgent : {FALSE}, entry : {1}, updated : {2}]

ASSUME AdvisorsListAgrees ==
  /\ W!MovesOn /\ W!ProgressGrows
  /\ \A v \in Listed(1), w \in Listed(2), scope \in Scopes, service \in {"WARRANTY_SERVICE", "Other"} :
       W!AdvisorCardsCountTheTabs(
         [vehicles |-> {v, w}, cards |-> {[vehicle |-> 1, service |-> service]},
          checkIns |-> {Visit(1, TRUE, "MAJOR"), [Visit(2, TRUE, "SERVICE") EXCEPT !.vehicle = 2]}], scope, 2)

ASSUME TechniciansListsAgree ==
  LET sessions == {l \in [started : 1 .. 5, paused : 0 .. 6] : l.paused = W!Null \/ l.paused >= l.started}
      job(id) == [id : {id}, technician : 1 .. 2, labour : BOOLEAN, completed : BOOLEAN,
                  logs : {{}, {[started |-> 1, paused |-> 2]}, {[started |-> 1, paused |-> W!Null]}}]
  IN /\ \A k \in sessions, l \in sessions : W!PausesAddNoTime({k, l}, 7)
     /\ \A i \in job(1), j \in job(2) : W!JobsAgree({i, j}, 1, 5)

ASSUME ListsAreOrdered ==
  /\ \A n \in 0 .. 6, limit \in 1 .. 4 : W!PagesMakeTheList([k \in 1 .. n |-> k], limit)
  /\ \A parts \in SUBSET [card : 1 .. 2, item : 1 .. 2, status : {"pending", "available"}] :
       /\ W!PendingFirst(parts, <<1, 2>>)
       /\ W!PartCardsCountTheGroups(parts, <<1, 2>>)

ASSUME CardsMayBeOpened ==
  \A k \in [id : {1}, vehicle : {1}, checkIn : {1, 2}, service : W!WarrantyServiceValues \cup {" warranty service", "Other"}],
     scope \in Scopes, active \in BOOLEAN :
    W!ListedCardsMayBeOpened(
      [vehicles |-> {[id |-> 1]}, cards |-> {k}, checkIns |-> {Visit(1, FALSE, "MAJOR"), Visit(2, active, "SERVICE")}], scope)

ASSUME PartsAreAskedOnce ==
  LET needs(id) == [id : {id}, part : BOOLEAN, labour : BOOLEAN]
      requests(card, item) == [card : {card}, item : {item}, status : {"pending", "dispatched"}]
  IN \A i \in needs(1), j \in needs(2), old \in requests(1, 2), other \in requests(2, 3) :
       W!OneRequestPerItem({old, other}, {i, j}, 1)
==============================================================================
