---------------------------- MODULE ServiceVisit ----------------------------
(***************************************************************************)
(* A workshop visit from the gate to the gate: RO status, bay allocation,  *)
(* job-card sign-off, final QC, washbay and release, as HTTP handlers that *)
(* run concurrently against one PostgreSQL database (READ COMMITTED).      *)
(*                                                                         *)
(* A handler is a request that reads rows, decides, and writes later; the  *)
(* step between two of its database calls is an action, and what it has    *)
(* read is kept in its request record until it is used.  A transaction     *)
(* that only writes is one action.  No handler locks a row or repeats its  *)
(* check in the write: the one constraint the database adds is the partial *)
(* unique index uq_allocation_open_per_checkin.                            *)
(***************************************************************************)
EXTENDS Naturals, FiniteSets, RoStatuses

CONSTANTS
  CheckIns,       \* vehicle_check_ins rows: visits
  Bays,           \* workshop_bays rows
  JobCards,       \* job_cards rows
  CheckInOf,      \* job card -> the visit it belongs to
  Allocations,    \* ids workshop_allocations rows get: bounds how many are made
  Requests,       \* slots for handlers in flight: bounds the concurrency
  Endpoints,      \* the endpoints clients call in this instance
  MaxFailures,    \* how many requests may stop half way
  NoCheckIn, NoBay, NoJobCard, NoAllocation

AllEndpoints ==
  {"confirmVehicleEntry", "createBay", "updateBay", "deleteBay", "allocateToBay",
   "reallocate", "releaseAllocation", "approveJobCard", "startTechnicianWork",
   "completeItemWork", "signOffJobCard", "rejectJobCard", "submitInspection",
   "markReadyForRelease", "recordPayment", "redeem"}

ASSUME ConstantsAssumption ==
  /\ CheckInOf \in [JobCards -> CheckIns]
  /\ Endpoints \subseteq AllEndpoints
  /\ MaxFailures \in Nat
  /\ NoCheckIn \notin CheckIns /\ NoBay \notin Bays
  /\ NoJobCard \notin JobCards /\ NoAllocation \notin Allocations

VARIABLES
  visit,        \* check-in -> "absent", "active" (is_active), "completed"
  ro,           \* check-in -> ro_status
  reserved,     \* check-in -> appointments.bay_id of its linked appointment
  bay,          \* bay -> its row: exists, is_active, current_allocation_id
  alloc,        \* allocation -> its row
  card,         \* job card -> status, and whether work on it is unfinished
  inspection,   \* check-in -> result of its latest QC-out inspection
  gatePass,     \* job card -> the gate pass its paid invoice minted
  req,          \* request -> where it is and what it has read
  failures      \* requests that stopped half way

vars == <<visit, ro, reserved, bay, alloc, card, inspection, gatePass, req, failures>>

-----------------------------------------------------------------------------

CardStatus == {"none", "APPROVED", "IN_PROGRESS", "FOREMAN_REVIEW", "COMPLETED"}

\* "none" stands for every status before customer approval; unfinished: an item
\* of the card has no completed_at.
CardRow == [status : CardStatus, unfinished : BOOLEAN]

BayRow == [exists : BOOLEAN, isActive : BOOLEAN, current : Allocations \cup {NoAllocation}]

\* state: "unused" id, "open" (released_at IS NULL) or "released".
AllocationRow ==
  [state : {"unused", "open", "released"}, checkIn : CheckIns \cup {NoCheckIn},
   bay : Bays \cup {NoBay}]

\* at: the database call the request makes next.
Steps ==
  {"idle", "deleteBay", "allocOpen", "allocBay", "allocCommit", "reallocBay",
   "reallocCommit", "roRead", "roWrite", "releaseRead", "releaseCommit", "syncBay",
   "startBay", "startWrite", "finishWrite", "finishCheck", "signOff", "reject",
   "inspect", "redeemWrite", "closeVisit"}

Request ==
  [at : Steps, op : AllEndpoints \cup {"none"}, checkIn : CheckIns \cup {NoCheckIn},
   jobCard : JobCards \cup {NoJobCard}, bay : Bays \cup {NoBay},
   alloc : Allocations \cup {NoAllocation},        \* allocation it has read
   rework : BOOLEAN,                               \* it has read QC_FAILED
   target : RoStatus \cup {NoStatus}]              \* toStatus of its setRoStatus

Idle ==
  [at |-> "idle", op |-> "none", checkIn |-> NoCheckIn, jobCard |-> NoJobCard,
   bay |-> NoBay, alloc |-> NoAllocation, rework |-> FALSE, target |-> NoStatus]

TypeOK ==
  /\ visit \in [CheckIns -> {"absent", "active", "completed"}]
  /\ ro \in [CheckIns -> RoStatus \cup {NoStatus}]
  /\ reserved \in [CheckIns -> Bays \cup {NoBay}]
  /\ bay \in [Bays -> BayRow]
  /\ alloc \in [Allocations -> AllocationRow]
  /\ card \in [JobCards -> CardRow]
  /\ inspection \in [CheckIns -> {"none", "PASS", "FAIL"}]
  /\ gatePass \in [JobCards -> {"none", "ACTIVE", "REDEEMED"}]
  /\ req \in [Requests -> Request]
  /\ failures \in 0..MaxFailures

\* Bays exist and are free; every visit is still to come.
Init ==
  /\ visit = [c \in CheckIns |-> "absent"]
  /\ ro = [c \in CheckIns |-> NoStatus]
  /\ reserved = [c \in CheckIns |-> NoBay]
  /\ bay = [b \in Bays |-> [exists |-> TRUE, isActive |-> TRUE, current |-> NoAllocation]]
  /\ alloc = [a \in Allocations |-> [state |-> "unused", checkIn |-> NoCheckIn, bay |-> NoBay]]
  /\ card = [j \in JobCards |-> [status |-> "none", unfinished |-> TRUE]]
  /\ inspection = [c \in CheckIns |-> "none"]
  /\ gatePass = [j \in JobCards |-> "none"]
  /\ req = [r \in Requests |-> Idle]
  /\ failures = 0

-----------------------------------------------------------------------------
(* Helpers.                                                                *)

OpenOf(c) == {a \in Allocations : alloc[a].state = "open" /\ alloc[a].checkIn = c}

CardsOf(c) == {j \in JobCards : CheckInOf[j] = c}

\* Bound: an id is left for every allocation that may still be inserted.
IdLeft ==
  Cardinality({a \in Allocations : alloc[a].state = "unused"}) >
  Cardinality({r \in Requests : req[r].op \in {"allocateToBay", "reallocate"}})

\* A new request of endpoint op, whose record is q once its first read is done.
Begin(r, op, q) ==
  /\ req[r].at = "idle"
  /\ op \in Endpoints
  /\ req' = [req EXCEPT ![r] = [q EXCEPT !.op = op]]

Goto(r, step) == req' = [req EXCEPT ![r].at = step]

Finish(r) == req' = [req EXCEPT ![r] = Idle]

\* The handler calls setRoStatus(checkIn, status) next.
SetRoNext(r, status) ==
  req' = [req EXCEPT ![r] = [@ EXCEPT !.at = "roRead", !.target = status, !.alloc = NoAllocation]]

\* Mutants of Return: no chained WASHBAY; a closed RO leaves the check-in open.
ReturnWithoutWashbay(r) ==
  CASE req[r].target = "RELEASED"    -> SetRoNext(r, "CLOSED")
    [] req[r].target = "CLOSED"      -> Goto(r, "closeVisit")
    [] req[r].target = "IN_WORKSHOP" -> Goto(r, "syncBay")
    [] OTHER                         -> Finish(r)

ReturnWithoutClosing(r) ==
  CASE req[r].target = "QC_PASSED"   -> SetRoNext(r, "WASHBAY")
    [] req[r].target = "RELEASED"    -> SetRoNext(r, "CLOSED")
    [] req[r].target = "IN_WORKSHOP" -> Goto(r, "syncBay")
    [] OTHER                         -> Finish(r)

\* What the handler does when its setRoStatus (or releaseAllocationForCheckIn)
\* has returned: submitInspection and redeem chain a second status, and allocateToBay,
\* the one that sets IN_WORKSHOP, syncs the reservation.
Return(r) ==
  CASE req[r].target = "QC_PASSED"   -> SetRoNext(r, "WASHBAY")
    [] req[r].target = "RELEASED"    -> SetRoNext(r, "CLOSED")
    [] req[r].target = "CLOSED"      -> Goto(r, "closeVisit")
    [] req[r].target = "IN_WORKSHOP" -> Goto(r, "syncBay")
    [] OTHER                         -> Finish(r)

\* Rows of a new open allocation a of check-in c to bay b; the bay points to it,
\* whatever it pointed to before.
Opened(allocs, a, c, b) ==
  [allocs EXCEPT ![a] = [state |-> "open", checkIn |-> c, bay |-> b]]

Pointed(bays, b, a) == [bays EXCEPT ![b].current = a]

\* Rows after closing allocation a: the bay it was made for points nowhere,
\* whatever it points to by now.
Closed(allocs, a) == [allocs EXCEPT ![a].state = "released"]

ClearedNothing(bays, a) == bays                                          \* mutant

Cleared(bays, a) == [bays EXCEPT ![alloc[a].bay].current = NoAllocation]

-----------------------------------------------------------------------------
(* The gate and the bays' master data.                                     *)

\* confirmVehicleEntry: the transaction that inserts the check-in and links its
\* appointment (one without a reserved bay), then setRoStatus(ARRIVED).
ConfirmEntry(r, c) ==
  /\ visit[c] = "absent"
  /\ visit' = [visit EXCEPT ![c] = "active"]
  /\ Begin(r, "confirmVehicleEntry",
           [Idle EXCEPT !.at = "roRead", !.checkIn = c, !.target = "ARRIVED"])
  /\ UNCHANGED <<ro, reserved, bay, alloc, card, inspection, gatePass, failures>>

CreateBay(b) ==
  /\ "createBay" \in Endpoints
  /\ ~bay[b].exists
  /\ bay' = [bay EXCEPT ![b] = [exists |-> TRUE, isActive |-> TRUE, current |-> NoAllocation]]
  /\ UNCHANGED <<visit, ro, reserved, alloc, card, inspection, gatePass, req, failures>>

\* updateBay switches a bay on and off without looking at what stands in it.
UpdateBay(b) ==
  /\ "updateBay" \in Endpoints
  /\ bay[b].exists
  /\ \E on \in BOOLEAN : bay' = [bay EXCEPT ![b].isActive = on]
  /\ UNCHANGED <<visit, ro, reserved, alloc, card, inspection, gatePass, req, failures>>

DeleteBayRead(r, b) ==
  /\ bay[b].exists
  /\ bay[b].current = NoAllocation
  /\ Begin(r, "deleteBay", [Idle EXCEPT !.at = "deleteBay", !.bay = b])
  /\ UNCHANGED <<visit, ro, reserved, bay, alloc, card, inspection, gatePass, failures>>

\* The delete fails on the foreign key of workshop_allocations.bay_id, also when
\* the allocation is a released one.
DeleteBay(r) ==
  /\ req[r].at = "deleteBay"
  /\ IF \E a \in Allocations : alloc[a].bay = req[r].bay
       THEN UNCHANGED bay
       ELSE bay' = [bay EXCEPT ![req[r].bay].exists = FALSE]
  /\ Finish(r)
  /\ UNCHANGED <<visit, ro, reserved, alloc, card, inspection, gatePass, failures>>

-----------------------------------------------------------------------------
(* setRoStatus and releaseAllocationForCheckIn, inside any handler.        *)

\* Read the current status; nothing to do when it is the target already.
RoRead(r) ==
  /\ req[r].at = "roRead"
  /\ IF ro[req[r].checkIn] = req[r].target THEN Return(r) ELSE Goto(r, "roWrite")
  /\ UNCHANGED <<visit, ro, reserved, bay, alloc, card, inspection, gatePass, failures>>

\* The transaction (its history row: module RoStatusTrail).
RoWrite(r) ==
  /\ req[r].at = "roWrite"
  /\ ro' = [ro EXCEPT ![req[r].checkIn] = req[r].target]
  /\ IF req[r].target \in BayReleasing THEN Goto(r, "releaseRead") ELSE Return(r)
  /\ UNCHANGED <<visit, reserved, bay, alloc, card, inspection, gatePass, failures>>

\* Read the open allocation of the check-in; nothing to do without one.
ReleaseRead(r) ==
  /\ req[r].at = "releaseRead"
  /\ IF OpenOf(req[r].checkIn) = {}
       THEN Return(r)
       ELSE \E a \in OpenOf(req[r].checkIn) :
              req' = [req EXCEPT ![r] = [@ EXCEPT !.at = "releaseCommit", !.alloc = a]]
  /\ UNCHANGED <<visit, ro, reserved, bay, alloc, card, inspection, gatePass, failures>>

ReleaseCommit(r) ==
  /\ req[r].at = "releaseCommit"
  /\ alloc' = Closed(alloc, req[r].alloc)
  /\ bay' = Cleared(bay, req[r].alloc)
  /\ Return(r)
  /\ UNCHANGED <<visit, ro, reserved, card, inspection, gatePass, failures>>

\* setRoStatus swallows an error of the release and goes on.
ReleaseSwallowed(r) ==
  /\ req[r].at \in {"releaseRead", "releaseCommit"}
  /\ req[r].op # "releaseAllocation"
  /\ failures < MaxFailures
  /\ failures' = failures + 1
  /\ Return(r)
  /\ UNCHANGED <<visit, ro, reserved, bay, alloc, card, inspection, gatePass>>

-----------------------------------------------------------------------------
(* Foreman: bays.                                                          *)

\* allocateToBay reads the check-in.  It remembers whether this is a rework and
\* asks nothing else of the RO status.
AllocateReadCheckIn(r, c, b) ==
  /\ visit[c] # "absent"
  /\ IdLeft
  /\ Begin(r, "allocateToBay",
           [Idle EXCEPT !.at = "allocOpen", !.checkIn = c, !.bay = b,
                        !.rework = (ro[c] = "QC_FAILED")])
  /\ UNCHANGED <<visit, ro, reserved, bay, alloc, card, inspection, gatePass, failures>>

AllocateReadOpen(r) ==
  /\ req[r].at = "allocOpen"
  /\ IF OpenOf(req[r].checkIn) = {} THEN Goto(r, "allocBay") ELSE Finish(r)
  /\ UNCHANGED <<visit, ro, reserved, bay, alloc, card, inspection, gatePass, failures>>

\* Mutant: the bay need not be free.
BayIsActive(b) == bay[b].exists /\ bay[b].isActive

\* The bay must exist, be active and be free.
BayIsFree(b) == bay[b].exists /\ bay[b].isActive /\ bay[b].current = NoAllocation

AllocateReadBay(r) ==
  /\ req[r].at = "allocBay"
  /\ IF BayIsFree(req[r].bay) THEN Goto(r, "allocCommit") ELSE Finish(r)
  /\ UNCHANGED <<visit, ro, reserved, bay, alloc, card, inspection, gatePass, failures>>

\* The insert fails when the check-in has an open allocation by now (unique
\* index) or the bay is gone (foreign key).
AllocateConflict(r) ==
  /\ req[r].at = "allocCommit"
  /\ OpenOf(req[r].checkIn) # {} \/ ~bay[req[r].bay].exists
  /\ Finish(r)
  /\ UNCHANGED <<visit, ro, reserved, bay, alloc, card, inspection, gatePass, failures>>

\* Insert the allocation, point the bay to it and, for a rework, reopen the
\* assigned items and put the cards they are on back in progress.
AllocateCommit(r) ==
  LET c == req[r].checkIn
      b == req[r].bay
  IN /\ req[r].at = "allocCommit"
     /\ OpenOf(c) = {}
     /\ bay[b].exists
     /\ \E a \in Allocations :
          /\ alloc[a].state = "unused"
          /\ alloc' = Opened(alloc, a, c, b)
          /\ bay' = Pointed(bay, b, a)
     /\ \E touched \in SUBSET {j \in CardsOf(c) : card[j].status # "none"} :
          /\ ~req[r].rework => touched = {}
          /\ card' = [j \in JobCards |->
                        IF j \in touched THEN [status |-> "IN_PROGRESS", unfinished |-> TRUE]
                                         ELSE card[j]]
     /\ SetRoNext(r, "IN_WORKSHOP")
     /\ UNCHANGED <<visit, ro, reserved, inspection, gatePass, failures>>

\* Mutant: a reservation once made is kept.
SyncBayOnce(r) ==
  /\ req[r].at = "syncBay"
  /\ reserved' = [c \in CheckIns |->
                    IF c = req[r].checkIn /\ reserved[c] = NoBay THEN req[r].bay ELSE reserved[c]]
  /\ Finish(r)
  /\ UNCHANGED <<visit, ro, bay, alloc, card, inspection, gatePass, failures>>

\* syncAppointmentBay: the reservation follows, unless the visit is over and its
\* appointment COMPLETED.
SyncBay(r) ==
  /\ req[r].at = "syncBay"
  /\ reserved' = [c \in CheckIns |->
                    IF c = req[r].checkIn /\ visit[c] = "active" THEN req[r].bay ELSE reserved[c]]
  /\ Finish(r)
  /\ UNCHANGED <<visit, ro, bay, alloc, card, inspection, gatePass, failures>>

ReallocateReadOpen(r, c, b) ==
  /\ visit[c] # "absent"
  /\ IdLeft
  /\ \E a \in OpenOf(c) :
       Begin(r, "reallocate",
             [Idle EXCEPT !.at = "reallocBay", !.checkIn = c, !.bay = b, !.alloc = a])
  /\ UNCHANGED <<visit, ro, reserved, bay, alloc, card, inspection, gatePass, failures>>

\* The target bay may be free or the one the check-in is in.
ReallocateReadBay(r) ==
  LET b == req[r].bay
  IN /\ req[r].at = "reallocBay"
     /\ IF bay[b].exists /\ bay[b].isActive /\ bay[b].current \in {NoAllocation, req[r].alloc}
          THEN Goto(r, "reallocCommit")
          ELSE Finish(r)
     /\ UNCHANGED <<visit, ro, reserved, bay, alloc, card, inspection, gatePass, failures>>

\* The transaction rolls back when another allocation of the check-in is open, or
\* the bay is gone.
ReallocateConflict(r) ==
  /\ req[r].at = "reallocCommit"
  /\ OpenOf(req[r].checkIn) \ {req[r].alloc} # {} \/ ~bay[req[r].bay].exists
  /\ Finish(r)
  /\ UNCHANGED <<visit, ro, reserved, bay, alloc, card, inspection, gatePass, failures>>

\* Close the allocation read before and clear its bay, then insert the new one
\* and point the new bay to it.
ReallocateCommit(r) ==
  LET c == req[r].checkIn
      b == req[r].bay
      old == req[r].alloc
  IN /\ req[r].at = "reallocCommit"
     /\ OpenOf(c) \ {old} = {}
     /\ bay[b].exists
     /\ \E a \in Allocations :
          /\ alloc[a].state = "unused"
          /\ alloc' = Opened(Closed(alloc, old), a, c, b)
          /\ bay' = Pointed(Cleared(bay, old), b, a)
     /\ Goto(r, "syncBay")
     /\ UNCHANGED <<visit, ro, reserved, card, inspection, gatePass, failures>>

\* releaseAllocation: the manual release, for any check-in.
ReleaseAllocation(r, c) ==
  /\ visit[c] # "absent"
  /\ Begin(r, "releaseAllocation", [Idle EXCEPT !.at = "releaseRead", !.checkIn = c])
  /\ UNCHANGED <<visit, ro, reserved, bay, alloc, card, inspection, gatePass, failures>>

-----------------------------------------------------------------------------
(* Job cards: approval, the technician's work, the foreman's sign-off.     *)

\* A card of the visit is created, shared and approved.
ApproveJobCard(j) ==
  /\ "approveJobCard" \in Endpoints
  /\ card[j].status = "none"
  /\ visit[CheckInOf[j]] = "active"
  /\ card' = [card EXCEPT ![j].status = "APPROVED"]
  /\ UNCHANGED <<visit, ro, reserved, bay, alloc, inspection, gatePass, req, failures>>

\* startTechnicianWork and startItemWork: the card is APPROVED ...
StartReadCard(r, j) ==
  /\ card[j].status = "APPROVED"
  /\ Begin(r, "startTechnicianWork",
           [Idle EXCEPT !.at = "startBay", !.jobCard = j, !.checkIn = CheckInOf[j]])
  /\ UNCHANGED <<visit, ro, reserved, bay, alloc, card, inspection, gatePass, failures>>

\* ... and the visit has a bay (jobCardHasActiveBay).
StartReadBay(r) ==
  /\ req[r].at = "startBay"
  /\ IF OpenOf(req[r].checkIn) = {} THEN Finish(r) ELSE Goto(r, "startWrite")
  /\ UNCHANGED <<visit, ro, reserved, bay, alloc, card, inspection, gatePass, failures>>

StartWork(r) ==
  /\ req[r].at = "startWrite"
  /\ card' = [card EXCEPT ![req[r].jobCard].status = "IN_PROGRESS"]
  /\ Finish(r)
  /\ UNCHANGED <<visit, ro, reserved, bay, alloc, inspection, gatePass, failures>>

\* completeItemWork on the last unfinished item; the status of the card is not
\* asked for.
CompleteReadItem(r, j) ==
  /\ card[j].status # "none"
  /\ card[j].unfinished
  /\ Begin(r, "completeItemWork",
           [Idle EXCEPT !.at = "finishWrite", !.jobCard = j, !.checkIn = CheckInOf[j]])
  /\ UNCHANGED <<visit, ro, reserved, bay, alloc, card, inspection, gatePass, failures>>

CompleteCommit(r) ==
  /\ req[r].at = "finishWrite"
  /\ card' = [card EXCEPT ![req[r].jobCard] = [status |-> "FOREMAN_REVIEW", unfinished |-> FALSE]]
  /\ Goto(r, "finishCheck")
  /\ UNCHANGED <<visit, ro, reserved, bay, alloc, inspection, gatePass, failures>>

\* After the commit: a card signed off meanwhile sends the visit to QC_OUT.
CompleteCheck(r) ==
  /\ req[r].at = "finishCheck"
  /\ IF card[req[r].jobCard].status = "COMPLETED" THEN SetRoNext(r, "QC_OUT") ELSE Finish(r)
  /\ UNCHANGED <<visit, ro, reserved, bay, alloc, card, inspection, gatePass, failures>>

\* signOffJobCard and rejectJobCard both ask for FOREMAN_REVIEW first.
ReviewReadCard(r, j, op, step) ==
  /\ card[j].status = "FOREMAN_REVIEW"
  /\ Begin(r, op, [Idle EXCEPT !.at = step, !.jobCard = j, !.checkIn = CheckInOf[j]])
  /\ UNCHANGED <<visit, ro, reserved, bay, alloc, card, inspection, gatePass, failures>>

SignOff(r) ==
  /\ req[r].at = "signOff"
  /\ card' = [card EXCEPT ![req[r].jobCard].status = "COMPLETED"]
  /\ SetRoNext(r, "QC_OUT")
  /\ UNCHANGED <<visit, ro, reserved, bay, alloc, inspection, gatePass, failures>>

\* Mutant: the items stay completed.
RejectCardOnly(r) ==
  /\ req[r].at = "reject"
  /\ card' = [card EXCEPT ![req[r].jobCard].status = "IN_PROGRESS"]
  /\ Finish(r)
  /\ UNCHANGED <<visit, ro, reserved, bay, alloc, inspection, gatePass, failures>>

\* The card goes back to the technician with every item reopened.
Reject(r) ==
  /\ req[r].at = "reject"
  /\ card' = [card EXCEPT ![req[r].jobCard] = [status |-> "IN_PROGRESS", unfinished |-> TRUE]]
  /\ Finish(r)
  /\ UNCHANGED <<visit, ro, reserved, bay, alloc, inspection, gatePass, failures>>

-----------------------------------------------------------------------------
(* QC out, washbay, gate pass.                                             *)

\* Mutant: the status is not asked for.
InspectReadNothing(r, c) ==
  /\ visit[c] = "active"
  /\ Begin(r, "submitInspection", [Idle EXCEPT !.at = "inspect", !.checkIn = c])
  /\ UNCHANGED <<visit, ro, reserved, bay, alloc, card, inspection, gatePass, failures>>

\* submitInspection reads QC_OUT ...
InspectReadStatus(r, c) ==
  /\ ro[c] = "QC_OUT"
  /\ Begin(r, "submitInspection", [Idle EXCEPT !.at = "inspect", !.checkIn = c])
  /\ UNCHANGED <<visit, ro, reserved, bay, alloc, card, inspection, gatePass, failures>>

\* ... inserts the inspection with its items and verifications, and moves the
\* visit: QC_PASSED and then WASHBAY, or QC_FAILED.
Inspect(r) ==
  /\ req[r].at = "inspect"
  /\ \/ /\ inspection' = [inspection EXCEPT ![req[r].checkIn] = "PASS"]
        /\ SetRoNext(r, "QC_PASSED")
     \/ /\ inspection' = [inspection EXCEPT ![req[r].checkIn] = "FAIL"]
        /\ SetRoNext(r, "QC_FAILED")
  /\ UNCHANGED <<visit, ro, reserved, bay, alloc, card, gatePass, failures>>

MarkReadyForRelease(r, c) ==
  /\ ro[c] = "WASHBAY"
  /\ Begin(r, "markReadyForRelease",
           [Idle EXCEPT !.at = "roRead", !.checkIn = c, !.target = "READY_FOR_RELEASE"])
  /\ UNCHANGED <<visit, ro, reserved, bay, alloc, card, inspection, gatePass, failures>>

\* The payment that settles the invoice of card j mints its gate pass, whatever
\* the RO status (module Billing).
MintGatePass(j) ==
  /\ "recordPayment" \in Endpoints
  /\ card[j].status # "none"
  /\ gatePass[j] = "none"
  /\ gatePass' = [gatePass EXCEPT ![j] = "ACTIVE"]
  /\ UNCHANGED <<visit, ro, reserved, bay, alloc, card, inspection, req, failures>>

\* redeem looks at the pass and at nothing else.
RedeemRead(r, j) ==
  /\ gatePass[j] = "ACTIVE"
  /\ Begin(r, "redeem",
           [Idle EXCEPT !.at = "redeemWrite", !.jobCard = j, !.checkIn = CheckInOf[j]])
  /\ UNCHANGED <<visit, ro, reserved, bay, alloc, card, inspection, gatePass, failures>>

Redeem(r) ==
  /\ req[r].at = "redeemWrite"
  /\ gatePass' = [gatePass EXCEPT ![req[r].jobCard] = "REDEEMED"]
  /\ SetRoNext(r, "RELEASED")
  /\ UNCHANGED <<visit, ro, reserved, bay, alloc, card, inspection, failures>>

\* The check-in is COMPLETED and no longer active; its vehicle and appointment
\* follow.
CloseVisit(r) ==
  /\ req[r].at = "closeVisit"
  /\ visit' = [visit EXCEPT ![req[r].checkIn] = "completed"]
  /\ Finish(r)
  /\ UNCHANGED <<ro, reserved, bay, alloc, card, inspection, gatePass, failures>>

-----------------------------------------------------------------------------

\* The process stops or a database call throws: what is committed stays.
Fail(r) ==
  /\ req[r].at # "idle"
  /\ failures < MaxFailures
  /\ failures' = failures + 1
  /\ Finish(r)
  /\ UNCHANGED <<visit, ro, reserved, bay, alloc, card, inspection, gatePass>>

\* The database call a request in flight makes next.
Proceed(r) ==
  \/ DeleteBay(r)
  \/ RoRead(r) \/ RoWrite(r) \/ ReleaseRead(r) \/ ReleaseCommit(r)
  \/ AllocateReadOpen(r) \/ AllocateReadBay(r) \/ AllocateConflict(r) \/ AllocateCommit(r)
  \/ SyncBay(r) \/ ReallocateReadBay(r) \/ ReallocateConflict(r) \/ ReallocateCommit(r)
  \/ StartReadBay(r) \/ StartWork(r) \/ CompleteCommit(r) \/ CompleteCheck(r)
  \/ SignOff(r) \/ Reject(r) \/ Inspect(r) \/ Redeem(r) \/ CloseVisit(r)

\* A client calls an endpoint.
Call(r) ==
  \/ \E c \in CheckIns :
       \/ ConfirmEntry(r, c) \/ ReleaseAllocation(r, c)
       \/ InspectReadStatus(r, c) \/ MarkReadyForRelease(r, c)
       \/ \E b \in Bays : AllocateReadCheckIn(r, c, b) \/ ReallocateReadOpen(r, c, b)
  \/ \E b \in Bays : DeleteBayRead(r, b)
  \/ \E j \in JobCards :
       \/ StartReadCard(r, j) \/ CompleteReadItem(r, j) \/ RedeemRead(r, j)
       \/ ReviewReadCard(r, j, "signOffJobCard", "signOff")
       \/ ReviewReadCard(r, j, "rejectJobCard", "reject")

Next ==
  \/ \E r \in Requests : Call(r) \/ Proceed(r) \/ Fail(r) \/ ReleaseSwallowed(r)
  \/ \E b \in Bays : CreateBay(b) \/ UpdateBay(b)
  \/ \E j \in JobCards : ApproveJobCard(j) \/ MintGatePass(j)

Spec == Init /\ [][Next]_vars

\* Node runs a handler whose database call has returned: a request in flight goes
\* on.  Nobody has to call an endpoint.
FairSpec == Spec /\ \A r \in Requests : WF_vars(Proceed(r))

-----------------------------------------------------------------------------
(* Safety.                                                                 *)

(* A bay that shows an allocation shows an open one, made for that bay, however
   requests overlap or stop: a release never leaves a dangling pointer. *)
PointerIsOpen ==
  \A b \in Bays :
    bay[b].current # NoAllocation =>
      /\ bay[b].exists
      /\ alloc[bay[b].current].state = "open"
      /\ alloc[bay[b].current].bay = b

(* The other half of PointerIsOpen: a vehicle that has a bay is shown by it, so the
   bay is not offered to another one.  Holds for requests one at a time. *)
OpenIsPointed ==
  \A a \in Allocations : alloc[a].state = "open" => bay[alloc[a].bay].current = a

\* No request works on the visit.
Quiet(c) == \A r \in Requests : req[r].checkIn # c

(* The queues of the dashboards: the active visits the foreman, the QC inspector, the
   washbay and the cashier see. *)
NeedsBay(c) == OpenOf(c) = {} /\ \E j \in CardsOf(c) : card[j].status \in {"APPROVED", "IN_PROGRESS"}

ForemanQueue(c) ==
  /\ visit[c] = "active"
  /\ ro[c] \in {"ARRIVED", "QC_CHECK_IN", "IN_WORKSHOP", "DIAGNOSING", "QC_FAILED"} \/ NeedsBay(c)

QcOutQueue(c) == visit[c] = "active" /\ ro[c] = "QC_OUT"

WashbayQueue(c) == visit[c] = "active" /\ ro[c] = "WASHBAY"

BillingQueue(c) == ro[c] = "READY_FOR_RELEASE"

InSomeQueue(c) == ForemanQueue(c) \/ QcOutQueue(c) \/ WashbayQueue(c) \/ BillingQueue(c)

(* No vehicle is lost: once nobody works on a visit that is still in the workshop,
   some dashboard lists it, in whatever order overlapping calls set its status. *)
ActiveVisitIsQueued ==
  \A c \in CheckIns : visit[c] = "active" /\ Quiet(c) => InSomeQueue(c)

(* A visit that has a bay is in the workshop, and one past the workshop has none:
   the bay release of setRoStatus.  Holds for requests one at a time. *)
BayOnlyInWorkshop ==
  \A c \in CheckIns : Quiet(c) /\ OpenOf(c) # {} => ro[c] = "IN_WORKSHOP"

(* Only a visit whose latest inspection passed is washed or ready, and only one
   whose latest inspection failed is up for rework. *)
StatusFollowsInspection ==
  \A c \in CheckIns :
    /\ ro[c] \in {"QC_PASSED", "WASHBAY", "READY_FOR_RELEASE"} => inspection[c] = "PASS"
    /\ ro[c] = "QC_FAILED" => inspection[c] = "FAIL"

(* A card is in the technician's hands exactly while work on it is unfinished: the
   foreman never reviews or signs off unfinished work, and no finished card is left
   IN_PROGRESS, where no step of the technician can move it any more. *)
CardStatusTellsWork ==
  \A j \in JobCards :
    card[j].status # "none" =>
      (card[j].unfinished <=> card[j].status \in {"APPROVED", "IN_PROGRESS"})

(* The reservation strip and the floor agree: the appointment of a visit that has a
   bay holds that bay (syncAppointmentBay: "so ... the two models don't diverge"). *)
ReservationFollowsFloor ==
  \A a \in Allocations :
    LET c == alloc[a].checkIn
    IN alloc[a].state = "open" /\ visit[c] = "active" /\ Quiet(c) => reserved[c] = alloc[a].bay

(* A redeemed pass has let the vehicle out, or its request is still at it. *)
RedeemedIsClosing ==
  \A j \in JobCards :
    gatePass[j] = "REDEEMED" =>
      \/ visit[CheckInOf[j]] = "completed"
      \/ \E r \in Requests : req[r].op = "redeem" /\ req[r].checkIn = CheckInOf[j]

\* The vehicle a bay shows: that of the allocation it points to.
Shown(b) == IF bay[b].current = NoAllocation THEN NoCheckIn ELSE alloc[bay[b].current].checkIn

Board == INSTANCE BayBoard WITH Vehicles <- CheckIns, Nobody <- NoCheckIn,
                                stands <- [b \in Bays |-> Shown(b)]

(* Allocation rows and bay pointers implement the bay board: a bay that shows a
   vehicle is cleared before it shows another, and a vehicle leaves its bay when it
   enters another.  Holds for requests one at a time. *)
ImplementsBoard == Board!Spec

(* Liveness: QC_PASSED and RELEASED are statuses no dashboard lists; the request that
   set one moves the visit on. *)
TransientStatusMovesOn ==
  \A c \in CheckIns :
    /\ ro[c] = "QC_PASSED" ~> ro[c] # "QC_PASSED"
    /\ ro[c] = "RELEASED" ~> ro[c] # "RELEASED"
=============================================================================
