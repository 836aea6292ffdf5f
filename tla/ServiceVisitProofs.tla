------------------------- MODULE ServiceVisitProofs -------------------------
(***************************************************************************)
(* Proofs about ServiceVisit, for any number of visits, bays and           *)
(* allocations and any set of endpoints.                                   *)
(*                                                                         *)
(* Type correctness and the pointers: any number of requests in flight,    *)
(* whatever they have read and wherever they stop.                         *)
(* The chain of a status change (VisitsAreListed, RedeemedVisitsClose):    *)
(* any number of requests in flight, none failing part way.                *)
(* Cards, inspections, taken bays and the bay board: one request at a      *)
(* time, failing wherever it may.                                          *)
(* The workshop (BaysAreOfTheWorkshop, ReservationsFollow): one request at *)
(* a time, none failing part way.                                          *)
(***************************************************************************)
EXTENDS ServiceVisit, RoStatusTrail, TLAPS

\* The steps a request takes inside setRoStatus end in a well-typed request.
LEMMA SetRoNextType ==
  ASSUME req \in [Requests -> Request], NEW r \in Requests, NEW s \in RoStatus,
         SetRoNext(r, s)
  PROVE  req' \in [Requests -> Request]
  <1> DEFINE q == [req[r] EXCEPT !.at = "roRead", !.target = s, !.alloc = NoAllocation]
  <1>1. q \in Request
    <2>1. req[r] \in Request
      OBVIOUS
    <2>2. "roRead" \in Steps
      BY DEF Steps
    <2> QED
      BY <2>1, <2>2 DEF Request
  <1>2. req' = [req EXCEPT ![r] = q]
    BY DEF SetRoNext
  <1> QED
    BY <1>1, <1>2

\* A request that goes on to another step stays well typed.
LEMMA GotoType ==
  ASSUME req \in [Requests -> Request], NEW r \in Requests, NEW step \in Steps,
         Goto(r, step)
  PROVE  req' \in [Requests -> Request]
  BY DEF Goto, Request

\* So does one that returns.
LEMMA FinishType ==
  ASSUME req \in [Requests -> Request], NEW r \in Requests, Finish(r)
  PROVE  req' \in [Requests -> Request]
  BY DEF Finish, Request, Idle, Steps

\* And one whose setRoStatus has returned, whichever step its handler takes next.
LEMMA ReturnType ==
  ASSUME req \in [Requests -> Request], NEW r \in Requests, Return(r)
  PROVE  req' \in [Requests -> Request]
  <1>1. \/ SetRoNext(r, "WASHBAY") \/ SetRoNext(r, "CLOSED")
        \/ Goto(r, "closeVisit") \/ Goto(r, "syncBay") \/ Finish(r)
    BY DEF Return
  <1>2. {"WASHBAY", "CLOSED"} \subseteq RoStatus
    BY DEF RoStatus, ReachedStatuses
  <1>3. {"closeVisit", "syncBay"} \subseteq Steps
    BY DEF Steps
  <1> QED
    BY <1>1, <1>2, <1>3, SetRoNextType, GotoType, FinishType

\* An endpoint that is called starts a well-typed request.
LEMMA BeginType ==
  ASSUME req \in [Requests -> Request], NEW r \in Requests, NEW op \in AllEndpoints,
         NEW q \in Request, Begin(r, op, q)
  PROVE  req' \in [Requests -> Request]
  BY DEF Begin, Request

(***************************************************************************)
(* Type correctness.                                                       *)
(***************************************************************************)

\* A client's call: the request that begins holds rows of the right kinds.
LEMMA CallType ==
  ASSUME TypeOK, NEW r \in Requests, Call(r)
  PROVE  TypeOK'
  <1> USE DEF TypeOK, AllEndpoints
  <1> DEFINE Beginning == \E op \in AllEndpoints, q \in Request : Begin(r, op, q)
  <1>0. Beginning => req' \in [Requests -> Request]
    BY BeginType
  <1>1. ASSUME NEW c \in CheckIns, ConfirmEntry(r, c) PROVE TypeOK'
    <2>1. [Idle EXCEPT !.at = "roRead", !.checkIn = c, !.target = "ARRIVED"] \in Request
      BY DEF Idle, Request, Steps, RoStatus, ReachedStatuses
    <2> QED BY <1>0, <1>1, <2>1 DEF ConfirmEntry
  <1>2. ASSUME NEW c \in CheckIns, ReleaseAllocation(r, c) PROVE TypeOK'
    <2>1. [Idle EXCEPT !.at = "releaseRead", !.checkIn = c] \in Request
      BY DEF Idle, Request, Steps
    <2> QED BY <1>0, <1>2, <2>1 DEF ReleaseAllocation
  <1>3. ASSUME NEW c \in CheckIns, InspectReadStatus(r, c) PROVE TypeOK'
    <2>1. [Idle EXCEPT !.at = "inspect", !.checkIn = c] \in Request
      BY DEF Idle, Request, Steps
    <2> QED BY <1>0, <1>3, <2>1 DEF InspectReadStatus
  <1>4. ASSUME NEW c \in CheckIns, MarkReadyForRelease(r, c) PROVE TypeOK'
    <2>1. [Idle EXCEPT !.at = "roRead", !.checkIn = c, !.target = "READY_FOR_RELEASE"] \in Request
      BY DEF Idle, Request, Steps, RoStatus, ReachedStatuses
    <2> QED BY <1>0, <1>4, <2>1 DEF MarkReadyForRelease
  <1>5. ASSUME NEW c \in CheckIns, NEW b \in Bays, AllocateReadCheckIn(r, c, b) PROVE TypeOK'
    <2>1. [Idle EXCEPT !.at = "allocOpen", !.checkIn = c, !.bay = b,
                       !.rework = (ro[c] = "QC_FAILED")] \in Request
      BY DEF Idle, Request, Steps
    <2> QED BY <1>0, <1>5, <2>1 DEF AllocateReadCheckIn
  <1>6. ASSUME NEW c \in CheckIns, NEW b \in Bays, ReallocateReadOpen(r, c, b) PROVE TypeOK'
    <2>1. PICK a \in Allocations :
            Begin(r, "reallocate",
                  [Idle EXCEPT !.at = "reallocBay", !.checkIn = c, !.bay = b, !.alloc = a])
      BY <1>6 DEF ReallocateReadOpen, OpenOf
    <2>2. [Idle EXCEPT !.at = "reallocBay", !.checkIn = c, !.bay = b, !.alloc = a] \in Request
      BY DEF Idle, Request, Steps
    <2> QED BY <1>0, <1>6, <2>1, <2>2 DEF ReallocateReadOpen
  <1>7. ASSUME NEW b \in Bays, DeleteBayRead(r, b) PROVE TypeOK'
    <2>1. [Idle EXCEPT !.at = "deleteBay", !.bay = b] \in Request
      BY DEF Idle, Request, Steps
    <2> QED BY <1>0, <1>7, <2>1 DEF DeleteBayRead
  <1>8. ASSUME NEW j \in JobCards, NEW step \in Steps
        PROVE  [Idle EXCEPT !.at = step, !.jobCard = j, !.checkIn = CheckInOf[j]] \in Request
    BY ZenonT(40), ConstantsAssumption DEF Idle, Request
  <1>9. ASSUME NEW j \in JobCards, StartReadCard(r, j) PROVE TypeOK'
    <2>1. "startBay" \in Steps BY DEF Steps
    <2> QED BY <1>0, <1>8, <1>9, <2>1 DEF StartReadCard
  <1>10. ASSUME NEW j \in JobCards, CompleteReadItem(r, j) PROVE TypeOK'
    <2>1. "finishWrite" \in Steps BY DEF Steps
    <2> QED BY <1>0, <1>8, <1>10, <2>1 DEF CompleteReadItem
  <1>11. ASSUME NEW j \in JobCards, RedeemRead(r, j) PROVE TypeOK'
    <2>1. "redeemWrite" \in Steps BY DEF Steps
    <2> QED BY <1>0, <1>8, <1>11, <2>1 DEF RedeemRead
  <1>12. ASSUME NEW j \in JobCards, ReviewReadCard(r, j, "signOffJobCard", "signOff") PROVE TypeOK'
    <2>1. "signOff" \in Steps BY DEF Steps
    <2> QED BY <1>0, <1>8, <1>12, <2>1 DEF ReviewReadCard
  <1>13. ASSUME NEW j \in JobCards, ReviewReadCard(r, j, "rejectJobCard", "reject") PROVE TypeOK'
    <2>1. "reject" \in Steps BY DEF Steps
    <2> QED BY <1>0, <1>8, <1>13, <2>1 DEF ReviewReadCard
  <1> HIDE DEF TypeOK
  <1> QED
    BY <1>1, <1>2, <1>3, <1>4, <1>5, <1>6, <1>7, <1>9, <1>10, <1>11, <1>12, <1>13 DEF Call

\* The next database call of a request in flight.
LEMMA ProceedType ==
  ASSUME TypeOK, NEW r \in Requests, Proceed(r)
  PROVE  TypeOK'
  <1> USE DEF TypeOK
  <1>0. /\ req[r] \in Request
        /\ \A step \in Steps : Goto(r, step) => req' \in [Requests -> Request]
        /\ Finish(r) => req' \in [Requests -> Request]
        /\ Return(r) => req' \in [Requests -> Request]
        /\ \A s \in RoStatus : SetRoNext(r, s) => req' \in [Requests -> Request]
    BY GotoType, FinishType, ReturnType, SetRoNextType
  <1>s. /\ {"IN_WORKSHOP", "QC_OUT", "QC_PASSED", "QC_FAILED", "RELEASED"} \subseteq RoStatus
        /\ {"allocBay", "allocCommit", "reallocCommit", "syncBay", "roWrite", "releaseRead",
            "startWrite", "finishCheck"} \subseteq Steps
    BY DEF RoStatus, ReachedStatuses, Steps
  <1>1. CASE DeleteBay(r)
    BY ZenonT(40), <1>0, <1>1 DEF DeleteBay, BayRow
  <1>2. CASE RoRead(r)
    BY <1>0, <1>s, <1>2 DEF RoRead
  <1>3. CASE RoWrite(r)
    <2>1. req[r].target \in RoStatus \cup {NoStatus}
      BY <1>0 DEF Request
    <2> QED BY <1>0, <1>s, <1>3, <2>1 DEF RoWrite
  <1>4. CASE ReleaseRead(r)
    <2>1. req' \in [Requests -> Request]
      <3>1. ASSUME NEW a \in Allocations
            PROVE  [req[r] EXCEPT !.at = "releaseCommit", !.alloc = a] \in Request
        BY <1>0 DEF Request, Steps
      <3> QED BY <1>0, <1>4, <3>1 DEF ReleaseRead, OpenOf
    <2> QED BY <1>4, <2>1 DEF ReleaseRead
  <1>5. CASE ReleaseCommit(r)
    <2>1. alloc' \in [Allocations -> AllocationRow]
      BY ZenonT(40), <1>5 DEF ReleaseCommit, Closed, AllocationRow
    <2>2. bay' \in [Bays -> BayRow]
      BY <1>5 DEF ReleaseCommit, Cleared, BayRow
    <2> QED BY <1>0, <1>5, <2>1, <2>2 DEF ReleaseCommit
  <1>6. CASE AllocateReadOpen(r)
    BY <1>0, <1>s, <1>6 DEF AllocateReadOpen
  <1>7. CASE AllocateReadBay(r)
    BY <1>0, <1>s, <1>7 DEF AllocateReadBay
  <1>8. CASE AllocateConflict(r)
    BY <1>0, <1>8 DEF AllocateConflict
  <1>9. CASE AllocateCommit(r)
    <2>1. req' \in [Requests -> Request]
      BY <1>0, <1>s, <1>9 DEF AllocateCommit
    <2>2. alloc' \in [Allocations -> AllocationRow]
      BY <1>0, <1>9 DEF AllocateCommit, Opened, AllocationRow, Request
    <2>3. bay' \in [Bays -> BayRow]
      <3>1. PICK a \in Allocations : bay' = Pointed(bay, req[r].bay, a)
        BY <1>9 DEF AllocateCommit
      <3> QED BY <3>1 DEF Pointed, BayRow
    <2>4. card' \in [JobCards -> CardRow]
      BY <1>9 DEF AllocateCommit, CardRow, CardStatus
    <2> QED BY <1>9, <2>1, <2>2, <2>3, <2>4 DEF AllocateCommit
  <1>10. CASE SyncBay(r)
    BY <1>0, <1>10 DEF SyncBay, Request
  <1>11. CASE ReallocateReadBay(r)
    BY <1>0, <1>s, <1>11 DEF ReallocateReadBay
  <1>12. CASE ReallocateConflict(r)
    BY <1>0, <1>12 DEF ReallocateConflict
  <1>13. CASE ReallocateCommit(r)
    <2>0. PICK a \in Allocations :
            /\ alloc' = Opened(Closed(alloc, req[r].alloc), a, req[r].checkIn, req[r].bay)
            /\ bay' = Pointed(Cleared(bay, req[r].alloc), req[r].bay, a)
      BY <1>13 DEF ReallocateCommit
    <2>1. alloc' \in [Allocations -> AllocationRow]
      <3>1. Closed(alloc, req[r].alloc) \in [Allocations -> AllocationRow]
        BY DEF Closed, AllocationRow
      <3>2. [state |-> "open", checkIn |-> req[r].checkIn, bay |-> req[r].bay] \in AllocationRow
        BY <1>0 DEF AllocationRow, Request
      <3> QED BY <2>0, <3>1, <3>2 DEF Opened
    <2>2. bay' \in [Bays -> BayRow]
      <3>1. Cleared(bay, req[r].alloc) \in [Bays -> BayRow]
        BY DEF Cleared, BayRow
      <3> QED BY ZenonT(40), <2>0, <3>1 DEF Pointed, BayRow
    <2> QED BY <1>0, <1>s, <1>13, <2>1, <2>2 DEF ReallocateCommit
  <1>14. CASE StartReadBay(r)
    BY <1>0, <1>s, <1>14 DEF StartReadBay
  <1>15. CASE StartWork(r)
    BY <1>0, <1>15 DEF StartWork, CardRow, CardStatus
  <1>16. CASE CompleteCommit(r)
    BY <1>0, <1>s, <1>16 DEF CompleteCommit, CardRow, CardStatus
  <1>17. CASE CompleteCheck(r)
    BY <1>0, <1>s, <1>17 DEF CompleteCheck
  <1>18. CASE SignOff(r)
    BY <1>0, <1>s, <1>18 DEF SignOff, CardRow, CardStatus
  <1>19. CASE Reject(r)
    BY <1>0, <1>19 DEF Reject, CardRow, CardStatus
  <1>20. CASE Inspect(r)
    BY <1>0, <1>s, <1>20 DEF Inspect
  <1>21. CASE Redeem(r)
    BY <1>0, <1>s, <1>21 DEF Redeem
  <1>22. CASE CloseVisit(r)
    BY <1>0, <1>22 DEF CloseVisit
  <1> HIDE DEF TypeOK
  <1> QED
    BY <1>1, <1>2, <1>3, <1>4, <1>5, <1>6, <1>7, <1>8, <1>9, <1>10, <1>11, <1>12, <1>13,
       <1>14, <1>15, <1>16, <1>17, <1>18, <1>19, <1>20, <1>21, <1>22 DEF Proceed

\* The types are kept by every step.
LEMMA StepType ==
  ASSUME TypeOK, [Next]_vars
  PROVE  TypeOK'
  <1>1. ASSUME NEW r \in Requests, Fail(r) PROVE TypeOK'
    BY <1>1, FinishType, ConstantsAssumption DEF Fail, TypeOK
  <1>2. ASSUME NEW r \in Requests, ReleaseSwallowed(r) PROVE TypeOK'
    BY <1>2, ReturnType, ConstantsAssumption DEF ReleaseSwallowed, TypeOK
  <1>3. ASSUME NEW b \in Bays, CreateBay(b) PROVE TypeOK'
    BY <1>3 DEF CreateBay, TypeOK, BayRow
  <1>4. ASSUME NEW b \in Bays, UpdateBay(b) PROVE TypeOK'
    <2>1. PICK on \in BOOLEAN : bay' = [bay EXCEPT ![b].isActive = on]
      BY <1>4 DEF UpdateBay
    <2> QED
      BY <1>4, <2>1 DEF UpdateBay, TypeOK, BayRow
  <1>5. ASSUME NEW j \in JobCards, ApproveJobCard(j) \/ MintGatePass(j) PROVE TypeOK'
    BY <1>5 DEF ApproveJobCard, MintGatePass, TypeOK, CardRow, CardStatus
  <1>6. CASE UNCHANGED vars
    BY <1>6 DEF vars, TypeOK
  <1> QED
    BY <1>1, <1>2, <1>3, <1>4, <1>5, <1>6, CallType, ProceedType DEF Next

\* The initial state is well typed.
LEMMA InitType ==
  ASSUME Init
  PROVE  TypeOK
  <1>1. Idle \in Request
    BY DEF Idle, Request, Steps
  <1> QED
    BY <1>1, ConstantsAssumption
    DEF Init, TypeOK, BayRow, AllocationRow, CardRow, CardStatus

(* Every reachable state is well typed. *)
THEOREM TypeCorrect == Spec => []TypeOK
  BY InitType, StepType, PTL DEF Spec

(***************************************************************************)
(* Bay pointers.  PointerIsOpen is inductive with TypeOK alone: it asks    *)
(* nothing of what requests have read.  A stale release closes a row and   *)
(* clears the bay that row was made for, so a pointer to that row goes     *)
(* with it; a stale allocation points a bay to a row it has just made; a   *)
(* stale delete finds the row that a pointer would need.                   *)
(***************************************************************************)

\* Closing an allocation and clearing its bay leaves the other pointers sound.
LEMMA ReleaseKeepsPointers ==
  ASSUME TypeOK, PointerIsOpen, NEW r \in Requests, ReleaseCommit(r)
  PROVE  PointerIsOpen'
  <1> DEFINE old == req[r].alloc
  <1>1. /\ alloc' = Closed(alloc, old)
        /\ bay' = Cleared(bay, old)
    BY DEF ReleaseCommit
  <1> SUFFICES ASSUME NEW b \in Bays, bay'[b].current # NoAllocation
               PROVE  /\ bay'[b].exists
                      /\ alloc'[bay'[b].current].state = "open"
                      /\ alloc'[bay'[b].current].bay = b
    BY DEF PointerIsOpen
  <1>2. b # alloc[old].bay
    BY <1>1 DEF Cleared, TypeOK
  <1>3. bay'[b] = bay[b]
    BY <1>1, <1>2 DEF Cleared, TypeOK
  <1>4. bay[b].current # old
    BY <1>2, <1>3 DEF PointerIsOpen
  <1>5. bay[b].current \in Allocations
    BY <1>3 DEF TypeOK, BayRow
  <1>6. alloc'[bay[b].current] = alloc[bay[b].current]
    BY <1>1, <1>4, <1>5 DEF Closed, TypeOK
  <1> QED
    BY <1>3, <1>6 DEF PointerIsOpen

\* Making a row and pointing its bay to it keeps the pointers sound: a row that
\* was unused is pointed to by no bay.
LEMMA AllocateKeepsPointers ==
  ASSUME TypeOK, PointerIsOpen, NEW r \in Requests, AllocateCommit(r)
  PROVE  PointerIsOpen'
  <1>1. PICK a \in Allocations :
          /\ alloc[a].state = "unused"
          /\ alloc' = Opened(alloc, a, req[r].checkIn, req[r].bay)
          /\ bay' = Pointed(bay, req[r].bay, a)
    BY DEF AllocateCommit
  <1>2. bay[req[r].bay].exists
    BY DEF AllocateCommit
  <1> SUFFICES ASSUME NEW b \in Bays, bay'[b].current # NoAllocation
               PROVE  /\ bay'[b].exists
                      /\ alloc'[bay'[b].current].state = "open"
                      /\ alloc'[bay'[b].current].bay = b
    BY DEF PointerIsOpen
  <1>3. alloc'[a] = [state |-> "open", checkIn |-> req[r].checkIn, bay |-> req[r].bay]
    BY <1>1 DEF Opened, TypeOK
  <1>4. CASE b = req[r].bay
    <2>1. bay'[b].current = a /\ bay'[b].exists = bay[b].exists
      BY <1>1, <1>4 DEF Pointed, TypeOK, BayRow
    <2> QED
      BY <1>2, <1>3, <1>4, <2>1
  <1>5. CASE b # req[r].bay
    <2>1. bay'[b] = bay[b]
      BY <1>1, <1>5 DEF Pointed, TypeOK
    <2>2. bay[b].current # a
      BY <1>1, <2>1 DEF PointerIsOpen
    <2>3. alloc'[bay[b].current] = alloc[bay[b].current]
      BY <1>1, <2>1, <2>2 DEF Opened, TypeOK, BayRow
    <2> QED
      BY <2>1, <2>3 DEF PointerIsOpen
  <1> QED
    BY <1>4, <1>5

\* A move closes the row read before and makes a new one, in one transaction.
LEMMA ReallocateKeepsPointers ==
  ASSUME TypeOK, PointerIsOpen, NEW r \in Requests, ReallocateCommit(r)
  PROVE  PointerIsOpen'
  <1> DEFINE old == req[r].alloc
             new == req[r].bay
             mid == Closed(alloc, old)
             cleared == Cleared(bay, old)
  <1>1. PICK a \in Allocations :
          /\ alloc[a].state = "unused"
          /\ alloc' = Opened(mid, a, req[r].checkIn, new)
          /\ bay' = Pointed(cleared, new, a)
    BY DEF ReallocateCommit
  <1>2. bay[new].exists
    BY DEF ReallocateCommit
  <1> SUFFICES ASSUME NEW b \in Bays, bay'[b].current # NoAllocation
               PROVE  /\ bay'[b].exists
                      /\ alloc'[bay'[b].current].state = "open"
                      /\ alloc'[bay'[b].current].bay = b
    BY DEF PointerIsOpen
  <1>3. /\ mid \in [Allocations -> AllocationRow]
        /\ cleared \in [Bays -> BayRow]
        /\ \A x \in Bays : cleared[x].exists = bay[x].exists
    <2>1. mid \in [Allocations -> AllocationRow]
      BY DEF Closed, TypeOK, AllocationRow
    <2>2. cleared \in [Bays -> BayRow]
      BY DEF Cleared, TypeOK, BayRow
    <2>3. \A x \in Bays : cleared[x].exists = bay[x].exists
      BY DEF Cleared, TypeOK, BayRow
    <2> QED
      BY <2>1, <2>2, <2>3
  <1>4. alloc'[a] = [state |-> "open", checkIn |-> req[r].checkIn, bay |-> new]
    BY <1>1, <1>3 DEF Opened
  <1>5. CASE b = new
    <2>1. bay'[b].current = a /\ bay'[b].exists = cleared[b].exists
      BY <1>1, <1>3, <1>5 DEF Pointed, BayRow
    <2> QED
      BY <1>2, <1>3, <1>4, <1>5, <2>1
  <1>6. CASE b # new
    <2>1. bay'[b] = cleared[b]
      BY <1>1, <1>3, <1>6 DEF Pointed
    <2>2. b # alloc[old].bay
      BY <2>1 DEF Cleared, TypeOK, BayRow
    <2>3. bay'[b] = bay[b]
      BY <2>1, <2>2 DEF Cleared, TypeOK
    <2>4. bay[b].current # old /\ bay[b].current # a
      BY <1>1, <2>2, <2>3 DEF PointerIsOpen
    <2>5. bay[b].current \in Allocations
      BY <2>3 DEF TypeOK, BayRow
    <2>6. alloc'[bay[b].current] = alloc[bay[b].current]
      BY <1>1, <1>3, <2>4, <2>5 DEF Opened, Closed, TypeOK
    <2> QED
      BY <2>3, <2>6 DEF PointerIsOpen
  <1> QED
    BY <1>5, <1>6

\* The bay's master data: only a bay no row refers to is deleted.
LEMMA MasterDataKeepsPointers ==
  ASSUME TypeOK, PointerIsOpen,
         \/ \E r \in Requests : DeleteBay(r)
         \/ \E b \in Bays : CreateBay(b) \/ UpdateBay(b)
  PROVE  PointerIsOpen'
  <1>1. ASSUME NEW r \in Requests, DeleteBay(r) PROVE PointerIsOpen'
    <2>1. CASE \E a \in Allocations : alloc[a].bay = req[r].bay
      BY <1>1, <2>1 DEF DeleteBay, PointerIsOpen
    <2>2. CASE ~\E a \in Allocations : alloc[a].bay = req[r].bay
      <3>1. bay' = [bay EXCEPT ![req[r].bay].exists = FALSE] /\ alloc' = alloc
        BY <1>1, <2>2 DEF DeleteBay
      <3>2. \A b \in Bays : bay[b].current # NoAllocation => b # req[r].bay
        BY <2>2 DEF PointerIsOpen, TypeOK, BayRow
      <3> QED
        BY <3>1, <3>2 DEF PointerIsOpen, TypeOK, BayRow
    <2> QED
      BY <2>1, <2>2
  <1>2. ASSUME NEW b \in Bays, CreateBay(b) PROVE PointerIsOpen'
    BY <1>2 DEF CreateBay, PointerIsOpen, TypeOK, BayRow
  <1>3. ASSUME NEW b \in Bays, UpdateBay(b) PROVE PointerIsOpen'
    <2>1. PICK on \in BOOLEAN : bay' = [bay EXCEPT ![b].isActive = on]
      BY <1>3 DEF UpdateBay
    <2> QED
      BY <1>3, <2>1 DEF UpdateBay, PointerIsOpen, TypeOK, BayRow
  <1> QED
    BY <1>1, <1>2, <1>3

(* A bay never shows an allocation that is closed or was made for another bay, for
   any number of bays and of requests that overlap or stop anywhere. *)
THEOREM PointersSound == Spec => []PointerIsOpen
  <1>1. Init => PointerIsOpen
    BY DEF Init, PointerIsOpen
  <1>2. TypeOK /\ PointerIsOpen /\ [Next]_vars => PointerIsOpen'
    <2> SUFFICES ASSUME TypeOK, PointerIsOpen, [Next]_vars PROVE PointerIsOpen'
      OBVIOUS
    <2>0. UNCHANGED <<bay, alloc>> => PointerIsOpen'
      BY DEF PointerIsOpen
    <2>1. ASSUME NEW r \in Requests, Call(r) PROVE UNCHANGED <<bay, alloc>>
      BY <2>1 DEF Call, ConfirmEntry, ReleaseAllocation, InspectReadStatus,
                  MarkReadyForRelease, AllocateReadCheckIn, ReallocateReadOpen,
                  DeleteBayRead, StartReadCard, CompleteReadItem, RedeemRead, ReviewReadCard
    <2>2. ASSUME NEW r \in Requests, Proceed(r)
          PROVE  \/ UNCHANGED <<bay, alloc>>
                 \/ ReleaseCommit(r) \/ AllocateCommit(r) \/ ReallocateCommit(r) \/ DeleteBay(r)
      BY <2>2 DEF Proceed, RoRead, RoWrite, ReleaseRead, AllocateReadOpen, AllocateReadBay,
                  AllocateConflict, SyncBay, ReallocateReadBay, ReallocateConflict,
                  StartReadBay, StartWork, CompleteCommit, CompleteCheck, SignOff, Reject,
                  Inspect, Redeem, CloseVisit
    <2>3. ASSUME NEW r \in Requests, Fail(r) \/ ReleaseSwallowed(r)
          PROVE  UNCHANGED <<bay, alloc>>
      BY <2>3 DEF Fail, ReleaseSwallowed
    <2>4. ASSUME NEW j \in JobCards, ApproveJobCard(j) \/ MintGatePass(j)
          PROVE  UNCHANGED <<bay, alloc>>
      BY <2>4 DEF ApproveJobCard, MintGatePass
    <2>5. CASE UNCHANGED vars
      BY <2>0, <2>5 DEF vars
    <2> QED
      BY <2>0, <2>1, <2>2, <2>3, <2>4, <2>5, ReleaseKeepsPointers, AllocateKeepsPointers,
         ReallocateKeepsPointers, MasterDataKeepsPointers DEF Next
  <1> QED
    BY <1>1, <1>2, TypeCorrect, PTL DEF Spec

(***************************************************************************)
(* What a request becomes when it takes a step.                            *)
(***************************************************************************)

RoSteps == {"roRead", "roWrite"}

\* NoStatus is not a status.
LEMMA StatusesDiffer ==
  /\ NoStatus \notin ReachedStatuses
  /\ \A s \in ReachedStatuses : s # NoStatus
  /\ NoStatus \notin {"ARRIVED", "IN_WORKSHOP", "QC_OUT", "QC_FAILED", "QC_PASSED", "WASHBAY",
                      "READY_FOR_RELEASE", "RELEASED", "CLOSED"}
  BY NoStatusAssumption DEF RoStatus, ReachedStatuses

\* What a handler knows from its start.
Kept(p, q) == q.op = p.op /\ q.checkIn = p.checkIn /\ q.jobCard = p.jobCard /\ q.bay = p.bay

\* A request p whose setRoStatus has returned becomes q.
Returned(p, q) ==
  \/ p.target = "QC_PASSED" /\ q.at = "roRead" /\ q.target = "WASHBAY" /\ Kept(p, q)
  \/ p.target = "RELEASED" /\ q.at = "roRead" /\ q.target = "CLOSED" /\ Kept(p, q)
  \/ p.target = "CLOSED" /\ q.at = "closeVisit" /\ q.target = "CLOSED" /\ Kept(p, q)
  \/ p.target = "IN_WORKSHOP" /\ q.at = "syncBay" /\ q.target = "IN_WORKSHOP" /\ Kept(p, q)
  \/ p.target \notin {"QC_PASSED", "RELEASED", "CLOSED", "IN_WORKSHOP"} /\ q = Idle

Becomes(r, q) == q \in Request /\ req' = [req EXCEPT ![r] = q]

\* The request goes to another of its steps.
LEMMA GotoMoves ==
  ASSUME TypeOK, NEW r \in Requests, NEW step \in Steps, Goto(r, step)
  PROVE  \E q : /\ Becomes(r, q) /\ Kept(req[r], q)
                /\ q.at = step /\ q.target = req[r].target /\ q.alloc = req[r].alloc
  <1> DEFINE q == [req[r] EXCEPT !.at = step]
  <1>1. req[r] \in Request
    BY DEF TypeOK
  <1>2. /\ q \in Request /\ Kept(req[r], q)
        /\ q.at = step /\ q.target = req[r].target /\ q.alloc = req[r].alloc
    BY <1>1 DEF Request, Kept
  <1>3. req' = [req EXCEPT ![r] = q]
    BY DEF Goto
  <1> QED
    BY <1>2, <1>3 DEF Becomes

\* The request calls setRoStatus.
LEMMA SetRoMoves ==
  ASSUME TypeOK, NEW r \in Requests, NEW s \in RoStatus, SetRoNext(r, s)
  PROVE  \E q : Becomes(r, q) /\ Kept(req[r], q) /\ q.at = "roRead" /\ q.target = s
  <1> DEFINE q == [req[r] EXCEPT !.at = "roRead", !.target = s, !.alloc = NoAllocation]
  <1>1. req[r] \in Request
    BY DEF TypeOK
  <1>2. q \in Request /\ Kept(req[r], q) /\ q.at = "roRead" /\ q.target = s
    BY <1>1 DEF Request, Kept, Steps
  <1>3. req' = [req EXCEPT ![r] = q]
    BY DEF SetRoNext
  <1> QED
    BY <1>2, <1>3 DEF Becomes

\* The request is answered.
LEMMA FinishMoves ==
  ASSUME NEW r \in Requests, Finish(r)
  PROVE  Becomes(r, Idle)
  BY DEF Finish, Becomes, Idle, Request, Steps

\* setRoStatus returns to its handler.
LEMMA ReturnMoves ==
  ASSUME TypeOK, NEW r \in Requests, Return(r)
  PROVE  \E q : Becomes(r, q) /\ Returned(req[r], q)
  <1>1. {"WASHBAY", "CLOSED"} \subseteq RoStatus /\ {"closeVisit", "syncBay"} \subseteq Steps
    BY DEF RoStatus, ReachedStatuses, Steps
  <1>2. CASE req[r].target = "QC_PASSED"
    <2>1. SetRoNext(r, "WASHBAY")
      BY <1>2 DEF Return
    <2> QED
      BY <1>1, <1>2, <2>1, SetRoMoves DEF Returned
  <1>3. CASE req[r].target = "RELEASED"
    <2>1. SetRoNext(r, "CLOSED")
      BY <1>3 DEF Return
    <2> QED
      BY <1>1, <1>3, <2>1, SetRoMoves DEF Returned
  <1>4. CASE req[r].target = "CLOSED"
    <2>1. Goto(r, "closeVisit")
      BY <1>4 DEF Return
    <2> QED
      BY <1>1, <1>4, <2>1, GotoMoves DEF Returned
  <1>5. CASE req[r].target = "IN_WORKSHOP"
    <2>1. Goto(r, "syncBay")
      BY <1>5 DEF Return
    <2> QED
      BY <1>1, <1>5, <2>1, GotoMoves DEF Returned
  <1>6. CASE req[r].target \notin {"QC_PASSED", "RELEASED", "CLOSED", "IN_WORKSHOP"}
    <2>1. Finish(r)
      BY <1>6 DEF Return
    <2> QED
      BY <1>6, <2>1, FinishMoves DEF Returned
  <1> QED
    BY <1>2, <1>3, <1>4, <1>5, <1>6

\* A client's call is of a visit that has begun, or begins it.
LEMMA BeginMoves ==
  ASSUME NEW r \in Requests, NEW op \in AllEndpoints, NEW q \in Request, Begin(r, op, q)
  PROVE  Becomes(r, [q EXCEPT !.op = op]) /\ req[r].at = "idle"
  BY DEF Begin, Becomes, Request

\* Where the request that moves is, and that no other moves.
LEMMA MovedTo ==
  ASSUME TypeOK, NEW r \in Requests
  PROVE  /\ \A step \in Steps :
              Goto(r, step) =>
                /\ req'[r].at = step /\ Kept(req[r], req'[r])
                /\ req'[r].target = req[r].target /\ req'[r].alloc = req[r].alloc
                /\ \A s \in Requests : s # r => req'[s] = req[s]
         /\ \A t \in RoStatus :
              SetRoNext(r, t) =>
                /\ req'[r].at = "roRead" /\ req'[r].target = t /\ Kept(req[r], req'[r])
                /\ \A s \in Requests : s # r => req'[s] = req[s]
         /\ Finish(r) => req'[r] = Idle /\ \A s \in Requests : s # r => req'[s] = req[s]
         /\ Return(r) => Returned(req[r], req'[r]) /\ \A s \in Requests : s # r => req'[s] = req[s]
         /\ \A a \in Allocations :
              req' = [req EXCEPT ![r] = [@ EXCEPT !.at = "releaseCommit", !.alloc = a]] =>
                /\ req'[r].at = "releaseCommit" /\ Kept(req[r], req'[r])
                /\ req'[r].target = req[r].target /\ req'[r].alloc = a
                /\ \A s \in Requests : s # r => req'[s] = req[s]
  <1>1. ASSUME NEW q, Becomes(r, q)
        PROVE  req'[r] = q /\ \A s \in Requests : s # r => req'[s] = req[s]
    BY <1>1 DEF Becomes, TypeOK
  <1>2. ASSUME NEW a \in Allocations,
               req' = [req EXCEPT ![r] = [@ EXCEPT !.at = "releaseCommit", !.alloc = a]]
        PROVE  /\ req'[r].at = "releaseCommit" /\ Kept(req[r], req'[r])
               /\ req'[r].target = req[r].target /\ req'[r].alloc = a
               /\ \A s \in Requests : s # r => req'[s] = req[s]
    <2> DEFINE q == [req[r] EXCEPT !.at = "releaseCommit", !.alloc = a]
    <2>1. req[r] \in Request
      BY DEF TypeOK
    <2>2. q.at = "releaseCommit" /\ Kept(req[r], q) /\ q.target = req[r].target /\ q.alloc = a
      BY <2>1 DEF Request, Kept
    <2>3. req'[r] = q /\ \A s \in Requests : s # r => req'[s] = req[s]
      BY <1>2 DEF TypeOK
    <2> QED
      BY <2>2, <2>3
  <1>3. ASSUME NEW step \in Steps, Goto(r, step)
        PROVE  /\ req'[r].at = step /\ Kept(req[r], req'[r])
               /\ req'[r].target = req[r].target /\ req'[r].alloc = req[r].alloc
               /\ \A s \in Requests : s # r => req'[s] = req[s]
    BY <1>1, <1>3, GotoMoves
  <1>4. ASSUME NEW t \in RoStatus, SetRoNext(r, t)
        PROVE  /\ req'[r].at = "roRead" /\ req'[r].target = t /\ Kept(req[r], req'[r])
               /\ \A s \in Requests : s # r => req'[s] = req[s]
    BY <1>1, <1>4, SetRoMoves
  <1>5. ASSUME Finish(r)
        PROVE  req'[r] = Idle /\ \A s \in Requests : s # r => req'[s] = req[s]
    BY <1>1, <1>5, FinishMoves
  <1>6. ASSUME Return(r)
        PROVE  Returned(req[r], req'[r]) /\ \A s \in Requests : s # r => req'[s] = req[s]
    BY <1>1, <1>6, ReturnMoves
  <1> QED
    BY <1>2, <1>3, <1>4, <1>5, <1>6

\* What a client's call leaves in request q, and what it has read.
Called(q) ==
  \/ /\ q.checkIn \in CheckIns /\ q.jobCard = NoJobCard
     /\ \/ q.at = "roRead" /\ q.target = "ARRIVED" /\ visit[q.checkIn] = "absent"
        \/ q.at = "roRead" /\ q.target = "READY_FOR_RELEASE" /\ ro[q.checkIn] = "WASHBAY"
        \/ q.at = "inspect" /\ q.target = NoStatus /\ ro[q.checkIn] = "QC_OUT"
        \/ /\ q.target = NoStatus /\ visit[q.checkIn] # "absent"
           /\ \/ q.at = "releaseRead"
              \/ q.at = "allocOpen" /\ q.bay \in Bays
              \/ q.at = "reallocBay" /\ q.bay \in Bays /\ q.alloc \in OpenOf(q.checkIn)
  \/ q.at = "deleteBay" /\ q.target = NoStatus /\ q.checkIn = NoCheckIn /\ q.jobCard = NoJobCard
  \/ /\ q.jobCard \in JobCards /\ q.checkIn = CheckInOf[q.jobCard] /\ q.target = NoStatus
     /\ \/ q.at = "startBay" /\ card[q.jobCard].status = "APPROVED"
        \/ q.at = "finishWrite" /\ card[q.jobCard].status # "none"
        \/ q.at = "redeemWrite" /\ gatePass[q.jobCard] = "ACTIVE"
        \/ q.at \in {"signOff", "reject"} /\ card[q.jobCard].status = "FOREMAN_REVIEW"

\* A client's call changes its request and no row, but for the visit an entry begins.
LEMMA CallBegins ==
  ASSUME TypeOK, NEW r \in Requests, Call(r)
  PROVE  /\ UNCHANGED <<ro, reserved, bay, alloc, card, inspection, gatePass>>
         /\ req[r].at = "idle" /\ Called(req'[r])
         /\ req'[r].op = "redeem" <=> req'[r].at = "redeemWrite"
         /\ \A s \in Requests : s # r => req'[s] = req[s]
         /\ \/ visit' = visit /\ req'[r].target # "ARRIVED"
            \/ /\ req'[r].at = "roRead" /\ req'[r].target = "ARRIVED" /\ visit[req'[r].checkIn] = "absent"
               /\ visit' = [visit EXCEPT ![req'[r].checkIn] = "active"]
  <1> DEFINE Rest == \A s \in Requests : s # r => req'[s] = req[s]
  <1> DEFINE Goal == /\ UNCHANGED <<ro, reserved, bay, alloc, card, inspection, gatePass>>
                     /\ req[r].at = "idle" /\ Called(req'[r]) /\ Rest
                     /\ req'[r].op = "redeem" <=> req'[r].at = "redeemWrite"
                     /\ \/ visit' = visit /\ req'[r].target # "ARRIVED"
                        \/ /\ req'[r].at = "roRead" /\ req'[r].target = "ARRIVED"
                           /\ visit[req'[r].checkIn] = "absent"
                           /\ visit' = [visit EXCEPT ![req'[r].checkIn] = "active"]
  <1>0. NoStatus # "ARRIVED"
    BY StatusesDiffer
  <1>1. ASSUME NEW op \in AllEndpoints, NEW q \in Request, Begin(r, op, q)
        PROVE  /\ req[r].at = "idle" /\ Rest
               /\ req'[r].at = q.at /\ req'[r].target = q.target /\ req'[r].checkIn = q.checkIn
               /\ req'[r].jobCard = q.jobCard /\ req'[r].bay = q.bay /\ req'[r].alloc = q.alloc
               /\ req'[r].op = op
    <2>1. Becomes(r, [q EXCEPT !.op = op]) /\ req[r].at = "idle"
      BY <1>1, BeginMoves
    <2>2. req'[r] = [q EXCEPT !.op = op] /\ Rest
      BY <2>1 DEF Becomes, TypeOK
    <2> QED
      BY <1>1, <2>1, <2>2 DEF Request
  <1>2. ASSUME NEW c \in CheckIns, ConfirmEntry(r, c) PROVE Goal
    <2> DEFINE q == [Idle EXCEPT !.at = "roRead", !.checkIn = c, !.target = "ARRIVED"]
    <2>1. /\ q \in Request /\ "confirmVehicleEntry" \in AllEndpoints
          /\ q.at = "roRead" /\ q.checkIn = c /\ q.jobCard = NoJobCard /\ q.target = "ARRIVED"
      BY DEF Idle, Request, Steps, AllEndpoints, RoStatus, ReachedStatuses
    <2>2. Begin(r, "confirmVehicleEntry", q)
      BY <1>2 DEF ConfirmEntry
    <2> HIDE DEF q
    <2> QED
      BY <1>0, <1>1, <1>2, <2>1, <2>2 DEF ConfirmEntry, Called
  <1>3. ASSUME NEW c \in CheckIns, ReleaseAllocation(r, c) PROVE Goal
    <2> DEFINE q == [Idle EXCEPT !.at = "releaseRead", !.checkIn = c]
    <2>1. /\ q \in Request /\ "releaseAllocation" \in AllEndpoints
          /\ q.at = "releaseRead" /\ q.checkIn = c /\ q.jobCard = NoJobCard /\ q.target = NoStatus
      BY DEF Idle, Request, Steps, AllEndpoints
    <2>2. Begin(r, "releaseAllocation", q)
      BY <1>3 DEF ReleaseAllocation
    <2> HIDE DEF q
    <2> QED
      BY <1>0, <1>1, <1>3, <2>1, <2>2 DEF ReleaseAllocation, Called
  <1>4. ASSUME NEW c \in CheckIns, InspectReadStatus(r, c) PROVE Goal
    <2> DEFINE q == [Idle EXCEPT !.at = "inspect", !.checkIn = c]
    <2>1. /\ q \in Request /\ "submitInspection" \in AllEndpoints
          /\ q.at = "inspect" /\ q.checkIn = c /\ q.jobCard = NoJobCard /\ q.target = NoStatus
      BY DEF Idle, Request, Steps, AllEndpoints
    <2>2. Begin(r, "submitInspection", q)
      BY <1>4 DEF InspectReadStatus
    <2> HIDE DEF q
    <2> QED
      BY <1>0, <1>1, <1>4, <2>1, <2>2 DEF InspectReadStatus, Called
  <1>5. ASSUME NEW c \in CheckIns, MarkReadyForRelease(r, c) PROVE Goal
    <2> DEFINE q == [Idle EXCEPT !.at = "roRead", !.checkIn = c, !.target = "READY_FOR_RELEASE"]
    <2>1. /\ q \in Request /\ "markReadyForRelease" \in AllEndpoints
          /\ q.at = "roRead" /\ q.checkIn = c /\ q.jobCard = NoJobCard /\ q.target = "READY_FOR_RELEASE"
      BY DEF Idle, Request, Steps, AllEndpoints, RoStatus, ReachedStatuses
    <2>2. Begin(r, "markReadyForRelease", q)
      BY <1>5 DEF MarkReadyForRelease
    <2> HIDE DEF q
    <2> QED
      BY <1>0, <1>1, <1>5, <2>1, <2>2 DEF MarkReadyForRelease, Called
  <1>6. ASSUME NEW c \in CheckIns, NEW b \in Bays, AllocateReadCheckIn(r, c, b) PROVE Goal
    <2> DEFINE q == [Idle EXCEPT !.at = "allocOpen", !.checkIn = c, !.bay = b,
                                 !.rework = (ro[c] = "QC_FAILED")]
    <2>1. /\ q \in Request /\ "allocateToBay" \in AllEndpoints
          /\ q.at = "allocOpen" /\ q.bay = b /\ q.checkIn = c /\ q.jobCard = NoJobCard /\ q.target = NoStatus
      BY DEF Idle, Request, Steps, AllEndpoints
    <2>2. Begin(r, "allocateToBay", q)
      BY <1>6 DEF AllocateReadCheckIn
    <2> HIDE DEF q
    <2> QED
      BY <1>0, <1>1, <1>6, <2>1, <2>2 DEF AllocateReadCheckIn, Called
  <1>7. ASSUME NEW c \in CheckIns, NEW b \in Bays, ReallocateReadOpen(r, c, b) PROVE Goal
    <2>0. PICK a \in OpenOf(c) :
            Begin(r, "reallocate", [Idle EXCEPT !.at = "reallocBay", !.checkIn = c, !.bay = b, !.alloc = a])
      BY <1>7 DEF ReallocateReadOpen
    <2> DEFINE q == [Idle EXCEPT !.at = "reallocBay", !.checkIn = c, !.bay = b, !.alloc = a]
    <2>1. /\ q \in Request /\ "reallocate" \in AllEndpoints
          /\ q.alloc = a /\ q.at = "reallocBay" /\ q.bay = b /\ q.checkIn = c /\ q.jobCard = NoJobCard /\ q.target = NoStatus
      BY <2>0 DEF Idle, Request, Steps, AllEndpoints, OpenOf
    <2>2. Begin(r, "reallocate", q)
      BY <2>0, <1>7 DEF ReallocateReadOpen
    <2> HIDE DEF q
    <2> QED
      BY <1>0, <2>0, <1>1, <1>7, <2>1, <2>2 DEF ReallocateReadOpen, Called
  <1>8. ASSUME NEW b \in Bays, DeleteBayRead(r, b) PROVE Goal
    <2> DEFINE q == [Idle EXCEPT !.at = "deleteBay", !.bay = b]
    <2>1. /\ q \in Request /\ "deleteBay" \in AllEndpoints
          /\ q.at = "deleteBay" /\ q.bay = b /\ q.checkIn = NoCheckIn /\ q.jobCard = NoJobCard /\ q.target = NoStatus
      BY DEF Idle, Request, Steps, AllEndpoints
    <2>2. Begin(r, "deleteBay", q)
      BY <1>8 DEF DeleteBayRead
    <2> HIDE DEF q
    <2> QED
      BY <1>0, <1>1, <1>8, <2>1, <2>2 DEF DeleteBayRead, Called
  <1>9. ASSUME NEW j \in JobCards, NEW op \in AllEndpoints, NEW step \in Steps,
                Begin(r, op, [Idle EXCEPT !.at = step, !.jobCard = j, !.checkIn = CheckInOf[j]])
         PROVE  /\ req[r].at = "idle" /\ Rest
                /\ req'[r].at = step /\ req'[r].jobCard = j /\ req'[r].target = NoStatus
                /\ req'[r].checkIn = CheckInOf[j] /\ req'[r].op = op
    <2> DEFINE q == [Idle EXCEPT !.at = step, !.jobCard = j, !.checkIn = CheckInOf[j]]
    <2>1. q \in Request /\ q.at = step /\ q.jobCard = j /\ q.target = NoStatus
          /\ q.checkIn = CheckInOf[j]
      BY ConstantsAssumption DEF Idle, Request
    <2>2. Begin(r, op, q)
      BY <1>9
    <2> HIDE DEF q
    <2> QED
      BY <1>0, <1>1, <2>1, <2>2
  <1>10. /\ {"startTechnicianWork", "completeItemWork", "redeem", "signOffJobCard", "rejectJobCard"}
               \subseteq AllEndpoints
         /\ {"startBay", "finishWrite", "redeemWrite", "signOff", "reject"} \subseteq Steps
    BY DEF AllEndpoints, Steps
  <1>11. ASSUME NEW j \in JobCards, StartReadCard(r, j) PROVE Goal
    <2>1. /\ req[r].at = "idle" /\ Rest /\ card[j].status = "APPROVED"
          /\ req'[r].at = "startBay" /\ req'[r].jobCard = j /\ req'[r].target = NoStatus
          /\ req'[r].checkIn = CheckInOf[j] /\ req'[r].op = "startTechnicianWork"
          /\ UNCHANGED <<visit, ro, reserved, bay, alloc, card, inspection, gatePass>>
      BY <1>9, <1>10, <1>11 DEF StartReadCard
    <2>2. Called(req'[r])
      BY <2>1 DEF Called
    <2> QED
      BY <1>0, <2>1, <2>2
  <1>12. ASSUME NEW j \in JobCards, CompleteReadItem(r, j) PROVE Goal
    <2>1. /\ req[r].at = "idle" /\ Rest /\ card[j].status # "none"
          /\ req'[r].at = "finishWrite" /\ req'[r].jobCard = j /\ req'[r].target = NoStatus
          /\ req'[r].checkIn = CheckInOf[j] /\ req'[r].op = "completeItemWork"
          /\ UNCHANGED <<visit, ro, reserved, bay, alloc, card, inspection, gatePass>>
      BY <1>9, <1>10, <1>12 DEF CompleteReadItem
    <2>2. Called(req'[r])
      BY <2>1 DEF Called
    <2> QED
      BY <1>0, <2>1, <2>2
  <1>13. ASSUME NEW j \in JobCards, RedeemRead(r, j) PROVE Goal
    <2>1. /\ req[r].at = "idle" /\ Rest /\ gatePass[j] = "ACTIVE"
          /\ req'[r].at = "redeemWrite" /\ req'[r].jobCard = j /\ req'[r].target = NoStatus
          /\ req'[r].checkIn = CheckInOf[j] /\ req'[r].op = "redeem"
          /\ UNCHANGED <<visit, ro, reserved, bay, alloc, card, inspection, gatePass>>
      BY <1>9, <1>10, <1>13 DEF RedeemRead
    <2>2. Called(req'[r])
      BY <2>1 DEF Called
    <2> QED
      BY <1>0, <2>1, <2>2
  <1>14. ASSUME NEW j \in JobCards, ReviewReadCard(r, j, "signOffJobCard", "signOff") PROVE Goal
    <2>1. /\ req[r].at = "idle" /\ Rest /\ card[j].status = "FOREMAN_REVIEW"
          /\ req'[r].at = "signOff" /\ req'[r].jobCard = j /\ req'[r].target = NoStatus
          /\ req'[r].checkIn = CheckInOf[j] /\ req'[r].op = "signOffJobCard"
          /\ UNCHANGED <<visit, ro, reserved, bay, alloc, card, inspection, gatePass>>
      BY <1>9, <1>10, <1>14 DEF ReviewReadCard
    <2>2. Called(req'[r])
      BY <2>1 DEF Called
    <2> QED
      BY <1>0, <2>1, <2>2
  <1>15. ASSUME NEW j \in JobCards, ReviewReadCard(r, j, "rejectJobCard", "reject") PROVE Goal
    <2>1. /\ req[r].at = "idle" /\ Rest /\ card[j].status = "FOREMAN_REVIEW"
          /\ req'[r].at = "reject" /\ req'[r].jobCard = j /\ req'[r].target = NoStatus
          /\ req'[r].checkIn = CheckInOf[j] /\ req'[r].op = "rejectJobCard"
          /\ UNCHANGED <<visit, ro, reserved, bay, alloc, card, inspection, gatePass>>
      BY <1>9, <1>10, <1>15 DEF ReviewReadCard
    <2>2. Called(req'[r])
      BY <2>1 DEF Called
    <2> QED
      BY <1>0, <2>1, <2>2
  <1> QED
    BY <1>2, <1>3, <1>4, <1>5, <1>6, <1>7, <1>8, <1>11, <1>12, <1>13, <1>14, <1>15 DEF Call

(***************************************************************************)
(* Requests that run to their end, any number of them at once.  A status   *)
(* that no dashboard lists was set by a request that will set the next one *)
(* or close the visit; and a redeemed pass has a request that will.        *)
(***************************************************************************)

NothingFails == MaxFailures = 0

\* Where a request sets a status, or goes on after it.
Setting == RoSteps \cup {"releaseRead", "releaseCommit", "closeVisit", "redeemWrite"}

\* Statuses that no dashboard lists.
Transient == {NoStatus, "QC_PASSED", "RELEASED", "CLOSED"}

\* Request q will move its visit on from s, or close it.
Chases(q, s) ==
  \/ s = NoStatus /\ q.target = "ARRIVED" /\ q.at \in RoSteps
  \/ s = "QC_PASSED" /\ (q.target = "QC_PASSED" \/ (q.target = "WASHBAY" /\ q.at \in RoSteps))
  \/ s = "RELEASED" /\ (q.target = "RELEASED" \/ (q.target = "CLOSED" /\ q.at \in RoSteps))
  \/ s = "CLOSED" /\ q.target = "CLOSED"

\* A request that sets a status is inside setRoStatus or in what its handler chains to it.
Ordered(q) ==
  /\ q.target # NoStatus =>
       q.at \in RoSteps \cup {"releaseRead", "releaseCommit", "closeVisit", "syncBay"}
  /\ q.at \in RoSteps => q.target \in ReachedStatuses
  /\ q.at = "closeVisit" => q.target = "CLOSED"
  /\ q.at = "syncBay" => q.target \notin {"QC_PASSED", "RELEASED", "CLOSED"}
  /\ q.op = "redeem" => q.at = "redeemWrite" \/ q.target \in {"RELEASED", "CLOSED"}
  /\ q.at = "redeemWrite" => q.op = "redeem" /\ q.jobCard \in JobCards
  /\ q.jobCard \in JobCards => q.checkIn = CheckInOf[q.jobCard]

\* Nothing is known of a visit still to come.
StillToCome ==
  \A c \in CheckIns :
    visit[c] = "absent" =>
      /\ ro[c] = NoStatus
      /\ \A r \in Requests : req[r].checkIn # c
      /\ \A j \in CardsOf(c) : card[j].status = "none" /\ gatePass[j] = "none"

ReachedOnly == \A c \in CheckIns : ro[c] \in ReachedStatuses \cup {NoStatus}

TransientIsChased ==
  \A c \in CheckIns :
    visit[c] = "active" /\ ro[c] \in Transient =>
      \E r \in Requests : req[r].checkIn = c /\ Chases(req[r], ro[c])

ChainInv ==
  /\ TypeOK
  /\ \A r \in Requests : Ordered(req[r])
  /\ StillToCome
  /\ ReachedOnly
  /\ TransientIsChased
  /\ RedeemedIsClosing

\* Who sets no status is chased for none.
LEMMA Uninvolved ==
  ASSUME NEW p, Ordered(p), p.at \notin Setting
  PROVE  p.op # "redeem" /\ \A s : ~Chases(p, s)
  BY StatusesDiffer DEF Ordered, Chases, RoSteps, Setting

\* An idle request is in order.
LEMMA IdleOrdered == Ordered(Idle) /\ Idle.checkIn \notin CheckIns
  BY StatusesDiffer, ConstantsAssumption DEF Ordered, Idle, RoSteps

\* One request moves on, whatever it writes: each visit's status is chased as before.
LEMMA ChainStep ==
  ASSUME ChainInv, TypeOK', NEW r \in Requests, NEW q, Becomes(r, q), Ordered(q),
         \A c \in CheckIns :
           \/ visit'[c] = visit[c]
           \/ visit[c] = "absent" /\ q.checkIn = c /\ Chases(q, NoStatus)
           \/ visit'[c] = "completed",
         \A c \in CheckIns : visit[c] = "completed" => visit'[c] = "completed",
         q.checkIn \in CheckIns => visit'[q.checkIn] # "absent",
         \A c \in CheckIns :
           \/ ro'[c] = ro[c]
           \/ /\ visit[c] # "absent" /\ ro'[c] \in ReachedStatuses
              /\ ro'[c] \in Transient => q.checkIn = c /\ Chases(q, ro'[c]),
         \A c \in CheckIns :
           req[r].checkIn = c /\ Chases(req[r], ro[c]) /\ ro'[c] = ro[c] /\ visit'[c] = "active" =>
             q.checkIn = c /\ Chases(q, ro[c]),
         \A c \in CheckIns :
           req[r].checkIn = c /\ req[r].op = "redeem" =>
             visit'[c] = "completed" \/ (q.op = "redeem" /\ q.checkIn = c),
         \A j \in JobCards :
           visit'[CheckInOf[j]] = "absent" => card'[j] = card[j] /\ gatePass'[j] = gatePass[j],
         \A j \in JobCards :
           gatePass'[j] = "REDEEMED" =>
             gatePass[j] = "REDEEMED" \/ (q.op = "redeem" /\ q.checkIn = CheckInOf[j])
  PROVE  ChainInv'
  <1>1. req'[r] = q /\ \A s \in Requests : s # r => req'[s] = req[s]
    BY DEF ChainInv, TypeOK, Becomes
  <1>2. \A s \in Requests : Ordered(req'[s])
    BY <1>1 DEF ChainInv
  <1>3. StillToCome'
    <2> SUFFICES ASSUME NEW c \in CheckIns, visit'[c] = "absent"
                 PROVE  /\ ro'[c] = NoStatus
                        /\ \A s \in Requests : req'[s].checkIn # c
                        /\ \A j \in CardsOf(c) : card'[j].status = "none" /\ gatePass'[j] = "none"
      BY DEF StillToCome, CardsOf
    <2>1. visit[c] = "absent" /\ q.checkIn # c
      BY StatusesDiffer DEF ChainInv, TypeOK, Chases
    <2> QED
      BY <1>1, <2>1 DEF ChainInv, StillToCome, CardsOf
  <1>4. ReachedOnly'
    BY DEF ChainInv, ReachedOnly
  <1>5. TransientIsChased'
    <2> SUFFICES ASSUME NEW c \in CheckIns, visit'[c] = "active", ro'[c] \in Transient
                 PROVE  \E s \in Requests : req'[s].checkIn = c /\ Chases(req'[s], ro'[c])
      BY DEF TransientIsChased, Chases, Transient
    <2>1. CASE ro'[c] # ro[c]
      BY <1>1, <2>1
    <2>2. CASE ro'[c] = ro[c] /\ visit[c] = "active"
      <3>1. PICK s \in Requests : req[s].checkIn = c /\ Chases(req[s], ro[c])
        BY <2>2 DEF ChainInv, TransientIsChased
      <3> QED
        BY <1>1, <2>2, <3>1
    <2>3. CASE ro'[c] = ro[c] /\ visit[c] # "active"
      <3>1. visit[c] = "absent" /\ q.checkIn = c /\ Chases(q, NoStatus)
        BY <2>3
      <3>2. ro[c] = NoStatus
        BY <3>1 DEF ChainInv, StillToCome
      <3> QED
        BY <1>1, <2>3, <3>1, <3>2
    <2> QED
      BY <2>1, <2>2, <2>3
  <1>6. RedeemedIsClosing'
    <2> SUFFICES ASSUME NEW j \in JobCards, gatePass'[j] = "REDEEMED", visit'[CheckInOf[j]] # "completed"
                 PROVE  \E s \in Requests : req'[s].op = "redeem" /\ req'[s].checkIn = CheckInOf[j]
      BY DEF RedeemedIsClosing
    <2>1. CheckInOf[j] \in CheckIns
      BY ConstantsAssumption
    <2>2. CASE gatePass[j] = "REDEEMED"
      <3>1. PICK s \in Requests : req[s].op = "redeem" /\ req[s].checkIn = CheckInOf[j]
        BY <2>1, <2>2 DEF ChainInv, RedeemedIsClosing
      <3> QED
        BY <1>1, <2>1, <3>1
    <2>3. CASE gatePass[j] # "REDEEMED"
      BY <1>1, <2>3
    <2> QED
      BY <2>2, <2>3
  <1> QED
    BY <1>2, <1>3, <1>4, <1>5, <1>6 DEF ChainInv


\* A request that sets no status moves on, or is answered.
LEMMA CalmStep ==
  ASSUME ChainInv, TypeOK', NEW r \in Requests, NEW q, Becomes(r, q), Ordered(q),
         UNCHANGED <<visit, ro, gatePass>>, req[r].at \notin Setting,
         \A c \in CheckIns : visit[c] = "absent" => q.checkIn # c,
         \A j \in JobCards : visit[CheckInOf[j]] = "absent" => card'[j] = card[j]
  PROVE  ChainInv'
  <1>1. req[r].op # "redeem" /\ \A s : ~Chases(req[r], s)
    BY Uninvolved DEF ChainInv
  <1> QED
    BY <1>1, ChainStep

\* The step of a request leaves it in order: it goes on, or calls setRoStatus.
LEMMA CalmOrdered ==
  ASSUME NEW p, NEW q, Ordered(p), p.at \notin Setting, p.at # "syncBay", Kept(p, q),
         \/ q.at \notin Setting /\ q.target = p.target
         \/ q.at = "roRead" /\ q.target \in ReachedStatuses
  PROVE  Ordered(q)
  BY StatusesDiffer DEF Ordered, Setting, RoSteps, Kept

\* The same, of a request in flight.
LEMMA CalmProceed ==
  ASSUME ChainInv, TypeOK', NEW r \in Requests, NEW q, Becomes(r, q),
         UNCHANGED <<visit, ro, gatePass>>, req[r].at \notin Setting,
         \/ q = Idle
         \/ /\ Kept(req[r], q) /\ req[r].at # "syncBay"
            /\ \/ q.at \notin Setting /\ q.target = req[r].target
               \/ q.at = "roRead" /\ q.target \in ReachedStatuses,
         \A j \in JobCards : visit[CheckInOf[j]] = "absent" => card'[j] = card[j]
  PROVE  ChainInv'
  <1>1. Ordered(q)
    BY CalmOrdered, IdleOrdered DEF ChainInv
  <1>2. \A c \in CheckIns : visit[c] = "absent" => q.checkIn # c
    BY IdleOrdered DEF ChainInv, StillToCome, Kept
  <1> QED
    BY <1>1, <1>2, CalmStep

\* A request inside setRoStatus goes on in it, or setRoStatus returns.
LEMMA SettingStep ==
  ASSUME ChainInv, TypeOK', NEW r \in Requests, NEW q, Becomes(r, q),
         UNCHANGED <<visit, card, gatePass>>,
         req[r].at \in RoSteps \cup {"releaseRead", "releaseCommit"},
         \/ Returned(req[r], q)
         \/ /\ Kept(req[r], q) /\ q.target = req[r].target
            /\ \/ req[r].at = "roRead" /\ q.at = "roWrite"
               \/ q.at \in {"releaseRead", "releaseCommit"},
         \/ ro' = ro /\ req[r].at = "roRead" /\ (q.at = "roWrite" \/ ro[req[r].checkIn] = req[r].target)
         \/ ro' = ro /\ req[r].at \in {"releaseRead", "releaseCommit"}
         \/ ro' = [ro EXCEPT ![req[r].checkIn] = req[r].target] /\ req[r].at = "roWrite"
  PROVE  ChainInv'
  <1> DEFINE p == req[r]
  <1>1. Ordered(p)
    BY DEF ChainInv
  <1>2. q = Idle \/ Kept(p, q)
    BY DEF Returned
  <1>3. Ordered(q)
    BY <1>1, IdleOrdered, StatusesDiffer DEF Ordered, Returned, Kept, RoSteps, ReachedStatuses
  <1>4. \A c \in CheckIns : visit[c] = "absent" => q.checkIn # c
    BY <1>2, IdleOrdered DEF ChainInv, StillToCome, Kept
  <1>5. \A s \in Transient : Chases(p, s) /\ p.at # "roWrite" /\ (p.at = "roRead" => q.at = "roWrite" \/ p.target = s)
                               => Chases(q, s) /\ Kept(p, q)
    <2> SUFFICES ASSUME NEW s \in Transient, Chases(p, s), p.at # "roWrite",
                        p.at = "roRead" => q.at = "roWrite" \/ p.target = s
                 PROVE  Chases(q, s) /\ Kept(p, q)
      OBVIOUS
    <2>1. CASE p.target = s
      BY <1>1, <2>1, StatusesDiffer DEF Transient, Chases, Returned, RoSteps, Ordered
    <2>2. CASE p.target # s
      <3>1. p.at \in RoSteps
        BY <2>2 DEF Chases
      <3>2. p.at = "roRead" /\ q.at = "roWrite"
        BY <2>2, <3>1 DEF RoSteps
      <3>3. Kept(p, q) /\ q.target = p.target
        BY <3>2, StatusesDiffer, IdleOrdered DEF Returned, Idle
      <3> QED
        BY <3>2, <3>3 DEF Chases, RoSteps
    <2> QED
      BY <2>1, <2>2
  <1>6. p.at = "roWrite" /\ p.target \in Transient => Chases(q, p.target) /\ Kept(p, q)
    BY <1>1, StatusesDiffer DEF Transient, Chases, Returned, RoSteps, Ordered
  <1>7. \A s : Chases(p, s) => s \in Transient
    BY DEF Chases, Transient
  <1>8. p.at = "roWrite" => p.target \in ReachedStatuses
    BY <1>1 DEF Ordered, RoSteps
  <1>9. \A c \in CheckIns :
          \/ ro'[c] = ro[c]
          \/ /\ visit[c] # "absent" /\ ro'[c] \in ReachedStatuses
             /\ ro'[c] \in Transient => q.checkIn = c /\ Chases(q, ro'[c])
    <2> SUFFICES ASSUME NEW c \in CheckIns, ro'[c] # ro[c]
                 PROVE  /\ visit[c] # "absent" /\ ro'[c] \in ReachedStatuses
                        /\ ro'[c] \in Transient => q.checkIn = c /\ Chases(q, ro'[c])
      OBVIOUS
    <2>1. p.at = "roWrite" /\ c = p.checkIn /\ ro'[c] = p.target
      BY DEF ChainInv, TypeOK
    <2> QED
      BY <1>6, <1>8, <2>1 DEF ChainInv, StillToCome, Kept
  <1>10. \A c \in CheckIns :
           p.checkIn = c /\ Chases(p, ro[c]) /\ ro'[c] = ro[c] => q.checkIn = c /\ Chases(q, ro[c])
    <2> SUFFICES ASSUME NEW c \in CheckIns, p.checkIn = c, Chases(p, ro[c]), ro'[c] = ro[c]
                 PROVE  q.checkIn = c /\ Chases(q, ro[c])
      OBVIOUS
    <2>1. CASE p.at = "roWrite"
      <3>1. ro[c] = p.target
        BY <2>1 DEF ChainInv, TypeOK
      <3> QED
        BY <1>6, <1>7, <2>1, <3>1 DEF Kept
    <2>2. CASE p.at # "roWrite"
      BY <1>5, <1>7, <2>2 DEF Kept
    <2> QED
      BY <2>1, <2>2
  <1>11. p.op = "redeem" => q.op = "redeem" /\ q.checkIn = p.checkIn
    BY <1>1, StatusesDiffer DEF Ordered, Returned, Kept, RoSteps
  <1> QED
    BY <1>3, <1>4, <1>9, <1>10, <1>11, ChainStep DEF ChainInv

\* A client calls: nothing but the request changes, and the visit an entry begins.
LEMMA CallChain ==
  ASSUME ChainInv, TypeOK', NEW r \in Requests, Call(r)
  PROVE  ChainInv'
  <1> DEFINE q == req'[r]
  <1>0. /\ UNCHANGED <<ro, card, gatePass>>
        /\ req[r].at = "idle" /\ Called(q)
        /\ q.op = "redeem" <=> q.at = "redeemWrite"
        /\ \A s \in Requests : s # r => req'[s] = req[s]
        /\ \/ visit' = visit /\ q.target # "ARRIVED"
           \/ /\ q.at = "roRead" /\ q.target = "ARRIVED" /\ visit[q.checkIn] = "absent"
              /\ visit' = [visit EXCEPT ![q.checkIn] = "active"]
    BY CallBegins DEF ChainInv
  <1>1. Becomes(r, q)
    BY <1>0 DEF Becomes, ChainInv, TypeOK
  <1> HIDE DEF q
  <1>2. Ordered(q)
    BY <1>0, StatusesDiffer, ConstantsAssumption DEF Called, Ordered, RoSteps, ReachedStatuses
  <1>3. req[r].at \notin Setting
    BY <1>0 DEF Setting, RoSteps
  <1>4. CASE visit' = visit /\ q.target # "ARRIVED"
    <2>1. \A c \in CheckIns : visit[c] = "absent" => q.checkIn # c
      BY <1>0, <1>4, StatusesDiffer, ConstantsAssumption DEF Called, ChainInv, StillToCome, CardsOf
    <2> QED
      BY <1>0, <1>1, <1>2, <1>3, <1>4, <2>1, CalmStep
  <1>5. CASE /\ q.at = "roRead" /\ q.target = "ARRIVED" /\ visit[q.checkIn] = "absent"
             /\ visit' = [visit EXCEPT ![q.checkIn] = "active"]
    <2>1. q.checkIn \in CheckIns /\ q.op # "redeem" /\ Chases(q, NoStatus)
      BY <1>0, <1>5, StatusesDiffer DEF Called, Chases, RoSteps
    <2>2. req[r].op # "redeem" /\ \A s : ~Chases(req[r], s)
      BY <1>3, Uninvolved DEF ChainInv
    <2>3. /\ visit'[q.checkIn] = "active"
          /\ \A d \in CheckIns : d # q.checkIn => visit'[d] = visit[d]
      BY <1>5, <2>1 DEF ChainInv, TypeOK
    <2> QED
      BY <1>0, <1>1, <1>2, <1>5, <2>1, <2>2, <2>3, ChainStep
  <1> QED
    BY <1>0, <1>4, <1>5

\* The next database call of a request in flight.
LEMMA ProceedChain ==
  ASSUME ChainInv, TypeOK', NEW r \in Requests, Proceed(r)
  PROVE  ChainInv'
  <1> DEFINE p == req[r]
  <1>0. TypeOK /\ Ordered(p)
    BY DEF ChainInv
  <1>1. ASSUME Finish(r) PROVE Becomes(r, Idle)
    BY <1>1, FinishMoves
  <1>2. ASSUME NEW step \in Steps, Goto(r, step)
        PROVE  \E q : /\ Becomes(r, q) /\ Kept(p, q) /\ q.at = step /\ q.target = p.target
    BY <1>0, <1>2, GotoMoves
  <1>3. ASSUME NEW s \in ReachedStatuses, SetRoNext(r, s)
        PROVE  \E q : /\ Becomes(r, q) /\ Kept(p, q) /\ q.at = "roRead" /\ q.target \in ReachedStatuses
    <2>1. s \in RoStatus
      BY DEF RoStatus
    <2> QED
      BY <1>0, <1>3, <2>1, SetRoMoves
  <1> DEFINE Calm == p.at \notin Setting /\ UNCHANGED <<visit, ro, gatePass>>
             SameCards == \A j \in JobCards : visit[CheckInOf[j]] = "absent" => card'[j] = card[j]
  <1>4. ASSUME Calm, SameCards, Finish(r) PROVE ChainInv'
    BY <1>1, <1>4, CalmProceed
  <1>5. ASSUME Calm, SameCards, p.at # "syncBay", NEW step \in Steps \ Setting, Goto(r, step)
        PROVE  ChainInv'
    BY <1>2, <1>5, CalmProceed
  <1>6. ASSUME Calm, SameCards, p.at # "syncBay", NEW s \in ReachedStatuses, SetRoNext(r, s)
        PROVE  ChainInv'
    BY <1>3, <1>6, CalmProceed
  <1>7. /\ {"allocBay", "allocCommit", "reallocCommit", "syncBay", "startWrite", "finishCheck"}
             \subseteq Steps \ Setting
        /\ {"IN_WORKSHOP", "QC_OUT", "QC_PASSED", "QC_FAILED", "RELEASED"} \subseteq ReachedStatuses
        /\ \A step \in {"deleteBay", "allocOpen", "allocBay", "allocCommit", "reallocBay", "reallocCommit",
                        "syncBay", "startBay", "startWrite", "finishWrite", "finishCheck", "signOff",
                        "reject", "inspect"} : step \notin Setting
    BY DEF Setting, RoSteps, Steps, ReachedStatuses
  <1>8. ASSUME card' = card PROVE SameCards
    BY <1>8
  <1>9. ASSUME NEW row, card' = [card EXCEPT ![p.jobCard] = row] PROVE SameCards
    <2> SUFFICES ASSUME NEW j \in JobCards, visit[CheckInOf[j]] = "absent" PROVE card'[j] = card[j]
      OBVIOUS
    <2>1. j # p.jobCard
      BY <1>0, ConstantsAssumption DEF Ordered, ChainInv, StillToCome
    <2> QED
      BY <1>0, <1>9, <2>1 DEF TypeOK
  <1> HIDE DEF Calm, SameCards
  <1>10. CASE DeleteBay(r)
    BY <1>4, <1>7, <1>8, <1>10 DEF DeleteBay, Calm
  <1>11. CASE AllocateReadOpen(r)
    BY <1>4, <1>5, <1>7, <1>8, <1>11 DEF AllocateReadOpen, Calm
  <1>12. CASE AllocateReadBay(r)
    BY <1>4, <1>5, <1>7, <1>8, <1>12 DEF AllocateReadBay, Calm
  <1>13. CASE AllocateConflict(r)
    BY <1>4, <1>7, <1>8, <1>13 DEF AllocateConflict, Calm
  <1>14. CASE AllocateCommit(r)
    <2>1. SameCards
      <3>1. PICK touched \in SUBSET {j \in CardsOf(p.checkIn) : card[j].status # "none"} :
              card' = [j \in JobCards |->
                         IF j \in touched THEN [status |-> "IN_PROGRESS", unfinished |-> TRUE]
                                          ELSE card[j]]
        BY <1>14 DEF AllocateCommit
      <3>2. \A j \in JobCards : visit[CheckInOf[j]] = "absent" => j \notin touched
        BY <3>1, ConstantsAssumption DEF ChainInv, StillToCome, CardsOf
      <3> QED
        BY <3>1, <3>2 DEF SameCards
    <2> QED
      BY <1>6, <1>7, <1>14, <2>1 DEF AllocateCommit, Calm
  <1>15. CASE SyncBay(r)
    BY <1>4, <1>7, <1>8, <1>15 DEF SyncBay, Calm
  <1>16. CASE ReallocateReadBay(r)
    BY <1>4, <1>5, <1>7, <1>8, <1>16 DEF ReallocateReadBay, Calm
  <1>17. CASE ReallocateConflict(r)
    BY <1>4, <1>7, <1>8, <1>17 DEF ReallocateConflict, Calm
  <1>18. CASE ReallocateCommit(r)
    BY <1>5, <1>7, <1>8, <1>18 DEF ReallocateCommit, Calm
  <1>19. CASE StartReadBay(r)
    BY <1>4, <1>5, <1>7, <1>8, <1>19 DEF StartReadBay, Calm
  <1>20. CASE StartWork(r)
    <2>1. card' = [card EXCEPT ![p.jobCard] = [@ EXCEPT !.status = "IN_PROGRESS"]]
      BY <1>20 DEF StartWork
    <2> QED
      BY <1>4, <1>7, <1>9, <1>20, <2>1 DEF StartWork, Calm
  <1>21. CASE CompleteCommit(r)
    BY <1>5, <1>7, <1>9, <1>21 DEF CompleteCommit, Calm
  <1>22. CASE CompleteCheck(r)
    BY <1>4, <1>6, <1>7, <1>8, <1>22 DEF CompleteCheck, Calm
  <1>23. CASE SignOff(r)
    BY <1>6, <1>7, <1>9, <1>23 DEF SignOff, Calm
  <1>24. CASE Reject(r)
    BY <1>4, <1>7, <1>9, <1>24 DEF Reject, Calm
  <1>25. CASE Inspect(r)
    BY <1>6, <1>7, <1>8, <1>25 DEF Inspect, Calm
  <1>26. ASSUME UNCHANGED <<visit, card, gatePass>>, p.at \in RoSteps \cup {"releaseRead", "releaseCommit"},
                \/ Return(r)
                \/ p.at = "roRead" /\ Goto(r, "roWrite")
                \/ Goto(r, "releaseRead")
                \/ \E a \in Allocations :
                     req' = [req EXCEPT ![r] = [@ EXCEPT !.at = "releaseCommit", !.alloc = a]]
         PROVE  \E q : /\ Becomes(r, q)
                       /\ \/ Return(r) /\ Returned(p, q)
                          \/ /\ Kept(p, q) /\ q.target = p.target
                             /\ \/ p.at = "roRead" /\ q.at = "roWrite" /\ Goto(r, "roWrite")
                                \/ q.at \in {"releaseRead", "releaseCommit"}
    <2>1. CASE Return(r)
      BY <1>0, <2>1, ReturnMoves
    <2>2. CASE p.at = "roRead" /\ Goto(r, "roWrite")
      <3>1. "roWrite" \in Steps
        BY DEF Steps
      <3> QED
        BY <1>2, <2>2, <3>1
    <2>3. CASE Goto(r, "releaseRead")
      <3>1. "releaseRead" \in Steps
        BY DEF Steps
      <3> QED
        BY <1>2, <2>3, <3>1
    <2>4. ASSUME NEW a \in Allocations,
                 req' = [req EXCEPT ![r] = [@ EXCEPT !.at = "releaseCommit", !.alloc = a]]
          PROVE  \E q : Becomes(r, q) /\ Kept(p, q) /\ q.target = p.target /\ q.at = "releaseCommit"
      <3> DEFINE q == [p EXCEPT !.at = "releaseCommit", !.alloc = a]
      <3>1. p \in Request
        BY <1>0 DEF TypeOK
      <3>2. q \in Request /\ Kept(p, q) /\ q.target = p.target /\ q.at = "releaseCommit"
        BY <3>1 DEF Request, Kept, Steps
      <3>3. req' = [req EXCEPT ![r] = q]
        BY <2>4
      <3> QED
        BY <3>2, <3>3 DEF Becomes
    <2> QED
      BY <1>26, <2>1, <2>2, <2>3, <2>4
  <1>27. CASE RoRead(r)
    <2>1. /\ p.at = "roRead" /\ ro' = ro /\ UNCHANGED <<visit, card, gatePass>>
          /\ (Return(r) /\ ro[p.checkIn] = p.target) \/ Goto(r, "roWrite")
      BY <1>27 DEF RoRead
    <2>2. CASE Return(r) /\ ro[p.checkIn] = p.target
      <3>1. \E q : Becomes(r, q) /\ Returned(p, q)
        BY <1>0, <2>2, ReturnMoves
      <3> QED
        BY <2>1, <2>2, <3>1, SettingStep DEF RoSteps
    <2>3. CASE Goto(r, "roWrite")
      <3>1. \E q : Becomes(r, q) /\ Kept(p, q) /\ q.at = "roWrite" /\ q.target = p.target
        <4>1. "roWrite" \in Steps
          BY DEF Steps
        <4> QED
          BY <1>2, <2>3, <4>1
      <3> QED
        BY <2>1, <3>1, SettingStep DEF RoSteps
    <2> QED
      BY <2>1, <2>2, <2>3
  <1>28. CASE RoWrite(r)
    <2>1. /\ p.at = "roWrite" /\ ro' = [ro EXCEPT ![p.checkIn] = p.target]
          /\ UNCHANGED <<visit, card, gatePass>>
          /\ Return(r) \/ Goto(r, "releaseRead")
      BY <1>28 DEF RoWrite
    <2>2. PICK q : /\ Becomes(r, q)
                   /\ \/ Returned(p, q)
                      \/ Kept(p, q) /\ q.target = p.target /\ q.at \in {"releaseRead", "releaseCommit"}
      BY <1>26, <2>1 DEF RoSteps
    <2> QED
      BY <2>1, <2>2, SettingStep DEF RoSteps
  <1>29. CASE ReleaseRead(r)
    <2>1. /\ p.at = "releaseRead" /\ ro' = ro /\ UNCHANGED <<visit, card, gatePass>>
          /\ \/ Return(r)
             \/ \E a \in Allocations :
                  req' = [req EXCEPT ![r] = [@ EXCEPT !.at = "releaseCommit", !.alloc = a]]
      BY <1>29 DEF ReleaseRead, OpenOf
    <2>2. PICK q : /\ Becomes(r, q)
                   /\ \/ Returned(p, q)
                      \/ Kept(p, q) /\ q.target = p.target /\ q.at \in {"releaseRead", "releaseCommit"}
      BY <1>26, <2>1
    <2> QED
      BY <2>1, <2>2, SettingStep
  <1>30. CASE ReleaseCommit(r)
    <2>1. /\ p.at = "releaseCommit" /\ ro' = ro /\ UNCHANGED <<visit, card, gatePass>> /\ Return(r)
      BY <1>30 DEF ReleaseCommit
    <2>2. PICK q : Becomes(r, q) /\ Returned(p, q)
      BY <1>0, <2>1, ReturnMoves
    <2> QED
      BY <2>1, <2>2, SettingStep
  <1>31. CASE Redeem(r)
    <2>1. /\ p.at = "redeemWrite" /\ SetRoNext(r, "RELEASED") /\ UNCHANGED <<visit, ro, card>>
          /\ gatePass' = [gatePass EXCEPT ![p.jobCard] = "REDEEMED"]
      BY <1>31 DEF Redeem
    <2>2. PICK q : Becomes(r, q) /\ Kept(p, q) /\ q.at = "roRead" /\ q.target = "RELEASED"
      <3>1. "RELEASED" \in RoStatus
        BY DEF RoStatus, ReachedStatuses
      <3> QED
        BY <1>0, <2>1, <3>1, SetRoMoves
    <2>3. p.op = "redeem" /\ p.jobCard \in JobCards /\ p.checkIn = CheckInOf[p.jobCard]
      BY <1>0, <2>1 DEF Ordered
    <2>4. Ordered(q) /\ \A s : ~Chases(p, s)
      BY <1>0, <2>1, <2>2, <2>3, StatusesDiffer DEF Ordered, Chases, Kept, RoSteps, ReachedStatuses
    <2>5. /\ p.checkIn \in CheckIns /\ visit[p.checkIn] # "absent"
          /\ \A j \in JobCards : visit[CheckInOf[j]] = "absent" => gatePass'[j] = gatePass[j]
          /\ \A j \in JobCards : gatePass'[j] = "REDEEMED" => gatePass[j] = "REDEEMED" \/ j = p.jobCard
      <3>1. p.checkIn \in CheckIns /\ visit[p.checkIn] # "absent"
        BY <2>3, ConstantsAssumption DEF ChainInv, StillToCome
      <3> QED
        BY <1>0, <2>1, <2>3, <3>1 DEF TypeOK
    <2> QED
      BY <2>1, <2>2, <2>3, <2>4, <2>5, ChainStep DEF Kept
  <1>32. CASE CloseVisit(r)
    <2>1. /\ visit' = [visit EXCEPT ![p.checkIn] = "completed"] /\ Finish(r)
          /\ UNCHANGED <<ro, card, gatePass>>
      BY <1>32 DEF CloseVisit
    <2>2. Becomes(r, Idle)
      BY <1>1, <2>1
    <2>3. \A c \in CheckIns : visit'[c] = (IF c = p.checkIn THEN "completed" ELSE visit[c])
      BY <1>0, <2>1 DEF TypeOK
    <2>4. Idle.op # "redeem" /\ Idle.checkIn \notin CheckIns /\ Ordered(Idle)
      BY IdleOrdered DEF Idle
    <2> HIDE DEF Idle
    <2> QED
      BY <2>1, <2>2, <2>3, <2>4, ChainStep
  <1> QED
    BY <1>10, <1>11, <1>12, <1>13, <1>14, <1>15, <1>16, <1>17, <1>18, <1>19, <1>20, <1>21, <1>22,
       <1>23, <1>24, <1>25, <1>27, <1>28, <1>29, <1>30, <1>31, <1>32 DEF Proceed

\* Every step keeps it, when no request fails.
LEMMA ChainNext ==
  ASSUME NothingFails, ChainInv, [Next]_vars
  PROVE  ChainInv'
  <1>0. TypeOK'
    BY StepType DEF ChainInv
  <1>1. ASSUME NEW r \in Requests PROVE ~Fail(r) /\ ~ReleaseSwallowed(r)
    BY DEF Fail, ReleaseSwallowed, ChainInv, TypeOK, NothingFails
  <1>2. ASSUME UNCHANGED <<visit, ro, req>>,
               \A j \in JobCards : visit[CheckInOf[j]] = "absent" =>
                                     card'[j] = card[j] /\ gatePass'[j] = gatePass[j],
               \A j \in JobCards : gatePass'[j] = "REDEEMED" => gatePass[j] = "REDEEMED"
        PROVE  ChainInv'
    <2>1. StillToCome'
      BY <1>2 DEF ChainInv, StillToCome, CardsOf
    <2>2. RedeemedIsClosing'
      BY <1>2 DEF ChainInv, RedeemedIsClosing
    <2>3. ReachedOnly' /\ TransientIsChased' /\ \A r \in Requests : Ordered(req'[r])
      BY <1>2 DEF ChainInv, ReachedOnly, TransientIsChased
    <2> QED
      BY <1>0, <2>1, <2>2, <2>3 DEF ChainInv
  <1>3. ASSUME NEW b \in Bays, CreateBay(b) \/ UpdateBay(b) PROVE ChainInv'
    BY <1>2, <1>3 DEF CreateBay, UpdateBay
  <1>4. ASSUME NEW j \in JobCards, ApproveJobCard(j) PROVE ChainInv'
    <2>1. \A i \in JobCards : visit[CheckInOf[i]] = "absent" => card'[i] = card[i]
      BY <1>4 DEF ApproveJobCard, ChainInv, TypeOK
    <2> QED
      BY <1>2, <1>4, <2>1 DEF ApproveJobCard
  <1>5. ASSUME NEW j \in JobCards, MintGatePass(j) PROVE ChainInv'
    <2>1. visit[CheckInOf[j]] # "absent"
      BY <1>5, ConstantsAssumption DEF MintGatePass, ChainInv, StillToCome, CardsOf
    <2>2. /\ gatePass'[j] = "ACTIVE"
          /\ \A i \in JobCards : i # j => gatePass'[i] = gatePass[i]
      BY <1>5 DEF MintGatePass, ChainInv, TypeOK
    <2> QED
      BY <1>2, <1>5, <2>1, <2>2 DEF MintGatePass
  <1>6. CASE UNCHANGED vars
    BY <1>2, <1>6 DEF vars
  <1> QED
    BY <1>0, <1>1, <1>3, <1>4, <1>5, <1>6, CallChain, ProceedChain DEF Next

\* It holds at the start.
LEMMA ChainInit ==
  ASSUME Init
  PROVE  ChainInv
  BY InitType, IdleOrdered, ConstantsAssumption
  DEF Init, ChainInv, StillToCome, CardsOf, ReachedOnly, TransientIsChased, RedeemedIsClosing

(* No vehicle is lost: when requests run to their end, a visit still in the workshop
   nobody works on is listed by some dashboard, for any number of requests that
   overlap and set its status in any order. *)
THEOREM VisitsAreListed ==
  ASSUME NothingFails
  PROVE  Spec => []ActiveVisitIsQueued
  <1>1. ChainInv => ActiveVisitIsQueued
    <2> SUFFICES ASSUME ChainInv, NEW c \in CheckIns, visit[c] = "active", Quiet(c)
                 PROVE  InSomeQueue(c)
      BY DEF ActiveVisitIsQueued
    <2>1. ro[c] \notin Transient
      BY DEF ChainInv, TransientIsChased, Quiet
    <2>2. ro[c] \in {"ARRIVED", "IN_WORKSHOP", "QC_OUT", "QC_FAILED", "WASHBAY", "READY_FOR_RELEASE"}
      BY <2>1 DEF ChainInv, ReachedOnly, Transient, ReachedStatuses
    <2> QED
      BY <2>2 DEF InSomeQueue, ForemanQueue, QcOutQueue, WashbayQueue, BillingQueue
  <1> QED
    BY <1>1, ChainInit, ChainNext, PTL DEF Spec

(* A redeemed gate pass is never left without the end of its visit: the vehicle is
   out, or the request that redeemed the pass is still closing the visit. *)
THEOREM RedeemedVisitsClose ==
  ASSUME NothingFails
  PROVE  Spec => []RedeemedIsClosing
  <1>1. ChainInv => RedeemedIsClosing
    BY DEF ChainInv
  <1> QED
    BY <1>1, ChainInit, ChainNext, PTL DEF Spec

(***************************************************************************)
(* Requests one at a time.  What the request in flight has read of a card, *)
(* an inspection or a bay is still so when it writes.                      *)
(***************************************************************************)

LoneRequest == \A r, s \in Requests : r = s

-----------------------------------------------------------------------------
(* Cards.                                                                  *)

CardSteps == {"startBay", "startWrite", "finishWrite", "finishCheck", "signOff", "reject"}

\* What request q has read of its card.
CardIsKnown(q) ==
  /\ q.at \in CardSteps => q.jobCard \in JobCards
  /\ q.at \in {"startBay", "startWrite"} => card[q.jobCard].status = "APPROVED"
  /\ q.at = "finishWrite" => card[q.jobCard].status # "none"
  /\ q.at = "signOff" => card[q.jobCard].status = "FOREMAN_REVIEW"

UnapprovedIsOpen == \A j \in JobCards : card[j].status = "none" => card[j].unfinished

CardInv ==
  /\ TypeOK
  /\ CardStatusTellsWork
  /\ UnapprovedIsOpen
  /\ \A r \in Requests : CardIsKnown(req[r])

\* A step that has nothing to do with cards.
LEMMA CardsAlone ==
  ASSUME CardInv, TypeOK', card' = card,
         \A s \in Requests : req'[s] = req[s] \/ req'[s].at \notin CardSteps
  PROVE  CardInv'
  <1>1. CardStatusTellsWork' /\ UnapprovedIsOpen'
    BY DEF CardInv, CardStatusTellsWork, UnapprovedIsOpen
  <1>2. (\A s \in Requests : CardIsKnown(req[s]))'
    BY DEF CardInv, CardIsKnown, CardSteps
  <1> QED
    BY <1>1, <1>2 DEF CardInv

\* The steps that leave the cards alone.
LEMMA NotOfCards ==
  ASSUME TypeOK, NEW r \in Requests,
         \/ DeleteBay(r) \/ RoRead(r) \/ RoWrite(r) \/ ReleaseRead(r) \/ ReleaseCommit(r)
         \/ AllocateReadOpen(r) \/ AllocateReadBay(r) \/ AllocateConflict(r) \/ SyncBay(r)
         \/ ReallocateReadBay(r) \/ ReallocateConflict(r) \/ ReallocateCommit(r)
         \/ Inspect(r) \/ Redeem(r) \/ CloseVisit(r) \/ Fail(r) \/ ReleaseSwallowed(r)
         \/ CompleteCheck(r)
  PROVE  /\ card' = card
         /\ \A s \in Requests : req'[s] = req[s] \/ req'[s].at \notin CardSteps
  <1>1. /\ {"IN_WORKSHOP", "QC_OUT", "QC_PASSED", "QC_FAILED", "RELEASED"} \subseteq RoStatus
        /\ {"allocBay", "allocCommit", "reallocCommit", "syncBay", "roWrite", "releaseRead"} \subseteq Steps
        /\ \A step \in {"idle", "roRead", "roWrite", "releaseRead", "releaseCommit", "closeVisit", "syncBay",
                        "allocBay", "allocCommit", "reallocCommit"} : step \notin CardSteps
    BY DEF RoStatus, ReachedStatuses, Steps, CardSteps
  <1> DEFINE Out == \A s \in Requests : req'[s] = req[s] \/ req'[s].at \notin CardSteps
  <1>2. /\ \A step \in {"allocBay", "allocCommit", "reallocCommit", "syncBay", "roWrite", "releaseRead"} :
             Goto(r, step) => Out
        /\ \A t \in RoStatus : SetRoNext(r, t) => Out
        /\ Finish(r) => Out
        /\ Return(r) => Out
    <2>1. ASSUME Return(r) PROVE Out
      <3>1. Returned(req[r], req'[r]) /\ \A s \in Requests : s # r => req'[s] = req[s]
        BY <2>1, MovedTo
      <3> QED
        BY <1>1, <3>1 DEF Returned, Idle
    <2>2. ASSUME Finish(r) PROVE Out
      <3>1. Idle.at = "idle"
        BY DEF Idle
      <3> QED
        BY <1>1, <2>2, <3>1, FinishMoves DEF Becomes, TypeOK
    <2>3. ASSUME NEW t \in RoStatus, SetRoNext(r, t) PROVE Out
      BY ZenonT(40), <1>1, <2>3, MovedTo
    <2>4. ASSUME NEW step \in {"allocBay", "allocCommit", "reallocCommit", "syncBay", "roWrite", "releaseRead"},
                 Goto(r, step)
          PROVE  Out
      <3>1. req'[r].at = step /\ \A s \in Requests : s # r => req'[s] = req[s]
        BY <1>1, <2>4, MovedTo
      <3> QED
        BY <1>1, <3>1
    <2> QED
      BY <2>1, <2>2, <2>3, <2>4
  <1>3. \A a \in Allocations :
          req' = [req EXCEPT ![r] = [@ EXCEPT !.at = "releaseCommit", !.alloc = a]] => Out
    BY ZenonT(40), <1>1, MovedTo
  <1> HIDE DEF Out
  <1>4. card' = card
    BY DEF DeleteBay, RoRead, RoWrite, ReleaseRead, ReleaseCommit, AllocateReadOpen, AllocateReadBay,
           AllocateConflict, SyncBay, ReallocateReadBay, ReallocateConflict, ReallocateCommit, Inspect,
           Redeem, CloseVisit, Fail, ReleaseSwallowed, CompleteCheck
  <1>5. Out
    BY <1>1, <1>2, <1>3
    DEF DeleteBay, RoRead, RoWrite, ReleaseRead, ReleaseCommit, AllocateReadOpen, AllocateReadBay,
        AllocateConflict, SyncBay, ReallocateReadBay, ReallocateConflict, ReallocateCommit, Inspect,
        Redeem, CloseVisit, Fail, ReleaseSwallowed, CompleteCheck, OpenOf
  <1> QED
    BY <1>4, <1>5 DEF Out

\* A client's call: what it reads of a card is so.
LEMMA CardsCall ==
  ASSUME LoneRequest, CardInv, TypeOK', NEW r \in Requests, Call(r)
  PROVE  CardInv'
  <1>1. card' = card /\ Called(req'[r])
    BY CallBegins DEF CardInv
  <1>2. CardIsKnown(req'[r])
    BY <1>1 DEF Called, CardIsKnown, CardSteps
  <1>3. \A s \in Requests : s = r
    BY DEF LoneRequest
  <1>4. (\A s \in Requests : CardIsKnown(req[s]))'
    BY <1>1, <1>2, <1>3 DEF CardIsKnown
  <1>5. CardStatusTellsWork' /\ UnapprovedIsOpen'
    BY <1>1 DEF CardInv, CardStatusTellsWork, UnapprovedIsOpen
  <1> QED
    BY <1>4, <1>5 DEF CardInv

\* The request in flight writes a card, or goes on to the next read of one.
LEMMA CardsProceed ==
  ASSUME LoneRequest, CardInv, TypeOK', NEW r \in Requests,
         AllocateCommit(r) \/ StartReadBay(r) \/ StartWork(r) \/ CompleteCommit(r) \/ SignOff(r) \/ Reject(r)
  PROVE  CardInv'
  <1> DEFINE p == req[r]
             j == p.jobCard
             q == req'[r]
  <1>0. TypeOK /\ CardIsKnown(p) /\ CardStatusTellsWork /\ UnapprovedIsOpen
    BY DEF CardInv
  <1>1. \A s \in Requests : s = r
    BY DEF LoneRequest
  <1>2. ASSUME q.at \notin CardSteps \/ (q.at = "finishCheck" /\ q.jobCard \in JobCards), NEW row,
               j \in JobCards, card' = [card EXCEPT ![j] = row],
               row.status # "none", row.unfinished <=> row.status \in {"APPROVED", "IN_PROGRESS"}
        PROVE  CardInv'
    <2>1. \A i \in JobCards : card'[i] = (IF i = j THEN row ELSE card[i])
      BY <1>0, <1>2 DEF TypeOK
    <2>2. CardStatusTellsWork' /\ UnapprovedIsOpen'
      <3> SUFFICES ASSUME NEW i \in JobCards
                   PROVE  /\ card'[i].status # "none" =>
                               (card'[i].unfinished <=> card'[i].status \in {"APPROVED", "IN_PROGRESS"})
                          /\ card'[i].status = "none" => card'[i].unfinished
        BY DEF CardStatusTellsWork, UnapprovedIsOpen
      <3>1. CASE i = j
        <4>1. card'[i] = row
          BY <2>1, <3>1
        <4> QED
          BY <1>2, <4>1
      <3>2. CASE i # j
        <4>1. card'[i] = card[i]
          BY <2>1, <3>2
        <4> QED
          BY <1>0, <4>1 DEF CardStatusTellsWork, UnapprovedIsOpen
      <3> QED
        BY <3>1, <3>2
    <2>3. (\A s \in Requests : CardIsKnown(req[s]))'
      BY <1>1, <1>2 DEF CardIsKnown, CardSteps
    <2> QED
      BY <2>2, <2>3 DEF CardInv
  <1>3. CASE AllocateCommit(r)
    <2>1. PICK touched \in SUBSET {i \in CardsOf(p.checkIn) : card[i].status # "none"} :
            card' = [i \in JobCards |->
                       IF i \in touched THEN [status |-> "IN_PROGRESS", unfinished |-> TRUE] ELSE card[i]]
      BY <1>3 DEF AllocateCommit
    <2>2. CardStatusTellsWork' /\ UnapprovedIsOpen'
      <3> SUFFICES ASSUME NEW i \in JobCards
                   PROVE  /\ card'[i].status # "none" =>
                               (card'[i].unfinished <=> card'[i].status \in {"APPROVED", "IN_PROGRESS"})
                          /\ card'[i].status = "none" => card'[i].unfinished
        BY DEF CardStatusTellsWork, UnapprovedIsOpen
      <3>1. CASE i \in touched
        <4>1. card'[i] = [status |-> "IN_PROGRESS", unfinished |-> TRUE]
          BY <2>1, <3>1
        <4> QED
          BY <4>1
      <3>2. CASE i \notin touched
        <4>1. card'[i] = card[i]
          BY <2>1, <3>2
        <4> QED
          BY <1>0, <4>1 DEF CardStatusTellsWork, UnapprovedIsOpen
      <3> QED
        BY <3>1, <3>2
    <2>3. q.at = "roRead"
      <3>1. SetRoNext(r, "IN_WORKSHOP") /\ "IN_WORKSHOP" \in RoStatus
        BY <1>3 DEF AllocateCommit, RoStatus, ReachedStatuses
      <3> QED
        BY <1>0, <3>1, MovedTo
    <2>4. (\A s \in Requests : CardIsKnown(req[s]))'
      BY <1>1, <2>3 DEF CardIsKnown, CardSteps
    <2> QED
      BY <2>2, <2>4 DEF CardInv
  <1>4. ASSUME Finish(r)
        PROVE  q.at = "idle" /\ "idle" \notin CardSteps
    <2>1. q = Idle
      BY <1>0, <1>4, MovedTo
    <2> QED
      BY <2>1 DEF Idle, CardSteps
  <1>5. CASE StartReadBay(r)
    <2>1. p.at = "startBay" /\ card' = card /\ (Finish(r) \/ Goto(r, "startWrite"))
      BY <1>5 DEF StartReadBay
    <2>2. CASE Finish(r)
      BY <1>1, <1>4, <2>1, <2>2, CardsAlone
    <2>3. CASE Goto(r, "startWrite")
      <3>1. q.at = "startWrite" /\ q.jobCard = j
        <4>1. "startWrite" \in Steps
          BY DEF Steps
        <4>2. q.at = "startWrite" /\ Kept(p, q)
          BY <1>0, <2>3, <4>1, MovedTo
        <4> QED
          BY <4>2 DEF Kept
      <3>2. (\A s \in Requests : CardIsKnown(req[s]))'
        BY <1>0, <1>1, <2>1, <3>1 DEF CardIsKnown, CardSteps
      <3>3. CardStatusTellsWork' /\ UnapprovedIsOpen'
        BY <1>0, <2>1 DEF CardStatusTellsWork, UnapprovedIsOpen
      <3> QED
        BY <3>2, <3>3 DEF CardInv
    <2> QED
      BY <2>1, <2>2, <2>3
  <1>6. CASE StartWork(r)
    <2>1. /\ p.at = "startWrite" /\ Finish(r)
          /\ card' = [card EXCEPT ![j] = [card[j] EXCEPT !.status = "IN_PROGRESS"]]
      BY <1>6 DEF StartWork
    <2>2. j \in JobCards /\ card[j].status = "APPROVED" /\ card[j] \in CardRow
      BY <1>0, <2>1 DEF CardIsKnown, CardSteps, TypeOK
    <2> DEFINE row == [card[j] EXCEPT !.status = "IN_PROGRESS"]
    <2>3. row.status = "IN_PROGRESS" /\ row.unfinished
      BY <1>0, <2>2 DEF CardRow, CardStatusTellsWork
    <2> QED
      BY <1>2, <1>4, <2>1, <2>2, <2>3
  <1>7. CASE CompleteCommit(r)
    <2>1. /\ p.at = "finishWrite" /\ Goto(r, "finishCheck")
          /\ card' = [card EXCEPT ![j] = [status |-> "FOREMAN_REVIEW", unfinished |-> FALSE]]
      BY <1>7 DEF CompleteCommit
    <2>2. j \in JobCards
      BY <1>0, <2>1 DEF CardIsKnown, CardSteps
    <2>3. q.at = "finishCheck" /\ q.jobCard = j
      <3>1. "finishCheck" \in Steps
        BY DEF Steps
      <3>2. q.at = "finishCheck" /\ Kept(p, q)
        BY <1>0, <2>1, <3>1, MovedTo
      <3> QED
        BY <3>2 DEF Kept
    <2> DEFINE row == [status |-> "FOREMAN_REVIEW", unfinished |-> FALSE]
    <2>4. row.status = "FOREMAN_REVIEW" /\ row.unfinished = FALSE /\ card' = [card EXCEPT ![j] = row]
      BY <2>1
    <2> HIDE DEF row
    <2> QED
      BY <1>2, <2>2, <2>3, <2>4
  <1>8. CASE SignOff(r)
    <2>1. /\ p.at = "signOff" /\ SetRoNext(r, "QC_OUT")
          /\ card' = [card EXCEPT ![j] = [card[j] EXCEPT !.status = "COMPLETED"]]
      BY <1>8 DEF SignOff
    <2>2. j \in JobCards /\ card[j].status = "FOREMAN_REVIEW" /\ card[j] \in CardRow
      BY <1>0, <2>1 DEF CardIsKnown, CardSteps, TypeOK
    <2> DEFINE row == [card[j] EXCEPT !.status = "COMPLETED"]
    <2>3. row.status = "COMPLETED" /\ ~row.unfinished
      BY <1>0, <2>2 DEF CardRow, CardStatusTellsWork
    <2>4. q.at = "roRead" /\ "roRead" \notin CardSteps
      <3>1. "QC_OUT" \in RoStatus /\ "roRead" \notin CardSteps
        BY DEF RoStatus, ReachedStatuses, CardSteps
      <3> QED
        BY <1>0, <2>1, <3>1, MovedTo
    <2> QED
      BY <1>2, <2>1, <2>2, <2>3, <2>4
  <1>9. CASE Reject(r)
    <2>1. /\ p.at = "reject" /\ Finish(r)
          /\ card' = [card EXCEPT ![j] = [status |-> "IN_PROGRESS", unfinished |-> TRUE]]
      BY <1>9 DEF Reject
    <2>2. j \in JobCards
      BY <1>0, <2>1 DEF CardIsKnown, CardSteps
    <2> DEFINE row == [status |-> "IN_PROGRESS", unfinished |-> TRUE]
    <2>3. row.status = "IN_PROGRESS" /\ row.unfinished = TRUE /\ card' = [card EXCEPT ![j] = row]
      BY <2>1
    <2> HIDE DEF row
    <2> QED
      BY <1>2, <1>4, <2>1, <2>2, <2>3
  <1> QED
    BY <1>3, <1>5, <1>6, <1>7, <1>8, <1>9

(* A card is in the technician's hands exactly while work on it is unfinished, with
   requests one at a time, wherever they stop. *)
THEOREM CardsTellWork ==
  ASSUME LoneRequest
  PROVE  Spec => []CardStatusTellsWork
  <1>1. Init => CardInv
    <2> SUFFICES ASSUME Init PROVE CardInv
      OBVIOUS
    <2>1. Idle.at \notin CardSteps
      BY DEF Idle, CardSteps
    <2>2. \A r \in Requests : CardIsKnown(req[r])
      BY <2>1 DEF Init, CardIsKnown, CardSteps
    <2> QED
      BY <2>2, InitType DEF Init, CardInv, CardStatusTellsWork, UnapprovedIsOpen
  <1>2. CardInv /\ [Next]_vars => CardInv'
    <2> SUFFICES ASSUME CardInv, [Next]_vars PROVE CardInv'
      OBVIOUS
    <2>0. TypeOK /\ TypeOK'
      BY StepType DEF CardInv
    <2>1. ASSUME NEW r \in Requests, Call(r) PROVE CardInv'
      BY <2>0, <2>1, CardsCall
    <2>2. ASSUME NEW r \in Requests, Proceed(r) PROVE CardInv'
      BY <2>0, <2>2, CardsProceed, CardsAlone, NotOfCards DEF Proceed
    <2>3. ASSUME NEW r \in Requests, Fail(r) \/ ReleaseSwallowed(r) PROVE CardInv'
      BY <2>0, <2>3, CardsAlone, NotOfCards
    <2>4. ASSUME NEW b \in Bays, CreateBay(b) \/ UpdateBay(b) PROVE CardInv'
      BY <2>0, <2>4, CardsAlone DEF CreateBay, UpdateBay
    <2>5. ASSUME NEW j \in JobCards, MintGatePass(j) PROVE CardInv'
      BY <2>0, <2>5, CardsAlone DEF MintGatePass
    <2>6. ASSUME NEW j \in JobCards, ApproveJobCard(j) PROVE CardInv'
      <3>1. /\ card[j].status = "none" /\ card[j].unfinished /\ req' = req
            /\ card' = [card EXCEPT ![j] = [card[j] EXCEPT !.status = "APPROVED"]]
        BY <2>6 DEF ApproveJobCard, CardInv, UnapprovedIsOpen
      <3> DEFINE row == [card[j] EXCEPT !.status = "APPROVED"]
      <3>2. row.status = "APPROVED" /\ row.unfinished
        BY <2>0, <3>1 DEF TypeOK, CardRow
      <3>3. card'[j] = row /\ \A i \in JobCards : i # j => card'[i] = card[i]
        BY <2>0, <3>1 DEF TypeOK
      <3> HIDE DEF row
      <3>4. CardStatusTellsWork' /\ UnapprovedIsOpen'
        <4> SUFFICES ASSUME NEW i \in JobCards
                     PROVE  /\ card'[i].status # "none" =>
                                 (card'[i].unfinished <=> card'[i].status \in {"APPROVED", "IN_PROGRESS"})
                            /\ card'[i].status = "none" => card'[i].unfinished
          BY DEF CardStatusTellsWork, UnapprovedIsOpen
        <4>1. CASE i = j
          BY <3>2, <3>3, <4>1
        <4>2. CASE i # j
          BY <3>3, <4>2 DEF CardInv, CardStatusTellsWork, UnapprovedIsOpen
        <4> QED
          BY <4>1, <4>2
      <3>5. (\A s \in Requests : CardIsKnown(req[s]))'
        BY <3>1, <3>2, <3>3 DEF CardInv, CardIsKnown, CardSteps
      <3> QED
        BY <2>0, <3>4, <3>5 DEF CardInv
    <2>7. CASE UNCHANGED vars
      BY <2>0, <2>7, CardsAlone DEF vars
    <2> QED
      BY <2>1, <2>2, <2>3, <2>4, <2>5, <2>6, <2>7 DEF Next
  <1>3. CardInv => CardStatusTellsWork
    BY DEF CardInv
  <1> QED
    BY <1>1, <1>2, <1>3, PTL DEF Spec

-----------------------------------------------------------------------------
(* Inspections.                                                            *)

\* What request q knows of the inspection of its visit.
InspectionIsKnown(q) ==
  /\ q.target \in {"QC_PASSED", "WASHBAY", "READY_FOR_RELEASE"} => inspection[q.checkIn] = "PASS"
  /\ q.target = "QC_FAILED" => inspection[q.checkIn] = "FAIL"
  /\ q.at = "inspect" => q.checkIn \in CheckIns /\ ro[q.checkIn] = "QC_OUT"

InspectionInv ==
  /\ TypeOK
  /\ StatusFollowsInspection
  /\ \A r \in Requests : InspectionIsKnown(req[r])

\* Where a request p that does not inspect goes on.
GoesOn(p, q) ==
  /\ q.at # "inspect"
  /\ \/ q = Idle
     \/ Kept(p, q) /\ \/ q.target = p.target
                      \/ p.target = "QC_PASSED" /\ q.target = "WASHBAY"
                      \/ q.target \in {"IN_WORKSHOP", "QC_OUT", "RELEASED", "CLOSED"}

\* The steps of a request in flight, but for the inspection itself.
LEMMA NotInspecting ==
  ASSUME TypeOK, NEW r \in Requests, (Proceed(r) /\ ~Inspect(r)) \/ Fail(r) \/ ReleaseSwallowed(r)
  PROVE  /\ inspection' = inspection
         /\ GoesOn(req[r], req'[r])
         /\ \/ ro' = ro
            \/ req[r].at = "roWrite" /\ ro' = [ro EXCEPT ![req[r].checkIn] = req[r].target]
  <1> DEFINE Out == GoesOn(req[r], req'[r])
  <1>1. /\ {"IN_WORKSHOP", "QC_OUT", "RELEASED"} \subseteq RoStatus
        /\ {"allocBay", "allocCommit", "reallocCommit", "syncBay", "roWrite", "releaseRead",
            "startWrite", "finishCheck", "closeVisit"} \subseteq Steps \ {"inspect"}
    BY DEF RoStatus, ReachedStatuses, Steps
  <1>2. ASSUME Return(r) PROVE Out
    <2>1. Returned(req[r], req'[r])
      BY <1>2, MovedTo
    <2>2. Idle.at # "inspect"
      BY DEF Idle
    <2> QED
      BY <2>1, <2>2 DEF Returned, GoesOn
  <1>3. ASSUME Finish(r) PROVE Out
    <2>1. req'[r] = Idle
      BY <1>3, MovedTo
    <2>2. Idle.at # "inspect"
      BY DEF Idle
    <2> QED
      BY <2>1, <2>2 DEF GoesOn
  <1>4. ASSUME NEW t \in {"IN_WORKSHOP", "QC_OUT", "RELEASED"}, SetRoNext(r, t) PROVE Out
    <2>1. req'[r].at = "roRead" /\ req'[r].target = t /\ Kept(req[r], req'[r])
      BY <1>1, <1>4, MovedTo
    <2> QED
      BY <2>1 DEF GoesOn
  <1>5. ASSUME NEW step \in Steps \ {"inspect"}, Goto(r, step) PROVE Out
    <2>1. req'[r].at = step /\ req'[r].target = req[r].target /\ Kept(req[r], req'[r])
      BY <1>5, MovedTo
    <2> QED
      BY <2>1 DEF GoesOn
  <1>6. ASSUME NEW a \in Allocations,
               req' = [req EXCEPT ![r] = [@ EXCEPT !.at = "releaseCommit", !.alloc = a]]
        PROVE  Out
    <2>1. /\ req'[r].at = "releaseCommit" /\ req'[r].target = req[r].target
          /\ Kept(req[r], req'[r])
      BY <1>6, MovedTo
    <2> QED
      BY <2>1 DEF GoesOn
  <1> HIDE DEF Out
  <1>7. CASE RoRead(r) \/ RoWrite(r) \/ ReleaseRead(r) \/ ReleaseCommit(r) \/ ReleaseSwallowed(r)
    BY <1>1, <1>2, <1>5, <1>6, <1>7
    DEF RoRead, RoWrite, ReleaseRead, ReleaseCommit, ReleaseSwallowed, OpenOf, Out
  <1>8. CASE \/ DeleteBay(r) \/ AllocateReadOpen(r) \/ AllocateReadBay(r) \/ AllocateConflict(r)
             \/ AllocateCommit(r) \/ SyncBay(r) \/ ReallocateReadBay(r) \/ ReallocateConflict(r)
             \/ ReallocateCommit(r)
    BY <1>1, <1>3, <1>4, <1>5, <1>8
    DEF DeleteBay, AllocateReadOpen, AllocateReadBay, AllocateConflict, AllocateCommit, SyncBay,
        ReallocateReadBay, ReallocateConflict, ReallocateCommit, Out
  <1>9. CASE \/ StartReadBay(r) \/ StartWork(r) \/ CompleteCommit(r) \/ CompleteCheck(r) \/ SignOff(r)
             \/ Reject(r) \/ Redeem(r) \/ CloseVisit(r) \/ Fail(r)
    BY <1>1, <1>3, <1>4, <1>5, <1>9
    DEF StartReadBay, StartWork, CompleteCommit, CompleteCheck, SignOff, Reject, Redeem, CloseVisit,
        Fail, Out
  <1> QED
    BY <1>7, <1>8, <1>9 DEF Proceed

(* Only a visit whose latest inspection passed is washed or ready, and only one whose
   latest inspection failed is up for rework, with requests one at a time, wherever
   they stop. *)
THEOREM StatusIsInspected ==
  ASSUME LoneRequest
  PROVE  Spec => []StatusFollowsInspection
  <1>0. /\ NoStatus \notin {"QC_PASSED", "WASHBAY", "READY_FOR_RELEASE", "QC_FAILED", "QC_OUT"}
        /\ Idle.target = NoStatus /\ Idle.at = "idle"
    BY StatusesDiffer DEF Idle
  <1>1. Init => InspectionInv
    BY <1>0, InitType DEF Init, InspectionInv, StatusFollowsInspection, InspectionIsKnown
  <1>2. InspectionInv /\ [Next]_vars => InspectionInv'
    <2> SUFFICES ASSUME InspectionInv, [Next]_vars PROVE InspectionInv'
      OBVIOUS
    <2>0. TypeOK /\ TypeOK'
      BY StepType DEF InspectionInv
    <2>1. ASSUME UNCHANGED <<ro, inspection, req>> PROVE InspectionInv'
      <3>1. StatusFollowsInspection' /\ (\A r \in Requests : InspectionIsKnown(req[r]))'
        BY <2>1 DEF InspectionInv, StatusFollowsInspection, InspectionIsKnown
      <3> QED
        BY <2>0, <3>1 DEF InspectionInv
    <2>2. ASSUME NEW r \in Requests, StatusFollowsInspection', InspectionIsKnown(req[r])'
          PROVE  InspectionInv'
      BY <2>0, <2>2 DEF InspectionInv, LoneRequest
    <2>3. ASSUME NEW r \in Requests, Call(r) PROVE InspectionInv'
      <3>1. UNCHANGED <<ro, inspection>> /\ Called(req'[r])
        BY <2>0, <2>3, CallBegins
      <3>2. InspectionIsKnown(req[r])'
        BY <1>0, <3>1 DEF Called, InspectionIsKnown, InspectionInv, StatusFollowsInspection
      <3>3. StatusFollowsInspection'
        BY <3>1 DEF InspectionInv, StatusFollowsInspection
      <3> QED
        BY <2>2, <3>2, <3>3
    <2>4. ASSUME NEW r \in Requests, (Proceed(r) /\ ~Inspect(r)) \/ Fail(r) \/ ReleaseSwallowed(r)
          PROVE  InspectionInv'
      <3>1. /\ inspection' = inspection /\ GoesOn(req[r], req'[r])
            /\ \/ ro' = ro
               \/ req[r].at = "roWrite" /\ ro' = [ro EXCEPT ![req[r].checkIn] = req[r].target]
        BY <2>0, <2>4, NotInspecting
      <3>2. InspectionIsKnown(req[r])'
        BY <1>0, <3>1 DEF GoesOn, Kept, InspectionIsKnown, InspectionInv
      <3>3. StatusFollowsInspection'
        <4> SUFFICES ASSUME NEW c \in CheckIns
                     PROVE  /\ ro'[c] \in {"QC_PASSED", "WASHBAY", "READY_FOR_RELEASE"} => inspection[c] = "PASS"
                            /\ ro'[c] = "QC_FAILED" => inspection[c] = "FAIL"
          BY <3>1 DEF StatusFollowsInspection
        <4>1. ro'[c] = ro[c] \/ (c = req[r].checkIn /\ ro'[c] = req[r].target)
          BY <2>0, <3>1 DEF TypeOK
        <4> QED
          BY <4>1 DEF InspectionInv, StatusFollowsInspection, InspectionIsKnown
      <3> QED
        BY <2>2, <3>2, <3>3
    <2>5. ASSUME NEW r \in Requests, Inspect(r) PROVE InspectionInv'
      <3> DEFINE c == req[r].checkIn
      <3>1. c \in CheckIns /\ ro[c] = "QC_OUT" /\ ro' = ro
        BY <2>5 DEF Inspect, InspectionInv, InspectionIsKnown
      <3>2. PICK res \in {"PASS", "FAIL"}, t \in {"QC_PASSED", "QC_FAILED"} :
              /\ t = "QC_PASSED" <=> res = "PASS"
              /\ inspection' = [inspection EXCEPT ![c] = res] /\ SetRoNext(r, t)
        BY <2>5 DEF Inspect
      <3>3. /\ req'[r].target = t /\ req'[r].at = "roRead" /\ req'[r].checkIn = c
            /\ inspection'[c] = res
            /\ \A d \in CheckIns : d # c => inspection'[d] = inspection[d]
        <4>1. t \in RoStatus
          BY DEF RoStatus, ReachedStatuses
        <4>2. req'[r].target = t /\ req'[r].at = "roRead" /\ Kept(req[r], req'[r])
          BY <2>0, <3>2, <4>1, MovedTo
        <4> QED
          BY <2>0, <3>1, <3>2, <4>2 DEF TypeOK, Kept
      <3>4. InspectionIsKnown(req[r])'
        BY <3>2, <3>3 DEF InspectionIsKnown
      <3>5. StatusFollowsInspection'
        BY <3>1, <3>3 DEF InspectionInv, StatusFollowsInspection
      <3> QED
        BY <2>2, <3>4, <3>5
    <2>6. ASSUME NEW b \in Bays, CreateBay(b) \/ UpdateBay(b) PROVE InspectionInv'
      BY <2>1, <2>6 DEF CreateBay, UpdateBay
    <2>7. ASSUME NEW j \in JobCards, ApproveJobCard(j) \/ MintGatePass(j) PROVE InspectionInv'
      BY <2>1, <2>7 DEF ApproveJobCard, MintGatePass
    <2>8. CASE UNCHANGED vars
      BY <2>1, <2>8 DEF vars
    <2> QED
      BY <2>3, <2>4, <2>5, <2>6, <2>7, <2>8 DEF Next
  <1>3. InspectionInv => StatusFollowsInspection
    BY DEF InspectionInv
  <1> QED
    BY <1>1, <1>2, <1>3, PTL DEF Spec

-----------------------------------------------------------------------------
(* The floor.                                                              *)

\* An open allocation is of a visit and a bay, and the only one of its visit.
OpenRows ==
  /\ \A a \in Allocations :
       alloc[a].state = "open" => alloc[a].checkIn \in CheckIns /\ alloc[a].bay \in Bays
  /\ \A a, b \in Allocations :
       alloc[a].state = "open" /\ alloc[b].state = "open" /\ alloc[a].checkIn = alloc[b].checkIn => a = b

FloorSteps == {"allocOpen", "allocBay", "allocCommit", "reallocBay", "reallocCommit"}

\* What request q has read of the floor.
FloorReads(q) ==
  /\ q.at \in FloorSteps => q.checkIn \in CheckIns /\ q.bay \in Bays
  /\ q.at = "allocCommit" => bay[q.bay].current = NoAllocation
  /\ q.at \in {"reallocBay", "reallocCommit", "releaseCommit"} => q.alloc \in OpenOf(q.checkIn)
  /\ q.at = "reallocCommit" => bay[q.bay].current \in {NoAllocation, q.alloc}

FloorInv ==
  /\ TypeOK
  /\ PointerIsOpen
  /\ OpenRows
  /\ OpenIsPointed
  /\ \A r \in Requests : FloorReads(req[r])

\* A step that moves nobody on the floor: no row changes, nor where a bay points.
FloorKept ==
  /\ alloc' = alloc
  /\ \A b \in Bays : bay'[b].current = bay[b].current

\* Such a step of a request that reads nothing of the floor.
LEMMA FloorAlone ==
  ASSUME FloorInv, TypeOK', PointerIsOpen', FloorKept,
         \A s \in Requests : req'[s] = req[s] \/ req'[s].at \notin FloorSteps \cup {"releaseCommit"}
  PROVE  FloorInv'
  <1>1. OpenRows' /\ OpenIsPointed'
    BY DEF FloorInv, FloorKept, OpenRows, OpenIsPointed
  <1>2. (\A s \in Requests : FloorReads(req[s]))'
    <2> SUFFICES ASSUME NEW s \in Requests PROVE FloorReads(req[s])'
      OBVIOUS
    <2>1. CASE req'[s] = req[s]
      BY <2>1 DEF FloorInv, FloorKept, FloorReads, FloorSteps, OpenOf
    <2>2. CASE req'[s].at \notin FloorSteps \cup {"releaseCommit"}
      BY <2>2 DEF FloorReads, FloorSteps
    <2> QED
      BY <2>1, <2>2
  <1> QED
    BY <1>1, <1>2 DEF FloorInv

\* The steps of a request in flight that are not of the floor.
LEMMA NotOfFloor ==
  ASSUME TypeOK, NEW r \in Requests,
         \/ DeleteBay(r) \/ RoRead(r) \/ RoWrite(r) \/ AllocateConflict(r) \/ SyncBay(r)
         \/ ReallocateConflict(r) \/ StartReadBay(r) \/ StartWork(r) \/ CompleteCommit(r)
         \/ CompleteCheck(r) \/ SignOff(r) \/ Reject(r) \/ Inspect(r) \/ Redeem(r) \/ CloseVisit(r)
         \/ Fail(r) \/ ReleaseSwallowed(r)
  PROVE  /\ FloorKept
         /\ \A s \in Requests : req'[s] = req[s] \/ req'[s].at \notin FloorSteps \cup {"releaseCommit"}
  <1> DEFINE FS == FloorSteps \cup {"releaseCommit"}
             Out == \A s \in Requests : req'[s] = req[s] \/ req'[s].at \notin FS
  <1>1. /\ {"QC_OUT", "QC_PASSED", "QC_FAILED", "RELEASED"} \subseteq RoStatus
        /\ {"roWrite", "releaseRead", "startWrite", "finishCheck"} \subseteq Steps \ FS
        /\ \A step \in {"idle", "roRead", "closeVisit", "syncBay"} : step \notin FS
        /\ Idle.at = "idle"
    BY DEF RoStatus, ReachedStatuses, Steps, FloorSteps, Idle
  <1> HIDE DEF FS
  <1>2. ASSUME Return(r) PROVE Out
    <2>1. Returned(req[r], req'[r]) /\ \A s \in Requests : s # r => req'[s] = req[s]
      BY <1>2, MovedTo
    <2> QED
      BY <1>1, <2>1 DEF Returned
  <1>3. ASSUME Finish(r) PROVE Out
    <2>1. req'[r] = Idle /\ \A s \in Requests : s # r => req'[s] = req[s]
      BY <1>3, MovedTo
    <2> QED
      BY <1>1, <2>1
  <1>4. ASSUME NEW t \in {"QC_OUT", "QC_PASSED", "QC_FAILED", "RELEASED"}, SetRoNext(r, t) PROVE Out
    <2>1. req'[r].at = "roRead" /\ \A s \in Requests : s # r => req'[s] = req[s]
      BY <1>1, <1>4, MovedTo
    <2> QED
      BY <1>1, <2>1
  <1>5. ASSUME NEW step \in Steps \ FS, Goto(r, step) PROVE Out
    <2>1. req'[r].at = step /\ \A s \in Requests : s # r => req'[s] = req[s]
      BY <1>5, MovedTo
    <2> QED
      BY <1>5, <2>1
  <1> HIDE DEF Out
  <1>6. CASE \/ RoRead(r) \/ RoWrite(r) \/ AllocateConflict(r) \/ SyncBay(r) \/ ReallocateConflict(r)
             \/ ReleaseSwallowed(r) \/ Fail(r)
    <2>1. Out
      BY <1>1, <1>2, <1>3, <1>5, <1>6
      DEF RoRead, RoWrite, AllocateConflict, SyncBay, ReallocateConflict, ReleaseSwallowed, Fail
    <2>2. FloorKept
      BY <1>6 DEF RoRead, RoWrite, AllocateConflict, SyncBay, ReallocateConflict, ReleaseSwallowed,
                  Fail, FloorKept
    <2> QED
      BY <2>1, <2>2 DEF Out, FS
  <1>7. CASE \/ StartReadBay(r) \/ StartWork(r) \/ CompleteCommit(r) \/ CompleteCheck(r) \/ SignOff(r)
             \/ Reject(r) \/ Inspect(r) \/ Redeem(r) \/ CloseVisit(r)
    <2>1. Out
      BY <1>1, <1>3, <1>4, <1>5, <1>7
      DEF StartReadBay, StartWork, CompleteCommit, CompleteCheck, SignOff, Reject, Inspect, Redeem, CloseVisit
    <2>2. FloorKept
      BY <1>7 DEF StartReadBay, StartWork, CompleteCommit, CompleteCheck, SignOff, Reject, Inspect,
                  Redeem, CloseVisit, FloorKept
    <2> QED
      BY <2>1, <2>2 DEF Out, FS
  <1>8. CASE DeleteBay(r)
    <2>1. Out
      BY <1>3, <1>8 DEF DeleteBay
    <2>2. FloorKept
      <3>1. alloc' = alloc /\ (bay' = bay \/ bay' = [bay EXCEPT ![req[r].bay] = [@ EXCEPT !.exists = FALSE]])
        BY <1>8 DEF DeleteBay
      <3> QED
        BY <3>1 DEF FloorKept, TypeOK, BayRow
    <2> QED
      BY <2>1, <2>2 DEF Out, FS
  <1> QED
    BY <1>6, <1>7, <1>8

\* A client's call: what it reads of the floor is so.
LEMMA FloorCall ==
  ASSUME LoneRequest, FloorInv, TypeOK', NEW r \in Requests, Call(r)
  PROVE  FloorInv' /\ FloorKept
  <1>1. UNCHANGED <<alloc, bay>> /\ Called(req'[r])
    BY CallBegins DEF FloorInv
  <1>2. FloorReads(req'[r])
    BY <1>1 DEF Called, FloorReads, FloorSteps
  <1>3. (\A s \in Requests : FloorReads(req[s]))'
    BY <1>1, <1>2 DEF FloorReads, OpenOf, LoneRequest
  <1>4. PointerIsOpen' /\ OpenRows' /\ OpenIsPointed'
    BY <1>1 DEF FloorInv, PointerIsOpen, OpenRows, OpenIsPointed
  <1> QED
    BY <1>1, <1>3, <1>4 DEF FloorInv, FloorKept

\* The bay's master data.
LEMMA FloorMasterData ==
  ASSUME FloorInv, TypeOK', NEW b \in Bays, CreateBay(b) \/ UpdateBay(b)
  PROVE  FloorInv' /\ FloorKept
  <1>1. PointerIsOpen'
    BY MasterDataKeepsPointers DEF FloorInv
  <1>2. FloorKept
    <2>1. CASE CreateBay(b)
      <3>1. bay[b].current = NoAllocation
        BY <2>1 DEF CreateBay, FloorInv, PointerIsOpen
      <3> QED
        BY <2>1, <3>1 DEF CreateBay, FloorKept, FloorInv, TypeOK
    <2>2. CASE UpdateBay(b)
      <3>1. PICK on \in BOOLEAN : bay' = [bay EXCEPT ![b] = [@ EXCEPT !.isActive = on]]
        BY <2>2 DEF UpdateBay
      <3> QED
        BY <2>2, <3>1 DEF UpdateBay, FloorKept, FloorInv, TypeOK, BayRow
    <2> QED
      BY <2>1, <2>2
  <1>3. req' = req
    BY DEF CreateBay, UpdateBay
  <1> QED
    BY <1>1, <1>2, <1>3, FloorAlone

\* A request reads the floor.
LEMMA FloorRead ==
  ASSUME LoneRequest, FloorInv, TypeOK', NEW r \in Requests,
         AllocateReadOpen(r) \/ AllocateReadBay(r) \/ ReallocateReadBay(r) \/ ReleaseRead(r)
  PROVE  FloorInv' /\ FloorKept
  <1> DEFINE p == req[r]
             q == req'[r]
  <1>0. TypeOK /\ FloorReads(p) /\ UNCHANGED <<alloc, bay>>
    BY DEF FloorInv, AllocateReadOpen, AllocateReadBay, ReallocateReadBay, ReleaseRead
  <1>1. {"allocBay", "allocCommit", "reallocCommit"} \subseteq Steps
    BY DEF Steps
  <1>2. ASSUME Finish(r) \/ Return(r) PROVE FloorReads(q)
    <2>1. Returned(p, q) \/ q = Idle
      BY <1>0, <1>2, MovedTo
    <2> QED
      BY <2>1 DEF Returned, Idle, FloorReads, FloorSteps
  <1>3. ASSUME NEW step \in {"allocBay", "allocCommit", "reallocCommit"}, Goto(r, step)
        PROVE  q.at = step /\ q.alloc = p.alloc /\ Kept(p, q)
    BY <1>0, <1>1, <1>3, MovedTo
  <1>4. FloorReads(q)
    <2>1. CASE AllocateReadOpen(r)
      BY <1>0, <1>2, <1>3, <2>1 DEF AllocateReadOpen, Kept, FloorReads, FloorSteps
    <2>2. CASE AllocateReadBay(r)
      BY <1>0, <1>2, <1>3, <2>2 DEF AllocateReadBay, BayIsFree, Kept, FloorReads, FloorSteps
    <2>3. CASE ReallocateReadBay(r)
      BY <1>0, <1>2, <1>3, <2>3 DEF ReallocateReadBay, Kept, FloorReads, FloorSteps
    <2>4. CASE ReleaseRead(r)
      <3>1. CASE Return(r)
        BY <1>2, <3>1
      <3>2. ASSUME NEW a \in OpenOf(p.checkIn),
                   req' = [req EXCEPT ![r] = [@ EXCEPT !.at = "releaseCommit", !.alloc = a]]
            PROVE  FloorReads(q)
        <4>1. a \in Allocations
          BY DEF OpenOf
        <4>2. q.at = "releaseCommit" /\ q.alloc = a /\ Kept(p, q)
          BY <1>0, <3>2, <4>1, MovedTo
        <4> QED
          BY <4>2 DEF Kept, FloorReads, FloorSteps
      <3> QED
        BY <2>4, <3>1, <3>2 DEF ReleaseRead
    <2> QED
      BY <2>1, <2>2, <2>3, <2>4
  <1>5. (\A s \in Requests : FloorReads(req[s]))'
    BY <1>0, <1>4 DEF FloorReads, OpenOf, LoneRequest
  <1>6. PointerIsOpen' /\ OpenRows' /\ OpenIsPointed'
    BY <1>0 DEF FloorInv, PointerIsOpen, OpenRows, OpenIsPointed
  <1> QED
    BY <1>0, <1>5, <1>6 DEF FloorInv, FloorKept

\* A bay is given to a visit that has none.
LEMMA FloorAllocate ==
  ASSUME LoneRequest, FloorInv, TypeOK', NEW r \in Requests, AllocateCommit(r)
  PROVE  /\ FloorInv'
         /\ req[r].checkIn \in CheckIns /\ req[r].bay \in Bays /\ OpenOf(req[r].checkIn) = {}
         /\ bay[req[r].bay].current = NoAllocation
         /\ \E a \in Allocations :
              /\ alloc[a].state = "unused"
              /\ alloc'[a] = [state |-> "open", checkIn |-> req[r].checkIn, bay |-> req[r].bay]
              /\ \A x \in Allocations : x # a => alloc'[x] = alloc[x]
              /\ bay'[req[r].bay].current = a
              /\ \A b \in Bays : b # req[r].bay => bay'[b] = bay[b]
         /\ req'[r].at = "roRead" /\ req'[r].target = "IN_WORKSHOP" /\ Kept(req[r], req'[r])
  <1> DEFINE c == req[r].checkIn
             home == req[r].bay
  <1>0. TypeOK /\ FloorReads(req[r])
    BY DEF FloorInv
  <1>1. c \in CheckIns /\ home \in Bays /\ OpenOf(c) = {} /\ bay[home].current = NoAllocation
    BY <1>0 DEF AllocateCommit, FloorReads, FloorSteps
  <1>2. PICK a \in Allocations :
          /\ alloc[a].state = "unused"
          /\ alloc' = Opened(alloc, a, c, home)
          /\ bay' = Pointed(bay, home, a)
    BY DEF AllocateCommit
  <1>3. /\ alloc'[a] = [state |-> "open", checkIn |-> c, bay |-> home]
        /\ \A x \in Allocations : x # a => alloc'[x] = alloc[x]
    BY <1>0, <1>2 DEF Opened, TypeOK
  <1>4. /\ bay'[home].current = a
        /\ \A b \in Bays : b # home => bay'[b] = bay[b]
    BY <1>0, <1>1, <1>2 DEF Pointed, TypeOK, BayRow
  <1>5. req'[r].at = "roRead" /\ req'[r].target = "IN_WORKSHOP" /\ Kept(req[r], req'[r])
    <2>1. SetRoNext(r, "IN_WORKSHOP") /\ "IN_WORKSHOP" \in RoStatus
      BY DEF AllocateCommit, RoStatus, ReachedStatuses
    <2> QED
      BY <1>0, <2>1, MovedTo
  <1>6. \A x \in Allocations : alloc'[x].state = "open" <=> x = a \/ alloc[x].state = "open"
    BY <1>2, <1>3
  <1>7. OpenRows'
    <2>1. \A x \in Allocations : alloc[x].state = "open" => alloc[x].checkIn # c /\ x # a
      BY <1>1, <1>2 DEF OpenOf
    <2> QED
      BY <1>1, <1>3, <1>6, <2>1 DEF FloorInv, OpenRows
  <1>8. OpenIsPointed'
    <2> SUFFICES ASSUME NEW x \in Allocations, alloc'[x].state = "open"
                 PROVE  bay'[alloc'[x].bay].current = x
      BY DEF OpenIsPointed
    <2>1. CASE x = a
      BY <1>3, <1>4, <2>1
    <2>2. CASE x # a
      <3>1. alloc'[x] = alloc[x] /\ alloc[x].bay \in Bays /\ bay[alloc[x].bay].current = x
        BY <1>3, <2>2 DEF FloorInv, OpenRows, OpenIsPointed
      <3>2. alloc[x].bay # home
        BY <1>1, <3>1, ConstantsAssumption
      <3> QED
        BY <1>4, <3>1, <3>2
    <2> QED
      BY <2>1, <2>2
  <1>9. PointerIsOpen'
    BY AllocateKeepsPointers DEF FloorInv
  <1>10. (\A s \in Requests : FloorReads(req[s]))'
    BY <1>5 DEF FloorReads, FloorSteps, LoneRequest
  <1> QED
    BY <1>1, <1>2, <1>3, <1>4, <1>5, <1>7, <1>8, <1>9, <1>10 DEF FloorInv

\* Closing an allocation leaves the other rows as they are.
LEMMA ClosedRow ==
  ASSUME TypeOK, NEW a \in Allocations
  PROVE  /\ Closed(alloc, a) \in [Allocations -> AllocationRow]
         /\ Closed(alloc, a)[a].state = "released"
         /\ \A x \in Allocations : x # a => Closed(alloc, a)[x] = alloc[x]
  <1>1. alloc \in [Allocations -> AllocationRow]
    BY DEF TypeOK
  <1>2. [alloc[a] EXCEPT !.state = "released"] \in AllocationRow
    BY <1>1 DEF AllocationRow
  <1>3. Closed(alloc, a) = [alloc EXCEPT ![a] = [alloc[a] EXCEPT !.state = "released"]]
    BY DEF Closed
  <1>4. [alloc[a] EXCEPT !.state = "released"].state = "released"
    BY <1>1 DEF AllocationRow
  <1> QED
    BY <1>1, <1>2, <1>3, <1>4

\* It clears the bay it was made for, and no other.
LEMMA ClearedBay ==
  ASSUME TypeOK, NEW a \in Allocations
  PROVE  /\ Cleared(bay, a) \in [Bays -> BayRow]
         /\ \A b \in Bays : b = alloc[a].bay => Cleared(bay, a)[b].current = NoAllocation
         /\ \A b \in Bays : b # alloc[a].bay => Cleared(bay, a)[b] = bay[b]
  <1> DEFINE home == alloc[a].bay
  <1>1. bay \in [Bays -> BayRow]
    BY DEF TypeOK
  <1>2. \A b \in Bays : /\ [bay[b] EXCEPT !.current = NoAllocation] \in BayRow
                        /\ [bay[b] EXCEPT !.current = NoAllocation].current = NoAllocation
    BY <1>1 DEF BayRow
  <1>3. Cleared(bay, a) = [bay EXCEPT ![home] = [bay[home] EXCEPT !.current = NoAllocation]]
    BY DEF Cleared
  <1> HIDE DEF home
  <1>4. Cleared(bay, a) \in [Bays -> BayRow]
    BY <1>1, <1>2, <1>3
  <1>5. \A b \in Bays : b = home => Cleared(bay, a)[b].current = NoAllocation
    BY <1>1, <1>2, <1>3
  <1>6. \A b \in Bays : b # home => Cleared(bay, a)[b] = bay[b]
    BY <1>1, <1>3
  <1> QED
    BY <1>4, <1>5, <1>6 DEF home

\* A visit leaves its bay.
LEMMA FloorRelease ==
  ASSUME LoneRequest, FloorInv, TypeOK', NEW r \in Requests, ReleaseCommit(r)
  PROVE  /\ FloorInv'
         /\ \E a \in Allocations :
              /\ alloc[a].state = "open" /\ alloc[a].checkIn = req[r].checkIn
              /\ alloc[a].checkIn \in CheckIns /\ alloc[a].bay \in Bays /\ bay[alloc[a].bay].current = a
              /\ alloc'[a].state = "released"
              /\ \A x \in Allocations : x # a => alloc'[x] = alloc[x]
              /\ bay'[alloc[a].bay].current = NoAllocation
              /\ \A b \in Bays : b # alloc[a].bay => bay'[b] = bay[b]
         /\ Returned(req[r], req'[r])
  <1> DEFINE a == req[r].alloc
             home == alloc[a].bay
  <1>0. TypeOK /\ FloorReads(req[r]) /\ req[r].at = "releaseCommit"
    BY DEF FloorInv, ReleaseCommit
  <1>1. /\ a \in Allocations /\ alloc[a].state = "open" /\ alloc[a].checkIn = req[r].checkIn
        /\ alloc[a].checkIn \in CheckIns /\ home \in Bays /\ bay[home].current = a
    BY <1>0 DEF FloorReads, OpenOf, FloorInv, OpenRows, OpenIsPointed
  <1>2. alloc' = Closed(alloc, a) /\ bay' = Cleared(bay, a)
    BY DEF ReleaseCommit
  <1>3. /\ alloc'[a].state = "released"
        /\ \A x \in Allocations : x # a => alloc'[x] = alloc[x]
    BY <1>0, <1>1, <1>2, ClosedRow
  <1>4. /\ bay'[home].current = NoAllocation
        /\ \A b \in Bays : b # home => bay'[b] = bay[b]
    BY <1>0, <1>1, <1>2, ClearedBay
  <1>5. Returned(req[r], req'[r])
    BY <1>0, MovedTo DEF ReleaseCommit
  <1>6. OpenRows'
    BY <1>1, <1>3 DEF FloorInv, OpenRows
  <1>7. OpenIsPointed'
    <2> SUFFICES ASSUME NEW x \in Allocations, alloc'[x].state = "open"
                 PROVE  bay'[alloc'[x].bay].current = x
      BY DEF OpenIsPointed
    <2>1. x # a /\ alloc'[x] = alloc[x]
      BY <1>3
    <2>2. alloc[x].bay \in Bays /\ bay[alloc[x].bay].current = x
      BY <2>1 DEF FloorInv, OpenRows, OpenIsPointed
    <2>3. alloc[x].bay # home
      BY <1>1, <2>1, <2>2
    <2> QED
      BY <1>4, <2>1, <2>2, <2>3
  <1>8. PointerIsOpen'
    BY ReleaseKeepsPointers DEF FloorInv
  <1>9. (\A s \in Requests : FloorReads(req[s]))'
    BY <1>5 DEF Returned, Idle, FloorReads, FloorSteps, LoneRequest
  <1> QED
    BY <1>1, <1>3, <1>4, <1>5, <1>6, <1>7, <1>8, <1>9 DEF FloorInv

\* A visit moves to another bay.
LEMMA FloorReallocate ==
  ASSUME LoneRequest, FloorInv, TypeOK', NEW r \in Requests, ReallocateCommit(r)
  PROVE  /\ FloorInv'
         /\ req[r].checkIn \in CheckIns /\ req[r].bay \in Bays
         /\ \E old, a \in Allocations :
              /\ old # a
              /\ alloc[old].state = "open" /\ alloc[old].checkIn = req[r].checkIn
              /\ alloc[old].bay \in Bays /\ bay[alloc[old].bay].current = old
              /\ bay[req[r].bay].current \in {NoAllocation, old}
              /\ alloc[a].state = "unused"
              /\ alloc'[a] = [state |-> "open", checkIn |-> req[r].checkIn, bay |-> req[r].bay]
              /\ alloc'[old].state = "released"
              /\ \A x \in Allocations : x \notin {a, old} => alloc'[x] = alloc[x]
              /\ bay'[req[r].bay].current = a
              /\ \A b \in Bays : b # req[r].bay =>
                   bay'[b].current = IF b = alloc[old].bay THEN NoAllocation ELSE bay[b].current
         /\ req'[r].at = "syncBay" /\ req'[r].target = req[r].target /\ Kept(req[r], req'[r])
  <1> DEFINE c == req[r].checkIn
             to == req[r].bay
             old == req[r].alloc
             from == alloc[old].bay
  <1>0. TypeOK /\ FloorReads(req[r]) /\ req[r].at = "reallocCommit"
    BY DEF FloorInv, ReallocateCommit
  <1>1. /\ c \in CheckIns /\ to \in Bays
        /\ old \in Allocations /\ alloc[old].state = "open" /\ alloc[old].checkIn = c
        /\ from \in Bays /\ bay[from].current = old
        /\ bay[to].current \in {NoAllocation, old}
    BY <1>0 DEF FloorReads, FloorSteps, OpenOf, FloorInv, OpenRows, OpenIsPointed
  <1>2. PICK a \in Allocations :
          /\ alloc[a].state = "unused"
          /\ alloc' = Opened(Closed(alloc, old), a, c, to)
          /\ bay' = Pointed(Cleared(bay, old), to, a)
    BY DEF ReallocateCommit
  <1>3. /\ old # a
        /\ alloc'[a] = [state |-> "open", checkIn |-> c, bay |-> to]
        /\ alloc'[old].state = "released"
        /\ \A x \in Allocations : x \notin {a, old} => alloc'[x] = alloc[x]
    <2>1. old # a
      BY <1>1, <1>2
    <2>2. /\ Closed(alloc, old) \in [Allocations -> AllocationRow]
          /\ Closed(alloc, old)[old].state = "released"
          /\ \A x \in Allocations : x # old => Closed(alloc, old)[x] = alloc[x]
      BY <1>0, <1>1, ClosedRow
    <2> QED
      BY <1>1, <1>2, <2>1, <2>2 DEF Opened
  <1>4. /\ bay'[to].current = a
        /\ \A b \in Bays : b # to => bay'[b].current = IF b = from THEN NoAllocation ELSE bay[b].current
    <2>1. /\ Cleared(bay, old) \in [Bays -> BayRow]
          /\ \A b \in Bays : Cleared(bay, old)[b].current = IF b = from THEN NoAllocation ELSE bay[b].current
      BY <1>0, <1>1, ClearedBay
    <2> QED
      BY <1>1, <1>2, <2>1 DEF Pointed, BayRow
  <1>5. req'[r].at = "syncBay" /\ req'[r].target = req[r].target /\ Kept(req[r], req'[r])
    <2>1. Goto(r, "syncBay") /\ "syncBay" \in Steps
      BY DEF ReallocateCommit, Steps
    <2> QED
      BY <1>0, <2>1, MovedTo
  <1>6. OpenRows'
    <2>1. \A x \in Allocations : alloc[x].state = "open" /\ x # old => alloc[x].checkIn # c /\ x # a
      BY <1>1, <1>2 DEF FloorInv, OpenRows
    <2>2. \A x \in Allocations : alloc'[x].state = "open" => x = a \/ (x # old /\ alloc'[x] = alloc[x])
      BY <1>3
    <2> QED
      BY <1>1, <1>3, <2>1, <2>2 DEF FloorInv, OpenRows
  <1>7. OpenIsPointed'
    <2> SUFFICES ASSUME NEW x \in Allocations, alloc'[x].state = "open"
                 PROVE  bay'[alloc'[x].bay].current = x
      BY DEF OpenIsPointed
    <2>1. CASE x = a
      BY <1>3, <1>4, <2>1
    <2>2. CASE x # a
      <3>1. x # old /\ alloc'[x] = alloc[x]
        BY <1>3, <2>2
      <3>2. alloc[x].bay \in Bays /\ bay[alloc[x].bay].current = x
        BY <3>1 DEF FloorInv, OpenRows, OpenIsPointed
      <3>3. alloc[x].bay # from /\ alloc[x].bay # to
        BY <1>1, <3>1, <3>2, ConstantsAssumption
      <3> QED
        BY <1>4, <3>1, <3>2, <3>3
    <2> QED
      BY <2>1, <2>2
  <1>8. PointerIsOpen'
    BY ReallocateKeepsPointers DEF FloorInv
  <1>9. (\A s \in Requests : FloorReads(req[s]))'
    BY <1>5 DEF FloorReads, FloorSteps, LoneRequest
  <1> QED
    BY <1>1, <1>2, <1>3, <1>4, <1>5, <1>6, <1>7, <1>8, <1>9 DEF FloorInv

\* The floor as a whole: who stands where changes in three ways only.
LEMMA FloorNext ==
  ASSUME LoneRequest, FloorInv, [Next]_vars
  PROVE  /\ FloorInv'
         /\ \/ FloorKept
            \/ \E r \in Requests : AllocateCommit(r) \/ ReleaseCommit(r) \/ ReallocateCommit(r)
  <1>0. TypeOK /\ TypeOK'
    BY StepType DEF FloorInv
  <1>1. ASSUME NEW r \in Requests, Call(r) PROVE FloorInv' /\ FloorKept
    BY <1>0, <1>1, FloorCall
  <1>2. ASSUME NEW r \in Requests,
               \/ DeleteBay(r) \/ RoRead(r) \/ RoWrite(r) \/ AllocateConflict(r) \/ SyncBay(r)
               \/ ReallocateConflict(r) \/ StartReadBay(r) \/ StartWork(r) \/ CompleteCommit(r)
               \/ CompleteCheck(r) \/ SignOff(r) \/ Reject(r) \/ Inspect(r) \/ Redeem(r) \/ CloseVisit(r)
               \/ Fail(r) \/ ReleaseSwallowed(r)
        PROVE  FloorInv' /\ FloorKept
    <2>1. PointerIsOpen'
      <3>1. CASE DeleteBay(r)
        BY <3>1, MasterDataKeepsPointers DEF FloorInv
      <3>2. CASE ~DeleteBay(r)
        <4>1. UNCHANGED <<alloc, bay>>
          BY <1>2, <3>2
          DEF RoRead, RoWrite, AllocateConflict, SyncBay, ReallocateConflict, StartReadBay, StartWork,
              CompleteCommit, CompleteCheck, SignOff, Reject, Inspect, Redeem, CloseVisit, Fail,
              ReleaseSwallowed
        <4> QED
          BY <4>1 DEF FloorInv, PointerIsOpen
      <3> QED
        BY <3>1, <3>2
    <2> QED
      BY <1>0, <1>2, <2>1, FloorAlone, NotOfFloor
  <1>3. ASSUME NEW b \in Bays, CreateBay(b) \/ UpdateBay(b) PROVE FloorInv' /\ FloorKept
    BY <1>0, <1>3, FloorMasterData
  <1>4. ASSUME UNCHANGED <<alloc, bay, req>> PROVE FloorInv' /\ FloorKept
    <2>1. FloorKept /\ PointerIsOpen'
      BY <1>4 DEF FloorKept, FloorInv, PointerIsOpen
    <2> QED
      BY <1>0, <1>4, <2>1, FloorAlone
  <1>5. ASSUME NEW j \in JobCards, ApproveJobCard(j) \/ MintGatePass(j) PROVE FloorInv' /\ FloorKept
    BY <1>4, <1>5 DEF ApproveJobCard, MintGatePass
  <1>6. CASE UNCHANGED vars
    BY <1>4, <1>6 DEF vars
  <1>7. ASSUME NEW r \in Requests, Proceed(r)
        PROVE  FloorInv' /\ (FloorKept \/ AllocateCommit(r) \/ ReleaseCommit(r) \/ ReallocateCommit(r))
    BY <1>0, <1>2, <1>7, FloorRead, FloorAllocate, FloorRelease, FloorReallocate DEF Proceed
  <1> QED
    BY <1>1, <1>2, <1>3, <1>5, <1>6, <1>7 DEF Next

\* No bay is taken at the start.
LEMMA FloorInit ==
  ASSUME Init
  PROVE  FloorInv
  <1>1. \A r \in Requests : FloorReads(req[r])
    BY DEF Init, Idle, FloorReads, FloorSteps
  <1>2. OpenRows /\ OpenIsPointed /\ PointerIsOpen
    BY DEF Init, OpenRows, OpenIsPointed, PointerIsOpen
  <1> QED
    BY <1>1, <1>2, InitType DEF FloorInv

(* A vehicle that has a bay is shown by it, so the bay is not offered to another one,
   with requests one at a time, wherever they stop. *)
THEOREM TakenBaysAreShown ==
  ASSUME LoneRequest
  PROVE  Spec => []OpenIsPointed
  <1>1. FloorInv => OpenIsPointed
    BY DEF FloorInv
  <1> QED
    BY <1>1, FloorInit, FloorNext, PTL DEF Spec

-----------------------------------------------------------------------------
(* The bay board, step by step.                                            *)

\* Who is shown where, in terms of the rows.
LEMMA ShownIsOpen ==
  ASSUME FloorInv, NEW b \in Bays
  PROVE  /\ bay[b].current = NoAllocation => Shown(b) = NoCheckIn
         /\ bay[b].current # NoAllocation =>
              /\ bay[b].current \in Allocations
              /\ alloc[bay[b].current].state = "open" /\ alloc[bay[b].current].bay = b
              /\ Shown(b) = alloc[bay[b].current].checkIn /\ Shown(b) \in CheckIns
  BY DEF FloorInv, PointerIsOpen, OpenRows, TypeOK, BayRow, Shown

\* Allocating lets the vehicle enter.
LEMMA BoardEnters ==
  ASSUME LoneRequest, FloorInv, TypeOK', NEW r \in Requests, AllocateCommit(r)
  PROVE  Board!Next
  <1> DEFINE stands == [b \in Bays |-> Shown(b)]
  <1>0. PICK c \in CheckIns, home \in Bays : c = req[r].checkIn /\ home = req[r].bay
    BY FloorAllocate
  <1>1. OpenOf(c) = {} /\ bay[home].current = NoAllocation
    BY <1>0, FloorAllocate
  <1>2. PICK a \in Allocations :
          /\ alloc[a].state = "unused"
          /\ alloc'[a] = [state |-> "open", checkIn |-> c, bay |-> home]
          /\ \A x \in Allocations : x # a => alloc'[x] = alloc[x]
          /\ bay'[home].current = a
          /\ \A b \in Bays : b # home => bay'[b] = bay[b]
    BY <1>0, FloorAllocate
  <1>3. Shown(home) = NoCheckIn /\ \A b \in Bays : Shown(b) # c
    BY <1>1, ShownIsOpen, ConstantsAssumption DEF OpenOf
  <1>4. Shown(home)' = c
    BY <1>1, <1>2, ConstantsAssumption DEF Shown
  <1>5. \A b \in Bays : b # home => Shown(b)' = Shown(b)
    <2> SUFFICES ASSUME NEW b \in Bays, b # home PROVE Shown(b)' = Shown(b)
      OBVIOUS
    <2>1. bay'[b] = bay[b] /\ (bay[b].current # NoAllocation => bay[b].current \in Allocations \ {a})
      BY <1>2, ShownIsOpen
    <2> QED
      BY <1>2, <2>1 DEF Shown
  <1>6. stands' = [stands EXCEPT ![home] = c]
    BY <1>1, <1>4, <1>5
  <1>7. Board!Enter(c, home)
    BY <1>1, <1>3, <1>6 DEF Board!Enter, Board!InBay
  <1> QED
    BY <1>1, <1>7 DEF Board!Next

\* Releasing lets it leave.
LEMMA BoardLeaves ==
  ASSUME LoneRequest, FloorInv, TypeOK', NEW r \in Requests, ReleaseCommit(r)
  PROVE  Board!Next
  <1> DEFINE stands == [b \in Bays |-> Shown(b)]
  <1>1. PICK a \in Allocations, c \in CheckIns, home \in Bays :
          /\ alloc[a].state = "open" /\ alloc[a].checkIn = c /\ alloc[a].bay = home
          /\ bay[home].current = a
          /\ alloc'[a].state = "released"
          /\ \A x \in Allocations : x # a => alloc'[x] = alloc[x]
          /\ bay'[home].current = NoAllocation
          /\ \A b \in Bays : b # home => bay'[b] = bay[b]
    BY FloorRelease
  <1>2. Shown(home) = c /\ Shown(home)' = NoCheckIn
    BY <1>1, ConstantsAssumption DEF Shown
  <1>3. \A b \in Bays : b # home => Shown(b)' = Shown(b) /\ Shown(b) # c
    <2> SUFFICES ASSUME NEW b \in Bays, b # home PROVE Shown(b)' = Shown(b) /\ Shown(b) # c
      OBVIOUS
    <2>1. bay'[b] = bay[b] /\ bay[b].current # a
      BY <1>1, ShownIsOpen, ConstantsAssumption
    <2>2. CASE bay[b].current = NoAllocation
      BY <1>1, <2>1, <2>2, ConstantsAssumption DEF Shown
    <2>3. CASE bay[b].current # NoAllocation
      <3>1. /\ bay[b].current \in Allocations /\ alloc[bay[b].current].state = "open"
            /\ alloc'[bay[b].current] = alloc[bay[b].current]
        BY <1>1, <2>1, <2>3, ShownIsOpen
      <3>2. alloc[bay[b].current].checkIn # c
        BY <1>1, <2>1, <3>1 DEF FloorInv, OpenRows
      <3> QED
        BY <2>1, <2>3, <3>1, <3>2 DEF Shown
    <2> QED
      BY <2>2, <2>3
  <1>4. stands' = [b \in Bays |-> IF stands[b] = c THEN NoCheckIn ELSE stands[b]]
    BY <1>1, <1>2, <1>3
  <1>5. Board!Leave(c)
    BY <1>1, <1>2, <1>4 DEF Board!Leave, Board!InBay
  <1> QED
    BY <1>1, <1>5 DEF Board!Next

\* Moving to another bay moves it; reallocated to its own bay, it stays.
LEMMA BoardMoves ==
  ASSUME LoneRequest, FloorInv, TypeOK', NEW r \in Requests, ReallocateCommit(r)
  PROVE  Board!Next \/ [b \in Bays |-> Shown(b)]' = [b \in Bays |-> Shown(b)]
  <1> DEFINE stands == [b \in Bays |-> Shown(b)]
  <1>1. PICK c \in CheckIns, to \in Bays : c = req[r].checkIn /\ to = req[r].bay
    BY FloorReallocate
  <1>2. PICK old \in Allocations, a \in Allocations, from \in Bays :
          /\ old # a
          /\ alloc[old].state = "open" /\ alloc[old].checkIn = c
          /\ alloc[old].bay = from /\ bay[from].current = old
          /\ bay[to].current \in {NoAllocation, old}
          /\ alloc[a].state = "unused"
          /\ alloc'[a] = [state |-> "open", checkIn |-> c, bay |-> to]
          /\ alloc'[old].state = "released"
          /\ \A x \in Allocations : x \notin {a, old} => alloc'[x] = alloc[x]
          /\ bay'[to].current = a
          /\ \A b \in Bays : b # to => bay'[b].current = IF b = from THEN NoAllocation ELSE bay[b].current
    BY <1>1, FloorReallocate
  <1>3. Shown(from) = c /\ Shown(to)' = c /\ (from # to => Shown(from)' = NoCheckIn)
    BY <1>1, <1>2, ConstantsAssumption DEF Shown
  <1>4. \A b \in Bays : b # to /\ b # from => Shown(b)' = Shown(b) /\ Shown(b) # c
    <2> SUFFICES ASSUME NEW b \in Bays, b # to, b # from PROVE Shown(b)' = Shown(b) /\ Shown(b) # c
      OBVIOUS
    <2>1. bay'[b].current = bay[b].current /\ bay[b].current # old
      BY <1>2, ShownIsOpen, ConstantsAssumption
    <2>2. CASE bay[b].current = NoAllocation
      BY <1>1, <2>1, <2>2, ConstantsAssumption DEF Shown
    <2>3. CASE bay[b].current # NoAllocation
      <3>1. /\ bay[b].current \in Allocations \ {a, old} /\ alloc[bay[b].current].state = "open"
            /\ alloc'[bay[b].current] = alloc[bay[b].current]
        BY <1>2, <2>1, <2>3, ShownIsOpen
      <3>2. alloc[bay[b].current].checkIn # c
        BY <1>2, <2>1, <3>1 DEF FloorInv, OpenRows
      <3> QED
        BY <2>1, <2>3, <3>1, <3>2 DEF Shown
    <2> QED
      BY <2>2, <2>3
  <1>5. CASE from = to
    <2>1. \A b \in Bays : Shown(b)' = Shown(b)
      BY <1>3, <1>4, <1>5
    <2> QED
      BY <2>1
  <1>6. CASE from # to
    <2>1. Shown(to) = NoCheckIn
      <3>1. bay[to].current # old
        BY <1>1, <1>2, <1>6, ShownIsOpen, ConstantsAssumption
      <3> QED
        BY <1>1, <1>2, <3>1 DEF Shown
    <2>2. stands' = [b \in Bays |-> IF b = to THEN c ELSE IF stands[b] = c THEN NoCheckIn ELSE stands[b]]
      BY <1>1, <1>2, <1>3, <1>4, <1>6
    <2>3. Board!Move(c, to)
      BY <1>1, <1>2, <1>3, <2>1, <2>2 DEF Board!Move, Board!InBay
    <2> QED
      BY <1>1, <2>3 DEF Board!Next
  <1> QED
    BY <1>5, <1>6

(* Allocation rows and bay pointers implement the bay board, step by step, with
   requests one at a time, wherever they stop: a bay is cleared before it shows another
   vehicle, and a vehicle leaves its bay when it enters another. *)
THEOREM FloorImplementsBoard ==
  ASSUME LoneRequest
  PROVE  Spec => ImplementsBoard
  <1> DEFINE stands == [b \in Bays |-> Shown(b)]
  <1>1. Init => Board!Init
    BY DEF Init, Board!Init, Shown
  <1>2. FloorInv /\ [Next]_vars => [Board!Next]_stands
    <2> SUFFICES ASSUME FloorInv, [Next]_vars PROVE Board!Next \/ stands' = stands
      OBVIOUS
    <2>0. TypeOK'
      BY StepType DEF FloorInv
    <2>1. CASE FloorKept
      <3>1. \A b \in Bays : Shown(b)' = Shown(b)
        BY <2>1 DEF FloorKept, Shown
      <3> QED
        BY <3>1
    <2> QED
      BY <2>0, <2>1, FloorNext, BoardEnters, BoardLeaves, BoardMoves
  <1>3. Spec => []FloorInv
    BY FloorInit, FloorNext, PTL DEF Spec
  <1> QED
    BY <1>1, <1>2, <1>3, PTL DEF Spec, ImplementsBoard, Board!Spec

(***************************************************************************)
(* Requests one at a time that run to their end: the status of a visit and *)
(* its reservation follow the floor.                                       *)
(***************************************************************************)

Releasing == {"releaseRead", "releaseCommit"}

\* Request q is on its way to the status of the workshop, or to the release of the bay.
FollowsBay(q, c) ==
  /\ q.checkIn = c
  /\ (q.at \in RoSteps /\ q.target = "IN_WORKSHOP") \/ q.at \in Releasing

BayIsFollowed ==
  \A c \in CheckIns :
    OpenOf(c) # {} /\ ro[c] # "IN_WORKSHOP" => \E r \in Requests : FollowsBay(req[r], c)

\* Request q is on its way to the reservation of the bay it has given.
Syncing(q) == (q.at \in RoSteps /\ q.target = "IN_WORKSHOP") \/ q.at = "syncBay"

FollowsReservation(q, a) ==
  /\ q.checkIn = alloc[a].checkIn /\ q.bay = alloc[a].bay
  /\ Syncing(q)

ReservationIsFollowed ==
  \A a \in Allocations :
    LET c == alloc[a].checkIn
    IN alloc[a].state = "open" /\ visit[c] = "active" /\ reserved[c] # alloc[a].bay =>
         \E r \in Requests : FollowsReservation(req[r], a)

OpenHasVisit ==
  \A a \in Allocations : alloc[a].state = "open" => visit[alloc[a].checkIn] # "absent"

\* A visit that is entering has no bay yet.
Arrives(q) == q.at \in RoSteps /\ q.target = "ARRIVED"

ArrivesFirst == \A r \in Requests : Arrives(req[r]) => OpenOf(req[r].checkIn) = {}

\* The reservation will be of the bay the visit is in.
BringsBay ==
  \A r \in Requests : Syncing(req[r]) => \A a \in OpenOf(req[r].checkIn) : alloc[a].bay = req[r].bay

WorkshopInv ==
  /\ ChainInv
  /\ FloorInv
  /\ OpenHasVisit
  /\ BayIsFollowed
  /\ ReservationIsFollowed
  /\ ArrivesFirst
  /\ BringsBay

\* A step of a request that follows nothing, and moves nobody on the floor.
LEMMA WorkshopCalm ==
  ASSUME LoneRequest, WorkshopInv, ChainInv', FloorInv', NEW r \in Requests, FloorKept,
         UNCHANGED <<ro, reserved>>, req[r].at \notin RoSteps \cup Releasing \cup {"syncBay"},
         \A c \in CheckIns :
           \/ visit'[c] = visit[c]
           \/ visit[c] = "absent" /\ visit'[c] = "active"
           \/ visit'[c] = "completed",
         Arrives(req'[r]) => OpenOf(req'[r].checkIn) = {}, ~Syncing(req'[r])
  PROVE  WorkshopInv'
  <1>1. \A s \in Requests : s = r
    BY DEF LoneRequest
  <1>2. \A c \in CheckIns : OpenOf(c) # {} => ro[c] = "IN_WORKSHOP"
    BY <1>1 DEF WorkshopInv, BayIsFollowed, FollowsBay
  <1>3. \A a \in Allocations :
          alloc[a].state = "open" /\ visit[alloc[a].checkIn] = "active" =>
            reserved[alloc[a].checkIn] = alloc[a].bay
    BY <1>1 DEF WorkshopInv, ReservationIsFollowed, FollowsReservation, Syncing
  <1>4. \A a \in Allocations : alloc[a].state = "open" =>
          alloc[a].checkIn \in CheckIns /\ visit[alloc[a].checkIn] # "absent"
    BY DEF WorkshopInv, OpenHasVisit, FloorInv, OpenRows
  <1>5. alloc' = alloc
    BY DEF FloorKept
  <1>6. OpenHasVisit'
    BY <1>4, <1>5 DEF OpenHasVisit
  <1>7. BayIsFollowed'
    BY <1>2, <1>5 DEF BayIsFollowed, OpenOf
  <1>8. ReservationIsFollowed'
    BY <1>3, <1>4, <1>5 DEF ReservationIsFollowed
  <1>9. ArrivesFirst'
    BY <1>1, <1>5 DEF ArrivesFirst, OpenOf, Arrives
  <1>10. BringsBay'
    BY <1>1 DEF BringsBay, Syncing
  <1> QED
    BY <1>6, <1>7, <1>8, <1>9, <1>10 DEF WorkshopInv

\* A step that leaves the requests and all that is followed alone.
LEMMA WorkshopFrame ==
  ASSUME WorkshopInv, ChainInv', FloorInv', FloorKept, UNCHANGED <<visit, ro, reserved, req>>
  PROVE  WorkshopInv'
  <1>1. alloc' = alloc
    BY DEF FloorKept
  <1>2. OpenHasVisit' /\ ArrivesFirst'
    BY <1>1 DEF WorkshopInv, OpenHasVisit, ArrivesFirst, OpenOf, Arrives
  <1>3. BayIsFollowed'
    BY <1>1 DEF WorkshopInv, BayIsFollowed, OpenOf, FollowsBay
  <1>4. ReservationIsFollowed'
    BY <1>1 DEF WorkshopInv, ReservationIsFollowed, FollowsReservation, Syncing
  <1>5. BringsBay'
    BY <1>1 DEF WorkshopInv, BringsBay, OpenOf, Syncing
  <1> QED
    BY <1>2, <1>3, <1>4, <1>5 DEF WorkshopInv

\* The next database call of a request that follows nothing.
LEMMA WorkshopProceedCalm ==
  ASSUME LoneRequest, WorkshopInv, ChainInv', FloorInv', NEW r \in Requests,
         \/ DeleteBay(r) \/ AllocateReadOpen(r) \/ AllocateReadBay(r) \/ AllocateConflict(r)
         \/ ReallocateReadBay(r) \/ ReallocateConflict(r)
         \/ StartReadBay(r) \/ StartWork(r) \/ CompleteCommit(r) \/ CompleteCheck(r)
         \/ SignOff(r) \/ Reject(r) \/ Inspect(r) \/ Redeem(r) \/ CloseVisit(r)
  PROVE  WorkshopInv'
  <1>0. TypeOK /\ TypeOK' /\ FloorInv
    BY DEF WorkshopInv, FloorInv
  <1>1. FloorKept
    BY <1>0, NotOfFloor, FloorRead
  <1>2. /\ UNCHANGED <<ro, reserved>>
        /\ req[r].at \in {"deleteBay", "allocOpen", "allocBay", "allocCommit", "reallocBay", "reallocCommit",
                          "startBay", "startWrite", "finishWrite", "finishCheck", "signOff", "reject",
                          "inspect", "redeemWrite", "closeVisit"}
        /\ visit' = visit \/ visit' = [visit EXCEPT ![req[r].checkIn] = "completed"]
    BY DEF DeleteBay, AllocateReadOpen, AllocateReadBay, AllocateConflict, ReallocateReadBay,
           ReallocateConflict, StartReadBay, StartWork, CompleteCommit, CompleteCheck, SignOff, Reject,
           Inspect, Redeem, CloseVisit
  <1>3. req[r].at \notin RoSteps \cup Releasing \cup {"syncBay"}
    BY <1>2 DEF RoSteps, Releasing
  <1>4. \A c \in CheckIns : visit'[c] = visit[c] \/ visit'[c] = "completed"
    BY <1>0, <1>2 DEF TypeOK
  <1> DEFINE Out == ~Arrives(req'[r]) /\ ~Syncing(req'[r])
  <1>5. /\ {"QC_OUT", "QC_PASSED", "QC_FAILED", "RELEASED"} \subseteq RoStatus
        /\ {"allocBay", "allocCommit", "reallocCommit", "startWrite", "finishCheck"}
             \subseteq Steps \ (RoSteps \cup {"syncBay"})
        /\ Idle.at \notin RoSteps \cup {"syncBay"}
    BY DEF RoStatus, ReachedStatuses, Steps, RoSteps, Idle
  <1>6. ASSUME Finish(r) PROVE Out
    <2>1. req'[r] = Idle
      BY <1>0, <1>6, MovedTo
    <2> QED
      BY <1>5, <2>1 DEF Arrives, Syncing
  <1>7. ASSUME NEW t \in {"QC_OUT", "QC_PASSED", "QC_FAILED", "RELEASED"}, SetRoNext(r, t) PROVE Out
    <2>1. req'[r].at = "roRead" /\ req'[r].target = t
      BY <1>0, <1>5, <1>7, MovedTo
    <2> QED
      BY <2>1 DEF Arrives, Syncing
  <1>8. ASSUME NEW step \in {"allocBay", "allocCommit", "reallocCommit", "startWrite", "finishCheck"},
               Goto(r, step)
        PROVE  Out
    <2>1. req'[r].at = step
      BY <1>0, <1>5, <1>8, MovedTo
    <2> QED
      BY <1>5, <2>1 DEF Arrives, Syncing
  <1> HIDE DEF Out
  <1>9. Out
    BY <1>6, <1>7, <1>8
    DEF DeleteBay, AllocateReadOpen, AllocateReadBay, AllocateConflict, ReallocateReadBay,
        ReallocateConflict, StartReadBay, StartWork, CompleteCommit, CompleteCheck, SignOff, Reject,
        Inspect, Redeem, CloseVisit
  <1> QED
    BY <1>1, <1>2, <1>3, <1>4, <1>9, WorkshopCalm DEF Out

\* A bay is given: the request goes on to the status and the reservation.
LEMMA WorkshopAllocate ==
  ASSUME LoneRequest, WorkshopInv, ChainInv', FloorInv', NEW r \in Requests, AllocateCommit(r)
  PROVE  WorkshopInv'
  <1> DEFINE c == req[r].checkIn
             home == req[r].bay
  <1>0. FloorInv /\ TypeOK'
    BY DEF WorkshopInv, FloorInv
  <1>1. c \in CheckIns /\ OpenOf(c) = {}
    BY <1>0, FloorAllocate
  <1>2. PICK a \in Allocations :
          /\ alloc'[a] = [state |-> "open", checkIn |-> c, bay |-> home]
          /\ \A x \in Allocations : x # a => alloc'[x] = alloc[x]
    BY <1>0, FloorAllocate
  <1>3. /\ req'[r].at = "roRead" /\ req'[r].target = "IN_WORKSHOP"
        /\ req'[r].checkIn = c /\ req'[r].bay = home
    BY <1>0, FloorAllocate DEF Kept
  <1>4. UNCHANGED <<visit, ro, reserved>> /\ req[r].at = "allocCommit"
    BY DEF AllocateCommit
  <1>5. \A s \in Requests : s = r
    BY DEF LoneRequest
  <1>6. visit[c] # "absent"
    BY <1>1 DEF WorkshopInv, ChainInv, StillToCome
  <1>7. OpenHasVisit'
    BY <1>2, <1>4, <1>6 DEF WorkshopInv, OpenHasVisit
  <1>8. BayIsFollowed'
    <2> SUFFICES ASSUME NEW d \in CheckIns, OpenOf(d)' # {}, ro[d] # "IN_WORKSHOP"
                 PROVE  FollowsBay(req'[r], d)
      BY <1>4 DEF BayIsFollowed, FollowsBay, OpenOf
    <2>1. CASE d = c
      BY <1>3, <2>1 DEF FollowsBay, RoSteps
    <2>2. CASE d # c
      <3>1. OpenOf(d) # {}
        BY <1>2, <2>2 DEF OpenOf
      <3> QED
        BY <1>4, <1>5, <3>1 DEF WorkshopInv, BayIsFollowed, FollowsBay, RoSteps, Releasing
    <2> QED
      BY <2>1, <2>2
  <1>9. ReservationIsFollowed'
    <2> SUFFICES ASSUME NEW x \in Allocations, alloc'[x].state = "open",
                        visit[alloc'[x].checkIn] = "active",
                        reserved[alloc'[x].checkIn] # alloc'[x].bay
                 PROVE  FollowsReservation(req[r], x)'
      BY <1>4 DEF ReservationIsFollowed, FollowsReservation, Syncing
    <2>1. CASE x = a
      BY <1>2, <1>3, <2>1 DEF FollowsReservation, Syncing, RoSteps
    <2>2. CASE x # a
      <3>1. alloc'[x] = alloc[x]
        BY <1>2, <2>2
      <3>2. FollowsReservation(req[r], x)
        BY <1>5, <3>1 DEF WorkshopInv, ReservationIsFollowed
      <3> QED
        BY <1>4, <3>2 DEF FollowsReservation, Syncing, RoSteps
    <2> QED
      BY <2>1, <2>2
  <1>10. ArrivesFirst'
    BY <1>3, <1>5 DEF ArrivesFirst, Arrives
  <1>11. BringsBay'
    <2>1. \A x \in Allocations :
            alloc'[x].state = "open" /\ alloc'[x].checkIn = c => alloc'[x].bay = home
      BY <1>1, <1>2 DEF OpenOf
    <2> QED
      BY <1>3, <1>5, <2>1 DEF BringsBay, OpenOf
  <1> QED
    BY <1>7, <1>8, <1>9, <1>10, <1>11 DEF WorkshopInv

\* A visit moves: the request goes on to the reservation.
LEMMA WorkshopReallocate ==
  ASSUME LoneRequest, WorkshopInv, ChainInv', FloorInv', NEW r \in Requests, ReallocateCommit(r)
  PROVE  WorkshopInv'
  <1> DEFINE c == req[r].checkIn
             to == req[r].bay
  <1>0. FloorInv /\ TypeOK'
    BY DEF WorkshopInv, FloorInv
  <1>1. c \in CheckIns
    BY <1>0, FloorReallocate
  <1>2. PICK old \in Allocations, a \in Allocations :
          /\ alloc[old].state = "open" /\ alloc[old].checkIn = c
          /\ alloc'[a] = [state |-> "open", checkIn |-> c, bay |-> to]
          /\ alloc'[old].state = "released"
          /\ \A x \in Allocations : x \notin {a, old} => alloc'[x] = alloc[x]
    BY <1>0, FloorReallocate
  <1>3. req'[r].at = "syncBay" /\ req'[r].checkIn = c /\ req'[r].bay = to
    BY <1>0, FloorReallocate DEF Kept
  <1>4. UNCHANGED <<visit, ro, reserved>> /\ req[r].at = "reallocCommit"
    BY DEF ReallocateCommit
  <1>5. \A s \in Requests : s = r
    BY DEF LoneRequest
  <1>6. \A d \in CheckIns : OpenOf(d) # {} => ro[d] = "IN_WORKSHOP"
    BY <1>4, <1>5 DEF WorkshopInv, BayIsFollowed, FollowsBay, RoSteps, Releasing
  <1>7. \A x \in Allocations : alloc'[x].state = "open" => x = a \/ alloc'[x] = alloc[x]
    BY <1>2
  <1>8. OpenHasVisit'
    BY <1>2, <1>4, <1>7 DEF WorkshopInv, OpenHasVisit
  <1>9. BayIsFollowed'
    <2>1. \A d \in CheckIns : OpenOf(d)' # {} => OpenOf(d) # {}
      BY <1>2, <1>7 DEF OpenOf
    <2> QED
      BY <1>4, <1>6, <2>1 DEF BayIsFollowed
  <1>10. ReservationIsFollowed'
    <2> SUFFICES ASSUME NEW x \in Allocations, alloc'[x].state = "open",
                        visit[alloc'[x].checkIn] = "active",
                        reserved[alloc'[x].checkIn] # alloc'[x].bay
                 PROVE  FollowsReservation(req[r], x)'
      BY <1>4 DEF ReservationIsFollowed, FollowsReservation, Syncing
    <2>1. CASE x = a
      BY <1>2, <1>3, <2>1 DEF FollowsReservation, Syncing
    <2>2. CASE x # a
      <3>1. alloc'[x] = alloc[x]
        BY <1>7, <2>2
      <3>2. FollowsReservation(req[r], x)
        BY <1>5, <3>1 DEF WorkshopInv, ReservationIsFollowed
      <3> QED
        BY <1>4, <3>2 DEF FollowsReservation, Syncing, RoSteps
    <2> QED
      BY <2>1, <2>2
  <1>11. ArrivesFirst'
    BY <1>3, <1>5 DEF ArrivesFirst, Arrives, RoSteps
  <1>12. BringsBay'
    <2>1. \A x \in Allocations :
            alloc'[x].state = "open" /\ alloc'[x].checkIn = c => alloc'[x].bay = to
      BY <1>2, <1>7 DEF WorkshopInv, FloorInv, OpenRows
    <2> QED
      BY <1>3, <1>5, <2>1 DEF BringsBay, OpenOf
  <1> QED
    BY <1>8, <1>9, <1>10, <1>11, <1>12 DEF WorkshopInv

\* A bay is freed: its visit needs no following any more.
LEMMA WorkshopRelease ==
  ASSUME LoneRequest, WorkshopInv, ChainInv', FloorInv', NEW r \in Requests, ReleaseCommit(r)
  PROVE  WorkshopInv'
  <1> DEFINE c == req[r].checkIn
  <1>0. FloorInv /\ TypeOK'
    BY DEF WorkshopInv, FloorInv
  <1>1. PICK a \in Allocations :
          /\ alloc[a].state = "open" /\ alloc[a].checkIn = c
          /\ alloc'[a].state = "released"
          /\ \A x \in Allocations : x # a => alloc'[x] = alloc[x]
    BY <1>0, FloorRelease
  <1>2. Returned(req[r], req'[r])
    BY <1>0, FloorRelease
  <1>3. UNCHANGED <<visit, ro, reserved>> /\ req[r].at = "releaseCommit"
    BY DEF ReleaseCommit
  <1>4. \A s \in Requests : s = r
    BY DEF LoneRequest
  <1>5. \A x \in Allocations : alloc'[x].state = "open" =>
          x # a /\ alloc'[x] = alloc[x] /\ alloc[x].checkIn # c
    BY <1>1 DEF WorkshopInv, FloorInv, OpenRows
  <1>6. OpenHasVisit'
    BY <1>3, <1>5 DEF WorkshopInv, OpenHasVisit
  <1>7. BayIsFollowed'
    <2> SUFFICES ASSUME NEW d \in CheckIns, OpenOf(d)' # {} PROVE ro[d] = "IN_WORKSHOP"
      BY <1>3 DEF BayIsFollowed, OpenOf
    <2>1. d # c /\ OpenOf(d) # {}
      BY <1>5 DEF OpenOf
    <2> QED
      BY <1>4, <2>1 DEF WorkshopInv, BayIsFollowed, FollowsBay
  <1>8. ReservationIsFollowed'
    <2> SUFFICES ASSUME NEW x \in Allocations, alloc'[x].state = "open",
                        visit[alloc'[x].checkIn] = "active"
                 PROVE  reserved[alloc'[x].checkIn] = alloc'[x].bay
      BY <1>3 DEF ReservationIsFollowed
    <2> QED
      BY <1>3, <1>4, <1>5 DEF WorkshopInv, ReservationIsFollowed, FollowsReservation, Syncing, RoSteps
  <1>9. ArrivesFirst'
    <2>1. ~Arrives(req'[r])
      BY <1>2, StatusesDiffer DEF Returned, Arrives, Idle, RoSteps
    <2> QED
      BY <1>4, <2>1 DEF ArrivesFirst, Arrives
  <1>10. BringsBay'
    <2>1. Syncing(req'[r]) => req'[r].checkIn = c
      BY <1>2 DEF Returned, Kept, Idle, Syncing, RoSteps
    <2> QED
      BY <1>4, <1>5, <2>1 DEF BringsBay, OpenOf
  <1> QED
    BY <1>6, <1>7, <1>8, <1>9, <1>10 DEF WorkshopInv

\* The reservation follows.
LEMMA WorkshopSync ==
  ASSUME LoneRequest, WorkshopInv, ChainInv', FloorInv', NEW r \in Requests, SyncBay(r)
  PROVE  WorkshopInv'
  <1> DEFINE c == req[r].checkIn
  <1>0. TypeOK /\ FloorInv
    BY DEF WorkshopInv, FloorInv
  <1>1. /\ req[r].at = "syncBay" /\ UNCHANGED <<visit, ro, alloc>>
        /\ reserved' = [d \in CheckIns |-> IF d = c /\ visit[d] = "active" THEN req[r].bay ELSE reserved[d]]
    BY DEF SyncBay
  <1>2. req'[r] = Idle /\ Idle.at = "idle"
    BY <1>0, MovedTo DEF SyncBay, Idle
  <1>3. \A s \in Requests : s = r
    BY DEF LoneRequest
  <1>4. OpenHasVisit'
    BY <1>1 DEF WorkshopInv, OpenHasVisit
  <1>5. BayIsFollowed'
    BY <1>1, <1>3 DEF WorkshopInv, BayIsFollowed, OpenOf, FollowsBay, RoSteps, Releasing
  <1>6. ReservationIsFollowed'
    <2> SUFFICES ASSUME NEW x \in Allocations, alloc[x].state = "open",
                        visit[alloc[x].checkIn] = "active"
                 PROVE  reserved'[alloc[x].checkIn] = alloc[x].bay
      BY <1>1 DEF ReservationIsFollowed
    <2>1. alloc[x].checkIn \in CheckIns
      BY <1>0 DEF FloorInv, OpenRows
    <2>2. reserved[alloc[x].checkIn] # alloc[x].bay => FollowsReservation(req[r], x)
      BY <1>3 DEF WorkshopInv, ReservationIsFollowed
    <2>3. CASE alloc[x].checkIn = c
      <3>1. reserved'[c] = req[r].bay
        BY <1>1, <2>1, <2>3
      <3>2. x \in OpenOf(c)
        BY <2>3 DEF OpenOf
      <3> QED
        BY <1>1, <2>3, <3>1, <3>2 DEF WorkshopInv, BringsBay, Syncing
    <2>4. CASE alloc[x].checkIn # c
      BY <1>1, <2>1, <2>2, <2>4 DEF FollowsReservation, Syncing
    <2> QED
      BY <2>3, <2>4
  <1>7. ArrivesFirst'
    BY <1>2, <1>3 DEF ArrivesFirst, Arrives, RoSteps
  <1>8. BringsBay'
    BY <1>2, <1>3 DEF BringsBay, Syncing, RoSteps
  <1> QED
    BY <1>4, <1>5, <1>6, <1>7, <1>8 DEF WorkshopInv

\* A request inside setRoStatus: the status, the release or the reservation is next.
LEMMA WorkshopSetting ==
  ASSUME LoneRequest, WorkshopInv, ChainInv', FloorInv', NEW r \in Requests,
         RoRead(r) \/ RoWrite(r) \/ ReleaseRead(r)
  PROVE  WorkshopInv'
  <1> DEFINE p == req[r]
             q == req'[r]
             c == p.checkIn
  <1>0. TypeOK /\ Ordered(p) /\ FloorInv /\ \A s \in Requests : s = r
    BY DEF WorkshopInv, FloorInv, ChainInv, LoneRequest
  <1>1. UNCHANGED <<visit, reserved, bay, alloc>>
    BY DEF RoRead, RoWrite, ReleaseRead
  <1>2. OpenHasVisit'
    BY <1>1 DEF WorkshopInv, OpenHasVisit
  <1>3. /\ \A d \in CheckIns : OpenOf(d) # {} /\ ro[d] # "IN_WORKSHOP" => FollowsBay(p, d)
        /\ \A a \in Allocations :
             alloc[a].state = "open" /\ visit[alloc[a].checkIn] = "active" =>
               reserved[alloc[a].checkIn] = alloc[a].bay \/ FollowsReservation(p, a)
        /\ Arrives(p) => OpenOf(c) = {}
        /\ Syncing(p) => \A a \in OpenOf(c) : alloc[a].bay = p.bay
    BY <1>0 DEF WorkshopInv, BayIsFollowed, ReservationIsFollowed, ArrivesFirst, BringsBay
  <1>4. ASSUME \A d \in CheckIns : OpenOf(d) # {} /\ ro'[d] # "IN_WORKSHOP" => FollowsBay(q, d),
               \A a \in Allocations : FollowsReservation(p, a) => FollowsReservation(q, a),
               Arrives(q) => OpenOf(q.checkIn) = {},
               Syncing(q) => \A a \in OpenOf(q.checkIn) : alloc[a].bay = q.bay
        PROVE  WorkshopInv'
    <2>1. BayIsFollowed'
      BY <1>1, <1>4 DEF BayIsFollowed, OpenOf, FollowsBay
    <2>2. ReservationIsFollowed'
      BY <1>1, <1>3, <1>4 DEF ReservationIsFollowed, FollowsReservation, Syncing
    <2>3. ArrivesFirst' /\ BringsBay'
      BY <1>0, <1>1, <1>4 DEF ArrivesFirst, BringsBay, OpenOf, Arrives, Syncing
    <2> QED
      BY <1>2, <2>1, <2>2, <2>3 DEF WorkshopInv
  <1>5. ASSUME Returned(p, q), p.at \in RoSteps \cup Releasing
        PROVE  /\ ~Arrives(q)
               /\ Syncing(q) => p.target = "IN_WORKSHOP" /\ Kept(p, q)
               /\ p.at \in RoSteps => \A a \in Allocations : FollowsReservation(p, a) => FollowsReservation(q, a)
               /\ p.at \in Releasing => \A a \in Allocations : ~FollowsReservation(p, a)
    BY <1>5 DEF Returned, Arrives, Syncing, FollowsReservation, Kept, Idle, RoSteps, Releasing
  <1>6. CASE RoRead(r)
    <2>1. p.at = "roRead" /\ ro' = ro
      BY <1>6 DEF RoRead
    <2>2. CASE Return(r) /\ ro[c] = p.target
      <3>1. Returned(p, q)
        BY <1>0, <2>2, MovedTo
      <3>2. \A d \in CheckIns : OpenOf(d) # {} => ro[d] = "IN_WORKSHOP"
        BY <1>3, <2>1, <2>2 DEF FollowsBay, Releasing
      <3>3. Syncing(q) => Syncing(p) /\ Kept(p, q)
        BY <1>5, <2>1, <3>1 DEF Syncing, RoSteps
      <3> QED
        BY <1>3, <1>4, <1>5, <2>1, <3>1, <3>2, <3>3 DEF Kept, RoSteps
    <2>3. CASE Goto(r, "roWrite")
      <3>1. q.at = "roWrite" /\ q.target = p.target /\ Kept(p, q)
        <4>1. "roWrite" \in Steps
          BY DEF Steps
        <4> QED
          BY <1>0, <2>3, <4>1, MovedTo
      <3> QED
        BY <1>3, <1>4, <2>1, <3>1
        DEF FollowsBay, FollowsReservation, Arrives, Syncing, Kept, RoSteps, Releasing
    <2> QED
      BY <1>6, <2>2, <2>3 DEF RoRead
  <1>7. CASE RoWrite(r)
    <2>1. /\ p.at = "roWrite" /\ ro' = [ro EXCEPT ![c] = p.target]
          /\ IF p.target \in BayReleasing THEN Goto(r, "releaseRead") ELSE Return(r)
      BY <1>7 DEF RoWrite
    <2>2. \A d \in CheckIns : ro'[d] = IF d = c THEN p.target ELSE ro[d]
      BY <1>0, <2>1 DEF TypeOK
    <2>3. \A d \in CheckIns : d # c /\ OpenOf(d) # {} => ro[d] = "IN_WORKSHOP"
      BY <1>3 DEF FollowsBay
    <2>4. CASE p.target \in BayReleasing
      <3>1. q.at = "releaseRead" /\ q.target = p.target /\ Kept(p, q)
        <4>1. "releaseRead" \in Steps /\ Goto(r, "releaseRead")
          BY <2>1, <2>4 DEF Steps
        <4> QED
          BY <1>0, <4>1, MovedTo
      <3>2. p.target # "IN_WORKSHOP"
        BY <2>4 DEF BayReleasing
      <3>3. /\ \A d \in CheckIns : OpenOf(d) # {} /\ ro'[d] # "IN_WORKSHOP" => FollowsBay(q, d)
            /\ \A a \in Allocations : ~FollowsReservation(p, a)
            /\ ~Arrives(q) /\ ~Syncing(q)
        BY <2>1, <2>2, <2>3, <3>1, <3>2
        DEF FollowsBay, FollowsReservation, Arrives, Syncing, Kept, RoSteps, Releasing
      <3> QED
        BY <1>4, <3>3
    <2>5. CASE p.target \notin BayReleasing
      <3>1. Returned(p, q)
        BY <1>0, <2>1, <2>5, MovedTo
      <3>2. p.target \in {"ARRIVED", "IN_WORKSHOP"}
        BY <1>0, <2>1, <2>5 DEF Ordered, RoSteps, ReachedStatuses, BayReleasing
      <3>3. p.target = "ARRIVED" => OpenOf(c) = {}
        BY <1>3, <2>1 DEF Arrives, RoSteps
      <3>4. \A d \in CheckIns : OpenOf(d) # {} => ro'[d] = "IN_WORKSHOP"
        BY <2>2, <2>3, <3>2, <3>3
      <3>5. Syncing(q) => Syncing(p) /\ Kept(p, q)
        BY <1>5, <2>1, <3>1 DEF Syncing, RoSteps
      <3> QED
        BY <1>3, <1>4, <1>5, <2>1, <3>1, <3>4, <3>5 DEF Kept, RoSteps
    <2> QED
      BY <2>4, <2>5
  <1>8. CASE ReleaseRead(r)
    <2>1. p.at = "releaseRead" /\ ro' = ro
      BY <1>8 DEF ReleaseRead
    <2>2. \A d \in CheckIns : d # c /\ OpenOf(d) # {} => ro[d] = "IN_WORKSHOP"
      BY <1>3 DEF FollowsBay
    <2>3. CASE OpenOf(c) = {}
      <3>1. Returned(p, q)
        BY <1>0, <1>8, <2>3, MovedTo DEF ReleaseRead
      <3>2. \A d \in CheckIns : OpenOf(d) # {} => ro[d] = "IN_WORKSHOP"
        BY <2>2, <2>3
      <3>3. Syncing(q) => OpenOf(q.checkIn) = {}
        BY <1>5, <2>1, <2>3, <3>1 DEF Kept, Releasing
      <3> QED
        BY <1>4, <1>5, <2>1, <3>1, <3>2, <3>3 DEF Releasing
    <2>4. CASE OpenOf(c) # {}
      <3>1. PICK a \in OpenOf(c) : req' = [req EXCEPT ![r] = [@ EXCEPT !.at = "releaseCommit", !.alloc = a]]
        BY <1>8, <2>4 DEF ReleaseRead
      <3>2. q.at = "releaseCommit" /\ Kept(p, q)
        <4>1. a \in Allocations
          BY DEF OpenOf
        <4> QED
          BY <1>0, <3>1, <4>1, MovedTo
      <3>3. /\ \A d \in CheckIns : OpenOf(d) # {} /\ ro'[d] # "IN_WORKSHOP" => FollowsBay(q, d)
            /\ \A x \in Allocations : ~FollowsReservation(p, x)
            /\ ~Arrives(q) /\ ~Syncing(q)
        BY <2>1, <2>2, <3>2
        DEF FollowsBay, FollowsReservation, Arrives, Syncing, Kept, RoSteps, Releasing
      <3> QED
        BY <1>4, <3>3
    <2> QED
      BY <2>3, <2>4
  <1> QED
    BY <1>6, <1>7, <1>8

\* A client calls.
LEMMA WorkshopCall ==
  ASSUME LoneRequest, WorkshopInv, ChainInv', FloorInv', NEW r \in Requests, Call(r)
  PROVE  WorkshopInv'
  <1> DEFINE q == req'[r]
  <1>0. TypeOK /\ FloorInv /\ TypeOK'
    BY DEF WorkshopInv, FloorInv
  <1>1. /\ UNCHANGED <<ro, reserved>> /\ req[r].at = "idle" /\ Called(q)
        /\ \/ visit' = visit
           \/ visit' = [visit EXCEPT ![q.checkIn] = "active"] /\ visit[q.checkIn] = "absent"
    BY <1>0, CallBegins
  <1>2. FloorKept
    BY <1>0, FloorCall
  <1>3. req[r].at \notin RoSteps \cup Releasing \cup {"syncBay"}
    BY <1>1 DEF RoSteps, Releasing
  <1>4. \A c \in CheckIns : visit'[c] = visit[c] \/ (visit[c] = "absent" /\ visit'[c] = "active")
    BY <1>0, <1>1 DEF TypeOK
  <1>5. ~Syncing(q) /\ (Arrives(q) => visit[q.checkIn] = "absent" /\ q.checkIn \in CheckIns)
    BY <1>1, StatusesDiffer DEF Called, Syncing, Arrives, RoSteps
  <1>6. Arrives(q) => OpenOf(q.checkIn) = {}
    BY <1>5 DEF WorkshopInv, OpenHasVisit, OpenOf
  <1> QED
    BY <1>1, <1>2, <1>3, <1>4, <1>5, <1>6, WorkshopCalm

\* Every step keeps it, when no request fails.
LEMMA WorkshopNext ==
  ASSUME NothingFails, LoneRequest, WorkshopInv, [Next]_vars
  PROVE  WorkshopInv'
  <1>0. ChainInv' /\ FloorInv' /\ TypeOK
    BY ChainNext, FloorNext DEF WorkshopInv, FloorInv
  <1>1. ASSUME NEW r \in Requests PROVE ~Fail(r) /\ ~ReleaseSwallowed(r)
    BY <1>0 DEF Fail, ReleaseSwallowed, TypeOK, NothingFails
  <1>2. ASSUME NEW r \in Requests, Proceed(r) PROVE WorkshopInv'
    BY <1>0, <1>2, WorkshopProceedCalm, WorkshopAllocate, WorkshopReallocate, WorkshopRelease, WorkshopSync,
       WorkshopSetting DEF Proceed
  <1>3. ASSUME NEW r \in Requests, Call(r) PROVE WorkshopInv'
    BY <1>0, <1>3, WorkshopCall
  <1>4. ASSUME NEW b \in Bays, CreateBay(b) \/ UpdateBay(b) PROVE WorkshopInv'
    <2>1. FloorKept
      BY <1>0, <1>4, FloorMasterData DEF WorkshopInv, FloorInv
    <2> QED
      BY <1>0, <1>4, <2>1, WorkshopFrame DEF CreateBay, UpdateBay
  <1>5. ASSUME NEW j \in JobCards, ApproveJobCard(j) \/ MintGatePass(j) PROVE WorkshopInv'
    BY <1>0, <1>5, WorkshopFrame DEF ApproveJobCard, MintGatePass, FloorKept
  <1>6. CASE UNCHANGED vars
    BY <1>0, <1>6, WorkshopFrame DEF vars, FloorKept
  <1> QED
    BY <1>1, <1>2, <1>3, <1>4, <1>5, <1>6 DEF Next

\* It holds at the start.
LEMMA WorkshopInit ==
  ASSUME Init
  PROVE  WorkshopInv
  <1>1. \A r \in Requests : ~Arrives(req[r]) /\ ~Syncing(req[r])
    BY DEF Init, Idle, Arrives, Syncing, RoSteps
  <1>2. \A a \in Allocations : alloc[a].state = "unused"
    BY DEF Init
  <1> QED
    BY <1>1, <1>2, ChainInit, FloorInit
    DEF WorkshopInv, OpenHasVisit, BayIsFollowed, ReservationIsFollowed, ArrivesFirst, BringsBay, OpenOf

(* A visit that has a bay is in the workshop, and one past the workshop has none, with
   requests one at a time that run to their end. *)
THEOREM BaysAreOfTheWorkshop ==
  ASSUME NothingFails, LoneRequest
  PROVE  Spec => []BayOnlyInWorkshop
  <1>1. WorkshopInv => BayOnlyInWorkshop
    BY DEF WorkshopInv, BayIsFollowed, FollowsBay, BayOnlyInWorkshop, Quiet
  <1> QED
    BY <1>1, WorkshopInit, WorkshopNext, PTL DEF Spec

(* The appointment of a visit that has a bay holds that bay, with requests one at a
   time that run to their end. *)
THEOREM ReservationsFollow ==
  ASSUME NothingFails, LoneRequest
  PROVE  Spec => []ReservationFollowsFloor
  <1>1. WorkshopInv => ReservationFollowsFloor
    BY DEF WorkshopInv, ReservationIsFollowed, FollowsReservation, ReservationFollowsFloor, Quiet
  <1> QED
    BY <1>1, WorkshopInit, WorkshopNext, PTL DEF Spec

-----------------------------------------------------------------------------
(***************************************************************************)
(* The status trail (RoStatusTrail), which every handler above writes      *)
(* through setRoStatus: for any number of overlapping calls on one         *)
(* check-in.                                                               *)
(*                                                                         *)
(* What the rows say rests on what a call in flight remembers: it found a  *)
(* status other than its target, and a status the check-in really had.     *)
(* Both stay true while other calls commit.                                *)
(***************************************************************************)

\* The status s is that of a check-in without history, or some row set it.
Reached(s, rows) == s = NoStatus \/ \E j \in 1..Len(rows) : rows[j].to = s

\* What a call that is going to write has read.
WritersMove ==
  \A k \in Calls :
    call[k].pc = "writing" => call[k].from # call[k].to /\ Reached(call[k].from, history)

TrailInv == TrailTypes /\ StatusIsLastCommitted /\ NoSelfLoops /\ OriginsHappened /\ WritersMove

-----------------------------------------------------------------------------

\* A row appended at the end leaves the others where they are.
LEMMA AppendedRow ==
  ASSUME NEW rows \in Seq(Row), NEW row \in Row
  PROVE  /\ Append(rows, row) \in Seq(Row)
         /\ Len(Append(rows, row)) = Len(rows) + 1
         /\ \A i \in 1..Len(rows) : Append(rows, row)[i] = rows[i]
         /\ Append(rows, row)[Len(rows) + 1] = row
  OBVIOUS

\* A status once reached stays reached.
LEMMA ReachedStays ==
  ASSUME NEW rows \in Seq(Row), NEW row \in Row, NEW s, Reached(s, rows)
  PROVE  Reached(s, Append(rows, row))
  <1>1. CASE s = NoStatus
    BY <1>1 DEF Reached
  <1>2. CASE \E j \in 1..Len(rows) : rows[j].to = s
    <2>1. PICK j \in 1..Len(rows) : rows[j].to = s
      BY <1>2
    <2>2. /\ j \in 1..Len(Append(rows, row))
          /\ Append(rows, row)[j].to = s
      BY <2>1, AppendedRow
    <2> QED
      BY <2>2 DEF Reached
  <1> QED
    BY <1>1, <1>2 DEF Reached

\* The status the check-in has is one it reached.
LEMMA CurrentReached ==
  ASSUME TrailTypes, StatusIsLastCommitted
  PROVE  Reached(roStatus, history)
  <1>1. CASE history = <<>>
    BY <1>1 DEF StatusIsLastCommitted, LastTo, Reached
  <1>2. CASE history # <<>>
    <2>1. Len(history) \in 1..Len(history)
      BY <1>2 DEF TrailTypes
    <2>2. roStatus = history[Len(history)].to
      BY <1>2 DEF StatusIsLastCommitted, LastTo
    <2> QED
      BY <2>1, <2>2 DEF Reached
  <1> QED
    BY <1>1, <1>2

\* Steps that write nothing keep what the history says.
LEMMA HistoryUnchanged ==
  ASSUME StatusIsLastCommitted, NoSelfLoops, OriginsHappened, UNCHANGED <<roStatus, history>>
  PROVE  StatusIsLastCommitted' /\ NoSelfLoops' /\ OriginsHappened'
  BY DEF StatusIsLastCommitted, LastTo, NoSelfLoops, OriginsHappened

-----------------------------------------------------------------------------

LEMMA InitEstablishes == TrailInit => TrailInv
  <1> SUFFICES ASSUME TrailInit PROVE TrailInv
    OBVIOUS
  <1>1. TrailTypes
    BY TargetsAssumption DEF TrailInit, TrailTypes, CallState, Row
  <1>2. \A k \in Calls : call[k].pc = "waiting"
    BY DEF TrailInit
  <1>3. StatusIsLastCommitted /\ NoSelfLoops /\ OriginsHappened
    BY DEF TrailInit, StatusIsLastCommitted, LastTo, NoSelfLoops, OriginsHappened
  <1>4. WritersMove
    BY <1>2 DEF WritersMove
  <1> QED
    BY <1>1, <1>3, <1>4 DEF TrailInv

LEMMA ReadKeeps ==
  ASSUME TrailInv, NEW k \in Calls, ReadCurrent(k)
  PROVE  TrailInv'
  <1> USE DEF TrailInv
  <1>0. call[k].pc = "waiting" /\ UNCHANGED <<roStatus, history>>
    BY DEF ReadCurrent
  <1>1. CASE roStatus = call[k].to
    <2>1. call' = [call EXCEPT ![k].pc = "done", ![k].from = roStatus] /\ clock' = clock
      BY <1>1 DEF ReadCurrent
    <2>2. TrailTypes'
      BY <1>0, <2>1 DEF TrailTypes, CallState
    <2>3. \A l \in Calls : call'[l].pc = "writing" => call'[l] = call[l]
      BY <2>1 DEF TrailTypes, CallState
    <2>4. WritersMove'
      BY <1>0, <2>3 DEF WritersMove, Reached
    <2> QED
      BY <1>0, <2>2, <2>4, HistoryUnchanged
  <1>2. CASE roStatus # call[k].to
    <2> DEFINE writing == [call[k] EXCEPT !.pc = "writing", !.from = roStatus, !.at = clock]
    <2>1. call' = [call EXCEPT ![k] = writing] /\ clock' = clock + 1
      BY <1>2 DEF ReadCurrent
    <2>2. TrailTypes'
      <3>1. writing \in CallState
        BY DEF TrailTypes, CallState
      <3>2. call' \in [Calls -> CallState]
        BY <2>1, <3>1 DEF TrailTypes
      <3> QED
        BY <1>0, <2>1, <3>2 DEF TrailTypes
    <2>3. WritersMove'
      <3> SUFFICES ASSUME NEW l \in Calls, call'[l].pc = "writing"
                   PROVE  call'[l].from # call'[l].to /\ Reached(call'[l].from, history)
        BY <1>0 DEF WritersMove, Reached
      <3>1. CASE l = k
        <4>1. call'[l].from = roStatus /\ call'[l].to = call[k].to
          BY <2>1, <3>1 DEF TrailTypes, CallState
        <4> QED
          BY <1>2, <4>1, CurrentReached
      <3>2. CASE l # k
        BY <2>1, <3>2 DEF WritersMove, TrailTypes
      <3> QED
        BY <3>1, <3>2
    <2> QED
      BY <1>0, <2>2, <2>3, HistoryUnchanged
  <1> QED
    BY <1>1, <1>2

LEMMA WriteKeeps ==
  ASSUME TrailInv, NEW k \in Calls, WriteStatus(k)
  PROVE  TrailInv'
  <1> USE DEF TrailInv
  <1> DEFINE row == [from |-> call[k].from, to |-> call[k].to, at |-> call[k].at]
             n == Len(history)
  <1>1. /\ call[k].pc = "writing"
        /\ roStatus' = call[k].to
        /\ history' = Append(history, row)
        /\ call' = [call EXCEPT ![k].pc = "done"]
        /\ clock' = clock
    BY DEF WriteStatus
  <1>2. row \in Row
    BY TargetsAssumption DEF TrailTypes, CallState, Row
  <1>3. history \in Seq(Row) /\ n \in Nat
    BY DEF TrailTypes
  <1>4. /\ history' \in Seq(Row)
        /\ Len(history') = n + 1
        /\ \A i \in 1..n : history'[i] = history[i]
        /\ history'[n + 1] = row
    BY <1>1, <1>2, <1>3, AppendedRow
  <1>5. call[k].from # call[k].to /\ Reached(call[k].from, history)
    BY <1>1 DEF WritersMove
  <1> HIDE DEF row
  <1>6. TrailTypes'
    <2>1. roStatus' \in RoStatus
      BY <1>1, TargetsAssumption DEF TrailTypes, CallState
    <2>2. call' \in [Calls -> CallState]
      BY <1>1 DEF TrailTypes, CallState
    <2> QED
      BY <1>1, <1>4, <2>1, <2>2 DEF TrailTypes
  <1>7. StatusIsLastCommitted'
    <2>1. history' # <<>>
      BY <1>3, <1>4
    <2>2. history'[Len(history')].to = call[k].to
      BY <1>4 DEF row
    <2> QED
      BY <1>1, <2>1, <2>2 DEF StatusIsLastCommitted, LastTo
  <1>8. NoSelfLoops'
    <2>1. history'[n + 1].from # history'[n + 1].to
      BY <1>4, <1>5 DEF row
    <2>2. \A i \in 1..n : history'[i].from # history'[i].to
      BY <1>4 DEF NoSelfLoops
    <2> QED
      BY <1>3, <1>4, <2>1, <2>2 DEF NoSelfLoops
  <1>9. OriginsHappened'
    <2> SUFFICES ASSUME NEW i \in 1..(n + 1)
                 PROVE  \/ history'[i].from = NoStatus
                        \/ \E j \in 1..(i - 1) : history'[j].to = history'[i].from
      BY <1>4 DEF OriginsHappened
    <2>1. CASE i = n + 1
      <3>1. history'[i].from = call[k].from
        BY <1>4, <2>1 DEF row
      <3>2. \A j \in 1..n : history'[j].to = history[j].to
        BY <1>4
      <3> QED
        BY <1>3, <1>5, <2>1, <3>1, <3>2 DEF Reached
    <2>2. CASE i \in 1..n
      <3>1. /\ history'[i] = history[i]
            /\ \A j \in 1..(i - 1) : history'[j] = history[j]
        BY <1>3, <1>4, <2>2
      <3> QED
        BY <2>2, <3>1 DEF OriginsHappened
    <2> QED
      BY <1>3, <2>1, <2>2
  <1>10. WritersMove'
    <2>1. \A l \in Calls : call'[l].pc = "writing" => call'[l] = call[l]
      BY <1>1 DEF TrailTypes, CallState
    <2>2. \A s : Reached(s, history) => Reached(s, history')
      BY <1>1, <1>2, <1>3, ReachedStays
    <2>3. ASSUME NEW l \in Calls, call'[l].pc = "writing"
          PROVE  /\ call'[l].from # call'[l].to
                 /\ Reached(call'[l].from, history')
      <3>1. call'[l] = call[l] /\ call[l].pc = "writing"
        BY <2>1, <2>3
      <3>2. call[l].from # call[l].to /\ Reached(call[l].from, history)
        BY <3>1 DEF WritersMove
      <3> QED
        BY <3>1, <3>2, <2>2
    <2>4. \A l \in Calls : call'[l].pc = "writing" =>
            /\ call'[l].from # call'[l].to
            /\ call'[l].from = NoStatus \/ \E j \in 1..Len(history') : history'[j].to = call'[l].from
      BY <2>3, Zenon DEF Reached
    <2> QED
      BY <2>4, Zenon DEF WritersMove, Reached
  <1> QED
    BY <1>6, <1>7, <1>8, <1>9, <1>10

LEMMA FailKeeps ==
  ASSUME TrailInv, NEW k \in Calls, CallFails(k)
  PROVE  TrailInv'
  <1> USE DEF TrailInv
  <1>1. call' = [call EXCEPT ![k].pc = "done"] /\ UNCHANGED <<roStatus, history, clock>>
    BY DEF CallFails
  <1>2. TrailTypes'
    BY <1>1 DEF TrailTypes, CallState
  <1>3. \A l \in Calls : call'[l].pc = "writing" => call'[l] = call[l]
    BY <1>1 DEF TrailTypes, CallState
  <1>4. WritersMove'
    BY <1>1, <1>3 DEF WritersMove, Reached
  <1> QED
    BY <1>1, <1>2, <1>4, HistoryUnchanged

(* The inductive invariant. *)
LEMMA TrailInductive == TrailSpec => []TrailInv
  <1>1. TrailInv /\ [TrailNext]_trailVars => TrailInv'
    <2> SUFFICES ASSUME TrailInv, [TrailNext]_trailVars PROVE TrailInv'
      OBVIOUS
    <2>1. CASE UNCHANGED trailVars
      BY <2>1 DEF trailVars, TrailInv, TrailTypes, StatusIsLastCommitted, LastTo, NoSelfLoops,
                  OriginsHappened, WritersMove, Reached
    <2> QED
      BY <2>1, ReadKeeps, WriteKeeps, FailKeeps DEF TrailNext
  <1> QED
    BY <1>1, InitEstablishes, PTL DEF TrailSpec

(* Every reachable state is well typed. *)
THEOREM TrailTypeCorrect == TrailSpec => []TrailTypes
  BY TrailInductive, PTL DEF TrailInv

(* The check-in's status is that of the history row committed last, however many
   calls of setRoStatus overlap or fail. *)
THEOREM StatusMatchesTrail == TrailSpec => []StatusIsLastCommitted
  BY TrailInductive, PTL DEF TrailInv

(* No history row goes from a status to itself, although the guard of a call looks
   at a status that may have changed by the time it writes. *)
THEOREM RowsMove == TrailSpec => []NoSelfLoops
  BY TrailInductive, PTL DEF TrailInv

(* The origin a history row names is one the check-in really had. *)
THEOREM OriginsAreReal == TrailSpec => []OriginsHappened
  BY TrailInductive, PTL DEF TrailInv
=============================================================================
