------------------------ MODULE TechnicianWorkProofs ------------------------
(***************************************************************************)
(* For any items, technicians and number of requests in flight: the rows   *)
(* keep their types, and the foreman never gets unfinished work to review. *)
(* With technicians one at a time, and any number of foremen: finished     *)
(* work is handed over, and the timers are in order.                       *)
(***************************************************************************)
EXTENDS TechnicianWork, TLAPS

\* A completion that found nothing remaining still finds nothing when it commits: what
\* could open an item again waits for the item it holds.
LastIsLast ==
  \A r \in Requests :
    req[r].at = "completeCommit" =>
      /\ req[r].item \in Items
      /\ req[r].left = {} => \A i \in Work \ {req[r].item} : done[i]

\* Whoever wants to complete an item has named one.
CompletionHasItem ==
  \A r \in Requests : req[r].at \in {"startItem", "complete", "startCommit", "pause", "assign", "reassign"} =>
                        req[r].item \in Items

IInv == TypeOK /\ ReviewedWorkIsDone /\ LastIsLast /\ CompletionHasItem

(* A new request is of the right type and holds nothing yet. *)
LEMMA BeginKeeps ==
  ASSUME IInv, NEW r \in Requests,
         NEW at \in {"startCard", "startItem", "pause", "complete", "assign", "reassign", "signOff",
                     "reject"},
         NEW t \in Technicians \cup {Nobody}, NEW i \in Items \cup {NoItem},
         at \notin {"startCard", "signOff", "reject"} => i \in Items,
         Begin(r, at, t, i), UNCHANGED <<status, done, assigned, timer>>
  PROVE  IInv'
<1>1. req' \in [Requests -> Request]
  BY DEF IInv, TypeOK, Begin, Idle, Request
<1>2. \A s \in Requests : s # r => req'[s] = req[s]
  BY DEF IInv, TypeOK, Begin
<1>3. req'[r].at = at /\ req'[r].item = i
  BY DEF IInv, TypeOK, Begin, Idle, Request
<1>4. LastIsLast'
  BY <1>2, <1>3 DEF IInv, LastIsLast
<1>5. CompletionHasItem'
  BY <1>2, <1>3 DEF IInv, CompletionHasItem
<1> QED
  BY <1>1, <1>4, <1>5 DEF IInv, TypeOK, ReviewedWorkIsDone, WorkDone

(* An answered request is idle, the others are what they were. *)
LEMMA FinishKeeps ==
  ASSUME IInv, NEW r \in Requests, Finish(r)
  PROVE  /\ req' \in [Requests -> Request]
         /\ CompletionHasItem'
         /\ \A s \in Requests : req'[s].at = "completeCommit" => s # r /\ req'[s] = req[s]
<1>1. req' \in [Requests -> Request]
  BY DEF IInv, TypeOK, Finish, Idle, Request
<1>2. \A s \in Requests : s # r => req'[s] = req[s]
  BY DEF IInv, TypeOK, Finish
<1>3. req'[r].at = "idle"
  BY DEF IInv, TypeOK, Finish, Idle
<1> QED
  BY <1>1, <1>2, <1>3 DEF IInv, CompletionHasItem

(* What a technician's request does keeps the invariant. *)
LEMMA FloorKeeps ==
  ASSUME IInv, NEW r \in Requests,
         \/ StartCard(r) \/ StartItemPause(r) \/ StartItemConflict(r) \/ StartItemCommit(r)
         \/ Pause(r) \/ CompleteItem(r) \/ CompleteCommit(r) \/ Fail(r)
  PROVE  IInv'
<1>1. CASE StartCard(r) \/ StartItemConflict(r) \/ Fail(r)
  <2>1. Finish(r) /\ UNCHANGED <<done, assigned, timer>> /\ status' \in {status, "IN_PROGRESS"}
    BY <1>1 DEF StartCard, StartItemConflict, Fail
  <2> QED
    BY <2>1, FinishKeeps
    DEF IInv, TypeOK, CardStatus, ReviewedWorkIsDone, WorkDone, LastIsLast
<1>2. CASE StartItemPause(r)
  <2> DEFINE open == {i \in Items : timer[i] = req[r].tech}
  <2> DEFINE q == [req[r] EXCEPT !.at = "startCommit", !.closed = open]
  <2>1. req' = [req EXCEPT ![r] = q]
    BY <1>2 DEF StartItemPause
  <2>2. req' \in [Requests -> Request]
    <3>1. req[r] \in Request /\ open \in SUBSET Items
      BY DEF IInv, TypeOK
    <3> HIDE DEF open
    <3>2. q \in Request
      BY <3>1 DEF Request
    <3> QED
      BY <2>1, <3>2 DEF IInv, TypeOK
  <2>3. \A s \in Requests : s # r => req'[s] = req[s]
    BY <2>1 DEF IInv, TypeOK
  <2>4. req'[r].at = "startCommit" /\ req'[r].item = req[r].item /\ req[r].at = "startItem"
    BY <1>2, <2>1 DEF IInv, TypeOK, Request, StartItemPause
  <2>5. LastIsLast' /\ CompletionHasItem'
    BY <1>2, <2>3, <2>4 DEF IInv, LastIsLast, CompletionHasItem, StartItemPause
  <2> QED
    BY <1>2, <2>2, <2>5 DEF IInv, TypeOK, ReviewedWorkIsDone, WorkDone, StartItemPause
<1>3. CASE StartItemCommit(r)
  <2>1. req[r] \in Request /\ timer' \in [Items -> Technicians \cup {Nobody}]
    BY <1>3 DEF IInv, TypeOK, Request, StartItemCommit
  <2>2. /\ Finish(r) /\ UNCHANGED <<done, assigned>>
        /\ status' = status \/ status' = "IN_PROGRESS"
    BY <1>3 DEF StartItemCommit
  <2> QED
    BY <2>1, <2>2, FinishKeeps
    DEF IInv, TypeOK, CardStatus, ReviewedWorkIsDone, WorkDone, LastIsLast
<1>4. CASE Pause(r)
  <2>1. timer' \in [Items -> Technicians \cup {Nobody}]
    BY <1>4 DEF IInv, TypeOK, Pause
  <2> QED
    BY <1>4, <2>1, FinishKeeps
    DEF IInv, TypeOK, Pause, ReviewedWorkIsDone, WorkDone, LastIsLast
<1>5. CASE CompleteItem(r)
  <2> DEFINE c == IF timer[req[r].item] = Nobody THEN {} ELSE {req[r].item}
  <2>1. /\ req' = [req EXCEPT ![r] = [@ EXCEPT !.at = "completeCommit", !.closed = c,
                                               !.left = Remaining(r)]]
        /\ c \in SUBSET Items /\ Remaining(r) \in SUBSET Items
    BY <1>5 DEF IInv, CompletionHasItem, CompleteItem, Remaining, Work
  <2> DEFINE q == [req[r] EXCEPT !.at = "completeCommit", !.closed = c, !.left = Remaining(r)]
  <2>2. req' \in [Requests -> Request]
    <3>1. req[r] \in Request
      BY DEF IInv, TypeOK
    <3> HIDE DEF c
    <3>2. q \in Request
      BY <2>1, <3>1 DEF Request
    <3>3. req' = [req EXCEPT ![r] = q]
      BY <2>1
    <3> QED
      BY <3>2, <3>3 DEF IInv, TypeOK
  <2>3. \A s \in Requests : s # r => req'[s] = req[s]
    BY <2>1 DEF IInv, TypeOK
  <2>4. /\ req'[r].at = "completeCommit" /\ req'[r].item = req[r].item
        /\ req'[r].left = Remaining(r)
    BY <2>1 DEF IInv, TypeOK, Request
  <2>5. req[r].item \in Items /\ UNCHANGED <<status, done, assigned, timer>>
    BY <1>5 DEF IInv, CompletionHasItem, CompleteItem
  <2>6. LastIsLast'
    BY <2>3, <2>4, <2>5 DEF IInv, LastIsLast, Remaining, Work
  <2>7. CompletionHasItem'
    BY <2>3, <2>4 DEF IInv, CompletionHasItem
  <2> QED
    BY <2>2, <2>5, <2>6, <2>7 DEF IInv, TypeOK, ReviewedWorkIsDone, WorkDone
<1>6. CASE CompleteCommit(r)
  <2>1. req[r] \in Request /\ req[r].item \in Items
    BY <1>6 DEF IInv, TypeOK, LastIsLast, CompleteCommit
  <2>2. /\ done' \in [Items -> BOOLEAN]
        /\ timer' \in [Items -> Technicians \cup {Nobody}]
        /\ status' \in CardStatus
    BY <1>6, <2>1 DEF IInv, TypeOK, CardStatus, Request, CompleteCommit
  <2>3. \A i \in Items : done'[i] = (done[i] \/ i = req[r].item)
    BY <1>6, <2>1 DEF IInv, TypeOK, CompleteCommit
  <2>4. Work \subseteq Items
    BY DEF Work
  <2>5. ReviewedWorkIsDone'
    <3>1. CASE req[r].left = {}
      BY <1>6, <2>3, <2>4, <3>1 DEF IInv, LastIsLast, CompleteCommit, ReviewedWorkIsDone, WorkDone
    <3>2. CASE req[r].left # {}
      BY <1>6, <2>3, <2>4, <3>2 DEF IInv, CompleteCommit, ReviewedWorkIsDone, WorkDone
    <3> QED
      BY <3>1, <3>2
  <2>6. Finish(r) /\ UNCHANGED assigned
    BY <1>6 DEF CompleteCommit
  <2>7. LastIsLast'
    BY <2>3, <2>4, <2>6, FinishKeeps DEF IInv, LastIsLast
  <2> QED
    BY <2>2, <2>5, <2>6, <2>7, FinishKeeps DEF IInv, TypeOK
<1> QED
  BY <1>1, <1>2, <1>3, <1>4, <1>5, <1>6

(* What a foreman's request does keeps the invariant; a rejection finds no item held. *)
LEMMA OfficeKeeps ==
  ASSUME IInv, NEW r \in Requests,
         Assign(r) \/ Reassign(r) \/ SignOff(r) \/ Reject(r) \/ Fail(r)
  PROVE  IInv'
<1>1. req[r] \in Request
  BY DEF IInv, TypeOK
<1>2. CASE Assign(r) \/ Reassign(r)
  <2>1. /\ assigned' \in [Items -> Technicians \cup {Nobody}]
        /\ timer' \in [Items -> Technicians \cup {Nobody}]
    BY <1>1, <1>2 DEF IInv, TypeOK, Request, Assign, Reassign
  <2>2. Finish(r) /\ UNCHANGED <<status, done>>
    BY <1>2 DEF Assign, Reassign
  <2> QED
    BY <2>1, <2>2, FinishKeeps DEF IInv, TypeOK, ReviewedWorkIsDone, WorkDone, LastIsLast
<1>3. CASE SignOff(r) \/ Fail(r)
  <2>1. Finish(r) /\ UNCHANGED <<done, assigned, timer>> /\ status' \in {status, "COMPLETED"}
    BY <1>3 DEF SignOff, Fail
  <2> QED
    BY <2>1, FinishKeeps
    DEF IInv, TypeOK, CardStatus, ReviewedWorkIsDone, WorkDone, LastIsLast
<1>4. CASE Reject(r)
  <2>1. /\ assigned' \in [Items -> Technicians \cup {Nobody}]
        /\ done' \in [Items -> BOOLEAN]
        /\ status' = "IN_PROGRESS"
        /\ Finish(r) /\ UNCHANGED timer
    BY <1>1, <1>4 DEF IInv, TypeOK, Request, Reject
  <2>2. \A s \in Requests : req[s].at # "completeCommit"
    BY <1>4 DEF IInv, LastIsLast, Reject, ItemHeld
  <2>3. LastIsLast'
    BY <2>1, <2>2, FinishKeeps DEF LastIsLast
  <2>4. ReviewedWorkIsDone'
    BY <2>1 DEF ReviewedWorkIsDone
  <2> QED
    BY <2>1, <2>3, <2>4, FinishKeeps DEF IInv, TypeOK, CardStatus
<1> QED
  BY <1>2, <1>3, <1>4

(* The invariant is inductive. *)
LEMMA Inductive == Spec => []IInv
<1>1. Init => IInv
  BY WorkAssumption
  DEF Init, IInv, TypeOK, CardStatus, Request, Idle, ReviewedWorkIsDone, LastIsLast,
      CompletionHasItem
<1>2. ASSUME IInv, [Next]_vars
      PROVE  IInv'
  <2> USE <1>2
  <2>1. ASSUME NEW r \in Floor, NEW t \in Technicians, StartCardRead(r, t)
        PROVE  IInv'
    BY <2>1, BeginKeeps DEF StartCardRead, Requests
  <2>2. ASSUME NEW r \in Floor, NEW t \in Technicians, NEW i \in Items,
               NEW at \in {"startItem", "pause", "complete"}, ItemRead(r, t, i, at)
        PROVE  IInv'
    BY <2>2, BeginKeeps DEF ItemRead, Requests
  <2>3. ASSUME NEW r \in Floor,
               \/ StartCard(r) \/ StartItemPause(r) \/ StartItemConflict(r) \/ StartItemCommit(r)
               \/ Pause(r) \/ CompleteItem(r) \/ CompleteCommit(r) \/ Fail(r)
        PROVE  IInv'
    BY <2>3, FloorKeeps DEF Requests
  <2>4. ASSUME NEW r \in Office, NEW t \in Technicians, NEW i \in Items,
               AssignRead(r, t, i) \/ ReassignRead(r, t, i)
        PROVE  IInv'
    BY <2>4, BeginKeeps DEF AssignRead, ReassignRead, Requests
  <2>5. ASSUME NEW r \in Office, NEW t \in Technicians \cup {Nobody},
               NEW at \in {"signOff", "reject"}, ReviewRead(r, at, t)
        PROVE  IInv'
    BY <2>5, BeginKeeps DEF ReviewRead, Requests
  <2>6. ASSUME NEW r \in Office, Assign(r) \/ Reassign(r) \/ SignOff(r) \/ Reject(r) \/ Fail(r)
        PROVE  IInv'
    BY <2>6, OfficeKeeps DEF Requests
  <2>7. CASE UNCHANGED vars
    BY <2>7
    DEF vars, IInv, TypeOK, ReviewedWorkIsDone, WorkDone, LastIsLast, CompletionHasItem
  <2> QED
    BY <2>1, <2>2, <2>3, <2>4, <2>5, <2>6, <2>7 DEF Next
<1> QED
  BY <1>1, <1>2, PTL DEF Spec

(* Every row and every request keeps its type. *)
THEOREM TypeCorrect == Spec => []TypeOK
<1>1. IInv => TypeOK
  BY DEF IInv
<1> QED
  BY <1>1, Inductive, PTL

(* A card in FOREMAN_REVIEW has every item of work complete, with any number of
   technicians and foremen at once. *)
THEOREM ReviewsFinishedWork == Spec => []ReviewedWorkIsDone
<1>1. IInv => ReviewedWorkIsDone
  BY DEF IInv
<1> QED
  BY <1>1, Inductive, PTL
-----------------------------------------------------------------------------
(* Technicians one at a time.  Foremen are as many as before: what they do *)
(* meanwhile assigns items, stops timers and opens items, and none of it   *)
(* spoils what the technician's request has read.                          *)

LoneFloor == \A r, s \in Floor : r = s

FloorSteps == {"startCard", "startItem", "startCommit", "pause", "complete", "completeCommit"}

\* The steps of technicians are taken by them alone.
OfficeStaysOut == \A r \in Office : req[r].at \notin FloorSteps

\* A review is of a card that has left the customer's approval behind.
ReviewsAreLater == \A r \in Requests : req[r].at \in {"signOff", "reject"} => status # "APPROVED"

\* What a technician's request has read is still so.
Fresh(q) ==
  /\ q.at = "startCard" => status = "APPROVED"
  /\ q.at \in {"startItem", "startCommit"} => ~done[q.item]
  /\ q.at = "startCommit" =>
       \A i \in Items : timer[i] # Nobody /\ timer[i] = q.tech => i \in q.closed
  /\ q.at = "completeCommit" =>
       /\ timer[q.item] = Nobody \/ q.item \in q.closed
       /\ \A i \in q.left : i \in Work /\ i # q.item /\ ~done[i]

FloorIsFresh == \A r \in Floor : Fresh(req[r])

\* Also while somebody works on the card.
HandedOver == Work # {} /\ WorkDone => status \in {"FOREMAN_REVIEW", "COMPLETED"}

LoneInv ==
  /\ IInv
  /\ OfficeStaysOut
  /\ ReviewsAreLater
  /\ FloorIsFresh
  /\ HandedOver
  /\ OneTimerPerTechnician
  /\ DoneItemHasNoTimer

\* A request that begins leaves the others and the rows alone.
LEMMA LoneBegins ==
  ASSUME LoneFloor, LoneInv, NEW r \in Requests, NEW at, NEW t, NEW i,
         Begin(r, at, t, i), UNCHANGED <<status, done, assigned, timer>>,
         r \in Office => at \notin FloorSteps,
         at \in {"signOff", "reject"} => status # "APPROVED",
         at = "startCard" => status = "APPROVED",
         at = "startItem" => ~done[i],
         at \notin {"startCommit", "completeCommit"}, IInv'
  PROVE  LoneInv'
<1>1. \A s \in Requests : s # r => req'[s] = req[s]
  BY DEF LoneInv, IInv, TypeOK, Begin
<1>2. req'[r].at = at /\ req'[r].item = i
  BY DEF LoneInv, IInv, TypeOK, Begin, Idle
<1>3. OfficeStaysOut'
  BY <1>1, <1>2 DEF LoneInv, OfficeStaysOut, Requests
<1>4. ReviewsAreLater'
  BY <1>1, <1>2 DEF LoneInv, ReviewsAreLater
<1>5. FloorIsFresh'
  <2> SUFFICES ASSUME NEW s \in Floor
               PROVE  Fresh(req[s])'
    BY DEF FloorIsFresh
  <2>1. CASE s = r
    BY <2>1, <1>2 DEF Fresh
  <2>2. CASE s # r
    BY <2>2, <1>1 DEF LoneInv, FloorIsFresh, Fresh, Requests
  <2> QED
    BY <2>1, <2>2
<1> QED
  BY <1>3, <1>4, <1>5 DEF LoneInv, HandedOver, WorkDone, OneTimerPerTechnician, DoneItemHasNoTimer

\* The technicians' only request is answered: what is left in flight is foremen's.
LEMMA LoneAnswers ==
  ASSUME LoneFloor, LoneInv, NEW r \in Floor, Finish(r),
         status' = "APPROVED" => status = "APPROVED"
  PROVE  OfficeStaysOut' /\ ReviewsAreLater' /\ FloorIsFresh'
<1>1. \A s \in Requests : s # r => req'[s] = req[s]
  BY DEF LoneInv, IInv, TypeOK, Finish
<1>2. req'[r].at = "idle"
  BY DEF LoneInv, IInv, TypeOK, Finish, Idle, Requests
<1>3. OfficeStaysOut'
  BY <1>1, <1>2 DEF LoneInv, OfficeStaysOut, Requests, FloorSteps
<1>4. ReviewsAreLater'
  BY <1>1, <1>2 DEF LoneInv, ReviewsAreLater
<1>5. FloorIsFresh'
  BY <1>2 DEF LoneFloor, FloorIsFresh, Fresh
<1> QED
  BY <1>3, <1>4, <1>5

\* The technicians' only request goes on to its commit.
LEMMA LoneGoesOn ==
  ASSUME LoneFloor, LoneInv, NEW r \in Floor, UNCHANGED <<status, done, assigned, timer>>,
         \A s \in Requests : s # r => req'[s] = req[s],
         req'[r].at \notin {"signOff", "reject"}, Fresh(req'[r]), IInv'
  PROVE  LoneInv'
<1>1. r \in Requests /\ \A s \in Office : s # r /\ s \in Requests
  BY WorkAssumption DEF Requests
<1>2. OfficeStaysOut'
  BY <1>1 DEF LoneInv, OfficeStaysOut
<1>3. ReviewsAreLater'
  BY <1>1 DEF LoneInv, ReviewsAreLater
<1>4. FloorIsFresh'
  BY DEF LoneFloor, FloorIsFresh, Fresh
<1> QED
  BY <1>2, <1>3, <1>4 DEF LoneInv, HandedOver, WorkDone, OneTimerPerTechnician, DoneItemHasNoTimer

\* What the technicians' only request does.
LEMMA LoneFloorKeeps ==
  ASSUME LoneFloor, LoneInv, NEW r \in Floor, IInv',
         \/ StartCard(r) \/ StartItemPause(r) \/ StartItemConflict(r) \/ StartItemCommit(r)
         \/ Pause(r) \/ CompleteItem(r) \/ CompleteCommit(r) \/ Fail(r)
  PROVE  LoneInv'
<1>0. r \in Requests /\ req[r] \in Request /\ Fresh(req[r])
  BY DEF Requests, LoneInv, IInv, TypeOK, FloorIsFresh
<1>1. CASE StartCard(r)
  <2>1. Finish(r) /\ status = "APPROVED" /\ status' = "IN_PROGRESS" /\ UNCHANGED <<done, assigned, timer>>
    BY <1>0, <1>1 DEF StartCard, Fresh
  <2>2. OfficeStaysOut' /\ ReviewsAreLater' /\ FloorIsFresh'
    BY <2>1, LoneAnswers
  <2>3. HandedOver'
    BY <2>1 DEF LoneInv, HandedOver, WorkDone
  <2> QED
    BY <2>1, <2>2, <2>3 DEF LoneInv, OneTimerPerTechnician, DoneItemHasNoTimer
<1>2. CASE StartItemConflict(r) \/ Fail(r)
  <2>1. Finish(r) /\ UNCHANGED <<status, done, assigned, timer>>
    BY <1>2 DEF StartItemConflict, Fail
  <2>2. OfficeStaysOut' /\ ReviewsAreLater' /\ FloorIsFresh'
    BY <2>1, LoneAnswers
  <2> QED
    BY <2>1, <2>2 DEF LoneInv, HandedOver, WorkDone, OneTimerPerTechnician, DoneItemHasNoTimer
<1>3. CASE StartItemPause(r)
  <2> DEFINE open == {i \in Items : timer[i] = req[r].tech}
             q == [req[r] EXCEPT !.at = "startCommit", !.closed = open]
  <2>1. req' = [req EXCEPT ![r] = q] /\ UNCHANGED <<status, done, assigned, timer>>
    BY <1>3 DEF StartItemPause
  <2>2. req'[r] = q /\ \A s \in Requests : s # r => req'[s] = req[s]
    BY <1>0, <2>1 DEF LoneInv, IInv, TypeOK
  <2>3. q.at = "startCommit" /\ q.item = req[r].item /\ q.closed = open /\ q.tech = req[r].tech
    BY <1>0 DEF Request
  <2>4. ~done[req[r].item]
    BY <1>0, <1>3 DEF StartItemPause, Fresh
  <2> HIDE DEF q
  <2>5. Fresh(req'[r])
    BY <2>2, <2>3, <2>4 DEF Fresh
  <2> QED
    BY <2>1, <2>2, <2>3, <2>5, LoneGoesOn
<1>4. CASE StartItemCommit(r)
  <2> DEFINE i == req[r].item
  <2>1. /\ Finish(r) /\ UNCHANGED <<done, assigned>>
        /\ status' = IF status = "APPROVED" THEN "IN_PROGRESS" ELSE status
        /\ \A k \in Items : timer'[k] = IF k = i THEN req[r].tech
                                        ELSE IF k \in req[r].closed THEN Nobody ELSE timer[k]
    BY <1>4 DEF StartItemCommit
  <2>2. /\ ~done[i]
        /\ \A k \in Items : timer[k] # Nobody /\ timer[k] = req[r].tech => k \in req[r].closed
    BY <1>0, <1>4 DEF StartItemCommit, Fresh
  <2> HIDE DEF i
  <2>3. OfficeStaysOut' /\ ReviewsAreLater' /\ FloorIsFresh'
    BY <2>1, LoneAnswers
  <2>4. HandedOver'
    BY <2>1 DEF LoneInv, HandedOver, WorkDone
  <2>5. OneTimerPerTechnician'
    BY <2>1, <2>2 DEF LoneInv, OneTimerPerTechnician
  <2>6. DoneItemHasNoTimer'
    BY <2>1, <2>2 DEF LoneInv, DoneItemHasNoTimer
  <2> QED
    BY <2>3, <2>4, <2>5, <2>6 DEF LoneInv
<1>5. CASE Pause(r)
  <2>1. /\ Finish(r) /\ UNCHANGED <<status, done, assigned>>
        /\ \A k \in Items : timer'[k] \in {timer[k], Nobody}
    BY <1>5 DEF Pause, LoneInv, IInv, TypeOK
  <2>2. OfficeStaysOut' /\ ReviewsAreLater' /\ FloorIsFresh'
    BY <2>1, LoneAnswers
  <2> QED
    BY <2>1, <2>2 DEF LoneInv, HandedOver, WorkDone, OneTimerPerTechnician, DoneItemHasNoTimer
<1>6. CASE CompleteItem(r)
  <2> DEFINE c == IF timer[req[r].item] = Nobody THEN {} ELSE {req[r].item}
             q == [req[r] EXCEPT !.at = "completeCommit", !.closed = c, !.left = Remaining(r)]
  <2>1. req' = [req EXCEPT ![r] = q] /\ UNCHANGED <<status, done, assigned, timer>>
    BY <1>6 DEF CompleteItem
  <2>2. req'[r] = q /\ \A s \in Requests : s # r => req'[s] = req[s]
    BY <1>0, <2>1 DEF LoneInv, IInv, TypeOK
  <2>3. /\ q.at = "completeCommit" /\ q.item = req[r].item /\ q.left = Remaining(r)
        /\ timer[q.item] # Nobody => q.item \in q.closed
    BY <1>0 DEF Request
  <2> HIDE DEF q
  <2>4. Fresh(req'[r])
    BY <2>1, <2>2, <2>3 DEF Fresh, Remaining
  <2> QED
    BY <2>1, <2>2, <2>3, <2>4, LoneGoesOn
<1>7. CASE CompleteCommit(r)
  <2> DEFINE i == req[r].item
  <2>1. /\ Finish(r)
        /\ status' = IF req[r].left = {} THEN "FOREMAN_REVIEW" ELSE status
        /\ \A k \in Items : timer'[k] = IF k \in req[r].closed THEN Nobody ELSE timer[k]
        /\ \A k \in Items : done'[k] = (done[k] \/ k = i)
    BY <1>7 DEF CompleteCommit, LoneInv, IInv, TypeOK, LastIsLast
  <2>2. /\ timer[i] = Nobody \/ i \in req[r].closed
        /\ \A k \in req[r].left : k \in Work /\ k # i /\ ~done[k]
    BY <1>0, <1>7 DEF CompleteCommit, Fresh
  <2> HIDE DEF i
  <2>3. OfficeStaysOut' /\ ReviewsAreLater' /\ FloorIsFresh'
    BY <2>1, LoneAnswers
  <2>4. HandedOver'
    BY <2>1, <2>2 DEF HandedOver, WorkDone, Work
  <2>5. OneTimerPerTechnician'
    BY <2>1 DEF LoneInv, OneTimerPerTechnician
  <2>6. DoneItemHasNoTimer'
    <3> SUFFICES ASSUME NEW k \in Items, done'[k]
                 PROVE  timer'[k] = Nobody
      BY DEF DoneItemHasNoTimer
    <3>1. CASE k = i
      BY <2>1, <2>2, <3>1
    <3>2. CASE done[k]
      BY <2>1, <3>2 DEF LoneInv, DoneItemHasNoTimer
    <3> QED
      BY <2>1, <3>1, <3>2
  <2> QED
    BY <2>3, <2>4, <2>5, <2>6 DEF LoneInv
<1> QED
  BY <1>1, <1>2, <1>3, <1>4, <1>5, <1>6, <1>7

\* What a foreman's request does while a technician's may be in flight.
LEMMA LoneOfficeKeeps ==
  ASSUME LoneFloor, LoneInv, NEW r \in Office, IInv',
         Assign(r) \/ Reassign(r) \/ SignOff(r) \/ Reject(r) \/ Fail(r)
  PROVE  LoneInv'
<1>0. r \in Requests /\ Finish(r) /\ \A s \in Floor : s # r /\ s \in Requests
  BY WorkAssumption DEF Requests, Assign, Reassign, SignOff, Reject, Fail
<1>1. /\ \A s \in Requests : s # r => req'[s] = req[s]
      /\ req'[r].at = "idle"
  BY <1>0 DEF LoneInv, IInv, TypeOK, Finish, Idle
<1>2. OfficeStaysOut'
  BY <1>1 DEF LoneInv, OfficeStaysOut, Requests, FloorSteps
<1>3. CASE Assign(r) \/ Fail(r)
  <2>1. UNCHANGED <<status, done, timer>>
    BY <1>3 DEF Assign, Fail
  <2>2. ReviewsAreLater' /\ FloorIsFresh'
    BY <1>0, <1>1, <2>1 DEF LoneInv, ReviewsAreLater, FloorIsFresh, Fresh
  <2> QED
    BY <1>2, <2>1, <2>2 DEF LoneInv, HandedOver, WorkDone, OneTimerPerTechnician, DoneItemHasNoTimer
<1>4. CASE Reassign(r)
  <2>1. UNCHANGED <<status, done>> /\ \A k \in Items : timer'[k] \in {timer[k], Nobody}
    BY <1>4 DEF Reassign, LoneInv, IInv, TypeOK
  <2>2. ReviewsAreLater'
    BY <1>1, <2>1 DEF LoneInv, ReviewsAreLater
  <2>3. FloorIsFresh'
    <3> SUFFICES ASSUME NEW s \in Floor
                 PROVE  Fresh(req[s])'
      BY DEF FloorIsFresh
    <3>1. req'[s] = req[s] /\ Fresh(req[s])
      BY <1>0, <1>1 DEF LoneInv, FloorIsFresh
    <3>2. req[s].at = "completeCommit" => req[s].item \in Items
      BY <1>0 DEF LoneInv, IInv, LastIsLast
    <3> QED
      BY <2>1, <3>1, <3>2 DEF Fresh
  <2> QED
    BY <1>2, <2>1, <2>2, <2>3 DEF LoneInv, HandedOver, WorkDone, OneTimerPerTechnician,
                                  DoneItemHasNoTimer
<1>5. CASE SignOff(r)
  <2>1. status # "APPROVED" /\ status' = "COMPLETED" /\ UNCHANGED <<done, assigned, timer>>
    BY <1>0, <1>5 DEF SignOff, LoneInv, ReviewsAreLater
  <2>2. ReviewsAreLater' /\ FloorIsFresh'
    BY <1>0, <1>1, <2>1 DEF LoneInv, ReviewsAreLater, FloorIsFresh, Fresh
  <2> QED
    BY <1>2, <2>1, <2>2 DEF LoneInv, HandedOver, OneTimerPerTechnician, DoneItemHasNoTimer
<1>6. CASE Reject(r)
  <2>1. /\ status # "APPROVED" /\ status' = "IN_PROGRESS" /\ UNCHANGED timer
        /\ \A k \in Items : done'[k] = FALSE
    BY <1>0, <1>6 DEF Reject, LoneInv, ReviewsAreLater
  <2>2. ReviewsAreLater'
    BY <2>1 DEF ReviewsAreLater
  <2>3. FloorIsFresh'
    <3> SUFFICES ASSUME NEW s \in Floor
                 PROVE  Fresh(req[s])'
      BY DEF FloorIsFresh
    <3>1. req'[s] = req[s] /\ Fresh(req[s]) /\ s \in Requests
      BY <1>0, <1>1 DEF LoneInv, FloorIsFresh
    <3>2. req[s].at # "completeCommit"
      BY <1>6, <3>1 DEF Reject, ItemHeld, LoneInv, IInv, LastIsLast
    <3>3. req[s].at \in {"startItem", "startCommit"} => req[s].item \in Items
      BY <3>1 DEF LoneInv, IInv, CompletionHasItem
    <3> QED
      BY <2>1, <3>1, <3>2, <3>3 DEF Fresh
  <2>4. HandedOver'
    BY <2>1 DEF HandedOver, WorkDone, Work
  <2> QED
    BY <1>2, <2>1, <2>2, <2>3, <2>4 DEF LoneInv, OneTimerPerTechnician, DoneItemHasNoTimer
<1> QED
  BY <1>3, <1>4, <1>5, <1>6

\* The invariant of technicians one at a time is inductive.
LEMMA LoneInductive ==
  ASSUME LoneFloor
  PROVE  Spec => []LoneInv
<1>1. Init /\ IInv => LoneInv
  BY DEF Init, LoneInv, OfficeStaysOut, FloorSteps, ReviewsAreLater, FloorIsFresh, Fresh, Requests,
         HandedOver, WorkDone, Work, OneTimerPerTechnician, DoneItemHasNoTimer, Idle
<1>2. ASSUME LoneInv, IInv', [Next]_vars
      PROVE  LoneInv'
  <2> USE <1>2
  <2>1. ASSUME NEW r \in Floor, NEW t \in Technicians, StartCardRead(r, t)
        PROVE  LoneInv'
    BY <2>1, LoneBegins, WorkAssumption DEF StartCardRead, Requests
  <2>2. ASSUME NEW r \in Floor, NEW t \in Technicians, NEW i \in Items,
               NEW at \in {"startItem", "pause", "complete"}, ItemRead(r, t, i, at)
        PROVE  LoneInv'
    BY <2>2, LoneBegins, WorkAssumption DEF ItemRead, Requests
  <2>3. ASSUME NEW r \in Floor,
               \/ StartCard(r) \/ StartItemPause(r) \/ StartItemConflict(r) \/ StartItemCommit(r)
               \/ Pause(r) \/ CompleteItem(r) \/ CompleteCommit(r) \/ Fail(r)
        PROVE  LoneInv'
    BY <2>3, LoneFloorKeeps
  <2>4. ASSUME NEW r \in Office, NEW t \in Technicians, NEW i \in Items,
               AssignRead(r, t, i) \/ ReassignRead(r, t, i)
        PROVE  LoneInv'
    BY <2>4, LoneBegins DEF AssignRead, ReassignRead, Requests, FloorSteps
  <2>5. ASSUME NEW r \in Office, NEW t \in Technicians \cup {Nobody},
               NEW at \in {"signOff", "reject"}, ReviewRead(r, at, t)
        PROVE  LoneInv'
    BY <2>5, LoneBegins DEF ReviewRead, Requests, FloorSteps
  <2>6. ASSUME NEW r \in Office, Assign(r) \/ Reassign(r) \/ SignOff(r) \/ Reject(r) \/ Fail(r)
        PROVE  LoneInv'
    BY <2>6, LoneOfficeKeeps
  <2>7. CASE UNCHANGED vars
    BY <2>7
    DEF vars, LoneInv, OfficeStaysOut, ReviewsAreLater, FloorIsFresh, Fresh, HandedOver, WorkDone,
        OneTimerPerTechnician, DoneItemHasNoTimer
  <2> QED
    BY <2>1, <2>2, <2>3, <2>4, <2>5, <2>6, <2>7 DEF Next
<1> QED
  BY <1>1, <1>2, Inductive, PTL DEF Spec

(* With technicians one at a time a card whose work is done is with the foreman or
   signed off (completeItemWork: "If every item on the card is now complete, hand it to
   the foreman"), for any number of foremen at once.  The card must have work on it. *)
THEOREM FinishedWorkIsHandedOver ==
  ASSUME LoneFloor, Work # {}
  PROVE  Spec => []FinishedCardIsHandedOver
<1>1. LoneInv => FinishedCardIsHandedOver
  BY DEF LoneInv, HandedOver, FinishedCardIsHandedOver
<1> QED
  BY <1>1, LoneInductive, PTL

(* With technicians one at a time a technician has one timer: a start closes what a
   reassignment left running (startItemWork). *)
THEOREM TimersAreOne ==
  ASSUME LoneFloor
  PROVE  Spec => []OneTimerPerTechnician
<1>1. LoneInv => OneTimerPerTechnician
  BY DEF LoneInv
<1> QED
  BY <1>1, LoneInductive, PTL

(* With technicians one at a time no timer runs on a completed item (completeItemWork
   closes the log of the item, whoever opened it). *)
THEOREM DoneItemsHaveNoTimer ==
  ASSUME LoneFloor
  PROVE  Spec => []DoneItemHasNoTimer
<1>1. LoneInv => DoneItemHasNoTimer
  BY DEF LoneInv
<1> QED
  BY <1>1, LoneInductive, PTL
=============================================================================
