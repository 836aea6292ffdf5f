--------------------------- MODULE TechnicianWork ---------------------------
(***************************************************************************)
(* The work on one approved job card: technicians are assigned to its      *)
(* items, run timers on them and complete them; the card is handed to the  *)
(* foreman with its last item, who signs it off or rejects it              *)
(* (modules/service-advisors, modules/workshop).                           *)
(*                                                                         *)
(* A request reads, decides, and writes in a READ COMMITTED transaction    *)
(* later.  The two transactions whose statements matter one by one,        *)
(* startItemWork and completeItemWork, are two actions each: what the      *)
(* first one has written is locked and unseen until the second commits.    *)
(* The rework after a failed QC, which opens items of a signed-off card    *)
(* again, and the bay a start asks for are in module ServiceVisit.         *)
(***************************************************************************)
EXTENDS FiniteSets

CONSTANTS
  Items,        \* job_card_items rows of the card
  Labour,       \* those whose part code is LABOUR: a charge, not work
  Technicians,
  Floor,        \* slots for requests of technicians in flight
  Office,       \* slots for requests of foremen in flight
  NoItem, Nobody

ASSUME WorkAssumption ==
  /\ Labour \subseteq Items
  /\ NoItem \notin Items /\ Nobody \notin Technicians
  /\ Floor \cap Office = {}

Requests == Floor \cup Office

Work == Items \ Labour

VARIABLES
  status,       \* of the card
  done,         \* item -> completed_at is set
  assigned,     \* item -> assigned_technician_id
  timer,        \* item -> technician of its open time log (the index allows one)
  req           \* request -> where it is and what it has read

vars == <<status, done, assigned, timer, req>>

CardStatus == {"APPROVED", "IN_PROGRESS", "FOREMAN_REVIEW", "COMPLETED"}

\* tech: the caller of a technician's request, the new assignee of a foreman's.
\* closed: the open logs a transaction has closed.  left: the unfinished items it has
\* found besides its own.
Request ==
  [at : {"idle", "startCard", "startItem", "startCommit", "pause", "complete",
         "completeCommit", "assign", "reassign", "signOff", "reject"},
   tech : Technicians \cup {Nobody}, item : Items \cup {NoItem}, closed : SUBSET Items,
   left : SUBSET Items]

Idle == [at |-> "idle", tech |-> Nobody, item |-> NoItem, closed |-> {}, left |-> {}]

TypeOK ==
  /\ status \in CardStatus
  /\ done \in [Items -> BOOLEAN]
  /\ assigned \in [Items -> Technicians \cup {Nobody}]
  /\ timer \in [Items -> Technicians \cup {Nobody}]
  /\ req \in [Requests -> Request]

\* The customer has approved the card.
Init ==
  /\ status = "APPROVED"
  /\ done = [i \in Items |-> FALSE]
  /\ assigned = [i \in Items |-> Nobody]
  /\ timer = [i \in Items |-> Nobody]
  /\ req = [r \in Requests |-> Idle]

-----------------------------------------------------------------------------

Begin(r, at, t, i) ==
  /\ req[r].at = "idle"
  /\ req' = [req EXCEPT ![r] = [Idle EXCEPT !.at = at, !.tech = t, !.item = i]]

Finish(r) == req' = [req EXCEPT ![r] = Idle]

\* Rows an open transaction has written: another one that wants them waits.
ItemHeld(i) == \E r \in Requests : req[r].at = "completeCommit" /\ req[r].item = i

LogHeld(i) == \E r \in Requests : i \in req[r].closed

\* Mutants: the items of one technician; every item.
RemainingOfCaller(r) ==
  {i \in Work : ~done[i] /\ i # req[r].item /\ assigned[i] = req[r].tech}

RemainingWithLabour(r) == {i \in Items : ~done[i] /\ i # req[r].item}

\* What completeItemWork still finds to do, its own item being complete by then.
Remaining(r) == {i \in Work : ~done[i] /\ i # req[r].item}

-----------------------------------------------------------------------------
(* Technicians.                                                            *)

\* startTechnicianWork reads the card, and that the caller is assigned to an item ...
StartCardRead(r, t) ==
  /\ status = "APPROVED"
  /\ \E i \in Items : assigned[i] = t
  /\ Begin(r, "startCard", t, NoItem)
  /\ UNCHANGED <<status, done, assigned, timer>>

\* ... and writes it, whatever it has become.
StartCard(r) ==
  /\ req[r].at = "startCard"
  /\ status' = "IN_PROGRESS"
  /\ Finish(r)
  /\ UNCHANGED <<done, assigned, timer>>

\* startItemWork and completeItemWork want an unfinished item of the caller;
\* pauseItemWork wants an item of the caller.
ItemRead(r, t, i, at) ==
  /\ assigned[i] = t
  /\ at # "pause" => ~done[i]
  /\ Begin(r, at, t, i)
  /\ UNCHANGED <<status, done, assigned, timer>>

\* Mutant: no other timer of the caller is stopped.
StartItemPauseNothing(r) ==
  /\ req[r].at = "startItem"
  /\ req' = [req EXCEPT ![r] = [@ EXCEPT !.at = "startCommit"]]
  /\ UNCHANGED <<status, done, assigned, timer>>

\* First statement of startItemWork: close every open log of the caller.
StartItemPause(r) ==
  LET open == {i \in Items : timer[i] = req[r].tech}
  IN /\ req[r].at = "startItem"
     /\ \A i \in open : ~LogHeld(i)
     /\ req' = [req EXCEPT ![r] = [@ EXCEPT !.at = "startCommit", !.closed = open]]
     /\ UNCHANGED <<status, done, assigned, timer>>

\* Somebody else's log of the item is open: the index refuses the insert.
StartItemConflict(r) ==
  LET i == req[r].item
  IN /\ req[r].at = "startCommit"
     /\ timer[i] # Nobody /\ i \notin req[r].closed /\ ~LogHeld(i)
     /\ Finish(r)
     /\ UNCHANGED <<status, done, assigned, timer>>

\* The rest: open a log, and put an APPROVED card in progress.
StartItemCommit(r) ==
  LET i == req[r].item
  IN /\ req[r].at = "startCommit"
     /\ timer[i] = Nobody \/ i \in req[r].closed
     /\ timer' = [k \in Items |-> IF k = i THEN req[r].tech
                                  ELSE IF k \in req[r].closed THEN Nobody ELSE timer[k]]
     /\ status' = IF status = "APPROVED" THEN "IN_PROGRESS" ELSE status
     /\ Finish(r)
     /\ UNCHANGED <<done, assigned>>

Pause(r) ==
  LET i == req[r].item
  IN /\ req[r].at = "pause"
     /\ ~LogHeld(i)
     /\ timer' = IF timer[i] = req[r].tech THEN [timer EXCEPT ![i] = Nobody] ELSE timer
     /\ Finish(r)
     /\ UNCHANGED <<status, done, assigned>>

\* Mutant: the log of the item stays open.
CompleteItemKeepLog(r) ==
  /\ req[r].at = "complete"
  /\ ~ItemHeld(req[r].item)
  /\ req' = [req EXCEPT ![r] = [@ EXCEPT !.at = "completeCommit", !.left = Remaining(r)]]
  /\ UNCHANGED <<status, done, assigned, timer>>

\* completeItemWork closes the open log of the item, completes the item and counts
\* what remains, by what the other transactions have committed.
CompleteItem(r) ==
  LET i == req[r].item
  IN /\ req[r].at = "complete"
     /\ ~ItemHeld(i) /\ ~LogHeld(i)
     /\ req' = [req EXCEPT ![r] = [@ EXCEPT !.at = "completeCommit",
                                            !.closed = IF timer[i] = Nobody THEN {} ELSE {i},
                                            !.left = Remaining(r)]]
     /\ UNCHANGED <<status, done, assigned, timer>>

\* Nothing remained: the card goes to the foreman.
CompleteCommit(r) ==
  /\ req[r].at = "completeCommit"
  /\ done' = [done EXCEPT ![req[r].item] = TRUE]
  /\ timer' = [k \in Items |-> IF k \in req[r].closed THEN Nobody ELSE timer[k]]
  /\ status' = IF req[r].left = {} THEN "FOREMAN_REVIEW" ELSE status
  /\ Finish(r)
  /\ UNCHANGED assigned

-----------------------------------------------------------------------------
(* Foremen.                                                                *)

\* assignTechnician: an item that is no labour charge, on a card in work.
AssignRead(r, t, i) ==
  /\ status \in {"APPROVED", "IN_PROGRESS"}
  /\ i \notin Labour
  /\ Begin(r, "assign", t, i)
  /\ UNCHANGED <<status, done, assigned, timer>>

\* A running timer goes on.
Assign(r) ==
  /\ req[r].at = "assign"
  /\ ~ItemHeld(req[r].item)
  /\ assigned' = [assigned EXCEPT ![req[r].item] = req[r].tech]
  /\ Finish(r)
  /\ UNCHANGED <<status, done, timer>>

\* reassignItemTechnician: an unfinished item, labour charge or not.
ReassignRead(r, t, i) ==
  /\ ~done[i]
  /\ assigned[i] # t
  /\ Begin(r, "reassign", t, i)
  /\ UNCHANGED <<status, done, assigned, timer>>

Reassign(r) ==
  LET i == req[r].item
  IN /\ req[r].at = "reassign"
     /\ ~ItemHeld(i) /\ ~LogHeld(i)
     /\ timer' = [timer EXCEPT ![i] = Nobody]
     /\ assigned' = [assigned EXCEPT ![i] = req[r].tech]
     /\ Finish(r)
     /\ UNCHANGED <<status, done>>

\* t: whom a rejection hands every item to, if anybody.
ReviewRead(r, at, t) ==
  /\ status = "FOREMAN_REVIEW"
  /\ at = "signOff" => t = Nobody
  /\ Begin(r, at, t, NoItem)
  /\ UNCHANGED <<status, done, assigned, timer>>

SignOff(r) ==
  /\ req[r].at = "signOff"
  /\ status' = "COMPLETED"
  /\ Finish(r)
  /\ UNCHANGED <<done, assigned, timer>>

\* Every item is open again, labour charges too, and may get a new technician.
Reject(r) ==
  /\ req[r].at = "reject"
  /\ \A i \in Items : ~ItemHeld(i)
  /\ status' = "IN_PROGRESS"
  /\ done' = [i \in Items |-> FALSE]
  /\ assigned' = IF req[r].tech = Nobody THEN assigned ELSE [i \in Items |-> req[r].tech]
  /\ Finish(r)
  /\ UNCHANGED timer

-----------------------------------------------------------------------------

\* The process stops, or a call throws: its transaction rolls back.
Fail(r) ==
  /\ req[r].at # "idle"
  /\ Finish(r)
  /\ UNCHANGED <<status, done, assigned, timer>>

Next ==
  \/ \E r \in Floor, t \in Technicians :
       \/ StartCardRead(r, t)
       \/ \E i \in Items, at \in {"startItem", "pause", "complete"} : ItemRead(r, t, i, at)
  \/ \E r \in Floor :
       \/ StartCard(r) \/ StartItemPause(r) \/ StartItemConflict(r) \/ StartItemCommit(r)
       \/ Pause(r) \/ CompleteItem(r) \/ CompleteCommit(r) \/ Fail(r)
  \/ \E r \in Office, t \in Technicians, i \in Items : AssignRead(r, t, i) \/ ReassignRead(r, t, i)
  \/ \E r \in Office, t \in Technicians \cup {Nobody}, at \in {"signOff", "reject"} :
       ReviewRead(r, at, t)
  \/ \E r \in Office : Assign(r) \/ Reassign(r) \/ SignOff(r) \/ Reject(r) \/ Fail(r)

Spec == Init /\ [][Next]_vars

-----------------------------------------------------------------------------

WorkDone == \A i \in Work : done[i]

(* The foreman never gets a card to review with work on it unfinished, whatever
   completions, rejections and sign-offs overlap. *)
ReviewedWorkIsDone == status = "FOREMAN_REVIEW" => WorkDone

(* "If every item on the card is now complete, hand it to the foreman": once nobody
   works on the card, a card whose work is done is not left in the technicians' hands.
   Holds when the requests of technicians do not overlap each other. *)
FinishedCardIsHandedOver ==
  WorkDone /\ (\A r \in Requests : req[r].at = "idle") => status \in {"FOREMAN_REVIEW", "COMPLETED"}

(* "A technician can only have one timer running at a time", on any two items, also
   after a reassignment.  Holds when the requests of technicians do not overlap. *)
OneTimerPerTechnician ==
  \A i, k \in Items : timer[i] # Nobody /\ timer[i] = timer[k] => i = k

(* No hours are booked on a completed item: completing one stops its timer, whoever
   started it.  Holds when the requests of technicians do not overlap. *)
DoneItemHasNoTimer == \A i \in Items : done[i] => timer[i] = Nobody
=============================================================================
