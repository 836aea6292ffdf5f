--------------------------- MODULE VehicleVisits ---------------------------
(***************************************************************************)
(* One vehicle from visit to visit: gate entry (modules/confirm-entry),    *)
(* check-ins (modules/vehicle-checkin), re-entry and cancellation          *)
(* (modules/vehicles), gate photos (modules/vehicle-images), the QC-in     *)
(* inspection (modules/qc-inspections) and the gate exit as far as it      *)
(* writes to these tables (modules/gate-pass).                             *)
(*                                                                         *)
(* A request reads and writes in separate statements unless the code opens *)
(* a transaction.  Nothing in the database keeps a vehicle from having two *)
(* active check-ins or two open inspections: only what a request has read. *)
(* The server may stop between any two statements.  What entry does to RO  *)
(* statuses, bays and appointments is in ServiceVisit and Appointments.    *)
(***************************************************************************)
EXTENDS FiniteSets, Naturals

CONSTANTS
  Visits,       \* numbers of check-ins, in order of check-in time
  Inspections,  \* numbers of inspections, in order of creation
  Photos,       \* numbers of gate photos, in the order they are taken
  Clerks,       \* who sends requests: one in flight each
  MinImages,    \* MIN_IMAGES_FOR_CONFIRM
  MaxImages,    \* MAX_IMAGES_PER_VEHICLE
  Stages,       \* the statuses job cards give the vehicle
  Seeds         \* the inspections and photos still to come

NoVisit == 0

CardStatuses == {"Job Card (Draft)", "Job Card (Full Cust. Approval)", "In Service", "Ready for Billing"}

VehicleStatus ==
  {"Entry (Draft)", "Vehicle IN", "Inspection (Draft)", "Inspection Done", "Completed", "Cancelled"}
    \cup CardStatuses

\* status: is_active, whatever the column status shows.  work: the items of its job cards, if it has any.
Visit ==
  [status : {"active", "closed"}, work : {"none", "pending", "done"}, photos : SUBSET Photos]

\* Its checklist and photos are filled in between; they are not modelled.
Inspection == [visit : Visits, status : {"IN_PROGRESS", "COMPLETED"}]

NoRow == [status |-> "none"]

Gone == [status |-> "gone"]

ASSUME VisitsAssumption ==
  /\ Visits \subseteq Nat \ {0} /\ Inspections \subseteq Nat /\ Photos \subseteq Nat
  /\ \A seed \in Seeds : seed.inspections \subseteq Inspections /\ seed.photos \subseteq Photos
  /\ MinImages \in Nat /\ MaxImages \in Nat /\ Stages \subseteq CardStatuses

VARIABLES
  vehicle,     \* status of the vehicle's row
  visit,       \* check-in -> its row
  images,      \* photos in vehicle_images
  inspection,  \* inspection -> its row
  req,         \* clerk -> the request in flight
  fate,        \* photo -> "unused", "kept", or "excused": deleted on request or taken too late
  unsure       \* check-ins and inspections whose making was overtaken, and check-ins reopened by hand

vars == <<vehicle, visit, images, inspection, req, fate, unsure>>

-----------------------------------------------------------------------------
(* What the tables hold.                                                   *)

Rows(table) == {x \in DOMAIN table : table[x].status \notin {"none", "gone"}}

Unmade(table) == {x \in DOMAIN table : table[x].status = "none"}

Open == {c \in Visits : visit[c].status = "active"}

IsLive(i) == inspection[i].status # "COMPLETED"

Live == {i \in Rows(inspection) : IsLive(i)}

Archived == UNION {visit[c].photos : c \in Rows(visit)}

AllowReentry == {"Job Card (Full Cust. Approval)", "In Service", "Ready for Billing"}

Shut(c) == IF c \in Open THEN [visit EXCEPT ![c].status = "closed"] ELSE visit

NewVisit(status) == [status |-> status, work |-> "none", photos |-> {}]

First(table) == CHOOSE x \in Unmade(table) : \A y \in Unmade(table) : x <= y

-----------------------------------------------------------------------------
(* Requests.                                                               *)

Idle == [at |-> "idle"]

InFlight == {k \in Clerks : req[k].at # "idle"}

Begin(k, q) == req' = [req EXCEPT ![k] = q]

Goto(k, at) == req' = [req EXCEPT ![k].at = at]

End(k) == req' = [req EXCEPT ![k] = Idle]

\* The end of a request that made something: what those in flight have read may be stale.
EndSeen(k) ==
  req' = [o \in Clerks |->
            IF o = k THEN Idle
            ELSE IF "raced" \in DOMAIN req[o] THEN [req[o] EXCEPT !.raced = TRUE] ELSE req[o]]

Unsure(k, x) == unsure' = IF req[k].raced THEN unsure \cup {x} ELSE unsure

\* What a request has read and not yet used, after each of its statements.
Request ==
  LET from == {"gate", "desk"}
      to == {"Entry (Draft)", "Completed"}
      found == Visits \cup {NoVisit}
  IN [at : {"idle", "cancel"}]
       \cup [at : {"look"}, from : from, allowed : BOOLEAN, raced : BOOLEAN]
       \cup [at : {"shut", "enter"}, from : from, visit : found, raced : BOOLEAN]
       \cup [at : {"leave", "archive"}, to : to, visit : found, photos : SUBSET Photos]
       \cup [at : {"collect"}, to : to, visit : Visits]
       \cup [at : {"clear", "leaving"}, to : to]
       \cup [at : {"inspect"}, raced : BOOLEAN]
       \cup [at : {"begin"}, visit : found, stale : BOOLEAN, raced : BOOLEAN]
       \cup [at : {"submit"}, inspection : Inspections]

TypeOK ==
  /\ vehicle \in VehicleStatus
  /\ visit \in [Visits -> Visit \cup {NoRow, Gone}]
  /\ images \subseteq Photos
  /\ inspection \in [Inspections -> Inspection \cup {NoRow, Gone}]
  /\ req \in [Clerks -> Request]
  /\ fate \in [Photos -> {"unused", "kept", "excused"}]
  /\ unsure \subseteq ({"visit"} \X Visits) \cup ({"inspection"} \X Inspections)

Init ==
  /\ vehicle = "Entry (Draft)"
  /\ visit = [c \in Visits |-> NoRow]
  /\ images = {}
  /\ \E seed \in Seeds :
       /\ inspection = [i \in Inspections |-> IF i \in seed.inspections THEN NoRow ELSE Gone]
       /\ fate = [p \in Photos |-> IF p \in seed.photos THEN "unused" ELSE "excused"]
  /\ req = [k \in Clerks |-> Idle]
  /\ unsure = {}

-----------------------------------------------------------------------------
(* confirmVehicleEntry (the gate) and createCheckIn (the desk)             *)

EntryRead(k, from) ==
  /\ req[k].at = "idle"
  /\ from = "gate" => Cardinality(images) >= MinImages
  /\ Begin(k, [at |-> "look", from |-> from, allowed |-> vehicle \in AllowReentry, raced |-> FALSE])
  /\ UNCHANGED <<vehicle, visit, images, inspection, fate, unsure>>

\* Two visits open already: whichever is found, the other stays.
EntryFound(k, at, c) ==
  Begin(k, [at |-> at, from |-> req[k].from, visit |-> c, raced |-> req[k].raced \/ \E d \in Open : d # c])

EntryLook(k) ==
  /\ req[k].at = "look"
  /\ \/ Open = {} /\ EntryFound(k, "enter", NoVisit)
     \/ \E c \in Open :
          IF req[k].allowed /\ (req[k].from = "gate" => visit[c].work # "pending")
          THEN EntryFound(k, "shut", c)
          ELSE End(k)
  /\ UNCHANGED <<vehicle, visit, images, inspection, fate, unsure>>

EntryShutsNothing(k) ==
  /\ req[k].at = "shut" /\ visit' = visit
  /\ Begin(k, [req[k] EXCEPT !.at = "enter", !.visit = NoVisit])
  /\ UNCHANGED <<vehicle, images, inspection, fate, unsure>>

EntryShut(k) ==
  /\ req[k].at = "shut"
  /\ visit' = Shut(req[k].visit)
  /\ Begin(k, [req[k] EXCEPT !.at = "enter", !.visit = NoVisit])
  /\ UNCHANGED <<vehicle, images, inspection, fate, unsure>>

Enter(k) ==
  /\ req[k].at = "enter" /\ Unmade(visit) # {}
  /\ visit' = [visit EXCEPT ![First(visit)] = NewVisit("active")]
  /\ vehicle' = IF req[k].from = "gate" THEN "Vehicle IN" ELSE vehicle
  /\ EndSeen(k) /\ Unsure(k, <<"visit", First(visit)>>)
  /\ UNCHANGED <<images, inspection, fate>>

Excuse(photos) == fate' = [p \in Photos |-> IF p \in photos THEN "excused" ELSE fate[p]]

\* A body that sends isActive FALSE: no check-in is looked for, and the one made is closed.
CreateClosed(k) ==
  /\ req[k].at = "idle" /\ Unmade(visit) # {}
  /\ visit' = [visit EXCEPT ![First(visit)] = NewVisit("closed")]
  /\ UNCHANGED <<vehicle, images, inspection, req, fate, unsure>>

\* updateCheckIn writes the body it is sent: a visit is closed, or opened again beside any other.
UpdateCheckIn(k) ==
  /\ req[k].at = "idle"
  /\ \/ \E c \in Open : visit' = Shut(c) /\ unsure' = unsure
     \/ \E c \in Rows(visit) \ Open :
          visit' = [visit EXCEPT ![c].status = "active"] /\ unsure' = unsure \cup {<<"visit", c>>}
  /\ UNCHANGED <<vehicle, images, inspection, req, fate>>

\* Job cards keep their check-in; inspections and photos go with it.
DeleteCheckIn(k) ==
  /\ req[k].at = "idle"
  /\ \E c \in Rows(visit) :
       /\ visit[c].work = "none"
       /\ visit' = [visit EXCEPT ![c] = Gone]
       /\ inspection' = [i \in Inspections |->
                           IF i \in Rows(inspection) /\ inspection[i].visit = c THEN Gone ELSE inspection[i]]
       /\ Excuse(visit[c].photos)
  /\ UNCHANGED <<vehicle, images, req, unsure>>

-----------------------------------------------------------------------------
(* Gate photos                                                             *)

\* A re-entry or an exit has read the images it will archive before it deletes them all.
PastReading == \E k \in InFlight : req[k].at \in {"leave", "archive", "clear"}

Take(p) == fate' = [fate EXCEPT ![p] = IF PastReading THEN "excused" ELSE "kept"]

UploadImages(k) ==
  /\ req[k].at = "idle" /\ Cardinality(images) < MaxImages
  /\ \E p \in Photos :
       /\ fate[p] = "unused" /\ \A q \in Photos : q < p => fate[q] # "unused"
       /\ images' = images \cup {p} /\ Take(p)
  /\ UNCHANGED <<vehicle, visit, inspection, req, unsure>>

DeleteImage(k) ==
  /\ req[k].at = "idle"
  /\ \E p \in images : images' = images \ {p} /\ Excuse({p})
  /\ UNCHANGED <<vehicle, visit, inspection, req, unsure>>

DeletePhoto(k) ==
  /\ req[k].at = "idle"
  /\ \E c \in Rows(visit) : \E p \in visit[c].photos :
       visit' = [visit EXCEPT ![c].photos = @ \ {p}] /\ Excuse({p})
  /\ UNCHANGED <<vehicle, images, inspection, req, unsure>>

-----------------------------------------------------------------------------
(* reEntryVehicle, and the part of a gate exit that ends the visit.        *)
(* The images are archived under the visit, then deleted.                  *)

ReEntryRead(k) ==
  /\ req[k].at = "idle"
  /\ \E c \in IF Open = {} THEN {NoVisit} ELSE Open :
       /\ c # NoVisit => vehicle \in AllowReentry /\ visit[c].work # "pending"
       /\ Begin(k, [at |-> "leave", to |-> "Entry (Draft)", visit |-> c, photos |-> images])
  /\ UNCHANGED <<vehicle, visit, images, inspection, fate, unsure>>

Latest == CHOOSE c \in Rows(visit) : \A d \in Rows(visit) : d <= c

Archive(k, c, photos) == Begin(k, [at |-> "archive", to |-> req[k].to, visit |-> c, photos |-> photos])

Clear(k) == Begin(k, [at |-> "clear", to |-> req[k].to])

ReEntryClose(k) ==
  /\ req[k].at = "leave" /\ req[k].visit # NoVisit
  /\ visit' = Shut(req[k].visit)
  /\ Archive(k, req[k].visit, req[k].photos)
  /\ UNCHANGED <<vehicle, images, inspection, fate, unsure>>

ReEntryForgetful(k) ==
  /\ req[k].at = "leave" /\ req[k].visit = NoVisit
  /\ visit' = visit
  /\ IF Rows(visit) # {} THEN Archive(k, Latest, req[k].photos) ELSE Clear(k)
  /\ UNCHANGED <<vehicle, images, inspection, fate, unsure>>

\* No visit open: the latest takes the photos, or one made for them.
ReEntryAdopt(k) ==
  /\ req[k].at = "leave" /\ req[k].visit = NoVisit
  /\ IF Rows(visit) # {} THEN Archive(k, Latest, req[k].photos) /\ visit' = visit
     ELSE IF req[k].photos = {} THEN Clear(k) /\ visit' = visit
     ELSE /\ Unmade(visit) # {}
          /\ visit' = [visit EXCEPT ![First(visit)] = NewVisit("closed")]
          /\ Archive(k, First(visit), req[k].photos)
  /\ UNCHANGED <<vehicle, images, inspection, fate, unsure>>

\* The pass of a visit whose work is done, which another entry may have closed by now.
ExitShut(k) ==
  /\ req[k].at = "idle"
  /\ \E c \in Rows(visit) :
       /\ visit[c].work = "done"
       /\ visit' = Shut(c)
       /\ Begin(k, [at |-> "collect", to |-> "Completed", visit |-> c])
  /\ UNCHANGED <<vehicle, images, inspection, fate, unsure>>

ExitCollect(k) ==
  /\ req[k].at = "collect"
  /\ IF images = {} THEN Begin(k, [at |-> "leaving", to |-> req[k].to]) ELSE Archive(k, req[k].visit, images)
  /\ UNCHANGED <<vehicle, visit, images, inspection, fate, unsure>>

\* Photos of a check-in that is no more violate its key: the request fails.
ArchivePhotos(k) ==
  /\ req[k].at = "archive"
  /\ IF req[k].visit \in Rows(visit)
     THEN visit' = [visit EXCEPT ![req[k].visit].photos = @ \cup req[k].photos] /\ Clear(k)
     ELSE IF req[k].photos # {} THEN End(k) /\ visit' = visit ELSE Clear(k) /\ visit' = visit
  /\ UNCHANGED <<vehicle, images, inspection, fate, unsure>>

ClearImages(k) ==
  /\ req[k].at = "clear"
  /\ images' = {} /\ Goto(k, "leaving")
  /\ UNCHANGED <<vehicle, visit, inspection, fate, unsure>>

Leave(k) ==
  /\ req[k].at = "leaving"
  /\ vehicle' = req[k].to /\ End(k)
  /\ UNCHANGED <<visit, images, inspection, fate, unsure>>

\* deleteVehicle: "cancel entry"
CancelVehicle(k) ==
  /\ req[k].at = "idle"
  /\ vehicle' = "Cancelled" /\ Begin(k, [at |-> "cancel"])
  /\ UNCHANGED <<visit, images, inspection, fate, unsure>>

CancelVisits(k) ==
  /\ req[k].at = "cancel"
  /\ visit' = [c \in Visits |->
                 IF c \in Open THEN [visit[c] EXCEPT !.status = "closed"] ELSE visit[c]]
  /\ End(k)
  /\ UNCHANGED <<vehicle, images, inspection, fate, unsure>>

-----------------------------------------------------------------------------
(* QC in                                                                   *)

CreateInspectionNarrow(k) ==
  /\ req[k].at = "idle" /\ vehicle = "Vehicle IN"
  /\ ~\E i \in Live : inspection[i].visit \in Open
  /\ Begin(k, [at |-> "inspect", raced |-> FALSE])
  /\ UNCHANGED <<vehicle, visit, images, inspection, fate, unsure>>

\* An open inspection of any visit of the vehicle stands in the way.
CreateInspectionRead(k) ==
  /\ req[k].at = "idle" /\ vehicle = "Vehicle IN" /\ Live = {}
  /\ Begin(k, [at |-> "inspect", raced |-> FALSE])
  /\ UNCHANGED <<vehicle, visit, images, inspection, fate, unsure>>

Inspected(c) == [visit |-> c, status |-> "IN_PROGRESS"]

\* A transaction begins with a search for a visit that is open.
CreateInspectionFind(k) ==
  /\ req[k].at = "inspect"
  /\ \E c \in IF Open = {} THEN {NoVisit} ELSE Open :
       Begin(k, [at |-> "begin", visit |-> c, stale |-> req[k].raced, raced |-> FALSE])
  /\ UNCHANGED <<vehicle, visit, images, inspection, fate, unsure>>

\* Its commit, for the visit it found, which may be closed by now, or for one of its own.
\* A visit deleted by now violates its key, and the request fails.
CreateInspection(k) ==
  /\ req[k].at = "begin" /\ Unmade(inspection) # {}
  /\ LET i == First(inspection)
         c == IF req[k].visit = NoVisit THEN First(visit) ELSE req[k].visit
         made == IF req[k].visit = NoVisit /\ req[k].raced THEN {<<"visit", c>>} ELSE {}
     IN /\ IF req[k].visit = NoVisit
           THEN Unmade(visit) # {} /\ visit' = [visit EXCEPT ![c] = NewVisit("active")]
           ELSE c \in Rows(visit) /\ visit' = visit
        /\ inspection' = [inspection EXCEPT ![i] = Inspected(c)]
        /\ unsure' = unsure \cup made \cup (IF req[k].stale \/ req[k].raced THEN {<<"inspection", i>>} ELSE {})
  /\ vehicle' = "Inspection (Draft)" /\ EndSeen(k)
  /\ UNCHANGED <<images, fate>>

SubmitRead(k) ==
  /\ req[k].at = "idle"
  /\ \E i \in Rows(inspection) :
       inspection[i].status = "IN_PROGRESS" /\ Begin(k, [at |-> "submit", inspection |-> i])
  /\ UNCHANGED <<vehicle, visit, images, inspection, fate, unsure>>

\* The vehicle's status follows, whichever visit the inspection belongs to.
SubmitInspection(k) ==
  /\ req[k].at = "submit"
  /\ inspection' = IF req[k].inspection \in Rows(inspection)
                   THEN [inspection EXCEPT ![req[k].inspection].status = "COMPLETED"] ELSE inspection
  /\ vehicle' = "Inspection Done" /\ End(k)
  /\ UNCHANGED <<visit, images, fate, unsure>>

-----------------------------------------------------------------------------
(* What the rest of the system does to these rows.                         *)

\* A job card is made and worked on: its steps are in Estimate and ServiceVisit.
WorkOn ==
  /\ \E c \in Open, status \in Stages, work \in {"pending", "done"} :
       /\ vehicle \in Stages \cup {"Inspection Done"}
       /\ vehicle' = status
       /\ visit' = [visit EXCEPT ![c].work = work]
  /\ UNCHANGED <<images, inspection, req, fate, unsure>>

\* createAppointment readies a vehicle that has left.
Book ==
  /\ vehicle \in {"Completed", "Cancelled"}
  /\ vehicle' = "Entry (Draft)"
  /\ UNCHANGED <<visit, images, inspection, req, fate, unsure>>

\* The server stops, or a statement fails: what was written stays.
Fail(k) ==
  /\ k \in InFlight /\ End(k)
  /\ UNCHANGED <<vehicle, visit, images, inspection, fate, unsure>>

Entry(k) ==
  \/ \E from \in {"gate", "desk"} : EntryRead(k, from)
  \/ EntryLook(k) \/ EntryShut(k) \/ Enter(k)
  \/ CreateClosed(k) \/ UpdateCheckIn(k) \/ DeleteCheckIn(k)

Gate(k) ==
  \/ UploadImages(k) \/ DeleteImage(k) \/ DeletePhoto(k)
  \/ ReEntryRead(k) \/ ReEntryClose(k) \/ ReEntryAdopt(k)
  \/ ExitShut(k) \/ ExitCollect(k) \/ ArchivePhotos(k) \/ ClearImages(k) \/ Leave(k)
  \/ CancelVehicle(k) \/ CancelVisits(k)

QcIn(k) ==
  \/ CreateInspectionRead(k) \/ CreateInspectionFind(k) \/ CreateInspection(k)
  \/ SubmitRead(k) \/ SubmitInspection(k)

Next == (\E k \in Clerks : Entry(k) \/ Gate(k) \/ QcIn(k) \/ Fail(k)) \/ WorkOn \/ Book

Spec == Init /\ [][Next]_vars

-----------------------------------------------------------------------------
(* What must hold.                                                         *)

\* Gate keepers, the desk and inspectors open a visit only where they have found none open, or
\* close that one first: two are open at once only if one was made by a request that another
\* overtook after it had looked (two inspectors do, or one and the gate), or was reopened by hand.
OneActiveVisit == \A c, d \in {e \in Open : <<"visit", e>> \notin unsure} : c = d

\* A vehicle has one open inspection, whichever of its visits it belongs to, unless two
\* inspectors began at the same time.
OneLiveInspection == \A i, j \in {e \in Live : <<"inspection", e>> \notin unsure} : i = j

\* A gate photo nobody deleted is still with the vehicle or archived with a visit, wherever a
\* re-entry or an exit stopped, except one taken while that was archiving.
PhotosKept == \A p \in Photos : fate[p] = "kept" => p \in images \cup Archived
=============================================================================
