------------------------ MODULE VehicleVisitsProofs ------------------------
(***************************************************************************)
(* Proofs about VehicleVisits, for any number of check-ins, inspections,   *)
(* photos and clerks, whatever their requests overlap with.                *)
(*                                                                         *)
(* The argument: a request that makes a visit or an inspection, and that   *)
(* no other has overtaken since it read, has read that there is none; and  *)
(* one that archives the images holds every kept photo among them.         *)
(*                                                                         *)
(* The second part is about BookingIdentity.                               *)
(***************************************************************************)
EXTENDS VehicleVisits, FiniteSetTheorems, WellFoundedInduction, TLAPS

SureOpen == {c \in Open : <<"visit", c>> \notin unsure}

SureLive == {i \in Live : <<"inspection", i>> \notin unsure}

\* The photos to keep that no visit has yet.
Waiting == {p \in images : fate[p] = "kept"} \ Archived

\* What a request q that is not overtaken knows of the visits and inspections, and what
\* one that archives knows of the photos.
Sound(q, open, live, waiting) ==
  /\ q.at = "shut" /\ ~q.raced => open \subseteq {q.visit}
  /\ q.at = "enter" /\ ~q.raced => open = {}
  /\ q.at = "inspect" /\ ~q.raced => live = {}
  /\ q.at = "begin" /\ ~q.raced /\ q.visit = NoVisit => open = {}
  /\ q.at = "begin" /\ ~q.raced /\ ~q.stale => live = {}
  /\ q.at \in {"leave", "archive"} => waiting \subseteq q.photos
  /\ q.at = "clear" => waiting = {}

RequestsSound == \A k \in Clerks : Sound(req[k], SureOpen, SureLive, Waiting)

IInv ==
  /\ TypeOK
  /\ IsFiniteSet(Rows(visit))
  /\ RequestsSound
  /\ OneActiveVisit
  /\ OneLiveInspection
  /\ PhotosKept

\* What a step may take away and never adds, but where a visit, an inspection or a photo is made.
Shrinks ==
  /\ SureOpen' \subseteq SureOpen
  /\ SureLive' \subseteq SureLive
  /\ Waiting' \subseteq Waiting

-----------------------------------------------------------------------------
(* Numbers.                                                                *)

\* A finite set of numbers has a greatest one: of the finite sets that had none, a least
\* would be left with none when one of its members is taken away.
LEMMA GreatestExists ==
  ASSUME NEW S \in SUBSET Nat, IsFiniteSet(S), S # {}
  PROVE  \E x \in S : \A y \in S : y <= x
  <1> DEFINE HasGreatest(T) == \E x \in T : \A y \in T : y <= x
             Bad == {T \in FiniteSubsetsOf(Nat) : T # {} /\ ~HasGreatest(T)}
  <1>1. SUFFICES ASSUME Bad # {} PROVE FALSE
    BY DEF FiniteSubsetsOf
  <1>2. PICK T \in Bad : \A U \in Bad : ~(<<U, T>> \in StrictSubsetOrdering(Nat))
    <2>1. IsWellFoundedOn(StrictSubsetOrdering(Nat), FiniteSubsetsOf(Nat)) /\ Bad \subseteq FiniteSubsetsOf(Nat)
      BY FS_StrictSubsetOrderingWellFounded
    <2> QED
      BY <1>1, <2>1, WFMin
  <1>3. T # {} /\ T \subseteq Nat /\ IsFiniteSet(T) /\ ~HasGreatest(T)
    BY DEF FiniteSubsetsOf
  <1>4. PICK x \in T : TRUE
    BY <1>3
  <1>5. IsFiniteSet(T \ {x})
    BY <1>3, FS_RemoveElement
  <1>6. <<T \ {x}, T>> \in StrictSubsetOrdering(Nat)
    <2>1. T \ {x} # T
      BY <1>4
    <2> QED
      BY <1>3, <2>1 DEF StrictSubsetOrdering
  <1>7. T \ {x} \in FiniteSubsetsOf(Nat)
    BY <1>3, <1>5 DEF FiniteSubsetsOf
  <1>8. T \ {x} = {} \/ HasGreatest(T \ {x})
    BY <1>2, <1>6, <1>7
  <1>9. CASE T \ {x} = {}
    BY <1>3, <1>4, <1>9
  <1>10. ASSUME HasGreatest(T \ {x}) PROVE FALSE
    <2>1. PICK m \in T \ {x} : \A y \in T \ {x} : y <= m
      BY <1>10
    <2>2. x \in Nat /\ m \in Nat /\ \A y \in T : y \in Nat
      BY <1>3, <1>4, <2>1
    <2>3. CASE x <= m
      <3>1. \A y \in T : y <= m
        BY <2>1, <2>3
      <3> QED
        BY <1>3, <2>1, <3>1
    <2>4. CASE m <= x
      <3>1. \A y \in T : y <= x
        BY <2>1, <2>2, <2>4
      <3> QED
        BY <1>3, <1>4, <3>1
    <2> QED
      BY <2>2, <2>3, <2>4
  <1> QED
    BY <1>8, <1>9, <1>10

\* A set of numbers has a least one.
LEMMA LeastExists ==
  ASSUME NEW S \in SUBSET Nat, S # {}
  PROVE  \E x \in S : \A y \in S : x <= y
  <1>1. PICK n \in S : TRUE
    OBVIOUS
  <1> DEFINE Below == {m \in 0 .. n : \A y \in S : m <= y}
  <1>2. IsFiniteSet(Below) /\ Below \in SUBSET Nat /\ 0 \in Below
    <2>1. IsFiniteSet(0 .. n)
      BY FS_Interval
    <2> QED
      BY <2>1, FS_Subset
  <1>3. PICK g \in Below : \A m \in Below : m <= g
    BY <1>2, GreatestExists
  <1>4. g + 1 \notin Below
    BY <1>3
  <1> QED
    BY <1>1, <1>4

-----------------------------------------------------------------------------
(* Rows.                                                                   *)

\* The next check-in is one that is not made yet.
LEMMA FirstVisit ==
  ASSUME TypeOK, Unmade(visit) # {}
  PROVE  First(visit) \in Visits /\ visit[First(visit)] = NoRow
  <1>1. Unmade(visit) \in SUBSET Nat /\ Unmade(visit) \subseteq Visits
    BY VisitsAssumption DEF Unmade, TypeOK
  <1>2. \E x \in Unmade(visit) : \A y \in Unmade(visit) : x <= y
    BY <1>1, LeastExists
  <1>3. First(visit) \in Unmade(visit)
    BY <1>2 DEF First
  <1> QED
    BY <1>1, <1>3 DEF Unmade, TypeOK, Visit, Gone

\* So is the next inspection.
LEMMA FirstInspection ==
  ASSUME TypeOK, Unmade(inspection) # {}
  PROVE  First(inspection) \in Inspections /\ inspection[First(inspection)] = NoRow
  <1>1. Unmade(inspection) \in SUBSET Nat /\ Unmade(inspection) \subseteq Inspections
    BY VisitsAssumption DEF Unmade, TypeOK
  <1>2. \E x \in Unmade(inspection) : \A y \in Unmade(inspection) : x <= y
    BY <1>1, LeastExists
  <1>3. First(inspection) \in Unmade(inspection)
    BY <1>2 DEF First
  <1> QED
    BY <1>1, <1>3 DEF Unmade, TypeOK, Inspection, Gone

\* The latest check-in is one that is there.
LEMMA LatestVisit ==
  ASSUME TypeOK, IsFiniteSet(Rows(visit)), Rows(visit) # {}
  PROVE  Latest \in Rows(visit) /\ Latest \in Visits
  <1>1. Rows(visit) \in SUBSET Nat /\ Rows(visit) \subseteq Visits
    BY VisitsAssumption DEF Rows, TypeOK
  <1>2. \E x \in Rows(visit) : \A y \in Rows(visit) : y <= x
    BY <1>1, GreatestExists
  <1> QED
    BY <1>1, <1>2 DEF Latest

\* A check-in that is there has a row, and only such a one can be open.
LEMMA RowsAreVisits ==
  ASSUME TypeOK
  PROVE  /\ Rows(visit) \subseteq Visits
         /\ Open \subseteq Rows(visit)
         /\ \A c \in Rows(visit) : visit[c] \in Visit
         /\ Archived = UNION {visit[c].photos : c \in Rows(visit)}
         /\ Archived \subseteq Photos
  BY DEF TypeOK, Rows, Open, Visit, NoRow, Gone, Archived

-----------------------------------------------------------------------------
(* Requests.                                                               *)

\* What a request knows stays true while less is open, live and waiting.
LEMMA SoundStays ==
  ASSUME Shrinks, NEW q, Sound(q, SureOpen, SureLive, Waiting)
  PROVE  Sound(q, SureOpen', SureLive', Waiting')
  BY DEF Sound, Shrinks

\* The request that makes a step becomes q; the others stay as they are.
LEMMA RequestsStaySound ==
  ASSUME TypeOK, RequestsSound, Shrinks, NEW k \in Clerks, NEW q, req' = [req EXCEPT ![k] = q],
         Sound(q, SureOpen', SureLive', Waiting')
  PROVE  RequestsSound'
  <1> SUFFICES ASSUME NEW o \in Clerks PROVE Sound(req'[o], SureOpen', SureLive', Waiting')
    BY DEF RequestsSound
  <1>1. CASE o = k
    BY <1>1 DEF TypeOK
  <1>2. CASE o # k
    <2>1. req'[o] = req[o] /\ Sound(req[o], SureOpen, SureLive, Waiting)
      BY <1>2 DEF TypeOK, RequestsSound
    <2> QED
      BY <2>1, SoundStays
  <1> QED
    BY <1>1, <1>2

\* An idle request knows nothing.
LEMMA IdleSound ==
  Idle \in Request /\ \A open, live, waiting : Sound(Idle, open, live, waiting)
  BY DEF Idle, Request, Sound

\* A step that opens and makes nothing keeps the invariant when the photos stay.
LEMMA ShrinkKeeps ==
  ASSUME IInv, TypeOK', IsFiniteSet(Rows(visit)'), Shrinks, RequestsSound', PhotosKept'
  PROVE  IInv'
  <1>1. OneActiveVisit' /\ OneLiveInspection'
    BY DEF IInv, OneActiveVisit, OneLiveInspection, Shrinks, SureOpen, SureLive
  <1> QED
    BY <1>1 DEF IInv

\* A statement that only reads: the invariant holds when what it remembers is sound.
LEMMA ReadKeeps ==
  ASSUME IInv, NEW k \in Clerks, NEW q \in Request, req' = [req EXCEPT ![k] = q],
         vehicle' \in VehicleStatus, UNCHANGED <<visit, images, inspection, fate, unsure>>,
         Sound(q, SureOpen, SureLive, Waiting)
  PROVE  IInv'
  <1> USE DEF IInv
  <1>1. TypeOK'
    BY DEF TypeOK
  <1>2. Rows(visit)' = Rows(visit) /\ SureOpen' = SureOpen /\ SureLive' = SureLive /\ Waiting' = Waiting
    BY DEF Rows, SureOpen, Open, SureLive, Live, IsLive, Waiting, Archived
  <1>3. Shrinks
    BY <1>2 DEF Shrinks
  <1>4. RequestsSound'
    BY <1>2, <1>3, RequestsStaySound
  <1>5. PhotosKept'
    BY DEF PhotosKept, Archived, Rows
  <1> QED
    BY <1>1, <1>2, <1>3, <1>4, <1>5, ShrinkKeeps

-----------------------------------------------------------------------------
(* Reads.                                                                  *)

\* The first reads of an entry: what is open is read before anything is made.
LEMMA EntryReadsKeep ==
  ASSUME IInv, NEW k \in Clerks, (\E from \in {"gate", "desk"} : EntryRead(k, from)) \/ EntryLook(k)
  PROVE  IInv'
  <1> USE DEF IInv
  <1>1. ASSUME NEW from \in {"gate", "desk"}, EntryRead(k, from) PROVE IInv'
    <2> DEFINE allowed == vehicle \in AllowReentry
               q == [at |-> "look", from |-> from, allowed |-> allowed, raced |-> FALSE]
    <2>1. q \in Request /\ Sound(q, SureOpen, SureLive, Waiting)
      <3>1. allowed \in BOOLEAN
        OBVIOUS
      <3> HIDE DEF allowed
      <3> QED
        BY <3>1 DEF Request, Sound
    <2> QED
      BY <1>1, <2>1, ReadKeeps DEF EntryRead, Begin, TypeOK
  <1>2. ASSUME EntryLook(k) PROVE IInv'
    <2>1. /\ req[k].at = "look" /\ vehicle' \in VehicleStatus
          /\ UNCHANGED <<visit, images, inspection, fate, unsure>>
      BY <1>2 DEF EntryLook, TypeOK
    <2>2. req[k].from \in {"gate", "desk"} /\ req[k].raced \in BOOLEAN
      BY <2>1 DEF TypeOK, Request
    <2> DEFINE others(c) == req[k].raced \/ \E d \in Open : d # c
               q(at, c) == [at |-> at, from |-> req[k].from, visit |-> c, raced |-> others(c)]
    <2>3. ASSUME Open = {}, EntryFound(k, "enter", NoVisit) PROVE IInv'
      <3>1. q("enter", NoVisit) \in Request
        <4>1. others(NoVisit) \in BOOLEAN
          OBVIOUS
        <4> HIDE DEF others
        <4> QED
          BY <2>2, <4>1 DEF Request
      <3>2. Sound(q("enter", NoVisit), SureOpen, SureLive, Waiting)
        BY <2>3 DEF Sound, SureOpen
      <3> QED
        BY <2>1, <2>3, <3>1, <3>2, ReadKeeps DEF EntryFound, Begin
    <2>4. ASSUME NEW c \in Open, EntryFound(k, "shut", c) PROVE IInv'
      <3>1. q("shut", c) \in Request
        <4>1. others(c) \in BOOLEAN
          OBVIOUS
        <4> HIDE DEF others
        <4> QED
          BY <2>2, <4>1 DEF Request, Open
      <3>2. Sound(q("shut", c), SureOpen, SureLive, Waiting)
        BY DEF Sound, SureOpen
      <3> QED
        BY <2>1, <2>4, <3>1, <3>2, ReadKeeps DEF EntryFound, Begin
    <2>5. ASSUME End(k) PROVE IInv'
      BY <2>1, <2>5, IdleSound, ReadKeeps DEF End
    <2> QED
      BY <1>2, <2>3, <2>4, <2>5 DEF EntryLook
  <1> QED
    BY <1>1, <1>2

\* A re-entry or an exit takes all the images there are, and with them every photo that waits.
LEMMA LeavingReadsKeep ==
  ASSUME IInv, NEW k \in Clerks, ReEntryRead(k) \/ ExitCollect(k)
  PROVE  IInv'
  <1> USE DEF IInv
  <1>1. Waiting \subseteq images /\ images \subseteq Photos /\ vehicle \in VehicleStatus
    BY DEF Waiting, TypeOK
  <1>2. ASSUME ReEntryRead(k) PROVE IInv'
    <2>1. PICK c \in Visits \cup {NoVisit} :
            Begin(k, [at |-> "leave", to |-> "Entry (Draft)", visit |-> c, photos |-> images])
      BY <1>2 DEF ReEntryRead, Open
    <2> DEFINE q == [at |-> "leave", to |-> "Entry (Draft)", visit |-> c, photos |-> images]
    <2>2. q \in Request /\ Sound(q, SureOpen, SureLive, Waiting)
      BY <1>1 DEF Request, Sound
    <2> QED
      BY <1>1, <1>2, <2>1, <2>2, ReadKeeps DEF ReEntryRead, Begin
  <1>3. ASSUME ExitCollect(k) PROVE IInv'
    <2>1. req[k].to \in {"Entry (Draft)", "Completed"} /\ req[k].visit \in Visits
      BY <1>3 DEF ExitCollect, TypeOK, Request
    <2> DEFINE q == [at |-> "archive", to |-> req[k].to, visit |-> req[k].visit, photos |-> images]
               l == [at |-> "leaving", to |-> req[k].to]
    <2>2. q \in Request /\ Sound(q, SureOpen, SureLive, Waiting)
      BY <1>1, <2>1 DEF Request, Sound
    <2>3. l \in Request /\ Sound(l, SureOpen, SureLive, Waiting)
      BY <2>1 DEF Request, Sound
    <2> QED
      BY <1>1, <1>3, <2>2, <2>3, ReadKeeps DEF ExitCollect, Archive, Begin
  <1> QED
    BY <1>2, <1>3

\* What else only reads, or writes the status of the vehicle alone.
LEMMA OtherReadsKeep ==
  ASSUME IInv, NEW k \in Clerks,
         CancelVehicle(k) \/ CreateInspectionRead(k) \/ CreateInspectionFind(k) \/ SubmitRead(k) \/ Leave(k) \/ Fail(k)
  PROVE  IInv'
  <1> USE DEF IInv
  <1>1. vehicle \in VehicleStatus
    BY DEF TypeOK
  <1>2. ASSUME CancelVehicle(k) PROVE IInv'
    <2>1. [at |-> "cancel"] \in Request /\ Sound([at |-> "cancel"], SureOpen, SureLive, Waiting)
      BY DEF Request, Sound
    <2> QED
      BY <1>2, <2>1, ReadKeeps DEF CancelVehicle, Begin, VehicleStatus
  <1>3. ASSUME CreateInspectionRead(k) PROVE IInv'
    <2> DEFINE q == [at |-> "inspect", raced |-> FALSE]
    <2>1. q \in Request /\ Sound(q, SureOpen, SureLive, Waiting)
      BY <1>3 DEF CreateInspectionRead, Request, Sound, SureLive
    <2> QED
      BY <1>1, <1>3, <2>1, ReadKeeps DEF CreateInspectionRead, Begin
  <1>4. ASSUME SubmitRead(k) PROVE IInv'
    <2>1. PICK i \in Inspections : Begin(k, [at |-> "submit", inspection |-> i])
      BY <1>4 DEF SubmitRead, Rows, TypeOK
    <2>2. /\ [at |-> "submit", inspection |-> i] \in Request
          /\ Sound([at |-> "submit", inspection |-> i], SureOpen, SureLive, Waiting)
      BY DEF Request, Sound
    <2> QED
      BY <1>1, <1>4, <2>1, <2>2, ReadKeeps DEF SubmitRead, Begin
  <1>5. ASSUME Leave(k) PROVE IInv'
    <2>1. req[k].to \in VehicleStatus
      BY <1>5 DEF Leave, TypeOK, Request, VehicleStatus
    <2> QED
      BY <1>5, <2>1, IdleSound, ReadKeeps DEF Leave, End
  <1>6. ASSUME Fail(k) PROVE IInv'
    BY <1>1, <1>6, IdleSound, ReadKeeps DEF Fail, End
  <1>7. ASSUME CreateInspectionFind(k) PROVE IInv'
    <2>1. req[k].at = "inspect" /\ req[k].raced \in BOOLEAN
      BY <1>7 DEF CreateInspectionFind, TypeOK, Request
    <2>2. ~req[k].raced => SureLive = {}
      BY <2>1 DEF RequestsSound, Sound
    <2>3. PICK c \in IF Open = {} THEN {NoVisit} ELSE Open :
            Begin(k, [at |-> "begin", visit |-> c, stale |-> req[k].raced, raced |-> FALSE])
      BY <1>7 DEF CreateInspectionFind
    <2>4. c \in Visits \cup {NoVisit} /\ (c = NoVisit => SureOpen = {})
      BY VisitsAssumption DEF Open, SureOpen, NoVisit
    <2> DEFINE q == [at |-> "begin", visit |-> c, stale |-> req[k].raced, raced |-> FALSE]
    <2>5. q \in Request
      BY <2>1, <2>4 DEF Request
    <2>6. Sound(q, SureOpen, SureLive, Waiting)
      BY <2>2, <2>4 DEF Sound
    <2> QED
      BY <1>1, <1>7, <2>3, <2>5, <2>6, ReadKeeps DEF CreateInspectionFind, Begin
  <1> QED
    BY <1>2, <1>3, <1>4, <1>5, <1>6, <1>7

-----------------------------------------------------------------------------
(* Closing and working on visits.                                          *)

\* The rows keep their photos, and none opens.
Touched ==
  /\ visit' \in [Visits -> Visit \cup {NoRow, Gone}]
  /\ \A c \in Visits :
       visit'[c] # visit[c] =>
         /\ visit[c] \in Visit /\ visit'[c] \in Visit
         /\ visit'[c].photos = visit[c].photos
         /\ visit'[c].status = "active" => visit[c].status = "active"
  /\ UNCHANGED <<images, inspection, fate, unsure>>

\* A step that touches the visits so takes nothing from what the requests know.
LEMMA TouchedShrinks ==
  ASSUME IInv, Touched
  PROVE  Rows(visit)' = Rows(visit) /\ Archived' = Archived /\ Shrinks /\ PhotosKept'
  <1> USE DEF IInv
  <1>1. DOMAIN visit = Visits /\ DOMAIN visit' = Visits
    BY DEF TypeOK, Touched
  <1>2. Rows(visit)' = Rows(visit)
    BY <1>1 DEF Touched, Rows, Visit
  <1>3. \A c \in Rows(visit) : visit'[c].photos = visit[c].photos
    BY <1>1 DEF Touched, Rows
  <1>4. Archived' = Archived
    BY <1>2, <1>3 DEF Archived
  <1>5. Open' \subseteq Open
    BY DEF Touched, Open
  <1>6. SureOpen' \subseteq SureOpen
    BY <1>5 DEF Touched, SureOpen
  <1>7. SureLive' = SureLive
    BY DEF Touched, SureLive, Live, IsLive, Rows
  <1>8. Waiting' = Waiting
    BY <1>4 DEF Touched, Waiting
  <1>9. PhotosKept'
    BY <1>4 DEF Touched, PhotosKept
  <1> QED
    BY <1>2, <1>4, <1>6, <1>7, <1>8, <1>9 DEF Shrinks

\* Closing one visit touches no other, and it is not open any more.
LEMMA ShutTouches ==
  ASSUME TypeOK, NEW c, visit' = Shut(c), UNCHANGED <<images, inspection, fate, unsure>>
  PROVE  Touched /\ c \notin Open'
  <1>1. CASE c \in Open
    <2>1. /\ c \in Visits /\ visit[c] \in Visit
          /\ visit' = [visit EXCEPT ![c] = [visit[c] EXCEPT !.status = "closed"]]
      BY <1>1 DEF Shut, Open, TypeOK, NoRow, Gone
    <2>2. [visit[c] EXCEPT !.status = "closed"] \in Visit
      BY <2>1 DEF Visit
    <2>3. visit'[c] = [visit[c] EXCEPT !.status = "closed"]
      BY <2>1 DEF TypeOK
    <2>4. visit'[c].status = "closed" /\ visit'[c].photos = visit[c].photos
      BY <2>1, <2>3 DEF Visit
    <2> QED
      BY <2>1, <2>2, <2>3, <2>4 DEF Touched, TypeOK, Open
  <1>2. CASE c \notin Open
    BY <1>2 DEF Shut, Touched, TypeOK, Open
  <1> QED
    BY <1>1, <1>2

\* The request that touches the visits becomes q.
LEMMA TouchKeeps ==
  ASSUME IInv, NEW k \in Clerks, NEW q \in Request, req' = [req EXCEPT ![k] = q], vehicle' = vehicle,
         Touched, Sound(q, SureOpen', SureLive', Waiting')
  PROVE  IInv'
  <1> USE DEF IInv
  <1>1. TypeOK'
    BY DEF TypeOK, Touched
  <1>2. IsFiniteSet(Rows(visit)') /\ Shrinks /\ PhotosKept'
    BY TouchedShrinks
  <1>3. RequestsSound'
    BY <1>2, RequestsStaySound
  <1> QED
    BY <1>1, <1>2, <1>3, ShrinkKeeps

\* An entry that closes the only visit it saw open leaves none open but those not sure.
LEMMA ClosingKeeps ==
  ASSUME IInv, NEW k \in Clerks, EntryShut(k) \/ ReEntryClose(k) \/ ExitShut(k) \/ CancelVisits(k)
  PROVE  IInv'
  <1> USE DEF IInv
  <1>1. ASSUME EntryShut(k) PROVE IInv'
    <2> DEFINE c == req[k].visit
               q == [req[k] EXCEPT !.at = "enter", !.visit = NoVisit]
    <2>1. req[k].at = "shut" /\ Touched /\ c \notin Open'
      BY <1>1, ShutTouches DEF EntryShut
    <2>2. /\ q \in Request /\ q.at = "enter" /\ q.raced = req[k].raced
      <3> DEFINE Found == [at : {"shut", "enter"}, from : {"gate", "desk"}, visit : Visits \cup {NoVisit},
                           raced : BOOLEAN]
      <3>1. req[k] \in Found
        BY <2>1 DEF TypeOK, Request
      <3>2. q \in Found /\ q.at = "enter" /\ q.raced = req[k].raced
        BY <3>1
      <3>3. Found \subseteq Request
        BY DEF Request
      <3> QED
        BY <3>2, <3>3
    <2>3. ~req[k].raced => SureOpen \subseteq {c}
      BY <2>1 DEF RequestsSound, Sound
    <2>4. SureOpen' \subseteq SureOpen /\ c \notin SureOpen'
      BY <2>1, TouchedShrinks DEF Shrinks, SureOpen
    <2> HIDE DEF c, q
    <2>5. Sound(q, SureOpen', SureLive', Waiting')
      BY <2>2, <2>3, <2>4 DEF Sound
    <2>6. req' = [req EXCEPT ![k] = q] /\ vehicle' = vehicle
      BY <1>1 DEF EntryShut, Begin, q
    <2> QED
      BY <2>1, <2>2, <2>5, <2>6, TouchKeeps
  <1>2. ASSUME ReEntryClose(k) PROVE IInv'
    <2> DEFINE q == [at |-> "archive", to |-> req[k].to, visit |-> req[k].visit, photos |-> req[k].photos]
    <2>1. req[k].at = "leave" /\ Touched
      BY <1>2, ShutTouches DEF ReEntryClose
    <2>2. q \in Request
      BY <2>1 DEF TypeOK, Request
    <2>3. Waiting \subseteq req[k].photos
      BY <2>1 DEF RequestsSound, Sound
    <2>4. Waiting' \subseteq Waiting
      BY <2>1, TouchedShrinks DEF Shrinks
    <2>5. Sound(q, SureOpen', SureLive', Waiting')
      BY <2>3, <2>4 DEF Sound
    <2> QED
      BY <1>2, <2>1, <2>2, <2>5, TouchKeeps DEF ReEntryClose, Archive, Begin
  <1>3. ASSUME ExitShut(k) PROVE IInv'
    <2>1. PICK c \in Rows(visit) : visit' = Shut(c) /\ Begin(k, [at |-> "collect", to |-> "Completed", visit |-> c])
      BY <1>3 DEF ExitShut
    <2> DEFINE q == [at |-> "collect", to |-> "Completed", visit |-> c]
    <2>2. Touched
      BY <1>3, <2>1, ShutTouches DEF ExitShut
    <2>3. q \in Request /\ Sound(q, SureOpen', SureLive', Waiting')
      BY DEF Request, Sound, Rows, TypeOK
    <2> QED
      BY <1>3, <2>1, <2>2, <2>3, TouchKeeps DEF ExitShut, Begin
  <1>4. ASSUME CancelVisits(k) PROVE IInv'
    <2>1. Touched
      <3>1. \A c \in Open : visit[c] \in Visit /\ [visit[c] EXCEPT !.status = "closed"] \in Visit
                             /\ [visit[c] EXCEPT !.status = "closed"].photos = visit[c].photos
                             /\ [visit[c] EXCEPT !.status = "closed"].status = "closed"
        BY DEF TypeOK, Open, Visit, NoRow, Gone
      <3>2. \A c \in Visits : visit'[c] = IF c \in Open THEN [visit[c] EXCEPT !.status = "closed"] ELSE visit[c]
        BY <1>4 DEF CancelVisits
      <3>3. visit' \in [Visits -> Visit \cup {NoRow, Gone}]
        BY <1>4, <3>1 DEF CancelVisits, TypeOK
      <3> QED
        BY <1>4, <3>1, <3>2, <3>3 DEF CancelVisits, Touched
    <2> QED
      BY <1>4, <2>1, IdleSound, TouchKeeps DEF CancelVisits, End
  <1> QED
    BY <1>1, <1>2, <1>3, <1>4

\* A step that no request of these makes touches the visits at most.
LEMMA QuietTouchKeeps ==
  ASSUME IInv, vehicle' \in VehicleStatus, req' = req, Touched
  PROVE  IInv'
  <1> USE DEF IInv
  <1>1. TypeOK'
    BY DEF TypeOK, Touched
  <1>2. IsFiniteSet(Rows(visit)') /\ Shrinks /\ PhotosKept'
    BY TouchedShrinks
  <1>3. RequestsSound'
    <2> SUFFICES ASSUME NEW o \in Clerks PROVE Sound(req[o], SureOpen', SureLive', Waiting')
      BY DEF RequestsSound
    <2> QED
      BY <1>2, SoundStays DEF RequestsSound
  <1> QED
    BY <1>1, <1>2, <1>3, ShrinkKeeps

\* Job cards are made and worked on, and a vehicle that has left is booked again.
LEMMA OutsideKeeps ==
  ASSUME IInv, WorkOn \/ Book
  PROVE  IInv'
  <1> USE DEF IInv
  <1>1. vehicle' \in VehicleStatus /\ req' = req
    BY VisitsAssumption DEF WorkOn, Book, VehicleStatus, TypeOK
  <1>2. Touched
    <2>1. ASSUME WorkOn PROVE Touched
      <3>1. PICK c \in Open, work \in {"pending", "done"} : visit' = [visit EXCEPT ![c].work = work]
        BY <2>1 DEF WorkOn
      <3>2. c \in Visits /\ visit[c] \in Visit
        BY DEF Open, TypeOK, NoRow, Gone
      <3>3. /\ [visit[c] EXCEPT !.work = work] \in Visit
            /\ [visit[c] EXCEPT !.work = work].photos = visit[c].photos
            /\ [visit[c] EXCEPT !.work = work].status = visit[c].status
        BY <3>2 DEF Visit
      <3>4. visit' = [visit EXCEPT ![c] = [visit[c] EXCEPT !.work = work]]
        BY <3>1
      <3> QED
        BY <2>1, <3>2, <3>3, <3>4 DEF WorkOn, Touched, TypeOK
    <2>2. ASSUME Book PROVE Touched
      BY <2>2 DEF Book, Touched, TypeOK
    <2> QED
      BY <2>1, <2>2
  <1> QED
    BY <1>1, <1>2, QuietTouchKeeps

-----------------------------------------------------------------------------
(* Photos.                                                                 *)

\* Archiving leaves no kept photo waiting, so that the images may then be deleted.
LEMMA ArchivingKeeps ==
  ASSUME IInv, NEW k \in Clerks, ArchivePhotos(k)
  PROVE  IInv'
  <1> USE DEF IInv
  <1> DEFINE c == req[k].visit
             photos == req[k].photos
             q == [at |-> "clear", to |-> req[k].to]
  <1>1. /\ req[k].at = "archive" /\ vehicle' = vehicle
        /\ UNCHANGED <<images, inspection, fate, unsure>>
    BY DEF ArchivePhotos
  <1>2. photos \subseteq Photos /\ q \in Request
    BY <1>1 DEF TypeOK, Request
  <1>3. Waiting \subseteq photos
    BY <1>1 DEF RequestsSound, Sound
  <1>4. ASSUME c \in Rows(visit), visit' = [visit EXCEPT ![c].photos = @ \cup photos], Clear(k)
        PROVE  IInv'
    <2> DEFINE row == [visit[c] EXCEPT !.photos = @ \cup photos]
    <2>1. c \in Visits /\ visit[c] \in Visit
      BY <1>4, RowsAreVisits
    <2>2. /\ row \in Visit /\ row.photos = visit[c].photos \cup photos /\ row.status = visit[c].status
      BY <1>2, <2>1 DEF Visit
    <2> HIDE DEF row
    <2>3. /\ visit' \in [Visits -> Visit \cup {NoRow, Gone}] /\ visit'[c] = row
          /\ \A d \in Visits : d # c => visit'[d] = visit[d]
      BY <1>4, <2>1, <2>2 DEF TypeOK, row
    <2>4. Rows(visit)' = Rows(visit) /\ Open' = Open
      BY <2>1, <2>2, <2>3 DEF Rows, Open, TypeOK
    <2>5. Archived' = Archived \cup photos
      <3>1. \A d \in Rows(visit) : visit'[d].photos = IF d = c THEN visit[d].photos \cup photos ELSE visit[d].photos
        BY <2>2, <2>3 DEF Rows, TypeOK
      <3> QED
        BY <1>4, <2>4, <3>1 DEF Archived
    <2>6. Waiting' = {}
      BY <1>1, <1>3, <2>5 DEF Waiting
    <2>7. SureOpen' = SureOpen /\ SureLive' = SureLive
      BY <1>1, <2>4 DEF SureOpen, SureLive, Live, IsLive, Rows
    <2>8. Shrinks /\ PhotosKept'
      BY <1>1, <2>5, <2>6, <2>7 DEF Shrinks, PhotosKept
    <2>9. req' = [req EXCEPT ![k] = q]
      BY <1>4 DEF Clear, Begin
    <2>10. Sound(q, SureOpen', SureLive', Waiting')
      BY <2>6 DEF Sound
    <2>11. TypeOK'
      BY <1>1, <1>2, <2>3, <2>9 DEF TypeOK
    <2>12. RequestsSound'
      BY <2>8, <2>9, <2>10, RequestsStaySound
    <2> QED
      BY <2>4, <2>8, <2>11, <2>12, ShrinkKeeps
  <1>5. ASSUME photos # {}, End(k), visit' = visit PROVE IInv'
    BY <1>1, <1>5, IdleSound, ReadKeeps DEF End, TypeOK
  <1>6. ASSUME photos = {}, Clear(k), visit' = visit PROVE IInv'
    <2>1. Sound(q, SureOpen, SureLive, Waiting)
      BY <1>3, <1>6 DEF Sound
    <2>2. req' = [req EXCEPT ![k] = q] /\ vehicle' \in VehicleStatus
      BY <1>1, <1>6 DEF Clear, Begin, TypeOK
    <2> QED
      BY <1>1, <1>2, <1>6, <2>1, <2>2, ReadKeeps
  <1> QED
    BY <1>4, <1>5, <1>6 DEF ArchivePhotos

\* Deleting the images loses nothing to keep: none waits any more.
LEMMA ClearingKeeps ==
  ASSUME IInv, NEW k \in Clerks, ClearImages(k)
  PROVE  IInv'
  <1> USE DEF IInv
  <1> DEFINE q == [req[k] EXCEPT !.at = "leaving"]
  <1>1. /\ req[k].at = "clear" /\ images' = {}
        /\ UNCHANGED <<vehicle, visit, inspection, fate, unsure>>
    BY DEF ClearImages
  <1>2. q \in Request /\ q.at = "leaving" /\ req' = [req EXCEPT ![k] = q]
    <2> DEFINE Bound == [at : {"clear", "leaving"}, to : {"Entry (Draft)", "Completed"}]
    <2>1. req[k] \in Bound
      BY <1>1 DEF TypeOK, Request
    <2>2. q \in Bound /\ q.at = "leaving"
      BY <2>1
    <2>3. Bound \subseteq Request
      BY DEF Request
    <2> HIDE DEF Bound
    <2> QED
      BY <2>2, <2>3 DEF ClearImages, Goto
  <1> HIDE DEF q
  <1>3. Waiting = {}
    BY <1>1 DEF RequestsSound, Sound
  <1>4. /\ Rows(visit)' = Rows(visit) /\ Archived' = Archived
        /\ SureOpen' = SureOpen /\ SureLive' = SureLive /\ Waiting' = {}
    BY <1>1 DEF Rows, Archived, SureOpen, Open, SureLive, Live, IsLive, Waiting
  <1>5. Shrinks /\ Sound(q, SureOpen', SureLive', Waiting')
    BY <1>2, <1>4 DEF Shrinks, Sound
  <1>6. PhotosKept'
    BY <1>1, <1>3, <1>4 DEF PhotosKept, Waiting
  <1>7. TypeOK'
    BY <1>1, <1>2 DEF TypeOK
  <1>8. RequestsSound'
    BY <1>2, <1>5, RequestsStaySound
  <1> QED
    BY <1>4, <1>5, <1>6, <1>7, <1>8, ShrinkKeeps

\* Deleting rows and photos: those that go are excused.
LEMMA ExcusedKeeps ==
  ASSUME IInv, TypeOK', UNCHANGED <<req, unsure>>, IsFiniteSet(Rows(visit)'),
         Open' \subseteq Open, Live' \subseteq Live, images' \subseteq images,
         NEW gone, Excuse(gone), Archived \subseteq Archived' \cup gone, images \subseteq images' \cup gone
  PROVE  IInv'
  <1> USE DEF IInv
  <1>1. \A p \in Photos : fate'[p] = "kept" => p \notin gone /\ fate[p] = "kept"
    BY DEF Excuse, TypeOK
  <1>2. images' \subseteq Photos
    BY DEF TypeOK
  <1>3. Shrinks
    BY <1>1, <1>2 DEF Shrinks, SureOpen, SureLive, Waiting
  <1>4. PhotosKept'
    BY <1>1 DEF PhotosKept
  <1>5. RequestsSound'
    BY <1>3, SoundStays DEF RequestsSound
  <1> QED
    BY <1>3, <1>4, <1>5, ShrinkKeeps

\* A check-in is deleted with its inspections and photos.
LEMMA DeleteCheckInKeeps ==
  ASSUME IInv, NEW k \in Clerks, DeleteCheckIn(k)
  PROVE  IInv'
  <1> USE DEF IInv
  <1>1. PICK c \in Rows(visit) :
          /\ visit' = [visit EXCEPT ![c] = Gone]
          /\ inspection' = [i \in Inspections |->
                              IF i \in Rows(inspection) /\ inspection[i].visit = c THEN Gone ELSE inspection[i]]
          /\ Excuse(visit[c].photos)
    BY DEF DeleteCheckIn
  <1>2. UNCHANGED <<vehicle, images, req, unsure>>
    BY DEF DeleteCheckIn
  <1>3. c \in Visits /\ visit[c] \in Visit
    BY RowsAreVisits
  <1>4. visit' \in [Visits -> Visit \cup {NoRow, Gone}] /\ visit'[c] = Gone
        /\ \A d \in Visits : d # c => visit'[d] = visit[d]
    BY <1>1, <1>3 DEF TypeOK
  <1>5. Rows(visit)' = Rows(visit) \ {c} /\ Open' \subseteq Open
    BY <1>3, <1>4 DEF Rows, Open, Gone, TypeOK
  <1>6. IsFiniteSet(Rows(visit)')
    BY <1>5, FS_RemoveElement
  <1>7. Archived \subseteq Archived' \cup visit[c].photos
    BY <1>4, <1>5 DEF Archived, Rows, TypeOK
  <1>8. Live' \subseteq Live
    BY <1>1 DEF Live, IsLive, Rows, Gone, TypeOK
  <1>9. TypeOK'
    <2>1. inspection' \in [Inspections -> Inspection \cup {NoRow, Gone}]
      BY <1>1 DEF TypeOK
    <2>2. fate' \in [Photos -> {"unused", "kept", "excused"}]
      BY <1>1 DEF TypeOK, Excuse
    <2> QED
      BY <1>2, <1>4, <2>1, <2>2 DEF TypeOK
  <1> QED
    BY <1>1, <1>2, <1>5, <1>6, <1>7, <1>8, <1>9, ExcusedKeeps

\* A photo is deleted, from the vehicle or from a visit.
LEMMA DeletePhotosKeep ==
  ASSUME IInv, NEW k \in Clerks, DeleteImage(k) \/ DeletePhoto(k)
  PROVE  IInv'
  <1> USE DEF IInv
  <1>1. ASSUME DeleteImage(k) PROVE IInv'
    <2>1. PICK p \in images : images' = images \ {p} /\ Excuse({p})
      BY <1>1 DEF DeleteImage
    <2>2. UNCHANGED <<vehicle, visit, inspection, req, unsure>>
      BY <1>1 DEF DeleteImage
    <2>3. Rows(visit)' = Rows(visit) /\ Open' = Open /\ Live' = Live /\ Archived' = Archived
      BY <2>2 DEF Rows, Open, Live, IsLive, Archived
    <2>4. TypeOK'
      BY <2>1, <2>2 DEF TypeOK, Excuse
    <2> QED
      BY <2>1, <2>2, <2>3, <2>4, ExcusedKeeps
  <1>2. ASSUME DeletePhoto(k) PROVE IInv'
    <2>1. PICK c \in Rows(visit) :
            \E p \in visit[c].photos : visit' = [visit EXCEPT ![c].photos = @ \ {p}] /\ Excuse({p})
      BY <1>2 DEF DeletePhoto
    <2>2. PICK p \in visit[c].photos : visit' = [visit EXCEPT ![c].photos = @ \ {p}] /\ Excuse({p})
      BY <2>1
    <2>3. UNCHANGED <<vehicle, images, inspection, req, unsure>>
      BY <1>2 DEF DeletePhoto
    <2> DEFINE row == [visit[c] EXCEPT !.photos = @ \ {p}]
    <2>4. c \in Visits /\ visit[c] \in Visit
      BY RowsAreVisits
    <2>5. row \in Visit /\ row.photos = visit[c].photos \ {p} /\ row.status = visit[c].status
      BY <2>4 DEF Visit
    <2> HIDE DEF row
    <2>6. /\ visit' \in [Visits -> Visit \cup {NoRow, Gone}] /\ visit'[c] = row
          /\ \A d \in Visits : d # c => visit'[d] = visit[d]
      BY <2>2, <2>4, <2>5 DEF TypeOK, row
    <2>7. Rows(visit)' = Rows(visit) /\ Open' = Open /\ Live' = Live
      BY <2>3, <2>4, <2>5, <2>6 DEF Rows, Open, Live, IsLive, TypeOK
    <2>8. Archived \subseteq Archived' \cup {p}
      <3>1. \A d \in Rows(visit) : visit[d].photos \subseteq visit'[d].photos \cup {p}
        BY <2>5, <2>6 DEF Rows, TypeOK
      <3> QED
        BY <2>7, <3>1 DEF Archived
    <2>9. TypeOK'
      BY <2>2, <2>3, <2>6 DEF TypeOK, Excuse
    <2> QED
      BY <2>2, <2>3, <2>7, <2>8, <2>9, ExcusedKeeps
  <1> QED
    BY <1>1, <1>2

\* A photo taken while another request archives may be deleted with the rest, and is excused;
\* one taken else waits, and no request is past reading that should know of it.
LEMMA UploadKeeps ==
  ASSUME IInv, NEW k \in Clerks, UploadImages(k)
  PROVE  IInv'
  <1> USE DEF IInv
  <1>1. PICK p \in Photos : fate[p] = "unused" /\ images' = images \cup {p} /\ Take(p)
    BY DEF UploadImages
  <1>2. UNCHANGED <<vehicle, visit, inspection, req, unsure>>
    BY DEF UploadImages
  <1>3. TypeOK'
    BY <1>1, <1>2 DEF TypeOK, Take
  <1>4. Rows(visit)' = Rows(visit) /\ SureOpen' = SureOpen /\ SureLive' = SureLive /\ Archived' = Archived
    BY <1>2 DEF Rows, SureOpen, Open, SureLive, Live, IsLive, Archived
  <1>5. \A d \in Photos : d # p => fate'[d] = fate[d]
    BY <1>1 DEF Take, TypeOK
  <1>6. PhotosKept'
    BY <1>1, <1>4, <1>5 DEF PhotosKept
  <1>7. RequestsSound'
    <2> SUFFICES ASSUME NEW o \in Clerks PROVE Sound(req[o], SureOpen, SureLive, Waiting')
      BY <1>2, <1>4 DEF RequestsSound
    <2>1. Sound(req[o], SureOpen, SureLive, Waiting)
      BY DEF RequestsSound
    <2>2. CASE PastReading
      <3>1. fate'[p] = "excused"
        BY <1>1, <2>2 DEF Take, TypeOK
      <3>2. Waiting' \subseteq Waiting
        BY <1>1, <1>3, <1>4, <1>5, <3>1 DEF Waiting, TypeOK
      <3> QED
        BY <2>1, <3>2 DEF Sound
    <2>3. CASE ~PastReading
      <3>1. req[o].at \notin {"leave", "archive", "clear"}
        BY <2>3 DEF PastReading, InFlight
      <3> QED
        BY <2>1, <3>1 DEF Sound
    <2> QED
      BY <2>2, <2>3
  <1>8. OneActiveVisit' /\ OneLiveInspection'
    BY <1>4 DEF OneActiveVisit, OneLiveInspection, SureOpen, SureLive
  <1> QED
    BY <1>3, <1>4, <1>6, <1>7, <1>8

-----------------------------------------------------------------------------
(* Making visits and inspections.                                          *)

\* A new check-in is one row more, without photos.
LEMMA MakeVisit ==
  ASSUME IInv, Unmade(visit) # {}, NEW status \in {"active", "closed"},
         visit' = [visit EXCEPT ![First(visit)] = NewVisit(status)]
  PROVE  /\ visit' \in [Visits -> Visit \cup {NoRow, Gone}]
         /\ IsFiniteSet(Rows(visit)')
         /\ Archived' = Archived
         /\ Open' = IF status = "active" THEN Open \cup {First(visit)} ELSE Open
         /\ First(visit) \in Visits
  <1> USE DEF IInv
  <1> DEFINE x == First(visit)
  <1>1. x \in Visits /\ visit[x] = NoRow
    BY FirstVisit
  <1>2. NewVisit(status) \in Visit /\ NewVisit(status).status = status /\ NewVisit(status).photos = {}
    BY DEF NewVisit, Visit
  <1> HIDE DEF x
  <1>3. /\ visit' \in [Visits -> Visit \cup {NoRow, Gone}] /\ visit'[x] = NewVisit(status)
        /\ \A d \in Visits : d # x => visit'[d] = visit[d]
    BY <1>1, <1>2 DEF TypeOK, x
  <1>4. Rows(visit)' = Rows(visit) \cup {x} /\ x \notin Rows(visit)
    BY <1>1, <1>2, <1>3 DEF Rows, TypeOK, NoRow
  <1>5. IsFiniteSet(Rows(visit)')
    BY <1>4, FS_AddElement
  <1>6. Archived' = Archived
    <2>1. /\ \A d \in Rows(visit) : visit'[d].photos = visit[d].photos
          /\ visit'[x].photos = {}
      BY <1>2, <1>3, <1>4 DEF Rows, TypeOK
    <2>2. Archived' = UNION {visit'[d].photos : d \in Rows(visit) \cup {x}}
      BY <1>4 DEF Archived
    <2>3. ASSUME NEW p \in Archived PROVE p \in Archived'
      <3>1. PICK d \in Rows(visit) : p \in visit[d].photos
        BY DEF Archived
      <3> QED
        BY <2>1, <2>2, <3>1
    <2>4. ASSUME NEW p \in Archived' PROVE p \in Archived
      <3>1. PICK d \in Rows(visit) \cup {x} : p \in visit'[d].photos
        BY <2>2
      <3>2. d \in Rows(visit) /\ p \in visit[d].photos
        BY <2>1, <3>1
      <3> QED
        BY <3>2 DEF Archived
    <2> QED
      BY <2>3, <2>4
  <1>7. Open' = IF status = "active" THEN Open \cup {x} ELSE Open
    BY <1>1, <1>2, <1>3 DEF Open, NoRow
  <1> QED
    BY <1>1, <1>3, <1>5, <1>6, <1>7 DEF x

\* When something was made, the other requests count as overtaken: what they know of the
\* photos is all that still must be true.
LEMMA EndSeenSound ==
  ASSUME TypeOK, RequestsSound, NEW k \in Clerks, EndSeen(k), Waiting' \subseteq Waiting
  PROVE  req' \in [Clerks -> Request] /\ RequestsSound'
  <1>1. ASSUME NEW o \in Clerks
        PROVE  req'[o] \in Request /\ Sound(req'[o], SureOpen', SureLive', Waiting')
    <2>1. req[o] \in Request /\ Sound(req[o], SureOpen, SureLive, Waiting)
      BY DEF TypeOK, RequestsSound
    <2>2. CASE o = k
      BY <2>2, IdleSound DEF EndSeen
    <2>3. CASE o # k /\ req[o].at \in {"look", "shut", "enter", "inspect", "begin"}
      <3> DEFINE q == [req[o] EXCEPT !.raced = TRUE]
      <3>1. "raced" \in DOMAIN req[o]
        BY <2>1, <2>3 DEF Request
      <3>2. q \in Request /\ q.at = req[o].at /\ q.raced = TRUE
        BY <2>1, <2>3 DEF Request
      <3>3. req'[o] = q
        BY <2>3, <3>1 DEF EndSeen
      <3> HIDE DEF q
      <3>4. Sound(q, SureOpen', SureLive', Waiting')
        BY <2>3, <3>2 DEF Sound
      <3> QED
        BY <3>2, <3>3, <3>4
    <2>4. CASE o # k /\ req[o].at \notin {"look", "shut", "enter", "inspect", "begin"}
      <3>1. "raced" \notin DOMAIN req[o]
        <4> DEFINE to == {"Entry (Draft)", "Completed"}
                   found == Visits \cup {NoVisit}
        <4>1. \/ req[o] \in [at : {"idle", "cancel"}]
              \/ req[o] \in [at : {"leave", "archive"}, to : to, visit : found, photos : SUBSET Photos]
              \/ req[o] \in [at : {"collect"}, to : to, visit : Visits]
              \/ req[o] \in [at : {"clear", "leaving"}, to : to]
              \/ req[o] \in [at : {"submit"}, inspection : Inspections]
          BY <2>1, <2>4 DEF Request
        <4> HIDE DEF to, found
        <4> QED
          BY <4>1
      <3>2. req'[o] = req[o]
        BY <2>4, <3>1 DEF EndSeen
      <3>3. Sound(req[o], SureOpen', SureLive', Waiting')
        BY <2>1, <2>4 DEF Sound
      <3> QED
        BY <2>1, <3>2, <3>3
    <2> QED
      BY <2>2, <2>3, <2>4
  <1>2. req' \in [Clerks -> Request]
    BY <1>1 DEF EndSeen
  <1> QED
    BY <1>1, <1>2 DEF RequestsSound

\* The visit an entry makes is the only one that is sure, or not sure itself.
LEMMA EnterKeeps ==
  ASSUME IInv, NEW k \in Clerks, Enter(k)
  PROVE  IInv'
  <1> USE DEF IInv
  <1> DEFINE x == First(visit)
  <1>1. /\ req[k].at = "enter" /\ Unmade(visit) # {}
        /\ visit' = [visit EXCEPT ![x] = NewVisit("active")]
        /\ EndSeen(k) /\ Unsure(k, <<"visit", x>>)
        /\ UNCHANGED <<images, inspection, fate>>
    BY DEF Enter
  <1>2. /\ visit' \in [Visits -> Visit \cup {NoRow, Gone}] /\ IsFiniteSet(Rows(visit)')
        /\ Archived' = Archived /\ Open' = Open \cup {x} /\ x \in Visits
    BY <1>1, MakeVisit
  <1> HIDE DEF x
  <1>3. Waiting' = Waiting
    BY <1>1, <1>2 DEF Waiting
  <1>4. req' \in [Clerks -> Request] /\ RequestsSound'
    BY <1>1, <1>3, EndSeenSound
  <1>5. vehicle' \in VehicleStatus
    BY DEF Enter, TypeOK, VehicleStatus
  <1>6. TypeOK'
    BY <1>1, <1>2, <1>4, <1>5 DEF TypeOK, Unsure
  <1>7. OneActiveVisit'
    <2>1. CASE req[k].raced
      <3>1. SureOpen' \subseteq SureOpen
        BY <1>1, <1>2, <2>1 DEF SureOpen, Unsure
      <3> QED
        BY <3>1 DEF OneActiveVisit, SureOpen
    <2>2. CASE ~req[k].raced
      <3>1. SureOpen = {}
        BY <1>1, <2>2 DEF RequestsSound, Sound
      <3>2. SureOpen' \subseteq {x}
        BY <1>1, <1>2, <2>2, <3>1 DEF SureOpen, Unsure
      <3> QED
        BY <3>2 DEF OneActiveVisit, SureOpen
    <2> QED
      BY <2>1, <2>2
  <1>8. OneLiveInspection'
    <2>1. unsure \subseteq unsure' /\ Live' = Live
      BY <1>1 DEF Unsure, Live, IsLive, Rows
    <2> QED
      BY <2>1 DEF OneLiveInspection
  <1>9. PhotosKept'
    BY <1>1, <1>2 DEF PhotosKept
  <1> QED
    BY <1>2, <1>4, <1>6, <1>7, <1>8, <1>9

\* A re-entry makes a visit only to keep the photos it holds.
LEMMA AdoptKeeps ==
  ASSUME IInv, NEW k \in Clerks, ReEntryAdopt(k)
  PROVE  IInv'
  <1> USE DEF IInv
  <1> DEFINE archive(c) == [at |-> "archive", to |-> req[k].to, visit |-> c, photos |-> req[k].photos]
             clear == [at |-> "clear", to |-> req[k].to]
  <1>1. /\ req[k].at = "leave" /\ vehicle' = vehicle /\ vehicle \in VehicleStatus
        /\ UNCHANGED <<images, inspection, fate, unsure>>
    BY DEF ReEntryAdopt, TypeOK
  <1>2. clear \in Request /\ \A c \in Visits : archive(c) \in Request
    BY <1>1 DEF TypeOK, Request
  <1>3. Waiting \subseteq req[k].photos
    BY <1>1 DEF RequestsSound, Sound
  <1>4. \A c, open, live : Sound(archive(c), open, live, Waiting)
    BY <1>3 DEF Sound
  <1>5. ASSUME Rows(visit) # {}, Archive(k, Latest, req[k].photos), visit' = visit PROVE IInv'
    <2>1. archive(Latest) \in Request
      BY <1>2, <1>5, LatestVisit
    <2> QED
      BY <1>1, <1>4, <1>5, <2>1, ReadKeeps DEF Archive, Begin
  <1>6. ASSUME req[k].photos = {}, Clear(k), visit' = visit PROVE IInv'
    <2>1. Sound(clear, SureOpen, SureLive, Waiting)
      BY <1>3, <1>6 DEF Sound
    <2> QED
      BY <1>1, <1>2, <1>6, <2>1, ReadKeeps DEF Clear, Begin
  <1>7. ASSUME Unmade(visit) # {}, visit' = [visit EXCEPT ![First(visit)] = NewVisit("closed")],
               Archive(k, First(visit), req[k].photos)
        PROVE  IInv'
    <2>1. /\ visit' \in [Visits -> Visit \cup {NoRow, Gone}] /\ IsFiniteSet(Rows(visit)')
          /\ Archived' = Archived /\ Open' = Open /\ First(visit) \in Visits
      BY <1>7, MakeVisit
    <2>2. SureOpen' = SureOpen /\ SureLive' = SureLive /\ Waiting' = Waiting
      BY <1>1, <2>1 DEF SureOpen, SureLive, Live, IsLive, Rows, Waiting
    <2>3. Shrinks /\ PhotosKept'
      BY <1>1, <2>1, <2>2 DEF Shrinks, PhotosKept
    <2>4. archive(First(visit)) \in Request /\ req' = [req EXCEPT ![k] = archive(First(visit))]
      BY <1>2, <1>7, <2>1 DEF Archive, Begin
    <2>5. TypeOK'
      BY <1>1, <2>1, <2>4 DEF TypeOK
    <2>6. RequestsSound'
      BY <1>4, <2>2, <2>3, <2>4, RequestsStaySound
    <2> QED
      BY <2>1, <2>3, <2>5, <2>6, ShrinkKeeps
  <1> QED
    BY <1>5, <1>6, <1>7 DEF ReEntryAdopt

\* A visit entered as closed already opens none.
LEMMA CreateClosedKeeps ==
  ASSUME IInv, NEW k \in Clerks, CreateClosed(k)
  PROVE  IInv'
  <1> USE DEF IInv
  <1>1. /\ visit' \in [Visits -> Visit \cup {NoRow, Gone}] /\ IsFiniteSet(Rows(visit)')
        /\ Archived' = Archived /\ Open' = Open
    BY MakeVisit DEF CreateClosed
  <1>2. UNCHANGED <<vehicle, images, inspection, req, fate, unsure>>
    BY DEF CreateClosed
  <1>3. SureOpen' = SureOpen /\ SureLive' = SureLive /\ Waiting' = Waiting
    BY <1>1, <1>2 DEF SureOpen, SureLive, Live, IsLive, Rows, Waiting
  <1>4. TypeOK' /\ Shrinks /\ PhotosKept'
    BY <1>1, <1>2, <1>3 DEF TypeOK, Shrinks, PhotosKept
  <1>5. RequestsSound'
    BY <1>2, <1>4, SoundStays DEF RequestsSound
  <1> QED
    BY <1>1, <1>4, <1>5, ShrinkKeeps

\* A visit reopened by hand is not among those that are sure.
LEMMA UpdateCheckInKeeps ==
  ASSUME IInv, NEW k \in Clerks, UpdateCheckIn(k)
  PROVE  IInv'
  <1> USE DEF IInv
  <1>1. UNCHANGED <<vehicle, images, inspection, req, fate>> /\ vehicle \in VehicleStatus
    BY DEF UpdateCheckIn, TypeOK
  <1>2. ASSUME NEW c \in Open, visit' = Shut(c), unsure' = unsure PROVE IInv'
    <2>1. Touched
      BY <1>1, <1>2, ShutTouches
    <2> QED
      BY <1>1, <2>1, QuietTouchKeeps
  <1>3. ASSUME NEW c \in Rows(visit) \ Open, visit' = [visit EXCEPT ![c].status = "active"],
               unsure' = unsure \cup {<<"visit", c>>}
        PROVE  IInv'
    <2> DEFINE row == [visit[c] EXCEPT !.status = "active"]
    <2>1. c \in Visits /\ visit[c] \in Visit
      BY RowsAreVisits
    <2>2. row \in Visit /\ row.status = "active" /\ row.photos = visit[c].photos
      BY <2>1 DEF Visit
    <2>3. visit' = [visit EXCEPT ![c] = row]
      BY <1>3
    <2> HIDE DEF row
    <2>4. /\ visit' \in [Visits -> Visit \cup {NoRow, Gone}] /\ visit'[c] = row
          /\ \A d \in Visits : d # c => visit'[d] = visit[d]
      BY <2>1, <2>2, <2>3 DEF TypeOK
    <2>5. Rows(visit)' = Rows(visit)
      BY <2>1, <2>2, <2>4 DEF Rows, TypeOK
    <2>6. Archived' = Archived
      BY <2>1, <2>2, <2>4, <2>5, RowsAreVisits DEF Archived
    <2>7. SureOpen' \subseteq SureOpen
      BY <1>3, <2>4 DEF SureOpen, Open
    <2>8. SureLive' \subseteq SureLive /\ Waiting' = Waiting
      BY <1>1, <1>3, <2>6 DEF SureLive, Live, IsLive, Rows, Waiting
    <2>9. Shrinks /\ PhotosKept'
      BY <1>1, <2>6, <2>7, <2>8 DEF Shrinks, PhotosKept
    <2>10. TypeOK'
      <3>1. <<"visit", c>> \in {"visit"} \X Visits
        BY <2>1
      <3> QED
        BY <1>1, <1>3, <2>4, <3>1 DEF TypeOK
    <2>11. RequestsSound'
      BY <1>1, <2>9, SoundStays DEF RequestsSound
    <2> QED
      BY <2>5, <2>9, <2>10, <2>11, ShrinkKeeps
  <1> QED
    BY <1>2, <1>3 DEF UpdateCheckIn

\* The inspection QC makes, and the visit it makes with it, are each the only one that is
\* sure, or not sure itself.
LEMMA CreateInspectionKeeps ==
  ASSUME IInv, NEW k \in Clerks, CreateInspection(k)
  PROVE  IInv'
  <1> USE DEF IInv
  <1> DEFINE x == First(inspection)
             c == IF req[k].visit = NoVisit THEN First(visit) ELSE req[k].visit
             alone == req[k].visit = NoVisit
             made == IF alone /\ req[k].raced THEN {<<"visit", c>>} ELSE {}
             begun == IF req[k].stale \/ req[k].raced THEN {<<"inspection", x>>} ELSE {}
  <1>1. /\ req[k].at = "begin" /\ Unmade(inspection) # {}
        /\ vehicle' = "Inspection (Draft)" /\ EndSeen(k) /\ UNCHANGED <<images, fate>>
        /\ inspection' = [inspection EXCEPT ![x] = Inspected(c)]
        /\ unsure' = unsure \cup made \cup begun
    BY DEF CreateInspection
  <1>2. /\ alone => Unmade(visit) # {} /\ visit' = [visit EXCEPT ![First(visit)] = NewVisit("active")]
        /\ ~alone => c \in Rows(visit) /\ visit' = visit
    BY DEF CreateInspection
  <1>3. x \in Inspections /\ inspection[x] = NoRow
    BY <1>1, FirstInspection
  <1>4. c \in Visits
    <2>1. CASE alone
      BY <1>2, <2>1, FirstVisit
    <2>2. CASE ~alone
      BY <1>2, <2>2, RowsAreVisits
    <2> QED
      BY <2>1, <2>2
  <1>5. /\ visit' \in [Visits -> Visit \cup {NoRow, Gone}] /\ IsFiniteSet(Rows(visit)') /\ Archived' = Archived
        /\ Open' \subseteq Open \cup {c} /\ (~alone => Open' = Open)
    <2>1. CASE alone
      BY <1>2, <2>1, MakeVisit
    <2>2. CASE ~alone
      <3>1. visit' = visit
        BY <1>2, <2>2
      <3>2. Rows(visit)' = Rows(visit) /\ Open' = Open
        BY <3>1 DEF Rows, Open
      <3>3. Archived' = Archived
        BY <3>1, <3>2 DEF Archived
      <3> QED
        BY <2>2, <3>1, <3>2, <3>3 DEF TypeOK
    <2> QED
      BY <2>1, <2>2
  <1>6. Inspected(c) \in Inspection /\ Inspected(c).status = "IN_PROGRESS"
    BY <1>4 DEF Inspected, Inspection
  <1> HIDE DEF x, c
  <1>7. /\ inspection' \in [Inspections -> Inspection \cup {NoRow, Gone}] /\ inspection'[x] = Inspected(c)
        /\ \A i \in Inspections : i # x => inspection'[i] = inspection[i]
    BY <1>1, <1>3, <1>6 DEF TypeOK
  <1>8. Live' \subseteq Live \cup {x}
    BY <1>3, <1>7 DEF Live, IsLive, Rows, TypeOK
  <1>9. Waiting' = Waiting
    BY <1>1, <1>5 DEF Waiting
  <1>10. req' \in [Clerks -> Request] /\ RequestsSound'
    BY <1>1, <1>9, EndSeenSound
  <1>11. TypeOK'
    <2>1. <<"inspection", x>> \in {"inspection"} \X Inspections /\ <<"visit", c>> \in {"visit"} \X Visits
      BY <1>3, <1>4
    <2>2. unsure' \subseteq ({"visit"} \X Visits) \cup ({"inspection"} \X Inspections)
      BY <1>1, <2>1 DEF TypeOK
    <2> QED
      BY <1>1, <1>5, <1>7, <1>10, <2>2 DEF TypeOK, VehicleStatus
  <1>12. req[k].raced \in BOOLEAN /\ req[k].stale \in BOOLEAN
    BY <1>1 DEF TypeOK, Request
  <1>13. OneActiveVisit'
    <2>1. CASE ~alone \/ req[k].raced
      <3>1. SureOpen' \subseteq SureOpen
        BY <1>1, <1>5, <2>1 DEF SureOpen
      <3> QED
        BY <3>1 DEF OneActiveVisit, SureOpen
    <2>2. CASE alone /\ ~req[k].raced
      <3>1. SureOpen = {}
        BY <1>1, <2>2 DEF RequestsSound, Sound
      <3>2. SureOpen' \subseteq {c}
        BY <1>1, <1>5, <3>1 DEF SureOpen
      <3> QED
        BY <3>2 DEF OneActiveVisit, SureOpen
    <2> QED
      BY <2>1, <2>2
  <1>14. OneLiveInspection'
    <2>1. CASE req[k].stale \/ req[k].raced
      <3>1. SureLive' \subseteq SureLive
        BY <1>1, <1>8, <2>1 DEF SureLive
      <3> QED
        BY <3>1 DEF OneLiveInspection, SureLive
    <2>2. CASE ~req[k].stale /\ ~req[k].raced
      <3>1. SureLive = {}
        BY <1>1, <2>2 DEF RequestsSound, Sound
      <3>2. SureLive' \subseteq {x}
        BY <1>1, <1>8, <3>1 DEF SureLive
      <3> QED
        BY <3>2 DEF OneLiveInspection, SureLive
    <2> QED
      BY <2>1, <2>2
  <1>15. PhotosKept'
    BY <1>1, <1>5 DEF PhotosKept
  <1> QED
    BY <1>5, <1>10, <1>11, <1>13, <1>14, <1>15

\* Submitting an inspection ends it.
LEMMA SubmitKeeps ==
  ASSUME IInv, NEW k \in Clerks, SubmitInspection(k)
  PROVE  IInv'
  <1> USE DEF IInv
  <1> DEFINE i == req[k].inspection
             row == [inspection[i] EXCEPT !.status = "COMPLETED"]
  <1>1. /\ req' = [req EXCEPT ![k] = Idle] /\ vehicle' = "Inspection Done"
        /\ UNCHANGED <<visit, images, fate, unsure>>
    BY DEF SubmitInspection, End
  <1>2. inspection' \in [Inspections -> Inspection \cup {NoRow, Gone}] /\ Live' \subseteq Live
    <2>1. CASE i \in Rows(inspection)
      <3>1. i \in Inspections /\ inspection[i] \in Inspection
        BY <2>1 DEF Rows, TypeOK, NoRow, Gone
      <3>2. row \in Inspection /\ row.status = "COMPLETED"
        BY <3>1 DEF Inspection
      <3>3. inspection' = [inspection EXCEPT ![i] = row]
        BY <2>1 DEF SubmitInspection
      <3> HIDE DEF row, i
      <3> QED
        BY <3>1, <3>2, <3>3 DEF TypeOK, Live, IsLive, Rows
    <2>2. CASE i \notin Rows(inspection)
      BY <2>2 DEF SubmitInspection, TypeOK, Live, IsLive, Rows
    <2> QED
      BY <2>1, <2>2
  <1>3. TypeOK'
    BY <1>1, <1>2, IdleSound DEF TypeOK, VehicleStatus
  <1>4. Rows(visit)' = Rows(visit) /\ Archived' = Archived /\ SureOpen' = SureOpen /\ Waiting' = Waiting
    BY ZenonT(40), <1>1 DEF Rows, Archived, SureOpen, Open, Waiting
  <1>5. Shrinks /\ PhotosKept'
    BY <1>1, <1>2, <1>4 DEF Shrinks, SureLive, PhotosKept
  <1>6. RequestsSound'
    BY <1>1, <1>5, IdleSound, RequestsStaySound
  <1> QED
    BY <1>3, <1>4, <1>5, <1>6, ShrinkKeeps

-----------------------------------------------------------------------------
(* The invariant and what it says.                                         *)

\* It holds at first, with no check-in made and nothing in flight.
LEMMA InitKeeps == Init => IInv
  <1> SUFFICES ASSUME Init PROVE IInv
    OBVIOUS
  <1>1. TypeOK
    <2>1. PICK seed \in Seeds :
            /\ inspection = [i \in Inspections |-> IF i \in seed.inspections THEN NoRow ELSE Gone]
            /\ fate = [p \in Photos |-> IF p \in seed.photos THEN "unused" ELSE "excused"]
      BY DEF Init
    <2> QED
      BY <2>1, IdleSound DEF Init, TypeOK, VehicleStatus
  <1>2. Rows(visit) = {} /\ Open = {} /\ Rows(inspection) = {}
    <2>1. \A c \in Visits : visit[c].status = "none"
      BY DEF Init, NoRow
    <2>2. \A i \in Inspections : inspection[i].status \in {"none", "gone"}
      <3>1. NoRow.status = "none" /\ Gone.status = "gone"
        BY DEF NoRow, Gone
      <3>2. \A i \in Inspections : inspection[i] \in {NoRow, Gone}
        BY DEF Init
      <3> QED
        BY <3>1, <3>2
    <2> QED
      BY <1>1, <2>1, <2>2 DEF TypeOK, Rows, Open
  <1>3. RequestsSound
    BY IdleSound DEF Init, RequestsSound
  <1>4. PhotosKept
    <2>1. \A p \in Photos : fate[p] # "kept"
      BY DEF Init
    <2> QED
      BY <2>1 DEF PhotosKept
  <1>5. OneActiveVisit /\ OneLiveInspection
    BY <1>2 DEF OneActiveVisit, OneLiveInspection, Live
  <1> QED
    BY <1>1, <1>2, <1>3, <1>4, <1>5, FS_EmptySet DEF IInv

\* Every step keeps it.
LEMMA StepKeeps == IInv /\ [Next]_vars => IInv'
  <1> SUFFICES ASSUME IInv, [Next]_vars PROVE IInv'
    OBVIOUS
  <1>1. ASSUME NEW k \in Clerks, Entry(k) PROVE IInv'
    BY <1>1, EntryReadsKeep, ClosingKeeps, EnterKeeps, CreateClosedKeeps, UpdateCheckInKeeps, DeleteCheckInKeeps
       DEF Entry
  <1>2. ASSUME NEW k \in Clerks, Gate(k) PROVE IInv'
    BY <1>2, UploadKeeps, DeletePhotosKeep, LeavingReadsKeep, ClosingKeeps, AdoptKeeps, ArchivingKeeps,
       ClearingKeeps, OtherReadsKeep DEF Gate
  <1>3. ASSUME NEW k \in Clerks, QcIn(k) PROVE IInv'
    BY <1>3, OtherReadsKeep, CreateInspectionKeeps, SubmitKeeps DEF QcIn
  <1>4. ASSUME NEW k \in Clerks, Fail(k) PROVE IInv'
    BY <1>4, OtherReadsKeep
  <1>5. CASE WorkOn \/ Book
    BY <1>5, OutsideKeeps
  <1>6. CASE UNCHANGED vars
    BY <1>6, QuietTouchKeeps DEF vars, IInv, TypeOK, Touched
  <1> QED
    BY <1>1, <1>2, <1>3, <1>4, <1>5, <1>6 DEF Next

\* The invariant is one of every behaviour.
LEMMA Inductive == Spec => []IInv
  BY InitKeeps, StepKeeps, PTL DEF Spec

\* The tables hold rows, and the requests in flight what their statements have read.
THEOREM VisitTypes == Spec => []TypeOK
  BY Inductive, PTL DEF IInv

\* Two visits are open at once only if one was made by a request that another overtook after it
\* had looked for an open one (an inspector's as well as an entry's), or was reopened by hand.
THEOREM ActiveVisitIsOne == Spec => []OneActiveVisit
  BY Inductive, PTL DEF IInv

\* Two inspections are open at once only if one was made by a request that another overtook.
THEOREM LiveInspectionIsOne == Spec => []OneLiveInspection
  BY Inductive, PTL DEF IInv

\* A photo that nobody deleted and that was not taken too late is with the vehicle or a visit.
THEOREM PhotosAreKept == Spec => []PhotosKept
  BY Inductive, PTL DEF IInv

-----------------------------------------------------------------------------
(* Whose a booking is, on tables of any size (BookingIdentity).            *)
(*                                                                         *)
(* The argument: a vehicle is one that the body names, one found by its    *)
(* number that is the customer's or nobody's, or a new row, whose numbers  *)
(* and id no row has; so is a customer.                                    *)

Booking == INSTANCE BookingIdentity

Lists == INSTANCE VehicleLists

\* What a vehicle is, inside the workshop or no longer.
AnyStatus == Lists!InsideStatuses \cup {"Completed", "Cancelled", "Archived"}

\* The rows of the tables that a booking reads and writes: an id is one row's.
VehicleRow ==
  [id : Nat \ {0}, customer : Nat, vin : Nat, reg : Nat, owner : Nat, status : AnyStatus, deleted : BOOLEAN]

CustomerRow ==
  [id : Nat \ {0}, sequence : Nat, email : Nat, phone : Nat, deleted : BOOLEAN]

VehicleTable ==
  {rows \in SUBSET VehicleRow : IsFiniteSet(rows) /\ \A v, w \in rows : v.id = w.id => v = w}

CustomerTable ==
  {rows \in SUBSET CustomerRow : IsFiniteSet(rows) /\ \A c, d \in rows : c.id = d.id => c = d}

BookingTables ==
  [customers : CustomerTable, vehicles : VehicleTable, links : SUBSET (Nat \X Nat), ar : SUBSET (Nat \X Nat),
   companies : SUBSET Nat, activeCompanies : SUBSET Nat]

\* A new customer has a phone and a new vehicle a registration (createAppointmentSchema).
BookingBody ==
  [customer : Nat, vehicle : Nat, company : Nat, ar : Nat, hasNewCustomer : BOOLEAN, hasNewVehicle : BOOLEAN,
   newCustomer : [sequence : Nat, email : Nat, phone : [form : STRING, number : Nat \ {0}]],
   newVehicle : [vin : Nat, reg : Nat \ {0}]]

\* LIMIT 1 gives one of the rows, or none where there is none.
LEMMA LimitIsOne ==
  ASSUME NEW rows, NEW found \in Booking!Limit1(rows)
  PROVE  /\ found \subseteq rows
         /\ found = {} <=> rows = {}
         /\ \A r, s \in found : r = s
  BY DEF Booking!Limit1

\* The next number is no row's.
LEMMA NextIsNew ==
  ASSUME NEW rows, IsFiniteSet(rows), \A r \in rows : r.id \in Nat
  PROVE  Booking!NextId(rows) \in Nat \ {0} /\ \A r \in rows : r.id # Booking!NextId(rows)
  <1> DEFINE read == {r.id : r \in rows}
             ids == {0} \cup read
             idOf == [r \in rows |-> r.id]
  <1>1. IsFiniteSet(ids) /\ ids \in SUBSET Nat /\ ids # {}
    <2>1. idOf \in Surjection(rows, read)
      BY DEF Surjection
    <2>2. IsFiniteSet(read)
      BY <2>1, FS_Surjection
    <2>3. IsFiniteSet(read \cup {0}) /\ ids = read \cup {0}
      BY <2>2, FS_AddElement
    <2> QED
      BY <2>3
  <1>2. \E m \in ids : \A n \in ids : n <= m
    BY <1>1, GreatestExists
  <1>3. Booking!Max(ids) \in ids /\ \A n \in ids : n <= Booking!Max(ids)
    <2>1. \E m \in ids : \A n \in ids : m >= n
      BY <1>1, <1>2
    <2> HIDE DEF ids
    <2>2. Booking!Max(ids) \in ids /\ \A n \in ids : Booking!Max(ids) >= n
      BY <2>1 DEF Booking!Max
    <2> QED
      BY <1>1, <2>2
  <1>4. Booking!NextId(rows) = 1 + Booking!Max(ids)
    BY DEF Booking!NextId
  <1>5. \A r \in rows : r.id \in ids
    OBVIOUS
  <1> HIDE DEF ids
  <1> DEFINE m == Booking!Max(ids)
  <1>6. m \in Nat /\ \A r \in rows : r.id \in Nat /\ r.id <= m
    BY <1>1, <1>3, <1>5
  <1> HIDE DEF m
  <1>7. 1 + m \in Nat \ {0} /\ \A r \in rows : r.id # 1 + m
    BY <1>6
  <1> QED
    BY <1>4, <1>7 DEF m

\* The vehicle of a booking: the one it names, one with a number of the body that is the
\* customer's or nobody's, or a new one if no vehicle that is not archived has the number.
FoundFor(db, new, customer, w) ==
  /\ w \in db.vehicles /\ Booking!Alive(w) /\ w.customer \in {Booking!None, customer}
  /\ \/ new.vin # Booking!None /\ w.vin = new.vin
     \/ /\ w.reg = new.reg
        /\ \A u \in db.vehicles : Booking!Alive(u) => new.vin = Booking!None \/ u.vin # new.vin

MadeFor(db, new, customer, row) ==
  /\ row \in VehicleRow
  /\ row.customer = customer /\ row.vin = new.vin /\ row.reg = new.reg
  /\ row.owner = Booking!None /\ Booking!Alive(row) /\ ~row.deleted
  /\ \A w \in db.vehicles :
       w.id # row.id /\ (Booking!Alive(w) => (new.vin = Booking!None \/ w.vin # new.vin) /\ w.reg # new.reg)

LEMMA VehicleOfBooking ==
  ASSUME NEW db \in BookingTables, NEW body \in BookingBody, NEW customer \in Nat,
         NEW v \in Booking!VehicleOf(db, body, customer)
  PROVE  \/ body.vehicle # Booking!None /\ v = <<body.vehicle, db.vehicles>>
         \/ /\ body.vehicle = Booking!None /\ body.hasNewVehicle
            /\ \/ \E w : FoundFor(db, body.newVehicle, customer, w) /\ v = <<w.id, db.vehicles>>
               \/ \E row : MadeFor(db, body.newVehicle, customer, row) /\ v = <<row.id, db.vehicles \cup {row}>>
  <1> DEFINE new == body.newVehicle
             made == Booking!NewVehicle(db, new, customer)
  <1>1. CASE body.vehicle # Booking!None
    BY <1>1 DEF Booking!VehicleOf
  <1>2. CASE body.vehicle = Booking!None
    <2>1. body.hasNewVehicle
      BY <1>2 DEF Booking!VehicleOf
    <2>2. PICK byVin \in Booking!ByVin(db, new.vin), byReg \in Booking!ByReg(db, new.reg) :
            v \in Booking!ChosenVehicle(db, new, customer, byVin, byReg)
      BY <1>2, <2>1 DEF Booking!VehicleOf
    <2>3. /\ ~(Booking!BelongsToAnother(byVin, customer) \/ (byVin = {} /\ Booking!BelongsToAnother(byReg, customer)))
          /\ v \in (IF byVin # {} THEN {<<w.id, db.vehicles>> : w \in byVin}
                   ELSE IF byReg # {} THEN {<<w.id, db.vehicles>> : w \in byReg}
                   ELSE {<<made.id, db.vehicles \cup {made}>>})
      BY <2>2 DEF Booking!ChosenVehicle
    <2> HIDE DEF made, new
    <2>6. /\ \A w \in byVin : w \in db.vehicles /\ new.vin # Booking!None /\ w.vin = new.vin /\ Booking!Alive(w)
          /\ byVin = {} => \A w \in db.vehicles : ~(new.vin # Booking!None /\ w.vin = new.vin /\ Booking!Alive(w))
      <3> DEFINE rows == {w \in db.vehicles : new.vin # Booking!None /\ w.vin = new.vin /\ Booking!Alive(w)}
      <3>1. byVin \in Booking!Limit1(rows)
        BY <2>2 DEF Booking!ByVin
      <3>2. byVin \subseteq rows /\ (byVin = {} <=> rows = {})
        BY <3>1, LimitIsOne
      <3> QED
        BY <3>2
    <2>7. /\ \A w \in byReg : w \in db.vehicles /\ w.reg = new.reg /\ Booking!Alive(w)
          /\ byReg = {} => \A w \in db.vehicles : ~(w.reg = new.reg /\ Booking!Alive(w))
      <3> DEFINE rows == {w \in db.vehicles : w.reg = new.reg /\ Booking!Alive(w)}
      <3>1. byReg \in Booking!Limit1(rows)
        BY <2>2 DEF Booking!ByReg
      <3>2. byReg \subseteq rows /\ (byReg = {} <=> rows = {})
        BY <3>1, LimitIsOne
      <3> QED
        BY <3>2
    <2>4. CASE byVin # {} \/ byReg # {}
      <3>1. PICK w \in byVin \cup byReg : v = <<w.id, db.vehicles>> /\ (byVin # {} => w \in byVin)
        BY <2>3, <2>4
      <3>2. w.customer \in {Booking!None, customer}
        BY <2>3, <2>4, <3>1 DEF Booking!BelongsToAnother
      <3>3. FoundFor(db, new, customer, w)
        BY <2>6, <2>7, <3>1, <3>2 DEF FoundFor
      <3> QED
        BY <1>2, <2>1, <3>1, <3>3 DEF new
    <2>5. CASE byVin = {} /\ byReg = {}
      <3>1. v = <<made.id, db.vehicles \cup {made}>>
        BY <2>3, <2>5
      <3>2. made.id \in Nat \ {0} /\ \A w \in db.vehicles : w.id # made.id
        BY NextIsNew DEF BookingTables, VehicleTable, VehicleRow, made, Booking!NewVehicle
      <3>4. made \in VehicleRow
        <4>1. new.vin \in Nat /\ new.reg \in Nat /\ Booking!None \in Nat
          BY DEF new, BookingBody, Booking!None
        <4>2. \A id \in Nat \ {0}, vin, reg, owner \in Nat :
                [id |-> id, customer |-> customer, vin |-> vin, reg |-> reg, owner |-> owner,
                 status |-> "Entry (Draft)", deleted |-> FALSE] \in VehicleRow
          BY DEF VehicleRow, AnyStatus, Lists!InsideStatuses
        <4>3. made = [id |-> made.id, customer |-> customer, vin |-> new.vin, reg |-> new.reg, owner |-> Booking!None,
                      status |-> "Entry (Draft)", deleted |-> FALSE]
          BY DEF made, Booking!NewVehicle
        <4> QED
          BY <3>2, <4>1, <4>2, <4>3
      <3>5. /\ made.customer = customer /\ made.vin = new.vin /\ made.reg = new.reg
            /\ made.owner = Booking!None /\ Booking!Alive(made) /\ ~made.deleted
        BY DEF made, Booking!NewVehicle, Booking!Alive
      <3>3. MadeFor(db, new, customer, made)
        BY <2>5, <2>6, <2>7, <3>2, <3>4, <3>5 DEF MadeFor
      <3> QED
        BY <1>2, <2>1, <3>1, <3>3 DEF new
    <2> QED
      BY <2>4, <2>5
  <1> QED
    BY <1>1, <1>2

\* The customer of a booking: the one it names, one known by its number in Evolve, or a new one
\* if nobody has its number, its mail or its phone.
MadeCustomer(db, new, row) ==
  /\ row \in CustomerRow
  /\ row.sequence = new.sequence /\ row.email = new.email /\ row.phone = new.phone.number /\ ~row.deleted
  /\ \A c \in db.customers :
       /\ c.id # row.id
       /\ ~c.deleted => /\ new.sequence = Booking!None \/ c.sequence # new.sequence
                        /\ new.email = Booking!None \/ c.email # new.email
                        /\ c.phone # new.phone.number

LEMMA CustomerOfBooking ==
  ASSUME NEW db \in BookingTables, NEW body \in BookingBody, NEW c \in Booking!CustomerOf(db, body)
  PROVE  \/ body.customer # Booking!None /\ c = <<body.customer, db.customers>>
         \/ /\ body.customer = Booking!None /\ body.hasNewCustomer
            /\ \/ \E d \in db.customers : /\ ~d.deleted /\ body.newCustomer.sequence # Booking!None
                                          /\ d.sequence = body.newCustomer.sequence /\ c = <<d.id, db.customers>>
               \/ \E row : MadeCustomer(db, body.newCustomer, row) /\ c = <<row.id, db.customers \cup {row}>>
  <1> DEFINE new == body.newCustomer
             made == [id |-> Booking!NextId(db.customers), sequence |-> new.sequence, email |-> new.email,
                      phone |-> new.phone.number, deleted |-> FALSE]
             known == {d \in db.customers : ~d.deleted /\ new.sequence # Booking!None /\ d.sequence = new.sequence}
             taken == \E d \in db.customers : ~d.deleted /\ ((new.email # Booking!None /\ d.email = new.email) \/ d.phone = new.phone.number)
  <1>1. CASE body.customer # Booking!None
    BY <1>1 DEF Booking!CustomerOf
  <1>2. CASE body.customer = Booking!None
    <2>1. /\ body.hasNewCustomer
          /\ c \in (IF known # {} THEN {<<d.id, db.customers>> : d \in known}
                   ELSE IF taken THEN {} ELSE {<<made.id, db.customers \cup {made}>>})
      BY <1>2 DEF Booking!CustomerOf, Booking!National
    <2>2. CASE known # {}
      BY <1>2, <2>1, <2>2
    <2>3. CASE known = {}
      <3>1. ~taken /\ c = <<made.id, db.customers \cup {made}>>
        BY <2>1, <2>3
      <3>2. made.id \in Nat \ {0} /\ \A d \in db.customers : d.id # made.id
        BY NextIsNew DEF BookingTables, CustomerTable, CustomerRow
      <3>4. made \in CustomerRow
        <4>1. new.sequence \in Nat /\ new.email \in Nat /\ new.phone.number \in Nat
          BY DEF BookingBody
        <4> QED
          BY <3>2, <4>1 DEF CustomerRow
      <3>3. MadeCustomer(db, new, made)
        BY <2>3, <3>1, <3>2, <3>4 DEF MadeCustomer
      <3> QED
        BY <1>2, <2>1, <3>1, <3>3
    <2> QED
      BY <2>2, <2>3
  <1> QED
    BY <1>1, <1>2

\* What a booking that is not refused leaves behind.
LEMMA OutcomeOfBooking ==
  ASSUME NEW db \in BookingTables, NEW body \in BookingBody, NEW enforced,
         NEW out \in Booking!Book(db, body, enforced), out.ok
  PROVE  /\ Booking!Checked(db, body, enforced)
         /\ \E c \in Booking!CustomerOf(db, body) : \E v \in Booking!VehicleOf(db, body, c[1]) :
              /\ out.customer = c[1] /\ out.vehicle = v[1]
              /\ out.db.customers = c[2]
              /\ out.db.vehicles = {Booking!Owned(w, v[1], body.company) : w \in v[2]}
  <1>1. out # Booking!Refused
    BY DEF Booking!Refused
  <1>2. /\ Booking!Checked(db, body, enforced)
        /\ \E c \in Booking!CustomerOf(db, body) : \E v \in Booking!VehicleOf(db, body, c[1]) :
              out = Booking!Outcome(db, body, c, v)
    BY <1>1 DEF Booking!Book
  <1>3. PICK c \in Booking!CustomerOf(db, body) : \E v \in Booking!VehicleOf(db, body, c[1]) :
          out = Booking!Outcome(db, body, c, v)
    BY <1>2
  <1>5. PICK v \in Booking!VehicleOf(db, body, c[1]) : out = Booking!Outcome(db, body, c, v)
    BY <1>3
  <1>4. /\ out.customer = c[1] /\ out.vehicle = v[1]
        /\ out.db.customers = c[2]
        /\ out.db.vehicles = {Booking!Owned(w, v[1], body.company) : w \in v[2]}
    BY <1>5 DEF Booking!Outcome, BookingTables
  <1> QED
    BY <1>2, <1>4

\* Setting the owning company changes nothing else of a row.
LEMMA OwnedRow ==
  ASSUME NEW w \in VehicleRow,
         NEW id, NEW company
  PROVE  LET row == Booking!Owned(w, id, company)
         IN /\ row.id = w.id /\ row.customer = w.customer /\ row.vin = w.vin /\ row.reg = w.reg
            /\ row.status = w.status /\ row.deleted = w.deleted
            /\ row.owner = IF w.id = id /\ w.owner = Booking!None THEN company ELSE w.owner
  BY DEF Booking!Owned, VehicleRow

\* createAppointment, for tables of any size: a booking that describes its vehicle by its numbers is of
\* a vehicle that is the customer's or nobody's.
THEOREM NobodyElsesVehicleIsBooked ==
  ASSUME NEW db \in BookingTables, NEW body \in BookingBody, NEW enforced
  PROVE  Booking!NobodyElsesVehicle(db, body, enforced)
  <1> SUFFICES ASSUME NEW out \in Booking!Book(db, body, enforced), out.ok, body.vehicle = Booking!None,
                      NEW u \in out.db.vehicles, u.id = out.vehicle
               PROVE  u.customer \in {Booking!None, out.customer}
    BY DEF Booking!NobodyElsesVehicle
  <1>0. PICK c \in Booking!CustomerOf(db, body) : \E v \in Booking!VehicleOf(db, body, c[1]) :
          /\ out.customer = c[1] /\ out.vehicle = v[1]
          /\ out.db.vehicles = {Booking!Owned(w, v[1], body.company) : w \in v[2]}
    BY OutcomeOfBooking
  <1>1. PICK v \in Booking!VehicleOf(db, body, c[1]) :
          /\ out.customer = c[1] /\ out.vehicle = v[1]
          /\ out.db.vehicles = {Booking!Owned(w, v[1], body.company) : w \in v[2]}
    BY <1>0
  <1>2. c[1] \in Nat
    BY <1>1, CustomerOfBooking DEF BookingTables, BookingBody, CustomerTable, CustomerRow, MadeCustomer
  <1>3. PICK w \in v[2] : u = Booking!Owned(w, v[1], body.company)
    BY <1>1
  <1>4. CASE \E x : FoundFor(db, body.newVehicle, c[1], x) /\ v = <<x.id, db.vehicles>>
    <2>1. PICK x : FoundFor(db, body.newVehicle, c[1], x) /\ v = <<x.id, db.vehicles>>
      BY <1>4
    <2>2. w \in db.vehicles /\ u.id = w.id /\ u.customer = w.customer
      BY <1>3, <2>1, OwnedRow DEF BookingTables, VehicleTable
    <2>3. w = x
      BY <1>1, <2>1, <2>2 DEF BookingTables, VehicleTable, FoundFor
    <2> QED
      BY <1>1, <2>1, <2>2, <2>3 DEF FoundFor
  <1>5. CASE \E row : MadeFor(db, body.newVehicle, c[1], row) /\ v = <<row.id, db.vehicles \cup {row}>>
    <2>1. PICK row : MadeFor(db, body.newVehicle, c[1], row) /\ v = <<row.id, db.vehicles \cup {row}>>
      BY <1>5
    <2>2. row \in VehicleRow
      BY <2>1 DEF MadeFor
    <2>3. w \in db.vehicles \cup {row} /\ u.id = w.id /\ u.customer = w.customer
      BY <1>3, <2>1, <2>2, OwnedRow DEF BookingTables, VehicleTable
    <2>4. w = row
      BY <1>1, <2>1, <2>3 DEF MadeFor
    <2> QED
      BY <1>1, <2>1, <2>3, <2>4 DEF MadeFor
  <1> QED
    BY <1>1, <1>2, <1>4, <1>5, VehicleOfBooking

\* What is distinct of the customers and of the vehicles.
PeopleApart(rows) ==
  \A c, d \in rows :
    ~c.deleted /\ ~d.deleted
      /\ (\/ c.email # Booking!None /\ c.email = d.email
          \/ c.phone # Booking!None /\ c.phone = d.phone
          \/ c.sequence # Booking!None /\ c.sequence = d.sequence) => c = d

CarsApart(rows) ==
  \A v, w \in rows :
    Booking!Alive(v) /\ Booking!Alive(w)
      /\ ((v.vin # Booking!None /\ v.vin = w.vin) \/ (v.reg # Booking!None /\ v.reg = w.reg)) => v = w

LEMMA DistinctIsApart ==
  ASSUME NEW db
  PROVE  Booking!Distinct(db) <=> PeopleApart(db.customers) /\ CarsApart(db.vehicles)
  BY DEF Booking!Distinct, Booking!Unique, PeopleApart, CarsApart

\* The rows of the vehicles that a booking leaves, before their company is set.
LEMMA VehiclesLeft ==
  ASSUME NEW db \in BookingTables, NEW body \in BookingBody, NEW customer \in Nat,
         NEW v \in Booking!VehicleOf(db, body, customer)
  PROVE  /\ v[2] \subseteq VehicleRow
         /\ CarsApart(db.vehicles) => CarsApart(v[2])
  <1>1. CASE v[2] = db.vehicles
    BY <1>1 DEF BookingTables, VehicleTable
  <1>2. CASE \E row : MadeFor(db, body.newVehicle, customer, row) /\ v = <<row.id, db.vehicles \cup {row}>>
    <2>1. PICK row : MadeFor(db, body.newVehicle, customer, row) /\ v = <<row.id, db.vehicles \cup {row}>>
      BY <1>2
    <2>2. v[2] \subseteq VehicleRow
      BY <2>1 DEF BookingTables, VehicleTable, MadeFor
    <2>3. v[2] = db.vehicles \cup {row}
      BY <2>1
    <2>4. \A w \in db.vehicles : Booking!Alive(w) =>
            /\ row.vin = Booking!None \/ w.vin # row.vin
            /\ w.reg # row.reg
      BY <2>1 DEF MadeFor
    <2>5. CarsApart(db.vehicles) => CarsApart(v[2])
      BY <2>3, <2>4 DEF CarsApart
    <2> QED
      BY <2>2, <2>5
  <1> QED
    BY <1>1, <1>2, VehicleOfBooking

LEMMA CustomersLeft ==
  ASSUME NEW db \in BookingTables, NEW body \in BookingBody, NEW c \in Booking!CustomerOf(db, body)
  PROVE  /\ c[1] \in Nat
         /\ PeopleApart(db.customers) => PeopleApart(c[2])
  <1>1. CASE c[2] = db.customers
    BY <1>1, CustomerOfBooking DEF BookingTables, BookingBody, CustomerTable, CustomerRow, MadeCustomer
  <1>2. CASE \E row : MadeCustomer(db, body.newCustomer, row) /\ c = <<row.id, db.customers \cup {row}>>
    <2>1. PICK row : MadeCustomer(db, body.newCustomer, row) /\ c = <<row.id, db.customers \cup {row}>>
      BY <1>2
    <2>2. c[1] \in Nat /\ c[2] = db.customers \cup {row}
      BY <2>1 DEF MadeCustomer, CustomerRow
    <2>3. \A d \in db.customers : ~d.deleted =>
            /\ row.sequence = Booking!None \/ d.sequence # row.sequence
            /\ row.email = Booking!None \/ d.email # row.email
            /\ d.phone # row.phone
      BY <2>1 DEF MadeCustomer
    <2>4. PeopleApart(db.customers) => PeopleApart(c[2])
      BY <2>2, <2>3 DEF PeopleApart
    <2> QED
      BY <2>2, <2>4
  <1> QED
    BY <1>1, <1>2, CustomerOfBooking

\* createAppointment, "so we never silently attach the appointment to the wrong person", for tables of
\* any size: no booking makes a second customer or vehicle of one that is there.
THEOREM BookingKeepsIdentities ==
  ASSUME NEW db \in BookingTables, NEW body \in BookingBody, NEW enforced
  PROVE  Booking!IdentitiesStayDistinct(db, body, enforced)
  <1> SUFFICES ASSUME PeopleApart(db.customers), CarsApart(db.vehicles),
                      NEW out \in Booking!Book(db, body, enforced), out.ok
               PROVE  PeopleApart(out.db.customers) /\ CarsApart(out.db.vehicles)
    BY DistinctIsApart DEF Booking!IdentitiesStayDistinct
  <1>1. PICK c \in Booking!CustomerOf(db, body) : \E v \in Booking!VehicleOf(db, body, c[1]) :
          /\ out.db.customers = c[2]
          /\ out.db.vehicles = {Booking!Owned(w, v[1], body.company) : w \in v[2]}
    BY OutcomeOfBooking
  <1>2. PICK v \in Booking!VehicleOf(db, body, c[1]) :
          out.db.vehicles = {Booking!Owned(w, v[1], body.company) : w \in v[2]}
    BY <1>1
  <1>3. PeopleApart(c[2]) /\ v[2] \subseteq VehicleRow /\ CarsApart(v[2])
    BY CustomersLeft, VehiclesLeft
  <1>4. CarsApart(out.db.vehicles)
    <2> SUFFICES ASSUME NEW x \in out.db.vehicles, NEW y \in out.db.vehicles,
                        Booking!Alive(x), Booking!Alive(y),
                        (x.vin # Booking!None /\ x.vin = y.vin) \/ (x.reg # Booking!None /\ x.reg = y.reg)
                 PROVE  x = y
      BY DEF CarsApart
    <2>1. PICK w \in v[2], z \in v[2] :
            x = Booking!Owned(w, v[1], body.company) /\ y = Booking!Owned(z, v[1], body.company)
      BY <1>2
    <2>2. /\ x.vin = w.vin /\ x.reg = w.reg /\ x.status = w.status
          /\ y.vin = z.vin /\ y.reg = z.reg /\ y.status = z.status
      BY <1>3, <2>1, OwnedRow
    <2>3. w = z
      BY <1>3, <2>2 DEF CarsApart, Booking!Alive
    <2> QED
      BY <2>1, <2>3
  <1> QED
    BY <1>1, <1>3, <1>4

\* createAppointment, for tables of any size: where the body describes the customer, the first check
\* knows none, so the customer's own vehicle is another's.
THEOREM OwnVehicleIsNotBooked ==
  ASSUME NEW db \in BookingTables, NEW body \in BookingBody
  PROVE  Booking!OwnVehicleIsRefused(db, body)
  <1> SUFFICES ASSUME body.customer = Booking!None, body.vehicle = Booking!None, body.hasNewVehicle,
                      CarsApart(db.vehicles),
                      NEW v \in db.vehicles, Booking!Alive(v), v.reg = body.newVehicle.reg, v.customer # Booking!None
               PROVE  ~Booking!Checked(db, body, FALSE)
    BY DistinctIsApart DEF Booking!OwnVehicleIsRefused, Booking!Book
  <1> SUFFICES ASSUME NEW found \in Booking!ByReg(db, body.newVehicle.reg)
               PROVE  Booking!BelongsToAnother(found, body.customer)
    BY DEF Booking!Checked
  <1> DEFINE rows == {w \in db.vehicles : w.reg = body.newVehicle.reg /\ Booking!Alive(w)}
  <1>1. found \in Booking!Limit1(rows) /\ v \in rows
    BY DEF Booking!ByReg
  <1>2. found # {} /\ found \subseteq rows
    BY <1>1, LimitIsOne
  <1>3. PICK w \in found : w \in db.vehicles /\ w.reg = body.newVehicle.reg /\ Booking!Alive(w)
    BY <1>2
  <1>4. w = v
    BY <1>3 DEF CarsApart, BookingBody, Booking!None
  <1> QED
    BY <1>3, <1>4 DEF Booking!BelongsToAnother

\* The check of the numbers in the body passes only where no vehicle sought is another company's.
LEMMA SoughtIsTheCompanys ==
  ASSUME NEW db \in BookingTables, NEW body \in BookingBody, body.company # Booking!None,
         NEW seen \in Booking!OwnersByNumber(db, body.newVehicle.vin, body.newVehicle.reg),
         \A v \in seen : ~Booking!OwnedElsewhere(db, v.owner, body.company),
         Booking!OneVehicleSought(db, body.newVehicle.vin, body.newVehicle.reg),
         NEW x \in db.vehicles,
         (body.newVehicle.vin # Booking!None /\ x.vin = body.newVehicle.vin) \/ x.reg = body.newVehicle.reg
  PROVE  x.owner \in {Booking!None, body.company}
  <1> DEFINE vin == body.newVehicle.vin
             reg == body.newVehicle.reg
             rows == {v \in db.vehicles :
                       ~v.deleted /\ v.owner # Booking!None /\ ((vin # Booking!None /\ v.vin = vin) \/ (reg # Booking!None /\ v.reg = reg))}
  <1>1. reg # Booking!None
    BY DEF BookingBody, Booking!None
  <1>2. seen \subseteq rows /\ (seen = {} <=> rows = {})
    <2>1. seen \in Booking!Limit1(rows)
      BY DEF Booking!OwnersByNumber
    <2> QED
      BY <2>1, LimitIsOne
  <1>3. CASE x.owner # Booking!None
    <2>1. x \in rows
      BY <1>1, <1>3 DEF Booking!OneVehicleSought
    <2>2. PICK y \in seen : TRUE
      BY <1>2, <2>1
    <2>3. y \in db.vehicles /\ ((vin # Booking!None /\ y.vin = vin) \/ y.reg = reg)
      BY <1>2
    <2>4. x = y
      BY <2>3 DEF Booking!OneVehicleSought
    <2> QED
      BY <1>3, <2>2, <2>4 DEF Booking!OwnedElsewhere, Booking!OneVehicleSought
  <1> QED
    BY <1>3

\* What is checked of the owning company where that is enforced.
CompanyGuarded(db, body) ==
  /\ body.vehicle # Booking!None =>
       \A v \in db.vehicles : v.id = body.vehicle /\ ~v.deleted => ~Booking!OwnedElsewhere(db, v.owner, body.company)
  /\ body.vehicle = Booking!None /\ body.hasNewVehicle =>
       \E seen \in Booking!OwnersByNumber(db, body.newVehicle.vin, body.newVehicle.reg) :
         \A v \in seen : ~Booking!OwnedElsewhere(db, v.owner, body.company)

\* What is checked holds of the vehicle that is booked.
LEMMA GuardedIsTheCompanys ==
  ASSUME NEW db \in BookingTables, NEW body \in BookingBody, NEW enforced,
         CompanyGuarded(db, body),
         Booking!OneVehicleSought(db, body.newVehicle.vin, body.newVehicle.reg), body.company # Booking!None,
         NEW out \in Booking!Book(db, body, enforced), out.ok,
         NEW u \in out.db.vehicles, u.id = out.vehicle
  PROVE  u.owner = body.company
  <1>1. PICK c \in Booking!CustomerOf(db, body) : \E v \in Booking!VehicleOf(db, body, c[1]) :
          /\ out.customer = c[1] /\ out.vehicle = v[1]
          /\ out.db.customers = c[2]
          /\ out.db.vehicles = {Booking!Owned(w, v[1], body.company) : w \in v[2]}
    BY OutcomeOfBooking
  <1>2. PICK v \in Booking!VehicleOf(db, body, c[1]) :
          /\ out.vehicle = v[1]
          /\ out.db.vehicles = {Booking!Owned(w, v[1], body.company) : w \in v[2]}
    BY <1>1
  <1>3. c[1] \in Nat
    BY CustomersLeft
  <1>4. PICK w \in v[2] : u = Booking!Owned(w, v[1], body.company)
    BY <1>2
  <1>5. w \in VehicleRow /\ u.id = w.id /\ w.id = v[1]
        /\ u.owner = IF w.owner = Booking!None THEN body.company ELSE w.owner
    BY <1>2, <1>3, <1>4, VehiclesLeft, OwnedRow
  <1> SUFFICES w.owner \in {Booking!None, body.company}
    BY <1>5
  <1>6. CASE body.vehicle # Booking!None /\ v = <<body.vehicle, db.vehicles>>
    <2>1. w \in db.vehicles /\ w.id = body.vehicle /\ ~w.deleted /\ w.owner \in db.companies \cup {Booking!None}
      BY <1>5, <1>6 DEF Booking!OneVehicleSought
    <2>2. ~Booking!OwnedElsewhere(db, w.owner, body.company)
      BY <1>6, <2>1 DEF CompanyGuarded
    <2> QED
      BY <2>1, <2>2 DEF Booking!OwnedElsewhere
  <1>7. CASE body.vehicle = Booking!None /\ body.hasNewVehicle
    <2>1. PICK seen \in Booking!OwnersByNumber(db, body.newVehicle.vin, body.newVehicle.reg) :
            \A y \in seen : ~Booking!OwnedElsewhere(db, y.owner, body.company)
      BY <1>7 DEF CompanyGuarded
    <2>2. CASE \E x : FoundFor(db, body.newVehicle, c[1], x) /\ v = <<x.id, db.vehicles>>
      <3>1. PICK x : FoundFor(db, body.newVehicle, c[1], x) /\ v = <<x.id, db.vehicles>>
        BY <2>2
      <3>2. w = x
        BY <1>5, <3>1 DEF BookingTables, VehicleTable, FoundFor
      <3> QED
        BY <2>1, <3>1, <3>2, SoughtIsTheCompanys DEF FoundFor
    <2>3. CASE \E row : MadeFor(db, body.newVehicle, c[1], row) /\ v = <<row.id, db.vehicles \cup {row}>>
      <3>1. PICK row : MadeFor(db, body.newVehicle, c[1], row) /\ v = <<row.id, db.vehicles \cup {row}>>
        BY <2>3
      <3>2. w = row
        BY <1>5, <3>1 DEF MadeFor
      <3> QED
        BY <3>1, <3>2 DEF MadeFor
    <2> QED
      BY <1>3, <1>7, <2>2, <2>3, VehicleOfBooking
  <1> QED
    BY <1>3, <1>6, <1>7, VehicleOfBooking

\* "A vehicle may only be used within its owning company", for tables of any size: where the numbers of
\* the body are one vehicle's, the booked one is the company's.
THEOREM BookedVehicleIsTheCompanys ==
  ASSUME NEW db \in BookingTables, NEW body \in BookingBody
  PROVE  Booking!BookedInItsCompany(db, body)
  <1> SUFFICES ASSUME Booking!OneVehicleSought(db, body.newVehicle.vin, body.newVehicle.reg), body.company # Booking!None,
                      NEW out \in Booking!Book(db, body, TRUE), out.ok,
                      NEW u \in out.db.vehicles, u.id = out.vehicle
               PROVE  u.owner = body.company
    BY DEF Booking!BookedInItsCompany
  <1>1. Booking!Checked(db, body, TRUE)
    BY OutcomeOfBooking
  <1>2. CompanyGuarded(db, body)
    BY <1>1 DEF Booking!Checked, CompanyGuarded
  <1> QED
    BY <1>2, GuardedIsTheCompanys

\* findVehicleOwnerElsewhere, "one source of truth", for tables of any size: what the search asks to
\* switch the company for, a booking under the same company refuses.
THEOREM SwitchIsRefused ==
  ASSUME NEW db \in BookingTables, NEW body \in BookingBody, NEW answers
  PROVE  Booking!SwitchMeansRefusal(db, body, answers)
  <1> DEFINE vin == body.newVehicle.vin
             reg == body.newVehicle.reg
             company == body.company
             q == [vin |-> vin, reg |-> reg, company |-> company]
  <1> SUFFICES ASSUME Booking!OneVehicleSought(db, vin, reg), company # Booking!None,
                      body.vehicle = Booking!None, body.hasNewVehicle,
                      "SWITCH_COMPANY" \in Booking!SearchOutcome(db, q, answers)
               PROVE  Booking!Book(db, body, TRUE) = {Booking!Refused}
    BY DEF Booking!SwitchMeansRefusal
  <1> SUFFICES ASSUME Booking!Checked(db, body, TRUE) PROVE FALSE
    BY DEF Booking!Book
  <1>1. PICK guard \in Booking!OwnersByNumber(db, vin, reg) : \A v \in guard : ~Booking!OwnedElsewhere(db, v.owner, company)
    BY DEF Booking!Checked
  <1>2. \E seen \in Booking!OwnersByNumber(db, vin, reg) : \E v \in seen : Booking!OwnedElsewhere(db, v.owner, company)
    <2>1. Booking!Combined(answers) # "SWITCH_COMPANY"
      BY DEF Booking!Combined, Booking!TakenTogether
    <2> QED
      BY <2>1 DEF Booking!SearchOutcome
  <1>3. PICK seen \in Booking!OwnersByNumber(db, vin, reg) : \E v \in seen : Booking!OwnedElsewhere(db, v.owner, company)
    BY <1>2
  <1>4. PICK v \in seen : Booking!OwnedElsewhere(db, v.owner, company)
    BY <1>3
  <1>5. v \in db.vehicles /\ ((vin # Booking!None /\ v.vin = vin) \/ v.reg = reg)
    <2> DEFINE rows == {w \in db.vehicles :
                       ~w.deleted /\ w.owner # Booking!None /\ ((vin # Booking!None /\ w.vin = vin) \/ (reg # Booking!None /\ w.reg = reg))}
    <2>1. seen \in Booking!Limit1(rows)
      BY <1>3 DEF Booking!OwnersByNumber
    <2>2. v \in rows
      BY <1>4, <2>1, LimitIsOne
    <2> QED
      BY <2>2
  <1>6. v.owner \in {Booking!None, company}
    BY <1>1, <1>5, SoughtIsTheCompanys
  <1> QED
    BY <1>4, <1>6 DEF Booking!OwnedElsewhere

\* The tables a booking of the customer c and the vehicle v leaves, written out.
TablesAfter(db, body, c, v) ==
  [customers |-> c[2], vehicles |-> {Booking!Owned(w, v[1], body.company) : w \in v[2]},
   links |-> db.links \cup (IF body.company = Booking!None THEN {} ELSE {<<c[1], body.company>>}),
   ar |-> db.ar \cup (IF body.hasNewCustomer /\ body.ar # Booking!None /\ \A a \in db.ar : a[1] # c[1]
                     THEN {<<c[1], body.ar>>} ELSE {}),
   companies |-> db.companies, activeCompanies |-> db.activeCompanies]

\* The whole of what is left behind.
LEMMA TablesOfBooking ==
  ASSUME NEW db \in BookingTables, NEW body \in BookingBody, NEW enforced,
         NEW out \in Booking!Book(db, body, enforced), out.ok
  PROVE  \E c \in Booking!CustomerOf(db, body) : \E v \in Booking!VehicleOf(db, body, c[1]) :
           out.db = TablesAfter(db, body, c, v)
  <1>1. out # Booking!Refused
    BY DEF Booking!Refused
  <1>2. \E c \in Booking!CustomerOf(db, body) : \E v \in Booking!VehicleOf(db, body, c[1]) :
              out = Booking!Outcome(db, body, c, v)
    BY <1>1 DEF Booking!Book
  <1>3. PICK c \in Booking!CustomerOf(db, body) : \E v \in Booking!VehicleOf(db, body, c[1]) :
          out = Booking!Outcome(db, body, c, v)
    BY <1>2
  <1>4. PICK v \in Booking!VehicleOf(db, body, c[1]) : out = Booking!Outcome(db, body, c, v)
    BY <1>3
  <1>5. out.db = TablesAfter(db, body, c, v)
    BY <1>4 DEF Booking!Outcome, BookingTables, TablesAfter
  <1> QED
    BY <1>4, <1>5

\* What is left behind is a state of the tables again.
LEMMA RowsLeftAreTables ==
  ASSUME NEW db \in BookingTables, NEW body \in BookingBody,
         NEW c \in Booking!CustomerOf(db, body), NEW v \in Booking!VehicleOf(db, body, c[1])
  PROVE  /\ c[2] \in CustomerTable
         /\ {Booking!Owned(w, v[1], body.company) : w \in v[2]} \in VehicleTable
  <1> DEFINE after == {Booking!Owned(w, v[1], body.company) : w \in v[2]}
             set == [w \in v[2] |-> Booking!Owned(w, v[1], body.company)]
  <1>1. c[2] \in CustomerTable
    <2>1. CASE c[2] = db.customers
      BY <2>1 DEF BookingTables
    <2>2. CASE \E row : MadeCustomer(db, body.newCustomer, row) /\ c = <<row.id, db.customers \cup {row}>>
      <3>1. PICK row : MadeCustomer(db, body.newCustomer, row) /\ c = <<row.id, db.customers \cup {row}>>
        BY <2>2
      <3>2. IsFiniteSet(db.customers \cup {row})
        BY FS_AddElement DEF BookingTables, CustomerTable
      <3> QED
        BY <3>1, <3>2 DEF BookingTables, CustomerTable, MadeCustomer
    <2> QED
      BY <2>1, <2>2, CustomerOfBooking
  <1>2. c[1] \in Nat
    BY CustomersLeft
  <1>3. v[2] \in VehicleTable
    <2>1. CASE v[2] = db.vehicles
      BY <2>1 DEF BookingTables
    <2>2. CASE \E row : MadeFor(db, body.newVehicle, c[1], row) /\ v = <<row.id, db.vehicles \cup {row}>>
      <3>1. PICK row : MadeFor(db, body.newVehicle, c[1], row) /\ v = <<row.id, db.vehicles \cup {row}>>
        BY <2>2
      <3>2. IsFiniteSet(db.vehicles \cup {row})
        BY FS_AddElement DEF BookingTables, VehicleTable
      <3> QED
        BY <3>1, <3>2 DEF BookingTables, VehicleTable, MadeFor
    <2> QED
      BY <1>2, <2>1, <2>2, VehicleOfBooking
  <1>4. \A w \in v[2] : Booking!Owned(w, v[1], body.company) \in VehicleRow
    BY <1>3 DEF Booking!Owned, VehicleTable, VehicleRow, BookingBody
  <1>5. IsFiniteSet(after)
    <2>1. set \in Surjection(v[2], after)
      BY DEF Surjection
    <2> QED
      BY <1>3, <2>1, FS_Surjection DEF VehicleTable
  <1>6. \A x, y \in after : x.id = y.id => x = y
    BY <1>3, OwnedRow DEF VehicleTable
  <1> QED
    BY <1>1, <1>4, <1>5, <1>6 DEF VehicleTable

\* The same body, on the tables that its booking left, is of the same customer.
LEMMA SameCustomer ==
  ASSUME NEW db \in BookingTables, NEW body \in BookingBody, PeopleApart(db.customers),
         NEW c \in Booking!CustomerOf(db, body),
         NEW after \in BookingTables, after.customers = c[2],
         NEW again \in Booking!CustomerOf(after, body)
  PROVE  again = <<c[1], after.customers>>
  <1> DEFINE new == body.newCustomer
  <1>1. CASE body.customer # Booking!None
    BY <1>1, CustomerOfBooking
  <1>2. CASE body.customer = Booking!None
    <2>1. \E d \in after.customers :
            /\ d.id = c[1] /\ ~d.deleted
            /\ (new.sequence # Booking!None /\ d.sequence = new.sequence) \/ d.phone = new.phone.number
            /\ \A e \in after.customers :
                 ~e.deleted /\ new.sequence # Booking!None /\ e.sequence = new.sequence => e = d
      <3>1. CASE \E d \in db.customers : /\ ~d.deleted /\ new.sequence # Booking!None
                                         /\ d.sequence = new.sequence /\ c = <<d.id, db.customers>>
        BY <3>1 DEF PeopleApart
      <3>2. CASE \E row : MadeCustomer(db, new, row) /\ c = <<row.id, db.customers \cup {row}>>
        BY <3>2 DEF MadeCustomer
      <3> QED
        BY <1>2, <3>1, <3>2, CustomerOfBooking
    <2>2. PICK d \in after.customers :
            /\ d.id = c[1] /\ ~d.deleted
            /\ (new.sequence # Booking!None /\ d.sequence = new.sequence) \/ d.phone = new.phone.number
            /\ \A e \in after.customers :
                 ~e.deleted /\ new.sequence # Booking!None /\ e.sequence = new.sequence => e = d
      BY <2>1
    <2>3. ~\E row : MadeCustomer(after, new, row)
      BY <2>2 DEF MadeCustomer
    <2> QED
      BY <1>2, <2>2, <2>3, CustomerOfBooking
  <1> QED
    BY <1>1, <1>2

\* And of the same vehicle.
LEMMA SameVehicle ==
  ASSUME NEW db \in BookingTables, NEW body \in BookingBody, NEW customer \in Nat,
         NEW v \in Booking!VehicleOf(db, body, customer),
         NEW after \in BookingTables, CarsApart(after.vehicles),
         after.vehicles = {Booking!Owned(w, v[1], body.company) : w \in v[2]},
         NEW again \in Booking!VehicleOf(after, body, customer)
  PROVE  again = <<v[1], after.vehicles>>
  <1> DEFINE new == body.newVehicle
             Chosen(t) == /\ t \in after.vehicles /\ Booking!Alive(t)
                          /\ \/ new.vin # Booking!None /\ t.vin = new.vin
                             \/ /\ t.reg = new.reg
                                /\ \A u \in after.vehicles : Booking!Alive(u) => new.vin = Booking!None \/ u.vin # new.vin
  <1>1. CASE body.vehicle # Booking!None
    BY <1>1, VehicleOfBooking
  <1>2. CASE body.vehicle = Booking!None
    <2>0. v[2] \subseteq VehicleRow
      BY VehiclesLeft
    <2>1. \E t : Chosen(t) /\ t.id = v[1]
      <3>1. CASE \E x : FoundFor(db, new, customer, x) /\ v = <<x.id, db.vehicles>>
        <4>1. PICK x : FoundFor(db, new, customer, x) /\ v = <<x.id, db.vehicles>>
          BY <3>1
        <4> DEFINE t == Booking!Owned(x, v[1], body.company)
        <4>2. t \in after.vehicles /\ t.id = x.id /\ t.vin = x.vin /\ t.reg = x.reg /\ t.status = x.status
          BY <2>0, <4>1, OwnedRow DEF FoundFor
        <4>3. \A u \in after.vehicles : \E w \in db.vehicles : u.vin = w.vin /\ u.status = w.status
          BY <2>0, <4>1, OwnedRow
        <4> HIDE DEF t
        <4>4. Chosen(t)
          BY <4>1, <4>2, <4>3 DEF FoundFor, Booking!Alive
        <4> QED
          BY <4>1, <4>2, <4>4
      <3>2. CASE \E row : MadeFor(db, new, customer, row) /\ v = <<row.id, db.vehicles \cup {row}>>
        <4>1. PICK row : MadeFor(db, new, customer, row) /\ v = <<row.id, db.vehicles \cup {row}>>
          BY <3>2
        <4> DEFINE t == Booking!Owned(row, v[1], body.company)
        <4>2. t \in after.vehicles /\ t.id = row.id /\ t.vin = row.vin /\ t.reg = row.reg /\ t.status = row.status
          BY <2>0, <4>1, OwnedRow
        <4> HIDE DEF t
        <4>3. Chosen(t)
          BY <4>1, <4>2 DEF MadeFor, Booking!Alive
        <4> QED
          BY <4>1, <4>2, <4>3
      <3> QED
        BY <1>2, <3>1, <3>2, VehicleOfBooking
    <2>2. PICK t : Chosen(t) /\ t.id = v[1]
      BY <2>1
    <2>3. ~\E row : MadeFor(after, new, customer, row)
      BY <2>2 DEF MadeFor
    <2>4. PICK x : FoundFor(after, new, customer, x) /\ again = <<x.id, after.vehicles>>
      BY <1>2, <2>3, VehicleOfBooking
    <2>5. Chosen(x)
      BY <2>4 DEF FoundFor
    <2>6. new.reg # Booking!None
      BY DEF BookingBody, Booking!None
    <2>7. x = t
      BY <2>2, <2>5, <2>6 DEF CarsApart
    <2> QED
      BY <2>2, <2>4, <2>7
  <1> QED
    BY <1>1, <1>2

\* A booking whose answer was lost may be sent again, on tables of any size: it is refused or changes nothing.
THEOREM RepeatedBookingMakesNobody ==
  ASSUME NEW db \in BookingTables, NEW body \in BookingBody, NEW enforced
  PROVE  Booking!RetryMakesNobodyTwice(db, body, enforced)
  <1> SUFFICES ASSUME Booking!Distinct(db),
                      NEW out \in Booking!Book(db, body, enforced), out.ok,
                      NEW again \in Booking!Book(out.db, body, enforced), again.ok
               PROVE  again.db = out.db
    BY DEF Booking!RetryMakesNobodyTwice
  <1> DEFINE after == out.db
  <1>1. PICK c \in Booking!CustomerOf(db, body) : \E v \in Booking!VehicleOf(db, body, c[1]) :
          after = TablesAfter(db, body, c, v)
    BY TablesOfBooking
  <1>2. PICK v \in Booking!VehicleOf(db, body, c[1]) : after = TablesAfter(db, body, c, v)
    BY <1>1
  <1>3. c[1] \in Nat
    BY CustomersLeft
  <1>left. /\ after.customers = c[2]
        /\ after.vehicles = {Booking!Owned(w, v[1], body.company) : w \in v[2]}
        /\ after.links = db.links \cup (IF body.company = Booking!None THEN {} ELSE {<<c[1], body.company>>})
        /\ after.ar = db.ar \cup (IF body.hasNewCustomer /\ body.ar # Booking!None /\ \A a \in db.ar : a[1] # c[1]
                                 THEN {<<c[1], body.ar>>} ELSE {})
        /\ after.companies = db.companies /\ after.activeCompanies = db.activeCompanies
        /\ after = [customers |-> after.customers, vehicles |-> after.vehicles, links |-> after.links,
                    ar |-> after.ar, companies |-> after.companies, activeCompanies |-> after.activeCompanies]
    BY <1>2 DEF TablesAfter
  <1>4. after \in BookingTables
    <2>1. c[2] \in CustomerTable /\ after.vehicles \in VehicleTable
      BY <1>left, RowsLeftAreTables
    <2>2. after.links \in SUBSET (Nat \X Nat) /\ after.ar \in SUBSET (Nat \X Nat)
      BY <1>left, <1>3 DEF BookingTables, BookingBody
    <2> QED
      BY <1>left, <2>1, <2>2 DEF BookingTables
  <1>5. Booking!Distinct(after)
    BY BookingKeepsIdentities DEF Booking!IdentitiesStayDistinct
  <1> HIDE DEF after
  <1>6. PICK d \in Booking!CustomerOf(after, body) : \E w \in Booking!VehicleOf(after, body, d[1]) :
          again.db = TablesAfter(after, body, d, w)
    BY <1>4, TablesOfBooking DEF after
  <1>7. d = <<c[1], after.customers>>
    BY <1>left, <1>4, DistinctIsApart, SameCustomer
  <1>8. PICK w \in Booking!VehicleOf(after, body, c[1]) : again.db = TablesAfter(after, body, d, w)
    BY <1>6, <1>7
  <1>9. w = <<v[1], after.vehicles>>
    BY <1>left, <1>3, <1>4, <1>5, DistinctIsApart, SameVehicle
  <1>10. {Booking!Owned(x, v[1], body.company) : x \in after.vehicles} = after.vehicles
    <2>1. v[2] \subseteq VehicleRow
      BY <1>3, VehiclesLeft
    <2>2. \A x \in v[2] : LET y == Booking!Owned(x, v[1], body.company) IN Booking!Owned(y, v[1], body.company) = y
      BY <2>1 DEF VehicleRow, Booking!Owned
    <2> QED
      BY <1>left, <2>2
  <1>same. d[1] = c[1] /\ d[2] = after.customers /\ w[1] = v[1] /\ w[2] = after.vehicles
    BY <1>7, <1>9
  <1>11. /\ after.links = after.links \cup (IF body.company = Booking!None THEN {} ELSE {<<c[1], body.company>>})
         /\ after.ar = after.ar \cup (IF body.hasNewCustomer /\ body.ar # Booking!None /\ \A a \in after.ar : a[1] # c[1]
                                     THEN {<<c[1], body.ar>>} ELSE {})
    BY <1>left
  <1>12. again.db = after
    BY <1>left, <1>8, <1>10, <1>11, <1>same DEF TablesAfter
  <1> QED
    BY <1>12 DEF after

\* What a lookup says; a pass asks for one spelling in two ways.
LookupAnswer == {"FOUND", "NOT_FOUND", "UNAVAILABLE"}

LookupPass == [primary : LookupAnswer, fallback : LookupAnswer]

\* Of the passes that find something there is a first.
LEMMA FirstFindExists ==
  ASSUME NEW count \in Nat, NEW answers \in [1 .. count -> LookupPass],
         NEW n \in DOMAIN answers, Booking!PassOutcome(answers[n]) = "FOUND"
  PROVE  \E k \in DOMAIN answers : /\ Booking!PassOutcome(answers[k]) = "FOUND"
                                  /\ \A m \in 1 .. k - 1 : Booking!PassOutcome(answers[m]) # "FOUND"
  <1> DEFINE finds == {k \in DOMAIN answers : Booking!PassOutcome(answers[k]) = "FOUND"}
  <1>1. finds \subseteq Nat /\ finds # {}
    OBVIOUS
  <1>2. PICK k \in finds : \A m \in finds : ~(<<m, k>> \in OpToRel(<, Nat))
    BY <1>1, NatLessThanWellFounded, WFMin
  <1>3. k \in finds /\ k \in Nat /\ \A m \in finds : ~(m < k)
    BY <1>1, <1>2 DEF OpToRel
  <1>4. \A m \in 1 .. k - 1 : m \notin finds /\ m \in DOMAIN answers
    BY <1>3
  <1> QED
    BY <1>3, <1>4

\* irmCustomerSearch, "never a false NOT_FOUND", in however many spellings a phone is looked for.
THEOREM NotFoundIsSaidForCertain ==
  ASSUME NEW count \in Nat \ {0}, NEW answers \in [1 .. count -> LookupPass]
  PROVE  Booking!NotFoundIsCertain(answers)
  <1> DEFINE outcome(n) == Booking!PassOutcome(answers[n])
             said == {answers[n].primary : n \in DOMAIN answers} \cup {answers[n].fallback : n \in DOMAIN answers}
             heard == {answers[a[1]][a[2]] : a \in Booking!Asked(answers)}
             passes == {outcome(n) : n \in DOMAIN answers}
  <1>1. \A n \in DOMAIN answers :
          /\ answers[n].primary \in LookupAnswer /\ answers[n].fallback \in LookupAnswer
          /\ outcome(n) = "FOUND" <=> answers[n].primary = "FOUND" \/ answers[n].fallback = "FOUND"
          /\ outcome(n) = "NOT_FOUND" <=> answers[n].primary = "NOT_FOUND" /\ answers[n].fallback = "NOT_FOUND"
          /\ outcome(n) \in LookupAnswer
    <2>1. \A n \in DOMAIN answers : answers[n] \in LookupPass
      OBVIOUS
    <2>2. \A n \in DOMAIN answers : answers[n].primary \in LookupAnswer /\ answers[n].fallback \in LookupAnswer
      BY <2>1 DEF LookupPass
    <2>3. ASSUME NEW answer, answer.primary \in LookupAnswer, answer.fallback \in LookupAnswer
          PROVE  /\ Booking!PassOutcome(answer) = "FOUND" <=> answer.primary = "FOUND" \/ answer.fallback = "FOUND"
                 /\ Booking!PassOutcome(answer) = "NOT_FOUND" <=> answer.primary = "NOT_FOUND" /\ answer.fallback = "NOT_FOUND"
                 /\ Booking!PassOutcome(answer) \in LookupAnswer
      <3>1. CASE answer.primary = "FOUND" \/ answer.fallback = "FOUND"
        BY <3>1 DEF Booking!PassOutcome, Booking!TakenTogether, LookupAnswer
      <3>2. CASE answer.primary # "FOUND" /\ answer.fallback # "FOUND"
        BY <2>3, <3>2 DEF Booking!PassOutcome, Booking!TakenTogether, LookupAnswer
      <3> QED
        BY <3>1, <3>2
    <2> QED
      BY <2>2, <2>3
  <1>2. 1 \in DOMAIN answers
    OBVIOUS
  <1>3. /\ Booking!Combined(answers) = "FOUND" <=> "FOUND" \in passes
        /\ Booking!Combined(answers) = "NOT_FOUND" <=> "FOUND" \notin passes /\ "UNAVAILABLE" \notin passes
    BY DEF Booking!Combined, Booking!TakenTogether
  <1>4. Booking!Combined(answers) = "NOT_FOUND" <=> \A n \in DOMAIN answers : outcome(n) = "NOT_FOUND"
    BY <1>1, <1>3 DEF LookupAnswer
  <1>5. said = {"NOT_FOUND"} <=> \A n \in DOMAIN answers : answers[n].primary = "NOT_FOUND" /\ answers[n].fallback = "NOT_FOUND"
    BY <1>2
  <1>6. "FOUND" \in said <=> "FOUND" \in passes
    BY <1>1
  <1>7. "FOUND" \in heard => "FOUND" \in said
    <2> SUFFICES ASSUME NEW a \in Booking!Asked(answers), answers[a[1]][a[2]] = "FOUND" PROVE "FOUND" \in said
      OBVIOUS
    <2>1. a[1] \in DOMAIN answers /\ a[2] \in {"primary", "fallback"}
      BY DEF Booking!Asked
    <2>2. CASE a[2] = "primary"
      BY <2>1, <2>2
    <2>3. CASE a[2] = "fallback"
      BY <2>1, <2>3
    <2> QED
      BY <2>1, <2>2, <2>3
  <1>8. "FOUND" \in passes => "FOUND" \in heard
    <2> SUFFICES ASSUME NEW n \in DOMAIN answers, outcome(n) = "FOUND" PROVE "FOUND" \in heard
      OBVIOUS
    <2>1. PICK k \in DOMAIN answers : outcome(k) = "FOUND" /\ \A m \in 1 .. k - 1 : outcome(m) # "FOUND"
      BY FirstFindExists
    <2>2. CASE answers[k].primary = "FOUND"
      <3>1. <<k, "primary">> \in Booking!Asked(answers)
        BY <2>1 DEF Booking!Asked
      <3>2. answers[<<k, "primary">>[1]][<<k, "primary">>[2]] = "FOUND"
        BY <2>2
      <3> QED
        BY <3>1, <3>2
    <2>3. CASE answers[k].primary # "FOUND"
      <3>1. <<k, "fallback">> \in Booking!Asked(answers)
        BY <2>1, <2>3 DEF Booking!Asked
      <3>2. answers[<<k, "fallback">>[1]][<<k, "fallback">>[2]] = "FOUND"
        BY <1>1, <2>1, <2>3
      <3> QED
        BY <3>1, <3>2
    <2> QED
      BY <2>2, <2>3
  <1>9. /\ Booking!Combined(answers) = "NOT_FOUND" <=> said = {"NOT_FOUND"}
        /\ Booking!Combined(answers) = "FOUND" <=> "FOUND" \in heard
        /\ "FOUND" \in said => "FOUND" \in heard
    <2> HIDE DEF said, heard, passes
    <2>1. (\A n \in DOMAIN answers : outcome(n) = "NOT_FOUND")
            <=> \A n \in DOMAIN answers : answers[n].primary = "NOT_FOUND" /\ answers[n].fallback = "NOT_FOUND"
      BY <1>1
    <2> QED
      BY <1>3, <1>4, <1>5, <1>6, <1>7, <1>8, <2>1
  <1> QED
    BY <1>9 DEF Booking!NotFoundIsCertain
=============================================================================
