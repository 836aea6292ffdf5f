------------------------- MODULE AppointmentsProofs -------------------------
(***************************************************************************)
(* Proofs about Appointments, for any number of appointments, bays, days,  *)
(* requests and connections: what the checks and locks of a booking book   *)
(* that many write to still promise.                                       *)
(*                                                                         *)
(* The argument: a creation looks for the vehicle's other appointments     *)
(* under the vehicle's lock, and a creation or a foreman's move looks at a *)
(* bay under the bay's lock.  Whoever places an appointment on a bay       *)
(* without that lock makes it unsure; so what was read under the lock is   *)
(* still true of the sure ones when the write comes.  A reschedule takes   *)
(* no lock, but when nothing raced it, nothing has been written since.     *)
(***************************************************************************)
EXTENDS Appointments, FiniteSetTheorems, TLAPS

\* Open appointments that were never closed, and those of them whose place was checked in peace.
Firm == Live \ revived

Sure == Firm \ unsure

\* A creation or a reschedule that nothing raced is alone.
Creating == {"create", "lock", "check", "insert"}

AloneUnlessRaced ==
  \A r \in InFlight :
    req[r].at \in Creating \cup {"reschedule"} /\ ~req[r].raced => InFlight = {r}

\* No lock is held twice.
LocksApart == \A r, s \in InFlight : r # s => req[r].locks \cap req[s].locks = {}

\* Nothing among the rows has the bay at the time of p.
Clear(bay, p, rows, book) ==
  \A b \in rows :
    book[b].bay = bay /\ book[b].day = p.day => ~Overlaps(Interval(p), Interval(book[b]))

SameTime(row, p) == row.day = p.day /\ row.start = p.start /\ row.length = p.length

\* A creation holds the vehicle's lock, then the bay's; the vehicle has nothing open, the bay is free.
CreationSound(q, firm, sure, book) ==
  /\ q.at \in {"lock", "check", "insert"} =>
       /\ <<NoBay, q.vehicle>> \in q.locks
       /\ \A a \in firm : book[a].vehicle # q.vehicle
  /\ q.at = "lock" => q.place.bay # NoBay
  /\ q.at \in {"check", "insert"} /\ q.place.bay # NoBay => <<q.place.bay, q.place.day>> \in q.locks
  /\ q.at = "insert" /\ q.place.bay # NoBay => Clear(q.place.bay, q.place, sure, book)

\* What is moved or rescheduled has been made.  A move that has checked holds its bays' locks; its
\* appointment and the displaced one fit.
TargetSound(q, made, sure, book) ==
  /\ q.at \in {"reschedule", "move", "moveWrite"} => q.a \in made
  /\ q.at \in {"move", "moveWrite"} /\ q.a \in sure => SameTime(book[q.a], q.place)
  /\ q.at = "moveWrite" =>
       /\ <<q.target, q.place.day>> \in q.locks
       /\ Clear(q.target, q.place, sure \ ({q.a} \cup q.displaced), book)
       /\ \A c, d \in q.displaced : c = d
       /\ \A c \in q.displaced :
            /\ c \in made /\ c # q.a
            /\ q.replacement \in Bays /\ q.replacement # q.target
            /\ <<q.replacement, q.place.day>> \in q.locks
            /\ c \in sure =>
                 book[c].day = q.place.day /\ Clear(q.replacement, book[c], sure \ {c}, book)

\* What was checked outside of locks is still true, if nothing raced.
Free == {pe \in Place \X SUBSET Appts : PlaceFree(pe[1], pe[2])}

UnracedSound(q, free, book) ==
  /\ q.at = "insert" /\ q.place.bay = NoBay /\ ~q.raced => <<q.place, {}>> \in free
  /\ q.at = "reschedule" /\ ~q.raced =>
       /\ <<q.place, {q.a}>> \in free
       /\ q.keepBay => book[q.a].bay = q.place.bay
       /\ q.keepLength => book[q.a].length = q.place.length

RequestsSound ==
  \A r \in Requests :
    /\ CreationSound(req[r], Firm, Sure, appt)
    /\ TargetSound(req[r], Made, Sure, appt)
    /\ UnracedSound(req[r], Free, appt)

IInv ==
  /\ TypeOK
  /\ AloneUnlessRaced
  /\ LocksApart
  /\ RequestsSound
  /\ NoDoubleBooking
  /\ OneOpenAppointment
  /\ SlotsKeepCapacity

-----------------------------------------------------------------------------
(* Rows, intervals and requests.                                           *)

\* An open appointment has been made, and what has been made has a row.
LEMMA Rows ==
  ASSUME TypeOK
  PROVE  /\ \A a \in Made : a \in Appts /\ appt[a] \in Appointment
         /\ Live \subseteq Made /\ Firm \subseteq Live /\ Sure \subseteq Firm
  <1>1. \A a \in Appts : appt[a] \in Appointment \cup {NoRow}
    BY DEF TypeOK
  <1>2. "none" \notin Active
    BY DEF Active
  <1> QED
    BY <1>1, <1>2 DEF Made, Live, Firm, Sure, NoRow

\* Two intervals overlap whichever is named first.
LEMMA OverlapsBothWays ==
  ASSUME NEW p, NEW q, p.start \in Nat, p.length \in Nat, q.start \in Nat, q.length \in Nat,
         Overlaps(Interval(p), Interval(q))
  PROVE  Overlaps(Interval(q), Interval(p))
  BY DEF Overlaps, Interval

\* Rows that agree on start and length take up the same time.
LEMMA SameInterval ==
  ASSUME NEW p, NEW q, SameTime(p, q)
  PROVE  Interval(p) = Interval(q)
  BY DEF SameTime, Interval

\* The kind of a request is told by where it is.
LEMMA Kinds ==
  ASSUME NEW q \in Request
  PROVE  /\ q.at \in Creating => q \in Creation
         /\ q.at = "reschedule" => q \in Rescheduling
         /\ q.at \in {"move", "moveWrite"} => q \in Moving
         /\ q.at \in {"idle", "done", "reschedule", "move", "moveWrite"} \cup Creating
         /\ q.at \notin {"idle", "done"} => q.locks \subseteq Keys /\ q.raced \in BOOLEAN
  BY DEF Request, Idle, Done, Creation, Rescheduling, Moving, Creating

\* p is q, but for having been raced.
Same(q, p) ==
  /\ p.at = q.at /\ p.locks = q.locks
  /\ q.at \in Creating => p.vehicle = q.vehicle /\ p.place = q.place
  /\ q.at = "reschedule" => p.a = q.a
  /\ q.at \in {"move", "moveWrite"} =>
       /\ p.a = q.a /\ p.place = q.place /\ p.target = q.target
       /\ p.replacement = q.replacement /\ p.displaced = q.displaced

\* Being raced changes nothing of what a request asks for and has read.
LEMMA RacedSame ==
  ASSUME NEW q \in Request, q.at \notin {"idle", "done"}
  PROVE  /\ [q EXCEPT !.raced = TRUE] \in Request
         /\ Same(q, [q EXCEPT !.raced = TRUE])
         /\ [q EXCEPT !.raced = TRUE].raced
  <1>1. CASE q \in Creation
    <2>1. [q EXCEPT !.raced = TRUE] \in Creation
      BY <1>1 DEF Creation
    <2>2. Same(q, [q EXCEPT !.raced = TRUE]) /\ [q EXCEPT !.raced = TRUE].raced
      BY <1>1 DEF Creation, Same, Creating
    <2> QED
      BY <2>1, <2>2 DEF Request
  <1>2. CASE q \in Rescheduling
    <2>1. [q EXCEPT !.raced = TRUE] \in Rescheduling
      BY <1>2 DEF Rescheduling
    <2>2. Same(q, [q EXCEPT !.raced = TRUE]) /\ [q EXCEPT !.raced = TRUE].raced
      BY <1>2 DEF Rescheduling, Same, Creating
    <2> QED
      BY <2>1, <2>2 DEF Request
  <1>3. CASE q \in Moving
    <2>1. [q EXCEPT !.raced = TRUE] \in Moving
      BY <1>3 DEF Moving
    <2>2. Same(q, [q EXCEPT !.raced = TRUE]) /\ [q EXCEPT !.raced = TRUE].raced
      BY <1>3 DEF Moving, Same, Creating
    <2> QED
      BY <2>1, <2>2 DEF Request
  <1> QED
    BY <1>1, <1>2, <1>3, Kinds

-----------------------------------------------------------------------------
(* What a step that writes the book may do to the others.                  *)

\* Who comes new to a vehicle or a bay has the lock for it.
BookMoves(mine) ==
  /\ \A a \in Firm' :
       \/ a \in Firm /\ appt'[a].vehicle = appt[a].vehicle
       \/ <<NoBay, appt'[a].vehicle>> \in mine
  /\ \A a \in Sure' :
       \/ a \in Sure /\ appt'[a].bay = appt[a].bay /\ SameTime(appt'[a], appt[a])
       \/ <<appt'[a].bay, appt'[a].day>> \in mine
       \/ appt'[a].bay = NoBay
  /\ \A a \in Made : a \in Made' /\ (a \in Sure' => a \in Sure /\ SameTime(appt'[a], appt[a]))

\* A book that stays does all of this.
LEMMA StillMoves ==
  ASSUME NEW mine, UNCHANGED <<appt, unsure, revived>>
  PROVE  /\ BookMoves(mine)
         /\ Made' = Made /\ Live' = Live /\ Firm' = Firm /\ Sure' = Sure /\ Free' = Free
  <1>1. Made' = Made /\ Live' = Live /\ Firm' = Firm /\ Sure' = Sure
    BY DEF Made, Live, Firm, Sure
  <1>2. Free' = Free
    BY DEF Free, PlaceFree, SlotFree, BayFree, Booked, OnBay, InSlot, Live
  <1> QED
    BY <1>1, <1>2 DEF BookMoves, SameTime

\* What is clear under a lock stays clear when others write.
LEMMA ClearStays ==
  ASSUME NEW mine, BookMoves(mine), NEW bay, bay # NoBay, NEW p, NEW q, SameTime(q, p),
         <<bay, p.day>> \notin mine, NEW except, Clear(bay, p, Sure \ except, appt)
  PROVE  Clear(bay, q, Sure' \ except, appt')
  <1>1. SUFFICES ASSUME NEW b \in Sure' \ except, appt'[b].bay = bay, appt'[b].day = q.day
                 PROVE  ~Overlaps(Interval(q), Interval(appt'[b]))
    BY DEF Clear
  <1>2. b \in Sure /\ appt'[b].bay = appt[b].bay /\ SameTime(appt'[b], appt[b])
    BY <1>1 DEF BookMoves, SameTime
  <1>3. Interval(q) = Interval(p) /\ Interval(appt'[b]) = Interval(appt[b])
    BY <1>2, SameInterval
  <1>4. ~Overlaps(Interval(p), Interval(appt[b]))
    BY <1>1, <1>2 DEF Clear, SameTime
  <1> QED
    BY <1>3, <1>4

\* So the others' requests stay sound, as their locks are not the writer's.
LEMMA OthersSound ==
  ASSUME NEW mine, BookMoves(mine), NEW q \in Request, NEW p, Same(q, p),
         q.at \notin {"idle", "done"} => q.locks \cap mine = {},
         NoBay \notin Bays,
         CreationSound(q, Firm, Sure, appt), TargetSound(q, Made, Sure, appt)
  PROVE  CreationSound(p, Firm', Sure', appt') /\ TargetSound(p, Made', Sure', appt')
  <1>1. CreationSound(p, Firm', Sure', appt')
    <2>1. q.at \in {"lock", "check", "insert"} =>
            /\ <<NoBay, q.vehicle>> \in q.locks
            /\ \A a \in Firm' : appt'[a].vehicle # q.vehicle
      BY DEF CreationSound, BookMoves
    <2>2. q.at = "insert" /\ q.place.bay # NoBay => Clear(q.place.bay, q.place, Sure', appt')
      <3>1. SUFFICES ASSUME q.at = "insert", q.place.bay # NoBay
                     PROVE  Clear(q.place.bay, q.place, Sure', appt')
        OBVIOUS
      <3>2. /\ <<q.place.bay, q.place.day>> \notin mine
            /\ Clear(q.place.bay, q.place, Sure \ {}, appt)
        BY <3>1 DEF CreationSound, Clear
      <3>3. Clear(q.place.bay, q.place, Sure' \ {}, appt')
        BY <3>1, <3>2, ClearStays DEF SameTime
      <3> QED
        BY <3>3 DEF Clear
    <2> QED
      BY <2>1, <2>2 DEF CreationSound, Same, Creating
  <1>2. TargetSound(p, Made', Sure', appt')
    <2>1. q.at \in {"reschedule", "move", "moveWrite"} => q.a \in Made /\ q.a \in Made'
      BY DEF TargetSound, BookMoves
    <2>2. q.at \in {"move", "moveWrite"} /\ q.a \in Sure' => SameTime(appt'[q.a], q.place)
      BY <2>1 DEF TargetSound, BookMoves, SameTime
    <2>3. ASSUME q.at = "moveWrite"
          PROVE  Clear(q.target, q.place, Sure' \ ({q.a} \cup q.displaced), appt')
      <3>1. q \in Moving /\ q.target # NoBay
        BY <2>3, Kinds DEF Moving
      <3>2. /\ <<q.target, q.place.day>> \notin mine
            /\ Clear(q.target, q.place, Sure \ ({q.a} \cup q.displaced), appt)
        BY <2>3 DEF TargetSound
      <3> QED
        BY <3>1, <3>2, ClearStays DEF SameTime
    <2>4. ASSUME q.at = "moveWrite", NEW c \in q.displaced, c \in Sure'
          PROVE  appt'[c].day = q.place.day /\ Clear(q.replacement, appt'[c], Sure' \ {c}, appt')
      <3>1. /\ c \in Made /\ q.replacement \in Bays
            /\ <<q.replacement, q.place.day>> \notin mine
        BY <2>4 DEF TargetSound
      <3>2. c \in Sure /\ SameTime(appt'[c], appt[c])
        BY <2>4, <3>1 DEF BookMoves
      <3>3. appt[c].day = q.place.day /\ Clear(q.replacement, appt[c], Sure \ {c}, appt)
        BY <2>4, <3>2 DEF TargetSound
      <3>4. Clear(q.replacement, appt'[c], Sure' \ {c}, appt')
        BY <3>1, <3>2, <3>3, ClearStays
      <3> QED
        BY <3>2, <3>3, <3>4 DEF SameTime
    <2>5. \A c \in q.displaced : q.at = "moveWrite" => c \in Made'
      BY DEF TargetSound, BookMoves
    <2> QED
      BY <2>1, <2>2, <2>3, <2>4, <2>5 DEF TargetSound, Same
  <1> QED
    BY <1>1, <1>2

-----------------------------------------------------------------------------
(* The steps of a request, and how it begins.                              *)

\* A request in flight becomes q: those around it stay, and q takes no lock that is taken.
LEMMA ContinueKeeps ==
  ASSUME IInv, NEW s \in InFlight, NEW q \in Request, req' = [req EXCEPT ![s] = q],
         q.at # "idle",
         q.at # "done" => \A k \in q.locks : k \in req[s].locks \/ ~Locked(k),
         q.at \in Creating \cup {"reschedule"} =>
           req[s].at \in Creating \cup {"reschedule"} /\ q.raced = req[s].raced,
         BookMoves(req[s].locks) \/ InFlight = {s},
         appt' \in [Appts -> Appointment \cup {NoRow}], unsure' \subseteq Appts,
         revived' \subseteq Appts,
         CreationSound(q, Firm', Sure', appt'), TargetSound(q, Made', Sure', appt'),
         q.at \in {"insert", "reschedule"} =>
           UnracedSound(q, Free', appt'),
         NoDoubleBooking', OneOpenAppointment', SlotsKeepCapacity'
  PROVE  IInv'
  <1>1. /\ s \in Requests /\ req'[s] = q /\ req[s].at \notin {"idle", "done"}
        /\ \A r \in Requests : r # s => req'[r] = req[r]
    BY DEF InFlight, IInv, TypeOK
  <1>2. TypeOK'
    BY <1>1 DEF IInv, TypeOK
  <1>3. InFlight' \subseteq InFlight /\ (q.at # "done" => InFlight' = InFlight)
    BY <1>1 DEF InFlight
  <1>4. AloneUnlessRaced'
    BY <1>1, <1>3 DEF IInv, AloneUnlessRaced, Creating
  <1>5. LocksApart'
    <2>1. SUFFICES ASSUME NEW r \in InFlight', r # s, s \in InFlight', NEW k \in q.locks
                   PROVE  k \notin req[r].locks
      BY <1>1, <1>3 DEF IInv, LocksApart
    <2>2. q.at # "done" /\ r \in InFlight
      BY <1>1, <1>3, <2>1 DEF InFlight
    <2> QED
      BY <2>1, <2>2 DEF IInv, LocksApart, Locked
  <1>6. ASSUME NEW r \in Requests, r # s
        PROVE  /\ CreationSound(req'[r], Firm', Sure', appt')
               /\ TargetSound(req'[r], Made', Sure', appt')
               /\ UnracedSound(req'[r], Free', appt')
    <2>1. CASE r \notin InFlight
      <3>1. req'[r].at \in {"idle", "done"}
        BY <1>1, <1>6, <2>1 DEF InFlight
      <3> QED
        BY <3>1 DEF CreationSound, TargetSound, UnracedSound
    <2>2. CASE r \in InFlight
      <3>1. BookMoves(req[s].locks) /\ InFlight # {r} /\ req[r] \in Request
        BY <1>6, <2>2 DEF IInv, TypeOK
      <3>2. req[r].locks \cap req[s].locks = {} /\ NoBay \notin Bays /\ Same(req[r], req[r])
        BY <1>6, <2>2, AppointmentsAssumption DEF IInv, LocksApart, NoBay, Same
      <3>3. CreationSound(req[r], Firm, Sure, appt) /\ TargetSound(req[r], Made, Sure, appt)
        BY DEF IInv, RequestsSound
      <3>4. /\ CreationSound(req[r], Firm', Sure', appt')
            /\ TargetSound(req[r], Made', Sure', appt')
        BY <3>1, <3>2, <3>3, OthersSound
      <3>5. UnracedSound(req[r], Free', appt')
        BY <2>2, <3>1 DEF IInv, AloneUnlessRaced, UnracedSound, Creating
      <3> QED
        BY <1>1, <1>6, <3>4, <3>5
    <2> QED
      BY <2>1, <2>2
  <1>7. RequestsSound'
    BY ZenonT(40), <1>1, <1>6 DEF RequestsSound, UnracedSound
  <1> QED
    BY <1>2, <1>4, <1>5, <1>7 DEF IInv

\* A request begins as q, without locks: those in flight are raced.
LEMMA BeginKeeps ==
  ASSUME IInv, NEW s \in Requests, req[s].at = "idle", NEW q \in Request, Begin(s, q),
         q.at # "idle", q.at # "done" => q.locks = {},
         q.at \in Creating \cup {"reschedule"} => q.raced = (InFlight # {}),
         BookMoves({}),
         appt' \in [Appts -> Appointment \cup {NoRow}], unsure' \subseteq Appts,
         revived' \subseteq Appts,
         CreationSound(q, Firm', Sure', appt'), TargetSound(q, Made', Sure', appt'),
         UnracedSound(q, Free', appt'),
         NoDoubleBooking', OneOpenAppointment', SlotsKeepCapacity'
  PROVE  IInv'
  <1>1. /\ s \notin InFlight /\ req'[s] = q
        /\ \A r \in Requests : r # s =>
             req'[r] = IF r \in InFlight THEN [req[r] EXCEPT !.raced = TRUE] ELSE req[r]
    BY DEF InFlight, Begin
  <1>2. ASSUME NEW r \in InFlight
        PROVE  /\ req'[r] \in Request /\ Same(req[r], req'[r]) /\ req'[r].raced
               /\ r \in Requests /\ r # s /\ req[r].at \notin {"idle", "done"}
    <2>1. r \in Requests /\ r # s /\ req[r] \in Request /\ req[r].at \notin {"idle", "done"}
      BY <1>1 DEF InFlight, IInv, TypeOK
    <2>2. req'[r] = [req[r] EXCEPT !.raced = TRUE]
      BY <1>1, <2>1
    <2> QED
      BY <2>1, <2>2, RacedSame
  <1>3. \A r \in Requests : r # s /\ r \notin InFlight => req'[r] = req[r]
    BY <1>1
  <1>4. TypeOK'
    <2>1. \A r \in Requests : req'[r] \in Request
      BY <1>1, <1>2, <1>3 DEF IInv, TypeOK
    <2>2. req' = [r \in Requests |-> req'[r]]
      BY DEF Begin
    <2>3. req' \in [Requests -> Request]
      BY <2>1, <2>2
    <2> QED
      BY <2>3 DEF TypeOK
  <1>5. InFlight' \subseteq InFlight \cup {s} /\ InFlight \subseteq InFlight'
    BY <1>1, <1>2, <1>3 DEF InFlight, Same
  <1>6. AloneUnlessRaced'
    BY <1>1, <1>2, <1>5 DEF AloneUnlessRaced
  <1>7. LocksApart'
    <2>1. s \in InFlight' => q.locks = {}
      BY <1>1 DEF InFlight
    <2>2. \A r \in InFlight : req'[r].locks = req[r].locks
      BY <1>2 DEF Same
    <2> QED
      BY <1>1, <1>5, <2>1, <2>2 DEF IInv, LocksApart
  <1>8. ASSUME NEW r \in Requests, r # s
        PROVE  /\ CreationSound(req'[r], Firm', Sure', appt')
               /\ TargetSound(req'[r], Made', Sure', appt')
               /\ UnracedSound(req'[r], Free', appt')
    <2>1. CASE r \notin InFlight
      <3>1. req'[r].at \in {"idle", "done"}
        BY <1>3, <1>8, <2>1 DEF InFlight
      <3> QED
        BY <3>1 DEF CreationSound, TargetSound, UnracedSound
    <2>2. CASE r \in InFlight
      <3>1. req[r] \in Request /\ NoBay \notin Bays
        BY AppointmentsAssumption DEF IInv, TypeOK, NoBay
      <3>2. CreationSound(req[r], Firm, Sure, appt) /\ TargetSound(req[r], Made, Sure, appt)
        BY DEF IInv, RequestsSound
      <3>3. /\ CreationSound(req'[r], Firm', Sure', appt')
            /\ TargetSound(req'[r], Made', Sure', appt')
        BY <1>2, <2>2, <3>1, <3>2, OthersSound
      <3>4. UnracedSound(req'[r], Free', appt')
        BY <1>2, <2>2 DEF UnracedSound
      <3> QED
        BY <3>3, <3>4
    <2> QED
      BY <2>1, <2>2
  <1>9. RequestsSound'
    BY <1>1, <1>8 DEF RequestsSound
  <1> QED
    BY <1>4, <1>6, <1>7, <1>9 DEF IInv

-----------------------------------------------------------------------------
(* What the book promises, after a write to the rows in A.                 *)

\* A row that is written where it is clear of the others double-books nothing.
LEMMA NothingDoubled ==
  ASSUME TypeOK, TypeOK', NoDoubleBooking, NEW A,
         \A b \in Sure' \ A : b \in Sure /\ appt'[b].bay = appt[b].bay /\ SameTime(appt'[b], appt[b]),
         \A a \in Sure' \cap A :
           appt'[a].bay # NoBay => Clear(appt'[a].bay, appt'[a], Sure' \ {a}, appt')
  PROVE  NoDoubleBooking'
  <1>1. SUFFICES ASSUME NEW a \in Sure', NEW b \in Sure', a # b,
                        appt'[a].bay = appt'[b].bay, appt'[a].day = appt'[b].day,
                        appt'[a].bay # NoBay,
                        Overlaps(Interval(appt'[a]), Interval(appt'[b]))
                 PROVE  FALSE
    BY DEF NoDoubleBooking, Sure, Firm
  <1>2. \A c \in Sure' : appt'[c].start \in Nat /\ appt'[c].length \in Nat
    <2>1. \A c \in Sure' : c \in Appts /\ appt'[c].status \in Active
      BY DEF Sure, Firm, Live
    <2>2. \A c \in Sure' : appt'[c] \in Appointment
      BY <2>1 DEF TypeOK, Active, NoRow
    <2> QED
      BY <2>2, AppointmentsAssumption DEF Appointment
  <1>3. Overlaps(Interval(appt'[b]), Interval(appt'[a]))
    BY <1>1, <1>2, OverlapsBothWays
  <1>4. CASE a \in A \/ b \in A
    BY <1>1, <1>3, <1>4 DEF Clear
  <1>5. CASE a \notin A /\ b \notin A
    <2>1. /\ a \in Sure /\ b \in Sure
          /\ appt[a].bay = appt[b].bay /\ appt[a].day = appt[b].day /\ appt[a].bay # NoBay
      BY <1>1, <1>5 DEF SameTime
    <2>2. Interval(appt'[a]) = Interval(appt[a]) /\ Interval(appt'[b]) = Interval(appt[b])
      BY <1>1, <1>5, SameInterval
    <2> QED
      BY <1>1, <2>1, <2>2 DEF NoDoubleBooking, Sure, Firm
  <1> QED
    BY <1>4, <1>5

\* Nor does a vehicle come twice when who is new to it finds it without an open appointment.
LEMMA NothingTwice ==
  ASSUME OneOpenAppointment, NEW a,
         \A b \in Firm' : b # a => b \in Firm /\ appt'[b].vehicle = appt[b].vehicle,
         a \in Firm' => \/ a \in Firm /\ appt'[a].vehicle = appt[a].vehicle
                        \/ \A b \in Firm : appt[b].vehicle # appt'[a].vehicle
  PROVE  OneOpenAppointment'
  BY DEF OneOpenAppointment, Firm

\* Those without a bay in a slot.
Here(sure, book, day, start) ==
  {a \in sure : book[a].day = day /\ book[a].start = start /\ book[a].bay = NoBay}

\* The slots that a booking without a bay takes are those the model counts.
LEMMA SlotsAreHere ==
  ASSUME TypeOK
  PROVE  SlotsKeepCapacity <=>
           \A day \in Days, start \in Starts :
             Here(Sure, appt, day, start) # {} =>
               /\ start \in DOMAIN SlotCapacity
               /\ Cardinality(Here(Sure, appt, day, start)) <= SlotCapacity[start]
  <1>1. \A day, start :
          {a \in InSlot(day, start) \ (unsure \cup revived) : appt[a].bay = NoBay}
            = Here(Sure, appt, day, start)
    BY DEF InSlot, Here, Sure, Firm
  <1> QED
    BY <1>1 DEF SlotsKeepCapacity

\* One that comes new to a slot finds it below its capacity.
LEMMA SlotsKept ==
  ASSUME TypeOK, TypeOK', SlotsKeepCapacity, NEW a,
         \A b \in Sure' : b # a /\ appt'[b].bay = NoBay =>
           b \in Sure /\ appt[b].bay = NoBay /\ SameTime(appt'[b], appt[b]),
         a \in Sure' /\ appt'[a].bay = NoBay =>
           \/ a \in Sure /\ appt[a].bay = NoBay /\ SameTime(appt'[a], appt[a])
           \/ /\ appt'[a].start \in DOMAIN SlotCapacity
              /\ Cardinality(Here(Sure, appt, appt'[a].day, appt'[a].start) \ {a})
                   < SlotCapacity[appt'[a].start]
  PROVE  SlotsKeepCapacity'
  <1>1. SUFFICES ASSUME NEW day \in Days, NEW start \in Starts,
                        Here(Sure', appt', day, start) # {}
                 PROVE  /\ start \in DOMAIN SlotCapacity
                        /\ Cardinality(Here(Sure', appt', day, start)) <= SlotCapacity[start]
    <2>1. \A day, start :
            {b \in InSlot(day, start)' \ (unsure' \cup revived') : appt'[b].bay = NoBay}
              = Here(Sure', appt', day, start)
      BY DEF InSlot, Here, Sure, Firm
    <2> QED
      BY <2>1 DEF SlotsKeepCapacity
  <1> DEFINE old == Here(Sure, appt, day, start)
             new == Here(Sure', appt', day, start)
  <1>2. IsFiniteSet(old) /\ old \subseteq Appts
    BY Rows, AppointmentsAssumption, FS_Subset DEF Here
  <1>3. \/ old # {} /\ start \in DOMAIN SlotCapacity /\ Cardinality(old) <= SlotCapacity[start]
        \/ old = {}
    BY SlotsAreHere
  <1>4. CASE new \subseteq old
    <2>1. Cardinality(new) <= Cardinality(old) /\ old # {}
      BY <1>1, <1>2, <1>4, FS_Subset
    <2>2. IsFiniteSet(new) /\ Cardinality(new) \in Nat /\ Cardinality(old) \in Nat
      BY <1>2, <1>4, FS_Subset, FS_CardinalityType
    <2> QED
      BY <1>3, <2>1, <2>2, AppointmentsAssumption
  <1>5. CASE ~(new \subseteq old)
    <2>1. new \subseteq (old \ {a}) \cup {a} /\ a \in new
      BY <1>5 DEF Here, SameTime
    <2>2. /\ start \in DOMAIN SlotCapacity
          /\ Cardinality(old \ {a}) < SlotCapacity[start]
      BY <1>5, <2>1 DEF Here, SameTime
    <2>3. IsFiniteSet(old \ {a}) /\ Cardinality(old \ {a}) \in Nat
      BY <1>2, FS_RemoveElement, FS_CardinalityType
    <2>4. /\ IsFiniteSet((old \ {a}) \cup {a})
          /\ Cardinality((old \ {a}) \cup {a}) = Cardinality(old \ {a}) + 1
      BY <2>3, FS_AddElement
    <2>5. Cardinality(new) <= Cardinality(old \ {a}) + 1 /\ Cardinality(new) \in Nat
      BY <2>1, <2>3, <2>4, FS_Subset, FS_CardinalityType
    <2>6. SlotCapacity[start] \in Nat
      BY <2>2, AppointmentsAssumption
    <2> QED
      BY <2>2, <2>3, <2>5, <2>6
  <1> QED
    BY <1>4, <1>5

-----------------------------------------------------------------------------
(* Steps that leave the book alone.                                        *)

\* A step that leaves the book alone leaves its promises as they are.
LEMMA BookPromises ==
  ASSUME IInv, UNCHANGED <<appt, unsure, revived>>
  PROVE  /\ NoDoubleBooking' /\ OneOpenAppointment' /\ SlotsKeepCapacity'
         /\ appt' \in [Appts -> Appointment \cup {NoRow}]
         /\ unsure' \subseteq Appts /\ revived' \subseteq Appts
  <1>1. Live' = Live
    BY DEF Live
  <1>2. NoDoubleBooking' /\ OneOpenAppointment'
    BY <1>1 DEF IInv, NoDoubleBooking, OneOpenAppointment
  <1>3. \A day, start : InSlot(day, start)' = InSlot(day, start)
    BY <1>1 DEF InSlot
  <1>4. SlotsKeepCapacity'
    BY <1>3 DEF IInv, SlotsKeepCapacity
  <1> QED
    BY <1>2, <1>4 DEF IInv, TypeOK

\* A step that only moves one request on keeps the invariant.
LEMMA GoesOn ==
  ASSUME IInv, NEW s \in InFlight, NEW q \in Request, req' = [req EXCEPT ![s] = q],
         q.at # "idle",
         q.at # "done" => \A k \in q.locks : k \in req[s].locks \/ ~Locked(k),
         q.at \in Creating \cup {"reschedule"} =>
           req[s].at \in Creating \cup {"reschedule"} /\ q.raced = req[s].raced,
         UNCHANGED <<appt, unsure, revived>>,
         CreationSound(q, Firm, Sure, appt), TargetSound(q, Made, Sure, appt),
         q.at \in {"insert", "reschedule"} => UnracedSound(q, Free, appt)
  PROVE  IInv'
  <1>1. /\ BookMoves(req[s].locks)
        /\ Made' = Made /\ Firm' = Firm /\ Sure' = Sure /\ Free' = Free
    BY StillMoves
  <1>2. CreationSound(q, Firm', Sure', appt') /\ TargetSound(q, Made', Sure', appt')
    BY <1>1
  <1>3. q.at \in {"insert", "reschedule"} => UnracedSound(q, Free', appt')
    BY <1>1
  <1> QED
    BY <1>1, <1>2, <1>3, BookPromises, ContinueKeeps

\* A request that ends lets go of its locks.
LEMMA DoneSound ==
  /\ Done \in Request /\ Done.at = "done"
  /\ \A firm, sure, book : CreationSound(Done, firm, sure, book)
  /\ \A made, sure, book : TargetSound(Done, made, sure, book)
  /\ \A free, book : UnracedSound(Done, free, book)
  BY DEF Request, Done, CreationSound, TargetSound, UnracedSound

\* A request answers.
LEMMA EndKeeps ==
  ASSUME IInv, NEW s \in InFlight, End(s), UNCHANGED <<appt, unsure, revived>>
  PROVE  IInv'
  <1>1. req' = [req EXCEPT ![s] = Done]
    BY DEF End
  <1>2. Done.at \notin Creating \cup {"reschedule"} /\ Done.at # "idle"
    BY DEF Done, Creating
  <1> QED
    BY <1>1, <1>2, DoneSound, GoesOn

\* A request gives up waiting for a connection.
LEMMA TimeOutKeeps ==
  ASSUME IInv, NEW s \in Requests, TimeOut(s)
  PROVE  IInv'
  <1>1. s \in InFlight
    BY DEF TimeOut, InFlight
  <1> QED
    BY <1>1, EndKeeps DEF TimeOut

\* Under the vehicle's lock the look finds nothing open.
LEMMA CreateLockVehicleKeeps ==
  ASSUME IInv, NEW s \in Requests, CreateLockVehicle(s)
  PROVE  IInv'
  <1> DEFINE k == <<NoBay, req[s].vehicle>>
             at == IF req[s].place.bay = NoBay THEN "check" ELSE "lock"
             q == [req[s] EXCEPT !.at = at, !.locks = {k}]
  <1>1. /\ s \in InFlight /\ req[s] \in Creation /\ req[s].at = "create" /\ ~Locked(k)
        /\ UNCHANGED <<appt, unsure, revived>>
    BY Kinds DEF CreateLockVehicle, InFlight, IInv, TypeOK, Creating
  <1>2. CASE HasOpen(req[s].vehicle)
    <2>1. End(s)
      BY <1>2 DEF CreateLockVehicle
    <2> QED
      BY <1>1, <2>1, EndKeeps
  <1>3. CASE ~HasOpen(req[s].vehicle)
    <2>1. req' = [req EXCEPT ![s] = q]
      BY <1>3 DEF CreateLockVehicle
    <2>2. /\ k \in Keys /\ at \in {"check", "lock"}
          /\ at = "check" <=> req[s].place.bay = NoBay
      BY <1>1 DEF Keys, Creation
    <2> HIDE DEF k, at
    <2>3. q \in Creation
      BY <1>1, <2>2 DEF Creation
    <2>4. /\ q.at = at /\ q.locks = {k} /\ q.vehicle = req[s].vehicle /\ q.place = req[s].place
          /\ q.raced = req[s].raced
      BY <1>1 DEF Creation
    <2> HIDE DEF q
    <2>5. \A a \in Firm : appt[a].vehicle # q.vehicle
      BY <1>3, <2>4 DEF HasOpen, Firm
    <2>6. CreationSound(q, Firm, Sure, appt)
      BY <2>2, <2>4, <2>5 DEF CreationSound, k
    <2>7. TargetSound(q, Made, Sure, appt) /\ q.at \notin {"insert", "reschedule", "idle", "done"}
      BY <2>2, <2>4 DEF TargetSound
    <2>8. q \in Request
      BY <2>3 DEF Request
    <2>9. q.at \in Creating /\ req[s].at \in Creating
      BY <1>1, <2>2, <2>4 DEF Creating
    <2> QED
      BY <1>1, <2>1, <2>4, <2>6, <2>7, <2>8, <2>9, GoesOn
  <1> QED
    BY <1>2, <1>3

\* A creation takes the lock of its bay.
LEMMA CreateLockBayKeeps ==
  ASSUME IInv, NEW s \in Requests, CreateLockBay(s)
  PROVE  IInv'
  <1> DEFINE k == <<req[s].place.bay, req[s].place.day>>
             q == [req[s] EXCEPT !.at = "check", !.locks = @ \cup {k}]
  <1>1. /\ s \in InFlight /\ req[s] \in Creation /\ req[s].at = "lock" /\ ~Locked(k)
        /\ UNCHANGED <<appt, unsure, revived>> /\ req' = [req EXCEPT ![s] = q]
    BY Kinds DEF CreateLockBay, InFlight, IInv, TypeOK, Creating
  <1>2. CreationSound(req[s], Firm, Sure, appt)
    BY <1>1 DEF IInv, RequestsSound
  <1>3. k \in Keys
    BY <1>1, <1>2 DEF Keys, Creation, Place, CreationSound
  <1> HIDE DEF k
  <1>4. q \in Creation
    BY <1>1, <1>3 DEF Creation
  <1>5. /\ q.at = "check" /\ q.locks = req[s].locks \cup {k} /\ q.vehicle = req[s].vehicle
        /\ q.place = req[s].place /\ q.raced = req[s].raced
    BY <1>1 DEF Creation
  <1> HIDE DEF q
  <1>6. CreationSound(q, Firm, Sure, appt)
    BY <1>1, <1>2, <1>5 DEF CreationSound, k
  <1>7. TargetSound(q, Made, Sure, appt)
    BY <1>5 DEF TargetSound
  <1>8. q \in Request /\ q.at \in Creating /\ req[s].at \in Creating
    BY <1>1, <1>4, <1>5 DEF Request, Creating
  <1> QED
    BY <1>1, <1>5, <1>6, <1>7, <1>8, GoesOn

\* What the check of a bay says of those booked there.
LEMMA BayIsClear ==
  ASSUME NEW bay, NEW p, NEW except, BayFree(bay, p, except)
  PROVE  Clear(bay, p, Live \ except, appt)
  <1>1. SUFFICES ASSUME NEW b \in Live \ except, appt[b].bay = bay, appt[b].day = p.day
                 PROVE  ~Overlaps(Interval(p), Interval(appt[b]))
    BY DEF Clear
  <1>2. Interval(appt[b]) \in Booked(bay, p.day, except)
    BY <1>1 DEF Booked, OnBay
  <1> QED
    BY <1>2 DEF BayFree, ValidBayInterval, Interval

\* A creation checks its bay.
LEMMA CreateCheckKeeps ==
  ASSUME IInv, NEW s \in Requests, CreateCheck(s)
  PROVE  IInv'
  <1> DEFINE q == [req[s] EXCEPT !.at = "insert"]
  <1>1. /\ s \in InFlight /\ req[s] \in Creation /\ req[s].at = "check"
        /\ UNCHANGED <<appt, unsure, revived>>
    BY Kinds DEF CreateCheck, InFlight, IInv, TypeOK, Creating
  <1>2. CASE ~PlaceFree(req[s].place, {})
    <2>1. End(s)
      BY <1>2 DEF CreateCheck
    <2> QED
      BY <1>1, <2>1, EndKeeps
  <1>3. CASE PlaceFree(req[s].place, {})
    <2>1. req' = [req EXCEPT ![s] = q]
      BY <1>3 DEF CreateCheck
    <2>2. q \in Creation
      BY <1>1 DEF Creation
    <2>3. /\ q.at = "insert" /\ q.locks = req[s].locks /\ q.vehicle = req[s].vehicle
          /\ q.place = req[s].place /\ q.raced = req[s].raced /\ q.place \in Place
      BY <1>1 DEF Creation
    <2> HIDE DEF q
    <2>4. q.place.bay # NoBay => Clear(q.place.bay, q.place, Sure, appt)
      <3>1. SUFFICES ASSUME q.place.bay # NoBay
                     PROVE  Clear(q.place.bay, q.place, Sure, appt)
        OBVIOUS
      <3>2. BayFree(q.place.bay, q.place, {})
        BY <1>3, <2>3, <3>1 DEF PlaceFree
      <3>3. Clear(q.place.bay, q.place, Live \ {}, appt)
        BY <3>2, BayIsClear
      <3> QED
        BY <3>3 DEF Clear, Sure, Firm
    <2>5. CreationSound(q, Firm, Sure, appt)
      <3>1. CreationSound(req[s], Firm, Sure, appt)
        BY DEF IInv, RequestsSound
      <3> QED
        BY <1>1, <2>3, <2>4, <3>1 DEF CreationSound
    <2>6. TargetSound(q, Made, Sure, appt)
      BY <2>3 DEF TargetSound
    <2>7. <<q.place, {}>> \in Free
      BY <1>3, <2>3 DEF Free
    <2>8. UnracedSound(q, Free, appt)
      BY <2>3, <2>7 DEF UnracedSound
    <2>9. q \in Request /\ q.at \in Creating /\ req[s].at \in Creating
      BY <1>1, <2>2, <2>3 DEF Request, Creating
    <2> QED
      BY <1>1, <2>1, <2>3, <2>5, <2>6, <2>8, <2>9, GoesOn
  <1> QED
    BY <1>2, <1>3

\* A move takes its lock and checks the bay.
LEMMA MoveLockKeeps ==
  ASSUME IInv, NEW s \in Requests, MoveLock(s)
  PROVE  IInv'
  <1>1. PICK k \in Wanted(s) \ req[s].locks :
          ~Locked(k) /\ req' = [req EXCEPT ![s].locks = @ \cup {k}]
    BY DEF MoveLock
  <1> DEFINE q == [req[s] EXCEPT !.locks = @ \cup {k}]
  <1>2. /\ s \in InFlight /\ req[s] \in Moving /\ req[s].at = "move"
        /\ UNCHANGED <<appt, unsure, revived>> /\ req' = [req EXCEPT ![s] = q]
    BY <1>1, Kinds DEF MoveLock, InFlight, IInv, TypeOK, Creating
  <1>3. k \in Keys
    BY <1>1, <1>2 DEF Keys, Wanted, Moving
  <1>4. q \in Moving
    BY <1>2, <1>3 DEF Moving
  <1>5. /\ q.at = "move" /\ q.locks = req[s].locks \cup {k}
        /\ q.a = req[s].a /\ q.place = req[s].place
    BY <1>2 DEF Moving
  <1> HIDE DEF q
  <1>6. TargetSound(req[s], Made, Sure, appt)
    BY DEF IInv, RequestsSound
  <1>7. CreationSound(q, Firm, Sure, appt) /\ TargetSound(q, Made, Sure, appt)
    BY <1>2, <1>5, <1>6 DEF CreationSound, TargetSound
  <1>8. q \in Request /\ q.at \notin Creating \cup {"insert", "reschedule", "done", "idle"}
    BY <1>4, <1>5 DEF Request, Creating
  <1> QED
    BY <1>1, <1>2, <1>5, <1>7, <1>8, GoesOn

\* The foreman's look, under the locks of its bays.
LEMMA MoveCheckKeeps ==
  ASSUME IInv, NEW s \in Requests, MoveCheck(s)
  PROVE  IInv'
  <1>1. /\ s \in InFlight /\ req[s] \in Moving /\ req[s].at = "move"
        /\ Wanted(s) = req[s].locks
        /\ UNCHANGED <<appt, unsure, revived>>
    BY Kinds DEF MoveCheck, InFlight, IInv, TypeOK, Creating
  <1>2. TargetSound(req[s], Made, Sure, appt)
    BY DEF IInv, RequestsSound
  <1>3. NoBay \notin Bays
    BY AppointmentsAssumption DEF NoBay
  <1> DEFINE Writes(cs) == req' = [req EXCEPT ![s].at = "moveWrite", ![s].displaced = cs]
             Fits(c) ==
               /\ c \in Made /\ c # req[s].a
               /\ req[s].replacement \in Bays /\ req[s].replacement # req[s].target
               /\ appt[c].day = req[s].place.day
               /\ Clear(req[s].replacement, appt[c], Sure \ {c}, appt)
             TargetClear(cs) ==
               Clear(req[s].target, req[s].place, Sure \ ({req[s].a} \cup cs), appt)
  <1>4. ASSUME NEW cs \in SUBSET Appts, Writes(cs), TargetClear(cs),
               \A c, d \in cs : c = d, \A c \in cs : Fits(c)
        PROVE  IInv'
    <2> DEFINE q == [req[s] EXCEPT !.at = "moveWrite", !.displaced = cs]
    <2>1. req' = [req EXCEPT ![s] = q]
      BY <1>4
    <2>2. q \in Moving
      BY <1>1 DEF Moving
    <2>3. /\ q.at = "moveWrite" /\ q.locks = req[s].locks /\ q.displaced = cs
          /\ q.a = req[s].a /\ q.place = req[s].place
          /\ q.target = req[s].target /\ q.replacement = req[s].replacement
      BY <1>1 DEF Moving
    <2> HIDE DEF q
    <2>4. /\ <<q.target, q.place.day>> \in q.locks
          /\ q.replacement \in Bays => <<q.replacement, q.place.day>> \in q.locks
      BY <1>1, <1>3, <2>2, <2>3 DEF Wanted, Moving
    <2>5. TargetSound(q, Made, Sure, appt)
      BY <1>1, <1>2, <1>4, <2>3, <2>4 DEF TargetSound
    <2>6. CreationSound(q, Firm, Sure, appt)
      BY <2>3 DEF CreationSound
    <2>7. q \in Request /\ q.at \notin Creating \cup {"insert", "reschedule", "done", "idle"}
      BY <2>2, <2>3 DEF Request, Creating
    <2> QED
      BY <1>1, <2>1, <2>3, <2>5, <2>6, <2>7, GoesOn
  <1>5. CASE End(s)
    BY <1>1, <1>5, EndKeeps
  <1>6. ASSUME BayFree(req[s].target, req[s].place, {req[s].a}), Writes({})
        PROVE  IInv'
    <2>1. Clear(req[s].target, req[s].place, Live \ {req[s].a}, appt)
      BY <1>6, BayIsClear
    <2>2. TargetClear({})
      BY <2>1 DEF Clear, Sure, Firm
    <2>3. \A c, d \in {} : c = d
      OBVIOUS
    <2>4. \A c \in {} : Fits(c)
      OBVIOUS
    <2> HIDE DEF Writes, TargetClear, Fits
    <2> QED
      BY <1>4, <1>6, <2>2, <2>3, <2>4
  <1>7. ASSUME NEW c \in InTheWay(s), MayDisplace(s, c), Writes({c})
        PROVE  IInv'
    <2>1. c \in Live /\ appt[c].day = req[s].place.day /\ c # req[s].a
      BY <1>7 DEF InTheWay, OnBay
    <2>2. c \in Made /\ c \in Appts
      BY <2>1, Rows DEF IInv
    <2>3. req[s].replacement \in Bays /\ req[s].replacement # req[s].target
      BY <1>1, <1>7 DEF MayDisplace, Moving
    <2>4. Clear(req[s].target, req[s].place, Live \ {req[s].a, c}, appt)
      BY <1>7, BayIsClear DEF MayDisplace
    <2>5. TargetClear({c})
      BY <2>4 DEF Clear, Sure, Firm
    <2> DEFINE p == PlaceOf(appt[c])
    <2>6. BayFree(req[s].replacement, p, {c})
      BY <1>7 DEF MayDisplace
    <2>7. Clear(req[s].replacement, p, Live \ {c}, appt)
      BY <2>6, BayIsClear
    <2>8. SameTime(p, appt[c])
      BY DEF PlaceOf, SameTime
    <2>9. Interval(p) = Interval(appt[c]) /\ p.day = appt[c].day
      BY <2>8, SameInterval DEF SameTime
    <2> HIDE DEF p
    <2>10. Clear(req[s].replacement, appt[c], Sure \ {c}, appt)
      BY <2>7, <2>9 DEF Clear, Sure, Firm
    <2>11. \A d \in {c} : Fits(d)
      BY <2>1, <2>2, <2>3, <2>10
    <2>12. {c} \in SUBSET Appts /\ \A d, e \in {c} : d = e
      BY <2>2
    <2> HIDE DEF Writes, TargetClear, Fits
    <2> QED
      BY <1>4, <1>7, <2>5, <2>11, <2>12
  <1> QED
    BY <1>5, <1>6, <1>7 DEF MoveCheck

-----------------------------------------------------------------------------
(* Steps that write the book.                                              *)

\* The new row is the only one of its vehicle, and clear on its bay.
LEMMA CreateInsertKeeps ==
  ASSUME IInv, NEW s \in Requests, CreateInsert(s)
  PROVE  IInv'
  <1> DEFINE q == req[s]
             p == req[s].place
             row == [vehicle |-> q.vehicle, bay |-> p.bay, day |-> p.day, start |-> p.start,
                     length |-> p.length, status |-> "BOOKED", linked |-> FALSE, moves |-> 0]
  <1>1. /\ s \in InFlight /\ q \in Creation /\ q.at = "insert" /\ p \in Place /\ q.vehicle \in Vehicles
        /\ End(s) /\ UNCHANGED revived
        /\ unsure' \subseteq unsure \cup Appts /\ unsure \subseteq unsure'
    <2>1. q.at = "insert" /\ q \in Request /\ s \in InFlight
      BY DEF CreateInsert, InFlight, IInv, TypeOK
    <2>2. q \in Creation
      BY <2>1, Kinds DEF Creating
    <2> QED
      BY <2>1, <2>2 DEF CreateInsert, Creation, Unmade
  <1>2. PICK a \in Unmade :
          /\ appt' = [appt EXCEPT ![a] = row]
          /\ unsure' = IF p.bay = NoBay /\ q.raced THEN unsure \cup {a} ELSE unsure
    BY DEF CreateInsert
  <1>3. row \in Appointment
    BY <1>1, AppointmentsAssumption DEF Appointment, Place, AppointmentStatus
  <1>4. row.status = "BOOKED" /\ row.vehicle = q.vehicle /\ row.bay = p.bay /\ SameTime(row, p)
    BY DEF SameTime
  <1> HIDE DEF row
  <1>5. /\ appt' \in [Appts -> Appointment \cup {NoRow}] /\ a \in Appts /\ a \notin Made
        /\ appt'[a] = row
        /\ \A b \in Appts : b # a => appt'[b] = appt[b]
    BY <1>2, <1>3 DEF IInv, TypeOK, Unmade
  <1>6. /\ \A b \in Made : b # a /\ b \in Made'
        /\ \A b \in Firm' : b \in Appts /\ (b # a => b \in Firm /\ appt'[b] = appt[b])
        /\ \A b \in Sure' : b \in Appts /\ (b # a => b \in Sure /\ appt'[b] = appt[b])
    BY <1>1, <1>5 DEF Made, Live, Firm, Sure
  <1>7. /\ <<NoBay, q.vehicle>> \in q.locks
        /\ \A b \in Firm : appt[b].vehicle # q.vehicle
        /\ p.bay # NoBay => <<p.bay, p.day>> \in q.locks /\ Clear(p.bay, p, Sure, appt)
        /\ p.bay = NoBay /\ ~q.raced => <<p, {}>> \in Free
    <2>1. CreationSound(q, Firm, Sure, appt) /\ UnracedSound(q, Free, appt)
      BY DEF IInv, RequestsSound
    <2> QED
      BY <1>1, <2>1 DEF CreationSound, UnracedSound
  <1>8. BookMoves(q.locks)
    BY <1>4, <1>5, <1>6, <1>7 DEF BookMoves, SameTime
  <1>9. NoDoubleBooking'
    <2>1. p.bay # NoBay => Clear(row.bay, row, Sure' \ {a}, appt')
      <3>1. SUFFICES ASSUME p.bay # NoBay, NEW b \in Sure' \ {a},
                            appt'[b].bay = row.bay, appt'[b].day = row.day
                     PROVE  ~Overlaps(Interval(row), Interval(appt'[b]))
        BY DEF Clear
      <3>2. b \in Sure /\ appt'[b] = appt[b] /\ Interval(row) = Interval(p)
        BY <1>4, <1>6, <3>1, SameInterval
      <3> QED
        BY <1>4, <1>7, <3>1, <3>2 DEF Clear, SameTime
    <2>2. \A b \in Sure' \ {a} :
            b \in Sure /\ appt'[b].bay = appt[b].bay /\ SameTime(appt'[b], appt[b])
      BY <1>6 DEF SameTime
    <2>3. TypeOK'
      BY <1>1, <1>5, DoneSound DEF IInv, TypeOK, End
    <2>4. \A b \in Sure' \cap {a} :
            appt'[b].bay # NoBay => Clear(appt'[b].bay, appt'[b], Sure' \ {b}, appt')
      BY <1>4, <1>5, <2>1
    <2> QED
      BY <2>2, <2>3, <2>4, NothingDoubled DEF IInv
  <1>10. OneOpenAppointment'
    BY <1>4, <1>5, <1>6, <1>7, NothingTwice DEF IInv
  <1>11. SlotsKeepCapacity'
    <2>1. TypeOK'
      BY <1>1, <1>5, DoneSound DEF IInv, TypeOK, End
    <2>2. ASSUME a \in Sure', row.bay = NoBay
          PROVE  /\ row.start \in DOMAIN SlotCapacity
                 /\ Cardinality(Here(Sure, appt, row.day, row.start) \ {a}) < SlotCapacity[row.start]
      <3>1. ~q.raced /\ p.bay = NoBay
        BY <1>2, <1>4, <2>2 DEF Sure
      <3>2. SlotFree(p, {})
        BY <1>7, <3>1 DEF Free, PlaceFree
      <3> DEFINE here == Here(Sure, appt, row.day, row.start) \ {a}
                 slot == InSlot(p.day, p.start) \ {}
      <3>3. here \subseteq slot
        BY <1>4 DEF Here, InSlot, Sure, Firm, SameTime
      <3>4. IsFiniteSet(slot)
        BY AppointmentsAssumption, FS_Subset DEF InSlot, Live
      <3>5. Cardinality(here) <= Cardinality(slot)
        BY <3>3, <3>4, FS_Subset
      <3>6. /\ Cardinality(here) \in Nat /\ Cardinality(slot) \in Nat
        BY <3>3, <3>4, FS_Subset, FS_CardinalityType
      <3> QED
        BY <1>4, <3>2, <3>5, <3>6, AppointmentsAssumption DEF SlotFree, SameTime
    <2> QED
      BY <1>5, <1>6, <2>1, <2>2, SlotsKept DEF IInv, SameTime
  <1>12. req' = [req EXCEPT ![s] = Done] /\ Done.at \notin Creating \cup {"reschedule", "idle"}
    BY <1>1 DEF End, Done, Creating
  <1>13. unsure' \subseteq Appts /\ revived' \subseteq Appts
    BY <1>1 DEF IInv, TypeOK
  <1> QED
    BY <1>1, <1>5, <1>8, <1>9, <1>10, <1>11, <1>12, <1>13, DoneSound, ContinueKeeps

\* Raced, it makes its appointment unsure; alone, it writes what it has checked.
LEMMA RescheduleWriteKeeps ==
  ASSUME IInv, NEW s \in Requests, RescheduleWrite(s)
  PROVE  IInv'
  <1> DEFINE q == req[s]
             p == req[s].place
             a == req[s].a
             bay == IF q.keepBay THEN appt[a].bay ELSE p.bay
             length == IF q.keepLength THEN appt[a].length ELSE p.length
             row == [appt[a] EXCEPT !.bay = bay, !.day = p.day, !.start = p.start,
                                    !.length = length, !.status = "BOOKED", !.moves = q.moves + 1]
  <1>1. /\ s \in InFlight /\ q \in Rescheduling /\ q.at = "reschedule" /\ End(s)
        /\ p \in Place /\ a \in Appts /\ q.moves \in Nat /\ q.raced \in BOOLEAN
    <2>1. q.at = "reschedule" /\ q \in Request /\ s \in InFlight /\ End(s)
      BY DEF RescheduleWrite, InFlight, IInv, TypeOK
    <2>2. q \in Rescheduling
      BY <2>1, Kinds
    <2> QED
      BY <2>1, <2>2 DEF Rescheduling
  <1>2. TargetSound(q, Made, Sure, appt) /\ UnracedSound(q, Free, appt)
    BY DEF IInv, RequestsSound
  <1>3. a \in Made /\ appt[a] \in Appointment
    BY <1>1, <1>2, Rows DEF TargetSound, IInv
  <1>4. /\ unsure' = IF q.raced THEN unsure \cup {a} ELSE unsure \ {a}
        /\ revived' = IF appt[a].status \in Active THEN revived ELSE revived \cup {a}
    BY DEF RescheduleWrite
  <1>5. appt' = [appt EXCEPT ![a] = row]
    BY ZenonT(40) DEF RescheduleWrite
  <1>6. /\ bay \in Bays \cup {NoBay} /\ length \in Nat
        /\ p.day \in Days /\ p.start \in Starts
    BY <1>1, <1>3, AppointmentsAssumption DEF Appointment, Place
  <1>7. ~q.raced => /\ bay = p.bay /\ length = p.length /\ <<p, {a}>> \in Free
    BY <1>1, <1>2 DEF UnracedSound
  <1> HIDE DEF bay, length
  <1>8. /\ row \in Appointment
        /\ row.vehicle = appt[a].vehicle /\ row.status = "BOOKED" /\ row.bay = bay
        /\ row.day = p.day /\ row.start = p.start /\ row.length = length
    <2>1. q.moves + 1 \in Nat /\ "BOOKED" \in AppointmentStatus
      BY <1>1 DEF AppointmentStatus
    <2>2. row \in Appointment
      BY <1>3, <1>6, <2>1 DEF Appointment
    <2> QED
      BY <1>3, <2>2 DEF Appointment
  <1> HIDE DEF row
  <1>9. /\ appt' \in [Appts -> Appointment \cup {NoRow}]
        /\ appt'[a] = row
        /\ \A b \in Appts : b # a => appt'[b] = appt[b]
    BY <1>1, <1>5, <1>8 DEF IInv, TypeOK
  <1>10. TypeOK'
    BY <1>1, <1>4, <1>9, DoneSound DEF IInv, TypeOK, End
  <1>11. /\ \A b \in Made : b \in Made'
         /\ \A b \in Firm' : b \in Firm /\ (b # a => appt'[b] = appt[b])
         /\ \A b \in Sure' : b \in Firm /\ (b # a => b \in Sure /\ appt'[b] = appt[b])
         /\ q.raced => a \notin Sure'
    BY <1>1, <1>4, <1>8, <1>9 DEF Made, Live, Firm, Sure
  <1>12. BookMoves(q.locks) \/ InFlight = {s}
    <2>1. CASE ~q.raced
      BY <1>1, <2>1 DEF IInv, AloneUnlessRaced
    <2>2. CASE q.raced
      BY <1>8, <1>9, <1>11, <2>2 DEF BookMoves, SameTime
    <2> QED
      BY <1>1, <2>1, <2>2
  <1>13. NoDoubleBooking'
    <2>1. ASSUME ~q.raced, bay # NoBay
          PROVE  Clear(row.bay, row, Sure' \ {a}, appt')
      <3>1. BayFree(p.bay, p, {a})
        BY <1>7, <2>1 DEF Free, PlaceFree
      <3>2. Clear(p.bay, p, Live \ {a}, appt)
        BY <3>1, BayIsClear
      <3>3. SUFFICES ASSUME NEW b \in Sure' \ {a}, appt'[b].bay = row.bay, appt'[b].day = row.day
                     PROVE  ~Overlaps(Interval(row), Interval(appt'[b]))
        BY DEF Clear
      <3>4. SameTime(row, p)
        BY <1>7, <1>8, <2>1 DEF SameTime
      <3>5. b \in Live \ {a} /\ appt'[b] = appt[b] /\ Interval(row) = Interval(p)
        BY <1>11, <3>3, <3>4, SameInterval DEF Firm
      <3> QED
        BY <1>7, <1>8, <2>1, <3>2, <3>3, <3>5 DEF Clear
    <2>2. \A b \in Sure' \cap {a} :
            appt'[b].bay # NoBay => Clear(appt'[b].bay, appt'[b], Sure' \ {b}, appt')
      BY <1>8, <1>9, <1>11, <2>1
    <2>3. \A b \in Sure' \ {a} :
            b \in Sure /\ appt'[b].bay = appt[b].bay /\ SameTime(appt'[b], appt[b])
      BY <1>11 DEF SameTime
    <2> QED
      BY <1>10, <2>2, <2>3, NothingDoubled DEF IInv
  <1>14. OneOpenAppointment'
    BY <1>8, <1>9, <1>11, NothingTwice DEF IInv
  <1>15. SlotsKeepCapacity'
    <2>1. ASSUME a \in Sure', row.bay = NoBay
          PROVE  /\ row.start \in DOMAIN SlotCapacity
                 /\ Cardinality(Here(Sure, appt, row.day, row.start) \ {a}) < SlotCapacity[row.start]
      <3>1. ~q.raced /\ p.bay = NoBay
        BY <1>7, <1>8, <1>11, <2>1
      <3>2. SlotFree(p, {a})
        BY <1>7, <3>1 DEF Free, PlaceFree
      <3> DEFINE here == Here(Sure, appt, row.day, row.start) \ {a}
                 slot == InSlot(p.day, p.start) \ {a}
      <3>3. here \subseteq slot
        BY <1>8 DEF Here, InSlot, Sure, Firm
      <3>4. IsFiniteSet(slot)
        BY AppointmentsAssumption, FS_Subset DEF InSlot, Live
      <3>5. Cardinality(here) <= Cardinality(slot)
        BY <3>3, <3>4, FS_Subset
      <3>6. /\ Cardinality(here) \in Nat /\ Cardinality(slot) \in Nat
        BY <3>3, <3>4, FS_Subset, FS_CardinalityType
      <3> QED
        BY <1>8, <3>2, <3>5, <3>6, AppointmentsAssumption DEF SlotFree
    <2> QED
      BY <1>9, <1>10, <1>11, <2>1, SlotsKept DEF IInv, SameTime
  <1>16. req' = [req EXCEPT ![s] = Done] /\ Done.at \notin Creating \cup {"reschedule", "idle"}
    BY <1>1 DEF End, Done, Creating
  <1>17. unsure' \subseteq Appts /\ revived' \subseteq Appts
    BY <1>10 DEF TypeOK
  <1> QED
    BY <1>1, <1>9, <1>12, <1>13, <1>14, <1>15, <1>16, <1>17, DoneSound, ContinueKeeps

\* A move writes bays only, and those under its locks.
LEMMA MoveWriteKeeps ==
  ASSUME IInv, NEW s \in Requests, MoveWrite(s)
  PROVE  IInv'
  <1> DEFINE q == req[s]
             A == {q.a} \cup q.displaced
             bay(b) == IF b = q.a THEN q.target ELSE q.replacement
  <1>1. /\ s \in InFlight /\ q \in Moving /\ q.at = "moveWrite"
        /\ End(s) /\ UNCHANGED <<unsure, revived>>
    BY Kinds DEF MoveWrite, InFlight, IInv, TypeOK
  <1>2. TargetSound(q, Made, Sure, appt)
    BY DEF IInv, RequestsSound
  <1>3. /\ A \subseteq Made /\ \A b \in A : bay(b) \in Bays
        /\ \A b \in A : <<bay(b), q.place.day>> \in q.locks
        /\ \A b, c \in A : b # c => bay(b) # bay(c)
    BY <1>1, <1>2 DEF TargetSound, Moving
  <1>4. \A b \in A \cap Sure : appt[b].day = q.place.day
    BY <1>1, <1>2 DEF TargetSound, SameTime
  <1>5. \A b \in Appts : appt'[b] = IF b \in A THEN [appt[b] EXCEPT !.bay = bay(b)] ELSE appt[b]
    BY <1>1 DEF MoveWrite
  <1>6. \A b \in A : appt[b] \in Appointment /\ b \in Appts
    BY <1>3, Rows DEF IInv
  <1>7. A \in SUBSET Appts /\ q.a \in A
    BY <1>6
  <1>8. ASSUME NEW b \in A
        PROVE  Clear(bay(b), appt[b], Sure \ A, appt) \/ b \notin Sure
    <2>1. SUFFICES ASSUME b \in Sure
                   PROVE  Clear(bay(b), appt[b], Sure \ A, appt)
      OBVIOUS
    <2>2. CASE b = q.a
      <3>1. SameTime(appt[b], q.place) /\ Clear(q.target, q.place, Sure \ A, appt)
        BY <1>1, <1>2, <2>1, <2>2 DEF TargetSound
      <3>2. Interval(appt[b]) = Interval(q.place) /\ appt[b].day = q.place.day
        BY <3>1, SameInterval DEF SameTime
      <3> QED
        BY <2>2, <3>1, <3>2 DEF Clear
    <2>3. CASE b # q.a
      <3>1. Clear(q.replacement, appt[b], Sure \ {b}, appt)
        BY <1>1, <1>2, <2>1, <2>3 DEF TargetSound
      <3> QED
        BY <2>3, <3>1 DEF Clear
    <2> QED
      BY <2>2, <2>3
  <1> HIDE DEF A, bay
  <1>9. ASSUME NEW b \in A
        PROVE  /\ appt'[b] \in Appointment /\ appt'[b].bay = bay(b) /\ appt'[b].bay # NoBay
               /\ appt'[b].status = appt[b].status /\ appt'[b].vehicle = appt[b].vehicle
               /\ SameTime(appt'[b], appt[b])
    <2>1. appt[b] \in Appointment /\ bay(b) \in Bays /\ b \in Appts
      BY <1>3, <1>6
    <2>2. appt'[b] = [appt[b] EXCEPT !.bay = bay(b)]
      BY <1>5, <2>1
    <2> QED
      BY <2>1, <2>2, AppointmentsAssumption DEF Appointment, SameTime, NoBay
  <1>10. appt' \in [Appts -> Appointment \cup {NoRow}]
    <2>1. \A b \in Appts : appt'[b] \in Appointment \cup {NoRow}
      BY <1>5, <1>9 DEF IInv, TypeOK
    <2>2. appt' = [b \in Appts |-> appt'[b]]
      BY DEF MoveWrite
    <2> QED
      BY <2>1, <2>2
  <1>11. TypeOK'
    BY <1>1, <1>10, DoneSound DEF IInv, TypeOK, End
  <1>12. \A b \in Appts : appt'[b].status = appt[b].status
    BY <1>5, <1>9
  <1>13. Made' = Made /\ Firm' = Firm /\ Sure' = Sure /\ Sure \subseteq Appts
    BY <1>1, <1>12 DEF Made, Live, Firm, Sure
  <1>14. \A b \in Appts : b \notin A => appt'[b] = appt[b]
    BY <1>5
  <1>15. BookMoves(q.locks)
    <2>1. \A b \in Firm : appt'[b].vehicle = appt[b].vehicle
      BY <1>9, <1>14 DEF Firm, Live
    <2>2. \A b \in Appts : SameTime(appt'[b], appt[b])
      BY <1>9, <1>14 DEF SameTime
    <2>3. \A b \in Sure : \/ appt'[b].bay = appt[b].bay
                          \/ <<appt'[b].bay, appt'[b].day>> \in q.locks
      BY <1>3, <1>4, <1>9, <1>13, <1>14, <2>2 DEF SameTime
    <2>4. Made \subseteq Appts
      BY DEF Made
    <2> QED
      BY <1>13, <2>1, <2>2, <2>3, <2>4 DEF BookMoves
  <1>16. NoDoubleBooking'
    <2>1. ASSUME NEW b \in Sure' \cap A
          PROVE  Clear(appt'[b].bay, appt'[b], Sure' \ {b}, appt')
      <3>1. SUFFICES ASSUME NEW c \in Sure \ {b}, appt'[c].bay = appt'[b].bay,
                            appt'[c].day = appt'[b].day
                     PROVE  ~Overlaps(Interval(appt'[b]), Interval(appt'[c]))
        BY <1>13 DEF Clear
      <3>2. c \notin A
        BY <1>3, <1>9, <2>1, <3>1
      <3>3. appt'[c] = appt[c]
        BY <1>13, <1>14, <3>1, <3>2
      <3>4. Interval(appt'[b]) = Interval(appt[b]) /\ appt'[b].day = appt[b].day
        BY <1>9, <2>1, SameInterval DEF SameTime
      <3>5. Clear(bay(b), appt[b], Sure \ A, appt)
        BY <1>8, <1>13, <2>1
      <3> QED
        BY <1>9, <2>1, <3>1, <3>2, <3>3, <3>4, <3>5 DEF Clear
    <2>2. \A b \in Sure' \ A :
            b \in Sure /\ appt'[b].bay = appt[b].bay /\ SameTime(appt'[b], appt[b])
      BY <1>13, <1>14 DEF SameTime
    <2> QED
      BY <1>11, <2>1, <2>2, NothingDoubled DEF IInv
  <1>17. OneOpenAppointment'
    <2>1. \A b \in Firm' : b \in Firm /\ appt'[b].vehicle = appt[b].vehicle
      BY <1>9, <1>13, <1>14 DEF Firm, Live
    <2> QED
      BY <2>1, NothingTwice DEF IInv
  <1>18. SlotsKeepCapacity'
    <2>1. \A b \in Sure' : appt'[b].bay = NoBay =>
            b \in Sure /\ appt[b].bay = NoBay /\ SameTime(appt'[b], appt[b])
      BY <1>9, <1>13, <1>14 DEF SameTime
    <2> QED
      BY <1>11, <2>1, SlotsKept DEF IInv
  <1>19. req' = [req EXCEPT ![s] = Done] /\ Done.at \notin Creating \cup {"reschedule", "idle"}
    BY <1>1 DEF End, Done, Creating
  <1>20. unsure' \subseteq Appts /\ revived' \subseteq Appts
    BY <1>11 DEF TypeOK
  <1> QED
    BY <1>1, <1>10, <1>15, <1>16, <1>17, <1>18, <1>19, <1>20, DoneSound, ContinueKeeps

-----------------------------------------------------------------------------
(* What begins.                                                            *)

\* A request that only reads: it begins as q, with nothing raced but by what is in flight.
LEMMA ReadsOnly ==
  ASSUME IInv, NEW s \in Requests, req[s].at = "idle", NEW q \in Request, Begin(s, q),
         q.at \in {"create", "reschedule", "move"}, q.locks = {},
         q.at \in {"create", "reschedule"} => q.raced = (InFlight # {}),
         UNCHANGED <<appt, unsure, revived>>,
         TargetSound(q, Made, Sure, appt), UnracedSound(q, Free, appt)
  PROVE  IInv'
  <1>1. /\ BookMoves({})
        /\ Made' = Made /\ Firm' = Firm /\ Sure' = Sure /\ Free' = Free
    BY StillMoves
  <1>2. CreationSound(q, Firm', Sure', appt')
    BY DEF CreationSound
  <1>3. TargetSound(q, Made', Sure', appt') /\ UnracedSound(q, Free', appt')
    BY <1>1
  <1>4. /\ q.at # "idle" /\ (q.at # "done" => q.locks = {})
        /\ q.at \in Creating \cup {"reschedule"} => q.raced = (InFlight # {})
    BY DEF Creating
  <1> QED
    BY <1>1, <1>2, <1>3, <1>4, BookPromises, BeginKeeps

\* A creation begins with its reads.
LEMMA CreateBeginKeeps ==
  ASSUME IInv, NEW s \in Requests, req[s].at = "idle", CreateBegin(s)
  PROVE  IInv'
  <1> DEFINE raced == InFlight # {}
  <1>1. PICK v \in Vehicles : \E p \in Place :
          Begin(s, [at |-> "create", vehicle |-> v, place |-> p, locks |-> {}, raced |-> raced])
    BY DEF CreateBegin
  <1>2. PICK p \in Place :
          Begin(s, [at |-> "create", vehicle |-> v, place |-> p, locks |-> {}, raced |-> raced])
    BY <1>1
  <1>3. UNCHANGED <<appt, unsure, revived>>
    BY DEF CreateBegin
  <1>4. raced \in BOOLEAN /\ raced = (InFlight # {})
    OBVIOUS
  <1> HIDE DEF raced
  <1> DEFINE q == [at |-> "create", vehicle |-> v, place |-> p, locks |-> {}, raced |-> raced]
  <1>5. q \in Creation
    BY <1>4 DEF Creation
  <1>6. q \in Request /\ q.at = "create" /\ q.locks = {} /\ q.raced = raced
    BY <1>5 DEF Request
  <1> HIDE DEF q
  <1>7. TargetSound(q, Made, Sure, appt) /\ UnracedSound(q, Free, appt)
    BY <1>6 DEF TargetSound, UnracedSound
  <1>8. Begin(s, q)
    BY <1>2 DEF q
  <1> QED
    BY <1>3, <1>4, <1>6, <1>7, <1>8, ReadsOnly

\* A reschedule reads and checks.
LEMMA RescheduleReadKeeps ==
  ASSUME IInv, NEW s \in Requests, req[s].at = "idle", RescheduleRead(s)
  PROVE  IInv'
  <1> DEFINE raced == InFlight # {}
             Asked(a, p) ==
               [at |-> "reschedule", a |-> a, place |-> p, keepBay |-> p.bay = appt[a].bay,
                keepLength |-> p.length = appt[a].length, moves |-> appt[a].moves, locks |-> {},
                raced |-> raced]
  <1>1. PICK a \in Made : \E p \in Place : PlaceFree(p, {a}) /\ Begin(s, Asked(a, p))
    BY DEF RescheduleRead
  <1>2. PICK p \in Place : PlaceFree(p, {a}) /\ Begin(s, Asked(a, p))
    BY <1>1
  <1>3. UNCHANGED <<appt, unsure, revived>>
    BY DEF RescheduleRead
  <1> DEFINE keepBay == p.bay = appt[a].bay
             keepLength == p.length = appt[a].length
  <1>4. /\ raced \in BOOLEAN /\ raced = (InFlight # {})
        /\ keepBay \in BOOLEAN /\ keepLength \in BOOLEAN
        /\ keepBay => appt[a].bay = p.bay
        /\ keepLength => appt[a].length = p.length
    OBVIOUS
  <1> DEFINE q == [at |-> "reschedule", a |-> a, place |-> p, keepBay |-> keepBay,
                   keepLength |-> keepLength, moves |-> appt[a].moves, locks |-> {}, raced |-> raced]
  <1>5. Begin(s, q)
    BY <1>2
  <1>6. a \in Appts /\ appt[a].moves \in Nat /\ <<p, {a}>> \in Free
    BY <1>2, Rows DEF IInv, Appointment, Free
  <1> HIDE DEF raced, keepBay, keepLength
  <1>7. q \in Rescheduling
    BY <1>4, <1>6 DEF Rescheduling
  <1>8. /\ q \in Request /\ q.at = "reschedule" /\ q.locks = {} /\ q.raced = raced
        /\ q.a = a /\ q.place = p /\ q.keepBay = keepBay /\ q.keepLength = keepLength
    BY <1>7 DEF Request
  <1> HIDE DEF q
  <1>9. TargetSound(q, Made, Sure, appt) /\ UnracedSound(q, Free, appt)
    BY <1>4, <1>6, <1>8 DEF TargetSound, UnracedSound
  <1> QED
    BY <1>3, <1>4, <1>5, <1>8, <1>9, ReadsOnly

\* A move reads its appointment.
LEMMA MoveReadKeeps ==
  ASSUME IInv, NEW s \in Requests, req[s].at = "idle", MoveRead(s)
  PROVE  IInv'
  <1> DEFINE Asked(a, target, replacement) ==
        [at |-> "move", a |-> a, place |-> PlaceOf(appt[a]), target |-> target,
         replacement |-> replacement, displaced |-> {}, locks |-> {}, raced |-> FALSE]
  <1>1. PICK a \in Made : \E target \in Bays : \E replacement \in Bays \cup {NoBay} :
          Begin(s, Asked(a, target, replacement))
    BY DEF MoveRead
  <1>2. PICK target \in Bays : \E replacement \in Bays \cup {NoBay} :
          Begin(s, Asked(a, target, replacement))
    BY <1>1
  <1>3. PICK replacement \in Bays \cup {NoBay} : Begin(s, Asked(a, target, replacement))
    BY <1>2
  <1>4. UNCHANGED <<appt, unsure, revived>>
    BY DEF MoveRead
  <1> DEFINE p == PlaceOf(appt[a])
             q == Asked(a, target, replacement)
  <1>5. a \in Appts /\ appt[a] \in Appointment
    BY Rows DEF IInv
  <1>6. /\ p \in [bay : Bays \cup {NoBay}, day : Days, start : Starts, length : Nat]
        /\ SameTime(appt[a], p)
    BY <1>5 DEF PlaceOf, Appointment, SameTime
  <1> HIDE DEF p
  <1>7. q \in Moving
    BY <1>5, <1>6 DEF Moving, p
  <1>8. q \in Request /\ q.at = "move" /\ q.locks = {} /\ q.a = a /\ q.place = p
    BY <1>7 DEF Request, p
  <1> HIDE DEF q
  <1>9. TargetSound(q, Made, Sure, appt) /\ UnracedSound(q, Free, appt)
    BY <1>6, <1>8 DEF TargetSound, UnracedSound
  <1>10. Begin(s, q)
    BY <1>3 DEF q
  <1> QED
    BY <1>4, <1>8, <1>9, <1>10, ReadsOnly

\* A single statement leaves vehicle and time alone, and the bay or the certainty.
LEMMA AtOnceKeeps ==
  ASSUME IInv, NEW s \in Requests, req[s].at = "idle", Begin(s, Done),
         NEW as \in SUBSET Made, appt' = [a \in Appts |-> appt'[a]],
         \A b \in Appts : b \notin as => appt'[b] = appt[b],
         \A b \in as :
           /\ appt'[b] \in Appointment
           /\ appt'[b].vehicle = appt[b].vehicle /\ SameTime(appt'[b], appt[b])
           /\ appt'[b].bay = appt[b].bay \/ b \in unsure',
         revived' = revived \cup
           {b \in as : appt[b].status \notin Active /\ appt'[b].status \in Active},
         unsure \subseteq unsure', unsure' \subseteq Appts
  PROVE  IInv'
  <1>1. as \subseteq Appts
    BY DEF Made
  <1>2. appt' \in [Appts -> Appointment \cup {NoRow}]
    BY DEF IInv, TypeOK
  <1>3. TypeOK'
    <2>1. \A r \in Requests : req'[r] \in Request
      BY DoneSound, RacedSame DEF Begin, InFlight, IInv, TypeOK
    <2>2. req' \in [Requests -> Request]
      BY <2>1 DEF Begin
    <2> QED
      BY <1>1, <1>2, <2>2 DEF IInv, TypeOK
  <1>4. \A b \in as : appt'[b].status # "none"
    BY DEF Appointment, AppointmentStatus
  <1>5. \A b \in Made : b \in Made'
    BY <1>4 DEF Made
  <1>6. /\ \A b \in Firm' : b \in Firm /\ appt'[b].vehicle = appt[b].vehicle
        /\ \A b \in Sure' : /\ b \in Sure /\ appt'[b].bay = appt[b].bay
                            /\ SameTime(appt'[b], appt[b])
    BY <1>1 DEF Live, Firm, Sure, SameTime
  <1>7. BookMoves({})
    BY <1>5, <1>6 DEF BookMoves
  <1>8. NoDoubleBooking'
    <2>1. /\ \A b \in Sure' \ {} :
               b \in Sure /\ appt'[b].bay = appt[b].bay /\ SameTime(appt'[b], appt[b])
          /\ \A a \in Sure' \cap {} :
               appt'[a].bay # NoBay => Clear(appt'[a].bay, appt'[a], Sure' \ {a}, appt')
      BY <1>6
    <2> QED
      BY <1>3, <2>1, NothingDoubled DEF IInv
  <1>9. OneOpenAppointment'
    BY <1>6, NothingTwice DEF IInv
  <1>10. SlotsKeepCapacity'
    BY <1>3, <1>6, SlotsKept DEF IInv
  <1>11. revived' \subseteq Appts /\ unsure' \subseteq Appts
    BY <1>3 DEF TypeOK
  <1>12. Done.at # "idle" /\ Done.at = "done" /\ Done.at \notin Creating \cup {"reschedule"}
    BY DEF Done, Creating
  <1> QED
    BY <1>2, <1>7, <1>8, <1>9, <1>10, <1>11, <1>12, DoneSound, BeginKeeps

\* What a statement writes is a row, with the vehicle and the time it had.
LEMMA Rewritten ==
  ASSUME NEW row \in Appointment, NEW st \in AppointmentStatus
  PROVE  /\ [row EXCEPT !.status = st] \in Appointment
         /\ [row EXCEPT !.status = st].vehicle = row.vehicle
         /\ [row EXCEPT !.status = st].bay = row.bay
         /\ SameTime([row EXCEPT !.status = st], row)
         /\ [row EXCEPT !.status = st, !.linked = TRUE] \in Appointment
         /\ [row EXCEPT !.status = st, !.linked = TRUE].vehicle = row.vehicle
         /\ [row EXCEPT !.status = st, !.linked = TRUE].bay = row.bay
         /\ SameTime([row EXCEPT !.status = st, !.linked = TRUE], row)
  BY DEF Appointment, SameTime

\* The rows in as become f's; the others stay.
LEMMA StatementKeeps ==
  ASSUME IInv, NEW s \in Requests, req[s].at = "idle", Begin(s, Done),
         NEW as \in SUBSET Made, NEW f,
         appt' = [b \in Appts |-> IF b \in as THEN f[b] ELSE appt[b]],
         revived' = revived \cup {b \in as : appt[b].status \notin Active /\ f[b].status \in Active},
         \A b \in as :
           /\ f[b] \in Appointment
           /\ f[b].vehicle = appt[b].vehicle /\ SameTime(f[b], appt[b])
           /\ f[b].bay = appt[b].bay \/ b \in unsure',
         unsure \subseteq unsure', unsure' \subseteq Appts
  PROVE  IInv'
  <1>1. as \subseteq Appts
    BY DEF Made
  <1>2. /\ appt' = [b \in Appts |-> appt'[b]]
        /\ \A b \in as : appt'[b] = f[b]
        /\ \A b \in Appts : b \notin as => appt'[b] = appt[b]
    BY <1>1
  <1>3. revived' = revived \cup
          {b \in as : appt[b].status \notin Active /\ appt'[b].status \in Active}
    BY <1>2
  <1>4. \A b \in as :
          /\ appt'[b] \in Appointment
          /\ appt'[b].vehicle = appt[b].vehicle /\ SameTime(appt'[b], appt[b])
          /\ appt'[b].bay = appt[b].bay \/ b \in unsure'
    BY <1>2
  <1> QED
    BY <1>2, <1>3, <1>4, AtOnceKeeps

\* The reception sets a status.
LEMMA SetStatusKeeps ==
  ASSUME IInv, NEW s \in Requests, req[s].at = "idle", SetStatus(s)
  PROVE  IInv'
  <1>1. PICK a \in Made : \E st \in Statuses :
          /\ Begin(s, Done) /\ UNCHANGED unsure
          /\ appt' = [b \in Appts |-> IF b \in {a} THEN [appt[b] EXCEPT !.status = st] ELSE appt[b]]
          /\ revived' = revived \cup
               {b \in {a} : appt[b].status \notin Active /\ [appt[b] EXCEPT !.status = st].status \in Active}
    BY DEF SetStatus, WriteAtOnce
  <1>2. PICK st \in Statuses :
          /\ Begin(s, Done) /\ UNCHANGED unsure
          /\ appt' = [b \in Appts |-> IF b \in {a} THEN [appt[b] EXCEPT !.status = st] ELSE appt[b]]
          /\ revived' = revived \cup
               {b \in {a} : appt[b].status \notin Active /\ [appt[b] EXCEPT !.status = st].status \in Active}
    BY <1>1
  <1> DEFINE f == [b \in Appts |-> [appt[b] EXCEPT !.status = st]]
             as == {a}
  <1>3. \A b \in as : b \in Appts /\ appt[b] \in Appointment /\ st \in AppointmentStatus
    BY Rows, AppointmentsAssumption DEF IInv
  <1>4. \A b \in as : f[b] = [appt[b] EXCEPT !.status = st]
    BY <1>3
  <1>5. /\ appt' = [b \in Appts |-> IF b \in as THEN f[b] ELSE appt[b]]
        /\ revived' = revived \cup
             {b \in as : appt[b].status \notin Active /\ f[b].status \in Active}
        /\ as \in SUBSET Made
    BY <1>2, <1>3
  <1>6. Begin(s, Done) /\ unsure \subseteq unsure' /\ unsure' \subseteq Appts
    BY <1>2 DEF IInv, TypeOK
  <1> HIDE DEF f, as
  <1>7. ASSUME NEW b \in as
        PROVE  /\ f[b] \in Appointment
               /\ f[b].vehicle = appt[b].vehicle /\ SameTime(f[b], appt[b])
               /\ f[b].bay = appt[b].bay \/ b \in unsure'
    <2>1. /\ [appt[b] EXCEPT !.status = st] \in Appointment
          /\ [appt[b] EXCEPT !.status = st].vehicle = appt[b].vehicle
          /\ [appt[b] EXCEPT !.status = st].bay = appt[b].bay
          /\ SameTime([appt[b] EXCEPT !.status = st], appt[b])
      BY <1>3, Rewritten, Zenon
    <2> QED
      BY <1>4, <2>1, Zenon
  <1> QED
    BY <1>5, <1>6, <1>7, StatementKeeps

\* A check-in, at the counter or at the gate.
LEMMA EnteringKeeps ==
  ASSUME IInv, NEW s \in Requests, req[s].at = "idle", NEW as \in SUBSET Made,
         Begin(s, Done), UNCHANGED unsure,
         appt' = [b \in Appts |->
                    IF b \in as THEN [appt[b] EXCEPT !.status = "CHECKED_IN", !.linked = TRUE]
                    ELSE appt[b]],
         revived' = revived \cup
           {b \in as : /\ appt[b].status \notin Active
                       /\ [appt[b] EXCEPT !.status = "CHECKED_IN", !.linked = TRUE].status \in Active}
  PROVE  IInv'
  <1> DEFINE f == [b \in Appts |-> [appt[b] EXCEPT !.status = "CHECKED_IN", !.linked = TRUE]]
  <1>1. \A b \in as : b \in Appts /\ appt[b] \in Appointment
    BY Rows DEF IInv
  <1>2. \A b \in as : f[b] = [appt[b] EXCEPT !.status = "CHECKED_IN", !.linked = TRUE]
    BY <1>1
  <1>3. /\ appt' = [b \in Appts |-> IF b \in as THEN f[b] ELSE appt[b]]
        /\ revived' = revived \cup
             {b \in as : appt[b].status \notin Active /\ f[b].status \in Active}
    BY <1>1, <1>2
  <1>4. unsure \subseteq unsure' /\ unsure' \subseteq Appts /\ "CHECKED_IN" \in AppointmentStatus
    BY DEF IInv, TypeOK, AppointmentStatus
  <1> HIDE DEF f
  <1>5. ASSUME NEW b \in as
        PROVE  /\ f[b] \in Appointment
               /\ f[b].vehicle = appt[b].vehicle /\ SameTime(f[b], appt[b])
               /\ f[b].bay = appt[b].bay \/ b \in unsure'
    <2>1. /\ [appt[b] EXCEPT !.status = "CHECKED_IN", !.linked = TRUE] \in Appointment
          /\ [appt[b] EXCEPT !.status = "CHECKED_IN", !.linked = TRUE].vehicle = appt[b].vehicle
          /\ [appt[b] EXCEPT !.status = "CHECKED_IN", !.linked = TRUE].bay = appt[b].bay
          /\ SameTime([appt[b] EXCEPT !.status = "CHECKED_IN", !.linked = TRUE], appt[b])
      BY <1>1, <1>4, Rewritten, Zenon
    <2> QED
      BY <1>2, <2>1, Zenon
  <1> QED
    BY ZenonT(40), <1>3, <1>4, <1>5, StatementKeeps

\* An appointment is linked to a check-in.
LEMMA LinkCheckInKeeps ==
  ASSUME IInv, NEW s \in Requests, req[s].at = "idle", LinkCheckIn(s)
  PROVE  IInv'
  <1>1. PICK a \in Made :
          /\ Begin(s, Done) /\ UNCHANGED unsure
          /\ appt' = [b \in Appts |->
                        IF b \in {a} THEN [appt[b] EXCEPT !.status = "CHECKED_IN", !.linked = TRUE]
                        ELSE appt[b]]
          /\ revived' = revived \cup
               {b \in {a} : /\ appt[b].status \notin Active
                            /\ [appt[b] EXCEPT !.status = "CHECKED_IN", !.linked = TRUE].status \in Active}
    BY DEF LinkCheckIn, WriteAtOnce
  <1> DEFINE as == {a}
  <1>2. as \in SUBSET Made
    OBVIOUS
  <1>3. /\ Begin(s, Done) /\ UNCHANGED unsure
        /\ appt' = [b \in Appts |->
                      IF b \in as THEN [appt[b] EXCEPT !.status = "CHECKED_IN", !.linked = TRUE]
                      ELSE appt[b]]
        /\ revived' = revived \cup
             {b \in as : /\ appt[b].status \notin Active
                         /\ [appt[b] EXCEPT !.status = "CHECKED_IN", !.linked = TRUE].status \in Active}
    BY <1>1
  <1> HIDE DEF as
  <1> QED
    BY <1>2, <1>3, EnteringKeeps

\* The gate lets the vehicle in.
LEMMA GateEntryKeeps ==
  ASSUME IInv, NEW s \in Requests, req[s].at = "idle", GateEntry(s)
  PROVE  IInv'
  <1> DEFINE Of(v) == {b \in Made : appt[b].vehicle = v /\ appt[b].status \in {"BOOKED", "CONFIRMED"}}
  <1>1. PICK v \in Vehicles :
          /\ Begin(s, Done) /\ UNCHANGED unsure
          /\ appt' = [b \in Appts |->
                        IF b \in Of(v) THEN [appt[b] EXCEPT !.status = "CHECKED_IN", !.linked = TRUE]
                        ELSE appt[b]]
          /\ revived' = revived \cup
               {b \in Of(v) : /\ appt[b].status \notin Active
                              /\ [appt[b] EXCEPT !.status = "CHECKED_IN", !.linked = TRUE].status \in Active}
    BY DEF GateEntry, WriteAtOnce
  <1>2. Of(v) \in SUBSET Made
    OBVIOUS
  <1> HIDE DEF Of
  <1> QED
    BY <1>1, <1>2, EnteringKeeps

\* The gate lets the vehicle out.
LEMMA GateExitKeeps ==
  ASSUME IInv, NEW s \in Requests, req[s].at = "idle", GateExit(s)
  PROVE  IInv'
  <1>1. PICK a \in Made :
          /\ Begin(s, Done) /\ UNCHANGED unsure
          /\ appt' = [b \in Appts |->
                        IF b \in {a} THEN [appt[b] EXCEPT !.status = "COMPLETED"] ELSE appt[b]]
          /\ revived' = revived \cup
               {b \in {a} : /\ appt[b].status \notin Active
                            /\ [appt[b] EXCEPT !.status = "COMPLETED"].status \in Active}
    BY DEF GateExit, WriteAtOnce
  <1> DEFINE f == [b \in Appts |-> [appt[b] EXCEPT !.status = "COMPLETED"]]
             as == {a}
  <1>2. \A b \in as : b \in Appts /\ appt[b] \in Appointment /\ "COMPLETED" \in AppointmentStatus
    BY Rows DEF IInv, AppointmentStatus
  <1>3. \A b \in as : f[b] = [appt[b] EXCEPT !.status = "COMPLETED"]
    BY <1>2
  <1>4. /\ appt' = [b \in Appts |-> IF b \in as THEN f[b] ELSE appt[b]]
        /\ revived' = revived \cup
             {b \in as : appt[b].status \notin Active /\ f[b].status \in Active}
        /\ as \in SUBSET Made
    BY <1>1, <1>2
  <1>5. Begin(s, Done) /\ unsure \subseteq unsure' /\ unsure' \subseteq Appts
    BY <1>1 DEF IInv, TypeOK
  <1> HIDE DEF f, as
  <1>6. ASSUME NEW b \in as
        PROVE  /\ f[b] \in Appointment
               /\ f[b].vehicle = appt[b].vehicle /\ SameTime(f[b], appt[b])
               /\ f[b].bay = appt[b].bay \/ b \in unsure'
    <2>1. /\ [appt[b] EXCEPT !.status = "COMPLETED"] \in Appointment
          /\ [appt[b] EXCEPT !.status = "COMPLETED"].vehicle = appt[b].vehicle
          /\ [appt[b] EXCEPT !.status = "COMPLETED"].bay = appt[b].bay
          /\ SameTime([appt[b] EXCEPT !.status = "COMPLETED"], appt[b])
      BY <1>2, Rewritten, Zenon
    <2> QED
      BY <1>3, <2>1, Zenon
  <1> QED
    BY <1>4, <1>5, <1>6, StatementKeeps

\* The one statement that moves an appointment to a bay, and leaves it unsure.
LEMMA SyncAppointmentBayKeeps ==
  ASSUME IInv, NEW s \in Requests, req[s].at = "idle", SyncAppointmentBay(s)
  PROVE  IInv'
  <1>1. PICK a \in Live : \E bay \in Bays :
          /\ Begin(s, Done) /\ unsure' = unsure \cup {a}
          /\ appt' = [b \in Appts |-> IF b \in {a} THEN [appt[b] EXCEPT !.bay = bay] ELSE appt[b]]
          /\ revived' = revived \cup
               {b \in {a} : appt[b].status \notin Active /\ [appt[b] EXCEPT !.bay = bay].status \in Active}
    BY DEF SyncAppointmentBay, WriteAtOnce
  <1>2. PICK bay \in Bays :
          /\ Begin(s, Done) /\ unsure' = unsure \cup {a}
          /\ appt' = [b \in Appts |-> IF b \in {a} THEN [appt[b] EXCEPT !.bay = bay] ELSE appt[b]]
          /\ revived' = revived \cup
               {b \in {a} : appt[b].status \notin Active /\ [appt[b] EXCEPT !.bay = bay].status \in Active}
    BY <1>1
  <1> DEFINE f == [b \in Appts |-> [appt[b] EXCEPT !.bay = bay]]
             as == {a}
  <1>3. \A b \in as : b \in Made /\ b \in Appts /\ appt[b] \in Appointment
    BY Rows DEF IInv
  <1>4. \A b \in as : f[b] = [appt[b] EXCEPT !.bay = bay]
    BY <1>3
  <1>5. /\ appt' = [b \in Appts |-> IF b \in as THEN f[b] ELSE appt[b]]
        /\ revived' = revived \cup
             {b \in as : appt[b].status \notin Active /\ f[b].status \in Active}
        /\ as \in SUBSET Made
    BY <1>2, <1>3
  <1>6. Begin(s, Done) /\ unsure \subseteq unsure' /\ unsure' \subseteq Appts /\ as \subseteq unsure'
    BY <1>2, <1>3 DEF IInv, TypeOK
  <1> HIDE DEF f, as
  <1>7. ASSUME NEW b \in as
        PROVE  /\ f[b] \in Appointment
               /\ f[b].vehicle = appt[b].vehicle /\ SameTime(f[b], appt[b])
               /\ f[b].bay = appt[b].bay \/ b \in unsure'
    <2>1. appt[b] \in Appointment /\ f[b] = [appt[b] EXCEPT !.bay = bay] /\ b \in unsure'
      BY <1>3, <1>4, <1>6
    <2> QED
      BY <2>1 DEF Appointment, SameTime
  <1> QED
    BY <1>5, <1>6, <1>7, StatementKeeps

-----------------------------------------------------------------------------
(* The invariant.                                                          *)

\* A book to start from is sound, and nobody asks for anything yet.
LEMMA InitKeeps ==
  ASSUME Init
  PROVE  IInv
  <1>1. /\ appt \in [Appts -> Appointment \cup {NoRow}] /\ SoundBook(appt)
        /\ req = [r \in Requests |-> Idle] /\ unsure = {} /\ revived = {}
    BY AppointmentsAssumption DEF Init
  <1>2. \A r \in Requests : req[r] = Idle /\ req[r].at = "idle"
    BY <1>1 DEF Idle
  <1>3. TypeOK
    BY <1>1 DEF TypeOK, Request
  <1>4. InFlight = {}
    BY <1>2 DEF InFlight
  <1>5. AloneUnlessRaced /\ LocksApart
    BY <1>4 DEF AloneUnlessRaced, LocksApart
  <1>6. RequestsSound
    BY <1>2 DEF RequestsSound, CreationSound, TargetSound, UnracedSound
  <1>7. NoDoubleBooking /\ OneOpenAppointment
    BY <1>1 DEF SoundBook, NoDoubleBooking, OneOpenAppointment, Live
  <1>8. SlotsKeepCapacity
    <2>1. SUFFICES ASSUME NEW day \in Days, NEW start \in Starts,
                          Here(Sure, appt, day, start) # {}
                   PROVE  /\ start \in DOMAIN SlotCapacity
                          /\ Cardinality(Here(Sure, appt, day, start)) <= SlotCapacity[start]
      BY <1>3, SlotsAreHere
    <2> DEFINE here == Here(Sure, appt, day, start)
    <2>2. \A b \in here : /\ b \in Appts /\ appt[b].status \in Active /\ appt[b].bay = NoBay
                          /\ appt[b].day = day /\ appt[b].start = start
      BY DEF Here, Sure, Firm, Live
    <2>3. \A b, c \in here : b = c
      BY <1>1, <2>2 DEF SoundBook
    <2>4. PICK a \in here : here = {a}
      BY <2>1, <2>3
    <2>5. Cardinality({a}) = 1
      BY FS_Singleton
    <2>6. Cardinality(here) = 1
      BY <2>4, <2>5, Zenon
    <2>7. start \in DOMAIN SlotCapacity /\ SlotCapacity[start] > 0
      BY <1>1, <2>2, <2>4 DEF SoundBook
    <2> HIDE DEF here
    <2>8. 1 <= SlotCapacity[start]
      BY <2>7, AppointmentsAssumption
    <2> QED
      BY <2>6, <2>7, <2>8 DEF here
  <1> QED
    BY <1>3, <1>5, <1>6, <1>7, <1>8 DEF IInv

\* One step per action.
LEMMA Inductive ==
  ASSUME IInv, [Next]_vars
  PROVE  IInv'
  <1>1. CASE UNCHANGED vars
    <2>1. UNCHANGED <<appt, req, unsure, revived>>
      BY <1>1 DEF vars
    <2>2. Made' = Made /\ Firm' = Firm /\ Sure' = Sure /\ Free' = Free
      BY <2>1, StillMoves
    <2>3. TypeOK'
      BY <2>1 DEF IInv, TypeOK
    <2>4. AloneUnlessRaced' /\ LocksApart'
      BY <2>1 DEF IInv, AloneUnlessRaced, LocksApart, InFlight
    <2>5. RequestsSound'
      BY <2>1, <2>2 DEF IInv, RequestsSound
    <2> QED
      BY <2>1, <2>3, <2>4, <2>5, BookPromises DEF IInv
  <1>2. ASSUME NEW s \in Requests, Continue(s)
        PROVE  IInv'
    <2>1. CASE CreateLockVehicle(s) \/ CreateLockBay(s) \/ CreateCheck(s) \/ CreateInsert(s)
      BY <2>1, CreateLockVehicleKeeps, CreateLockBayKeeps, CreateCheckKeeps, CreateInsertKeeps
    <2>2. CASE RescheduleWrite(s) \/ MoveLock(s) \/ MoveCheck(s) \/ MoveWrite(s) \/ TimeOut(s)
      BY <2>2, RescheduleWriteKeeps, MoveLockKeeps, MoveCheckKeeps, MoveWriteKeeps, TimeOutKeeps
    <2> QED
      BY <1>2, <2>1, <2>2 DEF Continue
  <1>3. ASSUME NEW s \in Requests, Start(s)
        PROVE  IInv'
    <2>1. req[s].at = "idle"
      BY <1>3 DEF Start
    <2>2. CASE CreateBegin(s) \/ RescheduleRead(s) \/ MoveRead(s)
      BY <2>1, <2>2, CreateBeginKeeps, RescheduleReadKeeps, MoveReadKeeps
    <2>3. CASE \/ SetStatus(s) \/ LinkCheckIn(s) \/ GateEntry(s) \/ GateExit(s)
               \/ SyncAppointmentBay(s)
      BY <2>1, <2>3, SetStatusKeeps, LinkCheckInKeeps, GateEntryKeeps, GateExitKeeps,
         SyncAppointmentBayKeeps
    <2> QED
      BY <1>3, <2>2, <2>3 DEF Start
  <1> QED
    BY <1>1, <1>2, <1>3 DEF Next, Progress

\* The invariant holds throughout.
LEMMA Invariant == Spec => []IInv
  <1>1. Init => IInv
    BY InitKeeps
  <1>2. IInv /\ [Next]_vars => IInv'
    BY Inductive
  <1> QED
    BY <1>1, <1>2, PTL DEF Spec

-----------------------------------------------------------------------------
(* What it gives.                                                          *)

\* The book, and what every request asks for and has read, keep their types.
THEOREM BookTypes == Spec => []TypeOK
  <1>1. IInv => TypeOK
    BY DEF IInv
  <1> QED
    BY <1>1, Invariant, PTL

\* Creations and foreman's moves never double-book a bay, in whatever order they come and however
\* many wait for a connection: an overlap has an appointment placed without the bay's lock while
\* something else went on, or reopened (createAppointment and reallocateAppointmentBay check under
\* the advisory lock of the bay and the day).
THEOREM BaysAreNotDoubled == Spec => []NoDoubleBooking
  <1>1. IInv => NoDoubleBooking
    BY DEF IInv
  <1> QED
    BY <1>1, Invariant, PTL

\* A vehicle has two open appointments only when one was reopened (createAppointment looks for the
\* vehicle's other appointments under the vehicle's lock).
THEOREM VehiclesComeOnce == Spec => []OneOpenAppointment
  <1>1. IInv => OneOpenAppointment
    BY DEF IInv
  <1> QED
    BY <1>1, Invariant, PTL

\* Bookings without a bay exceed their slot's capacity only when one of them was placed while
\* something else went on, or reopened (assertSlotAvailable counts under no lock).
THEOREM SlotsAreKept == Spec => []SlotsKeepCapacity
  <1>1. IInv => SlotsKeepCapacity
    BY DEF IInv
  <1> QED
    BY <1>1, Invariant, PTL
=============================================================================
