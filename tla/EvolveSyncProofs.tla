-------------------------- MODULE EvolveSyncProofs --------------------------
(***************************************************************************)
(* Proofs about EvolveSync, for any number of calls, sweeps, attempts and  *)
(* ROs, in every mode of the gates.                                        *)
(*                                                                         *)
(* The argument: unless calls overlapped or a message strayed, one call at *)
(* most is in flight.  If Evolve has an RO of the card that the card does  *)
(* not know, an attempt is on record, so that the next call asks first; or *)
(* the call in flight is the one that is about to record it.               *)
(*                                                                         *)
(* The other parts are about EvolveCustomers and about messages to Evolve. *)
(***************************************************************************)
EXTENDS EvolveSync, EvolveCustomers, FiniteSetTheorems, TLAPS

\* What q may write to is the card's own RO, and the card knows of it when q updates it.
OwnRo(q, c, ours) ==
  /\ q.at = "adopt" => q.ro \in ours
  /\ q.at = "labour" => q.ro \in ours /\ c.ro # NoRo
  /\ q.at \in {"sent", "done"} => q.ro = NoRo \/ (q.ro \in ours /\ c.ro # NoRo)
  /\ q.at = "done" /\ q.ro = NoRo => q.got \in ours

CallsOwn == \A r \in Callers : OwnRo(call[r], card, Ours)

\* A sweep in flight holds the lock.
SweepsLock == \A r \in Sweepers : call[r].at # "idle" => sweeping = r

\* Neither calls overlapped nor has a message been left behind.
Calm == ~({"ro", "contents"} \subseteq marred)

AloneWhenCalm == Calm => late = {} /\ \A r, s \in InFlight : r = s

\* The call q is about to put an attempt on record.
Records(q) ==
  \/ q.at = "done" /\ q.ro = NoRo
  \/ q.at = "park" /\ q.status = "FAILED" /\ q.attempts = 0

\* What is true of the only call q in flight, or of none: whether an RO has been made, and
\* where that may have gone unnoticed.
Made(q, c, ours) ==
  /\ \A m, n \in ours : m = n
  /\ q.at \in {"ref", "ready"} /\ q.attempts = 0 => ours = {}
  /\ q.at = "unmade" => ours = {}
  /\ q.at = "sent" /\ q.ro = NoRo => ours = {}
  /\ ours # {} /\ c.ro = NoRo /\ c.attempts = 0 => Records(q)

\* What is true of it as to the contents: a message has the change its card was last fired for, or
\* something later, and Evolve has that when the call is done.
Carried(q, c, rs) ==
  /\ q.at = "create" => c.ro = NoRo
  /\ q.at = "labour" => c.ro = q.ro
  /\ q.at \in {"sent", "done"} => q.data \in c.told .. c.data /\ (q.ro # NoRo => c.ro = q.ro)
  /\ q.at = "done" => rs[IF q.ro = NoRo THEN q.got ELSE q.ro].data = q.data
  /\ q.at = "idle" /\ c.status = "SYNCED" => c.ro \in DOMAIN rs /\ rs[c.ro].data \in c.told .. c.data

Only(r) == InFlight \subseteq {r}

RoInv == "ro" \notin marred => \A r \in Callers : Only(r) => Made(call[r], card, Ours)

ContentsInv == "contents" \notin marred => \A r \in Callers : Only(r) => Carried(call[r], card, ros)

IInv ==
  /\ TypeOK
  /\ NumberIsOurs
  /\ CallsOwn
  /\ SweepsLock
  /\ AloneWhenCalm
  /\ RoInv
  /\ ContentsInv

-----------------------------------------------------------------------------
(* Types, and what a message does to Evolve's ROs.                         *)

\* Numbers of callers are not the number that says nobody.
LEMMA CallerNumbers ==
  ASSUME NEW r \in Callers
  PROVE  r # NoSweeper
  BY SyncAssumption DEF NoSweeper

\* A caller whose call becomes q.
LEMMA CallTypes ==
  ASSUME TypeOK, NEW r \in Callers, NEW q \in Call, call' = [call EXCEPT ![r] = q]
  PROVE  /\ call' \in [Callers -> Call] /\ call'[r] = q
         /\ \A s \in Callers : s # r => call'[s] = call[s]
  BY DEF TypeOK

\* The ROs of the card are among the ROs, and these have numbers.
LEMMA OursTypes ==
  ASSUME TypeOK
  PROVE  /\ DOMAIN ros = 1 .. Len(ros) /\ Ours \subseteq DOMAIN ros
         /\ \A n \in DOMAIN ros : n \in 1 .. MaxRos /\ n # NoRo
         /\ Len(ros) \in Nat
  BY SyncAssumption DEF TypeOK, Ours, NoRo

\* A message without a number makes one more RO, ours, with its contents.
LEMMA MakesRo ==
  ASSUME TypeOK, NEW m, m.ro = NoRo, m.data \in Nat, CarryOut(m)
  PROVE  /\ ros' \in Seq(Ro) /\ Len(ros') <= MaxRos
         /\ Len(ros) + 1 \in 1 .. MaxRos
         /\ Ours' = Ours \cup {Len(ros) + 1}
         /\ DOMAIN ros \subseteq DOMAIN ros'
         /\ ros'[Len(ros) + 1].data = m.data
  <1> DEFINE new == [ours |-> TRUE, data |-> m.data]
  <1>1. new \in Ro /\ new.ours = TRUE /\ new.data = m.data
    BY DEF Ro
  <1>2. Len(ros) < MaxRos /\ ros' = Append(ros, new)
    BY DEF CarryOut
  <1> HIDE DEF new
  <1>3. ros \in Seq(Ro) /\ Len(ros) \in Nat /\ MaxRos \in Nat
    BY SyncAssumption DEF TypeOK
  <1>4. /\ ros' \in Seq(Ro) /\ Len(ros') = Len(ros) + 1
        /\ \A i \in 1 .. Len(ros) : ros'[i] = ros[i]
        /\ ros'[Len(ros) + 1] = new
    BY <1>1, <1>2, <1>3
  <1>5. DOMAIN ros = 1 .. Len(ros) /\ DOMAIN ros' = 1 .. Len(ros) + 1
    BY <1>3, <1>4
  <1>6. Ours' = Ours \cup {Len(ros) + 1}
    BY <1>1, <1>3, <1>4, <1>5 DEF Ours
  <1> QED
    BY <1>1, <1>2, <1>3, <1>4, <1>5, <1>6

\* A message with the number of an RO gives that one its contents.
LEMMA WritesRo ==
  ASSUME TypeOK, NEW m, m.ro # NoRo, m.ro \in DOMAIN ros, m.data \in Nat, CarryOut(m)
  PROVE  /\ ros' \in Seq(Ro) /\ Len(ros') <= MaxRos
         /\ Ours' = Ours
         /\ DOMAIN ros' = DOMAIN ros
         /\ ros'[m.ro].data = m.data
  <1> DEFINE new == [ros[m.ro] EXCEPT !.data = m.data]
  <1>1. ros \in Seq(Ro) /\ Len(ros) <= MaxRos
    BY DEF TypeOK
  <1>2. new \in Ro /\ new.ours = ros[m.ro].ours /\ new.data = m.data
    <2>1. ros[m.ro] \in Ro
      BY <1>1
    <2> QED
      BY <2>1 DEF Ro
  <1>3. ros' = [ros EXCEPT ![m.ro] = new]
    BY DEF CarryOut
  <1> HIDE DEF new
  <1>4. /\ ros' \in Seq(Ro) /\ Len(ros') = Len(ros) /\ DOMAIN ros' = DOMAIN ros
        /\ ros'[m.ro] = new
        /\ \A i \in DOMAIN ros : i # m.ro => ros'[i] = ros[i]
    BY <1>1, <1>2, <1>3
  <1>5. Ours' = Ours
    BY <1>2, <1>4 DEF Ours
  <1> QED
    BY <1>1, <1>2, <1>4, <1>5

-----------------------------------------------------------------------------
(* What every step of a call has in common.                                *)

\* The calls that do not move own what they owned, as ROs and the card's number only come to be.
LEMMA OwnsOn ==
  ASSUME NEW q, NEW c, NEW d, NEW ours, NEW more,
         OwnRo(q, c, ours), ours \subseteq more, c.ro # NoRo => d.ro # NoRo
  PROVE  OwnRo(q, d, more)
  BY DEF OwnRo

\* While calm, a call in flight is the only one.
LEMMA Alone ==
  ASSUME IInv, NEW r \in Callers, call[r].at # "idle", Calm
  PROVE  Only(r)
  BY DEF IInv, AloneWhenCalm, InFlight, Only

\* A call that is not in flight says no more than that.
LEMMA IdleMade ==
  ASSUME NEW p, NEW q, NEW c, NEW ours, p.at = "idle", q.at = "idle", Made(p, c, ours)
  PROVE  Made(q, c, ours)
  BY DEF Made, Records

\* What is said of a call that is over does not tell it from another one.
LEMMA IdleCarried ==
  ASSUME NEW p, NEW q, NEW c, NEW rs, p.at = "idle", q.at = "idle", Carried(p, c, rs)
  PROVE  Carried(q, c, rs)
  BY DEF Carried

\* The lock is kept, or let go of at the end of a call.
LocksAfter(r, q) ==
  \/ sweeping' = sweeping
  \/ q.at = "idle" /\ sweeping' = IF sweeping = r THEN NoSweeper ELSE sweeping

\* A step of a call in flight keeps the invariant if it keeps what the invariant says of that call.
LEMMA StepKeeps ==
  ASSUME IInv, TypeOK', NumberIsOurs',
         NEW r \in Callers, NEW q \in Call, call[r].at # "idle",
         call' = [call EXCEPT ![r] = q], LocksAfter(r, q),
         marred \subseteq marred', Calm' => late' \subseteq late,
         Ours \subseteq Ours', card.ro # NoRo => card'.ro # NoRo,
         OwnRo(q, card', Ours'),
         "ro" \notin marred' /\ Made(call[r], card, Ours) => Made(q, card', Ours'),
         "contents" \notin marred' /\ Carried(call[r], card, ros) => Carried(q, card', ros')
  PROVE  IInv'
  <1>1. /\ call'[r] = q
        /\ \A s \in Callers : s # r => call'[s] = call[s]
    BY CallTypes DEF IInv
  <1>2. CallsOwn'
    <2>1. SUFFICES ASSUME NEW s \in Callers
                   PROVE  OwnRo(call'[s], card', Ours')
      BY DEF CallsOwn
    <2>2. CASE s = r
      BY <1>1, <2>2
    <2>3. CASE s # r
      <3>1. OwnRo(call[s], card, Ours)
        BY DEF IInv, CallsOwn
      <3>2. OwnRo(call[s], card', Ours')
        BY <3>1, OwnsOn
      <3> QED
        BY <1>1, <2>3, <3>2
    <2> QED
      BY <2>2, <2>3
  <1>3. SweepsLock'
    BY <1>1, CallerNumbers DEF IInv, SweepsLock, LocksAfter, Callers
  <1>4. Calm' => Calm
    BY DEF Calm
  <1>5. InFlight' \subseteq InFlight
    BY <1>1 DEF InFlight
  <1>6. AloneWhenCalm'
    BY <1>4, <1>5 DEF IInv, AloneWhenCalm
  <1>7. ASSUME NEW s \in Callers, Only(s)', Calm
        PROVE  s = r \/ (q.at = "idle" /\ call'[s].at = "idle")
    <2>1. CASE call'[s].at = "idle"
      BY <1>1, <1>7, <2>1 DEF Only, InFlight
    <2>2. CASE call'[s].at # "idle"
      <3>1. s \in InFlight /\ r \in InFlight
        BY <1>5, <2>2 DEF InFlight
      <3> QED
        BY <1>7, <3>1 DEF IInv, AloneWhenCalm
    <2> QED
      BY <2>1, <2>2
  <1>8. RoInv'
    <2>1. SUFFICES ASSUME "ro" \notin marred', NEW s \in Callers, Only(s)'
                   PROVE  Made(call'[s], card', Ours')
      BY DEF RoInv
    <2>2. Calm /\ "ro" \notin marred
      BY <2>1 DEF Calm
    <2>3. Only(r)
      BY <2>2, Alone
    <2>4. Made(q, card', Ours')
      BY <2>1, <2>2, <2>3 DEF IInv, RoInv
    <2> QED
      BY <1>1, <1>7, <2>1, <2>2, <2>4, IdleMade
  <1>9. ContentsInv'
    <2>1. SUFFICES ASSUME "contents" \notin marred', NEW s \in Callers, Only(s)'
                   PROVE  Carried(call'[s], card', ros')
      BY DEF ContentsInv
    <2>2. Calm /\ "contents" \notin marred
      BY <2>1 DEF Calm
    <2>3. Only(r)
      BY <2>2, Alone
    <2>4. Carried(q, card', ros')
      BY <2>1, <2>2, <2>3 DEF IInv, ContentsInv
    <2> QED
      BY <1>1, <1>7, <2>1, <2>2, <2>4, IdleCarried
  <1> QED
    BY <1>2, <1>3, <1>6, <1>8, <1>9 DEF IInv

\* A call that starts alone finds what the idle have left; one that does not is marred.
LEMMA StartKeeps ==
  ASSUME IInv, TypeOK', NEW r \in Callers, NEW q \in Call,
         q.at \in {"create", "update"}, q.at = "create" => card'.ro = NoRo,
         call' = [call EXCEPT ![r] = q], SweepsLock',
         card'.ro = card.ro, card'.attempts = card.attempts,
         UNCHANGED <<ros, late>>,
         \/ InFlight = {} /\ marred' = marred
         \/ {"ro", "contents"} \subseteq marred'
  PROVE  IInv'
  <1>1. /\ call'[r] = q
        /\ \A s \in Callers : s # r => call'[s] = call[s]
    BY CallTypes DEF IInv
  <1>2. Ours' = Ours
    BY DEF Ours
  <1>3. NumberIsOurs'
    BY <1>2 DEF IInv, NumberIsOurs
  <1>4. CallsOwn'
    <2>1. SUFFICES ASSUME NEW s \in Callers
                   PROVE  OwnRo(call'[s], card', Ours')
      BY DEF CallsOwn
    <2>2. CASE s = r
      BY <1>1, <2>2 DEF OwnRo
    <2>3. CASE s # r
      <3>1. OwnRo(call[s], card, Ours)
        BY DEF IInv, CallsOwn
      <3>2. OwnRo(call[s], card', Ours')
        BY <1>2, <3>1, OwnsOn
      <3> QED
        BY <1>1, <2>3, <3>2
    <2> QED
      BY <2>2, <2>3
  <1>5. CASE {"ro", "contents"} \subseteq marred'
    <2>1. ~Calm' /\ "ro" \in marred' /\ "contents" \in marred'
      BY <1>5 DEF Calm
    <2> QED
      BY <1>3, <1>4, <2>1 DEF IInv, AloneWhenCalm, RoInv, ContentsInv
  <1>6. CASE InFlight = {} /\ marred' = marred
    <2>1. InFlight' = {r}
      BY <1>1, <1>6 DEF InFlight
    <2>2. AloneWhenCalm'
      BY <1>6, <2>1 DEF IInv, AloneWhenCalm, Calm
    <2>3. Only(r) /\ call[r].at = "idle"
      BY <1>6 DEF Only, InFlight
    <2>4. RoInv'
      <3>1. SUFFICES ASSUME "ro" \notin marred
                     PROVE  Made(q, card', Ours')
        BY <1>1, <1>6, <2>1 DEF RoInv, Only
      <3>2. Made(call[r], card, Ours)
        BY <2>3, <3>1 DEF IInv, RoInv
      <3> QED
        BY <1>2, <2>3, <3>2 DEF Made, Records
    <2>5. ContentsInv'
      <3>1. Carried(q, card', ros')
        BY DEF Carried
      <3> QED
        BY <1>1, <2>1, <3>1 DEF ContentsInv, Only
    <2> QED
      BY <1>3, <1>4, <2>2, <2>4, <2>5 DEF IInv
  <1> QED
    BY <1>5, <1>6

\* A step that ends the call and leaves Evolve alone.
LEMMA EndKeeps ==
  ASSUME IInv, NEW r \in Callers, call[r].at # "idle", EndOf(r),
         UNCHANGED <<ros, late, customer>>,
         card' \in Card, card'.ro = card.ro \/ card'.ro \in Ours,
         marred \subseteq marred', marred' \subseteq {"ro", "contents", "fault"},
         "ro" \notin marred' /\ Made(call[r], card, Ours) => Made(NoCall, card', Ours),
         "contents" \notin marred' /\ Carried(call[r], card, ros) => Carried(NoCall, card', ros)
  PROVE  IInv'
  <1>1. NoCall \in Call /\ NoCall.at = "idle"
    BY DEF NoCall, Call
  <1>2. call' = [call EXCEPT ![r] = NoCall] /\ LocksAfter(r, NoCall)
    BY <1>1 DEF EndOf, LocksAfter
  <1>3. TypeOK'
    <2>1. sweeping' \in Sweepers \cup {NoSweeper}
      BY <1>1, <1>2 DEF IInv, TypeOK, LocksAfter
    <2> QED
      BY <1>1, <1>2, <2>1, CallTypes DEF IInv, TypeOK, Card
  <1>4. Ours' = Ours
    BY DEF Ours
  <1>5. NumberIsOurs' /\ (card.ro # NoRo => card'.ro # NoRo)
    BY <1>4, OursTypes DEF IInv, NumberIsOurs
  <1>6. OwnRo(NoCall, card', Ours')
    BY <1>1 DEF OwnRo
  <1> HIDE DEF NoCall
  <1> QED
    BY <1>1, <1>2, <1>3, <1>4, <1>5, <1>6, StepKeeps

\* A step that turns the call into q, and leaves Evolve, the lock and what is marred alone.
LEMMA GoKeeps ==
  ASSUME IInv, NEW r \in Callers, call[r].at # "idle",
         NEW q \in Call, call' = [call EXCEPT ![r] = q],
         UNCHANGED <<ros, late, sweeping, marred, customer>>,
         card' \in Card, card'.ro = card.ro \/ card'.ro \in Ours,
         OwnRo(q, card', Ours),
         "ro" \notin marred /\ Made(call[r], card, Ours) => Made(q, card', Ours),
         "contents" \notin marred /\ Carried(call[r], card, ros) => Carried(q, card', ros)
  PROVE  IInv'
  <1>1. TypeOK'
    BY CallTypes DEF IInv, TypeOK, Card
  <1>2. Ours' = Ours
    BY DEF Ours
  <1>3. NumberIsOurs' /\ (card.ro # NoRo => card'.ro # NoRo)
    BY <1>2, OursTypes DEF IInv, NumberIsOurs
  <1>4. LocksAfter(r, q)
    BY DEF LocksAfter
  <1> QED
    BY <1>1, <1>2, <1>3, <1>4, StepKeeps

-----------------------------------------------------------------------------
(* The steps of a call.                                                    *)

\* A card that is parked has an attempt on record.
LEMMA ParkNowKeeps ==
  ASSUME IInv, NEW r \in Callers, call[r].at # "idle", call[r].attempts \in Nat,
         NEW status \in {"DEFERRED", "FAILED"}, ParkNow(r, status),
         UNCHANGED <<ros, late, marred, customer>>
  PROVE  IInv'
  <1>1. /\ card \in Card /\ card' \in Card
        /\ card'.ro = card.ro /\ card'.attempts # 0 /\ card'.status # "SYNCED"
    <2>1. card \in Card /\ call[r].attempts + 1 \in Nat \ {0}
      BY DEF IInv, TypeOK, Card
    <2>2. PICK st \in {status, "NEEDS_MANUAL"} :
            card' = [card EXCEPT !.status = st, !.attempts = call[r].attempts + 1]
      BY DEF ParkNow, Parked
    <2>3. st \in SyncStatus /\ st # "SYNCED"
      BY DEF SyncStatus
    <2> QED
      BY <2>1, <2>2, <2>3 DEF Card
  <1>2. EndOf(r)
    BY DEF ParkNow
  <1>3. marred' = marred /\ marred \subseteq {"ro", "contents", "fault"}
    BY DEF IInv, TypeOK
  <1>4. Made(call[r], card, Ours) => Made(NoCall, card', Ours)
    BY <1>1 DEF Made, NoCall
  <1>5. Carried(NoCall, card', ros)
    BY <1>1 DEF Carried, NoCall
  <1> QED
    BY <1>1, <1>2, <1>3, <1>4, <1>5, EndKeeps

\* The card is parked until someone supplies what it lacks.
LEMMA ParkKeeps ==
  ASSUME IInv, NEW r \in Callers, Park(r)
  PROVE  IInv'
  <1>1. call[r].at = "park" /\ call[r] \in Call
    BY DEF Park, IInv, TypeOK
  <1>2. call[r].status \in {"DEFERRED", "FAILED"} /\ call[r].attempts \in Nat
    BY <1>1 DEF Call
  <1> QED
    BY <1>1, <1>2, ParkNowKeeps DEF Park

\* An UPDATE without all its labour is parked.
LEMMA ParkLabourKeeps ==
  ASSUME IInv, NEW r \in Callers, ParkLabour(r)
  PROVE  IInv'
  <1>1. call[r].at = "labour" /\ call[r] \in Call
    BY DEF ParkLabour, IInv, TypeOK
  <1>2. call[r].attempts \in Nat
    BY <1>1 DEF Call
  <1> QED
    BY <1>1, <1>2, ParkNowKeeps DEF ParkLabour

\* Evolve refuses the message.
LEMMA RefuseKeeps ==
  ASSUME IInv, NEW r \in Callers, Refuse(r)
  PROVE  IInv'
  <1>1. call[r].at \in {"sent", "done"} /\ call[r] \in Call
    BY DEF Refuse, IInv, TypeOK
  <1>2. call[r].attempts \in Nat
    BY <1>1 DEF Call
  <1> QED
    BY <1>1, <1>2, ParkNowKeeps DEF Refuse

\* The card is parked for a person.
LEMMA ParkManualKeeps ==
  ASSUME IInv, NEW r \in Callers, ParkManual(r)
  PROVE  IInv'
  <1>1. /\ card \in Card /\ card' \in Card /\ call[r].at = "manual"
        /\ card'.ro = card.ro /\ card'.attempts = card.attempts /\ card'.status # "SYNCED"
    BY DEF IInv, TypeOK, Card, SyncStatus, ParkManual
  <1>2. EndOf(r) /\ UNCHANGED <<ros, late, marred, customer>>
    BY DEF ParkManual
  <1>3. marred' = marred /\ marred \subseteq {"ro", "contents", "fault"}
    BY <1>2 DEF IInv, TypeOK
  <1>4. Made(call[r], card, Ours) => Made(NoCall, card', Ours)
    BY <1>1 DEF Made, NoCall, Records
  <1>5. Carried(NoCall, card', ros)
    BY <1>1 DEF Carried, NoCall
  <1> QED
    BY <1>1, <1>2, <1>3, <1>4, <1>5, EndKeeps

\* The card is put off to the next sweep.
LEMMA ParkSoftKeeps ==
  ASSUME IInv, NEW r \in Callers, ParkSoft(r)
  PROVE  IInv'
  <1>1. /\ card \in Card /\ card' \in Card /\ call[r].at \in {"ready", "unmade"}
        /\ card'.ro = card.ro /\ card'.attempts = card.attempts /\ card'.status # "SYNCED"
    BY DEF IInv, TypeOK, Card, SyncStatus, ParkSoft, ToBeMade
  <1>2. EndOf(r) /\ UNCHANGED <<ros, late, marred, customer>>
    BY DEF ParkSoft
  <1>3. marred' = marred /\ marred \subseteq {"ro", "contents", "fault"}
    BY <1>2 DEF IInv, TypeOK
  <1>4. Made(call[r], card, Ours) => Made(NoCall, card', Ours)
    BY <1>1 DEF Made, NoCall, Records
  <1>5. Carried(NoCall, card', ros)
    BY <1>1 DEF Carried, NoCall
  <1> QED
    BY <1>1, <1>2, <1>3, <1>4, <1>5, EndKeeps

\* The card's number is one of its ROs, and Evolve has what the message carried.
LEMMA SaveKeeps ==
  ASSUME IInv, NEW r \in Callers, Save(r)
  PROVE  IInv'
  <1>1. call[r].at = "done" /\ call[r] \in Call /\ OwnRo(call[r], card, Ours)
    BY DEF Save, IInv, TypeOK, CallsOwn
  <1>2. call[r].ro \in Nat /\ call[r].got \in Nat
    BY <1>1 DEF Call
  <1> DEFINE number == IF call[r].ro = NoRo THEN call[r].got ELSE card.ro
  <1>3. number \in Ours /\ number # NoRo /\ number \in 0 .. MaxRos
    BY <1>1, OursTypes DEF OwnRo, IInv, NumberIsOurs, NoRo
  <1>4. /\ card \in Card /\ card' \in Card
        /\ card'.ro = number /\ card'.data = card.data /\ card'.told = card.told
    BY <1>3 DEF IInv, TypeOK, Card, SyncStatus, Save
  <1>5. EndOf(r) /\ UNCHANGED <<ros, late, marred, customer>>
    BY DEF Save
  <1>6. marred' = marred /\ marred \subseteq {"ro", "contents", "fault"}
    BY <1>5 DEF IInv, TypeOK
  <1>7. Made(call[r], card, Ours) => Made(NoCall, card', Ours)
    BY <1>3, <1>4 DEF Made, NoCall
  <1>8. Carried(call[r], card, ros) => Carried(NoCall, card', ros)
    BY <1>1, <1>3, <1>4, OursTypes DEF Carried, NoCall, IInv
  <1> HIDE DEF number
  <1> QED
    BY <1>1, <1>3, <1>4, <1>5, <1>6, <1>7, <1>8, EndKeeps

\* What a verdict makes of a call.
LEMMA Verdicts ==
  ASSUME IInv, NEW r \in Callers, NEW goOn \in Call, NEW verdict \in {"go", "defer", "manual"},
         Verdict(r, verdict, goOn)
  PROVE  \E q \in Call :
           /\ call' = [call EXCEPT ![r] = q]
           /\ q = goOn \/ q.at = "manual" \/ (q.at = "park" /\ q.status = "DEFERRED")
  <1>1. card.attempts \in Nat
    BY DEF IInv, TypeOK, Card
  <1>2. /\ Parking("DEFERRED") \in Call
        /\ Parking("DEFERRED").at = "park" /\ Parking("DEFERRED").status = "DEFERRED"
    BY <1>1 DEF Parking, Call
  <1> DEFINE manual == [at |-> "manual"]
  <1>3. manual \in Call /\ manual.at = "manual"
    BY DEF Call
  <1>4. \/ call' = [call EXCEPT ![r] = goOn]
        \/ call' = [call EXCEPT ![r] = Parking("DEFERRED")]
        \/ call' = [call EXCEPT ![r] = manual]
    BY DEF Verdict, Do
  <1> HIDE DEF manual
  <1> QED
    BY <1>2, <1>3, <1>4

\* A card that is parked before anything is sent says no more of the call than before.
LEMMA WaitsMade ==
  ASSUME NEW p, NEW q, NEW c, NEW ours, Made(p, c, ours), ~Records(p),
         q.at = "manual" \/ (q.at = "park" /\ q.status = "DEFERRED")
  PROVE  Made(q, c, ours)
  BY DEF Made

\* A CREATE reads the card.
LEMMA LoadForCreateKeeps ==
  ASSUME IInv, NEW r \in Callers, LoadForCreate(r)
  PROVE  IInv'
  <1>1. /\ card \in Card /\ call[r].at = "create"
        /\ card.attempts \in Nat /\ card.ref \in BOOLEAN
        /\ UNCHANGED <<card, ros, late, marred, customer>>
    BY DEF IInv, TypeOK, Card, LoadForCreate
  <1>2. CASE card.ro # NoRo
    <2>1. EndOf(r)
      BY <1>2 DEF LoadForCreate
    <2>2. marred' = marred /\ marred \subseteq {"ro", "contents", "fault"}
      BY <1>1 DEF IInv, TypeOK
    <2>3. Made(call[r], card, Ours) => Made(NoCall, card', Ours)
      BY <1>1, <1>2 DEF Made, NoCall
    <2>4. ~Carried(call[r], card, ros)
      BY <1>1, <1>2 DEF Carried
    <2> QED
      BY <1>1, <2>1, <2>2, <2>3, <2>4, EndKeeps
  <1>3. CASE card.ro = NoRo
    <2> DEFINE blank == Blank(card.gap)
               at == IF card.ref THEN "ready" ELSE "ref"
               goOn == [at |-> at, attempts |-> card.attempts, blank |-> blank]
    <2>1. blank \in BOOLEAN
      BY DEF Blank
    <2>2. Verdict(r, CreateVerdict, goOn) /\ UNCHANGED sweeping
      BY <1>3 DEF LoadForCreate
    <2>3. CreateVerdict \in {"go", "defer", "manual"}
      BY DEF CreateVerdict, GapVerdict
    <2> HIDE DEF blank
    <2>4. goOn \in Call /\ goOn.at \in {"ref", "ready"} /\ goOn.attempts = card.attempts
      BY <1>1, <2>1 DEF Call
    <2> HIDE DEF goOn
    <2>5. PICK q \in Call :
            /\ call' = [call EXCEPT ![r] = q]
            /\ q = goOn \/ q.at = "manual" \/ (q.at = "park" /\ q.status = "DEFERRED")
      BY <2>2, <2>3, <2>4, Verdicts
    <2>6. OwnRo(q, card', Ours)
      BY <2>4, <2>5 DEF OwnRo
    <2>7. Made(call[r], card, Ours) => Made(q, card', Ours)
      <3>1. ~Records(call[r])
        BY <1>1 DEF Records
      <3>2. Made(call[r], card, Ours) => Made(goOn, card, Ours)
        BY <1>1, <1>3, <2>4, <3>1 DEF Made
      <3> QED
        BY <1>1, <2>5, <3>1, <3>2, WaitsMade
    <2>8. Carried(q, card', ros)
      BY <2>4, <2>5 DEF Carried
    <2> QED
      BY <1>1, <2>2, <2>5, <2>6, <2>7, <2>8, GoKeeps
  <1> QED
    BY <1>2, <1>3

\* A CREATE gives the card its reference.
LEMMA KeepRefKeeps ==
  ASSUME IInv, NEW r \in Callers, KeepRef(r)
  PROVE  IInv'
  <1>1. call[r].at = "ref" /\ call[r] \in Call
    BY DEF KeepRef, IInv, TypeOK
  <1> DEFINE Found == [at : {"ref", "ready", "unmade"}, attempts : Nat, blank : BOOLEAN]
             q == [call[r] EXCEPT !.at = "ready"]
  <1>2. call[r] \in Found
    BY <1>1 DEF Call
  <1>3. q \in Found /\ q.at = "ready" /\ q.attempts = call[r].attempts
    BY <1>2
  <1>4. q \in Call
    BY <1>3 DEF Call
  <1>5. call' = [call EXCEPT ![r] = q]
    BY DEF KeepRef, Goto
  <1> HIDE DEF q
  <1>6. /\ card' \in Card /\ card'.ro = card.ro /\ card'.attempts = card.attempts
        /\ UNCHANGED <<ros, late, sweeping, marred, customer>>
    BY DEF IInv, TypeOK, Card, SyncStatus, KeepRef
  <1>7. OwnRo(q, card', Ours) /\ Carried(q, card', ros)
    BY <1>3 DEF OwnRo, Carried
  <1>8. Made(call[r], card, Ours) => Made(q, card', Ours)
    BY <1>1, <1>3, <1>6 DEF Made, Records
  <1> QED
    BY <1>1, <1>4, <1>5, <1>6, <1>7, <1>8, GoKeeps

\* Who asks, finds the card's own RO, or knows that there is none.
LEMMA LookUpKeeps ==
  ASSUME IInv, NEW r \in Callers, LookUp(r)
  PROVE  IInv'
  <1>1. /\ call[r].at = "ready" /\ call[r] \in Call
        /\ UNCHANGED <<ros, late, marred, customer>>
    BY DEF LookUp, IInv, TypeOK
  <1> DEFINE Found == [at : {"ref", "ready", "unmade"}, attempts : Nat, blank : BOOLEAN]
  <1>2. call[r] \in Found
    BY <1>1 DEF Call
  <1>3. CASE ParkNow(r, "DEFERRED")
    BY <1>1, <1>2, <1>3, ParkNowKeeps
  <1>4. ASSUME NEW n \in Ours, Do(r, [at |-> "adopt", ro |-> n]), UNCHANGED <<card, sweeping>>
        PROVE  IInv'
    <2> DEFINE q == [at |-> "adopt", ro |-> n]
    <2>1. n \in Nat
      BY OursTypes DEF IInv
    <2>2. q \in Call /\ q.at = "adopt" /\ q.ro = n
      BY <2>1 DEF Call
    <2>3. call' = [call EXCEPT ![r] = q]
      BY <1>4 DEF Do
    <2> HIDE DEF q
    <2>4. card' = card /\ card \in Card
      BY <1>4 DEF IInv, TypeOK, Card
    <2>5. OwnRo(q, card', Ours) /\ Carried(q, card', ros)
      BY <2>2 DEF OwnRo, Carried
    <2>6. Made(call[r], card, Ours) => Made(q, card', Ours)
      BY <1>1, <2>2, <2>4 DEF Made, Records
    <2> QED
      BY <1>1, <1>4, <2>2, <2>3, <2>4, <2>5, <2>6, GoKeeps
  <1>5. CASE Ours = {} /\ Goto(r, "unmade") /\ UNCHANGED <<card, sweeping>>
    <2> DEFINE q == [call[r] EXCEPT !.at = "unmade"]
    <2>1. q \in Found /\ q.at = "unmade"
      BY <1>2
    <2>2. q \in Call
      BY <2>1 DEF Call
    <2>3. call' = [call EXCEPT ![r] = q]
      BY <1>5 DEF Goto
    <2> HIDE DEF q
    <2>4. card' = card /\ card \in Card
      BY <1>5 DEF IInv, TypeOK, Card
    <2>5. OwnRo(q, card', Ours) /\ Carried(q, card', ros)
      BY <2>1 DEF OwnRo, Carried
    <2>6. Made(q, card', Ours)
      BY <1>5, <2>1 DEF Made
    <2> QED
      BY <1>1, <1>5, <2>2, <2>3, <2>4, <2>5, <2>6, GoKeeps
  <1> QED
    BY <1>3, <1>4, <1>5 DEF LookUp, Adoptable

\* The card is tied to the RO that the look-up found.
LEMMA AdoptKeeps ==
  ASSUME IInv, NEW r \in Callers, Adopt(r)
  PROVE  IInv'
  <1>1. call[r].at = "adopt" /\ OwnRo(call[r], card, Ours)
    BY DEF Adopt, IInv, CallsOwn
  <1>2. call[r].ro \in Ours /\ call[r].ro # NoRo /\ call[r].ro \in 0 .. MaxRos
    BY <1>1, OursTypes DEF OwnRo, IInv
  <1> DEFINE q == [at |-> "update"]
  <1>3. q \in Call /\ q.at = "update"
    BY DEF Call
  <1>4. /\ card' \in Card /\ card'.ro = call[r].ro
        /\ call' = [call EXCEPT ![r] = q]
        /\ UNCHANGED <<ros, late, sweeping, marred, customer>>
    BY <1>2 DEF IInv, TypeOK, Card, Adopt, Do
  <1> HIDE DEF q
  <1>5. OwnRo(q, card', Ours) /\ Carried(q, card', ros)
    BY <1>3 DEF OwnRo, Carried
  <1>6. Made(call[r], card, Ours) => Made(q, card', Ours)
    BY <1>2, <1>3, <1>4 DEF Made
  <1> QED
    BY <1>1, <1>2, <1>3, <1>4, <1>5, <1>6, GoKeeps

\* An UPDATE reads the card.
LEMMA LoadForUpdateKeeps ==
  ASSUME IInv, NEW r \in Callers, LoadForUpdate(r)
  PROVE  IInv'
  <1>1. /\ card' = card /\ card \in Card /\ call[r].at = "update" /\ call[r] \in Call
        /\ UNCHANGED <<ros, late, sweeping, marred, customer>>
    BY DEF IInv, TypeOK, Card, LoadForUpdate
  <1>2. ~Records(call[r])
    BY <1>1 DEF Records
  <1>3. CASE card.ro = NoRo
    <2> DEFINE q == [call[r] EXCEPT !.at = "create"]
               Found == [at : {"idle", "create", "update", "manual"}]
    <2>1. call[r] \in Found
      BY <1>1 DEF Call
    <2>2. q \in Found /\ q.at = "create"
      BY <2>1
    <2>3. q \in Call /\ call' = [call EXCEPT ![r] = q]
      BY <1>3, <2>2 DEF Call, LoadForUpdate, Goto
    <2> HIDE DEF q
    <2>4. OwnRo(q, card', Ours) /\ Carried(q, card', ros)
      BY <1>1, <1>3, <2>2 DEF OwnRo, Carried
    <2>5. Made(call[r], card, Ours) => Made(q, card', Ours)
      BY <1>1, <1>2, <2>2 DEF Made
    <2> QED
      BY <1>1, <2>3, <2>4, <2>5, GoKeeps
  <1>4. CASE card.ro # NoRo
    <2> DEFINE goOn == [at |-> "labour", ro |-> card.ro, attempts |-> card.attempts]
    <2>1. goOn \in Call /\ goOn.at = "labour" /\ goOn.ro = card.ro
      BY <1>1, SyncAssumption DEF Card, Call
    <2>2. Verdict(r, GapVerdict(card.gap), goOn)
      BY <1>4 DEF LoadForUpdate
    <2>3. GapVerdict(card.gap) \in {"go", "defer", "manual"}
      BY DEF GapVerdict
    <2> HIDE DEF goOn
    <2>4. PICK q \in Call :
            /\ call' = [call EXCEPT ![r] = q]
            /\ q = goOn \/ q.at = "manual" \/ (q.at = "park" /\ q.status = "DEFERRED")
      BY <2>1, <2>2, <2>3, Verdicts
    <2>5. OwnRo(q, card', Ours) /\ Carried(q, card', ros)
      BY <1>1, <1>4, <2>1, <2>4 DEF OwnRo, Carried, IInv, NumberIsOurs
    <2>6. Made(call[r], card, Ours) => Made(q, card', Ours)
      BY <1>1, <1>4, <2>1, <2>4 DEF Made
    <2> QED
      BY <1>1, <2>4, <2>5, <2>6, GoKeeps
  <1> QED
    BY <1>3, <1>4

\* A message carries what the card says; a CREATE goes out only if no RO was made.
LEMMA PostKeeps ==
  ASSUME IInv, NEW r \in Callers, call[r].at \in {"ready", "unmade", "labour"},
         call[r].attempts \in Nat, NEW ro \in Nat, Post(r, ro),
         ro # NoRo => ro \in Ours /\ card.ro # NoRo,
         ro = NoRo => (Made(call[r], card, Ours) => Ours = {}),
         ro # NoRo => (Carried(call[r], card, ros) => card.ro = ro)
  PROVE  IInv'
  <1> DEFINE q == [at |-> "sent", ro |-> ro, attempts |-> call[r].attempts,
                   again |-> FALSE, got |-> NoRo, data |-> card.data]
  <1>1. /\ card' = card /\ card \in Card /\ card.data \in card.told .. card.data /\ card.data \in Nat
        /\ UNCHANGED <<ros, late, sweeping, marred, customer>>
    BY DEF IInv, TypeOK, Card, Post
  <1>2. q \in Call /\ q.at = "sent" /\ q.ro = ro /\ q.data = card.data
    BY <1>1 DEF Call, NoRo
  <1>3. call' = [call EXCEPT ![r] = q]
    BY DEF Post, Do
  <1> HIDE DEF q
  <1>4. OwnRo(q, card', Ours)
    BY <1>1, <1>2 DEF OwnRo
  <1>5. Made(call[r], card, Ours) => Made(q, card', Ours)
    BY <1>1, <1>2 DEF Made, Records
  <1>6. Carried(call[r], card, ros) => Carried(q, card', ros)
    BY <1>1, <1>2 DEF Carried
  <1> QED
    BY <1>1, <1>2, <1>3, <1>4, <1>5, <1>6, GoKeeps

\* A CREATE is sent.
LEMMA SendCreateKeeps ==
  ASSUME IInv, NEW r \in Callers, SendCreate(r)
  PROVE  IInv'
  <1>1. call[r].at \in {"ready", "unmade"} /\ call[r] \in Call
    BY DEF SendCreate, ToBeMade, IInv, TypeOK
  <1>2. call[r].attempts \in Nat
    BY <1>1 DEF Call
  <1>3. Made(call[r], card, Ours) => Ours = {}
    BY <1>2 DEF SendCreate, ToBeMade, AsksHistory, Made
  <1> QED
    BY <1>1, <1>2, <1>3, PostKeeps DEF SendCreate, NoRo

\* An UPDATE is sent.
LEMMA SendUpdateKeeps ==
  ASSUME IInv, NEW r \in Callers, SendUpdate(r)
  PROVE  IInv'
  <1>1. call[r].at = "labour" /\ call[r] \in Call /\ OwnRo(call[r], card, Ours)
    BY DEF SendUpdate, IInv, TypeOK, CallsOwn
  <1>2. call[r].attempts \in Nat /\ call[r].ro \in Nat
    BY <1>1 DEF Call
  <1>3. call[r].ro \in Ours /\ card.ro # NoRo /\ call[r].ro # NoRo
    BY <1>1, OursTypes DEF OwnRo, IInv
  <1>4. Carried(call[r], card, ros) => card.ro = call[r].ro
    BY <1>1 DEF Carried
  <1> QED
    BY <1>1, <1>2, <1>3, <1>4, PostKeeps DEF SendUpdate

\* A call that waits for the answer, or has it.
Talking ==
  [at : {"sent", "done"}, ro : Nat, attempts : Nat, again : BOOLEAN, got : Nat, data : Nat]

\* A call that talks to Evolve is of the type of calls.
LEMMA TalkingTypes ==
  ASSUME IInv, NEW r \in Callers, call[r].at \in {"sent", "done"}
  PROVE  call[r] \in Talking
  <1>1. call[r] \in Call
    BY DEF IInv, TypeOK
  <1> QED
    BY <1>1 DEF Call, Talking

\* Evolve carries a message out in time.
LEMMA ArriveKeeps ==
  ASSUME IInv, NEW r \in Callers, Arrive(r)
  PROVE  IInv'
  <1> DEFINE m == Message(r)
             got == IF call[r].ro = NoRo THEN Len(ros) + 1 ELSE call[r].ro
             q == [call[r] EXCEPT !.at = "done", !.got = got]
  <1>1. /\ call[r].at = "sent" /\ call[r] \in Talking /\ OwnRo(call[r], card, Ours)
        /\ UNCHANGED <<card, late, sweeping, marred, customer>>
    BY TalkingTypes DEF Arrive, IInv, CallsOwn
  <1>2. m.ro = call[r].ro /\ m.data = call[r].data /\ m.ro \in Nat /\ m.data \in Nat /\ CarryOut(m)
    BY <1>1 DEF Message, Talking, Arrive
  <1> HIDE DEF m
  <1>3. CASE m.ro = NoRo
    <2>1. /\ ros' \in Seq(Ro) /\ Len(ros') <= MaxRos
          /\ Len(ros) + 1 \in 1 .. MaxRos
          /\ Ours' = Ours \cup {Len(ros) + 1}
          /\ ros'[Len(ros) + 1].data = m.data
      BY <1>2, <1>3, MakesRo DEF IInv
    <2>2. got = Len(ros) + 1 /\ got \in Nat
      BY <1>2, <1>3, OursTypes DEF IInv
    <2> HIDE DEF got
    <2>3. q \in Talking /\ q = [call[r] EXCEPT !.at = "done", !.got = got]
      BY <1>1, <2>2 DEF Talking
    <2>4. /\ q \in Call /\ q.at = "done" /\ q.ro = NoRo /\ q.got = Len(ros) + 1
          /\ q.data = m.data
      BY <1>1, <1>2, <1>3, <2>2, <2>3 DEF Talking, Call
    <2>5. call' = [call EXCEPT ![r] = q]
      BY <1>1 DEF Arrive, got
    <2> HIDE DEF q
    <2>6. TypeOK' /\ NumberIsOurs' /\ OwnRo(q, card', Ours')
      BY <1>1, <2>1, <2>4, <2>5, CallTypes DEF IInv, TypeOK, NumberIsOurs, OwnRo
    <2>7. Made(call[r], card, Ours) => Made(q, card', Ours')
      BY <1>1, <1>2, <1>3, <2>1, <2>4 DEF Made, Records
    <2>8. Carried(call[r], card, ros) => Carried(q, card', ros')
      BY <1>1, <1>2, <2>1, <2>4 DEF Carried
    <2> QED
      BY <1>1, <2>1, <2>4, <2>5, <2>6, <2>7, <2>8, StepKeeps DEF LocksAfter
  <1>4. CASE m.ro # NoRo
    <2>1. m.ro \in Ours /\ card.ro # NoRo /\ m.ro \in DOMAIN ros
      BY <1>1, <1>2, <1>4, OursTypes DEF OwnRo, IInv
    <2>2. /\ ros' \in Seq(Ro) /\ Len(ros') <= MaxRos
          /\ Ours' = Ours
          /\ ros'[m.ro].data = m.data
      BY <1>2, <1>4, <2>1, WritesRo DEF IInv
    <2>3. got = m.ro
      BY <1>2, <1>4
    <2> HIDE DEF got
    <2>4. q \in Talking /\ q = [call[r] EXCEPT !.at = "done", !.got = got]
      BY <1>1, <1>2, <2>3 DEF Talking
    <2>5. q \in Call /\ q.at = "done" /\ q.ro = m.ro /\ q.data = m.data
      BY <1>1, <1>2, <2>4 DEF Talking, Call
    <2>6. call' = [call EXCEPT ![r] = q]
      BY <1>1 DEF Arrive, got
    <2> HIDE DEF q
    <2>7. TypeOK' /\ NumberIsOurs' /\ OwnRo(q, card', Ours')
      BY <1>1, <1>4, <2>1, <2>2, <2>5, <2>6, CallTypes DEF IInv, TypeOK, NumberIsOurs, OwnRo
    <2>8. Made(call[r], card, Ours) => Made(q, card', Ours')
      BY <1>1, <1>4, <2>1, <2>2, <2>5 DEF Made
    <2>9. Carried(call[r], card, ros) => Carried(q, card', ros')
      BY <1>1, <1>2, <1>4, <2>2, <2>5 DEF Carried
    <2> QED
      BY <1>1, <2>1, <2>2, <2>5, <2>6, <2>7, <2>8, <2>9, StepKeeps DEF LocksAfter
  <1> QED
    BY <1>3, <1>4

\* A stray message mars both promises, so nothing is left to keep but what is there.
LEMMA StrayMars ==
  ASSUME IInv, NEW r \in Callers, Stray(r)
  PROVE  /\ ~Calm' /\ "ro" \in marred' /\ "contents" \in marred'
         /\ marred \subseteq marred' /\ marred' \subseteq {"ro", "contents", "fault"}
         /\ late' \subseteq [ro : {NoRo}, data : Nat]
  <1>1. call[r] \in Talking
    BY TalkingTypes DEF Stray
  <1>2. marred' = marred \cup ({"ro", "contents"} \cup {"fault"})
    BY DEF Stray, Fault, Mar
  <1>3. call[r].ro = NoRo => Message(r) \in [ro : {NoRo}, data : Nat]
    BY <1>1 DEF Message, Talking
  <1> QED
    BY <1>2, <1>3 DEF Stray, Calm, IInv, TypeOK

\* A message whose session was lost is sent once more.
LEMMA ResendKeeps ==
  ASSUME IInv, NEW r \in Callers, Resend(r)
  PROVE  IInv'
  <1> DEFINE q == [call[r] EXCEPT !.at = "sent", !.again = TRUE, !.got = NoRo]
  <1>1. /\ call[r].at \in {"sent", "done"} /\ call[r] \in Talking
        /\ OwnRo(call[r], card, Ours)
        /\ UNCHANGED <<card, ros, sweeping, customer>>
    BY TalkingTypes DEF Resend, IInv, CallsOwn
  <1>2. q \in Talking /\ q.at = "sent" /\ q.ro = call[r].ro /\ q.data = call[r].data
    BY <1>1 DEF Talking, NoRo
  <1>3. q \in Call
    BY <1>2 DEF Talking, Call
  <1>4. call' = [call EXCEPT ![r] = q]
    BY DEF Resend
  <1> HIDE DEF q
  <1>5. Ours' = Ours /\ LocksAfter(r, q)
    BY <1>1 DEF Ours, LocksAfter
  <1>6. OwnRo(q, card', Ours')
    BY <1>1, <1>2, <1>5 DEF OwnRo
  <1>7. Carried(call[r], card, ros) => Carried(q, card', ros')
    BY <1>1, <1>2 DEF Carried
  <1>8. CASE Stray(r)
    <2>1. /\ ~Calm' /\ "ro" \in marred' /\ "contents" \in marred'
          /\ marred \subseteq marred' /\ marred' \subseteq {"ro", "contents", "fault"}
          /\ late' \subseteq [ro : {NoRo}, data : Nat]
      BY <1>8, StrayMars
    <2>2. TypeOK' /\ NumberIsOurs'
      BY <1>1, <1>3, <1>4, <1>5, <2>1, CallTypes DEF IInv, TypeOK, NumberIsOurs
    <2> QED
      BY <1>1, <1>3, <1>4, <1>5, <1>6, <2>1, <2>2, StepKeeps
  <1>9. CASE /\ Fault(IF call[r].at = "done" /\ call[r].ro = NoRo THEN {"ro"} ELSE {})
             /\ UNCHANGED late
    <2>1. /\ marred \subseteq marred' /\ marred' \subseteq {"ro", "contents", "fault"}
          /\ call[r].at = "done" /\ call[r].ro = NoRo => "ro" \in marred'
      BY <1>9 DEF Fault, Mar, IInv, TypeOK
    <2>2. TypeOK' /\ NumberIsOurs'
      BY <1>1, <1>3, <1>4, <1>5, <1>9, <2>1, CallTypes DEF IInv, TypeOK, NumberIsOurs
    <2>3. "ro" \notin marred' /\ Made(call[r], card, Ours) => Made(q, card', Ours')
      BY <1>1, <1>2, <1>5, <2>1 DEF Made, Records
    <2> QED
      BY <1>1, <1>3, <1>4, <1>5, <1>6, <1>7, <1>9, <2>1, <2>2, <2>3, StepKeeps
  <1> QED
    BY <1>8, <1>9 DEF Resend

\* Who gives up has the attempt put on record.
LEMMA GiveUpKeeps ==
  ASSUME IInv, NEW r \in Callers, GiveUp(r)
  PROVE  IInv'
  <1> DEFINE q == Parking("FAILED")
  <1>1. /\ call[r].at \in {"sent", "done"} /\ card.attempts \in Nat
        /\ UNCHANGED <<card, ros, sweeping, customer>>
        /\ call' = [call EXCEPT ![r] = q]
    BY DEF GiveUp, Do, IInv, TypeOK, Card
  <1>2. q \in Call /\ q.at = "park" /\ q.status = "FAILED" /\ q.attempts = card.attempts
    BY <1>1 DEF Parking, Call
  <1> HIDE DEF q
  <1>3. Ours' = Ours /\ LocksAfter(r, q)
    BY <1>1 DEF Ours, LocksAfter
  <1>4. OwnRo(q, card', Ours') /\ Carried(q, card', ros')
    BY <1>2 DEF OwnRo, Carried
  <1>5. Made(call[r], card, Ours) => Made(q, card', Ours')
    BY <1>1, <1>2, <1>3 DEF Made, Records
  <1>6. CASE Stray(r)
    <2>1. /\ ~Calm' /\ marred \subseteq marred' /\ marred' \subseteq {"ro", "contents", "fault"}
          /\ late' \subseteq [ro : {NoRo}, data : Nat]
      BY <1>6, StrayMars
    <2>2. TypeOK' /\ NumberIsOurs'
      BY <1>1, <1>2, <1>3, <2>1, CallTypes DEF IInv, TypeOK, NumberIsOurs
    <2> QED
      BY <1>1, <1>2, <1>3, <1>4, <1>5, <2>1, <2>2, StepKeeps
  <1>7. CASE UNCHANGED <<late, marred>>
    <2>1. TypeOK' /\ NumberIsOurs'
      BY <1>1, <1>2, <1>3, <1>7, CallTypes DEF IInv, TypeOK, NumberIsOurs
    <2> QED
      BY <1>1, <1>2, <1>3, <1>4, <1>5, <1>7, <2>1, StepKeeps
  <1> QED
    BY <1>6, <1>7 DEF GiveUp

-----------------------------------------------------------------------------
(* What starts and stops calls, and what goes on around them.              *)

\* A call whose attempt the card has on record may stop: the next one asks.
LEMMA StopKeeps ==
  ASSUME IInv, NEW r \in Callers, Stop(r)
  PROVE  IInv'
  <1>1. /\ call[r].at # "idle" /\ call[r] \in Call /\ EndOf(r)
        /\ UNCHANGED <<card, ros, late, customer>> /\ card \in Card
    BY DEF Stop, IInv, TypeOK, Card
  <1>2. /\ marred \subseteq marred' /\ marred' \subseteq {"ro", "contents", "fault"}
        /\ "contents" \in marred' /\ (Forgotten(r) => "ro" \in marred')
    BY DEF Stop, Fault, Mar, IInv, TypeOK
  <1>3. ASSUME Made(call[r], card, Ours), "ro" \notin marred'
        PROVE  Made(NoCall, card', Ours)
    <2>1. ~Forgotten(r)
      BY <1>2, <1>3
    <2>2. CASE Ours = {} \/ card.ro # NoRo \/ card.attempts # 0
      BY <1>1, <1>3, <2>2 DEF Made, NoCall
    <2>3. CASE Ours # {} /\ card.ro = NoRo /\ card.attempts = 0
      <3>1. Records(call[r])
        BY <1>3, <2>3 DEF Made
      <3>2. call[r].at = "park" /\ call[r].status = "FAILED" /\ call[r].attempts = 0
        BY <2>1, <2>3, <3>1 DEF Records, Forgotten
      <3>3. call[r] \in [at : {"park"}, status : {"DEFERRED", "FAILED"}, attempts : Nat]
        BY <1>1, <3>2 DEF Call
      <3>4. call[r] = Parking("FAILED")
        BY <2>3, <3>2, <3>3 DEF Parking
      <3> QED
        BY <2>1, <2>3, <3>4 DEF Forgotten
    <2> QED
      BY <2>2, <2>3
  <1> QED
    BY <1>1, <1>2, <1>3, EndKeeps

\* The card changes and its hook is called.
LEMMA ChangeKeeps ==
  ASSUME IInv, NEW r \in Hooks, Change(r)
  PROVE  IInv'
  <1> DEFINE q == [at |-> "update"]
  <1>1. q \in Call /\ q.at = "update"
    BY DEF Call
  <1>2. /\ r \in Callers /\ r \notin Sweepers
        /\ call' = [call EXCEPT ![r] = q]
        /\ UNCHANGED <<ros, late, sweeping, customer>>
    BY SyncAssumption DEF Change, Do, Callers
  <1> HIDE DEF q
  <1>3. card' \in Card /\ card'.ro = card.ro /\ card'.attempts = card.attempts
    <2>1. card \in Card /\ card.data + 1 \in Nat
      BY DEF IInv, TypeOK, Card
    <2>2. card' = [card EXCEPT !.data = card.data + 1, !.hook = r, !.told = card.data + 1]
      BY DEF Change
    <2>3. /\ card'.ro = card.ro /\ card'.attempts = card.attempts
          /\ card'.told = card.data + 1 /\ card'.data = card.data + 1
          /\ card' \in [ro : 0 .. MaxRos, status : SyncStatus, attempts : Nat, ref : BOOLEAN, gap : Gap,
                       data : Nat, hook : Hooks, told : Nat]
      BY <2>1, <2>2 DEF Card
    <2>4. card.data + 1 <= card.data + 1
      BY <2>1
    <2> QED
      BY <2>3, <2>4 DEF Card
  <1>4. /\ \/ InFlight = {} /\ marred' = marred
           \/ {"ro", "contents"} \subseteq marred'
        /\ marred' \subseteq {"ro", "contents", "fault"}
    BY DEF Change, Mar, IInv, TypeOK
  <1>5. TypeOK'
    BY <1>1, <1>2, <1>3, <1>4, CallTypes DEF IInv, TypeOK, Card
  <1>6. SweepsLock'
    BY <1>1, <1>2, CallTypes DEF IInv, SweepsLock, Callers
  <1> QED
    BY <1>1, <1>2, <1>3, <1>4, <1>5, <1>6, StartKeeps

\* With the lock free no sweep is in flight, so a sweep that meets no other call is alone.
LEMMA SweepKeeps ==
  ASSUME IInv, NEW r \in Sweepers, Sweep(r)
  PROVE  IInv'
  <1> DEFINE at == IF card.ro = NoRo THEN "create" ELSE "update"
             q == [at |-> at]
  <1>1. q \in Call /\ q.at \in {"create", "update"} /\ (q.at = "create" => card.ro = NoRo)
    BY DEF Call
  <1>2. /\ r \in Callers /\ card' = card
        /\ call' = [call EXCEPT ![r] = q] /\ sweeping' = r
        /\ UNCHANGED <<ros, late, customer>>
    BY DEF Sweep, Do, Callers
  <1> HIDE DEF q
  <1>3. \A s \in Sweepers : call[s].at = "idle"
    BY CallerNumbers DEF IInv, SweepsLock, Sweep, LockFree, Callers
  <1>4. /\ \/ InFlight = {} /\ marred' = marred
           \/ {"ro", "contents"} \subseteq marred'
        /\ marred' \subseteq {"ro", "contents", "fault"}
    <2>1. InFlight \cap Hooks = {} => InFlight = {}
      BY <1>3 DEF InFlight, Callers
    <2> QED
      BY <2>1 DEF Sweep, Mar, IInv, TypeOK
  <1>5. TypeOK'
    BY <1>1, <1>2, <1>4, CallTypes DEF IInv, TypeOK
  <1>6. SweepsLock'
    BY <1>1, <1>2, <1>3, CallTypes DEF IInv, SweepsLock, Callers
  <1> QED
    BY <1>1, <1>2, <1>4, <1>5, <1>6, StartKeeps

\* The gap of the card, or what is known of its customer, is nothing the invariant speaks of.
LEMMA AroundKeeps ==
  ASSUME IInv, customer' \in Nat, card' \in Card,
         card'.ro = card.ro, card'.attempts = card.attempts,
         card'.status = card.status, card'.data >= card.data, card'.told = card.told,
         UNCHANGED <<ros, late, sweeping, call, marred>>
  PROVE  IInv'
  <1>1. TypeOK'
    BY DEF IInv, TypeOK, Card
  <1>2. Ours' = Ours /\ InFlight' = InFlight
    BY DEF Ours, InFlight
  <1>3. NumberIsOurs' /\ SweepsLock' /\ AloneWhenCalm'
    BY <1>2 DEF IInv, NumberIsOurs, SweepsLock, AloneWhenCalm, Calm
  <1>4. CallsOwn'
    BY <1>2 DEF IInv, CallsOwn, OwnRo
  <1>5. RoInv'
    BY <1>2 DEF IInv, RoInv, Only, Made
  <1>6. ContentsInv'
    <2>1. SUFFICES ASSUME "contents" \notin marred, NEW r \in Callers, Only(r)
                   PROVE  Carried(call[r], card', ros)
      BY <1>2 DEF ContentsInv, Only
    <2>2. Carried(call[r], card, ros)
      BY <2>1 DEF IInv, ContentsInv
    <2>3. \A n : n \in card.told .. card.data => n \in card'.told .. card'.data
      BY DEF IInv, TypeOK, Card
    <2> QED
      BY <2>2, <2>3 DEF Carried
  <1> QED
    BY <1>1, <1>3, <1>4, <1>5, <1>6 DEF IInv

\* A person supplies what the card lacked.
LEMMA RepairKeeps ==
  ASSUME IInv, Repair
  PROVE  IInv'
  <1>1. /\ customer' \in Nat /\ card' \in Card
        /\ card'.ro = card.ro /\ card'.attempts = card.attempts
        /\ card'.status = card.status /\ card'.data >= card.data /\ card'.told = card.told
    BY DEF IInv, TypeOK, Card, Gap, Repair
  <1> QED
    BY <1>1, AroundKeeps DEF Repair

\* What a message would say becomes something else, and nobody calls.
LEMMA ChangeUntoldKeeps ==
  ASSUME IInv, ChangeUntold
  PROVE  IInv'
  <1>1. card \in Card /\ card.data \in Nat /\ card.told \in Nat /\ card.told <= card.data
    BY DEF IInv, TypeOK, Card
  <1>2. /\ customer' \in Nat /\ card' \in Card
        /\ card'.ro = card.ro /\ card'.attempts = card.attempts
        /\ card'.status = card.status /\ card'.data >= card.data /\ card'.told = card.told
    BY <1>1 DEF IInv, TypeOK, Card, ChangeUntold
  <1> QED
    BY <1>2, AroundKeeps DEF ChangeUntold

\* The customer learns its id.
LEMMA CustomersKeeps ==
  ASSUME IInv, Customers
  PROVE  IInv'
  <1>1. customer' \in Nat /\ card' = card /\ card \in Card /\ card.data >= card.data
    BY DEF IInv, TypeOK, Card, Customers, Learn
  <1> QED
    BY <1>1, AroundKeeps DEF Customers

\* What arrives late is a CREATE, and its caller's loss has marred everything.
LEMMA ArriveLateKeeps ==
  ASSUME IInv, ArriveLate
  PROVE  IInv'
  <1>1. PICK m \in late : CarryOut(m) /\ late' = late \ {m}
    BY DEF ArriveLate
  <1>2. UNCHANGED <<card, sweeping, call, marred, customer>>
    BY DEF ArriveLate
  <1>3. m.ro = NoRo /\ m.data \in Nat
    BY <1>1 DEF IInv, TypeOK
  <1>4. /\ ros' \in Seq(Ro) /\ Len(ros') <= MaxRos
        /\ Ours \subseteq Ours'
    BY <1>1, <1>3, MakesRo DEF IInv
  <1>5. ~Calm /\ ~Calm' /\ "ro" \in marred' /\ "contents" \in marred'
    BY <1>1, <1>2 DEF IInv, AloneWhenCalm, Calm
  <1>6. TypeOK' /\ NumberIsOurs' /\ SweepsLock'
    BY <1>1, <1>2, <1>4 DEF IInv, TypeOK, NumberIsOurs, SweepsLock
  <1>7. CallsOwn'
    <2>1. SUFFICES ASSUME NEW r \in Callers
                   PROVE  OwnRo(call[r], card, Ours')
      BY <1>2 DEF CallsOwn
    <2>2. OwnRo(call[r], card, Ours)
      BY DEF IInv, CallsOwn
    <2> QED
      BY <1>4, <2>2, OwnsOn
  <1> QED
    BY <1>5, <1>6, <1>7 DEF IInv, AloneWhenCalm, RoInv, ContentsInv

-----------------------------------------------------------------------------
(* The invariant.                                                          *)

\* A new card has no RO; one call is about to make it.
LEMMA InitKeeps ==
  ASSUME Init
  PROVE  IInv
  <1>1. PICK seed \in Seeds :
          /\ customer = seed.customer
          /\ card = [ro |-> NoRo, status |-> "NULL", attempts |-> 0, ref |-> FALSE,
                     gap |-> seed.gap, data |-> seed.data, hook |-> 1, told |-> seed.data]
          /\ ros = IF seed.other THEN <<[ours |-> FALSE, data |-> 0]>> ELSE <<>>
    BY DEF Init
  <1>2. /\ late = {} /\ sweeping = NoSweeper /\ marred = {}
        /\ call = [r \in Callers |-> IF r = 1 THEN [at |-> "create"] ELSE NoCall]
    BY DEF Init
  <1> DEFINE others == [ours |-> FALSE, data |-> 0]
             first == [at |-> "create"]
  <1>3. others \in Ro /\ others.ours = FALSE
    BY DEF Ro
  <1>4. ros = <<others>> \/ ros = <<>>
    BY <1>1
  <1> HIDE DEF others
  <1>5. ros \in Seq(Ro) /\ Len(ros) <= MaxRos /\ Ours = {}
    <2>1. 1 <= MaxRos /\ 0 <= MaxRos
      BY SyncAssumption
    <2>2. CASE ros = <<>>
      BY <2>1, <2>2 DEF Ours
    <2>3. CASE ros = <<others>>
      <3>1. ros \in Seq(Ro) /\ Len(ros) = 1 /\ DOMAIN ros = {1} /\ ros[1] = others
        BY <1>3, <2>3
      <3> QED
        BY <1>3, <2>1, <3>1 DEF Ours
    <2> QED
      BY <1>4, <2>2, <2>3
  <1>6. first \in Call /\ first.at = "create" /\ NoCall \in Call /\ NoCall.at = "idle"
    BY DEF Call, NoCall
  <1>7. \A r \in Callers : call[r] = IF r = 1 THEN first ELSE NoCall
    BY <1>2
  <1>8. call \in [Callers -> Call]
    BY <1>2, <1>6
  <1> HIDE DEF first
  <1>9. /\ card \in Card /\ card.ro = NoRo /\ card.status = "NULL" /\ customer \in Nat
    BY <1>1, SyncAssumption DEF Card, SyncStatus, NoRo
  <1>10. TypeOK /\ NumberIsOurs
    BY <1>2, <1>5, <1>8, <1>9 DEF TypeOK, NumberIsOurs, Card
  <1>11. CallsOwn
    BY <1>6, <1>7 DEF CallsOwn, OwnRo
  <1>12. SweepsLock /\ AloneWhenCalm
    BY <1>2, <1>6, <1>7, SyncAssumption DEF SweepsLock, AloneWhenCalm, InFlight, Callers
  <1>13. RoInv
    BY <1>5, <1>6, <1>7 DEF RoInv, Made
  <1>14. ContentsInv
    BY <1>6, <1>7, <1>9 DEF ContentsInv, Carried
  <1> QED
    BY <1>10, <1>11, <1>12, <1>13, <1>14 DEF IInv

\* One step per action.
LEMMA Inductive ==
  ASSUME IInv, [Next]_vars
  PROVE  IInv'
  <1>1. CASE UNCHANGED vars
    BY <1>1 DEF vars, IInv, TypeOK, NumberIsOurs, CallsOwn, SweepsLock, AloneWhenCalm, RoInv,
                ContentsInv, Ours, InFlight, Calm, Only
  <1>2. ASSUME NEW r \in Callers, Step(r)
        PROVE  IInv'
    <2>1. CASE \/ LoadForCreate(r) \/ KeepRef(r) \/ LookUp(r) \/ Adopt(r) \/ ParkSoft(r)
               \/ SendCreate(r)
      BY <2>1, LoadForCreateKeeps, KeepRefKeeps, LookUpKeeps, AdoptKeeps, ParkSoftKeeps,
         SendCreateKeeps
    <2>2. CASE LoadForUpdate(r) \/ ParkLabour(r) \/ SendUpdate(r)
      BY <2>2, LoadForUpdateKeeps, ParkLabourKeeps, SendUpdateKeeps
    <2>3. CASE Arrive(r) \/ Refuse(r) \/ Resend(r) \/ GiveUp(r) \/ Save(r)
      BY <2>3, ArriveKeeps, RefuseKeeps, ResendKeeps, GiveUpKeeps, SaveKeeps
    <2>4. CASE Park(r) \/ ParkManual(r)
      BY <2>4, ParkKeeps, ParkManualKeeps
    <2> QED
      BY <1>2, <2>1, <2>2, <2>3, <2>4 DEF Step
  <1>3. CASE Work
    BY <1>2, <1>3, SweepKeeps DEF Work
  <1>4. CASE Repair \/ ChangeUntold \/ ArriveLate \/ Customers
    BY <1>4, RepairKeeps, ChangeUntoldKeeps, ArriveLateKeeps, CustomersKeeps
  <1>5. CASE \E r \in Hooks : Change(r)
    BY <1>5, ChangeKeeps
  <1>6. CASE \E r \in Callers : Stop(r)
    BY <1>6, StopKeeps
  <1> QED
    BY <1>1, <1>3, <1>4, <1>5, <1>6 DEF Next

\* The invariant holds throughout.
LEMMA Invariant == Spec => []IInv
  <1>1. Init => IInv
    BY InitKeeps
  <1>2. IInv /\ [Next]_vars => IInv'
    BY Inductive
  <1> QED
    BY <1>1, <1>2, PTL DEF Spec

-----------------------------------------------------------------------------
(* What it gives.                                                          *)

\* The card, Evolve's ROs, the lock and what every call knows keep their types.
THEOREM SyncTypes == Spec => []TypeOK
  <1>1. IInv => TypeOK
    BY DEF IInv
  <1> QED
    BY <1>1, Invariant, PTL

\* The RO a card is tied to was made for it, so that an UPDATE writes to no other card's RO: of every
\* mode of the gates and however calls overlap, are lost or stop (jobCardEvolveSync: the adoption by
\* reference, and CREATE keeping the number it was answered).
THEOREM NumberStaysOurs == Spec => []NumberIsOurs
  <1>1. IInv => NumberIsOurs
    BY DEF IInv
  <1> QED
    BY <1>1, Invariant, PTL

\* One card makes one RO however many attempts fail, unless calls overlapped, a message went astray
\* or came twice, or the server stopped with the first attempt's outcome unknown
\* (jobCardEvolveSync: ask before a retry, the lock of the sweep).
THEOREM RoStaysOne == Spec => []OneRo
  <1>1. ASSUME IInv, "ro" \notin marred
        PROVE  Cardinality(Ours) <= 1
    <2>1. PICK r \in Callers : Only(r)
      <3>1. \A p, q \in InFlight : p = q
        BY <1>1 DEF IInv, AloneWhenCalm, Calm
      <3>2. 1 \in Callers
        BY SyncAssumption DEF Callers
      <3> QED
        BY <3>1, <3>2 DEF Only, InFlight
    <2>2. \A m, n \in Ours : m = n
      BY <1>1, <2>1 DEF IInv, RoInv, Made
    <2>3. CASE Ours = {}
      <3>1. Cardinality(Ours) = 0
        BY <2>3, FS_EmptySet, Zenon
      <3> QED
        BY <3>1
    <2>4. CASE Ours # {}
      <3>1. PICK n \in Ours : Ours = {n}
        BY <2>2, <2>4
      <3>2. Cardinality({n}) = 1
        BY FS_Singleton
      <3>3. Cardinality(Ours) = 1
        BY <3>1, <3>2, Zenon
      <3> QED
        BY <3>3
    <2> QED
      BY <2>3, <2>4
  <1>2. IInv => OneRo
    BY <1>1 DEF OneRo
  <1> QED
    BY <1>2, Invariant, PTL

\* Once its calls are over, a card shown as SYNCED has in Evolve what it held at the last change that
\* fires a call, or something later, unless calls overlapped, stopped or left a message behind; what
\* the parts desk or a rejection changed since may be missing (jobCardEvolveSync: buildRoInput reads
\* what is current, and only an answered message makes the card SYNCED).
THEOREM SyncedStaysFresh == Spec => []SyncedIsFresh
  <1>1. ASSUME IInv, InFlight = {}, card.status = "SYNCED", "contents" \notin marred
        PROVE  card.ro \in DOMAIN ros /\ ros[card.ro].data \in card.told .. card.data
    <2>1. 1 \in Callers /\ Only(1) /\ call[1].at = "idle"
      BY <1>1, SyncAssumption DEF Only, InFlight, Callers
    <2> QED
      BY <1>1, <2>1 DEF IInv, ContentsInv, Carried
  <1>2. IInv => SyncedIsFresh
    BY <1>1 DEF SyncedIsFresh
  <1> QED
    BY <1>2, Invariant, PTL

-----------------------------------------------------------------------------
(***************************************************************************)
(* The customer's identity (EvolveCustomers), for any number of pushes and *)
(* imports in flight: it implements EvolveIdentity, which EvolveSync is    *)
(* built on, but for what overlapping pushes do to a customer without a    *)
(* reference; and an import costs a number only as EngineKept says.        *)
(*                                                                         *)
(* The argument: with a reference Evolve makes one customer for our row at *)
(* most, as it knows the reference from then on, and every answer brings   *)
(* that one id.  Without, answers may differ; but a push starts only if    *)
(* the row has a placeholder, and as long as it is alone nobody else       *)
(* writes the row.                                                         *)
(***************************************************************************)

\* Answers bring ids that Evolve has issued, and for a reference it issues one.
Issued ==
  /\ referenced => issued \in {0, 1}
  /\ customer \in 0 .. issued
  /\ \A p \in Pushes : push[p].at \in {"made", "write"} => push[p].id \in 1 .. issued

\* A push that no other has overlapped is alone, and its customer has no id yet.
Unraced ==
  \A p \in Pushes :
    push[p].at # "idle" /\ ~push[p].raced =>
      /\ IsPlaceholder(customer)
      /\ \A o \in Pushes : o # p => push[o].at = "idle"

CustomerInv ==
  /\ CustomerTypesOK
  /\ Issued
  /\ Unraced
  /\ OneRowPerId

\* A push that becomes q.
LEMMA PushTypes ==
  ASSUME CustomerTypesOK, NEW p \in Pushes, NEW q \in Push, push' = [push EXCEPT ![p] = q]
  PROVE  /\ push' \in [Pushes -> Push] /\ push'[p] = q
         /\ \A o \in Pushes : o # p => push'[o] = push[o]
  BY DEF CustomerTypesOK

\* A push in flight that goes on to q, or ends, and leaves our row as it is.
LEMMA PushGoesOn ==
  ASSUME CustomerInv, NEW p \in Pushes, NEW q \in Push, push' = [push EXCEPT ![p] = q],
         push[p].at # "idle", q.at = "idle" \/ q.raced = push[p].raced,
         q.at \in {"made", "write"} => q.id \in 1 .. issued',
         issued' \in issued .. MaxIds, referenced => issued' \in {0, 1},
         UNCHANGED <<customer, referenced, twins, engine, import>>
  PROVE  CustomerInv'
  <1>1. /\ push' \in [Pushes -> Push] /\ push'[p] = q
        /\ \A o \in Pushes : o # p => push'[o] = push[o]
    BY PushTypes DEF CustomerInv
  <1>2. issued \in Nat /\ MaxIds \in Nat /\ issued' \in Nat /\ issued <= issued'
    BY CustomersAssumption DEF CustomerInv, CustomerTypesOK
  <1>3. CustomerTypesOK'
    BY <1>1, <1>2 DEF CustomerInv, CustomerTypesOK
  <1>4. Issued'
    <2>1. customer' \in 0 .. issued'
      BY <1>2 DEF CustomerInv, Issued
    <2>2. ASSUME NEW o \in Pushes, push'[o].at \in {"made", "write"}
          PROVE  push'[o].id \in 1 .. issued'
      <3>1. CASE o = p
        BY <1>1, <2>2, <3>1
      <3>2. CASE o # p
        <4>1. push[o].id \in 1 .. issued
          BY <1>1, <2>2, <3>2 DEF CustomerInv, Issued
        <4> QED
          BY <1>1, <1>2, <3>2, <4>1
      <3> QED
        BY <3>1, <3>2
    <2> QED
      BY <2>1, <2>2 DEF Issued
  <1>5. Unraced'
    BY <1>1 DEF CustomerInv, Unraced
  <1>6. OneRowPerId'
    BY DEF CustomerInv, OneRowPerId
  <1> QED
    BY <1>3, <1>4, <1>5, <1>6 DEF CustomerInv

\* A push that starts finds a placeholder, and marks itself and whoever is in flight.
LEMMA ReadKeeps ==
  ASSUME CustomerInv, NEW p \in Pushes, PushRead(p)
  PROVE  CustomerInv' /\ customer' = customer
  <1>1. /\ push[p].at = "idle" /\ IsPlaceholder(customer) /\ Sent(p)
        /\ UNCHANGED <<customer, referenced, twins, issued, engine, import>>
    BY DEF PushRead
  <1> DEFINE first == [at |-> "sent", id |-> NoId, raced |-> PushesInFlight # {}]
             met(o) == [push[o] EXCEPT !.raced = TRUE]
  <1>2. /\ first \in Push /\ first.at = "sent"
        /\ first.raced = (PushesInFlight # {})
    BY CustomersAssumption DEF Push, NoId
  <1>3. \A o \in Pushes : /\ push[o] \in Push /\ met(o) \in Push
                          /\ met(o).at = push[o].at /\ met(o).id = push[o].id /\ met(o).raced
    BY DEF CustomerInv, CustomerTypesOK, Push
  <1>4. push' = [o \in Pushes |-> IF o = p THEN first ELSE IF o \in PushesInFlight THEN met(o) ELSE push[o]]
    BY <1>1 DEF Sent
  <1> HIDE DEF first, met
  <1>5. push'[p] = first
    BY <1>4
  <1>6. \A o \in Pushes : o # p => push'[o] = IF o \in PushesInFlight THEN met(o) ELSE push[o]
    BY <1>4
  <1>7. push' \in [Pushes -> Push]
    BY <1>2, <1>3, <1>4
  <1>8. CustomerTypesOK'
    BY <1>1, <1>7 DEF CustomerInv, CustomerTypesOK
  <1>9. Issued'
    <2>1. ASSUME NEW o \in Pushes, push'[o].at \in {"made", "write"}
          PROVE  push'[o].id \in 1 .. issued
      <3>1. o # p
        BY <1>2, <1>5, <2>1
      <3>2. push'[o].at = push[o].at /\ push'[o].id = push[o].id
        BY <1>3, <1>6, <3>1
      <3> QED
        BY <2>1, <3>2 DEF CustomerInv, Issued
    <2> QED
      BY <1>1, <2>1 DEF CustomerInv, Issued
  <1>10. Unraced'
    <2>1. SUFFICES ASSUME NEW o \in Pushes, push'[o].at # "idle", ~push'[o].raced
                   PROVE  \A n \in Pushes : n # o => push'[n].at = "idle"
      BY <1>1 DEF Unraced
    <2>2. CASE o = p
      <3>1. PushesInFlight = {}
        BY <1>2, <1>5, <2>1, <2>2
      <3> QED
        BY <1>6, <2>2, <3>1 DEF PushesInFlight
    <2>3. CASE o # p
      <3>1. o \in PushesInFlight => push'[o].raced
        BY <1>3, <1>6, <2>3
      <3>2. o \notin PushesInFlight => push'[o].at = "idle"
        BY <1>6, <2>3 DEF PushesInFlight
      <3> QED
        BY <2>1, <3>1, <3>2
    <2> QED
      BY <2>2, <2>3
  <1>11. OneRowPerId'
    BY <1>1 DEF CustomerInv, OneRowPerId
  <1> QED
    BY <1>1, <1>8, <1>9, <1>10, <1>11 DEF CustomerInv

\* A push that ends brings nothing home.
LEMMA EndPushKeeps ==
  ASSUME CustomerInv, NEW p \in Pushes, PushFails(p) \/ PushStops(p)
  PROVE  CustomerInv' /\ customer' = customer
  <1>1. /\ push[p].at # "idle" /\ push' = [push EXCEPT ![p] = NoPush]
        /\ UNCHANGED <<customer, referenced, twins, issued, engine, import>>
    BY DEF PushFails, PushStops
  <1>2. NoPush \in Push /\ NoPush.at = "idle"
    BY CustomersAssumption DEF NoPush, Push, NoId
  <1>3. issued' \in issued .. MaxIds /\ (referenced => issued' \in {0, 1})
    BY <1>1, CustomersAssumption DEF CustomerInv, CustomerTypesOK, Issued
  <1> HIDE DEF NoPush
  <1> QED
    BY <1>1, <1>2, <1>3, PushGoesOn

\* Evolve makes a customer, or answers one it has made.
LEMMA MakeKeeps ==
  ASSUME CustomerInv, NEW p \in Pushes, Make(p)
  PROVE  CustomerInv' /\ customer' = customer
  <1>1. push[p].at = "sent" /\ UNCHANGED <<customer, referenced, twins, engine, import>>
    BY DEF Make
  <1>2. issued \in Nat /\ issued <= MaxIds /\ MaxIds \in Nat /\ push[p] \in Push
    BY CustomersAssumption DEF CustomerInv, CustomerTypesOK
  <1>3. PICK id \in 1 .. issued' : Answered(p, id) /\ issued' \in issued .. MaxIds
    BY <1>2 DEF Make
  <1>4. referenced => issued' \in {0, 1}
    BY <1>2 DEF Make, Known, CustomerInv, Issued
  <1> DEFINE q == [push[p] EXCEPT !.at = "made", !.id = id]
  <1>5. q \in Push /\ q.at = "made" /\ q.id = id /\ q.raced = push[p].raced
    <2>1. id \in 0 .. MaxIds
      BY <1>2, <1>3
    <2>2. q \in Push
      BY <1>2, <2>1 DEF Push
    <2>3. q.at = "made" /\ q.id = id /\ q.raced = push[p].raced
      BY <1>2 DEF Push
    <2> QED
      BY <2>2, <2>3
  <1>6. push' = [push EXCEPT ![p] = q]
    BY <1>3 DEF Answered
  <1> HIDE DEF q
  <1> QED
    BY <1>1, <1>3, <1>4, <1>5, <1>6, PushGoesOn

\* The id an answer brings is checked against the other rows before it is written.
LEMMA AnswerKeeps ==
  ASSUME CustomerInv, NEW p \in Pushes, PushAnswered(p)
  PROVE  CustomerInv' /\ customer' = customer
  <1>1. push[p].at = "made" /\ UNCHANGED <<customer, referenced, twins, issued, engine, import>>
    BY DEF PushAnswered
  <1> DEFINE q == IF push[p].id \in twins THEN NoPush ELSE [push[p] EXCEPT !.at = "write"]
  <1>2. /\ q \in Push
        /\ q.at = "idle" \/ (q.at = "write" /\ q.id = push[p].id /\ q.raced = push[p].raced)
    <2>1. NoPush \in Push /\ NoPush.at = "idle"
      BY CustomersAssumption DEF NoPush, Push, NoId
    <2>2. push[p] \in Push
      BY DEF CustomerInv, CustomerTypesOK
    <2>3. /\ [push[p] EXCEPT !.at = "write"] \in Push
          /\ [push[p] EXCEPT !.at = "write"].at = "write"
          /\ [push[p] EXCEPT !.at = "write"].id = push[p].id
          /\ [push[p] EXCEPT !.at = "write"].raced = push[p].raced
      BY <2>2 DEF Push
    <2> HIDE DEF NoPush
    <2> QED
      BY <2>1, <2>3
  <1>3. push' = [push EXCEPT ![p] = q]
    BY DEF PushAnswered
  <1>4. push[p].id \in 1 .. issued
    BY <1>1 DEF CustomerInv, Issued
  <1>5. issued' \in issued .. MaxIds /\ (referenced => issued' \in {0, 1})
    BY <1>1, CustomersAssumption DEF CustomerInv, CustomerTypesOK, Issued
  <1> HIDE DEF q
  <1> QED
    BY <1>1, <1>2, <1>3, <1>4, <1>5, PushGoesOn

\* Whoever writes alone finds the row without an id; with a reference there is only one to write.
LEMMA WriteLearns ==
  ASSUME CustomerInv, NEW p \in Pushes, PushWrite(p)
  PROVE  /\ CustomerInv'
         /\ customer' = customer \/ Learn(customer') \/ (~referenced /\ Overwrites(p))
  <1>1. /\ push[p].at = "write" /\ push' = [push EXCEPT ![p] = NoPush]
        /\ customer' = IF IdIsFree(push[p].id) THEN push[p].id ELSE customer
        /\ UNCHANGED <<referenced, twins, issued, engine, import>>
    BY DEF PushWrite
  <1>2. push[p].id \in 1 .. issued /\ push[p].raced \in BOOLEAN
    BY <1>1 DEF CustomerInv, Issued, CustomerTypesOK, Push
  <1>3. issued \in Nat /\ issued <= MaxIds /\ MaxIds \in Nat
    BY CustomersAssumption DEF CustomerInv, CustomerTypesOK
  <1>4. customer' = customer \/ Learn(customer') \/ (~referenced /\ Overwrites(p))
    <2>1. CASE ~push[p].raced
      <3>1. IsPlaceholder(customer)
        BY <1>1, <2>1 DEF CustomerInv, Unraced
      <3> QED
        BY <1>1, <1>2, <3>1 DEF Learn, IsPlaceholder, NoId
    <2>2. CASE referenced
      <3>1. push[p].id = 1 /\ customer \in {0, 1}
        BY <1>2, <2>2 DEF CustomerInv, Issued
      <3> QED
        BY <1>1, <3>1 DEF Learn, IsPlaceholder, NoId
    <2>3. CASE push[p].raced /\ ~referenced
      BY <1>1, <2>3 DEF Overwrites
    <2> QED
      BY <1>2, <2>1, <2>2, <2>3
  <1>5. NoPush \in Push /\ NoPush.at = "idle"
    BY CustomersAssumption DEF NoPush, Push, NoId
  <1>6. /\ push' \in [Pushes -> Push] /\ push'[p] = NoPush
        /\ \A o \in Pushes : o # p => push'[o] = push[o]
    BY <1>1, <1>5, PushTypes DEF CustomerInv
  <1>7. customer' \in 0 .. issued
    BY <1>1, <1>2, <1>3 DEF CustomerInv, Issued
  <1>8. CustomerTypesOK'
    BY <1>1, <1>3, <1>6, <1>7 DEF CustomerInv, CustomerTypesOK
  <1>9. Issued'
    BY <1>1, <1>5, <1>6, <1>7 DEF CustomerInv, Issued
  <1>10. Unraced'
    BY <1>1, <1>5, <1>6 DEF CustomerInv, Unraced
  <1>11. OneRowPerId'
    BY <1>1 DEF CustomerInv, OneRowPerId, IdIsFree
  <1> QED
    BY <1>4, <1>8, <1>9, <1>10, <1>11 DEF CustomerInv

\* Imports and captures leave our row alone, and never give the other one its id.
LEMMA ImportKeeps ==
  ASSUME CustomerInv,
         \/ \E i \in Imports :
              ImportCustomer(i) \/ ImportReadVehicle(i) \/ ImportWriteVehicle(i) \/ ImportClashes(i)
                \/ ImportStops(i)
         \/ Capture
  PROVE  CustomerInv' /\ customer' = customer
  <1> USE DEF CustomerInv
  <1>1. customer' = customer /\ referenced' = referenced /\ issued' = issued /\ push' = push
    BY DEF ImportCustomer, ImportReadVehicle, ImportWriteVehicle, ImportClashes, ImportStops, Capture
  <1>2. twins' \subseteq 1 .. MaxIds /\ OneRowPerId'
    <2>1. ASSUME NEW i \in Imports, ImportCustomer(i) PROVE twins' \subseteq 1 .. MaxIds /\ OneRowPerId'
      <3>1. PICK id \in 1 .. issued : twins' = IF id = customer THEN twins ELSE twins \cup {id}
        BY <2>1 DEF ImportCustomer
      <3>2. id \in 1 .. MaxIds
        BY <3>1, CustomersAssumption DEF CustomerTypesOK
      <3> QED
        BY <1>1, <3>1, <3>2 DEF CustomerTypesOK, OneRowPerId
    <2>2. CASE twins' = twins
      BY <1>1, <2>2 DEF CustomerTypesOK, OneRowPerId
    <2> QED
      BY <2>1, <2>2 DEF ImportReadVehicle, ImportWriteVehicle, ImportClashes, ImportStops, Capture
  <1>3. engine' \in Engine /\ import' \in [Imports -> Import]
    <2>1. ASSUME NEW i \in Imports, ImportCustomer(i) PROVE engine' = engine /\ import' \in [Imports -> Import]
      <3>1. PICK brings \in Engine : import' = [import EXCEPT ![i] = [at |-> "read", brings |-> brings, saw |-> BlankNumber]]
        BY <2>1 DEF ImportCustomer
      <3>2. [at |-> "read", brings |-> brings, saw |-> BlankNumber] \in Import
        BY DEF Import, Engine
      <3> QED
        BY <2>1, <3>1, <3>2 DEF ImportCustomer, CustomerTypesOK
    <2>2. ASSUME NEW i \in Imports, ImportReadVehicle(i) PROVE engine' = engine /\ import' \in [Imports -> Import]
      <3> DEFINE q == [import[i] EXCEPT !.at = IF @ = "read" THEN "write" ELSE "rewrite", !.saw = engine]
      <3>1. q \in Import
        BY DEF CustomerTypesOK, Import
      <3>2. import' = [import EXCEPT ![i] = q]
        BY <2>2 DEF ImportReadVehicle
      <3> QED
        BY <2>2, <3>1, <3>2 DEF ImportReadVehicle, CustomerTypesOK
    <2>3. ASSUME NEW i \in Imports, ImportWriteVehicle(i) PROVE engine' \in Engine /\ import' \in [Imports -> Import]
      BY <2>3 DEF ImportWriteVehicle, Filled, CustomerTypesOK, Import, NoImport, Engine
    <2>4. ASSUME NEW i \in Imports, ImportClashes(i) PROVE engine' = engine /\ import' \in [Imports -> Import]
      BY <2>4 DEF ImportClashes, CustomerTypesOK, Import
    <2>5. ASSUME NEW i \in Imports, ImportStops(i) PROVE engine' = engine /\ import' \in [Imports -> Import]
      BY <2>5 DEF ImportStops, CustomerTypesOK, Import, NoImport, Engine
    <2>6. CASE Capture
      BY <2>6 DEF Capture, CustomerTypesOK, Engine
    <2> QED
      BY <2>1, <2>2, <2>3, <2>4, <2>5, <2>6 DEF CustomerTypesOK
  <1> QED
    BY <1>1, <1>2, <1>3 DEF CustomerTypesOK, Issued, Unraced

\* At first nothing is made and nothing in flight.
LEMMA CustomerInitKeeps == CustomerInit => CustomerInv
  BY CustomersAssumption DEF CustomerInit, CustomerInv, CustomerTypesOK, Issued, Unraced, OneRowPerId, NoId,
     NoPush, NoImport, Push, Import, Engine

\* What a step may do to our row.
Learns == Learn(customer') \/ (~referenced /\ \E p \in Pushes : Overwrites(p))

\* Every step keeps the invariant, and learns, overwrites or leaves our row alone.
LEMMA StepLearns ==
  CustomerInv /\ [CustomerNext]_customerVars => CustomerInv' /\ referenced' = referenced /\ [Learns]_customer
  <1> SUFFICES ASSUME CustomerInv, [CustomerNext]_customerVars
               PROVE  CustomerInv' /\ referenced' = referenced /\ [Learns]_customer
    OBVIOUS
  <1>1. CASE \E p \in Pushes :
               PushRead(p) \/ Make(p) \/ PushFails(p) \/ PushAnswered(p) \/ PushWrite(p) \/ PushStops(p)
    <2>1. CustomerInv' /\ [Learns]_customer
      BY <1>1, ReadKeeps, EndPushKeeps, MakeKeeps, AnswerKeeps, WriteLearns DEF Learns
    <2>2. referenced' = referenced
      BY <1>1 DEF PushRead, Make, PushFails, PushAnswered, PushWrite, PushStops
    <2> QED
      BY <2>1, <2>2
  <1>2. CASE \/ \E i \in Imports :
                  ImportCustomer(i) \/ ImportReadVehicle(i) \/ ImportWriteVehicle(i) \/ ImportClashes(i)
                    \/ ImportStops(i)
             \/ Capture
    <2>1. referenced' = referenced
      BY <1>2 DEF ImportCustomer, ImportReadVehicle, ImportWriteVehicle, ImportClashes, ImportStops, Capture
    <2> QED
      BY <1>2, <2>1, ImportKeeps
  <1>3. CASE UNCHANGED customerVars
    BY <1>3 DEF customerVars, CustomerInv, CustomerTypesOK, Issued, Unraced, OneRowPerId
  <1> QED
    BY <1>1, <1>2, <1>3 DEF CustomerNext

\* The invariant is one of every behaviour.
LEMMA CustomerInductive == CustomerSpec => []CustomerInv
  BY CustomerInitKeeps, StepLearns, PTL DEF CustomerSpec

\* Rows and requests have the values the module lists.
THEOREM CustomerTypes == CustomerSpec => []CustomerTypesOK
  BY CustomerInductive, PTL DEF CustomerInv

\* No other local row ever has our customer's id.
THEOREM NobodyHasOurId == CustomerSpec => []OneRowPerId
  BY CustomerInductive, PTL DEF CustomerInv

\* The customer learns one id and keeps it, unless it has no reference and pushes of it overlap; with
\* a reference EvolveCustomers implements EvolveIdentity, however they overlap (customerEvolveSync:
\* only a placeholder is pushed, and the write over a real id is what an overlapping push does).
THEOREM ImplementsIdentity == CustomerSpec => IdentityStands /\ (referenced => Identity)
  <1>1. CustomerInit => IsPlaceholder(customer)
    BY DEF CustomerInit, IsPlaceholder
  <1>2. [Learns]_customer <=> [Learn(customer') \/ (~referenced /\ \E p \in Pushes : Overwrites(p))]_customer
    BY DEF Learns
  <1>3. referenced /\ [Learns]_customer => [Learn(customer')]_customer
    BY DEF Learns
  <1>4. referenced /\ referenced' = referenced => referenced'
    OBVIOUS
  <1>5. CustomerSpec => [][Learns]_customer
    BY StepLearns, CustomerInductive, PTL DEF CustomerSpec
  <1>6. CustomerSpec => IdentityStands
    BY <1>1, <1>2, <1>5, PTL DEF CustomerSpec, IdentityStands
  <1>7. CustomerSpec /\ referenced => []referenced
    BY <1>4, StepLearns, CustomerInductive, PTL DEF CustomerSpec
  <1>8. CustomerSpec /\ referenced => Identity
    BY <1>1, <1>3, <1>5, <1>7, PTL DEF CustomerSpec, Identity
  <1> QED
    BY <1>6, <1>8

\* The engine number goes blank only by an import that saw none.
THEOREM EngineIsKept == CustomerSpec => EngineKept
  <1>1. ASSUME CustomerInv, [CustomerNext]_customerVars
        PROVE  [engine # BlankNumber /\ engine' = BlankNumber =>
                  \E i \in Imports : import[i].at \in {"write", "rewrite"} /\ import[i].saw = BlankNumber]_engine
    <2> SUFFICES ASSUME engine # BlankNumber, engine' = BlankNumber
                 PROVE  \E i \in Imports : import[i].at \in {"write", "rewrite"} /\ import[i].saw = BlankNumber
      OBVIOUS
    <2>1. PICK i \in Imports : ImportWriteVehicle(i)
      <3>1. engine' # engine /\ "number" # BlankNumber
        BY DEF BlankNumber
      <3> QED
        BY <1>1, <3>1 DEF CustomerNext, customerVars, PushRead, Make, PushFails, PushAnswered, PushWrite, PushStops,
                          ImportCustomer, ImportReadVehicle, ImportClashes, ImportStops, Capture
    <2> QED
      BY <2>1 DEF ImportWriteVehicle, Filled
  <1> QED
    BY <1>1, CustomerInductive, PTL DEF CustomerSpec, EngineKept

-----------------------------------------------------------------------------
(* What a message says and what an answer is taken to say (ModelCodes,     *)
(* RepairOrderMessage, EvolveTransport), for every catalogue, card and run *)
(* of attempts.                                                            *)

Model == INSTANCE ModelCodes

Transport == INSTANCE EvolveTransport

RoMessage == INSTANCE RepairOrderMessage

\* Of some codes one is given, if there is one and no other.
LEMMA OneOfGives ==
  ASSUME NEW codes, NEW confidence
  PROVE  \/ Model!OneOf(codes, confidence) = <<"AMBIGUOUS", Model!NoCode>>
         \/ \E c \in codes : codes = {c} /\ Model!OneOf(codes, confidence) = <<confidence, c>>
  BY DEF Model!OneOf

\* A code of the confidence HIGH is the only one with the description.
LEMMA HighIsTheOnly ==
  ASSUME NEW model, NEW catalogue, Model!Match(model, catalogue)[1] = "HIGH"
  PROVE  \E c \in Model!Codes(catalogue) :
           /\ Model!Exact(model, catalogue) = {c}
           /\ Model!Match(model, catalogue) = <<"HIGH", c>>
           /\ Model!Letters(model) # <<>>
  <1> DEFINE exact == Model!Exact(model, catalogue)
             near == Model!Reaching(model, catalogue, Model!FuzzyThreshold)
  <1>1. /\ Model!Letters(model) # <<>>
        /\ exact # {}
        /\ Model!Match(model, catalogue) = Model!OneOf(exact, "HIGH")
    <2>1. Model!OneOf(near, "MEDIUM")[1] # "HIGH"
      BY OneOfGives
    <2> QED
      BY <2>1 DEF Model!Match
  <1>2. PICK c \in exact : exact = {c} /\ Model!OneOf(exact, "HIGH") = <<"HIGH", c>>
    <2>1. Model!OneOf(exact, "HIGH") # <<"AMBIGUOUS", Model!NoCode>>
      BY <1>1
    <2> QED
      BY <2>1, OneOfGives
  <1>3. c \in Model!Codes(catalogue)
    BY <1>2 DEF Model!Exact, Model!Codes
  <1> QED
    BY <1>1, <1>2, <1>3

\* "NO first-code fallback", for every catalogue: a code that is sent is never another for more rows.
THEOREM MoreRowsNeverMislead ==
  ASSUME NEW model, NEW catalogue, NEW more
  PROVE  Model!MoreRowsNeverChangeTheCode(model, catalogue, more)
  <1> SUFFICES ASSUME Model!Match(model, catalogue)[1] = "HIGH"
               PROVE  Model!Match(model, catalogue \cup more)
                        \in {Model!Match(model, catalogue), <<"AMBIGUOUS", Model!NoCode>>}
    BY DEF Model!MoreRowsNeverChangeTheCode
  <1> DEFINE all == catalogue \cup more
             exact == Model!Exact(model, all)
  <1>1. PICK c \in Model!Codes(catalogue) :
          /\ Model!Exact(model, catalogue) = {c}
          /\ Model!Match(model, catalogue) = <<"HIGH", c>>
          /\ Model!Letters(model) # <<>>
    BY HighIsTheOnly
  <1>2. c \in exact /\ c \in Model!Codes(all)
    <2>1. c \in Model!Exact(model, catalogue)
      BY <1>1
    <2> QED
      BY <2>1 DEF Model!Exact, Model!Codes
  <1>3. Model!Match(model, all) = Model!OneOf(exact, "HIGH")
    BY <1>1, <1>2 DEF Model!Match
  <1>4. CASE Model!OneOf(exact, "HIGH") = <<"AMBIGUOUS", Model!NoCode>>
    BY <1>3, <1>4
  <1>5. CASE \E d \in exact : exact = {d} /\ Model!OneOf(exact, "HIGH") = <<"HIGH", d>>
    BY <1>1, <1>2, <1>3, <1>5
  <1> QED
    BY <1>4, <1>5, OneOfGives

\* "Fail-closed", for every catalogue: under ENFORCE no repair order goes without a code, and one
\* that was not stored is the only one of the model's description.
THEOREM EnforcedGateFailsClosed ==
  ASSUME NEW mode \in Model!Modes, NEW stored \in Nat, NEW model, NEW catalogue
  PROVE  Model!FailsClosed(mode, stored, model, catalogue)
  <1> DEFINE answer == Model!Match(model, catalogue)
             gate == Model!Gate(mode, stored, answer)
  <1>1. CASE stored # Model!NoCode
    BY <1>1 DEF Model!FailsClosed, Model!Gate
  <1>2. CASE stored = Model!NoCode /\ mode # "OFF" /\ answer[1] = "HIGH"
    <2>1. PICK c \in Model!Codes(catalogue) : Model!Exact(model, catalogue) = {c} /\ answer = <<"HIGH", c>>
      BY <1>2, HighIsTheOnly
    <2>2. c # Model!NoCode
      BY DEF Model!Codes
    <2>3. gate = <<"PROCEED", c>>
      BY <1>2, <2>1 DEF Model!Gate
    <2> QED
      BY <2>1, <2>2, <2>3 DEF Model!FailsClosed
  <1>3. CASE stored = Model!NoCode /\ ~(mode # "OFF" /\ answer[1] = "HIGH")
    BY <1>3 DEF Model!FailsClosed, Model!Gate
  <1> QED
    BY <1>1, <1>2, <1>3

\* What a line is made of; 0 hours are hours, negative ones are none.
LabourItem == [assigned : BOOLEAN, tech : Nat, line : Nat, worked : Int, sold : Int, estimated : Int, group : Nat]

\* The new lines are counted from one, so that a line has a number.
LEMMA LinesHaveNumbers ==
  ASSUME NEW count \in Nat, NEW items \in [1 .. count -> LabourItem], NEW n \in RoMessage!Sendable(items)
  PROVE  /\ RoMessage!LineNumber(items, n) \in Nat
         /\ RoMessage!LineNumber(items, n) # RoMessage!None
  <1> DEFINE upTo == {m \in RoMessage!Sendable(items) : m <= n /\ items[m].line = RoMessage!None}
  <1>1. n \in 1 .. count /\ items[n].line \in Nat
    BY DEF RoMessage!Sendable, RoMessage!Assigned, LabourItem
  <1>2. CASE items[n].line # RoMessage!None
    BY <1>1, <1>2 DEF RoMessage!LineNumber
  <1>3. CASE items[n].line = RoMessage!None
    <2>1. IsFiniteSet(upTo)
      <3>1. upTo \subseteq 1 .. count /\ IsFiniteSet(1 .. count)
        BY FS_Interval DEF RoMessage!Sendable, RoMessage!Assigned
      <3> QED
        BY <3>1, FS_Subset
    <2>2. n \in upTo
      BY <1>1, <1>3
    <2>3. Cardinality(upTo) \in Nat /\ Cardinality(upTo) # 0
      BY <2>1, <2>2, FS_CardinalityType, FS_EmptySet
    <2>4. RoMessage!LineNumber(items, n) = RoMessage!Cardinality(upTo)
      BY <1>3 DEF RoMessage!LineNumber
    <2>5. RoMessage!Cardinality(upTo) = Cardinality(upTo)
      BY DEF RoMessage!Cardinality, Cardinality
    <2> QED
      BY <2>3, <2>4, <2>5 DEF RoMessage!None
  <1> QED
    BY <1>2, <1>3

\* To keep the numbers of the lines changes nothing else of an item.
LEMMA NumbersAreKept ==
  ASSUME NEW count \in Nat, NEW items \in [1 .. count -> LabourItem]
  PROVE  LET kept == RoMessage!Numbered(items)
         IN /\ kept \in [1 .. count -> LabourItem]
            /\ \A n \in 1 .. count : /\ kept[n].assigned = items[n].assigned
                                     /\ RoMessage!Reason(kept[n]) = RoMessage!Reason(items[n])
            /\ \A n \in RoMessage!Sendable(items) : kept[n].line = RoMessage!LineNumber(items, n)
  <1> DEFINE kept == RoMessage!Numbered(items)
  <1>1. \A n \in 1 .. count : items[n] \in LabourItem
    OBVIOUS
  <1>2. \A n \in RoMessage!Sendable(items) : n \in 1 .. count /\ RoMessage!LineNumber(items, n) \in Nat
    BY LinesHaveNumbers DEF RoMessage!Sendable, RoMessage!Assigned
  <1>3. kept = [n \in 1 .. count |->
                  IF n \in RoMessage!Sendable(items) THEN [items[n] EXCEPT !.line = RoMessage!LineNumber(items, n)] ELSE items[n]]
    BY DEF RoMessage!Numbered
  <1> HIDE DEF kept
  <1>4. ASSUME NEW n \in 1 .. count
        PROVE  /\ kept[n] \in LabourItem
               /\ kept[n].assigned = items[n].assigned
               /\ kept[n].tech = items[n].tech /\ kept[n].worked = items[n].worked
               /\ kept[n].sold = items[n].sold /\ kept[n].estimated = items[n].estimated
               /\ n \in RoMessage!Sendable(items) => kept[n].line = RoMessage!LineNumber(items, n)
    BY <1>1, <1>2, <1>3 DEF LabourItem
  <1>5. \A n \in 1 .. count : RoMessage!Reason(kept[n]) = RoMessage!Reason(items[n])
    BY <1>4 DEF RoMessage!Reason, RoMessage!Sold
  <1> QED
    BY <1>2, <1>3, <1>4, <1>5 DEF kept

\* "A re-send updates the same line", for a card of any length: after a push that succeeded
\* every line is sent again under its number, and none as new.
THEOREM ResendUpdatesTheLines ==
  ASSUME NEW ro \in Nat, NEW count \in Nat, NEW items \in [1 .. count -> LabourItem]
  PROVE  RoMessage!SentAgainIsUpdated(ro, items)
  <1> SUFFICES ASSUME ro # RoMessage!None, RoMessage!Unresolved(items) = {}
               PROVE  /\ RoMessage!Numbers(RoMessage!LinesSent(ro, RoMessage!Pushed(ro, items)))
                           = RoMessage!Numbers(RoMessage!LinesSent(ro, items))
                      /\ \A n \in RoMessage!Sendable(items) :
                           RoMessage!LinesSent(ro, RoMessage!Pushed(ro, items))[n].status = "U"
    BY DEF RoMessage!SentAgainIsUpdated
  <1> DEFINE kept == RoMessage!Numbered(items)
  <1>1. /\ kept \in [1 .. count -> LabourItem]
        /\ \A n \in 1 .. count : kept[n].assigned = items[n].assigned /\ RoMessage!Reason(kept[n]) = RoMessage!Reason(items[n])
        /\ \A n \in RoMessage!Sendable(items) : kept[n].line = RoMessage!LineNumber(items, n)
    BY NumbersAreKept
  <1>2. RoMessage!Pushed(ro, items) = kept
    BY DEF RoMessage!Pushed
  <1> HIDE DEF kept
  <1>3. RoMessage!Assigned(kept) = RoMessage!Assigned(items) /\ RoMessage!Unresolved(kept) = {}
    BY <1>1 DEF RoMessage!Assigned, RoMessage!Unresolved
  <1>4. RoMessage!Sendable(kept) = RoMessage!Sendable(items)
    BY <1>3 DEF RoMessage!Sendable
  <1>5. /\ RoMessage!LinesSent(ro, items) = RoMessage!LabourLines(items)
        /\ RoMessage!LinesSent(ro, kept) = RoMessage!LabourLines(kept)
    BY <1>3 DEF RoMessage!LinesSent
  <1>6. \A n \in RoMessage!Sendable(items) : /\ kept[n].line # RoMessage!None
                                           /\ RoMessage!LineNumber(kept, n) = RoMessage!LineNumber(items, n)
    BY <1>1, LinesHaveNumbers DEF RoMessage!LineNumber
  <1>7. \A n \in RoMessage!Sendable(items) : /\ RoMessage!LabourLines(kept)[n].number = RoMessage!LabourLines(items)[n].number
                                           /\ RoMessage!LabourLines(kept)[n].status = "U"
    BY <1>4, <1>6 DEF RoMessage!LabourLines
  <1>8. /\ DOMAIN RoMessage!LabourLines(kept) = RoMessage!Sendable(items)
        /\ DOMAIN RoMessage!LabourLines(items) = RoMessage!Sendable(items)
    BY <1>4 DEF RoMessage!LabourLines
  <1>9. RoMessage!Numbers(RoMessage!LabourLines(kept)) = RoMessage!Numbers(RoMessage!LabourLines(items))
    BY <1>7, <1>8 DEF RoMessage!Numbers
  <1> QED
    BY <1>2, <1>5, <1>7, <1>9

\* What one attempt may bring.
AttemptAnswer ==
  [transport : Transport!Transports, http : Transport!Https, parses : BOOLEAN, status : {"S", "F", "none"},
   rowStatus : {"S", "W", "F", "none"}, marker : Transport!Markers, rows : SUBSET Nat]

\* A call ends: with its last attempt, or with the first that is not sent again.
LEMMA CallsEnd ==
  ASSUME NEW name \in {"callIrm", "callIrmAll", "postEvolveXml", "customerMaintenance", "roMaintenance"},
         NEW answers
  PROVE  Transport!Ends(name, answers) \in 1 .. Transport!Policies[name].attempts
  <1> DEFINE bound == Transport!Policies[name].attempts
             Ending(n) == /\ n = bound \/ ~Transport!Retries(name, answers[n])
                          /\ \A m \in 1 .. n - 1 : Transport!Retries(name, answers[m])
  <1>1. bound \in {2, 3}
    BY DEF Transport!Policies
  <1> HIDE DEF bound
  <1>2. \E n \in 1 .. bound : Ending(n)
    <2>1. CASE ~Transport!Retries(name, answers[1])
      BY <1>1, <2>1
    <2>2. CASE Transport!Retries(name, answers[1]) /\ (bound = 2 \/ ~Transport!Retries(name, answers[2]))
      BY <1>1, <2>2
    <2>3. CASE Transport!Retries(name, answers[1]) /\ Transport!Retries(name, answers[2]) /\ bound = 3
      BY <1>1, <2>3
    <2> QED
      BY <1>1, <2>1, <2>2, <2>3
  <1> QED
    BY <1>2 DEF Transport!Ends, bound

\* callIrmAll, whatever the attempts bring: a customer is missing only on Evolve's word, and
\* trouble on the way hides none that the last attempt brings.
THEOREM MissingOnEvolvesWord ==
  ASSUME NEW answers \in [1 .. 3 -> AttemptAnswer]
  PROVE  Transport!MissingIsSaidByEvolve(answers)
  <1> DEFINE end == Transport!Ends("callIrmAll", answers)
             last == Transport!LastAnswer("callIrmAll", answers)
  <1>1. end \in 1 .. 3
    BY CallsEnd DEF Transport!Policies
  <1>2. last = answers[end] /\ last \in AttemptAnswer
    BY <1>1 DEF Transport!LastAnswer
  <1>3. (\A n \in DOMAIN answers : Transport!Throws(answers[n])) => Transport!Throws(last)
    BY <1>1, <1>2
  <1> HIDE DEF end, last
  <1>4. Transport!LookUpAll(answers) = IF Transport!Throws(last) THEN "UNAVAILABLE" ELSE Transport!Classified(last)
    BY DEF Transport!LookUpAll, last
  <1>5. /\ Transport!Classified(last) = "NOT_FOUND" => last.status = "S" \/ last.marker = "no record"
        /\ Transport!Classified(last) = "FOUND" <=> Transport!Rows(last) # {}
    BY DEF Transport!Classified
  <1> QED
    BY <1>3, <1>4, <1>5 DEF Transport!MissingIsSaidByEvolve, last
=============================================================================
