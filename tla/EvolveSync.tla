------------------------------ MODULE EvolveSync ------------------------------
(***************************************************************************)
(* A job card and its repair order in the dealer system Evolve: CREATE,    *)
(* UPDATE, the parking of what fails and the sweep that tries again        *)
(* (services/jobCardEvolveSync), the messages (services/evolveIrm) and the *)
(* lock of the sweep (shared/utils/pgAdvisoryLock).                        *)
(*                                                                         *)
(* Calls are fired and forgotten after a commit and overlap freely; only   *)
(* sweeps exclude each other.  Not every change of what a message says     *)
(* fires one: the parts desk and a customer who rejects do not.  A message *)
(* to Evolve may be lost on its way, its answer may be lost, and it may be *)
(* carried out after the caller stopped waiting.  Evolve is external: a    *)
(* message without an RO number makes a new RO whatever its reference.     *)
(***************************************************************************)
EXTENDS EvolveIdentity, FiniteSets, Sequences

CONSTANTS
  Hooks,        \* numbers of the calls after a change: 1 follows createJobCard
  Sweepers,     \* the sweeps of the servers, numbered as they start
  MaxAttempts,  \* EVOLVE_RO_MAX_ATTEMPTS
  MaxRos,       \* bound: ROs Evolve makes
  MaxData,      \* bound: versions of what a message would carry
  ModelMode,    \* EVOLVE_MODELCODE_MODE
  EngineMode,   \* EVOLVE_ENGINE_NUMBER_MODE
  Seeds         \* a new card: its customer, its gap, whether its vehicle has another card's RO, and
                \* the number of its first version, from which MaxData bounds the later ones

Callers == Hooks \cup Sweepers

NoRo == 0

NoSweeper == 0   \* the calls after a change have numbers from 1

\* The one thing the data of the card lacks.
Gap == {"none", "model", "ambiguous", "hard", "engine", "labour"}

ASSUME SyncAssumption ==
  /\ Callers \subseteq Nat \ {0} /\ Hooks \cap Sweepers = {} /\ 1 \in Hooks
  /\ MaxAttempts \in Nat \ {0} /\ MaxRos \in Nat \ {0} /\ MaxData \in Nat \ {0}
  /\ ModelMode \in {"OFF", "LOG", "WARN", "ENFORCE"} /\ EngineMode \in {"OFF", "LOG", "ENFORCE"}
  /\ \A seed \in Seeds : seed.gap \in Gap /\ seed.customer \in Nat /\ seed.data \in 1 .. MaxData

VARIABLES
  card,      \* the job card's columns for Evolve; data: what a message would carry, by version;
             \* hook and told: the last call that followed a change, and the version it followed
  ros,       \* Evolve's ROs of the vehicle, by number
  late,      \* messages whose caller waits no more
  sweeping,  \* holder of the advisory lock
  call,      \* caller -> the call in flight
  marred     \* "ro", "contents": what OneRo, SyncedIsFresh cannot promise any more; "fault"

vars == <<customer, card, ros, late, sweeping, call, marred>>

SyncStatus == {"NULL", "PENDING", "SYNCED", "FAILED", "DEFERRED", "NEEDS_MANUAL"}

Ro == [ours : BOOLEAN, data : Nat]

NoCall == [at |-> "idle"]

InFlight == {r \in Callers : call[r].at # "idle"}

Ours == {n \in DOMAIN ros : ros[n].ours}

Goto(r, at) == call' = [call EXCEPT ![r].at = at]

Do(r, q) == call' = [call EXCEPT ![r] = q]

\* A call that ends lets go of the lock.
EndOf(r) ==
  /\ call' = [call EXCEPT ![r] = NoCall]
  /\ sweeping' = IF sweeping = r THEN NoSweeper ELSE sweeping

Mar(what) == marred' = marred \cup what

Fault(what) == "fault" \notin marred /\ Mar(what \cup {"fault"})

Init ==
  \E seed \in Seeds :
    /\ customer = seed.customer
    /\ card = [ro |-> NoRo, status |-> "NULL", attempts |-> 0, ref |-> FALSE,
               gap |-> seed.gap, data |-> seed.data, hook |-> 1, told |-> seed.data]
    /\ ros = IF seed.other THEN <<[ours |-> FALSE, data |-> 0]>> ELSE <<>>
    /\ late = {} /\ sweeping = NoSweeper /\ marred = {}
    /\ call = [r \in Callers |-> IF r = 1 THEN [at |-> "create"] ELSE NoCall]

-----------------------------------------------------------------------------
(* What starts a call.                                                     *)

\* A change of the card or of its visit; syncJobCardUpdateToEvolve after the commit.
Change(r) ==
  /\ r = card.hook + 1 /\ card.data < MaxData
  /\ card' = [card EXCEPT !.data = @ + 1, !.hook = r, !.told = card.data + 1]
  /\ Do(r, [at |-> "update"])
  /\ Mar(IF InFlight = {} THEN {} ELSE {"ro", "contents"})
  /\ UNCHANGED <<ros, late, sweeping, customer>>

\* The parts desk adds a priced line, or the customer rejects one: the lines and the total are other
\* ones, and nobody calls.
ChangeUntold ==
  /\ card.data < MaxData
  /\ card' = [card EXCEPT !.data = @ + 1]
  /\ UNCHANGED <<ros, late, sweeping, call, marred, customer>>

\* The vehicle or the technician's mapping is completed.
Repair ==
  /\ card.gap # "none"
  /\ card' = [card EXCEPT !.gap = "none"]
  /\ UNCHANGED <<ros, late, sweeping, call, marred, customer>>

EligibleUnlessPending == card.status \in {"NULL", "FAILED", "DEFERRED"}

\* evolveNextRetryAt has passed when the sweep comes.
Eligible == card.status \in {"NULL", "FAILED", "DEFERRED", "PENDING"}

LockFree == sweeping = NoSweeper

\* withAdvisoryLock(JOB_CARD_RECONCILE, reconcileUnsyncedJobCards)
Sweep(r) ==
  /\ call[r].at = "idle" /\ \A s \in Sweepers : s < r => call[s].at # "idle"
  /\ LockFree /\ Eligible
  /\ sweeping' = r
  /\ Do(r, [at |-> IF card.ro = NoRo THEN "create" ELSE "update"])
  /\ Mar(IF InFlight \cap Hooks = {} THEN {} ELSE {"ro", "contents"})
  /\ UNCHANGED <<card, ros, late, customer>>

-----------------------------------------------------------------------------
(* The gates in front of a message, and how a card is parked.              *)

\* What the model-code gate and the mandatory fields say, in their order.
GapVerdict(gap) ==
  CASE gap = "hard" \/ (gap = "ambiguous" /\ ModelMode = "ENFORCE") -> "manual"
    [] gap = "model" \/ (gap = "ambiguous" /\ ModelMode # "ENFORCE") -> "defer"
    [] OTHER -> "go"

\* Only CREATE needs the owner's id.
CreateVerdict == IF IsPlaceholder(customer) THEN "defer" ELSE GapVerdict(card.gap)

\* parkRetryable, with the count its call has read.
Parked(status, attempts) ==
  IF attempts + 1 >= MaxAttempts
  THEN [card EXCEPT !.status = "NEEDS_MANUAL", !.attempts = attempts + 1]
  ELSE [card EXCEPT !.status = status, !.attempts = attempts + 1]

Parking(status) == [at |-> "park", status |-> status, attempts |-> card.attempts]

ParkNow(r, status) ==
  /\ card' = Parked(status, call[r].attempts)
  /\ EndOf(r)

Park(r) ==
  /\ call[r].at = "park"
  /\ ParkNow(r, call[r].status)
  /\ UNCHANGED <<ros, late, marred, customer>>

ParkManual(r) ==
  /\ call[r].at = "manual"
  /\ card' = [card EXCEPT !.status = "NEEDS_MANUAL"]
  /\ EndOf(r)
  /\ UNCHANGED <<ros, late, marred, customer>>

Verdict(r, verdict, goOn) ==
  Do(r, CASE verdict = "go" -> goOn
          [] verdict = "defer" -> Parking("DEFERRED")
          [] verdict = "manual" -> [at |-> "manual"])

-----------------------------------------------------------------------------
(* The CREATE path up to its message.                                      *)

Blank(gap) == gap = "engine" /\ EngineMode = "ENFORCE"

LoadForCreate(r) ==
  /\ call[r].at = "create"
  /\ IF card.ro # NoRo
     THEN EndOf(r)
     ELSE /\ Verdict(r, CreateVerdict,
                     [at |-> IF card.ref THEN "ready" ELSE "ref", attempts |-> card.attempts,
                      blank |-> Blank(card.gap)])
          /\ UNCHANGED sweeping
  /\ UNCHANGED <<card, ros, late, marred, customer>>

\* The reference is kept before anything is sent.
KeepRef(r) ==
  /\ call[r].at = "ref"
  /\ card' = [card EXCEPT !.ref = TRUE, !.status = "PENDING"]
  /\ Goto(r, "ready")
  /\ UNCHANGED <<ros, late, sweeping, marred, customer>>

AsksNever(r) == FALSE

\* A retry must first see whether an earlier attempt has reached Evolve.
AsksHistory(r) == call[r].attempts > 0

AnyOfTheVehicle == DOMAIN ros

\* IRM_ROHistoryLookup gives the ROs of the vehicle; the reference tells the card's own.
Adoptable == Ours

\* No answer, and the card waits; or its own RO; or none, and it is made.
LookUp(r) ==
  /\ call[r].at = "ready"
  /\ AsksHistory(r)
  /\ \/ ParkNow(r, "DEFERRED")
     \/ /\ \/ \E n \in Adoptable : Do(r, [at |-> "adopt", ro |-> n])
           \/ Adoptable = {} /\ Goto(r, "unmade")
        /\ UNCHANGED <<card, sweeping>>
  /\ UNCHANGED <<ros, late, marred, customer>>

ToBeMade(r) ==
  \/ call[r].at = "unmade"
  \/ call[r].at = "ready" /\ ~AsksHistory(r)

\* The engine number is waited for without a limit.
ParkSoft(r) ==
  /\ ToBeMade(r) /\ call[r].blank
  /\ card' = [card EXCEPT !.status = "DEFERRED"]
  /\ EndOf(r)
  /\ UNCHANGED <<ros, late, marred, customer>>

\* The RO an earlier attempt made becomes the card's; go on as an UPDATE.
Adopt(r) ==
  /\ call[r].at = "adopt"
  /\ card' = [card EXCEPT !.ro = call[r].ro]
  /\ Do(r, [at |-> "update"])
  /\ UNCHANGED <<ros, late, sweeping, marred, customer>>

-----------------------------------------------------------------------------
(* The UPDATE path up to its message.                                      *)

LoadForUpdate(r) ==
  /\ call[r].at = "update"
  /\ IF card.ro = NoRo
     THEN Goto(r, "create")
     ELSE Verdict(r, GapVerdict(card.gap),
                  [at |-> "labour", ro |-> card.ro, attempts |-> card.attempts])
  /\ UNCHANGED <<card, ros, late, sweeping, marred, customer>>

\* A labour line without technician number or hours defers the whole card.
ParkLabour(r) ==
  /\ call[r].at = "labour" /\ card.gap = "labour"
  /\ ParkNow(r, "DEFERRED")
  /\ UNCHANGED <<ros, late, marred, customer>>

-----------------------------------------------------------------------------
(* The message.                                                            *)

Message(r) == [ro |-> call[r].ro, data |-> call[r].data]

\* buildRoInput reads what is current; roMaintenance posts it.
Post(r, ro) ==
  /\ Do(r, [at |-> "sent", ro |-> ro, attempts |-> call[r].attempts,
            again |-> FALSE, got |-> NoRo, data |-> card.data])
  /\ UNCHANGED <<card, ros, late, sweeping, marred, customer>>

SendCreate(r) ==
  /\ ToBeMade(r) /\ ~call[r].blank
  /\ Post(r, NoRo)

SendUpdate(r) ==
  /\ call[r].at = "labour" /\ card.gap # "labour"
  /\ Post(r, call[r].ro)

\* Without an RO number a new RO, with one that RO's new contents.
CarryOut(m) ==
  IF m.ro = NoRo
  THEN Len(ros) < MaxRos /\ ros' = Append(ros, [ours |-> TRUE, data |-> m.data])
  ELSE ros' = [ros EXCEPT ![m.ro].data = m.data]

Arrive(r) ==
  /\ call[r].at = "sent"
  /\ CarryOut(Message(r))
  /\ call' = [call EXCEPT ![r].at = "done", ![r].got = IF call[r].ro = NoRo THEN Len(ros) + 1 ELSE call[r].ro]
  /\ UNCHANGED <<card, late, sweeping, marred, customer>>

RefuseUnread(r) ==
  /\ call[r].at = "sent"
  /\ card' = [card EXCEPT !.status = "SYNCED", !.attempts = 0]
  /\ EndOf(r)
  /\ UNCHANGED <<ros, late, marred, customer>>

\* Evolve says no, or says yes to a CREATE and leaves out the number.
Refuse(r) ==
  /\ \/ call[r].at = "sent"
     \/ call[r].at = "done" /\ call[r].ro = NoRo
  /\ ParkNow(r, "FAILED")
  /\ UNCHANGED <<ros, late, marred, customer>>

\* A message on its way when its caller gives up is lost, or is carried out later.  What a late
\* UPDATE then overwrites is not followed.
Stray(r) ==
  /\ call[r].at = "sent"
  /\ Fault({"ro", "contents"})
  /\ late' = late \cup (IF call[r].ro = NoRo THEN {Message(r)} ELSE {})

\* A connection error: roMaintenance posts the same message once more.
Resend(r) ==
  /\ call[r].at \in {"sent", "done"}
  /\ ~call[r].again
  /\ \/ Stray(r)
     \/ /\ Fault(IF call[r].at = "done" /\ call[r].ro = NoRo THEN {"ro"} ELSE {})
        /\ UNCHANGED late
  /\ call' = [call EXCEPT ![r].at = "sent", ![r].again = TRUE, ![r].got = NoRo]
  /\ UNCHANGED <<card, ros, sweeping, customer>>

\* Out of time, or the connection broke again: markJobCardSyncFailed reads the count anew.
GiveUp(r) ==
  /\ call[r].at \in {"sent", "done"}
  /\ Stray(r) \/ UNCHANGED <<late, marred>>
  /\ Do(r, Parking("FAILED"))
  /\ UNCHANGED <<card, ros, sweeping, customer>>

ArriveLate ==
  \E m \in late :
    /\ CarryOut(m)
    /\ late' = late \ {m}
    /\ UNCHANGED <<card, sweeping, call, marred, customer>>

\* CREATE keeps the number it was answered, UPDATE has it already.
Save(r) ==
  /\ call[r].at = "done"
  /\ card' = [card EXCEPT !.ro = IF call[r].ro = NoRo THEN call[r].got ELSE @,
                          !.status = "SYNCED", !.attempts = 0]
  /\ EndOf(r)
  /\ UNCHANGED <<ros, late, marred, customer>>

-----------------------------------------------------------------------------

\* The card does not know of an attempt that may have made an RO.
Forgotten(r) ==
  /\ call[r].at \in {"sent", "done"} \/ call[r] = Parking("FAILED")
  /\ card.ro = NoRo /\ card.attempts = 0

\* The server of a call stops, once: its session ends and the lock with it.
Stop(r) ==
  /\ call[r].at # "idle"
  /\ Fault({"contents"} \cup (IF Forgotten(r) THEN {"ro"} ELSE {}))
  /\ EndOf(r)
  /\ UNCHANGED <<card, ros, late, customer>>

Step(r) ==
  \/ LoadForCreate(r) \/ KeepRef(r) \/ LookUp(r) \/ Adopt(r) \/ ParkSoft(r) \/ SendCreate(r)
  \/ LoadForUpdate(r) \/ ParkLabour(r) \/ SendUpdate(r)
  \/ Arrive(r) \/ Refuse(r) \/ Resend(r) \/ GiveUp(r) \/ Save(r)
  \/ Park(r) \/ ParkManual(r)

\* What EvolveCustomers does, seen from here.
Customers ==
  /\ Learn(1)
  /\ UNCHANGED <<card, ros, late, sweeping, call, marred>>

\* What the servers do by themselves.
Work == (\E r \in Sweepers : Sweep(r)) \/ (\E r \in Callers : Step(r))

Next ==
  \/ Work
  \/ Repair \/ ChangeUntold \/ ArriveLate \/ Customers
  \/ \E r \in Hooks : Change(r)
  \/ \E r \in Callers : Stop(r)

Spec == Init /\ [][Next]_vars /\ WF_vars(Work)

-----------------------------------------------------------------------------
(* Properties.                                                             *)

\* What a call knows, after each of its statements and messages: the count of attempts it has read,
\* whether the engine number lacks, the RO it writes to, the contents it sends, the number answered.
Call ==
  [at : {"idle", "create", "update", "manual"}]
    \cup [at : {"ref", "ready", "unmade"}, attempts : Nat, blank : BOOLEAN]
    \cup [at : {"adopt"}, ro : Nat]
    \cup [at : {"labour"}, ro : Nat, attempts : Nat]
    \cup [at : {"sent", "done"}, ro : Nat, attempts : Nat, again : BOOLEAN, got : Nat, data : Nat]
    \cup [at : {"park"}, status : {"DEFERRED", "FAILED"}, attempts : Nat]

\* What a call was fired for is something the card has come to hold.
Card ==
  {c \in [ro : 0 .. MaxRos, status : SyncStatus, attempts : Nat, ref : BOOLEAN, gap : Gap,
          data : Nat, hook : Hooks, told : Nat] : c.told <= c.data}

TypeOK ==
  /\ customer \in Nat
  /\ card \in Card
  /\ ros \in Seq(Ro) /\ Len(ros) <= MaxRos
  /\ late \subseteq [ro : {NoRo}, data : Nat]
  /\ sweeping \in Sweepers \cup {NoSweeper}
  /\ call \in [Callers -> Call]
  /\ marred \subseteq {"ro", "contents", "fault"}

\* The RO a card is tied to is in Evolve and was made for it: UPDATE writes to no other card's RO.
NumberIsOurs == card.ro = NoRo \/ card.ro \in Ours

\* However many attempts fail, lose their answer or stop after the first failure is on record, and
\* whichever server sweeps, one card makes one RO.  Not so when calls after a change overlap others,
\* when the transport repeats a message that had arrived or one arrives after its caller left, or when
\* the server stops with the first attempt's outcome unknown: these are marred.
OneRo ==
  "ro" \notin marred => Cardinality(Ours) <= 1

\* Once its calls are over, a card shown as SYNCED has in Evolve what it held at the last change that
\* fires a call, or something later, provided no calls overlapped, stopped, or left a message behind.
\* Changes that fire none may be missing there, with the card SYNCED all the same.
SyncedIsFresh ==
  InFlight = {} /\ card.status = "SYNCED" /\ "contents" \notin marred
    => card.ro \in DOMAIN ros /\ ros[card.ro].data \in card.told .. card.data

Settled == InFlight = {} /\ card.status \in {"SYNCED", "NEEDS_MANUAL"}

\* Every card ends SYNCED or with a person, if only the sweep runs: no failure, stop or lost message
\* leaves it waiting.  A missing engine number alone is waited for without limit.
Settles == <>[](Settled \/ card.gap = "engine")
==============================================================================
