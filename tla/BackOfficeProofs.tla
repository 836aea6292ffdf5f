-------------------------- MODULE BackOfficeProofs --------------------------
(***************************************************************************)
(* Proofs about BackOffice, for any number of users, servers, calls of     *)
(* administrators, runs of the alert check, completions and parts.         *)
(*                                                                         *)
(* The argument for the alerts: while runs neither overlap nor stop, one   *)
(* is in flight at most, so the marks it has read are the item's, and what *)
(* is marked is told unless that run is about to tell it.  For the tags: a *)
(* completion that is to insert one, and is alone, has seen none made by a *)
(* completion.  For the numbers: a call that is about to write one has     *)
(* read, or is about to write, that its user is a technician.              *)
(***************************************************************************)
EXTENDS BackOffice, SequenceTheorems, TLAPS

\* A state of the administrator's part that keeps its types.
AccessTypes ==
  /\ users \in [Users -> UserRow] /\ granted \in BOOLEAN
  /\ cache \in [Servers -> {"none", "yes", "no"}] /\ stale \subseteq Servers
  /\ admin \in [Admins -> IdleCall \cup AdminCall]

AlertTypes ==
  /\ item \in [used : Nat, alerted : SUBSET Threshold, done : BOOLEAN]
  /\ tick \in [Ticks -> IdleCall \cup AlertRun]
  /\ log \in [Threshold -> Seq({"sent", "skipped"})]
  /\ marred \subseteq {"ticks", "completions"}

StoreTypes ==
  /\ parts \in Seq([by : {"auto", "manual"}, status : DOMAIN Allowed])
  /\ comp \in [Completions -> {"idle", "commit", "tag", "insert"}]

GuardTypes == req \in [Requests -> IdleCall \cup GuardedCall]

BoundTypes == left \in [Kinds -> Nat]

-----------------------------------------------------------------------------
(* Types.                                                                  *)

\* What may still be begun stays a number.
LEMMA SpendTypes ==
  ASSUME BoundTypes, NEW what \in Kinds, Spend(what)
  PROVE  BoundTypes'
  BY DEF BoundTypes, Spend

\* A call of the administrator's that begins is well typed.
LEMMA CallTypes ==
  ASSUME NEW op \in {"create", "update", "map"}, NEW u \in Users, NEW role \in Role, NEW body \in Body
  PROVE  Call(op, u, role, body) \in AdminCall
  BY DEF Call, AdminCall, FinalRole, Body, Number

LEMMA BeginTypes ==
  ASSUME AccessTypes, NEW a \in Admins, NEW call \in AdminCall, Begin(a, call)
  PROVE  AccessTypes'
  BY DEF Begin, AccessTypes

\* What a call writes is a row again.
LEMMA WrittenTypes ==
  ASSUME NEW row \in UserRow, NEW call \in AdminCall
  PROVE  Written(row, call) \in UserRow
  <1>1. /\ row.state \in {"absent", "live", "deleted"} /\ row.role \in Role
        /\ row.active \in {"yes", "no"} /\ row.number \in Number
    BY DEF UserRow
  <1>2. /\ call.body.role \in Role \cup {Same} /\ call.number \in Number \cup {Same}
        /\ call.body.active \in {"yes", "no", Same}
    BY DEF AdminCall, Body
  <1>3. /\ Put(row.role, call.body.role) \in Role
        /\ Put(row.active, call.body.active) \in {"yes", "no"}
        /\ Put(row.number, call.number) \in Number
    BY <1>1, <1>2 DEF Put
  <1> QED
    BY <1>1, <1>3 DEF Written, UserRow

LEMMA AdministrationTypes ==
  ASSUME AccessTypes, BoundTypes, Administration
  PROVE  AccessTypes' /\ BoundTypes' /\ req' = req
  <1>0. Same \in {Same} /\ NoNumber \in Number
    BY DEF Number
  <1>1. ASSUME NEW a \in Admins, NEW u \in Users, CreateUser(a, u)
        PROVE  AccessTypes' /\ BoundTypes' /\ req' = req
    <2>1. PICK role \in Role, n \in Number :
            Begin(a, Call("create", u, role, [role |-> role, number |-> n, active |-> "yes"]))
      BY <1>1 DEF CreateUser
    <2>2. [role |-> role, number |-> n, active |-> "yes"] \in Body
      BY DEF Body
    <2> QED
      BY <2>1, <2>2, CallTypes, BeginTypes, SpendTypes DEF Begin, Kinds
  <1>2. ASSUME NEW a \in Admins, NEW u \in Users, UpdateUser(a, u)
        PROVE  AccessTypes' /\ BoundTypes' /\ req' = req
    <2>1. PICK body \in Body : Begin(a, Call("update", u, users[u].role, body))
      BY <1>2 DEF UpdateUser
    <2>2. users[u].role \in Role
      BY DEF AccessTypes, UserRow
    <2> QED
      BY <2>1, <2>2, CallTypes, BeginTypes, SpendTypes DEF Begin, Kinds
  <1>3. ASSUME NEW a \in Admins, NEW u \in Users, SetUserEvolveTechnicianNo(a, u)
        PROVE  AccessTypes' /\ BoundTypes' /\ req' = req
    <2>1. PICK n \in Number :
            Begin(a, Call("map", u, users[u].role, [role |-> Same, number |-> n, active |-> Same]))
      BY <1>3 DEF SetUserEvolveTechnicianNo
    <2>2. users[u].role \in Role
      BY DEF AccessTypes, UserRow
    <2>3. [role |-> Same, number |-> n, active |-> Same] \in Body
      BY DEF Body
    <2> QED
      BY <2>1, <2>2, <2>3, CallTypes, BeginTypes, SpendTypes DEF Begin, Kinds
  <1>4. ASSUME NEW a \in Admins, NEW u \in Users, DeleteUser(a, u)
        PROVE  AccessTypes' /\ BoundTypes' /\ req' = req
    <2> DEFINE call == [at |-> "write", op |-> "delete", u |-> u, role |-> users[u].role,
                        body |-> [role |-> Same, number |-> Same, active |-> "no"], number |-> Same]
    <2>1. Begin(a, call)
      BY <1>4 DEF DeleteUser
    <2>2. users[u].role \in Role
      BY DEF AccessTypes, UserRow
    <2>3. call \in AdminCall
      BY <2>2 DEF AdminCall, Body
    <2> QED
      BY <2>1, <2>3, BeginTypes, SpendTypes DEF Begin, Kinds
  <1>5. ASSUME NEW a \in Admins, AdminWrite(a)
        PROVE  AccessTypes' /\ BoundTypes' /\ req' = req
    <2>1. admin[a] \in AdminCall
      BY <1>5 DEF AdminWrite, AccessTypes, IdleCall
    <2>2. admin[a].u \in Users
      BY <2>1 DEF AdminCall
    <2>3. Written(users[admin[a].u], admin[a]) \in UserRow
      BY <2>1, <2>2, WrittenTypes DEF AccessTypes
    <2>4. users' \in [Users -> UserRow]
      BY <1>5, <2>3 DEF AdminWrite, AccessTypes
    <2>5. admin' \in [Admins -> IdleCall \cup AdminCall]
      BY <1>5 DEF AdminWrite, AccessTypes, IdleCall
    <2> QED
      BY <1>5, <2>4, <2>5 DEF AdminWrite, AccessTypes, BoundTypes
  <1>6. ASSUME NEW a \in Admins, AdminFails(a)
        PROVE  AccessTypes' /\ BoundTypes' /\ req' = req
    BY <1>6 DEF AdminFails, AccessTypes, BoundTypes, IdleCall
  <1>7. ASSUME NEW s \in Servers, UpdateRolePermissions(s)
        PROVE  AccessTypes' /\ BoundTypes' /\ req' = req
    BY <1>7, SpendTypes DEF UpdateRolePermissions, AccessTypes, Kinds
  <1> QED
    BY <1>1, <1>2, <1>3, <1>4, <1>5, <1>6, <1>7 DEF Administration

\* The permission checks and their caches.
LEMMA CheckingTypes ==
  ASSUME AccessTypes, GuardTypes, BoundTypes, Checking
  PROVE  AccessTypes' /\ GuardTypes' /\ BoundTypes'
  <1> USE DEF AccessTypes, GuardTypes, BoundTypes
  <1>1. ASSUME NEW s \in Servers, InvalidatePermissionsCache(s) \/ Expire(s)
        PROVE  AccessTypes' /\ GuardTypes' /\ BoundTypes'
    BY <1>1 DEF InvalidatePermissionsCache, Expire
  <1>2. ASSUME NEW r \in Requests, req[r].at \in {"check", "fill", "handler", "write"}
        PROVE  req[r] \in GuardedCall
    BY <1>2 DEF IdleCall
  <1>3. ASSUME NEW r \in Requests, CheckCached(r)
        PROVE  AccessTypes' /\ GuardTypes' /\ BoundTypes'
    <2>1. req[r] \in [at : {"check", "handler"}, server : Servers, does : Does]
      BY <1>2, <1>3 DEF CheckCached, GuardedCall
    <2>2. [req[r] EXCEPT !.at = "handler"] \in GuardedCall
      BY <2>1 DEF GuardedCall
    <2>3. [at |-> "idle"] \in IdleCall
      BY DEF IdleCall
    <2> QED
      BY <1>3, <2>2, <2>3 DEF CheckCached, PassOrNot
  <1>4. ASSUME NEW r \in Requests, CheckReads(r)
        PROVE  AccessTypes' /\ GuardTypes' /\ BoundTypes'
    <2>1. req[r] \in [at : {"check", "handler"}, server : Servers, does : Does]
      BY <1>2, <1>4 DEF CheckReads, GuardedCall
    <2>2. [at |-> "fill", server |-> req[r].server, does |-> req[r].does, saw |-> Believed] \in GuardedCall
      BY <2>1 DEF GuardedCall, Believed
    <2> QED
      BY <1>4, <2>2 DEF CheckReads
  <1>5. ASSUME NEW r \in Requests, CheckFills(r)
        PROVE  AccessTypes' /\ GuardTypes' /\ BoundTypes'
    <2>1. req[r] \in [at : {"fill"}, server : Servers, does : Does, saw : {"yes", "no"}]
      BY <1>2, <1>5 DEF CheckFills, GuardedCall
    <2>2. [at |-> "handler", server |-> req[r].server, does |-> req[r].does] \in GuardedCall
      BY <2>1 DEF GuardedCall
    <2>3. [at |-> "idle"] \in IdleCall
      BY DEF IdleCall
    <2>4. GuardTypes'
      BY <1>5, <2>2, <2>3 DEF CheckFills
    <2>5. cache' \in [Servers -> {"none", "yes", "no"}]
      BY <1>5, <2>1 DEF CheckFills
    <2> QED
      BY <1>5, <2>4, <2>5 DEF CheckFills
  <1> QED
    BY <1>1, <1>3, <1>4, <1>5 DEF Checking

\* A run that goes on to the next threshold, or ends.
LEMMA OnTo100Types ==
  ASSUME AlertTypes, NEW t \in Ticks, tick[t] \in AlertRun, OnTo100(t)
  PROVE  tick' \in [Ticks -> IdleCall \cup AlertRun]
  <1>1. [tick[t] EXCEPT !.at = "check", !.threshold = 100] \in AlertRun
    BY DEF AlertRun, Threshold
  <1>2. [at |-> "idle"] \in IdleCall
    BY DEF IdleCall
  <1> QED
    BY <1>1, <1>2 DEF OnTo100, AlertTypes

\* The check of the hours.
LEMMA AlertingTypes ==
  ASSUME AlertTypes, BoundTypes, Alerting
  PROVE  AlertTypes' /\ BoundTypes' /\ UNCHANGED accessVars
  <1>0. ASSUME NEW t \in Ticks, tick[t].at \in {"check", "dispatch"}
        PROVE  tick[t] \in AlertRun /\ tick[t].threshold \in Threshold
    BY <1>0 DEF AlertTypes, IdleCall, AlertRun
  <1>1. CASE TimeIsSpent
    <2>1. [item EXCEPT !.used = item.used + 1] \in [used : Nat, alerted : SUBSET Threshold, done : BOOLEAN]
      <3>1. item \in [used : Nat, alerted : SUBSET Threshold, done : BOOLEAN]
        BY DEF AlertTypes
      <3>2. item.used + 1 \in Nat
        BY <3>1
      <3> QED
        BY <3>1, <3>2, Zenon
    <2> QED
      BY <1>1, <2>1, SpendTypes DEF TimeIsSpent, AlertTypes, Kinds
  <1>2. ASSUME NEW t \in Ticks, RunLabourAlertCheck(t)
        PROVE  AlertTypes' /\ BoundTypes' /\ UNCHANGED accessVars
    <2>1. [at |-> "check", threshold |-> 80, used |-> item.used, alerted |-> item.alerted] \in AlertRun
      BY DEF AlertTypes, AlertRun, Threshold
    <2>2. tick' \in [Ticks -> IdleCall \cup AlertRun]
      BY <1>2, <2>1 DEF RunLabourAlertCheck, AlertTypes
    <2>3. marred' \subseteq {"ticks", "completions"}
      BY <1>2 DEF RunLabourAlertCheck, AlertTypes
    <2> QED
      BY <1>2, <2>2, <2>3, SpendTypes DEF RunLabourAlertCheck, AlertTypes, Kinds
  <1>3. ASSUME NEW t \in Ticks, MarkAlerted(t)
        PROVE  AlertTypes' /\ BoundTypes' /\ UNCHANGED accessVars
    <2>1. tick[t] \in AlertRun /\ tick[t].threshold \in Threshold
      BY <1>0, <1>3 DEF MarkAlerted
    <2>2. [tick[t] EXCEPT !.at = "dispatch"] \in AlertRun
      BY <2>1 DEF AlertRun
    <2> QED
      BY <1>3, <2>1, <2>2 DEF MarkAlerted, AlertTypes, BoundTypes
  <1>4. ASSUME NEW t \in Ticks, NotDue(t)
        PROVE  AlertTypes' /\ BoundTypes' /\ UNCHANGED accessVars
    BY <1>0, <1>4, OnTo100Types DEF NotDue, AlertTypes, BoundTypes
  <1>5. ASSUME NEW t \in Ticks, DispatchNotifications(t)
        PROVE  AlertTypes' /\ BoundTypes' /\ UNCHANGED accessVars
    <2>1. tick[t] \in AlertRun /\ tick[t].threshold \in Threshold
      BY <1>0, <1>5 DEF DispatchNotifications
    <2>2. tick' \in [Ticks -> IdleCall \cup AlertRun]
      BY <1>5, <2>1, OnTo100Types DEF DispatchNotifications
    <2>3. Append(log[tick[t].threshold], IF Active("foreman") = {} THEN "skipped" ELSE "sent")
            \in Seq({"sent", "skipped"})
      BY <2>1 DEF AlertTypes
    <2>4. log' \in [Threshold -> Seq({"sent", "skipped"})]
      BY <1>5, <2>3 DEF DispatchNotifications, AlertTypes
    <2> QED
      BY <1>5, <2>2, <2>4 DEF DispatchNotifications, AlertTypes, BoundTypes
  <1>6. ASSUME NEW t \in Ticks, TickStops(t)
        PROVE  AlertTypes' /\ BoundTypes' /\ UNCHANGED accessVars
    BY <1>6 DEF TickStops, AlertTypes, BoundTypes, IdleCall
  <1> QED
    BY <1>1, <1>2, <1>3, <1>4, <1>5, <1>6 DEF Alerting

\* A part that is tagged.
LEMMA TaggedTypes ==
  ASSUME StoreTypes, NEW by \in {"auto", "manual"}
  PROVE  Append(parts, Part(by)) \in Seq([by : {"auto", "manual"}, status : DOMAIN Allowed])
  <1>1. Part(by) \in [by : {"auto", "manual"}, status : DOMAIN Allowed]
    BY DEF Part, Allowed
  <1> QED
    BY <1>1 DEF StoreTypes

\* The store.
LEMMA StoringTypes ==
  ASSUME TypeOK, Storing
  PROVE  AlertTypes' /\ StoreTypes' /\ GuardTypes' /\ BoundTypes' /\ UNCHANGED <<users, granted, cache, stale, admin>>
  <1> DEFINE Kept == AlertTypes' /\ StoreTypes' /\ GuardTypes' /\ BoundTypes'
                       /\ UNCHANGED <<users, granted, cache, stale, admin>>
  <1>0. AlertTypes /\ StoreTypes /\ GuardTypes /\ BoundTypes
    BY DEF TypeOK, AlertTypes, StoreTypes, GuardTypes, BoundTypes
  <1>1. CASE Reopen
    BY <1>0, <1>1 DEF Reopen, accessVars, storeVars, AlertTypes, StoreTypes, GuardTypes, BoundTypes
  <1>2. ASSUME NEW c \in Completions, CompleteRead(c) PROVE Kept
    <2>1. BoundTypes'
      BY <1>0, <1>2, SpendTypes DEF CompleteRead, Kinds
    <2> QED
      BY <1>0, <1>2, <2>1 DEF CompleteRead, accessVars, AlertTypes, StoreTypes, GuardTypes
  <1>3. ASSUME NEW c \in Completions, CompleteCommit(c) PROVE Kept
    BY <1>0, <1>3 DEF CompleteCommit, accessVars, AlertTypes, StoreTypes, GuardTypes, BoundTypes
  <1>4. ASSUME NEW c \in Completions, TagRead(c) PROVE Kept
    BY <1>0, <1>4 DEF TagRead, accessVars, alertVars, AlertTypes, StoreTypes, GuardTypes, BoundTypes
  <1>5. ASSUME NEW c \in Completions, TagInsert(c) PROVE Kept
    BY <1>0, <1>5, TaggedTypes DEF TagInsert, accessVars, alertVars, AlertTypes, StoreTypes, GuardTypes, BoundTypes
  <1>6. ASSUME NEW c \in Completions, CompletionEnds(c) PROVE Kept
    BY <1>0, <1>6 DEF CompletionEnds, accessVars, alertVars, AlertTypes, StoreTypes, GuardTypes, BoundTypes
  <1>7. ASSUME NEW r \in Requests, NEW s \in Servers, NEW does \in Does, StartRequest(r, s, does) PROVE Kept
    <2>1. [at |-> "check", server |-> s, does |-> does] \in GuardedCall
      BY DEF GuardedCall
    <2>2. GuardTypes' /\ BoundTypes'
      BY <1>0, <1>7, <2>1, SpendTypes DEF StartRequest, GuardTypes, Kinds
    <2> QED
      BY <1>0, <1>7, <2>2 DEF StartRequest, alertVars, storeVars, AlertTypes, StoreTypes
  <1>8. ASSUME NEW r \in Requests, Answer(r) PROVE GuardTypes'
    BY <1>0, <1>8 DEF Answer, GuardTypes, IdleCall
  <1>9. ASSUME NEW r \in Requests, req[r].at \in {"handler", "write"}
        PROVE  /\ req[r].server \in Servers /\ req[r].does \in Does
               /\ req[r].at = "write" => req[r].does.op = "transition"
               /\ req[r].at = "handler" => req[r] \in [at : {"check", "handler"}, server : Servers, does : Does]
    BY <1>0, <1>9 DEF GuardTypes, GuardedCall, IdleCall
  <1>10. ASSUME NEW r \in Requests, ManualCreate(r) PROVE Kept
    BY <1>0, <1>8, <1>10, TaggedTypes DEF ManualCreate, alertVars, AlertTypes, StoreTypes, BoundTypes
  <1>11. ASSUME NEW r \in Requests, TransitionRead(r) PROVE Kept
    <2>1. req[r].does.op = "transition" => [req[r] EXCEPT !.at = "write"] \in GuardedCall
      BY <1>9, <1>11 DEF TransitionRead, GuardedCall
    <2>2. GuardTypes'
      BY <1>0, <1>8, <1>11, <2>1 DEF TransitionRead, GuardTypes
    <2> QED
      BY <1>0, <1>11, <2>2 DEF TransitionRead, alertVars, storeVars, AlertTypes, StoreTypes, BoundTypes
  <1>12. ASSUME NEW r \in Requests, TransitionWrite(r) PROVE Kept
    <2>1. req[r].does \in Does /\ req[r].does.op = "transition"
      BY <1>9, <1>12 DEF TransitionWrite
    <2>2. req[r].does.to \in DOMAIN Allowed
      BY <2>1 DEF Does, Target, Allowed
    <2> DEFINE Row == [by : {"auto", "manual"}, status : DOMAIN Allowed]
    <2>3. \A row \in Row : [row EXCEPT !.status = req[r].does.to] \in Row
      BY <2>2
    <2>4. parts' = [parts EXCEPT ![req[r].does.part] = [@ EXCEPT !.status = req[r].does.to]]
      BY <1>12 DEF TransitionWrite
    <2>5. parts \in Seq(Row) => parts' \in Seq(Row)
      <3> HIDE DEF Row
      <3> SUFFICES ASSUME parts \in Seq(Row) PROVE parts' \in Seq(Row)
        OBVIOUS
      <3>1. Len(parts) \in Nat /\ parts \in [1..Len(parts) -> Row]
        OBVIOUS
      <3>2. parts' \in [1..Len(parts) -> Row]
        BY <2>3, <2>4, <3>1, Zenon
      <3> QED
        BY <3>1, <3>2, IsASeq
    <2>6. StoreTypes'
      BY <1>0, <1>12, <2>5 DEF TransitionWrite, StoreTypes
    <2> QED
      BY <1>0, <1>8, <1>12, <2>6 DEF TransitionWrite, alertVars, AlertTypes, BoundTypes
  <1> QED
    BY <1>1, <1>2, <1>3, <1>4, <1>5, <1>6, <1>7, <1>10, <1>11, <1>12 DEF Storing

\* Types hold at the start, whatever seed the instance takes.
LEMMA InitTypes == Init => TypeOK
  <1> SUFFICES ASSUME Init PROVE TypeOK
    OBVIOUS
  <1>1. users \in [Users -> UserRow]
    BY DEF Init, AccessInit, UserRow, Role, Number
  <1>2. item \in [used : Nat, alerted : SUBSET Threshold, done : BOOLEAN]
    BY DEF Init, AlertInit, Threshold
  <1>3. log \in [Threshold -> Seq({"sent", "skipped"})]
    BY DEF Init, AlertInit
  <1>4. left \in [Kinds -> Nat]
    BY BackOfficeAssumption DEF Init
  <1>5. parts \in Seq([by : {"auto", "manual"}, status : DOMAIN Allowed])
    BY DEF Init, StoreInit
  <1> QED
    BY <1>1, <1>2, <1>3, <1>4, <1>5 DEF Init, AccessInit, AlertInit, StoreInit, TypeOK, IdleCall

\* And every step keeps them.
LEMMA StepTypes == TypeOK /\ [Next]_vars => TypeOK'
  <1> SUFFICES ASSUME TypeOK, [Next]_vars PROVE TypeOK'
    OBVIOUS
  <1>0. AccessTypes /\ AlertTypes /\ StoreTypes /\ GuardTypes /\ BoundTypes
    BY DEF TypeOK, AccessTypes, AlertTypes, StoreTypes, GuardTypes, BoundTypes
  <1> SUFFICES AccessTypes' /\ AlertTypes' /\ StoreTypes' /\ GuardTypes' /\ BoundTypes'
    BY DEF TypeOK, AccessTypes, AlertTypes, StoreTypes, GuardTypes, BoundTypes
  <1>1. CASE (Administration \/ Checking) /\ UNCHANGED <<alertVars, storeVars>>
    <2>1. AlertTypes' /\ StoreTypes'
      BY <1>0, <1>1 DEF alertVars, storeVars, AlertTypes, StoreTypes
    <2>2. CASE Administration
      <3>1. GuardTypes'
        BY <1>0, <2>2, AdministrationTypes DEF GuardTypes
      <3> QED
        BY <1>0, <2>1, <2>2, <3>1, AdministrationTypes
    <2>3. CASE Checking
      BY <1>0, <2>1, <2>3, CheckingTypes
    <2> QED
      BY <1>1, <2>2, <2>3
  <1>2. CASE Alerting /\ UNCHANGED storeVars
    <2>1. AlertTypes' /\ BoundTypes' /\ UNCHANGED accessVars
      BY <1>0, <1>2, AlertingTypes
    <2> QED
      BY <1>0, <1>2, <2>1 DEF accessVars, storeVars, AccessTypes, StoreTypes, GuardTypes
  <1>3. CASE Storing
    <2>1. AlertTypes' /\ StoreTypes' /\ GuardTypes' /\ BoundTypes' /\ UNCHANGED <<users, granted, cache, stale, admin>>
      BY <1>3, StoringTypes
    <2> QED
      BY <1>0, <2>1 DEF AccessTypes
  <1>4. CASE UNCHANGED vars
    BY <1>0, <1>4
    DEF vars, accessVars, alertVars, storeVars, AccessTypes, AlertTypes, StoreTypes, GuardTypes, BoundTypes
  <1> QED
    BY <1>1, <1>2, <1>3, <1>4 DEF Next

(* Types of the users, the caches, every call in flight, the alerts and the store, for
   any number of each and whatever stops. *)
THEOREM OfficeTypes == Spec => []TypeOK
  BY InitTypes, StepTypes, PTL DEF Spec

-----------------------------------------------------------------------------
(* Alerts.                                                                 *)

Running(t) == tick[t].at # "idle"

LoneRun == \A s, t \in Ticks : Running(s) /\ Running(t) => s = t

\* What a run has read of the marks that it may still ask for is what the item has.
RunKnows ==
  \A t \in Ticks :
    /\ tick[t].at = "check" => (tick[t].threshold \in tick[t].alerted <=> tick[t].threshold \in item.alerted)
    /\ Running(t) /\ tick[t].threshold = 80 => (100 \in tick[t].alerted <=> 100 \in item.alerted)
    /\ tick[t].at = "dispatch" => tick[t].threshold \in item.alerted

Dispatching == {threshold \in Threshold : \E t \in Ticks : tick[t].at = "dispatch" /\ tick[t].threshold = threshold}

\* What is marked has been told, but for what is about to be.
Told ==
  \A threshold \in Threshold :
    Len(log[threshold]) = IF threshold \in item.alerted \ Dispatching THEN 1 ELSE 0

AlertInv ==
  /\ TypeOK
  /\ "ticks" \notin marred => LoneRun /\ RunKnows /\ Told

\* Steps that touch neither the runs, the marks nor the log.
LEMMA AlertFrame ==
  ASSUME AlertInv, TypeOK', UNCHANGED <<tick, log>>, item'.alerted = item.alerted,
         "ticks" \notin marred' => "ticks" \notin marred
  PROVE  AlertInv'
  BY DEF AlertInv, LoneRun, RunKnows, Told, Dispatching, Running

\* A run in flight is at a threshold.
LEMMA RunIsOfThreshold ==
  ASSUME TypeOK, NEW t \in Ticks, tick[t].at \in {"check", "dispatch"}
  PROVE  tick[t] \in AlertRun /\ tick[t].threshold \in Threshold
  BY DEF TypeOK, IdleCall, AlertRun

LEMMA AlertBegins ==
  ASSUME AlertInv, TypeOK', NEW t \in Ticks, RunLabourAlertCheck(t)
  PROVE  AlertInv'
  <1> SUFFICES ASSUME "ticks" \notin marred' PROVE LoneRun' /\ RunKnows' /\ Told'
    BY DEF AlertInv
  <1>1. "ticks" \notin marred /\ \A other \in Ticks : ~Running(other)
    BY DEF RunLabourAlertCheck, Running
  <1>2. LoneRun /\ RunKnows /\ Told
    BY <1>1 DEF AlertInv
  <1>3. item' = item /\ log' = log
    BY DEF RunLabourAlertCheck
  <1>4. CASE item.done
    BY <1>2, <1>3, <1>4 DEF RunLabourAlertCheck, LoneRun, RunKnows, Told, Dispatching, Running
  <1>5. CASE ~item.done
    <2> DEFINE q == [at |-> "check", threshold |-> 80, used |-> item.used, alerted |-> item.alerted]
    <2>1. tick' = [tick EXCEPT ![t] = q]
      BY <1>5 DEF RunLabourAlertCheck
    <2>2. tick'[t] = q /\ \A other \in Ticks \ {t} : tick'[other] = tick[other]
      BY <2>1 DEF AlertInv, TypeOK
    <2>3. \A other \in Ticks : Running(other)' => other = t
      BY <1>1, <2>2 DEF Running
    <2>4. LoneRun'
      BY <2>3 DEF LoneRun
    <2>5. RunKnows'
      BY <1>3, <2>2, <2>3 DEF RunKnows, Running
    <2>6. Dispatching = {} /\ Dispatching' = {}
      BY <1>1, <2>2 DEF Dispatching, Running
    <2> QED
      BY <1>2, <1>3, <2>4, <2>5, <2>6 DEF Told
  <1> QED
    BY <1>4, <1>5

LEMMA AlertIsMarked ==
  ASSUME AlertInv, TypeOK', NEW t \in Ticks, MarkAlerted(t)
  PROVE  AlertInv'
  <1> SUFFICES ASSUME "ticks" \notin marred PROVE LoneRun' /\ RunKnows' /\ Told'
    BY DEF AlertInv, MarkAlerted
  <1> DEFINE now == tick[t].threshold
  <1>0. LoneRun /\ RunKnows /\ Told /\ TypeOK
    BY DEF AlertInv
  <1>1. tick[t] \in AlertRun /\ now \in Threshold /\ tick[t].at = "check" /\ Running(t)
    BY <1>0, RunIsOfThreshold DEF MarkAlerted, Running
  <1>2. now \notin item.alerted
    BY <1>0, <1>1 DEF MarkAlerted, IsDue, RunKnows
  <1>3. /\ tick'[t] = [tick[t] EXCEPT !.at = "dispatch"]
        /\ \A other \in Ticks \ {t} : tick'[other] = tick[other] /\ ~Running(other)
    BY <1>0, <1>1 DEF MarkAlerted, TypeOK, LoneRun
  <1>4. /\ tick'[t].at = "dispatch" /\ tick'[t].threshold = now /\ tick'[t].alerted = tick[t].alerted
    BY <1>1, <1>3 DEF AlertRun
  <1>5. item'.alerted = item.alerted \cup {now} /\ log' = log
    BY <1>0 DEF MarkAlerted, TypeOK
  <1>6. LoneRun'
    BY <1>3 DEF LoneRun, Running
  <1>7. RunKnows'
    <2>1. \A other \in Ticks \ {t} : tick'[other].at = "idle"
      BY <1>3 DEF Running
    <2> QED
      BY <1>0, <1>1, <1>4, <1>5, <2>1 DEF RunKnows, Running
  <1>8. Dispatching = {} /\ Dispatching' = {now}
    <2>1. \A other \in Ticks : tick[other].at # "dispatch"
      BY <1>1, <1>3 DEF Running
    <2>2. \A other \in Ticks : tick'[other].at = "dispatch" <=> other = t
      BY <1>3, <1>4, <2>1
    <2> HIDE DEF now
    <2>3. Dispatching' = {now}
      BY <1>1, <1>4, <2>2, Zenon DEF Dispatching
    <2> QED
      BY <2>1, <2>3 DEF Dispatching
  <1> QED
    BY <1>0, <1>2, <1>5, <1>6, <1>7, <1>8 DEF Told

\* On to the next threshold: the lone run asks for what the item has.
LEMMA AlertGoesOn ==
  ASSUME TypeOK, LoneRun, RunKnows, NEW t \in Ticks, Running(t), OnTo100(t), item' = item
  PROVE  LoneRun' /\ RunKnows' /\ Dispatching' = {}
  <1>1. tick[t] \in AlertRun /\ tick[t].threshold \in Threshold
    BY RunIsOfThreshold DEF TypeOK, IdleCall, AlertRun, Running
  <1>2. \A other \in Ticks \ {t} : tick'[other] = tick[other] /\ tick'[other].at = "idle"
    BY DEF OnTo100, TypeOK, LoneRun, Running
  <1>3. CASE tick[t].threshold = 80
    <2>1. tick'[t] = [tick[t] EXCEPT !.at = "check", !.threshold = 100]
      BY <1>3 DEF OnTo100, TypeOK
    <2>2. tick'[t].at = "check" /\ tick'[t].threshold = 100 /\ tick'[t].alerted = tick[t].alerted
      BY <1>1, <2>1 DEF AlertRun
    <2> QED
      BY <1>2, <1>3, <2>2 DEF LoneRun, RunKnows, Dispatching, Running
  <1>4. CASE tick[t].threshold # 80
    <2>1. tick'[t].at = "idle"
      BY <1>4 DEF OnTo100, TypeOK
    <2> QED
      BY <1>2, <2>1 DEF LoneRun, RunKnows, Dispatching, Running
  <1> QED
    BY <1>3, <1>4

LEMMA AlertNotDue ==
  ASSUME AlertInv, TypeOK', NEW t \in Ticks, NotDue(t)
  PROVE  AlertInv'
  <1> SUFFICES ASSUME "ticks" \notin marred PROVE LoneRun' /\ RunKnows' /\ Told'
    BY DEF AlertInv, NotDue
  <1>1. TypeOK /\ LoneRun /\ RunKnows /\ Told /\ Running(t) /\ OnTo100(t) /\ item' = item /\ log' = log
    BY DEF AlertInv, NotDue, Running
  <1>2. Dispatching = {}
    BY <1>1 DEF LoneRun, Dispatching, Running, NotDue
  <1> QED
    BY <1>1, <1>2, AlertGoesOn DEF Told

LEMMA AlertIsTold ==
  ASSUME AlertInv, TypeOK', NEW t \in Ticks, DispatchNotifications(t)
  PROVE  AlertInv'
  <1> SUFFICES ASSUME "ticks" \notin marred PROVE LoneRun' /\ RunKnows' /\ Told'
    BY DEF AlertInv, DispatchNotifications
  <1> DEFINE now == tick[t].threshold
  <1>1. TypeOK /\ LoneRun /\ RunKnows /\ Told /\ Running(t) /\ OnTo100(t) /\ item' = item
    BY DEF AlertInv, DispatchNotifications, Running
  <1>2. now \in Threshold /\ now \in item.alerted
    BY <1>1, RunIsOfThreshold DEF DispatchNotifications, RunKnows
  <1>3. Dispatching = {now}
    BY <1>1, <1>2 DEF LoneRun, Dispatching, Running, DispatchNotifications
  <1>4. PICK row : log' = [log EXCEPT ![now] = Append(log[now], row)] /\ row \in {"sent", "skipped"}
    BY DEF DispatchNotifications
  <1>5. /\ log'[now] = Append(log[now], row) /\ log[now] \in Seq({"sent", "skipped"})
        /\ \A other \in Threshold \ {now} : log'[other] = log[other]
    BY <1>1, <1>2, <1>4 DEF TypeOK
  <1>6. Len(log[now]) = 0
    BY <1>1, <1>2, <1>3 DEF Told
  <1>7. Len(log'[now]) = 1
    BY <1>4, <1>5, <1>6
  <1> QED
    BY <1>1, <1>2, <1>3, <1>5, <1>7, AlertGoesOn DEF Told

\* Every step keeps what is known of the alerts.
LEMMA AlertStep == AlertInv /\ [Next]_vars => AlertInv'
  <1> SUFFICES ASSUME AlertInv, [Next]_vars PROVE AlertInv'
    OBVIOUS
  <1>0. TypeOK /\ TypeOK'
    BY StepTypes DEF AlertInv
  <1>1. CASE UNCHANGED alertVars
    BY <1>0, <1>1, AlertFrame DEF alertVars
  <1>2. CASE Alerting
    <2>1. CASE TimeIsSpent
      <3>1. item'.alerted = item.alerted
        BY <1>0, <2>1 DEF TimeIsSpent, TypeOK
      <3> QED
        BY <1>0, <2>1, <3>1, AlertFrame DEF TimeIsSpent
    <2>2. ASSUME NEW t \in Ticks, TickStops(t) PROVE AlertInv'
      BY <1>0, <2>2 DEF TickStops, AlertInv
    <2> QED
      BY <1>0, <1>2, <2>1, <2>2, AlertBegins, AlertIsMarked, AlertNotDue, AlertIsTold DEF Alerting
  <1>3. CASE Storing /\ ~UNCHANGED alertVars
    <2>1. CASE Reopen
      <3>1. item'.alerted = item.alerted
        BY <1>0, <2>1 DEF Reopen, TypeOK
      <3> QED
        BY <1>0, <2>1, <3>1, AlertFrame DEF Reopen
    <2>2. ASSUME NEW c \in Completions, CompleteRead(c) PROVE AlertInv'
      BY <1>0, <2>2, AlertFrame DEF CompleteRead
    <2>3. ASSUME NEW c \in Completions, CompleteCommit(c) PROVE AlertInv'
      <3>1. item'.alerted = item.alerted
        BY <1>0, <2>3 DEF CompleteCommit, TypeOK
      <3> QED
        BY <1>0, <2>3, <3>1, AlertFrame DEF CompleteCommit
    <2> QED
      BY <1>3, <2>1, <2>2, <2>3
      DEF Storing, TagRead, TagInsert, CompletionEnds, StartRequest, ManualCreate, TransitionRead, TransitionWrite
  <1> QED
    BY <1>1, <1>2, <1>3 DEF Next, vars

(* Each threshold is told once when it is marked, and not told when it is not, for any
   number of runs of the check one after the other ("Each threshold fires at most
   once"): until runs overlap or one stops. *)
THEOREM AlertsAreTold == Spec => []AlertsTold
  <1>1. Init => AlertInv
    <2> SUFFICES ASSUME Init PROVE AlertInv
      OBVIOUS
    <2>1. LoneRun /\ RunKnows /\ Dispatching = {}
      BY DEF Init, AlertInit, LoneRun, RunKnows, Dispatching, Running
    <2>2. Told
      BY <2>1 DEF Init, AlertInit, Told
    <2> QED
      BY <2>1, <2>2, InitTypes DEF AlertInv
  <1>2. AlertInv => AlertsTold
    <2> SUFFICES ASSUME AlertInv, "ticks" \notin marred, \A t \in Ticks : tick[t].at # "dispatch"
                 PROVE  \A threshold \in Threshold :
                          Len(log[threshold]) = IF threshold \in item.alerted THEN 1 ELSE 0
      BY DEF AlertsTold
    <2>1. Told /\ Dispatching = {}
      BY DEF AlertInv, Dispatching
    <2> QED
      BY <2>1 DEF Told
  <1> QED
    BY <1>1, <1>2, AlertStep, PTL DEF Spec

-----------------------------------------------------------------------------
(* Tags.                                                                   *)

Completing(c) == comp[c] # "idle"

Tagged == {i \in DOMAIN parts : parts[i].by = "auto"}

\* A completion that is to tag the item, and is alone, is the first.
TagInv ==
  /\ TypeOK
  /\ "completions" \notin marred =>
       /\ \A c, d \in Completions : Completing(c) /\ Completing(d) => c = d
       /\ \A c \in Completions : comp[c] = "insert" => Tagged = {}
       /\ \A i, j \in Tagged : i = j

\* Steps that end no completion and tag nothing.
LEMMA TagFrame ==
  ASSUME TagInv, TypeOK', comp' = comp, Tagged' = Tagged,
         "completions" \notin marred' => "completions" \notin marred
  PROVE  TagInv'
  BY DEF TagInv, Completing

\* A part tagged by hand.
LEMMA ManualTag ==
  ASSUME TypeOK, parts' = Append(parts, Part("manual"))
  PROVE  Tagged' = Tagged
  BY DEF TypeOK, Tagged, Part

\* A part that moves on keeps its origin.
LEMMA MovedTag ==
  ASSUME TypeOK, NEW i, NEW s, parts' = [parts EXCEPT ![i].status = s]
  PROVE  Tagged' = Tagged
  <1>1. DOMAIN parts' = DOMAIN parts
    OBVIOUS
  <1>2. \A j \in DOMAIN parts : parts'[j].by = parts[j].by
    BY DEF TypeOK
  <1> QED
    BY <1>1, <1>2 DEF Tagged

\* A completion that takes its next step.
LEMMA TagCompletion ==
  ASSUME TagInv, TypeOK', NEW c \in Completions,
         CompleteRead(c) \/ CompleteCommit(c) \/ TagRead(c) \/ TagInsert(c) \/ CompletionEnds(c)
  PROVE  TagInv'
  <1>0. TypeOK
    BY DEF TagInv
  <1> SUFFICES ASSUME "completions" \notin marred'
               PROVE  /\ \A d, e \in Completions : Completing(d)' /\ Completing(e)' => d = e
                      /\ \A d \in Completions : comp'[d] = "insert" => Tagged' = {}
                      /\ \A i, j \in Tagged' : i = j
    BY DEF TagInv
  <1>1. "completions" \notin marred
    BY DEF CompleteRead, CompleteCommit, TagRead, TagInsert, CompletionEnds, alertVars
  <1>2. \A d \in Completions \ {c} : ~Completing(d) /\ comp'[d] = comp[d] /\ comp[d] = "idle"
    <2>1. CASE CompleteRead(c)
      BY <1>0, <2>1 DEF CompleteRead, TypeOK, Completing
    <2>2. CASE ~CompleteRead(c)
      BY <1>0, <1>1, <2>2 DEF TagInv, CompleteCommit, TagRead, TagInsert, CompletionEnds, TypeOK, Completing
    <2> QED
      BY <2>1, <2>2
  <1>3. \A d, e \in Completions : Completing(d)' /\ Completing(e)' => d = e
    BY <1>2 DEF Completing
  <1>4. CASE TagInsert(c)
    <2>1. Tagged = {} /\ parts' = Append(parts, Part("auto")) /\ comp'[c] = "idle"
      BY <1>0, <1>1, <1>4 DEF TagInsert, TagInv, TypeOK
    <2>2. \A i \in DOMAIN parts' : i # Len(parts) + 1 => i \in DOMAIN parts /\ parts'[i] = parts[i]
      BY <1>0, <2>1 DEF TypeOK
    <2>3. Tagged' \subseteq {Len(parts) + 1}
      BY <2>1, <2>2 DEF Tagged
    <2> QED
      BY <1>2, <1>3, <2>1, <2>3
  <1>5. CASE TagRead(c)
    <2>1. Tagged' = Tagged /\ (comp'[c] = "insert" => Tagged = {})
      BY <1>0, <1>5 DEF TagRead, AlreadyTagged, Tagged, TypeOK
    <2> QED
      BY <1>1, <1>2, <1>3, <2>1 DEF TagInv
  <1>6. CASE CompleteRead(c) \/ CompleteCommit(c) \/ CompletionEnds(c)
    <2>1. Tagged' = Tagged /\ comp'[c] # "insert"
      BY <1>0, <1>6 DEF CompleteRead, CompleteCommit, CompletionEnds, Tagged, TypeOK
    <2> QED
      BY <1>1, <1>2, <1>3, <2>1 DEF TagInv
  <1> QED
    BY <1>4, <1>5, <1>6

\* Every step keeps it.
LEMMA TagStep == TagInv /\ [Next]_vars => TagInv'
  <1> SUFFICES ASSUME TagInv, [Next]_vars PROVE TagInv'
    OBVIOUS
  <1>0. TypeOK /\ TypeOK'
    BY StepTypes DEF TagInv
  <1>1. CASE UNCHANGED storeVars /\ ("completions" \notin marred' => "completions" \notin marred)
    BY <1>0, <1>1, TagFrame DEF storeVars, Tagged
  <1>2. CASE Alerting /\ UNCHANGED storeVars
    <2>1. "completions" \in marred => "completions" \in marred'
      BY <1>2 DEF Alerting, TimeIsSpent, RunLabourAlertCheck, MarkAlerted, NotDue, DispatchNotifications, TickStops
    <2> QED
      BY <1>1, <1>2, <2>1
  <1>3. CASE Storing
    <2>1. CASE Reopen
      BY <1>1, <2>1 DEF Reopen
    <2>2. ASSUME NEW r \in Requests, NEW s \in Servers, NEW does \in Does, StartRequest(r, s, does) PROVE TagInv'
      BY <1>1, <2>2 DEF StartRequest, alertVars
    <2>3. ASSUME NEW r \in Requests, TransitionRead(r) PROVE TagInv'
      BY <1>1, <2>3 DEF TransitionRead, alertVars
    <2>4. ASSUME NEW r \in Requests, ManualCreate(r) PROVE TagInv'
      BY <1>0, <2>4, ManualTag, TagFrame DEF ManualCreate, alertVars
    <2>5. ASSUME NEW r \in Requests, TransitionWrite(r) PROVE TagInv'
      BY <1>0, <2>5, MovedTag, TagFrame DEF TransitionWrite, alertVars
    <2> QED
      BY <1>0, <1>3, <2>1, <2>2, <2>3, <2>4, <2>5, TagCompletion DEF Storing
  <1>4. CASE (Administration \/ Checking) /\ UNCHANGED <<alertVars, storeVars>>
    BY <1>1, <1>4 DEF alertVars
  <1>5. CASE UNCHANGED vars
    BY <1>1, <1>5 DEF vars, alertVars
  <1> QED
    BY <1>2, <1>3, <1>4, <1>5 DEF Next

(* An item is tagged once, however often its work is done again and whatever is tagged
   by hand meanwhile ("Don't double-tag"): until two completions overlap. *)
THEOREM TagsAreOne == Spec => []OneTag
  <1>1. Init => TagInv
    BY InitTypes DEF Init, StoreInit, TagInv, Tagged, Completing
  <1>2. TagInv => OneTag
    BY DEF TagInv, OneTag, Tagged
  <1> QED
    BY <1>1, <1>2, TagStep, PTL DEF Spec

-----------------------------------------------------------------------------
(* Numbers.                                                                *)

\* A call that is about to write a number has read that its user is a technician, or makes
\* him one.
CallIsForTechnician(call) ==
  call.at = "write" /\ call.number \notin {NoNumber, Same} =>
    FinalRole(call.role, call.body) = "technician"

NumberInv == TypeOK /\ \A a \in Admins : CallIsForTechnician(admin[a])

\* So it is when the call begins.
LEMMA CallBeginsSound ==
  ASSUME NEW op, NEW u, NEW role, NEW body
  PROVE  CallIsForTechnician(Call(op, u, role, body))
  BY DEF CallIsForTechnician, Call

\* Every step keeps it.
LEMMA NumberStep == NumberInv /\ [Next]_vars => NumberInv'
  <1> SUFFICES ASSUME NumberInv, [Next]_vars PROVE NumberInv'
    OBVIOUS
  <1>0. TypeOK /\ TypeOK'
    BY StepTypes DEF NumberInv
  <1>1. CASE UNCHANGED admin
    BY <1>0, <1>1 DEF NumberInv
  <1>2. ASSUME NEW a \in Admins, NEW call, Begin(a, call), CallIsForTechnician(call) PROVE NumberInv'
    BY <1>0, <1>2 DEF Begin, NumberInv, TypeOK
  <1>3. CASE Administration
    <2>1. ASSUME NEW a \in Admins, NEW u \in Users,
                 CreateUser(a, u) \/ UpdateUser(a, u) \/ SetUserEvolveTechnicianNo(a, u)
          PROVE  NumberInv'
      <3>1. PICK op, role, body : Begin(a, Call(op, u, role, body))
        BY <2>1 DEF CreateUser, UpdateUser, SetUserEvolveTechnicianNo
      <3> QED
        BY <1>2, <3>1, CallBeginsSound
    <2>2. ASSUME NEW a \in Admins, NEW u \in Users, DeleteUser(a, u) PROVE NumberInv'
      BY <1>2, <2>2 DEF DeleteUser, CallIsForTechnician
    <2>3. ASSUME NEW a \in Admins, AdminWrite(a) \/ AdminFails(a) PROVE NumberInv'
      <3>1. admin' = [admin EXCEPT ![a] = [at |-> "idle"]]
        BY <2>3 DEF AdminWrite, AdminFails
      <3>2. CallIsForTechnician([at |-> "idle"])
        BY DEF CallIsForTechnician
      <3> QED
        BY <1>0, <3>1, <3>2 DEF NumberInv, TypeOK
    <2>4. ASSUME NEW s \in Servers, UpdateRolePermissions(s) PROVE NumberInv'
      BY <1>1, <2>4 DEF UpdateRolePermissions
    <2> QED
      BY <1>3, <2>1, <2>2, <2>3, <2>4 DEF Administration
  <1>4. CASE Checking \/ Alerting \/ Storing \/ UNCHANGED vars
    <2>1. UNCHANGED admin
      BY <1>4 DEF Checking, InvalidatePermissionsCache, Expire, CheckCached, CheckReads, CheckFills, Alerting,
         TimeIsSpent, RunLabourAlertCheck, MarkAlerted, NotDue, DispatchNotifications, TickStops,
         Storing, Reopen, CompleteRead, CompleteCommit, TagRead, TagInsert, CompletionEnds, StartRequest,
         ManualCreate, TransitionRead, TransitionWrite, vars, accessVars
    <2> QED
      BY <1>1, <2>1
  <1> QED
    BY <1>3, <1>4 DEF Next

\* What a write makes of a number.
LEMMA WrittenNumber ==
  ASSUME NumberInv, NEW a \in Admins, AdminWrite(a), NEW u \in Users,
         users'[u].number \notin {users[u].number, NoNumber}, users'[u].role # "technician"
  PROVE  admin[a].at = "write" /\ admin[a].u = u /\ users[u].role # admin[a].role
  <1>1. users'[u] # users[u]
    OBVIOUS
  <1>2. admin[a].at = "write" /\ admin[a].u = u /\ users'[u] = Written(users[u], admin[a])
    BY <1>1 DEF AdminWrite, NumberInv, TypeOK
  <1>3. /\ users'[u].number = Put(users[u].number, admin[a].number)
        /\ users'[u].role = Put(users[u].role, admin[a].body.role)
    BY <1>2 DEF Written
  <1>4. admin[a].number \notin {NoNumber, Same}
    BY <1>3 DEF Put
  <1>5. FinalRole(admin[a].role, admin[a].body) = "technician"
    BY <1>2, <1>4 DEF NumberInv, CallIsForTechnician
  <1> QED
    BY <1>2, <1>3, <1>5 DEF FinalRole, Put

(* Who is no technician gets no number of Evolve, unless his role was changed between
   the read and the write of the call, for any number of administrators at once. *)
THEOREM NumbersFit == Spec => NumberFitsRole
  <1> DEFINE Fit(u) ==
        users'[u].number \notin {users[u].number, NoNumber} /\ users'[u].role # "technician"
          => \E a \in Admins : admin[a].at = "write" /\ admin[a].u = u /\ users[u].role # admin[a].role
  <1>1. Init => NumberInv
    BY InitTypes DEF Init, AccessInit, NumberInv, CallIsForTechnician
  <1>2. NumberInv /\ [Next]_vars => [\A u \in Users : Fit(u)]_vars
    <2> SUFFICES ASSUME NumberInv, Next, NEW u \in Users PROVE Fit(u)
      OBVIOUS
    <2>1. ASSUME NEW a \in Admins, AdminWrite(a) PROVE Fit(u)
      BY <2>1, WrittenNumber
    <2>2. CASE users' = users
      BY <2>2
    <2>3. CASE Administration /\ users' # users
      BY <2>1, <2>3
      DEF Administration, CreateUser, UpdateUser, SetUserEvolveTechnicianNo, DeleteUser, Begin, AdminFails,
          UpdateRolePermissions
    <2>4. CASE (Checking \/ Alerting \/ Storing) /\ users' # users
      BY <2>4 DEF Checking, InvalidatePermissionsCache, Expire, CheckCached, CheckReads, CheckFills, Alerting,
         TimeIsSpent, RunLabourAlertCheck, MarkAlerted, NotDue, DispatchNotifications, TickStops,
         Storing, Reopen, CompleteRead, CompleteCommit, TagRead, TagInsert, CompletionEnds, StartRequest,
         ManualCreate, TransitionRead, TransitionWrite, accessVars
    <2> QED
      BY <2>2, <2>3, <2>4 DEF Next
  <1> QED
    BY <1>1, <1>2, NumberStep, PTL DEF Spec, NumberFitsRole
=============================================================================
