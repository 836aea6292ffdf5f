--------------------------- MODULE RoStatusTrail ---------------------------
(***************************************************************************)
(* setRoStatus: the single writer of vehicle_check_ins.ro_status and of    *)
(* ro_status_history, for one check-in and any number of calls in flight.  *)
(*                                                                         *)
(* A call reads the current status, returns when it is the target already, *)
(* takes the timestamp of the row it is going to write, and then commits   *)
(* one transaction that updates the check-in and inserts the row.  Between *)
(* the read and the commit other calls run.  A history row is kept in the  *)
(* order the rows were committed (the row lock on the check-in orders the  *)
(* transactions); the timestamp "at" is the order readers sort by.         *)
(***************************************************************************)
EXTENDS Naturals, Sequences, RoStatuses

CONSTANTS
  Calls,      \* calls of setRoStatus
  Targets     \* the statuses they ask for

ASSUME TargetsAssumption == Targets \subseteq RoStatus

VARIABLES
  roStatus,   \* ro_status of the check-in
  history,    \* its ro_status_history rows, in commit order
  call,       \* per call: where it is, its target and what it has read
  clock       \* the next timestamp: new Date() of the server

trailVars == <<roStatus, history, call, clock>>

Row == [from : RoStatus \cup {NoStatus}, to : RoStatus, at : Nat]

CallState == [pc : {"waiting", "writing", "done"}, to : Targets,
              from : RoStatus \cup {NoStatus}, at : Nat]

TrailTypes ==
  /\ roStatus \in RoStatus \cup {NoStatus}
  /\ history \in Seq(Row)
  /\ call \in [Calls -> CallState]
  /\ clock \in Nat

\* A check-in is inserted with no status and no history; each call knows its
\* target.
TrailInit ==
  /\ roStatus = NoStatus
  /\ history = <<>>
  /\ call \in [Calls -> {[pc |-> "waiting", to |-> t, from |-> NoStatus, at |-> 0] : t \in Targets}]
  /\ clock = 1

WriteWithoutFirstRow(k) ==
  /\ call[k].pc = "writing"
  /\ roStatus' = call[k].to
  /\ history' = IF call[k].from = NoStatus THEN history
                ELSE Append(history, [from |-> call[k].from, to |-> call[k].to, at |-> call[k].at])
  /\ call' = [call EXCEPT ![k].pc = "done"]
  /\ UNCHANGED clock

WriteSwapped(k) ==
  /\ call[k].pc = "writing"
  /\ roStatus' = call[k].to
  /\ history' = Append(history, [from |-> call[k].to, to |-> call[k].from, at |-> call[k].at])
  /\ call' = [call EXCEPT ![k].pc = "done"]
  /\ UNCHANGED clock

\* The select of the current status: no-op when the check-in is already there.
ReadCurrent(k) ==
  /\ call[k].pc = "waiting"
  /\ IF roStatus = call[k].to
       THEN /\ call' = [call EXCEPT ![k].pc = "done", ![k].from = roStatus]
            /\ UNCHANGED clock
       ELSE /\ call' = [call EXCEPT ![k] = [@ EXCEPT !.pc = "writing", !.from = roStatus, !.at = clock]]
            /\ clock' = clock + 1
  /\ UNCHANGED <<roStatus, history>>

\* The transaction: status and history row together, unconditionally.
WriteStatus(k) ==
  /\ call[k].pc = "writing"
  /\ roStatus' = call[k].to
  /\ history' = Append(history, [from |-> call[k].from, to |-> call[k].to, at |-> call[k].at])
  /\ call' = [call EXCEPT ![k].pc = "done"]
  /\ UNCHANGED clock

\* The process stops, or the transaction fails and rolls back.
CallFails(k) ==
  /\ call[k].pc # "done"
  /\ call' = [call EXCEPT ![k].pc = "done"]
  /\ UNCHANGED <<roStatus, history, clock>>

TrailNext == \E k \in Calls : ReadCurrent(k) \/ WriteStatus(k) \/ CallFails(k)

TrailSpec == TrailInit /\ [][TrailNext]_trailVars

-----------------------------------------------------------------------------

LastTo == IF history = <<>> THEN NoStatus ELSE history[Len(history)].to

(* The status of the check-in is the "to" of the row committed last, whatever
   calls overlap or fail (models/roStatusHistory.ts: status and row are
   written "in the same transaction so the audit trail can never drift"). *)
StatusIsLastCommitted == roStatus = LastTo

(* No row records a move from a status to itself, also when the status changed
   between the read of a call and its commit (the no-op guard of setRoStatus). *)
NoSelfLoops == \A i \in 1..Len(history) : history[i].from # history[i].to

(* The trail tells no origin that never was: the "from" of a row is a status the
   check-in had before the row was committed. *)
OriginsHappened ==
  \A i \in 1..Len(history) :
    \/ history[i].from = NoStatus
    \/ \E j \in 1..(i - 1) : history[j].to = history[i].from
=============================================================================
