----------------------------- MODULE LabourAlerts -----------------------------
(***************************************************************************)
(* The check for items that use up their estimated hours, which the        *)
(* servers run every five minutes, and the notification it sends           *)
(* (modules/notifications).                                                *)
(*                                                                         *)
(* A run reads the items first and works on what it read.  The timer does  *)
(* not wait for a run to end, and every server has its own.  One rule, for *)
(* the foremen, stands for those an administrator may enable.              *)
(***************************************************************************)
EXTENDS AccessControl, Sequences

CONSTANT Ticks   \* runs in flight at most

VARIABLES
  item,         \* a job card's item: hours used, alerts, whether it is completed
  tick,         \* run of the check
  log,          \* notification_log, by trigger
  marred        \* what has overlapped or stopped

alertVars == <<item, tick, log, marred>>

Threshold == {80, 100}

Reached(threshold, used) == used >= (IF threshold = 80 THEN 1 ELSE 2)

\* A technician's timer runs.
TimeIsSpent ==
  /\ ~item.done
  /\ Spend("hours")
  /\ item' = [item EXCEPT !.used = @ + 1]
  /\ UNCHANGED <<accessVars, tick, log, marred>>

RunLabourAlertCheck(t) ==
  /\ tick[t].at = "idle"
  /\ Spend("ticks")
  /\ tick' = [tick EXCEPT ![t] =
                IF item.done THEN @
                ELSE [at |-> "check", threshold |-> 80, used |-> item.used, alerted |-> item.alerted]]
  /\ marred' = IF \E other \in Ticks : tick[other].at # "idle" THEN marred \cup {"ticks"} ELSE marred
  /\ UNCHANGED <<accessVars, item, log>>

OnTo100(t) ==
  tick' = [tick EXCEPT ![t] = IF @.threshold = 80 THEN [@ EXCEPT !.at = "check", !.threshold = 100]
                                                  ELSE [at |-> "idle"]]

ReachedAtAll(t) == Reached(tick[t].threshold, tick[t].used)

\* Reached, and no alert at the time of the read.
IsDue(t) == Reached(tick[t].threshold, tick[t].used) /\ tick[t].threshold \notin tick[t].alerted

\* The alert is marked as sent first.
MarkAlerted(t) ==
  /\ tick[t].at = "check" /\ IsDue(t)
  /\ item' = [item EXCEPT !.alerted = @ \cup {tick[t].threshold}]
  /\ tick' = [tick EXCEPT ![t].at = "dispatch"]
  /\ UNCHANGED <<accessVars, log, marred, left>>

NotDue(t) ==
  /\ tick[t].at = "check" /\ ~IsDue(t)
  /\ OnTo100(t)
  /\ UNCHANGED <<accessVars, item, log, marred, left>>

\* One row of the log for the rule, also when nobody is there to be told.
DispatchNotifications(t) ==
  /\ tick[t].at = "dispatch"
  /\ log' = [log EXCEPT ![tick[t].threshold] =
               Append(@, IF Active("foreman") = {} THEN "skipped" ELSE "sent")]
  /\ OnTo100(t)
  /\ UNCHANGED <<accessVars, item, marred, left>>

TickStops(t) ==
  /\ tick[t].at # "idle"
  /\ tick' = [tick EXCEPT ![t] = [at |-> "idle"]]
  /\ marred' = marred \cup {"ticks"}
  /\ UNCHANGED <<accessVars, item, log, left>>

AlertInit ==
  /\ item = [used |-> 0, alerted |-> {}, done |-> FALSE]
  /\ tick = [t \in Ticks |-> [at |-> "idle"]]
  /\ log = [threshold \in Threshold |-> <<>>]
  /\ marred = {}

Alerting ==
  \/ TimeIsSpent
  \/ \E t \in Ticks : RunLabourAlertCheck(t) \/ MarkAlerted(t) \/ NotDue(t)
                        \/ DispatchNotifications(t) \/ TickStops(t)
==============================================================================
