------------------------------ MODULE BackOffice ------------------------------
(***************************************************************************)
(* The administrator, the permission check, the alerts and the warranty    *)
(* store together: a route of the store runs behind the permission check,  *)
(* the alerts go to the users of a role, and a completed item is tagged    *)
(* once and alerted no more.                                               *)
(***************************************************************************)
EXTENDS WarrantyStore

CONSTANT Seeds   \* bound: how much of each kind may be begun, one instance each

Kinds == {"admin", "changes", "hours", "ticks", "requests", "completions"}

ASSUME BackOfficeAssumption ==
  /\ Hired \subseteq Users /\ {NoNumber, Same} \cap Numbers = {}
  /\ MaxParts \in Nat
  /\ Seeds \subseteq [Kinds -> Nat]

vars == <<accessVars, left, alertVars, storeVars>>

Init ==
  /\ left \in Seeds
  /\ AccessInit /\ AlertInit /\ StoreInit

Next ==
  \/ (Administration \/ Checking) /\ UNCHANGED <<alertVars, storeVars>>
  \/ Alerting /\ UNCHANGED storeVars
  \/ Storing

(* An entry of the cache expires, and a server that changed the permissions *)
(* goes on to forget what it cached.                                        *)
Fairness ==
  \A s \in Servers :
    /\ WF_vars(Expire(s) /\ UNCHANGED <<alertVars, storeVars>>)
    /\ WF_vars(InvalidatePermissionsCache(s) /\ UNCHANGED <<alertVars, storeVars>>)

Spec == Init /\ [][Next]_vars /\ Fairness

-----------------------------------------------------------------------------

IdleCall == [at : {"idle"}]

AdminCall ==
  [at : {"write"}, op : {"create", "update", "map", "delete"}, u : Users, role : Role,
   body : Body, number : Number \cup {Same}]

GuardedCall ==
  [at : {"check", "handler"}, server : Servers, does : Does]
    \cup [at : {"fill"}, server : Servers, does : Does, saw : {"yes", "no"}]
    \cup [at : {"write"}, server : Servers, does : {does \in Does : does.op = "transition"}]

AlertRun == [at : {"check", "dispatch"}, threshold : Threshold, used : Nat, alerted : SUBSET Threshold]

TypeOK ==
  /\ users \in [Users -> UserRow] /\ granted \in BOOLEAN
  /\ cache \in [Servers -> {"none", "yes", "no"}] /\ stale \subseteq Servers
  /\ admin \in [Admins -> IdleCall \cup AdminCall]
  /\ req \in [Requests -> IdleCall \cup GuardedCall]
  /\ left \in [Kinds -> Nat]
  /\ item \in [used : Nat, alerted : SUBSET Threshold, done : BOOLEAN]
  /\ tick \in [Ticks -> IdleCall \cup AlertRun]
  /\ log \in [Threshold -> Seq({"sent", "skipped"})]
  /\ marred \subseteq {"ticks", "completions"}
  /\ parts \in Seq([by : {"auto", "manual"}, status : DOMAIN Allowed])
  /\ comp \in [Completions -> {"idle", "commit", "tag", "insert"}]

(* A permission that was changed is believed by every server in the end,   *)
(* also by the servers that did not change it and by one that cached what  *)
(* it had read before the change (permissionsCache, TTL_MS).               *)
CacheHeals == \A s \in Servers : <>[](cache[s] \in {"none", Believed})

(* Who is no technician gets no Evolve number, unless the role was changed *)
(* while the call asked Evolve (updateUser and setUserEvolveTechnicianNo   *)
(* decide on the role they read).                                          *)
NumberFitsRole ==
  [][\A u \in Users :
       users'[u].number \notin {users[u].number, NoNumber} /\ users'[u].role # "technician"
         => \E a \in Admins : admin[a].at = "write" /\ admin[a].u = u /\ users[u].role # admin[a].role]_vars

(* While the runs of the check neither overlap nor stop, each threshold    *)
(* is told once when it is marked, and not told when it is not             *)
(* (runLabourAlertCheck: "Each threshold fires at most once").             *)
AlertsTold ==
  "ticks" \notin marred /\ (\A t \in Ticks : tick[t].at # "dispatch")
    => \A threshold \in Threshold :
         Len(log[threshold]) = IF threshold \in item.alerted THEN 1 ELSE 0

(* An item is tagged once, however often the foreman has its work done     *)
(* again, if no two completions overlap (autoCreateForCompletedItem,       *)
(* "Don't double-tag").                                                    *)
OneTag ==
  "completions" \notin marred =>
    \A i, j \in DOMAIN parts : parts[i].by = "auto" /\ parts[j].by = "auto" => i = j
==============================================================================
