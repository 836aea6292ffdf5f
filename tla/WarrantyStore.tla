---------------------------- MODULE WarrantyStore ----------------------------
(***************************************************************************)
(* The store of the parts removed under warranty (modules/warranty): the   *)
(* tag that the completion of an item makes (service-advisors/service,     *)
(* completeItemWork), the part tagged by hand, and its way to the scrap.   *)
(*                                                                         *)
(* The item is one warranty claim on a card of its own; of its completion  *)
(* the marks that a tag follows from are kept (TechnicianWork has the      *)
(* rest).  Every statement outside a transaction is a step.                *)
(***************************************************************************)
EXTENDS LabourAlerts

CONSTANTS
  Completions,  \* completions in flight at most
  MaxParts      \* bound: parts in the store

VARIABLES
  parts,        \* warranty_parts, in the order of their tags
  comp          \* call of completeItemWork

storeVars == <<parts, comp>>

Allowed ==
  [HELD |-> {"PENDING_APPROVAL", "SCRAPPED"}, PENDING_APPROVAL |-> {"APPROVED", "REJECTED"},
   APPROVED |-> {"SCRAPPED"}, REJECTED |-> {"HELD"}, SCRAPPED |-> {}]

\* submitForApproval, approve, reject, scrap: no route leads back to HELD.
Target == {"PENDING_APPROVAL", "APPROVED", "REJECTED", "SCRAPPED"}

Part(by) == [by |-> by, status |-> "HELD"]

-----------------------------------------------------------------------------
(* Completion.                                                             *)

CompleteRead(c) ==
  /\ comp[c] = "idle" /\ ~item.done
  /\ Spend("completions")
  /\ comp' = [comp EXCEPT ![c] = "commit"]
  /\ marred' = IF \E other \in Completions : comp[other] # "idle" THEN marred \cup {"completions"} ELSE marred
  /\ UNCHANGED <<accessVars, item, tick, log, parts>>

\* The transaction looks at the item no more.
CompleteCommit(c) ==
  /\ comp[c] = "commit"
  /\ item' = [item EXCEPT !.done = TRUE]
  /\ comp' = [comp EXCEPT ![c] = "tag"]
  /\ UNCHANGED <<accessVars, left, tick, log, marred, parts>>

TagsAnyway == FALSE

\* A part of any origin that names the item.
AlreadyTagged == parts # <<>>

\* autoCreateForCompletedItem.
TagRead(c) ==
  /\ comp[c] = "tag"
  /\ comp' = [comp EXCEPT ![c] = IF AlreadyTagged THEN "idle" ELSE "insert"]
  /\ UNCHANGED <<accessVars, left, alertVars, parts>>

TagInsert(c) ==
  /\ comp[c] = "insert"
  /\ Len(parts) < MaxParts
  /\ parts' = Append(parts, Part("auto"))
  /\ comp' = [comp EXCEPT ![c] = "idle"]
  /\ UNCHANGED <<accessVars, left, alertVars>>

\* The server stops, or the tag fails, which is logged and forgotten.
CompletionEnds(c) ==
  /\ comp[c] # "idle"
  /\ comp' = [comp EXCEPT ![c] = "idle"]
  /\ UNCHANGED <<accessVars, left, alertVars, parts>>

\* The foreman rejects the work (workshop/service, rejectJobCard): the item is open again.
Reopen ==
  /\ item.done
  /\ item' = [item EXCEPT !.done = FALSE]
  /\ UNCHANGED <<accessVars, left, tick, log, marred, storeVars>>

-----------------------------------------------------------------------------
(* The guarded routes.                                                     *)

\* The way to a handler leads through the check (AccessControl).
StartRequest(r, s, does) ==
  /\ req[r].at = "idle"
  /\ Spend("requests")
  /\ req' = [req EXCEPT ![r] = [at |-> "check", server |-> s, does |-> does]]
  /\ UNCHANGED <<users, granted, cache, stale, admin, alertVars, storeVars>>

Answer(r) == req' = [req EXCEPT ![r] = [at |-> "idle"]]

\* A part tagged by hand asks for no other part of the item.
ManualCreate(r) ==
  /\ req[r].at = "handler" /\ req[r].does.op = "create"
  /\ Len(parts) < MaxParts
  /\ parts' = Append(parts, Part("manual"))
  /\ Answer(r)
  /\ UNCHANGED <<users, granted, cache, stale, admin, left, alertVars, comp>>

TransitionRead(r) ==
  /\ req[r].at = "handler" /\ req[r].does.op = "transition"
  /\ LET does == req[r].does IN
       IF does.part \in DOMAIN parts /\ does.to \in Allowed[parts[does.part].status]
       THEN req' = [req EXCEPT ![r].at = "write"]
       ELSE Answer(r)
  /\ UNCHANGED <<users, granted, cache, stale, admin, left, alertVars, storeVars>>

\* The status is set whatever it has become.
TransitionWrite(r) ==
  /\ req[r].at = "write"
  /\ parts' = [parts EXCEPT ![req[r].does.part].status = req[r].does.to]
  /\ Answer(r)
  /\ UNCHANGED <<users, granted, cache, stale, admin, left, alertVars, comp>>

Does == [op : {"create"}] \cup [op : {"transition"}, part : 1..MaxParts, to : Target]

StoreInit ==
  /\ parts = <<>>
  /\ comp = [c \in Completions |-> "idle"]

Storing ==
  \/ Reopen
  \/ \E c \in Completions :
       CompleteRead(c) \/ CompleteCommit(c) \/ TagRead(c) \/ TagInsert(c) \/ CompletionEnds(c)
  \/ \E r \in Requests, s \in Servers, does \in Does : StartRequest(r, s, does)
  \/ \E r \in Requests : ManualCreate(r) \/ TransitionRead(r) \/ TransitionWrite(r)
==============================================================================
