----------------------------- MODULE AccessControl -----------------------------
(***************************************************************************)
(* Users and what their roles may do: the administrator's handlers         *)
(* (modules/user-management), the permission check in front of every route *)
(* (shared/security/auth.middleware) and its cache on each server          *)
(* (shared/security/permissionsCache; the cache of scopes is another one   *)
(* of the kind).                                                           *)
(*                                                                         *)
(* A handler reads, asks Evolve, and writes in statements of their own.    *)
(* The permission modelled is the one to edit the warranty store, of one   *)
(* role; a number is a technician's number in Evolve, and service          *)
(* advisors' numbers are kept the same way.  The super administrator, whom *)
(* no handler changes, and the profile a user keeps himself are left out.  *)
(***************************************************************************)
EXTENDS Integers

CONSTANTS
  Users, Numbers, Servers,
  Hired,        \* users there are at the start, technicians without a number
  Admins,       \* calls of the administrator's handlers in flight at most
  Requests      \* calls of the guarded routes in flight at most

VARIABLES
  users,        \* user -> row
  granted,      \* the permission, in the table
  cache,        \* server -> what it believes of the permission
  stale,        \* servers that have yet to forget after their change
  admin,        \* call of an administrator's handler
  req,          \* call of a guarded route
  left          \* bound: what may still be begun

accessVars == <<users, granted, cache, stale, admin, req>>

Role == {"technician", "foreman"}

NoNumber == "none"

Same == "same"   \* a field that the body leaves out

Number == Numbers \cup {NoNumber}

UserRow == [state : {"absent", "live", "deleted"}, role : Role, active : {"yes", "no"}, number : Number]

Body == [role : Role \cup {Same}, number : Number \cup {Same}, active : {"yes", "no", Same}]

Spend(what) == left[what] > 0 /\ left' = [left EXCEPT ![what] = @ - 1]

Active(role) == {u \in Users : users[u].role = role /\ users[u].active = "yes"}

-----------------------------------------------------------------------------
(* Users.                                                                  *)

OwnerOf(n, rows) == {u \in rows : users[u].number = n}

Live == {u \in Users : users[u].state = "live"}

\* validateEvolveTechnicianActive and evolveTechNoOwner: the check overlooks the deleted.
MayMap(u, n) == n \in {NoNumber, Same} \/ OwnerOf(n, Live \ {u}) = {}

\* uq_users_evolve_technician_no: the index does not.
Fits(u, n) == n \in {NoNumber, Same} \/ OwnerOf(n, Users \ {u}) = {}

Begin(a, call) ==
  /\ admin[a].at = "idle"
  /\ Spend("admin")
  /\ admin' = [admin EXCEPT ![a] = call]
  /\ UNCHANGED <<users, granted, cache, stale, req>>

OldRole(role, body) == role

FinalRole(role, body) == IF body.role = Same THEN role ELSE body.role

\* Who is no technician, by the role that was read, is left without a number.
Call(op, u, role, body) ==
  [at |-> "write", op |-> op, u |-> u, role |-> role, body |-> body,
   number |-> IF FinalRole(role, body) = "technician" THEN body.number ELSE NoNumber]

CreateUser(a, u) ==
  /\ users[u].state = "absent"
  /\ \E role \in Role, n \in Number :
       /\ role = "technician" => MayMap(u, n)
       /\ Begin(a, Call("create", u, role, [role |-> role, number |-> n, active |-> "yes"]))

UpdateUser(a, u) ==
  /\ users[u].state # "absent"
  /\ \E body \in Body :
       /\ FinalRole(users[u].role, body) = "technician" => MayMap(u, body.number)
       /\ Begin(a, Call("update", u, users[u].role, body))

SetUserEvolveTechnicianNo(a, u) ==
  /\ users[u].state = "live" /\ users[u].role = "technician"
  /\ \E n \in Number :
       /\ MayMap(u, n)
       /\ Begin(a, Call("map", u, users[u].role, [role |-> Same, number |-> n, active |-> Same]))

\* The number stays with the deleted row.
DeleteUser(a, u) ==
  /\ users[u].state = "live"
  /\ Begin(a, [at |-> "write", op |-> "delete", u |-> u, role |-> users[u].role,
               body |-> [role |-> Same, number |-> Same, active |-> "no"], number |-> Same])

Put(old, new) == IF new = Same THEN old ELSE new

Written(row, call) ==
  [state  |-> CASE call.op = "create" -> "live" [] call.op = "delete" -> "deleted" [] OTHER -> row.state,
   role   |-> Put(row.role, call.body.role),
   active |-> Put(row.active, call.body.active),
   number |-> Put(row.number, call.number)]

AdminWrite(a) ==
  /\ admin[a].at = "write"
  /\ LET u == admin[a].u IN
       users' = IF Fits(u, admin[a].number) THEN [users EXCEPT ![u] = Written(@, admin[a])] ELSE users
  /\ admin' = [admin EXCEPT ![a] = [at |-> "idle"]]
  /\ UNCHANGED <<granted, cache, stale, req, left>>

\* Evolve does not know the number or does not answer; the server stops.
AdminFails(a) ==
  /\ admin[a].at = "write"
  /\ admin' = [admin EXCEPT ![a] = [at |-> "idle"]]
  /\ UNCHANGED <<users, granted, cache, stale, req, left>>

-----------------------------------------------------------------------------
(* Permissions.                                                            *)

\* A transaction replaces the role's permissions; afterwards the server forgets what it cached.
UpdateRolePermissions(s) ==
  /\ Spend("changes")
  /\ granted' = ~granted
  /\ stale' = stale \cup {s}
  /\ UNCHANGED <<users, cache, admin, req>>

InvalidatePermissionsCache(s) ==
  /\ s \in stale
  /\ stale' = stale \ {s}
  /\ cache' = [cache EXCEPT ![s] = "none"]
  /\ UNCHANGED <<users, granted, admin, req, left>>

KeptForever(s) == FALSE

Expired(s) == cache[s] # "none"

\* The five minutes of an entry are over.
Expire(s) ==
  /\ Expired(s)
  /\ cache' = [cache EXCEPT ![s] = "none"]
  /\ UNCHANGED <<users, granted, stale, admin, req, left>>

Believed == IF granted THEN "yes" ELSE "no"

PassOrNot(r, answer) ==
  req' = [req EXCEPT ![r] = IF answer = "yes" THEN [@ EXCEPT !.at = "handler"] ELSE [at |-> "idle"]]

\* checkPermission with an entry.
CheckCached(r) ==
  /\ req[r].at = "check"
  /\ cache[req[r].server] # "none"
  /\ PassOrNot(r, cache[req[r].server])
  /\ UNCHANGED <<users, granted, cache, stale, admin, left>>

\* Without one it reads the table, and caches what it has read when the answer is there.
CheckReads(r) ==
  /\ req[r].at = "check"
  /\ cache[req[r].server] = "none"
  /\ req' = [req EXCEPT ![r] = [at |-> "fill", server |-> @.server, does |-> @.does, saw |-> Believed]]
  /\ UNCHANGED <<users, granted, cache, stale, admin, left>>

CheckFills(r) ==
  /\ req[r].at = "fill"
  /\ cache' = [cache EXCEPT ![req[r].server] = req[r].saw]
  /\ req' = [req EXCEPT ![r] = IF req[r].saw = "yes"
                                THEN [at |-> "handler", server |-> @.server, does |-> @.does]
                                ELSE [at |-> "idle"]]
  /\ UNCHANGED <<users, granted, stale, admin, left>>

AccessInit ==
  /\ users = [u \in Users |-> IF u \in Hired
                 THEN [state |-> "live", role |-> "technician", active |-> "yes", number |-> NoNumber]
                 ELSE [state |-> "absent", role |-> "foreman", active |-> "no", number |-> NoNumber]]
  /\ granted = TRUE /\ stale = {}
  /\ cache = [s \in Servers |-> "none"]
  /\ admin = [a \in Admins |-> [at |-> "idle"]]
  /\ req = [r \in Requests |-> [at |-> "idle"]]

Administration ==
  \/ \E a \in Admins, u \in Users :
       CreateUser(a, u) \/ UpdateUser(a, u) \/ SetUserEvolveTechnicianNo(a, u) \/ DeleteUser(a, u)
  \/ \E a \in Admins : AdminWrite(a) \/ AdminFails(a)
  \/ \E s \in Servers : UpdateRolePermissions(s)

Checking ==
  \/ \E s \in Servers : InvalidatePermissionsCache(s) \/ Expire(s)
  \/ \E r \in Requests : CheckCached(r) \/ CheckReads(r) \/ CheckFills(r)
==============================================================================
