--------------------------- MODULE PermissionMatrix ---------------------------
(***************************************************************************)
(* Which permission codes the roles have.  Site admins replace the roles   *)
(* of a code in a transaction that reads them, writes the difference and   *)
(* revokes the sessions of everybody else; a session keeps the codes its   *)
(* user signed in with, and each request is decided on the rows.           *)
(***************************************************************************)
EXTENDS RoleGovernance

CONSTANTS Code,        \* permission codes: <<domain, action>>
          Offered,     \* bound: the roles that updates grant and withdraw
          NoSession

VARIABLES
  granted,   \* the RolePermission rows
  session    \* the live session of each user, with the codes it loaded

matrixVars == <<granted, session>>

MatrixRequest ==
  [op: {"put", "written"}, code: Code, add: SUBSET AnyRole, drop: SUBSET AnyRole,
   revokes: SUBSET User]

\* "stale": opened while an update was not committed, or its user's own update.
Session == [role: AnyRole, codes: SUBSET Code, stale: BOOLEAN]

ASSUME MatrixAssumption == NoSession \notin Session /\ Offered \subseteq AnyRole \ SiteRole

MatrixTypeOK ==
  /\ granted \subseteq AnyRole \X Code
  /\ session \in [User -> Session \cup {NoSession}]

-----------------------------------------------------------------------------
(* What a role may be granted *)

AdminRole == {"DEPARTMENT_ADMIN", "LOCATION_ADMIN", "ROOM_ADMIN"}
ViewerRole == {"DEPARTMENT_VIEWER", "LOCATION_VIEWER", "ROOM_VIEWER"}

SiteAdminOnly(c) ==
  c \in {<<"auth", "manage_permissions">>, <<"roles", "manage_permissions">>,
         <<"permissions", "view">>, <<"assets", "hard_delete">>, <<"assignments", "view_all">>,
         <<"reports", "manage">>, <<"sessions", "view">>, <<"sessions", "revoke">>,
         <<"role_assignments", "activate">>, <<"users", "create">>}

ViewerSafe(c) ==
  \/ c[1] = "reports" \/ c[2] \in {"view", "self_view"}
  \/ c \in {<<"returns", "self_return">>, <<"returns", "request_asset_return">>,
            <<"role_assignments", "self_activate">>, <<"sessions", "self_revoke">>,
            <<"users", "self_update">>}

ClerkBlocked(c) ==
  \/ c[1] \in {"departments", "locations", "role_assignments", "user_placements", "sessions"}
  \/ c[1] = "assets" /\ c[2] \in {"delete", "hard_delete", "restore", "condemn"}
  \/ c[1] = "assignments" /\ c[2] \in {"update", "unassign", "reassign", "view_all"}
  \/ c[1] = "returns" /\ c[2] \in {"process", "delete"}
  \/ c[1] = "users" /\ c[2] \in {"create", "full_create", "update", "delete", "lock", "unlock", "manage"}
  \/ c[1] = "rooms" /\ c[2] \in {"create", "update", "transfer", "delete"}

AdminOnly(c) ==
  \/ c[1] = "user_placements"
  \/ c[1] = "role_assignments" /\ c[2] \in {"create", "update", "delete", "manage"}
  \/ c \in {<<"users", "full_create">>, <<"users", "update">>, <<"returns", "process">>}

DepartmentAdminOnly(c) ==
  \/ c[1] = "agreements" /\ c[2] \in {"create", "update", "delete"}
  \/ c[1] = "users" /\ c[2] \in {"delete", "lock", "unlock"}
  \/ c[1] = "locations" /\ c[2] \in {"create", "transfer", "delete"}

BeyondRoom(c) ==
  c[1] \in {"departments", "locations"} \/ (c[1] = "rooms" /\ c[2] \in {"create", "transfer", "delete"})

BeyondLocation(c) ==
  c[1] = "departments" \/ (c[1] = "locations" /\ c[2] \in {"create", "transfer", "delete"})

MayBeGranted(role, c) ==
  \/ role = "SITE_ADMIN"
  \/ /\ ~SiteAdminOnly(c)
     /\ role \in RoomRole => ~BeyondRoom(c)
     /\ role \in LocationRole => ~BeyondLocation(c)
     /\ role \in ViewerRole => ViewerSafe(c)
     /\ role = "ROOM_CLERK" => ~ClerkBlocked(c)
     /\ AdminOnly(c) => role \in AdminRole
     /\ DepartmentAdminOnly(c) => role = "DEPARTMENT_ADMIN"

MatrixInit(rows) ==
  /\ granted = rows /\ \A g \in rows : MayBeGranted(g[1], g[2])
  /\ session = [u \in User |-> NoSession]

-----------------------------------------------------------------------------
(* Sessions and requests *)

\* What a session loads, and what a request is decided on.
RuntimeCodes(role) == IF role = "SITE_ADMIN" THEN Code ELSE {c \in Code : <<role, c>> \in granted}
HasPermission(u, c) == Actor(u).role = "SITE_ADMIN" \/ <<Actor(u).role, c>> \in granted

Uncommitted(u) == request[u] # Idle /\ request[u].op = "written"

SignIn(u) ==
  /\ "matrix" \in topics /\ session[u] = NoSession /\ active[u] # NoRow
  /\ session' = [session EXCEPT ![u] =
                   [role |-> Actor(u).role, codes |-> RuntimeCodes(Actor(u).role),
                    stale |-> \E v \in User : Uncommitted(v)]]
  /\ request' = [v \in User |->
                   IF Uncommitted(v) THEN [request[v] EXCEPT !.revokes = @ \ {u}] ELSE request[v]]
  /\ UNCHANGED <<siteVars, assignment, active, founders, topics, left, granted>>

-----------------------------------------------------------------------------
(* An update *)

\* Every role that is not asked for loses the code.
Put(u, c, want) ==
  LET roles == {r \in AnyRole : <<r, c>> \in granted} IN
  /\ Ready(u, "matrix") /\ Actor(u).role = "SITE_ADMIN"
  /\ \A r \in want : MayBeGranted(r, c)
  /\ Ask(u, [op |-> "put", code |-> c, add |-> want \ roles, drop |-> roles \ want, revokes |-> {}])
  /\ UNCHANGED matrixVars

\* Rows that another transaction inserted or deleted are waited for.
WaitsFor(r, s) == r.code = s.code /\ (r.add \cap (s.add \cup s.drop) # {} \/ r.drop \cap s.drop # {})

\* The sessions to revoke, when a row was to be inserted or was deleted.
BugRevoked(u, r) ==
  IF r.add = {} THEN {} ELSE {v \in User \ {u} : session[v] # NoSession}

Revoked(u, r) ==
  IF r.add = {} /\ \A role \in r.drop : <<role, r.code>> \notin granted THEN {}
  ELSE {v \in User \ {u} : session[v] # NoSession}

Write(u) ==
  LET r == request[u] IN
  /\ r # Idle /\ r.op = "put"
  /\ \A v \in User \ {u} : Uncommitted(v) => ~WaitsFor(r, request[v])
  /\ request' = [request EXCEPT ![u] =
                   [r EXCEPT !.op = "written",
                             !.add = {role \in r.add : <<role, r.code>> \notin granted},
                             !.drop = {role \in r.drop : <<role, r.code>> \in granted},
                             !.revokes = Revoked(u, r)]]
  /\ UNCHANGED <<siteVars, assignment, active, founders, topics, left, matrixVars>>

\* A session that was opened since the revocation stays.
Commit(u) ==
  LET r == request[u] IN
  /\ Uncommitted(u)
  /\ granted' = (granted \cup (r.add \X {r.code})) \ (r.drop \X {r.code})
  /\ session' = [v \in User |->
                   IF v \in r.revokes THEN NoSession
                   ELSE IF v = u /\ session[v] # NoSession THEN [session[v] EXCEPT !.stale = TRUE]
                   ELSE session[v]]
  /\ Done(u) /\ UNCHANGED <<siteVars, assignment, active>>

MatrixStep(u) ==
  \/ \E c \in Code, want \in SUBSET Offered : Put(u, c, want)
  \/ Write(u) \/ Commit(u) \/ SignIn(u)

-----------------------------------------------------------------------------
(* What must hold *)

\* No role outranks the one that manages it: whatever the matrix grants to a
\* role may be granted to each role that can assign it.
GrantsStayBelow ==
  \A g \in granted, m \in AnyRole : g[1] \in Manages(m) => MayBeGranted(m, g[2])

\* A user works with the permissions its requests are decided on: whatever
\* updates overlap, a live session loaded the codes that are granted now; but
\* for one that was opened between the revocation and the commit of an update,
\* and for the session of the admin who made it.
ContextFresh ==
  \A u \in User :
    session[u] # NoSession /\ ~session[u].stale /\ session[u].role = Actor(u).role =>
      session[u].codes = {c \in Code : HasPermission(u, c)}
=============================================================================
