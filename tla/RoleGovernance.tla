--------------------------- MODULE RoleGovernance ---------------------------
(***************************************************************************)
(* Who may give, change and take away which role, on a tree of sites that  *)
(* changes meanwhile.  Every request reads what it decides on in one step, *)
(* the caller's active role included, and saves in a later one, without a  *)
(* lock: by then its caller may have lost the role, its assignment may be  *)
(* gone, and its sites may have moved.                                     *)
(***************************************************************************)
EXTENDS SiteTree

CONSTANTS
  User,
  Row,           \* primary keys of RoleAssignment
  Role,          \* the roles used, of ROLE_HIERARCHY_LIST
  NoRow

VARIABLES
  assignment,   \* the RoleAssignment rows
  active,       \* User.active_role
  request,      \* what each user's request is about to save
  founders,     \* the assignments the system started with (history)
  topics,       \* bound: what the requests of the behaviour are about,
  left          \* and how many more there are

roleVars == <<assignment, active, request, founders, topics, left>>

-----------------------------------------------------------------------------
(* ROLE_HIERARCHY_LIST *)

SiteRole == {"SITE_ADMIN"}
DepartmentRole == {"DEPARTMENT_ADMIN", "DEPARTMENT_VIEWER"}
LocationRole == {"LOCATION_ADMIN", "LOCATION_VIEWER"}
RoomRole == {"ROOM_ADMIN", "ROOM_CLERK", "ROOM_VIEWER"}
AnyRole == SiteRole \cup DepartmentRole \cup LocationRole \cup RoomRole
Admin == {"SITE_ADMIN", "DEPARTMENT_ADMIN", "LOCATION_ADMIN", "ROOM_ADMIN"}

\* "assign": the scopes a role can have.
Assignable(role) ==
  CASE role \in SiteRole -> {AllSites}
    [] role \in DepartmentRole -> Department
    [] role \in LocationRole -> Location
    [] role \in RoomRole -> Room

BugManages(role) ==
  CASE role = "SITE_ADMIN" -> AnyRole
    [] role = "DEPARTMENT_ADMIN" -> {"DEPARTMENT_VIEWER"} \cup LocationRole \cup RoomRole
    [] role = "LOCATION_ADMIN" -> LocationRole \cup RoomRole
    [] role = "ROOM_ADMIN" -> {"ROOM_CLERK", "ROOM_VIEWER"}
    [] OTHER -> {}

Manages(role) ==
  CASE role = "SITE_ADMIN" -> AnyRole
    [] role = "DEPARTMENT_ADMIN" -> {"DEPARTMENT_VIEWER"} \cup LocationRole \cup RoomRole
    [] role = "LOCATION_ADMIN" -> {"LOCATION_VIEWER"} \cup RoomRole
    [] role = "ROOM_ADMIN" -> {"ROOM_CLERK", "ROOM_VIEWER"}
    [] OTHER -> {}

-----------------------------------------------------------------------------
(* Rows and requests *)

Assignment == {a \in [user: User, role: Role, scope: Site \cup {AllSites}] :
                 a.scope \in Assignable(a.role)}
Nobody == [role |-> "none", scope |-> NoSite]
Idle == [op |-> "idle"]
RoleRequest ==
       [op: {"create"}, row: Assignment]
  \cup [op: {"update"}, id: Row, row: Assignment]
  \cup [op: {"delete", "switch"}, id: Row]
  \cup [op: {"place"}, site: Site, parent: Site \cup {NoSite}]
  \cup [op: {"remove"}, site: Site]

ASSUME RoleAssumption ==
  Role \subseteq AnyRole /\ NoRow \notin Row /\ {Unborn, Deleted} \cap Assignment = {}

Held(i) == assignment[i] \notin {Unborn, Deleted}
Actor(u) == IF active[u] = NoRow THEN Nobody ELSE assignment[active[u]]
ScopeStands(row) == row.scope \in Site => Stands(row.scope)

\* The unique constraints; row i itself is not counted.
Unique(i, row) == \A j \in Row \ {i} : Held(j) => assignment[j] # row

RoleTypeOK ==
  /\ SiteTypeOK
  /\ assignment \in [Row -> Assignment \cup {Unborn, Deleted}]
  /\ active \in [User -> Row \cup {NoRow}]
  /\ founders \subseteq Assignment
  /\ left \in Nat

RoleInit(tree, rows, roles) ==
  /\ SiteInit(tree)
  /\ assignment = rows
  /\ \A i \in Row : Held(i) => ScopeStands(assignment[i]) /\ Unique(i, assignment[i])
  /\ active = roles
  /\ \A u \in User : active[u] # NoRow => Held(active[u]) /\ assignment[active[u]].user = u
  /\ request = [u \in User |-> Idle]
  /\ founders = {assignment[i] : i \in {j \in Row : Held(j)}}

-----------------------------------------------------------------------------
(* The rules *)

CanAccessRoom(actor, r) ==
  \/ actor.role = "SITE_ADMIN"
  \/ actor.role \in DepartmentRole /\ parent[r] \in Site /\ parent[parent[r]] = actor.scope
  \/ actor.role \in LocationRole /\ parent[r] = actor.scope
  \/ actor.role \in RoomRole /\ r = actor.scope

CanAccessLocation(actor, l) ==
  \/ actor.role = "SITE_ADMIN"
  \/ actor.scope \in Department /\ actor.scope = parent[l]
  \/ actor.scope \in Location /\ actor.scope = l

CanAccessDepartment(actor, d) == actor.role = "SITE_ADMIN" \/ actor.scope = d

\* can_assign, given the department, location and room of the request.
CanAssign(actor, role, sites) ==
  /\ role \in Manages(actor.role)
  /\ \/ sites = {} /\ actor.role = "SITE_ADMIN" /\ Assignable(role) = {AllSites}
     \/ \E s \in sites :
          /\ sites = {s} /\ s \in Assignable(role)
          /\ s \in Room => CanAccessRoom(actor, s)
          /\ s \in Location => CanAccessLocation(actor, s)
          /\ s \in Department => CanAccessDepartment(actor, s)

CanManage(actor, row) == CanAssign(actor, row.role, {row.scope} \ {AllSites})

\* A scope an update leaves out falls back on the old one, so that a change of
\* level presents two.
Given(old, new) ==
  (IF Assignable(new.role) = Assignable(old.role) THEN {new.scope} ELSE {old.scope, new.scope})
    \ {AllSites}

BugCanUpdate(actor, old, new) ==
  /\ CanManage(actor, old) /\ new.role \in Manages(actor.role)
  /\ Assignable(new.role) = Assignable(old.role)

CanUpdate(actor, old, new) ==
  CanManage(actor, old) /\ CanAssign(actor, new.role, Given(old, new))

\* can_access_role_assignment, the permission of a single assignment.
CanAccessRow(actor, row) ==
  /\ row.scope \in Room => CanAccessRoom(actor, row.scope)
  /\ row.scope \in Location => CanAccessLocation(actor, row.scope)
  /\ row.scope \in Department => CanAccessDepartment(actor, row.scope)
  /\ row.scope = AllSites => actor.role = "SITE_ADMIN"

\* get_queryset: the assignments a user's requests find.
Visible(u, row) ==
  \/ row.user = u
  \/ Actor(u).role = "SITE_ADMIN"
  \/ row.role \in Manages(Actor(u).role) /\ Within(row.scope, Actor(u).scope)

\* filter_visibility, and the role lists of one site.
ShownRole(role) ==
  CASE role = "SITE_ADMIN" -> AnyRole
    [] role = "DEPARTMENT_ADMIN" -> AnyRole \ {"DEPARTMENT_ADMIN"}
    [] role = "LOCATION_ADMIN" -> AnyRole \ (DepartmentRole \cup {"LOCATION_ADMIN"})
    [] role = "ROOM_ADMIN" -> {"ROOM_CLERK", "ROOM_VIEWER"}
    [] OTHER -> {}

\* The permission of the pages of one site.
MayOpenRoom(actor, r) == actor.role = "SITE_ADMIN" \/ CanAccessRoom(actor, r)
MayOpenLocation(actor, l) ==
  \/ actor.role = "SITE_ADMIN"
  \/ actor.scope \in Department /\ actor.scope = parent[l]
  \/ actor.scope = l
MayOpenDepartment(actor, d) == actor.role = "SITE_ADMIN" \/ actor.scope = d

ListedAt(a, actor, row) ==
  /\ a \in Room => MayOpenRoom(actor, a)
  /\ a \in Location => MayOpenLocation(actor, a)
  /\ a \in Department => MayOpenDepartment(actor, a)
  /\ Within(row.scope, a)
  /\ actor.role = "SITE_ADMIN" \/ Within(row.scope, actor.scope)
  /\ row.role \in ShownRole(actor.role)

-----------------------------------------------------------------------------
(* Requests about roles: each decides on what it reads *)

\* Every request asks for this first; RoleStep says it for those of this module.
Ready(u, topic) == request[u] = Idle /\ left > 0 /\ topic \in topics

Ask(u, what) ==
  /\ request' = [request EXCEPT ![u] = what] /\ left' = left - 1
  /\ UNCHANGED <<siteVars, assignment, active, founders, topics>>

AskCreate(u, row) ==
  /\ ScopeStands(row) /\ \A j \in Row : Held(j) => assignment[j] # row
  /\ CanAssign(Actor(u), row.role, {row.scope} \ {AllSites})
  /\ Ask(u, [op |-> "create", row |-> row])

AskUpdate(u, i, row) ==
  /\ Held(i) /\ row.user = assignment[i].user
  /\ Visible(u, assignment[i]) /\ CanAccessRow(Actor(u), assignment[i])
  /\ ScopeStands(row) /\ Unique(i, row)
  /\ CanUpdate(Actor(u), assignment[i], row)
  /\ Ask(u, [op |-> "update", id |-> i, row |-> row])

AskDelete(u, i) ==
  /\ Held(i) /\ Visible(u, assignment[i]) /\ CanAccessRow(Actor(u), assignment[i])
  /\ CanManage(Actor(u), assignment[i])
  /\ Ask(u, [op |-> "delete", id |-> i])

AskSwitch(u, i) ==
  /\ Held(i) /\ assignment[i].user = u /\ active[u] # i
  /\ Ask(u, [op |-> "switch", id |-> i])

-----------------------------------------------------------------------------
(* Requests about sites *)

MayCreateRoom(actor, l) ==
  \/ actor.role = "SITE_ADMIN"
  \/ actor.role \in Admin /\ (parent[l] = actor.scope \/ l = actor.scope)

MayCreateLocation(actor, d) ==
  \/ actor.role = "SITE_ADMIN"
  \/ actor.role = "DEPARTMENT_ADMIN" /\ d = actor.scope

MayCreate(actor, s, p) ==
  /\ parent[s] = Unborn
  /\ s \in Room => MayCreateRoom(actor, p)
  /\ s \in Location => MayCreateLocation(actor, p)
  /\ s \in Department => actor.role \in {"SITE_ADMIN", "DEPARTMENT_ADMIN"}

\* The permissions of a single site; "moves" says that the request names a parent.
RoomAllowed(actor, r, moves) ==
  IF moves THEN actor.role \in {"SITE_ADMIN", "DEPARTMENT_ADMIN"} ELSE CanAccessRoom(actor, r)

LocationAllowed(actor, l, moves) ==
  \/ actor.role = "SITE_ADMIN"
  \/ ~moves /\ actor.scope \in Department /\ actor.scope = parent[l]
  \/ ~moves /\ actor.scope = l

DepartmentAllowed(actor, d) == actor.role = "SITE_ADMIN" \/ actor.scope = d

Allowed(actor, s, moves) ==
  /\ Stands(s)
  /\ s \in Room => RoomAllowed(actor, s, moves)
  /\ s \in Location => LocationAllowed(actor, s, moves)
  /\ s \in Department => ~moves /\ DepartmentAllowed(actor, s)

\* What the permission boundaries let no other role be granted.
MayBeGrantedDelete(role, s) ==
  role \in {"SITE_ADMIN", "DEPARTMENT_ADMIN"} \cup (IF s \in Room THEN {"LOCATION_ADMIN"} ELSE {})

AskPlace(u, s, p) ==
  /\ p \in Site => Stands(p)
  /\ s \notin Department => p \in Parents(s)
  /\ s \in Department => p = NoSite
  /\ MayCreate(Actor(u), s, p) \/ Allowed(Actor(u), s, TRUE)
  /\ Ask(u, [op |-> "place", site |-> s, parent |-> p])

\* The save writes every field of the loaded copy, its parent among them.
AskEdit(u, s) ==
  /\ Actor(u).role \in Admin /\ Allowed(Actor(u), s, FALSE)
  /\ Ask(u, [op |-> "place", site |-> s, parent |-> parent[s]])

AskRemove(u, s) ==
  /\ MayBeGrantedDelete(Actor(u).role, s) /\ Allowed(Actor(u), s, FALSE)
  /\ Ask(u, [op |-> "remove", site |-> s])

\* The relocation endpoint: one transaction under the site's lock, which saves
\* the parent only and asks for no role.
Relocate(u, s, p) ==
  /\ s \notin Department
  /\ Stands(s) /\ p \in Parents(s) /\ parent[s] # p
  /\ Place(s, p)
  /\ left' = left - 1
  /\ UNCHANGED <<request, assignment, active, founders, topics>>

-----------------------------------------------------------------------------
(* The saves *)

Done(u) == request' = [request EXCEPT ![u] = Idle] /\ UNCHANGED <<founders, topics, left>>

\* Deleted assignments are no longer anyone's active role.
Erase(gone) ==
  /\ assignment' = [i \in Row |-> IF i \in gone THEN Deleted ELSE assignment[i]]
  /\ active' = [u \in User |-> IF active[u] \in gone THEN NoRow ELSE active[u]]

Store(i, row) ==
  /\ ScopeStands(row) /\ Unique(i, row)
  /\ assignment' = [assignment EXCEPT ![i] = row]
  /\ UNCHANGED <<active, siteVars>>

SaveCreate(u) ==
  /\ request[u] # Idle /\ request[u].op = "create"
  /\ \E i \in Row : assignment[i] = Unborn /\ Store(i, request[u].row)
  /\ Done(u)

\* The copy is saved whole: it brings an assignment back that was deleted
\* since it was loaded.
SaveUpdate(u) ==
  /\ request[u] # Idle /\ request[u].op = "update"
  /\ Store(request[u].id, request[u].row)
  /\ Done(u)

SaveDelete(u) ==
  /\ request[u] # Idle /\ request[u].op = "delete"
  /\ Erase({request[u].id}) /\ Done(u) /\ UNCHANGED siteVars

SaveSwitch(u) ==
  /\ request[u] # Idle /\ request[u].op = "switch" /\ Held(request[u].id)
  /\ active' = [active EXCEPT ![u] = request[u].id]
  /\ Done(u) /\ UNCHANGED <<assignment, siteVars>>

SavePlace(u) ==
  /\ request[u] # Idle /\ request[u].op = "place"
  /\ Place(request[u].site, request[u].parent)
  /\ Done(u) /\ UNCHANGED <<assignment, active>>

\* The roles scoped by the site go with it.
SaveRemove(u) ==
  /\ request[u] # Idle /\ request[u].op = "remove"
  /\ Remove(request[u].site)
  /\ Erase({i \in Row : Held(i) /\ assignment[i].scope = request[u].site})
  /\ Done(u)

\* A constraint refuses the save, or the process ends first.
Fail(u) ==
  /\ request[u] # Idle /\ Done(u) /\ UNCHANGED <<siteVars, assignment, active>>

RoleStep(u) ==
  \/ Ready(u, "roles") /\ \E row \in Assignment : AskCreate(u, row)
  \/ Ready(u, "roles") /\ \E i \in Row : AskDelete(u, i) \/ AskSwitch(u, i)
  \/ Ready(u, "roles") /\ \E i \in Row, row \in Assignment : AskUpdate(u, i, row)
  \/ Ready(u, "sites") /\ \E s \in Site : AskEdit(u, s) \/ AskRemove(u, s)
  \/ Ready(u, "sites") /\ \E s \in Site, p \in Site \cup {NoSite} : AskPlace(u, s, p) \/ Relocate(u, s, p)
  \/ SaveCreate(u) \/ SaveUpdate(u) \/ SaveDelete(u) \/ SaveSwitch(u)
  \/ SavePlace(u) \/ Fail(u)

-----------------------------------------------------------------------------
(* What must hold *)

\* The list of assignments, the role list of a site with the permission to open
\* it, and the permission of a single assignment are each written anew, and
\* agree with the governance rule: on every tree, orphaned sites included, a
\* user finds of others exactly the assignments the user may manage.
VisibleIffManageable ==
  \A u \in User, i \in Row :
    LET row == assignment[i]  actor == Actor(u)
    IN Held(i) =>
         /\ row.user # u => (Visible(u, row) <=> CanManage(actor, row))
         /\ CanManage(actor, row) => CanAccessRow(actor, row)
         /\ row.scope \in Site => (ListedAt(row.scope, actor, row) <=> CanManage(actor, row))
         /\ \A a \in Site : ListedAt(a, actor, row) => CanManage(actor, row)

\* The scope contains the site, by the parents sites have or have had.
Contains(scope, s) ==
  \/ scope = AllSites \/ scope = s
  \/ <<s, scope>> \in under
  \/ \E l \in Location : <<s, l>> \in under /\ <<l, scope>> \in under

Founded(row) ==
  \/ row \in founders
  \/ \E f \in founders : row.role \in Manages(f.role) /\ Contains(f.scope, row.scope)

\* Authority only flows down: whatever chain of grants, updates, revocations
\* and moves led to an assignment, someone who held a role at the start could
\* have made it, by rank and by scope.
AuthorityIsFounded == \A i \in Row : Held(i) => Founded(assignment[i])
=============================================================================
