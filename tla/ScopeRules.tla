------------------------------ MODULE ScopeRules ------------------------------
(***************************************************************************)
(* Which rooms, assets and users a role reaches.  The rule is written many *)
(* times: as a filter for every list, as a check of every single object,   *)
(* and once more by each service.  The operators here are those            *)
(* formulations, over trees that moves and deletions have changed.         *)
(***************************************************************************)
EXTENDS Placement, AgreementCoverage

CONSTANT Creator      \* User.created_by, for each user

ASSUME CreatorAssumption == Creator \in [User -> User \cup {NoUser}]

-----------------------------------------------------------------------------
(* Lists of sites *)

RoomListed(actor, r) ==
  \/ actor.role = "SITE_ADMIN"
  \/ actor.scope \in Room /\ r = actor.scope
  \/ actor.scope \in Location /\ parent[r] = actor.scope
  \/ actor.scope \in Department /\ parent[r] \in Site /\ parent[parent[r]] = actor.scope

LocationListed(actor, l) ==
  \/ actor.role = "SITE_ADMIN"
  \/ actor.scope \in Location /\ l = actor.scope
  \/ actor.scope \in Department /\ parent[l] = actor.scope

DepartmentListed(actor, d) == actor.role = "SITE_ADMIN" \/ d = actor.scope

-----------------------------------------------------------------------------
(* Lists of what is in a room *)

RoomHierarchy(actor, r) == actor.scope \in Site /\ Within(r, actor.scope)

AuditListed(actor, r) == actor.role = "SITE_ADMIN" \/ RoomHierarchy(actor, r)

\* Accessories and consumables: also what is issued to the user.
StockListed(u, a) ==
  \/ Actor(u).role = "SITE_ADMIN"
  \/ Actor(u).scope \in Site /\ (RoomHierarchy(Actor(u), asset[a].room) \/ holder[a] = u)

BugComponentListed(actor, a) ==
  \/ actor.role = "SITE_ADMIN"
  \/ actor.scope \in Room /\ asset[a].room = actor.scope
  \/ actor.scope \in Location /\ LocationOf(asset[a].room) = actor.scope
  \/ actor.scope \in Department /\ LocationOf(asset[a].room) \in Location

ComponentListed(actor, a) ==
  \/ actor.role = "SITE_ADMIN"
  \/ actor.scope \in Room /\ asset[a].room = actor.scope
  \/ actor.scope \in Location /\ LocationOf(asset[a].room) = actor.scope
  \/ actor.scope \in Department /\ DepartmentOf(LocationOf(asset[a].room)) = actor.scope

AssignmentListed(actor, a) ==
  \/ actor.role = "SITE_ADMIN"
  \/ actor.scope \in Room /\ asset[a].room = actor.scope
  \/ actor.scope \in Location \cup Department /\ Within(asset[a].room, actor.scope)

\* What a user holds, as far as the viewer may see it.
AssetsShown(actor, v) ==
  {a \in LiveAssetsOf(v) :
     actor.role = "SITE_ADMIN" \/ (actor.scope \in Site /\ Within(asset[a].room, actor.scope))}

\* The same as a condition of the counts in the profile.
AssetsCounted(actor, v) ==
  {a \in Asset : /\ IsLive(a) /\ holder[a] = v /\ actor.role # "none"
                 /\ actor.scope \in Room => asset[a].room = actor.scope
                 /\ actor.scope \in Location => LocationOf(asset[a].room) = actor.scope
                 /\ actor.scope \in Department => DepartmentOf(LocationOf(asset[a].room)) = actor.scope}

\* get_assignment_room: the holder's room stands in for an asset without one.
CanAccessAssignment(actor, a) ==
  LET r == IF asset[a].room # NoSite THEN asset[a].room ELSE RoomOf(holder[a])
  IN r # NoSite /\ CanAccessRoom(actor, r)

-----------------------------------------------------------------------------
(* Users and where they sit *)

PlacementListed(actor, s) ==
  \/ actor.role = "SITE_ADMIN"
  \/ actor.scope \in Department /\ DepartmentOf(LocationOf(placement[s].room)) = actor.scope
  \/ actor.scope \in Location /\ LocationOf(placement[s].room) = actor.scope
  \/ actor.scope \in Room /\ placement[s].room = actor.scope

\* Return requests go by where the requester sits now.
RequestListed(actor, v) ==
  \/ actor.role = "SITE_ADMIN"
  \/ actor.scope \in Site /\ \E s \in SeatsOf(v) : Within(placement[s].room, actor.scope)

RowsOf(v) == {assignment[i] : i \in {j \in Row : Held(j) /\ assignment[j].user = v}}
SatWithin(v, site) ==
  \E s \in Seat : IsSeat(s) /\ placement[s].user = v /\ Within(placement[s].room, site)

\* The directory: a role at the very site, or a seat below it, now or before;
\* and for admins who has no role and whom a colleague created.
UserListed(u, v) ==
  LET actor == Actor(u) IN
  \/ actor.role = "SITE_ADMIN"
  \/ actor.scope \in Site /\ ((\E row \in RowsOf(v) : row.scope = actor.scope) \/ SatWithin(v, actor.scope))
  \/ /\ actor.role \in Admin /\ active[v] = NoRow
     /\ IF actor.scope \in Department
        THEN Creator[v] # NoUser /\ \E row \in RowsOf(Creator[v]) : row.scope = actor.scope
        ELSE Creator[v] = NoUser \/ RowsOf(Creator[v]) = {}
               \/ \E row \in RowsOf(Creator[v]) : row.scope \notin Department

\* UserScopeService.can_access_user, for the profile of one user.
CanAccessUser(actor, v) ==
  \/ actor.role = "SITE_ADMIN"
  \/ RoomOf(v) # NoSite /\ CanAccessRoom(actor, RoomOf(v))
  \/ \E row \in RowsOf(v) :
       \/ row.scope \in Room /\ CanAccessRoom(actor, row.scope)
       \/ row.scope \in Location /\ actor.scope \in {row.scope, parent[row.scope]} \cap Site
       \/ row.scope \in Department /\ actor.scope = row.scope

\* is_user_in_scope: a role above the actor's counts as well.
IsUserInScope(actor, v) ==
  \/ actor.role = "SITE_ADMIN"
  \/ RoomOf(v) # NoSite /\ IsInScope(actor, RoomOf(v))
  \/ \E row \in RowsOf(v) :
       actor.scope \in Site /\ (Within(row.scope, actor.scope) \/ Within(actor.scope, row.scope))

-----------------------------------------------------------------------------
(* What must hold *)

\* The formulations of a role's reach agree on every tree that moves and
\* deletions leave: what a list contains is what the check of the single object
\* admits, for rooms, assets, components, assignments, counts, placements and
\* users, and the services that decide by themselves decide the same.
ReachAgrees ==
  \A u \in User :
    LET actor == Actor(u) IN
    /\ \A r \in Room : Stands(r) =>
         /\ RoomListed(actor, r) <=> CanAccessRoom(actor, r)
         /\ AuditListed(actor, r) <=> CanAccessRoom(actor, r)
         /\ CanAccessRoom(actor, r) => IsInScope(actor, r)
    /\ \A l \in Location : Stands(l) => (LocationListed(actor, l) <=> MayOpenLocation(actor, l))
    /\ \A d \in Department : Stands(d) => (DepartmentListed(actor, d) <=> MayOpenDepartment(actor, d))
    /\ \A a \in Asset : IsAsset(a) /\ asset[a].room # NoSite =>
         LET reach == CanAccessAsset(actor, a) IN
         /\ Finds(u, a) <=> (reach \/ (holder[a] = u /\ actor.scope # NoSite))
         /\ StockListed(u, a) <=> Finds(u, a)
         /\ ComponentListed(actor, a) <=> reach
         /\ AssignmentListed(actor, a) <=> reach
         /\ HasCustodyScope(actor, a) <=> reach
         /\ holder[a] # NoUser => (CanAccessAssignment(actor, a) <=> reach)
    /\ \A v \in User :
         /\ AssetsShown(actor, v) = AssetsCounted(actor, v)
         /\ SeatsOf(v) # {} =>
              LET reach == CanAccessRoom(actor, RoomOf(v)) IN
              /\ CanAssignTo(actor, v) <=> reach
              /\ RequestListed(actor, v) <=> reach
              /\ \A s \in SeatsOf(v) : PlacementListed(actor, s) <=> reach
         /\ CanAccessUser(actor, v) => IsUserInScope(actor, v)
         /\ UserListed(u, v) /\ active[v] # NoRow =>
              \/ CanAccessUser(actor, v)
              \/ SatWithin(v, actor.scope) /\ (SeatsOf(v) # {} => ~Within(RoomOf(v), actor.scope))
=============================================================================
