------------------------------ MODULE SitePages ------------------------------
(***************************************************************************)
(* The pages of one department, location or room, and the reports about    *)
(* it.  A page is opened by a permission on its site and then lists        *)
(* everything below it, without the filter that the general lists have.    *)
(* Every level counts for itself.  The caps of the previews (20 rows) are  *)
(* not reached.                                                            *)
(***************************************************************************)
EXTENDS ScopeRules

Stock == Asset \ RoomChecked     \* accessories and consumables

-----------------------------------------------------------------------------
(* What the pages list *)

BugSeatedIn(rooms) ==
  {v \in User : \E s \in Seat : IsSeat(s) /\ placement[s].user = v /\ placement[s].room \in rooms}

SeatedIn(rooms) ==
  {placement[s].user : s \in {t \in Seat : IsSeat(t) /\ placement[t].current /\ placement[t].room \in rooms}}

LiveIn(rooms) == {a \in Asset : IsLive(a) /\ asset[a].room \in rooms}
AnyIn(rooms) == {a \in Asset : IsAsset(a) /\ asset[a].room \in rooms}

DepartmentLocations(d) == {l \in Location : parent[l] = d}
DepartmentRooms(d) == {r \in Room : DepartmentOf(LocationOf(r)) = d}
DepartmentUsers(d) == SeatedIn(DepartmentRooms(d))
DepartmentEquipment(d) == RoomChecked \cap LiveIn(DepartmentRooms(d))
DepartmentConsumables(d) == Stock \cap LiveIn(DepartmentRooms(d))
DepartmentAccessories(d) == Stock \cap LiveIn(DepartmentRooms(d))

LocationRooms(l) == {r \in Room : parent[r] = l}
LocationUsers(l) == SeatedIn(LocationRooms(l))
LocationEquipment(l) == RoomChecked \cap LiveIn(LocationRooms(l))
LocationConsumables(l) == Stock \cap LiveIn(LocationRooms(l))
LocationAccessories(l) == Stock \cap LiveIn(LocationRooms(l))

\* The stock lists of a room also show what is soft-deleted.
RoomUsers(r) == SeatedIn({r})
RoomEquipment(r) == RoomChecked \cap LiveIn({r})
RoomConsumables(r) == Stock \cap AnyIn({r})
RoomAccessories(r) == Stock \cap AnyIn({r})

\* The equipment whose components a page lists, deleted or not; these pages ask
\* for no permission on the site.
DepartmentComponents(d) == RoomChecked \cap AnyIn(DepartmentRooms(d))
LocationComponents(l) == RoomChecked \cap AnyIn(LocationRooms(l))
RoomComponents(r) == RoomChecked \cap AnyIn({r})

-----------------------------------------------------------------------------
(* The previews: written anew for each level *)

DepartmentOverview(d) ==
  [users  |-> {v \in User : SeatsOf(v) # {} /\ Within(RoomOf(v), d)},
   sites  |-> {l \in Location : parent[l] = d},
   assets |-> {a \in Asset : IsLive(a) /\ Within(asset[a].room, d)}]

LocationOverview(l) ==
  [users  |-> {v \in User : SeatsOf(v) # {} /\ Within(RoomOf(v), l)},
   sites  |-> {r \in Room : parent[r] = l},
   assets |-> {a \in Asset : IsLive(a) /\ Within(asset[a].room, l)}]

\* Any user may open the preview of a room.
RoomOverview(r) ==
  [users  |-> {v \in User : SeatsOf(v) # {} /\ RoomOf(v) = r},
   assets |-> {a \in Asset : IsLive(a) /\ asset[a].room = r}]

-----------------------------------------------------------------------------
(* The dashboards *)

\* The assets that count, and those of them that somebody holds.
Counts(assets) == [total |-> Cardinality(assets), held |-> Cardinality({a \in assets : holder[a] # NoUser})]

DepartmentEquipmentDashboard(d) == Counts(RoomChecked \cap LiveIn(DepartmentRooms(d)))
LocationEquipmentDashboard(l) == Counts(RoomChecked \cap LiveIn(LocationRooms(l)))
RoomEquipmentDashboard(r) == Counts(RoomChecked \cap AnyIn({r}))

AccessoryDashboard(rooms) == Counts(Stock \cap LiveIn(rooms))
ConsumableDashboard(rooms) == Cardinality(Stock \cap LiveIn(rooms))

\* The dashboard of a site counts the people who have a role there.
RoleScope(s) == {i \in Row : Held(i) /\ Within(assignment[i].scope, s)}
AreaDashboard(s) ==
  LET rooms == {r \in Room : Within(r, s)} IN
  [equipment |-> Counts(RoomChecked \cap LiveIn(rooms)),
   stock     |-> Cardinality(Stock \cap LiveIn(rooms)),
   users     |-> {assignment[i].user : i \in RoleScope(s)},
   admins    |-> {assignment[i].user : i \in {j \in RoleScope(s) : assignment[j].role \in Admin}}]

-----------------------------------------------------------------------------
(* The reports *)

\* resolve_inventory_scope; AllSites for the whole organisation.
ReportRooms(s) ==
  IF s = AllSites THEN {r \in Room : Stands(r)} ELSE {r \in Room : Within(r, s)}

\* The roles the summary counts: none above the level of its site.
ReportRoles(s) ==
  {i \in Row : /\ Held(i)
               /\ s = AllSites \/ Within(assignment[i].scope, s)
               /\ s \in Department => assignment[i].role \notin SiteRole
               /\ s \in Location => assignment[i].role \notin SiteRole \cup DepartmentRole
               /\ s \in Room => assignment[i].role \in RoomRole}

InventorySummary(s) ==
  [equipment |-> RoomChecked \cap LiveIn(ReportRooms(s)),
   stock     |-> Stock \cap LiveIn(ReportRooms(s)),
   users     |-> SeatedIn(ReportRooms(s))]

\* Its rows: one for each site of the next level.
Parts(s) ==
  IF s = AllSites THEN {d \in Department : Stands(d)}
  ELSE IF s \in Department THEN {l \in Location : parent[l] = s}
  ELSE IF s \in Location THEN {r \in Room : parent[r] = s}
  ELSE {}

\* The report of a site's assets has the soft-deleted ones too.
SiteAssetReport(s) ==
  {a \in Asset : IsAsset(a) /\ Within(asset[a].room, s)}

-----------------------------------------------------------------------------
(* What must hold *)

MayOpen(actor, s) ==
  /\ s \in Room => MayOpenRoom(actor, s)
  /\ s \in Location => MayOpenLocation(actor, s)
  /\ s \in Department => MayOpenDepartment(actor, s)

\* Whoever opens a page may open everything on it: the pages have no filter of
\* their own, so that the permission on their site must imply those on each
\* site, asset and seat they list, on every tree that moves and deletions leave.
PagesAdmitted ==
  \A u \in User :
    LET actor == Actor(u)
        Opens(rooms, users, assets) ==
          /\ \A r \in rooms : RoomListed(actor, r) /\ MayOpen(actor, r)
          /\ \A v \in users : CanAccessUser(actor, v) /\ \E s \in SeatsOf(v) : PlacementListed(actor, s)
          /\ \A a \in assets : Finds(u, a) /\ CanAccessAsset(actor, a) /\ IsInScope(actor, asset[a].room)
    IN /\ \A d \in Department : Stands(d) /\ MayOpen(actor, d) =>
            /\ \A l \in DepartmentLocations(d) : LocationListed(actor, l) /\ MayOpen(actor, l)
            /\ Opens(DepartmentRooms(d), DepartmentUsers(d), DepartmentEquipment(d)
                       \cup DepartmentConsumables(d) \cup DepartmentAccessories(d))
       /\ \A l \in Location : Stands(l) /\ MayOpen(actor, l) =>
            Opens(LocationRooms(l), LocationUsers(l), LocationEquipment(l)
                    \cup LocationConsumables(l) \cup LocationAccessories(l))
       /\ \A r \in Room : Stands(r) /\ MayOpen(actor, r) =>
            Opens({r}, RoomUsers(r), RoomEquipment(r) \cup RoomConsumables(r) \cup RoomAccessories(r))

\* The levels add up: a preview, a dashboard and a report of a site tell of what
\* its lists show, the parts of a summary make up the whole (but for what hangs
\* on orphaned sites, which no department counts), and a dashboard counts the
\* people whose roles a site admin finds in the site's role list.
LevelsAddUp ==
  /\ \A d \in Department : Stands(d) =>
       LET o == DepartmentOverview(d)  sum == InventorySummary(d)  area == AreaDashboard(d) IN
       /\ o = [users |-> DepartmentUsers(d), sites |-> DepartmentLocations(d),
               assets |-> DepartmentEquipment(d) \cup DepartmentAccessories(d)]
       /\ area.equipment = DepartmentEquipmentDashboard(d)
       /\ area.stock = ConsumableDashboard(DepartmentRooms(d))
       /\ sum.users = o.users /\ sum.equipment \cup sum.stock = o.assets
  /\ \A l \in Location : Stands(l) =>
       LET o == LocationOverview(l)  sum == InventorySummary(l)  area == AreaDashboard(l) IN
       /\ o = [users |-> LocationUsers(l), sites |-> LocationRooms(l),
               assets |-> LocationEquipment(l) \cup LocationConsumables(l)]
       /\ area.equipment = LocationEquipmentDashboard(l)
       /\ area.stock = AccessoryDashboard(LocationRooms(l)).total
       /\ sum.users = o.users /\ sum.equipment \cup sum.stock = o.assets
  /\ \A r \in Room : Stands(r) =>
       LET o == RoomOverview(r) IN
       /\ o.users = RoomUsers(r) /\ o.assets \subseteq RoomEquipment(r) \cup RoomAccessories(r)
       /\ RoomEquipmentDashboard(r).total = Cardinality(RoomChecked \cap SiteAssetReport(r))
  /\ \A s \in Site \cup {AllSites} : (s \in Site => Stands(s)) =>
       LET whole == InventorySummary(s)
           parts == {InventorySummary(p) : p \in Parts(s)}
           lost == {r \in Room : DepartmentOf(LocationOf(r)) = NoSite}
       IN s \notin Room =>
            /\ UNION {p.users : p \in parts} = whole.users \ (IF s = AllSites THEN SeatedIn(lost) ELSE {})
            /\ UNION {p.equipment : p \in parts} = whole.equipment \ (IF s = AllSites THEN LiveIn(lost) ELSE {})
  /\ \A s \in Site : Stands(s) =>
       /\ RoleScope(s) = {i \in Row : Held(i) /\ ListedAt(s, [role |-> "SITE_ADMIN", scope |-> AllSites], assignment[i])}
       /\ ReportRoles(s) = RoleScope(s)
=============================================================================
