---------------------------- MODULE AssetRecords ----------------------------
(***************************************************************************)
(* Pieces of equipment, accessories and consumables as records of a room:  *)
(* created, edited, soft-deleted, restored and deleted for good, while the *)
(* rooms move and vanish under them.  An edit saves the whole row that it   *)
(* loaded; deletions decide and write under the row's lock.                *)
(***************************************************************************)
EXTENDS RoleGovernance

CONSTANTS Asset,
          RoomChecked,   \* the assets whose serializer checks a new room: equipment
          NoUser

VARIABLES
  asset,    \* the rows: room, is_deleted
  holder    \* the user of the open assignment row, or NoUser

assetVars == <<asset, holder>>

\* Roles that may be granted assets.create and assets.update, and assets.delete.
Editor == Admin \cup {"ROOM_CLERK"}

AssetRow == [room: Room \cup {NoSite}, deleted: BOOLEAN]
AssetRequest == [op: {"asset"}, asset: Asset, row: AssetRow]

ASSUME AssetAssumption ==
  /\ RoomChecked \subseteq Asset /\ NoUser \notin User /\ {Unborn, Deleted} \cap AssetRow = {}

IsAsset(a) == asset[a] \notin {Unborn, Deleted}
IsLive(a) == IsAsset(a) /\ ~asset[a].deleted
RoomStands(r) == r \in Room /\ Stands(r)

AssetTypeOK ==
  /\ asset \in [Asset -> AssetRow \cup {Unborn, Deleted}]
  /\ holder \in [Asset -> User \cup {NoUser}]

AssetInit(rows, holders) ==
  /\ asset = rows /\ holder = holders
  /\ \A a \in Asset : IsAsset(a) /\ asset[a].room # NoSite => Stands(asset[a].room)

-----------------------------------------------------------------------------
(* Who may *)

\* can_access_asset: a room is needed, even by a site admin.
CanAccessAsset(actor, a) == asset[a].room # NoSite /\ CanAccessRoom(actor, asset[a].room)

\* A site and what it lies in.
Above(s) ==
  {s} \cup {t \in Site : Within(s, t)}

\* is_in_scope, asked about a room, its location and its department at once: it
\* holds already if the role's site is of the same department.
IsInScope(actor, r) ==
  \/ actor.role = "SITE_ADMIN"
  \/ actor.scope \in Site /\ Above(actor.scope) \cap Above(r) # {}

CanSoftDelete(actor, a) ==
  \/ actor.role = "SITE_ADMIN"
  \/ actor.role \in Editor /\ asset[a].room # NoSite /\ IsInScope(actor, asset[a].room)

\* The equipment a user's requests find: also what it holds.
Finds(u, a) ==
  \/ Actor(u).role = "SITE_ADMIN"
  \/ Actor(u).scope \in Site /\ (Within(asset[a].room, Actor(u).scope) \/ holder[a] = u)

-----------------------------------------------------------------------------
(* Creating and editing *)

AskCreateAsset(u, a, r) ==
  /\ Ready(u, "assets") /\ asset[a] = Unborn
  /\ Actor(u).role \in Editor /\ RoomStands(r)
  /\ a \in RoomChecked => CanAccessRoom(Actor(u), r)
  /\ Ask(u, [op |-> "asset", asset |-> a, row |-> [room |-> r, deleted |-> FALSE]])
  /\ UNCHANGED assetVars

AskEditAsset(u, a, r) ==
  /\ Ready(u, "assets") /\ IsAsset(a)
  /\ Actor(u).role \in Editor /\ Finds(u, a) /\ CanAccessAsset(Actor(u), a)
  /\ RoomStands(r)
  /\ a \in RoomChecked => CanAccessRoom(Actor(u), r)
  /\ Ask(u, [op |-> "asset", asset |-> a, row |-> [asset[a] EXCEPT !.room = r]])
  /\ UNCHANGED assetVars

\* The row is written whole, and inserted again if it is gone.
SaveAsset(u) ==
  /\ request[u] # Idle /\ request[u].op = "asset"
  /\ RoomStands(request[u].row.room)
  /\ asset' = [asset EXCEPT ![request[u].asset] = request[u].row]
  /\ Done(u) /\ UNCHANGED <<siteVars, assignment, active, holder>>

-----------------------------------------------------------------------------
(* Deleting and restoring: a request of one transaction under the row's lock *)

AtOnce(u) ==
  /\ Ready(u, "assets") /\ left' = left - 1
  /\ UNCHANGED <<siteVars, assignment, active, request, founders, topics>>

SetDeleted(u, a, value) ==
  /\ AtOnce(u) /\ IsAsset(a) /\ asset[a].deleted # value
  /\ Actor(u).role \in Admin /\ CanSoftDelete(Actor(u), a)
  /\ asset' = [asset EXCEPT ![a].deleted = value]
  /\ UNCHANGED holder

SoftDelete(u, a) == SetDeleted(u, a, TRUE)
Restore(u, a) == SetDeleted(u, a, FALSE)

\* The assignment row goes with the asset.
Vanish(u, a) ==
  /\ AtOnce(u) /\ IsAsset(a)
  /\ asset' = [asset EXCEPT ![a] = Deleted]
  /\ holder' = [holder EXCEPT ![a] = NoUser]

HardDelete(u, a) == Actor(u).role = "SITE_ADMIN" /\ Vanish(u, a)

\* DELETE of the detail page.
DestroyAsset(u, a) ==
  /\ IsAsset(a) /\ Actor(u).role \in Admin /\ Finds(u, a) /\ CanAccessAsset(Actor(u), a)
  /\ Vanish(u, a)

\* The deletion of a site: the assets of a room lose it.
AssetsLose(s) ==
  /\ asset' = [a \in Asset |-> IF IsAsset(a) /\ asset[a].room = s
                               THEN [asset[a] EXCEPT !.room = NoSite] ELSE asset[a]]
  /\ UNCHANGED holder

AssetStep(u) ==
  \/ \E a \in Asset, r \in Room : AskCreateAsset(u, a, r) \/ AskEditAsset(u, a, r)
  \/ SaveAsset(u)
  \/ \E a \in Asset : SoftDelete(u, a) \/ Restore(u, a) \/ HardDelete(u, a) \/ DestroyAsset(u, a)
=============================================================================
